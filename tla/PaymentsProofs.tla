---------------------------- MODULE PaymentsProofs ----------------------------
(***************************************************************************)
(* Payments, for any number of clients, webhooks and wallets: every        *)
(* reachable state is well typed, the gas tank keeps its promises within   *)
(* the whole payment, and the two histories show what there is.  The       *)
(* histories are sorted lists: Sorts says what sorting returns, and rests  *)
(* on the places of SortBy being a permutation of 1..n.                    *)
(***************************************************************************)
EXTENDS Payments, GasTankProofs, FiniteSetTheorems, WellFoundedInduction

LEMMA PayeesAddresses == Payees \subseteq Addresses
BY PaymentsAssumption DEF PaymentsAssumption

(* Every step of a payment is one of the gas tank's or leaves it alone.    *)
LEMMA GasTankSteps == [Next]_vars => [GasNext]_gasVars
<1> SUFFICES ASSUME [Next]_vars PROVE [GasNext]_gasVars
  OBVIOUS
<1>1. ASSUME NEW c \in Clients, AskForGas(c) PROVE GasNext
  BY <1>1 DEF AskForGas, GasNext
<1>2. ASSUME NEW c \in Clients, NEW a \in Addresses, Pay(c, a) PROVE GasNext
  BY <1>2 DEF Pay, GasNext
<1>3. CASE TankMines
  BY <1>3 DEF TankMines, GasNext
<1>4. ASSUME NEW c \in Clients, Create(c) \/ Update(c) PROVE UNCHANGED gasVars
  BY <1>4 DEF Create, Update
<1>5. ASSUME NEW c \in Clients, NEW a \in Addresses, gaslessTxn(c, a)
      PROVE  UNCHANGED gasVars
  BY <1>5 DEF gaslessTxn
<1>6. ASSUME NEW h \in Hooks, NEW c \in Clients, Report(h, c) PROVE UNCHANGED gasVars
  BY <1>6 DEF Report
<1>7. ASSUME NEW w \in Writers, Acknowledged(w) \/ Refused(w) PROVE UNCHANGED gasVars
  BY <1>7 DEF Acknowledged, Refused
<1>9. CASE ArrivesLate
  BY <1>9 DEF ArrivesLate
<1>8. CASE UNCHANGED vars
  BY <1>8 DEF vars
<1> QED BY <1>1, <1>2, <1>3, <1>4, <1>5, <1>6, <1>7, <1>8, <1>9, PayeesAddresses DEF Next

(* The payments contain a gas tank, as GasTankProofs specifies it.         *)
THEOREM TankWithin == Spec => GasSpec
<1>1. Init => GasInit
  BY DEF Init
<1> QED BY <1>1, GasTankSteps, PTL DEF Spec, GasSpec

(* Every client of a payment that is told its gas was sent has it.         *)
THEOREM PaymentsGranted == Spec => []GasGranted
BY TankWithin, GasIsGranted, PTL

(* No payment's wallet is filled beyond its bound but by overlapping       *)
(* requests of its own.                                                    *)
THEOREM PaymentsBounded == Spec => []NeverOverfunded
BY TankWithin, WalletsBounded, PTL

-----------------------------------------------------------------------------
(* Types: a transfer's hash is its place on the chain, and every client    *)
(* transfers once.                                                         *)
Transferring == {c \in Clients : phase[c] = "transfer"}

ChainInv == Len(chain) + Cardinality(Transferring) = Cardinality(Clients) + Len(Earlier)

PaymentsInv == TypeOK /\ ChainInv

LEMMA ClientsFinite ==
    /\ IsFiniteSet(Clients) /\ Cardinality(Clients) \in Nat
    /\ IsFiniteSet(Transferring) /\ Cardinality(Transferring) \in Nat
    /\ Earlier \in Seq(Transfer) /\ Len(Earlier) \in Nat
<1>1. IsFiniteSet(Clients) /\ Earlier \in Seq(Transfer)
  BY PaymentsAssumption DEF PaymentsAssumption
<1>2. Transferring \subseteq Clients
  BY DEF Transferring
<1>3. IsFiniteSet(Transferring)
  BY <1>1, <1>2, FS_Subset
<1>4. Len(Earlier) \in Nat
  BY <1>1, LenProperties
<1> QED BY <1>1, <1>3, <1>4, FS_CardinalityType

LEMMA PaymentsInit == Init => PaymentsInv
<1> SUFFICES ASSUME Init PROVE PaymentsInv
  OBVIOUS
<1>1. GasTypeOK
  BY GasTypeInit DEF Init
<1>2. ApiTypeOK
  BY DEF Init, ApiInit, StoreInit, ApiTypeOK
<1>3. Writers = Clients \cup Hooks /\ MaxFailures \in Nat
  BY PaymentsAssumption DEF PaymentsAssumption
<1>4. phase \in [Writers -> {"transfer", "create", "creating", "update", "updating", "done"}]
  BY DEF Init
<1>5. /\ hashOf \in [Clients -> Hashes \cup {None}] /\ failures \in 0..MaxFailures
      /\ chain \in Seq(Transfer)
  BY <1>3, ClientsFinite DEF Init
<1>6. Transferring = Clients
  BY <1>3 DEF Init, Transferring
<1>7. ChainInv
  BY <1>6, ClientsFinite DEF Init, ChainInv
<1> QED BY <1>1, <1>2, <1>4, <1>5, <1>7 DEF PaymentsInv, TypeOK

-----------------------------------------------------------------------------
(* The three requests to the table, its writes and their failures.         *)
LEMMA PostTyped ==
    ASSUME ApiTypeOK, NEW w \in Writers, NEW item \in Item, Post(w, item)
    PROVE  ApiTypeOK'
<1>1. PICK now \in Now :
        clock' = now /\ write' = [write EXCEPT ![w] = [item EXCEPT !.at = now]]
  BY DEF Post
<1>2. now \in Nat
  BY StoreAssumption DEF StoreAssumption, Now, ApiTypeOK
<1>3. [item EXCEPT !.at = now] \in Item
  BY <1>2 DEF Item
<1> QED BY <1>1, <1>2, <1>3 DEF Post, ApiTypeOK

LEMMA WriteTyped ==
    ASSUME ApiTypeOK, NEW w \in Writers, Written(w) \/ WriteFails(w) \/ Forsaken(w)
    PROVE  ApiTypeOK'
<1>1. write[w] \in Item
  BY DEF Written, WriteFails, Forsaken, ApiTypeOK
<1>2. CASE Written(w)
  BY <1>1, <1>2 DEF Written, PutItem, Put, ApiTypeOK
<1>3. CASE WriteFails(w)
  BY <1>3 DEF WriteFails, ApiTypeOK
<1>4. CASE Forsaken(w)
  BY <1>1, <1>4 DEF Forsaken, ApiTypeOK
<1> QED BY <1>2, <1>3, <1>4

LEMMA LateTyped ==
    ASSUME ApiTypeOK, NEW item, WrittenLate(item)
    PROVE  ApiTypeOK'
BY DEF WrittenLate, PutItem, Put, ApiTypeOK

-----------------------------------------------------------------------------
(* A transfer finds its place on the chain free.                           *)
LEMMA TransferTyped ==
    ASSUME PaymentsInv, NEW c \in Clients, NEW peer \in Addresses,
           Moves(c, "transfer", "create"), Transferred(c, peer)
    PROVE  /\ chain' \in Seq(Transfer) /\ hashOf' \in [Clients -> Hashes \cup {None}]
           /\ Len(chain) \in Nat /\ Len(chain') = Len(chain) + 1 /\ Len(chain) + 1 \in Hashes
           /\ ChainInv'
<1> DEFINE t == [wallet |-> WalletOf[c], dir |-> "OUT", peer |-> peer,
                 delta |-> 1, hash |-> Len(chain) + 1, at |-> Len(chain) + 1]
<1>1. chain \in Seq(Transfer) /\ Len(chain) \in Nat
  BY LenProperties DEF PaymentsInv, TypeOK
<1>2. c \in Writers /\ phase \in [Writers -> {"transfer", "create", "creating", "update", "updating", "done"}]
  BY PaymentsAssumption DEF PaymentsAssumption, PaymentsInv, TypeOK
<1>3. c \in Transferring /\ Transferring' = Transferring \ {c}
  BY <1>2 DEF Moves, Transferring
<1>4. /\ Cardinality(Transferring') = Cardinality(Transferring) - 1
      /\ 1 <= Cardinality(Transferring)
  <2>1. Cardinality(Transferring \ {c}) = Cardinality(Transferring) - 1
    BY <1>3, ClientsFinite, FS_RemoveElement
  <2>2. Cardinality(Transferring) # 0
    BY <1>3, ClientsFinite, FS_EmptySet
  <2> QED BY <1>3, <2>1, <2>2, ClientsFinite
<1>5. Len(chain) + Cardinality(Transferring) = Cardinality(Clients) + Len(Earlier)
  BY DEF PaymentsInv, ChainInv
<1>6. Len(chain) + 1 \in 1 .. Cardinality(Clients) + Len(Earlier)
  BY <1>1, <1>4, <1>5, ClientsFinite
<1>7. Len(chain) + 1 \in Hashes
  BY <1>6, PaymentsAssumption DEF PaymentsAssumption
<1>8. t \in Transfer
  <2>1. WalletOf[c] \in Wallets
    BY GasTankAssumption DEF GasTankAssumption
  <2> QED BY <1>1, <1>7, <2>1 DEF Transfer
<1>9. chain' = Append(chain, t) /\ hashOf' = [hashOf EXCEPT ![c] = Len(chain) + 1]
  BY DEF Transferred
<1>10. chain' \in Seq(Transfer) /\ Len(chain') = Len(chain) + 1
  BY <1>1, <1>8, <1>9, AppendProperties
<1>11. hashOf' \in [Clients -> Hashes \cup {None}]
  BY <1>7, <1>9 DEF PaymentsInv, TypeOK
<1>12. ChainInv'
  BY <1>1, <1>4, <1>5, <1>10, ClientsFinite DEF ChainInv
<1> QED BY <1>1, <1>7, <1>10, <1>11, <1>12

(* A step that leaves the chain alone takes nobody past its transfer.      *)
LEMMA ChainKept ==
    ASSUME TypeOK, ChainInv, UNCHANGED chain, NEW w \in Writers, NEW from, NEW to,
           Moves(w, from, to), from # "transfer", to # "transfer"
    PROVE  ChainInv'
<1>1. Transferring' = Transferring
  <2>1. phase' = [phase EXCEPT ![w] = to] /\ phase[w] # "transfer"
    BY DEF Moves
  <2>2. \A c \in Clients : phase'[c] = "transfer" <=> phase[c] = "transfer"
    BY <2>1, PaymentsAssumption DEF TypeOK, PaymentsAssumption
  <2> QED BY <2>2 DEF Transferring
<1> QED BY <1>1 DEF ChainInv

LEMMA PhaseTyped ==
    ASSUME TypeOK, NEW w \in Writers, NEW from,
           NEW to \in {"transfer", "create", "creating", "update", "updating", "done"},
           Moves(w, from, to)
    PROVE  phase' \in [Writers -> {"transfer", "create", "creating", "update", "updating", "done"}]
  BY DEF Moves, TypeOK

LEMMA PaymentsStep == PaymentsInv /\ [Next]_vars => PaymentsInv'
<1> SUFFICES ASSUME PaymentsInv, [Next]_vars PROVE PaymentsInv'
  OBVIOUS
<1>0. TypeOK /\ ChainInv /\ ApiTypeOK /\ GasTypeOK
  BY DEF PaymentsInv, TypeOK
<1>1. GasTypeOK'
  BY <1>0, GasTankSteps, GasTypeStep
<1>2. /\ TxIds = Clients /\ Clients \subseteq Writers /\ Hooks \subseteq Writers
      /\ WalletOf \in [Clients -> Users] /\ MaxFailures \in Nat
  BY PaymentsAssumption, GasTankAssumption DEF PaymentsAssumption, GasTankAssumption
<1>3. /\ phase \in [Writers -> {"transfer", "create", "creating", "update", "updating", "done"}]
      /\ hashOf \in [Clients -> Hashes \cup {None}]
      /\ chain \in Seq(Transfer)
      /\ failures \in 0..MaxFailures
  BY <1>0 DEF TypeOK
<1>4. UNCHANGED failures \/ Failure => failures' \in 0..MaxFailures
  BY <1>2, <1>3 DEF Failure
<1>5. ASSUME UNCHANGED <<phase, chain>> PROVE ChainInv'
  <2>1. Transferring' = Transferring
    BY <1>5 DEF Transferring
  <2> QED BY <1>0, <1>5, <2>1 DEF ChainInv
<1>6. ASSUME UNCHANGED apiVars PROVE ApiTypeOK'
  BY <1>0, <1>6 DEF apiVars, ApiTypeOK
<1>7. ASSUME NEW c \in Clients, AskForGas(c) PROVE PaymentsInv'
  <2>1. UNCHANGED <<apiVars, phase, hashOf, chain>> /\ (UNCHANGED failures \/ Failure)
    BY <1>7 DEF AskForGas
  <2> QED BY <1>1, <1>3, <1>4, <1>5, <1>6, <2>1 DEF PaymentsInv, TypeOK
<1>8. CASE TankMines \/ UNCHANGED vars
  <2>1. UNCHANGED <<apiVars, phase, hashOf, chain, failures>>
    BY <1>8 DEF TankMines, vars
  <2> QED BY <1>1, <1>3, <1>4, <1>5, <1>6, <2>1 DEF PaymentsInv, TypeOK
<1>9. ASSUME NEW c \in Clients, NEW a \in Addresses, Pay(c, a) \/ gaslessTxn(c, a)
      PROVE  PaymentsInv'
  <2>1. /\ Moves(c, "transfer", "create") /\ Transferred(c, a)
        /\ UNCHANGED <<apiVars, failures>>
    BY <1>9 DEF Pay, gaslessTxn
  <2>2. /\ chain' \in Seq(Transfer) /\ hashOf' \in [Clients -> Hashes \cup {None}]
        /\ ChainInv'
    BY <2>1, TransferTyped
  <2>3. phase' \in [Writers -> {"transfer", "create", "creating", "update", "updating", "done"}]
    BY <1>0, <1>2, <2>1, PhaseTyped
  <2> QED BY <1>1, <1>4, <1>6, <2>1, <2>2, <2>3 DEF PaymentsInv, TypeOK
<1>10. ASSUME NEW w \in Writers, NEW item \in Item, Post(w, item),
              NEW from \in {"create", "update"}, NEW to \in {"creating", "updating"},
              Moves(w, from, to), UNCHANGED <<gasVars, hashOf, chain, failures>>
       PROVE  PaymentsInv'
  <2>1. ApiTypeOK'
    BY <1>0, <1>10, PostTyped
  <2>2. phase' \in [Writers -> {"transfer", "create", "creating", "update", "updating", "done"}]
    BY <1>0, <1>10, PhaseTyped
  <2>3. ChainInv'
    BY <1>0, <1>10, ChainKept
  <2> QED BY <1>1, <1>3, <1>4, <1>10, <2>1, <2>2, <2>3 DEF PaymentsInv, TypeOK
<1>11. ASSUME NEW c \in Clients, Create(c) \/ Update(c) PROVE PaymentsInv'
  <2>1. ASSUME NEW status \in {"created", "updated"}
        PROVE  [txId |-> c, user |-> WalletOf[c], hash |-> hashOf[c],
                status |-> status, at |-> 0] \in Item
    BY <1>2, <1>3 DEF Item
  <2>2. CASE Create(c)
    <3>1. Post(c, [txId |-> c, user |-> WalletOf[c], hash |-> hashOf[c],
                   status |-> "created", at |-> 0])
      BY <2>2 DEF Create, createUserTransaction
    <3> QED BY <1>2, <1>10, <2>1, <2>2, <3>1 DEF Create
  <2>3. CASE Update(c)
    <3>1. Post(c, [txId |-> c, user |-> WalletOf[c], hash |-> hashOf[c],
                   status |-> "updated", at |-> 0])
      BY <2>3 DEF Update, updateTransaction
    <3> QED BY <1>2, <1>10, <2>1, <2>3, <3>1 DEF Update
  <2> QED BY <1>11, <2>2, <2>3
<1>12. ASSUME NEW h \in Hooks, NEW c \in Clients, Report(h, c) PROVE PaymentsInv'
  <2>1. [txId |-> c, user |-> None, hash |-> None, status |-> "reported", at |-> 0] \in Item
    BY <1>2 DEF Item
  <2>2. Post(h, [txId |-> c, user |-> None, hash |-> None, status |-> "reported", at |-> 0])
    BY <1>12 DEF Report, sendTransactionStatus
  <2> QED BY <1>2, <1>10, <1>12, <2>1, <2>2 DEF Report
<1>13. ASSUME NEW w \in Writers, Acknowledged(w) \/ Refused(w) PROVE PaymentsInv'
  <2>1. /\ Written(w) \/ WriteFails(w) \/ Forsaken(w)
        /\ UNCHANGED <<gasVars, hashOf, chain>> /\ (UNCHANGED failures \/ Failure)
    BY <1>13 DEF Acknowledged, Refused
  <2>2. ApiTypeOK'
    BY <1>0, <2>1, WriteTyped
  <2>3. PICK from \in {"creating", "updating"}, to \in {"create", "update", "done"} :
          Moves(w, from, to)
    BY <1>13 DEF Acknowledged, Refused
  <2>4. phase' \in [Writers -> {"transfer", "create", "creating", "update", "updating", "done"}]
    BY <1>0, <2>3, PhaseTyped
  <2>5. ChainInv'
    BY <1>0, <2>1, <2>3, ChainKept
  <2> QED BY <1>1, <1>3, <1>4, <2>1, <2>2, <2>4, <2>5 DEF PaymentsInv, TypeOK
<1>14. CASE ArrivesLate
  <2>1. UNCHANGED <<phase, hashOf, chain, failures>>
    BY <1>14 DEF ArrivesLate
  <2>2. ApiTypeOK'
    BY <1>0, <1>14, LateTyped DEF ArrivesLate
  <2> QED BY <1>1, <1>3, <1>4, <1>5, <2>1, <2>2 DEF PaymentsInv, TypeOK
<1> QED BY <1>7, <1>8, <1>9, <1>11, <1>12, <1>13, <1>14, PayeesAddresses DEF Next

(* Every reachable state of the payments is well typed, and each transfer  *)
(* has a place of its own on the chain.                                    *)
THEOREM PaymentsHeld == Spec => []PaymentsInv
BY PaymentsInit, PaymentsStep, PTL DEF Spec

(* Every reachable state of the payments is well typed (TypeOK).           *)
THEOREM PaymentsTyped == Spec => []TypeOK
<1>1. PaymentsInv => TypeOK
  BY DEF PaymentsInv
<1> QED BY <1>1, PaymentsHeld, PTL

-----------------------------------------------------------------------------
(* What is acknowledged is shown, when the clock moves between two         *)
(* readings.  Every item then has a stamp of its own, so that no write     *)
(* replaces an item, and an item is newer than those posted before it.     *)
Waiting(w) == write[w] # None

Arrived == rows \cup late

Stamped ==
    /\ \A r \in Arrived : r.at <= clock
    /\ \A w \in Writers : Waiting(w) => write[w].at <= clock

Distinct ==
    /\ \A q, r \in Arrived : q.at = r.at => q = r
    /\ rows \cap late = {}
    /\ \A w \in Writers : Waiting(w) => \A r \in Arrived : r.at # write[w].at
    /\ \A v, w \in Writers :
           Waiting(v) /\ Waiting(w) /\ write[v].at = write[w].at => v = w

(* An item with a hash is its client's, and a client's next one is newer.  *)
Owned ==
    /\ \A r \in Arrived : r.hash # None =>
           r.txId \in Clients /\ r.hash = hashOf[r.txId] /\ r.user = WalletOf[r.txId]
    /\ \A w \in Writers : Waiting(w) /\ write[w].hash # None =>
           /\ w \in Clients
           /\ write[w].txId = w /\ write[w].hash = hashOf[w] /\ write[w].user = WalletOf[w]
           /\ \A r \in Arrived : r.hash = write[w].hash => r.at < write[w].at
    /\ \A c \in Clients : phase[c] \in {"creating", "updating"} =>
           /\ Waiting(c) /\ write[c].hash = hashOf[c]
           /\ phase[c] = "updating" => write[c].status = "updated"

(* Each client that has transferred has a hash of its own.                 *)
Hashed ==
    /\ \A c \in Clients : phase[c] = "transfer" <=> hashOf[c] = None
    /\ \A c \in Clients : hashOf[c] # None => hashOf[c] \in 1..Len(chain)
    /\ \A c, d \in Clients : hashOf[c] # None /\ hashOf[c] = hashOf[d] => c = d

Recorded ==
    \A c \in Clients : phase[c] \in {"update", "updating", "done"} =>
        \E r \in rows :
            /\ r.hash = hashOf[c]
            /\ phase[c] = "done" =>
                   /\ r.status = "updated"
                   /\ \A q \in Arrived : q.hash = hashOf[c] => q.at <= r.at

ShownInv == Stamped /\ Distinct /\ Owned /\ Hashed /\ Recorded

LEMMA ShownInit == Init => ShownInv
<1> SUFFICES ASSUME Init PROVE ShownInv
  OBVIOUS
<1>1. /\ rows = {} /\ late = {} /\ Arrived = {}
      /\ \A w \in Writers : ~Waiting(w)
      /\ \A c \in Clients : phase[c] = "transfer" /\ hashOf[c] = None
  BY PaymentsAssumption DEF PaymentsAssumption, Init, ApiInit, StoreInit, Arrived, Waiting
<1> QED BY <1>1 DEF ShownInv, Stamped, Distinct, Owned, Hashed, Recorded

(* What shows a client its payment.                                        *)
LEMMA InvShown == TypeOK /\ ShownInv => AcknowledgedShown
<1> SUFFICES ASSUME TypeOK, ShownInv, NEW c \in Clients,
                    phase[c] \in {"update", "updating", "done"},
                    NEW r \in getTransactionByTxnHash(rows, hashOf[c])
             PROVE  /\ r # None
                    /\ r.txId = c /\ r.user = WalletOf[c]
                    /\ phase[c] = "done" => r.status = "updated"
  BY DEF AcknowledgedShown
<1>1. PICK m \in rows :
        /\ m.hash = hashOf[c]
        /\ phase[c] = "done" =>
               /\ m.status = "updated"
               /\ \A q \in Arrived : q.hash = hashOf[c] => q.at <= m.at
  BY DEF ShownInv, Recorded
<1>2. r \in rows /\ r.hash = hashOf[c] /\ m.at <= r.at
  BY <1>1 DEF getTransactionByTxnHash, Lookup, Latest
<1>3. hashOf[c] # None
  BY DEF ShownInv, Hashed
<1>4. r \in Item /\ m \in Item /\ None \notin Item /\ r \in Arrived /\ m \in Arrived
  BY <1>1, <1>2, ApiAssumption DEF TypeOK, ApiTypeOK, ApiAssumption, Arrived
<1>5. r.txId \in Clients /\ r.hash = hashOf[r.txId] /\ r.user = WalletOf[r.txId]
  BY <1>2, <1>3, <1>4 DEF ShownInv, Owned
<1>6. r.txId = c
  BY <1>2, <1>3, <1>5 DEF ShownInv, Hashed
<1>7. ASSUME phase[c] = "done" PROVE r.status = "updated"
  <2>1. r.at <= m.at /\ r.at \in Nat /\ m.at \in Nat
    BY <1>1, <1>2, <1>4, <1>7 DEF Item
  <2>2. r = m
    BY <1>2, <1>4, <2>1 DEF ShownInv, Distinct
  <2> QED BY <1>1, <1>7, <2>2
<1> QED BY <1>4, <1>5, <1>6, <1>7

(* A write with a stamp of its own is added to the table.                  *)
LEMMA PutAdds ==
    ASSUME NEW item, \A r \in rows : r.at # item.at, PutItem(item)
    PROVE  rows' = rows \cup {item}
BY DEF PutItem, Put

(* Stamps stay apart, whatever happens to a request.                       *)
LEMMA PostStamps ==
    ASSUME TypeOK, 0 \notin Advance, Stamped, Distinct,
           NEW w \in Writers, NEW item \in Item, Post(w, item)
    PROVE  /\ Stamped' /\ Distinct' /\ Arrived' = Arrived
           /\ \E now \in Nat : /\ write' = [write EXCEPT ![w] = [item EXCEPT !.at = now]]
                               /\ \A r \in Arrived : r.at < now
<1>1. PICK now \in Now :
        clock' = now /\ write' = [write EXCEPT ![w] = [item EXCEPT !.at = now]]
  BY DEF Post
<1>2. now \in Nat /\ clock \in Nat /\ clock < now
  BY StoreAssumption DEF StoreAssumption, Now, TypeOK, ApiTypeOK
<1>3. /\ write \in [Writers -> Item \cup {None}] /\ None \notin Item
      /\ Arrived \subseteq Item
  BY ApiAssumption DEF ApiAssumption, TypeOK, ApiTypeOK, Arrived
<1>4. [item EXCEPT !.at = now] \in Item /\ [item EXCEPT !.at = now].at = now
  BY <1>2 DEF Item
<1>5. /\ write'[w].at = now /\ \A v \in Writers \ {w} : write'[v] = write[v]
      /\ rows' = rows /\ late' = late /\ Arrived' = Arrived
  BY <1>1, <1>3, <1>4 DEF Post, Arrived
<1>6. \A r \in Item : r.at \in Nat
  BY DEF Item
<1>7. \A r \in Arrived : r.at < now
  BY <1>2, <1>3, <1>6 DEF Stamped
<1>8. \A v \in Writers \ {w} : write[v] # None => write[v].at < now
  BY <1>2, <1>3, <1>6 DEF Stamped, Waiting
<1>9. Stamped'
  <2>1. \A r \in Arrived' : r.at <= clock'
    BY <1>1, <1>2, <1>3, <1>5, <1>6, <1>7
  <2>2. ASSUME NEW v \in Writers, Waiting(v)' PROVE write'[v].at <= clock'
    <3>1. CASE v = w
      BY <1>1, <1>2, <1>5, <3>1
    <3>2. CASE v # w
      <4>1. write[v] \in Item /\ write'[v] = write[v] /\ write[v].at < now
        BY <1>3, <1>5, <1>8, <2>2, <3>2 DEF Waiting
      <4> QED BY <1>1, <1>2, <1>6, <4>1
    <3> QED BY <3>1, <3>2
  <2> QED BY <2>1, <2>2 DEF Stamped
<1>10. Distinct'
  <2>1. /\ \A q, r \in Arrived' : q.at = r.at => q = r
        /\ rows' \cap late' = {}
    BY <1>5 DEF Distinct
  <2>2. ASSUME NEW v \in Writers, Waiting(v)', NEW r \in Arrived' PROVE r.at # write'[v].at
    <3>1. CASE v = w
      BY <1>2, <1>3, <1>5, <1>6, <1>7, <3>1
    <3>2. CASE v # w
      BY <1>5, <2>2, <3>2 DEF Distinct, Waiting
    <3> QED BY <3>1, <3>2
  <2>3. ASSUME NEW u \in Writers, NEW v \in Writers, Waiting(u)', Waiting(v)',
               write'[u].at = write'[v].at
        PROVE  u = v
    <3>1. CASE u # w /\ v # w
      BY <1>5, <2>3, <3>1 DEF Distinct, Waiting
    <3>2. CASE (u = w) # (v = w)
      <4>1. PICK x \in Writers \ {w} : write[x] # None /\ write[x].at = now
        BY <1>5, <2>3, <3>2 DEF Waiting
      <4> QED BY <1>2, <1>8, <4>1
    <3> QED BY <3>1, <3>2
  <2> QED BY <2>1, <2>2, <2>3 DEF Distinct
<1> QED BY <1>1, <1>2, <1>5, <1>7, <1>9, <1>10

(* A request that ends leaves its item on the table, on its way or nowhere.*)
LEMMA EndStamps ==
    ASSUME TypeOK, Stamped, Distinct, NEW w \in Writers,
           Written(w) \/ WriteFails(w) \/ Forsaken(w)
    PROVE  /\ Stamped' /\ Distinct' /\ write[w] \in Item
           /\ write' = [write EXCEPT ![w] = None]
           /\ Arrived' = Arrived \cup {write[w]} \/ Arrived' = Arrived
           /\ Written(w) => rows' = rows \cup {write[w]} /\ late' = late
           /\ ~Written(w) => rows' = rows
<1>1. /\ write[w] # None /\ write[w] \in Item /\ write' = [write EXCEPT ![w] = None]
      /\ clock' = clock /\ Waiting(w)
  BY DEF Written, WriteFails, Forsaken, TypeOK, ApiTypeOK, Waiting
<1>2. \A r \in Arrived : r.at # write[w].at
  BY <1>1 DEF Distinct
<1>3. Written(w) => rows' = rows \cup {write[w]} /\ late' = late
  BY <1>2, PutAdds DEF Written, Arrived
<1>4. WriteFails(w) => rows' = rows /\ late' = late
  BY DEF WriteFails
<1>5. Forsaken(w) => rows' = rows /\ late' = late \cup {write[w]}
  BY DEF Forsaken
<1>6. ~Written(w) => rows' = rows
  BY <1>4, <1>5
<1>7. Arrived' = Arrived \cup {write[w]} \/ Arrived' = Arrived
  BY <1>3, <1>4, <1>5 DEF Arrived
<1>8. /\ write'[w] = None /\ \A v \in Writers \ {w} : write'[v] = write[v]
      /\ \A v \in Writers : Waiting(v)' => Waiting(v) /\ v # w /\ write'[v] = write[v]
  BY <1>1 DEF TypeOK, ApiTypeOK, Waiting
<1>9. Stamped'
  BY <1>1, <1>7, <1>8 DEF Stamped
<1>10. Distinct'
  <2>1. \A q, r \in Arrived' : q.at = r.at => q = r
    BY <1>2, <1>7 DEF Distinct
  <2>2. rows' \cap late' = {}
    BY <1>2, <1>3, <1>4, <1>5 DEF Distinct, Arrived
  <2>3. \A v \in Writers : Waiting(v)' => \A r \in Arrived' : r.at # write'[v].at
    BY <1>1, <1>7, <1>8 DEF Distinct
  <2>4. \A u, v \in Writers :
          Waiting(u)' /\ Waiting(v)' /\ write'[u].at = write'[v].at => u = v
    BY <1>8 DEF Distinct
  <2> QED BY <2>1, <2>2, <2>3, <2>4 DEF Distinct
<1> QED BY <1>1, <1>3, <1>6, <1>7, <1>9, <1>10

LEMMA LateStamps ==
    ASSUME Stamped, Distinct, NEW item, WrittenLate(item)
    PROVE  /\ Stamped' /\ Distinct' /\ Arrived' = Arrived /\ write' = write
           /\ rows' = rows \cup {item} /\ item \in Arrived
<1>1. item \in late /\ item \in Arrived /\ write' = write /\ clock' = clock
  BY DEF WrittenLate, Arrived
<1>2. \A r \in rows : r.at # item.at
  BY <1>1 DEF Distinct, Arrived
<1>3. rows' = rows \cup {item} /\ late' = late \ {item}
  BY <1>2, PutAdds DEF WrittenLate
<1>4. Arrived' = Arrived
  BY <1>1, <1>3 DEF Arrived
<1>5. Stamped'
  BY <1>1, <1>4 DEF Stamped, Waiting
<1>6. rows' \cap late' = {}
  BY <1>3 DEF Distinct
<1>7. Distinct'
  BY <1>1, <1>4, <1>6 DEF Distinct, Waiting
<1> QED BY <1>1, <1>3, <1>4, <1>5, <1>7

-----------------------------------------------------------------------------
(* The steps of a payment, and what each keeps.                            *)
LEMMA TransferShown ==
    ASSUME PaymentsInv, ShownInv, NEW c \in Clients, NEW peer \in Addresses,
           Moves(c, "transfer", "create"), Transferred(c, peer), UNCHANGED apiVars
    PROVE  ShownInv'
<1>1. /\ phase[c] = "transfer" /\ phase' = [phase EXCEPT ![c] = "create"]
      /\ hashOf' = [hashOf EXCEPT ![c] = Len(chain) + 1]
      /\ hashOf[c] = None
  BY DEF Moves, Transferred, ShownInv, Hashed
<1>2. /\ phase \in [Writers -> {"transfer", "create", "creating", "update", "updating", "done"}]
      /\ hashOf \in [Clients -> Hashes \cup {None}] /\ chain \in Seq(Transfer)
      /\ Clients \subseteq Writers
  BY PaymentsAssumption DEF PaymentsAssumption, PaymentsInv, TypeOK
<1>3. Len(chain) \in Nat /\ Len(chain') = Len(chain) + 1 /\ Len(chain) + 1 \in Hashes
  BY TransferTyped
<1>4. hashOf'[c] = Len(chain) + 1 /\ hashOf'[c] # None
  <2>1. Len(chain) + 1 # None
    BY <1>3, StoreAssumption DEF StoreAssumption
  <2> QED BY <1>1, <1>2, <2>1
<1>5. \A d \in Clients \ {c} : hashOf'[d] = hashOf[d] /\ phase'[d] = phase[d]
  BY <1>1, <1>2
<1>6. /\ rows' = rows /\ late' = late /\ write' = write /\ clock' = clock /\ Arrived' = Arrived
      /\ \A w \in Writers : Waiting(w)' <=> Waiting(w)
  BY DEF apiVars, Arrived, Waiting
<1>7. Stamped' /\ Distinct'
  BY <1>6 DEF ShownInv, Stamped, Distinct, Waiting
<1>8. phase'[c] = "create"
  BY <1>1, <1>2
<1>9. Owned'
  <2>1. ASSUME NEW r \in Arrived, r.hash # None
        PROVE  r.txId \in Clients /\ r.hash = hashOf'[r.txId] /\ r.user = WalletOf[r.txId]
    <3>1. r.txId \in Clients /\ r.hash = hashOf[r.txId] /\ r.user = WalletOf[r.txId]
      BY <2>1 DEF ShownInv, Owned
    <3> QED BY <1>1, <1>5, <2>1, <3>1
  <2>2. ASSUME NEW w \in Writers, Waiting(w), write[w].hash # None
        PROVE  /\ w \in Clients
               /\ write[w].txId = w /\ write[w].hash = hashOf'[w] /\ write[w].user = WalletOf[w]
               /\ \A r \in Arrived : r.hash = write[w].hash => r.at < write[w].at
    <3>1. /\ w \in Clients
          /\ write[w].txId = w /\ write[w].hash = hashOf[w] /\ write[w].user = WalletOf[w]
          /\ \A r \in Arrived : r.hash = write[w].hash => r.at < write[w].at
      BY <2>2 DEF ShownInv, Owned
    <3> QED BY <1>1, <1>5, <2>2, <3>1
  <2>3. ASSUME NEW d \in Clients, phase'[d] \in {"creating", "updating"}
        PROVE  /\ Waiting(d) /\ write[d].hash = hashOf'[d]
               /\ phase'[d] = "updating" => write[d].status = "updated"
    BY <1>5, <1>8, <2>3 DEF ShownInv, Owned
  <2> QED BY <1>2, <1>6, <2>1, <2>2, <2>3 DEF Owned
<1>10. Hashed'
  <2>1. \A d \in Clients : phase'[d] = "transfer" <=> hashOf'[d] = None
    BY <1>4, <1>5, <1>8 DEF ShownInv, Hashed
  <2>2. \A d \in Clients : hashOf'[d] # None => hashOf'[d] \in 1..Len(chain')
    BY <1>3, <1>4, <1>5 DEF ShownInv, Hashed
  <2>3. ASSUME NEW d \in Clients, NEW e \in Clients, hashOf'[d] # None, hashOf'[d] = hashOf'[e]
        PROVE  d = e
    <3>1. CASE d # c /\ e # c
      BY <1>5, <2>3, <3>1 DEF ShownInv, Hashed
    <3>2. CASE (d = c) # (e = c)
      <4>1. PICK x \in Clients \ {c} : hashOf[x] = Len(chain) + 1 /\ hashOf[x] # None
        BY <1>4, <1>5, <2>3, <3>2
      <4>2. hashOf[x] \in 1..Len(chain)
        BY <4>1 DEF ShownInv, Hashed
      <4> QED BY <1>3, <4>1, <4>2
    <3> QED BY <3>1, <3>2
  <2> QED BY <2>1, <2>2, <2>3 DEF Hashed
<1>11. Recorded'
  <2>1. ASSUME NEW d \in Clients, phase'[d] \in {"update", "updating", "done"}
        PROVE  d # c /\ phase'[d] = phase[d] /\ hashOf'[d] = hashOf[d]
    BY <1>5, <1>8, <2>1
  <2> QED BY <1>6, <2>1 DEF ShownInv, Recorded
<1> QED BY <1>7, <1>9, <1>10, <1>11 DEF ShownInv

(* A client posts an item of its own.                                      *)
LEMMA ClientPosts ==
    ASSUME PaymentsInv, ShownInv, 0 \notin Advance, NEW c \in Clients,
           Create(c) \/ Update(c)
    PROVE  ShownInv'
<1>1. PICK status \in {"created", "updated"}, to \in {"creating", "updating"} :
        /\ Post(c, [txId |-> c, user |-> WalletOf[c], hash |-> hashOf[c],
                    status |-> status, at |-> 0])
        /\ phase' = [phase EXCEPT ![c] = to] /\ (to = "updating" => status = "updated")
        /\ phase[c] = (IF to = "updating" THEN "update" ELSE "create")
        /\ UNCHANGED <<hashOf, chain>>
  <2>1. CASE Create(c)
    BY <2>1 DEF Create, Moves, createUserTransaction
  <2>2. CASE Update(c)
    BY <2>2 DEF Update, Moves, updateTransaction
  <2> QED BY <2>1, <2>2
<1> DEFINE item == [txId |-> c, user |-> WalletOf[c], hash |-> hashOf[c],
                    status |-> status, at |-> 0]
<1>2. /\ phase \in [Writers -> {"transfer", "create", "creating", "update", "updating", "done"}]
      /\ hashOf \in [Clients -> Hashes \cup {None}] /\ TypeOK /\ write \in [Writers -> Item \cup {None}]
      /\ Clients \subseteq Writers /\ TxIds = Clients /\ WalletOf \in [Clients -> Users]
      /\ None \notin Item
  BY PaymentsAssumption, GasTankAssumption, ApiAssumption
     DEF PaymentsAssumption, GasTankAssumption, ApiAssumption, PaymentsInv, TypeOK, ApiTypeOK
<1>3. item \in Item
  BY <1>2 DEF Item
<1>4. /\ Stamped' /\ Distinct' /\ Arrived' = Arrived
      /\ \E now \in Nat : /\ write' = [write EXCEPT ![c] = [item EXCEPT !.at = now]]
                          /\ \A r \in Arrived : r.at < now
  BY <1>1, <1>2, <1>3, PostStamps DEF ShownInv
<1>5. PICK now \in Nat : /\ write' = [write EXCEPT ![c] = [item EXCEPT !.at = now]]
                         /\ \A r \in Arrived : r.at < now
  BY <1>4
<1>6. /\ write'[c] = [item EXCEPT !.at = now] /\ write'[c] \in Item
      /\ write'[c].txId = c /\ write'[c].user = WalletOf[c] /\ write'[c].hash = hashOf[c]
      /\ write'[c].status = status /\ write'[c].at = now
  BY <1>2, <1>3, <1>5 DEF Item
<1>7. /\ \A w \in Writers \ {c} : write'[w] = write[w] /\ phase'[w] = phase[w]
      /\ phase'[c] = to /\ rows' = rows
  BY <1>1, <1>2, <1>5 DEF Post
<1>8. Owned'
  <2>1. \A r \in Arrived' : r.hash # None =>
          r.txId \in Clients /\ r.hash = hashOf'[r.txId] /\ r.user = WalletOf[r.txId]
    BY <1>1, <1>4 DEF ShownInv, Owned
  <2>2. ASSUME NEW w \in Writers, Waiting(w)', write'[w].hash # None
        PROVE  /\ w \in Clients
               /\ write'[w].txId = w /\ write'[w].hash = hashOf'[w] /\ write'[w].user = WalletOf[w]
               /\ \A r \in Arrived' : r.hash = write'[w].hash => r.at < write'[w].at
    <3>1. CASE w = c
      BY <1>1, <1>4, <1>5, <1>6, <3>1
    <3>2. CASE w # c
      BY <1>1, <1>4, <1>7, <2>2, <3>2 DEF ShownInv, Owned, Waiting
    <3> QED BY <3>1, <3>2
  <2>3. ASSUME NEW d \in Clients, phase'[d] \in {"creating", "updating"}
        PROVE  /\ Waiting(d)' /\ write'[d].hash = hashOf'[d]
               /\ phase'[d] = "updating" => write'[d].status = "updated"
    <3>1. CASE d = c
      BY <1>1, <1>2, <1>6, <1>7, <3>1 DEF Waiting
    <3>2. CASE d # c
      BY <1>1, <1>2, <1>7, <2>3, <3>2 DEF ShownInv, Owned, Waiting
    <3> QED BY <3>1, <3>2
  <2> QED BY <2>1, <2>2, <2>3 DEF Owned
<1>9. Hashed'
  BY <1>1, <1>2, <1>7 DEF ShownInv, Hashed
<1>10. Recorded'
  <2>1. ASSUME NEW d \in Clients, phase'[d] \in {"update", "updating", "done"}
        PROVE  phase[d] \in {"update", "updating", "done"} /\ (phase'[d] = "done" => phase[d] = "done")
    BY <1>1, <1>2, <1>7, <2>1
  <2> QED BY <1>1, <1>4, <1>7, <2>1 DEF ShownInv, Recorded
<1> QED BY <1>4, <1>8, <1>9, <1>10 DEF ShownInv

(* A webhook's item has no hash.                                           *)
LEMMA HookPosts ==
    ASSUME PaymentsInv, ShownInv, 0 \notin Advance, NEW h \in Hooks, NEW c \in Clients,
           Report(h, c)
    PROVE  ShownInv'
<1> DEFINE item == [txId |-> c, user |-> None, hash |-> None, status |-> "reported", at |-> 0]
<1>1. /\ Post(h, item) /\ phase' = [phase EXCEPT ![h] = "updating"]
      /\ UNCHANGED <<hashOf, chain>>
  BY DEF Report, Moves, sendTransactionStatus
<1>2. /\ phase \in [Writers -> {"transfer", "create", "creating", "update", "updating", "done"}]
      /\ TypeOK /\ write \in [Writers -> Item \cup {None}]
      /\ Clients \subseteq Writers /\ TxIds = Clients /\ h \in Writers /\ h \notin Clients
  BY PaymentsAssumption DEF PaymentsAssumption, PaymentsInv, TypeOK, ApiTypeOK
<1>3. item \in Item
  BY <1>2 DEF Item
<1>4. /\ Stamped' /\ Distinct' /\ Arrived' = Arrived
      /\ \E now \in Nat : /\ write' = [write EXCEPT ![h] = [item EXCEPT !.at = now]]
                          /\ \A r \in Arrived : r.at < now
  BY <1>1, <1>2, <1>3, PostStamps DEF ShownInv
<1>5. PICK now \in Nat : write' = [write EXCEPT ![h] = [item EXCEPT !.at = now]]
  BY <1>4
<1>6. write'[h].hash = None
  BY <1>2, <1>3, <1>5 DEF Item
<1>7. /\ \A w \in Writers \ {h} : write'[w] = write[w] /\ phase'[w] = phase[w]
      /\ rows' = rows
  BY <1>1, <1>2, <1>5 DEF Post
<1>8. Owned'
  <2>1. \A r \in Arrived' : r.hash # None =>
          r.txId \in Clients /\ r.hash = hashOf'[r.txId] /\ r.user = WalletOf[r.txId]
    BY <1>1, <1>4 DEF ShownInv, Owned
  <2>2. ASSUME NEW w \in Writers, Waiting(w)', write'[w].hash # None
        PROVE  /\ w \in Clients
               /\ write'[w].txId = w /\ write'[w].hash = hashOf'[w] /\ write'[w].user = WalletOf[w]
               /\ \A r \in Arrived' : r.hash = write'[w].hash => r.at < write'[w].at
    BY <1>1, <1>4, <1>6, <1>7, <2>2 DEF ShownInv, Owned, Waiting
  <2>3. ASSUME NEW d \in Clients, phase'[d] \in {"creating", "updating"}
        PROVE  /\ Waiting(d)' /\ write'[d].hash = hashOf'[d]
               /\ phase'[d] = "updating" => write'[d].status = "updated"
    BY <1>1, <1>2, <1>7, <2>3 DEF ShownInv, Owned, Waiting
  <2> QED BY <2>1, <2>2, <2>3 DEF Owned
<1>9. \A d \in Clients : phase'[d] = phase[d]
  BY <1>2, <1>7
<1>10. Hashed' /\ Recorded'
  BY <1>1, <1>4, <1>7, <1>9 DEF ShownInv, Hashed, Recorded
<1> QED BY <1>4, <1>8, <1>10 DEF ShownInv

(* A request ends, well or not.                                            *)
LEMMA RequestEnds ==
    ASSUME PaymentsInv, ShownInv, NEW w \in Writers, Acknowledged(w) \/ Refused(w)
    PROVE  ShownInv'
<1>1. /\ Written(w) \/ WriteFails(w) \/ Forsaken(w)
      /\ UNCHANGED <<hashOf, chain>>
  BY DEF Acknowledged, Refused
<1>2. /\ phase \in [Writers -> {"transfer", "create", "creating", "update", "updating", "done"}]
      /\ TypeOK /\ write \in [Writers -> Item \cup {None}] /\ None \notin Item
      /\ Clients \subseteq Writers
  BY PaymentsAssumption, ApiAssumption
     DEF PaymentsAssumption, ApiAssumption, PaymentsInv, TypeOK, ApiTypeOK
<1>3. /\ Stamped' /\ Distinct' /\ write[w] \in Item
      /\ write' = [write EXCEPT ![w] = None]
      /\ Arrived' = Arrived \cup {write[w]} \/ Arrived' = Arrived
      /\ Written(w) => rows' = rows \cup {write[w]} /\ late' = late
      /\ ~Written(w) => rows' = rows
  BY <1>1, <1>2, EndStamps DEF ShownInv
<1>4. PICK to \in {"create", "update", "done"} :
        /\ phase' = [phase EXCEPT ![w] = to] /\ phase[w] \in {"creating", "updating"}
        /\ to = "create" => phase[w] = "creating"
        /\ to = "done" => phase[w] = "updating" /\ Written(w)
        /\ to = "update" => phase[w] = "updating" \/ Written(w)
  BY DEF Acknowledged, Refused, Moves
<1>5. /\ \A v \in Writers : Waiting(v)' => Waiting(v) /\ v # w /\ write'[v] = write[v]
      /\ \A v \in Writers \ {w} : (Waiting(v)' <=> Waiting(v)) /\ write'[v] = write[v] /\ phase'[v] = phase[v]
      /\ phase'[w] = to /\ Waiting(w)
  BY <1>2, <1>3, <1>4 DEF Waiting
<1>6. write[w].hash # None =>
        /\ w \in Clients
        /\ write[w].txId = w /\ write[w].hash = hashOf[w] /\ write[w].user = WalletOf[w]
        /\ \A r \in Arrived : r.hash = write[w].hash => r.at < write[w].at
  BY <1>5 DEF ShownInv, Owned
<1>7. Hashed'
  BY <1>1, <1>2, <1>4, <1>5 DEF ShownInv, Hashed
<1>8. \A d \in Clients : d # w /\ hashOf[d] # None => write[w].hash # hashOf[d]
  BY <1>6 DEF ShownInv, Hashed
<1>9. Owned'
  <2>1. \A r \in Arrived' : r.hash # None =>
          r.txId \in Clients /\ r.hash = hashOf'[r.txId] /\ r.user = WalletOf[r.txId]
    BY <1>1, <1>3, <1>6 DEF ShownInv, Owned
  <2>2. ASSUME NEW v \in Writers, Waiting(v)', write'[v].hash # None
        PROVE  /\ v \in Clients
               /\ write'[v].txId = v /\ write'[v].hash = hashOf'[v] /\ write'[v].user = WalletOf[v]
               /\ \A r \in Arrived' : r.hash = write'[v].hash => r.at < write'[v].at
    <3>1. Waiting(v) /\ v # w /\ write'[v] = write[v]
      BY <1>5, <2>2
    <3>2. /\ v \in Clients
          /\ write[v].txId = v /\ write[v].hash = hashOf[v] /\ write[v].user = WalletOf[v]
          /\ \A r \in Arrived : r.hash = write[v].hash => r.at < write[v].at
      BY <2>2, <3>1 DEF ShownInv, Owned
    <3>3. write[w].hash # write[v].hash
      BY <1>8, <2>2, <3>1, <3>2
    <3> QED BY <1>1, <1>3, <3>1, <3>2, <3>3
  <2>3. ASSUME NEW d \in Clients, phase'[d] \in {"creating", "updating"}
        PROVE  /\ Waiting(d)' /\ write'[d].hash = hashOf'[d]
               /\ phase'[d] = "updating" => write'[d].status = "updated"
    <3>1. d # w /\ phase'[d] = phase[d] /\ d \in Writers
      BY <1>2, <1>5, <2>3
    <3>2. Waiting(d) /\ write[d].hash = hashOf[d] /\ (phase[d] = "updating" => write[d].status = "updated")
      BY <2>3, <3>1 DEF ShownInv, Owned
    <3> QED BY <1>1, <1>5, <3>1, <3>2
  <2> QED BY <2>1, <2>2, <2>3 DEF Owned
<1>10. ASSUME NEW d \in Clients, phase'[d] \in {"update", "updating", "done"}
       PROVE  \E r \in rows' :
                 /\ r.hash = hashOf'[d]
                 /\ phase'[d] = "done" =>
                        /\ r.status = "updated"
                        /\ \A q \in Arrived' : q.hash = hashOf'[d] => q.at <= r.at
  <2>1. hashOf'[d] = hashOf[d] /\ rows \subseteq rows' /\ d \in Writers
    BY <1>1, <1>2, <1>3
  <2>2. CASE d # w
    <3>1. phase'[d] = phase[d] /\ hashOf[d] # None
      BY <1>5, <1>10, <2>1, <2>2 DEF ShownInv, Hashed
    <3>2. PICK r \in rows :
            /\ r.hash = hashOf[d]
            /\ phase[d] = "done" =>
                   /\ r.status = "updated"
                   /\ \A q \in Arrived : q.hash = hashOf[d] => q.at <= r.at
      BY <1>10, <3>1 DEF ShownInv, Recorded
    <3>3. \A q \in Arrived' : q.hash = hashOf[d] => q \in Arrived
      BY <1>3, <1>8, <2>2, <3>1
    <3> QED BY <2>1, <3>1, <3>2, <3>3
  <2>3. CASE d = w /\ ~Written(w)
    <3>1. phase[d] = "updating" /\ phase'[d] = "update"
      BY <1>4, <1>5, <1>10, <2>3
    <3>2. PICK r \in rows : r.hash = hashOf[d]
      BY <3>1 DEF ShownInv, Recorded
    <3> QED BY <2>1, <3>1, <3>2
  <2>4. CASE d = w /\ Written(w)
    <3>1. /\ write[d].hash = hashOf[d] /\ (phase[d] = "updating" => write[d].status = "updated")
          /\ hashOf[d] # None
      BY <1>4, <2>4 DEF ShownInv, Owned, Hashed
    <3>2. \A r \in Arrived : r.hash = write[d].hash => r.at < write[d].at
      BY <1>6, <2>4, <3>1
    <3>4. write[d] \in rows'
      BY <1>3, <2>4
    <3>5. \A q \in Arrived' : q.hash = hashOf[d] => q.at <= write[d].at
      <4>1. \A q \in Arrived \cup {write[d]} : q.at \in Nat
        BY <1>2, <1>3, <2>4 DEF Arrived, TypeOK, ApiTypeOK, Item
      <4> QED BY <1>3, <2>4, <3>1, <3>2, <4>1
    <3>6. phase'[d] = "done" => write[d].status = "updated"
      BY <1>4, <1>5, <2>4, <3>1
    <3> QED BY <2>1, <3>1, <3>4, <3>5, <3>6
  <2> QED BY <2>2, <2>3, <2>4
<1>11. Recorded'
  BY <1>10 DEF Recorded
<1> QED BY <1>3, <1>7, <1>9, <1>11 DEF ShownInv

LEMMA LateShown ==
    ASSUME PaymentsInv, ShownInv, ArrivesLate
    PROVE  ShownInv'
<1>1. PICK item \in late : WrittenLate(item)
  BY DEF ArrivesLate
<1>2. UNCHANGED <<phase, hashOf, chain>>
  BY DEF ArrivesLate
<1>3. /\ Stamped' /\ Distinct' /\ Arrived' = Arrived /\ write' = write
      /\ rows' = rows \cup {item} /\ item \in Arrived
  BY <1>1, LateStamps DEF ShownInv
<1>4. Owned'
  BY <1>2, <1>3 DEF ShownInv, Owned, Waiting
<1>5. Hashed' /\ Recorded'
  BY <1>2, <1>3 DEF ShownInv, Hashed, Recorded
<1> QED BY <1>3, <1>4, <1>5 DEF ShownInv

LEMMA ShownStep ==
    ASSUME 0 \notin Advance
    PROVE  PaymentsInv /\ ShownInv /\ [Next]_vars => ShownInv'
<1> SUFFICES ASSUME PaymentsInv, ShownInv, [Next]_vars PROVE ShownInv'
  OBVIOUS
<1>1. ASSUME UNCHANGED <<apiVars, phase, hashOf, chain>> PROVE ShownInv'
  <2>1. /\ UNCHANGED <<rows, late, write, clock, phase, hashOf, chain>>
        /\ Arrived' = Arrived
    BY <1>1 DEF apiVars, Arrived
  <2>2. Stamped' /\ Distinct' /\ Owned'
    BY <2>1 DEF ShownInv, Stamped, Distinct, Owned, Waiting
  <2>3. Hashed' /\ Recorded'
    BY <2>1 DEF ShownInv, Hashed, Recorded
  <2> QED BY <2>2, <2>3 DEF ShownInv
<1>2. ASSUME NEW c \in Clients, AskForGas(c) PROVE ShownInv'
  BY <1>1, <1>2 DEF AskForGas
<1>3. CASE TankMines \/ UNCHANGED vars
  BY <1>1, <1>3 DEF TankMines, vars
<1>4. ASSUME NEW c \in Clients, NEW a \in Payees, Pay(c, a) \/ gaslessTxn(c, a)
      PROVE  ShownInv'
  <2>1. Moves(c, "transfer", "create") /\ Transferred(c, a) /\ UNCHANGED apiVars
    BY <1>4 DEF Pay, gaslessTxn
  <2> QED BY <2>1, PayeesAddresses, TransferShown
<1> QED BY <1>2, <1>3, <1>4, ClientPosts, HookPosts, RequestEnds, LateShown DEF Next

(* Once a client's creation, or its update, has been acknowledged, the     *)
(* lookup by its hash finds its transaction, and the update: whatever      *)
(* webhooks report, however requests fail, are repeated or arrive late,    *)
(* provided that two readings of the clock differ.                         *)
THEOREM PaymentsShown ==
    ASSUME 0 \notin Advance
    PROVE  Spec => []AcknowledgedShown
<1>1. Init => ShownInv
  BY ShownInit
<1>2. PaymentsInv /\ ShownInv /\ [Next]_vars => ShownInv'
  BY ShownStep
<1>3. PaymentsInv /\ ShownInv => AcknowledgedShown
  BY InvShown DEF PaymentsInv
<1> QED BY <1>1, <1>2, <1>3, PaymentsHeld, PTL DEF Spec

-----------------------------------------------------------------------------
(* Lists: extreme indexes, lengths, and what sorting by a key returns.     *)
(* A set of numbers has a least one, and one below n a greatest.           *)
LEMMA Least ==
    ASSUME NEW S \in SUBSET Nat, S # {}
    PROVE  \E n \in S : \A m \in S : n <= m
<1> DEFINE R == {ss \in Nat \X Nat : ss[1] < ss[2]}
<1>1. IsWellFoundedOn(R, Nat)
  BY NatLessThanWellFounded, Zenon DEF OpToRel
<1>2. \A m, n \in Nat : m < n => <<m, n>> \in R
  OBVIOUS
<1> HIDE DEF R
<1>3. PICK x \in S : \A y \in S : ~(<<y, x>> \in R)
  <2>1. S \subseteq Nat
    OBVIOUS
  <2> QED BY <1>1, <2>1, WFMin
<1>4. ASSUME NEW y \in S PROVE x <= y
  <2>1. x \in Nat /\ y \in Nat
    OBVIOUS
  <2>2. ~(y < x)
    BY <1>2, <1>3, <2>1
  <2> QED BY <2>1, <2>2
<1> QED BY <1>4

LEMMA Greatest ==
    ASSUME NEW n \in Nat, NEW S \in SUBSET (1..n), S # {}
    PROVE  \E l \in S : \A m \in S : m <= l
<1> DEFINE T == {j \in 1..n : n + 1 - j \in S}
<1>1. T \subseteq Nat
  OBVIOUS
<1>2. T # {}
  <2>1. PICK l \in S : TRUE
    OBVIOUS
  <2>2. n + 1 - l \in 1..n /\ n + 1 - (n + 1 - l) = l
    OBVIOUS
  <2> QED BY <2>1, <2>2
<1>3. PICK k \in T : \A j \in T : k <= j
  <2> HIDE DEF T
  <2> QED BY <1>1, <1>2, Least
<1>4. ASSUME NEW m \in S PROVE m <= n + 1 - k
  <2>1. n + 1 - m \in 1..n /\ n + 1 - (n + 1 - m) = m
    OBVIOUS
  <2>2. k <= n + 1 - m
    BY <1>3, <2>1
  <2> QED BY <2>1, <2>2
<1> QED BY <1>3, <1>4

(* A list is as long as its numbers say.                                   *)
LEMMA ListLength ==
    ASSUME NEW n \in Nat, NEW T, NEW s, s \in [1..n -> T]
    PROVE  s \in Seq(T) /\ Len(s) = n /\ DOMAIN s = 1..n
<1>1. s \in Seq(T)
  BY SeqDef
<1>2. Len(s) \in Nat /\ DOMAIN s = 1..Len(s)
  BY <1>1, LenProperties
<1>3. 1..n = 1..Len(s)
  BY <1>2
<1> QED BY <1>1, <1>2, <1>3

(* The index at each place of a sorted list: every index has one place,    *)
(* and the keys never fall.                                                *)
Sorting(f, s, D, key) ==
    /\ f \in [1..Cardinality(D) -> D]
    /\ \A i \in D : \E k \in 1..Cardinality(D) : f[k] = i
    /\ \A a, b \in 1..Cardinality(D) : a < b => f[a] # f[b] /\ key[f[a]] <= key[f[b]]
    /\ SortBy(s, D, key) = [k \in 1..Cardinality(D) |-> s[f[k]]]

(* SortBy sorts.                                                           *)
LEMMA Sorts ==
    ASSUME NEW s, NEW D, IsFiniteSet(D), D \subseteq Nat, NEW key, key \in [D -> Int]
    PROVE  Cardinality(D) \in Nat /\ \E f : Sorting(f, s, D, key)
<1> DEFINE n == Cardinality(D)
           Rk(i) == Cardinality(UpTo(i, D, key))
           p == [i \in D |-> Rk(i)]
<1>1. n \in Nat
  BY FS_CardinalityType
<1>2. \A i \in D : i \in UpTo(i, D, key) /\ UpTo(i, D, key) \in SUBSET D
  BY DEF UpTo
<1>3. \A i \in D : IsFiniteSet(UpTo(i, D, key)) /\ Rk(i) \in Nat /\ Rk(i) <= n /\ Rk(i) # 0
  <2> SUFFICES ASSUME NEW i \in D
               PROVE  IsFiniteSet(UpTo(i, D, key)) /\ Rk(i) \in Nat /\ Rk(i) <= n /\ Rk(i) # 0
    OBVIOUS
  <2>1. IsFiniteSet(UpTo(i, D, key)) /\ Rk(i) <= n
    BY <1>2, FS_Subset
  <2>2. Rk(i) \in Nat
    BY <2>1, FS_CardinalityType
  <2>3. Rk(i) # 0
    BY <1>2, <2>1, FS_EmptySet
  <2> QED BY <2>1, <2>2, <2>3
<1>4. p \in [D -> 1..n]
  BY <1>1, <1>3
<1>5. \A i, j \in D : UpTo(i, D, key) \subseteq UpTo(j, D, key) => Rk(i) <= Rk(j)
  <2> SUFFICES ASSUME NEW i \in D, NEW j \in D, UpTo(i, D, key) \subseteq UpTo(j, D, key)
               PROVE  Rk(i) <= Rk(j)
    OBVIOUS
  <2> QED BY <1>3, FS_Subset
<1>6. \A i, j \in D : key[i] <= key[j] /\ i # j /\ (key[i] = key[j] => i < j) => Rk(i) < Rk(j)
  <2> SUFFICES ASSUME NEW i \in D, NEW j \in D, key[i] <= key[j], i # j,
                      key[i] = key[j] => i < j
               PROVE  Rk(i) < Rk(j)
    OBVIOUS
  <2>1. UpTo(i, D, key) \in SUBSET UpTo(j, D, key)
    <3>1. ASSUME NEW l \in UpTo(i, D, key) PROVE l \in UpTo(j, D, key)
      <4>1. l \in D /\ (key[l] < key[i] \/ (key[l] = key[i] /\ l <= i))
        BY DEF UpTo
      <4>2. key[l] \in Int /\ key[i] \in Int /\ key[j] \in Int /\ l \in Nat /\ i \in Nat /\ j \in Nat
        BY <4>1
      <4>3. key[l] < key[j] \/ (key[l] = key[j] /\ l <= j)
        BY <4>1, <4>2
      <4> QED BY <4>1, <4>3 DEF UpTo
    <3> QED BY <3>1
  <2>2. j \in UpTo(j, D, key) /\ j \notin UpTo(i, D, key)
    BY DEF UpTo
  <2>3. Rk(i) <= Rk(j) /\ Rk(i) # Rk(j)
    BY <1>3, <2>1, <2>2, FS_Subset
  <2> QED BY <1>3, <2>3
<1>7. \A i, j \in D : Rk(i) = Rk(j) => i = j
  <2> SUFFICES ASSUME NEW i \in D, NEW j \in D, Rk(i) = Rk(j), i # j PROVE FALSE
    OBVIOUS
  <2>1. key[i] \in Int /\ key[j] \in Int /\ i \in Nat /\ j \in Nat
    OBVIOUS
  <2>2. Rk(i) < Rk(j) \/ Rk(j) < Rk(i)
    BY <1>6, <2>1
  <2> QED BY <1>3, <2>2
<1>8. \A k \in 1..n : \E i \in D : Rk(i) = k
  <2>1. p \in Injection(D, 1..n)
    BY <1>4, <1>7 DEF Injection, IsInjective
  <2>2. IsFiniteSet(1..n) /\ Cardinality(1..n) = n
    BY <1>1, FS_Interval
  <2>3. p \in Surjection(D, 1..n)
    BY <2>1, <2>2, FS_Injection
  <2> QED BY <2>3 DEF Surjection
<1> DEFINE places == {<<i, Rk(i)>> : i \in D}
           f == [k \in 1..n |-> CHOOSE i \in D : <<i, k>> \in places]
<1>9. \A k \in 1..n : f[k] \in D /\ Rk(f[k]) = k
  <2> SUFFICES ASSUME NEW k \in 1..n PROVE f[k] \in D /\ Rk(f[k]) = k
    OBVIOUS
  <2>1. \E i \in D : <<i, k>> \in places
    BY <1>8
  <2>2. f[k] \in D /\ <<f[k], k>> \in places
    <3> HIDE DEF places
    <3> QED BY <2>1
  <2> QED BY <2>2
<1>10. SortBy(s, D, key) = [k \in 1..n |-> s[f[k]]]
  BY DEF SortBy
<1> HIDE DEF f, n, p, places, Rk
<1>11. f \in [1..n -> D]
  BY <1>9 DEF f
<1>12. ASSUME NEW i \in D PROVE \E k \in 1..n : f[k] = i
  BY <1>3, <1>4, <1>7, <1>9 DEF p
<1>13. ASSUME NEW a \in 1..n, NEW b \in 1..n, a < b
       PROVE  f[a] # f[b] /\ key[f[a]] <= key[f[b]]
  <2>1. f[a] # f[b]
    BY <1>1, <1>9, <1>13
  <2>2. key[f[a]] \in Int /\ key[f[b]] \in Int /\ f[a] \in D /\ f[b] \in D
    BY <1>11
  <2>3. ASSUME key[f[b]] < key[f[a]] PROVE FALSE
    <3>0. key[f[b]] <= key[f[a]] /\ key[f[b]] # key[f[a]]
      BY <2>2, <2>3
    <3>1. Rk(f[b]) < Rk(f[a])
      BY <1>6, <2>1, <2>2, <3>0, Zenon
    <3> QED BY <1>1, <1>9, <1>13, <3>1
  <2> QED BY <2>1, <2>2, <2>3
<1>14. Sorting(f, s, D, key)
  BY <1>10, <1>11, <1>12, <1>13 DEF Sorting, n
<1> QED BY <1>1, <1>14 DEF n

(* Sets with a one-to-one correspondence have as many members.             *)
LEMMA SameSize ==
    ASSUME NEW S, IsFiniteSet(S), NEW T, NEW f \in [S -> T],
           \A x, y \in S : f[x] = f[y] => x = y, \A t \in T : \E x \in S : f[x] = t
    PROVE  IsFiniteSet(T) /\ Cardinality(T) = Cardinality(S)
<1>1. f \in Surjection(S, T) /\ f \in Injection(S, T)
  BY DEF Surjection, Injection, IsInjective
<1> QED BY <1>1, FS_Surjection

(* The list holds the values of s at the indexes D, the newest first.      *)
ListsNewest(list, s, D) ==
    /\ Len(list) = Cardinality(D)
    /\ ToSet(list) = {s[i] : i \in D}
    /\ \A i, j \in DOMAIN list : i < j => list[i].at >= list[j].at

(* NewestFirst lists them so.                                              *)
LEMMA NewestFirstLists ==
    ASSUME NEW n \in Nat, NEW T, \A t \in T : t.at \in Nat, NEW s, s \in [1..n -> T],
           NEW D, D \in SUBSET (1..n)
    PROVE  IsFiniteSet(D) /\ ListsNewest(NewestFirst(s, D), s, D)
<1> DEFINE m == Cardinality(D)
           key == [i \in D |-> -s[i].at]
           list == NewestFirst(s, D)
<1>1. list = SortBy(s, D, key)
  BY DEF NewestFirst
<1>2. IsFiniteSet(D) /\ D \subseteq Nat
  <2>1. n \in Int /\ 1 \in Int
    OBVIOUS
  <2>2. IsFiniteSet(1..n)
    BY <2>1, FS_Interval
  <2>3. D \subseteq Nat
    OBVIOUS
  <2> QED BY <2>2, <2>3, FS_Subset
<1>3. \A i \in D : s[i] \in T /\ s[i].at \in Nat /\ key[i] = -s[i].at
  OBVIOUS
<1>4. key \in [D -> Int]
  BY <1>3
<1> HIDE DEF key, list
<1>5. PICK f : Sorting(f, s, D, key) /\ m \in Nat
  BY <1>2, <1>4, Sorts
<1>6. /\ f \in [1..m -> D]
      /\ \A i \in D : \E k \in 1..m : f[k] = i
      /\ \A a, b \in 1..m : a < b => f[a] # f[b] /\ key[f[a]] <= key[f[b]]
      /\ list = [k \in 1..m |-> s[f[k]]]
  BY <1>1, <1>5 DEF Sorting
<1>7. list \in [1..m -> T]
  BY <1>3, <1>6
<1>8. Len(list) = m /\ DOMAIN list = 1..m
  BY <1>5, <1>7, ListLength
<1>9. ToSet(list) = {s[i] : i \in D}
  <2>1. ToSet(list) = {s[f[k]] : k \in 1..m}
    BY <1>6, <1>8 DEF ToSet
  <2>2. ASSUME NEW i \in D PROVE s[i] \in ToSet(list)
    <3>1. PICK k \in 1..m : f[k] = i
      BY <1>6
    <3> QED BY <2>1, <3>1
  <2>3. ASSUME NEW k \in 1..m PROVE s[f[k]] \in {s[i] : i \in D}
    <3>1. f[k] \in D
      BY <1>6
    <3> QED BY <3>1
  <2> QED BY <2>1, <2>2, <2>3
<1>10. ASSUME NEW a \in DOMAIN list, NEW b \in DOMAIN list, a < b
       PROVE  list[a].at >= list[b].at
  <2>1. f[a] \in D /\ f[b] \in D /\ key[f[a]] <= key[f[b]]
    BY <1>6, <1>8, <1>10
  <2>2. s[f[a]].at \in Nat /\ s[f[b]].at \in Nat /\ -s[f[a]].at <= -s[f[b]].at
    BY <1>3, <2>1
  <2>3. s[f[a]].at >= s[f[b]].at
    BY <2>2
  <2> QED BY <1>6, <1>8, <2>3
<1> QED BY <1>2, <1>8, <1>9, <1>10 DEF ListsNewest, list

-----------------------------------------------------------------------------
(* getUserFiatTransactions.                                                *)
(* What the map makes of one user's items: each transaction has one place, *)
(* and the value there is its newest item.                                 *)
NewestMap(items, n, mine) ==
    /\ MapPlaces(items) \in SUBSET (1..n)
    /\ MapValues(items) \in [1..n -> mine]
    /\ \A i \in 1..n : /\ SameTx(MapValues(items)[i], items[i])
                       /\ \A q \in mine : SameTx(q, items[i]) => q.at <= MapValues(items)[i].at
    /\ \A j \in 1..n : \E i \in MapPlaces(items) : SameTx(items[i], items[j])
    /\ \A i, j \in MapPlaces(items) : SameTx(items[i], items[j]) => i = j

(* All of one user's items, the oldest first.                              *)
Ascending(items, n, mine) ==
    /\ items \in [1..n -> mine]
    /\ \A r \in mine : \E k \in 1..n : items[k] = r
    /\ \A a, b \in 1..n : a < b => items[a].at <= items[b].at

(* The map of sorted items is the map of the newest.                       *)
LEMMA MapNewest ==
    ASSUME NEW mine, \A r \in mine : r.at \in Nat, NEW n \in Nat, NEW items,
           Ascending(items, n, mine)
    PROVE  NewestMap(items, n, mine)
<1>0. /\ items \in [1..n -> mine]
      /\ \A r \in mine : \E k \in 1..n : items[k] = r
      /\ \A a, b \in 1..n : a < b => items[a].at <= items[b].at
  BY DEF Ascending
<1>1. DOMAIN items = 1..n
  BY <1>0
<1>2. MapPlaces(items) \in SUBSET (1..n)
  BY <1>1 DEF MapPlaces
<1>3. ASSUME NEW i \in 1..n
      PROVE  /\ LastOf(items, i) \in 1..n
             /\ SameTx(items[LastOf(items, i)], items[i])
             /\ \A j \in 1..n : SameTx(items[j], items[i]) => j <= LastOf(items, i)
  <2> DEFINE S == {j \in 1..n : SameTx(items[j], items[i])}
  <2>1. i \in S
    BY DEF SameTx
  <2>2. PICK l \in S : \A m \in S : m <= l
    <3>1. S \in SUBSET (1..n) /\ S # {}
      BY <2>1
    <3> HIDE DEF S
    <3> QED BY <3>1, Greatest
  <2>3. \E l0 \in DOMAIN items : /\ SameTx(items[l0], items[i])
                                 /\ ~\E j \in DOMAIN items : j > l0 /\ SameTx(items[j], items[i])
    BY <1>1, <2>2
  <2>4. /\ LastOf(items, i) \in DOMAIN items /\ SameTx(items[LastOf(items, i)], items[i])
        /\ ~\E j \in DOMAIN items : j > LastOf(items, i) /\ SameTx(items[j], items[i])
    BY <2>3 DEF LastOf
  <2> QED BY <1>1, <2>4
<1>4. MapValues(items) = [i \in 1..n |-> items[LastOf(items, i)]]
  BY <1>1 DEF MapValues
<1>5. MapValues(items) \in [1..n -> mine]
  BY <1>0, <1>3, <1>4
<1>6. ASSUME NEW i \in 1..n
      PROVE  /\ SameTx(MapValues(items)[i], items[i])
             /\ \A q \in mine : SameTx(q, items[i]) => q.at <= MapValues(items)[i].at
  <2>1. MapValues(items)[i] = items[LastOf(items, i)]
    BY <1>4
  <2>2. ASSUME NEW q \in mine, SameTx(q, items[i]) PROVE q.at <= items[LastOf(items, i)].at
    <3>1. PICK k \in 1..n : items[k] = q
      BY <1>0
    <3>2. k <= LastOf(items, i) /\ LastOf(items, i) \in 1..n
      BY <1>3, <2>2, <3>1
    <3>3. items[k].at \in Nat
      BY <1>0
    <3>4. CASE k = LastOf(items, i)
      BY <3>1, <3>3, <3>4
    <3>5. CASE k < LastOf(items, i)
      BY <1>0, <3>1, <3>2, <3>5
    <3> QED BY <3>2, <3>4, <3>5
  <2> QED BY <1>3, <2>1, <2>2
<1>7. ASSUME NEW j \in 1..n PROVE \E i \in MapPlaces(items) : SameTx(items[i], items[j])
  <2> DEFINE S == {i \in 1..n : SameTx(items[i], items[j])}
  <2>1. j \in S /\ S \in SUBSET Nat
    BY DEF SameTx
  <2>2. PICK i \in S : \A m \in S : i <= m
    <3> HIDE DEF S
    <3> QED BY <2>1, Least
  <2>3. ASSUME NEW m \in DOMAIN items, m < i, SameTx(items[m], items[i]) PROVE FALSE
    <3>1. m \in 1..n /\ i \in 1..n /\ SameTx(items[m], items[j])
      BY <1>1, <2>2, <2>3 DEF SameTx
    <3> QED BY <2>2, <2>3, <3>1
  <2>4. i \in MapPlaces(items)
    BY <1>1, <2>2, <2>3 DEF MapPlaces
  <2> QED BY <2>2, <2>4
<1>8. ASSUME NEW i \in MapPlaces(items), NEW j \in MapPlaces(items), SameTx(items[i], items[j])
      PROVE  i = j
  <2>1. i \in 1..n /\ j \in 1..n /\ ~(i < j) /\ ~(j < i)
    BY <1>1, <1>8 DEF MapPlaces, SameTx
  <2> QED BY <2>1
<1> QED BY <1>2, <1>5, <1>6, <1>7, <1>8 DEF NewestMap

(* The items of one user, sorted as the map takes them.                    *)
LEMMA UserItems ==
    ASSUME NEW page, IsFiniteSet(page), \A r \in page : r.at \in Nat,
           NEW items \in SetToSeqs(page), NEW user
    PROVE  \E n \in Nat : Ascending(OldestFirst(items, OfUser(items, user)), n,
                                     {r \in page : r.user = user})
<1> DEFINE size == Cardinality(page)
           mine == {r \in page : r.user = user}
           D == OfUser(items, user)
           n == Cardinality(D)
           key == [i \in D |-> items[i].at]
<1>1. /\ size \in Nat /\ IsFiniteSet(1..size) /\ Cardinality(1..size) = size
  <2>1. size \in Nat
    BY FS_CardinalityType
  <2> QED BY <2>1, FS_Interval
<1>2. /\ items \in [1..size -> page]
      /\ \A i, j \in 1..size : items[i] = items[j] => i = j
  BY DEF SetToSeqs
<1>3. \A r \in page : \E i \in 1..size : items[i] = r
  <2>1. items \in Injection(1..size, page)
    BY <1>2 DEF Injection, IsInjective
  <2>2. items \in Surjection(1..size, page)
    BY <1>1, <2>1, FS_Injection
  <2> QED BY <2>2 DEF Surjection
<1>4. D = {i \in 1..size : items[i].user = user}
  BY <1>2 DEF OfUser
<1>5. IsFiniteSet(D) /\ D \subseteq Nat
  <2>1. D \in SUBSET (1..size)
    BY <1>4
  <2> QED BY <1>1, <2>1, FS_Subset
<1>6. key \in [D -> Int]
  BY <1>2, <1>4
<1>7. OldestFirst(items, D) = SortBy(items, D, key)
  BY DEF OldestFirst
<1> HIDE DEF D, key
<1>8. n \in Nat
  BY <1>5, FS_CardinalityType
<1>8a. PICK f : Sorting(f, items, D, key)
  BY <1>5, <1>6, Sorts
<1>9. /\ f \in [1..n -> D]
      /\ \A i \in D : \E k \in 1..n : f[k] = i
      /\ \A a, b \in 1..n : a < b => f[a] # f[b] /\ key[f[a]] <= key[f[b]]
      /\ SortBy(items, D, key) = [k \in 1..n |-> items[f[k]]]
  BY <1>8a DEF Sorting
<1> DEFINE sorted == [k \in 1..n |-> items[f[k]]]
<1>10. \A i \in D : i \in 1..size /\ items[i] \in mine /\ key[i] = items[i].at
  BY <1>2, <1>4 DEF key
<1>11. sorted \in [1..n -> mine]
  BY <1>9, <1>10
<1>12. ASSUME NEW r \in mine PROVE \E k \in 1..n : sorted[k] = r
  <2>1. PICK i \in 1..size : items[i] = r
    BY <1>3
  <2>2. i \in D
    BY <1>4, <2>1
  <2>3. PICK k \in 1..n : f[k] = i
    BY <1>9, <2>2
  <2> QED BY <2>1, <2>3
<1>13. ASSUME NEW a \in 1..n, NEW b \in 1..n, a < b PROVE sorted[a].at <= sorted[b].at
  BY <1>9, <1>10, <1>13
<1>14. sorted = OldestFirst(items, D)
  BY <1>7, <1>9
<1>15. Ascending(sorted, n, mine)
  BY <1>11, <1>12, <1>13 DEF Ascending
<1> QED BY <1>8, <1>14, <1>15 DEF D

(* getUserFiatTransactions on one page, in any order of its items.         *)
LEMMA HistoryOfPage ==
    ASSUME NEW page, IsFiniteSet(page), \A r \in page : r.at \in Nat,
           \A q, r \in page : q.txId = r.txId /\ q.at = r.at => q = r,
           NEW items \in SetToSeqs(page), NEW user
    PROVE  LET history == getUserFiatTransactions(items, user)
               mine    == {r \in page : r.user = user}
           IN  /\ ToSet(history) =
                       {r \in mine : \A q \in mine : q.txId = r.txId => q.at <= r.at}
               /\ Len(history) = Cardinality({r.txId : r \in mine})
               /\ \A i, j \in DOMAIN history : i < j => history[i].at >= history[j].at
<1> DEFINE mine == {r \in page : r.user = user}
           newest == {r \in mine : \A q \in mine : q.txId = r.txId => q.at <= r.at}
           ids == {r.txId : r \in mine}
           sorted == OldestFirst(items, OfUser(items, user))
<1>1. PICK n \in Nat : Ascending(sorted, n, mine)
  BY UserItems
<1> DEFINE V == MapValues(sorted)
           M == MapPlaces(sorted)
           m == Cardinality(M)
           history == getUserFiatTransactions(items, user)
<1>3. history = NewestFirst(V, M)
  BY DEF getUserFiatTransactions
<1>4. \A r \in mine : r \in page /\ r.at \in Nat
  OBVIOUS
<1> HIDE DEF mine, sorted
<1>2. /\ sorted \in [1..n -> mine]
      /\ \A r \in mine : \E k \in 1..n : sorted[k] = r
  BY <1>1 DEF Ascending
<1>5a. NewestMap(sorted, n, mine)
  BY <1>1, <1>4, MapNewest
<1>5. /\ M \in SUBSET (1..n)
      /\ V \in [1..n -> mine]
      /\ \A i \in 1..n : /\ SameTx(V[i], sorted[i])
                         /\ \A q \in mine : SameTx(q, sorted[i]) => q.at <= V[i].at
      /\ \A j \in 1..n : \E i \in M : SameTx(sorted[i], sorted[j])
      /\ \A i, j \in M : SameTx(sorted[i], sorted[j]) => i = j
  BY <1>5a DEF NewestMap
<1> HIDE DEF V, M, history
<1>6. IsFiniteSet(M) /\ ListsNewest(history, V, M)
  BY <1>3, <1>4, <1>5, NewestFirstLists
<1>7. \A i \in M : V[i] \in mine /\ V[i].at \in Nat
  BY <1>4, <1>5
<1>8. Len(history) = m
  BY <1>6 DEF ListsNewest
<1>12. ToSet(history) = {V[i] : i \in M}
  BY <1>6 DEF ListsNewest
<1>13. ASSUME NEW i \in M PROVE V[i] \in newest
  <2>1. ASSUME NEW q \in mine, q.txId = V[i].txId PROVE q.at <= V[i].at
    BY <1>5, <2>1 DEF SameTx
  <2> QED BY <1>7, <2>1
<1>14. ASSUME NEW r \in newest PROVE \E i \in M : V[i] = r
  <2>1. PICK j \in 1..n : sorted[j] = r
    BY <1>2
  <2>2. PICK i \in M : SameTx(sorted[i], sorted[j])
    BY <1>5
  <2>3. V[i].txId = r.txId /\ SameTx(r, sorted[i]) /\ V[i] \in mine
    BY <1>5, <2>1, <2>2 DEF SameTx
  <2>4. V[i].at <= r.at /\ r.at <= V[i].at
    BY <1>5, <2>3
  <2>5. V[i].at = r.at /\ V[i] \in page /\ r \in page
    BY <1>4, <2>3, <2>4
  <2> QED BY <2>3, <2>5
<1>15. ToSet(history) = newest
  BY <1>12, <1>13, <1>14
<1>16. m = Cardinality(ids)
  <2> DEFINE h == [i \in M |-> sorted[i].txId]
  <2>1. \A i \in M : sorted[i] \in mine
    BY <1>2, <1>5
  <2>2. h \in [M -> ids]
    BY <2>1
  <2>3. \A x, y \in M : h[x] = h[y] => x = y
    BY <1>5 DEF SameTx
  <2>4. ASSUME NEW t \in ids PROVE \E x \in M : h[x] = t
    <3>1. PICK r \in mine : r.txId = t
      OBVIOUS
    <3>2. PICK j \in 1..n : sorted[j] = r
      BY <1>2
    <3>3. PICK i \in M : SameTx(sorted[i], sorted[j])
      BY <1>5
    <3> QED BY <3>1, <3>2, <3>3 DEF SameTx
  <2> HIDE DEF h, ids
  <2> QED BY <1>6, <2>2, <2>3, <2>4, SameSize
<1>17. \A i, j \in DOMAIN history : i < j => history[i].at >= history[j].at
  BY <1>6 DEF ListsNewest
<1> QED BY <1>8, <1>15, <1>16, <1>17 DEF mine, history

-----------------------------------------------------------------------------
(* getUserTransactions.                                                    *)
(* What one view of some transfers shows.                                  *)
Shown(items, kind, told) ==
    {returnCryptoTxn(items[i]) : i \in {i \in DOMAIN items :
        /\ items[i].delta > 0
        /\ told = None \/ InView(returnCryptoTxn(items[i]), kind, told)}}

ListsOnce(view, shown) ==
    /\ ToSet(view) = shown
    /\ Len(view) = Cardinality(ToSet(view))
    /\ \A i, j \in DOMAIN view : i < j => view[i].at >= view[j].at

(* Transfers that have each a hash of their own are shown once each.       *)
LEMMA ViewLists ==
    ASSUME NEW n \in Nat, NEW items, items \in [1..n -> Transfer],
           \A i, j \in 1..n : items[i].hash = items[j].hash => i = j,
           NEW kind, NEW told
    PROVE  ListsOnce(getUserTransactions(items, kind, told, None), Shown(items, kind, told))
<1> DEFINE txns == [i \in DOMAIN items |-> returnCryptoTxn(items[i])]
           T == {returnCryptoTxn(t) : t \in Transfer}
           D == {i \in DOMAIN items :
                    /\ items[i].delta > 0
                    /\ told = None \/ InView(txns[i], kind, told)}
           view == getUserTransactions(items, kind, told, None)
<1>1. DOMAIN items = 1..n
  OBVIOUS
<1>2. view = NewestFirst(txns, D)
  BY DEF getUserTransactions
<1>3. txns \in [1..n -> T] /\ \A i \in 1..n : txns[i] = returnCryptoTxn(items[i])
  BY <1>1
<1>4. \A t \in T : t.at \in Nat
  BY DEF returnCryptoTxn, Transfer
<1>5. D \in SUBSET (1..n)
  BY <1>1
<1>6. \A i, j \in D : txns[i] = txns[j] => i = j
  BY <1>3, <1>5 DEF returnCryptoTxn
<1>7. Shown(items, kind, told) = {txns[i] : i \in D}
  <2>1. D = {i \in DOMAIN items :
                /\ items[i].delta > 0
                /\ told = None \/ InView(returnCryptoTxn(items[i]), kind, told)}
    OBVIOUS
  <2>2. \A i \in D : txns[i] = returnCryptoTxn(items[i])
    BY <1>3, <1>5
  <2> HIDE DEF txns, D
  <2> QED BY <2>1, <2>2 DEF Shown
<1> HIDE DEF txns, T, D, view
<1>8. IsFiniteSet(D) /\ ListsNewest(view, txns, D)
  BY <1>2, <1>3, <1>4, <1>5, NewestFirstLists
<1>9. /\ Len(view) = Cardinality(D) /\ ToSet(view) = {txns[i] : i \in D}
      /\ \A i, j \in DOMAIN view : i < j => view[i].at >= view[j].at
  BY <1>8 DEF ListsNewest
<1>10. Cardinality(ToSet(view)) = Cardinality(D)
  <2> DEFINE g == [i \in D |-> txns[i]]
  <2>1. /\ g \in [D -> ToSet(view)] /\ \A x, y \in D : g[x] = g[y] => x = y
        /\ \A t \in ToSet(view) : \E x \in D : g[x] = t
    BY <1>6, <1>9
  <2> HIDE DEF g
  <2> QED BY <1>8, <2>1, SameSize
<1> QED BY <1>7, <1>9, <1>10 DEF ListsOnce, view

(* The two views of a list, whatever the two calls are told.               *)
Complete(mine) ==
    LET answers(kind) == {[told |-> address,
                           txns |-> getUserTransactions(mine, kind, address, None)] :
                               address \in {DepositAddress, None}}
    IN  \A trade \in answers("user"), redeem \in answers("withdrawal") :
            /\ ToSet(trade.txns) \cup ToSet(redeem.txns) =
                    {returnCryptoTxn(t) : t \in {t \in ToSet(mine) : t.delta > 0}}
            /\ None \notin {trade.told, redeem.told} =>
                    ToSet(trade.txns) \cap ToSet(redeem.txns) = {}
            /\ \A txns \in {trade.txns, redeem.txns} :
                    /\ Len(txns) = Cardinality(ToSet(txns))
                    /\ \A i, j \in DOMAIN txns : i < j => txns[i].at >= txns[j].at

(* What the views show together, and what both show.                       *)
LEMMA ShownSplit ==
    ASSUME NEW n \in Nat, NEW items, items \in [1..n -> Transfer],
           \A i, j \in 1..n : items[i].hash = items[j].hash => i = j,
           NEW told \in {DepositAddress, None}, NEW toldToo \in {DepositAddress, None}
    PROVE  /\ Shown(items, "user", told) \cup Shown(items, "withdrawal", toldToo) =
                   {returnCryptoTxn(t) : t \in {t \in ToSet(items) : t.delta > 0}}
           /\ None \notin {told, toldToo} =>
                   Shown(items, "user", told) \cap Shown(items, "withdrawal", toldToo) = {}
<1> DEFINE U == {i \in DOMAIN items :
                    /\ items[i].delta > 0
                    /\ told = None \/ InView(returnCryptoTxn(items[i]), "user", told)}
           W == {i \in DOMAIN items :
                    /\ items[i].delta > 0
                    /\ toldToo = None \/ InView(returnCryptoTxn(items[i]), "withdrawal", toldToo)}
           D == {i \in 1..n : items[i].delta > 0}
<1>1. U \cup W = D /\ (None \notin {told, toldToo} => U \cap W = {})
  BY DEF InView
<1>2. /\ Shown(items, "user", told) = {returnCryptoTxn(items[i]) : i \in U}
      /\ Shown(items, "withdrawal", toldToo) = {returnCryptoTxn(items[i]) : i \in W}
  BY DEF Shown
<1>3. {t \in ToSet(items) : t.delta > 0} = {items[i] : i \in D}
  BY DEF ToSet
<1>4. U \subseteq 1..n /\ W \subseteq 1..n
  OBVIOUS
<1> HIDE DEF U, W, D
<1>5. {returnCryptoTxn(t) : t \in {items[i] : i \in D}} = {returnCryptoTxn(items[i]) : i \in D}
  OBVIOUS
<1>6. ASSUME NEW i \in U, NEW j \in W, returnCryptoTxn(items[i]) = returnCryptoTxn(items[j])
      PROVE  i = j
  <2>1. items[i].hash = items[j].hash
    BY <1>6 DEF returnCryptoTxn
  <2> QED BY <1>4, <2>1
<1> QED BY <1>1, <1>2, <1>3, <1>5, <1>6

LEMMA ViewsOf ==
    ASSUME NEW n \in Nat, NEW items, items \in [1..n -> Transfer],
           \A i, j \in 1..n : items[i].hash = items[j].hash => i = j
    PROVE  Complete(items)
<1> DEFINE answers(kind) == {[told |-> address,
                              txns |-> getUserTransactions(items, kind, address, None)] :
                                  address \in {DepositAddress, None}}
           moved == {returnCryptoTxn(t) : t \in {t \in ToSet(items) : t.delta > 0}}
<1>1. ASSUME NEW kind, NEW answer \in answers(kind)
      PROVE  /\ answer.told \in {DepositAddress, None}
             /\ ListsOnce(answer.txns, Shown(items, kind, answer.told))
  <2>1. PICK told \in {DepositAddress, None} :
          answer = [told |-> told, txns |-> getUserTransactions(items, kind, told, None)]
    OBVIOUS
  <2>2. answer.told = told /\ answer.txns = getUserTransactions(items, kind, told, None)
    BY <2>1
  <2>3. ListsOnce(getUserTransactions(items, kind, told, None), Shown(items, kind, told))
    BY ViewLists
  <2> QED BY <2>2, <2>3
<1> HIDE DEF answers
<1>2. ASSUME NEW trade \in answers("user"), NEW redeem \in answers("withdrawal")
      PROVE  /\ ToSet(trade.txns) \cup ToSet(redeem.txns) = moved
             /\ None \notin {trade.told, redeem.told} =>
                    ToSet(trade.txns) \cap ToSet(redeem.txns) = {}
             /\ \A txns \in {trade.txns, redeem.txns} :
                    /\ Len(txns) = Cardinality(ToSet(txns))
                    /\ \A i, j \in DOMAIN txns : i < j => txns[i].at >= txns[j].at
  <2>1. /\ trade.told \in {DepositAddress, None} /\ redeem.told \in {DepositAddress, None}
        /\ ListsOnce(trade.txns, Shown(items, "user", trade.told))
        /\ ListsOnce(redeem.txns, Shown(items, "withdrawal", redeem.told))
    BY <1>1
  <2>2. /\ Shown(items, "user", trade.told) \cup Shown(items, "withdrawal", redeem.told) = moved
        /\ None \notin {trade.told, redeem.told} =>
               Shown(items, "user", trade.told) \cap Shown(items, "withdrawal", redeem.told) = {}
    BY <2>1, ShownSplit
  <2>3. \A txns \in {trade.txns, redeem.txns} :
           /\ Len(txns) = Cardinality(ToSet(txns))
           /\ \A i, j \in DOMAIN txns : i < j => txns[i].at >= txns[j].at
    BY <2>1 DEF ListsOnce
  <2> QED BY <2>1, <2>2, <2>3 DEF ListsOnce
<1> QED BY <1>2 DEF Complete, answers

(* One wallet's transfers, in the order of the chain.                      *)
LEMMA MineListed ==
    ASSUME NEW moves, moves \in Seq(Transfer), \A i \in DOMAIN moves : moves[i].hash = i,
           NEW D, D \in SUBSET (DOMAIN moves)
    PROVE  \E n \in Nat : /\ Filter(moves, D) \in [1..n -> Transfer]
                          /\ \A i, j \in 1..n : Filter(moves, D)[i].hash = Filter(moves, D)[j].hash => i = j
<1> DEFINE m == Cardinality(D)
           key == [i \in D |-> 0]
           list == Filter(moves, D)
<1>1. Len(moves) \in Nat /\ DOMAIN moves = 1..Len(moves) /\ \A i \in DOMAIN moves : moves[i] \in Transfer
  BY LenProperties
<1>2. IsFiniteSet(D) /\ D \subseteq Nat
  <2>1. Len(moves) \in Int /\ 1 \in Int
    BY <1>1
  <2>2. IsFiniteSet(1..Len(moves))
    BY <2>1, FS_Interval
  <2> QED BY <1>1, <2>2, FS_Subset
<1>3. list = SortBy(moves, D, key)
  BY DEF Filter
<1>4. key \in [D -> Int]
  OBVIOUS
<1> HIDE DEF key, list
<1>5. PICK f : Sorting(f, moves, D, key) /\ m \in Nat
  BY <1>2, <1>4, Sorts
<1>6. /\ f \in [1..m -> D]
      /\ \A a, b \in 1..m : a < b => f[a] # f[b]
      /\ list = [k \in 1..m |-> moves[f[k]]]
  BY <1>3, <1>5 DEF Sorting
<1>7. list \in [1..m -> Transfer]
  BY <1>1, <1>6
<1>8. ASSUME NEW i \in 1..m, NEW j \in 1..m, list[i].hash = list[j].hash PROVE i = j
  <2>1. f[i] = f[j]
    BY <1>6, <1>8
  <2>2. ~(i < j) /\ ~(j < i)
    BY <1>6, <2>1
  <2> QED BY <2>2
<1> QED BY <1>5, <1>7, <1>8 DEF list

-----------------------------------------------------------------------------
(* What the histories rely on: the table is finite and has one item under  *)
(* each key, and a transfer's hash is its place on the chain.              *)
KeysUnique == \A q, r \in rows : q.txId = r.txId /\ q.at = r.at => q = r

HashesPlaced == \A i \in DOMAIN chain : chain[i].hash = i

HistoryInv == IsFiniteSet(rows) /\ KeysUnique /\ HashesPlaced

LEMMA HistoryInit == Init => HistoryInv
<1> SUFFICES ASSUME Init PROVE HistoryInv
  OBVIOUS
<1>1. rows = {} /\ chain = Earlier
  BY DEF Init, ApiInit, StoreInit
<1>2. HashesPlaced
  BY <1>1, PaymentsAssumption DEF PaymentsAssumption, HashesPlaced
<1>3. IsFiniteSet(rows)
  BY <1>1, FS_EmptySet
<1> QED BY <1>1, <1>2, <1>3 DEF HistoryInv, KeysUnique

(* PutItem replaces the item under the key.                                *)
LEMMA RowsKept ==
    ASSUME IsFiniteSet(rows), KeysUnique, NEW item, rows' = Put(rows, item)
    PROVE  IsFiniteSet(rows') /\ KeysUnique'
<1> DEFINE others == {r \in rows : r.txId # item.txId \/ r.at # item.at}
<1>1. IsFiniteSet(others)
  <2>1. others \in SUBSET rows
    OBVIOUS
  <2> QED BY <2>1, FS_Subset
<1>2. rows' = others \cup {item}
  BY DEF Put
<1>3. IsFiniteSet(rows')
  BY <1>1, <1>2, FS_AddElement
<1> QED BY <1>2, <1>3 DEF KeysUnique

(* A new transfer takes the next place, and the others keep theirs.        *)
LEMMA ChainPlaced ==
    ASSUME TypeOK, HashesPlaced, NEW c, NEW peer, Transferred(c, peer)
    PROVE  HashesPlaced'
<1> DEFINE t == [wallet |-> WalletOf[c], dir |-> "OUT", peer |-> peer,
                 delta |-> 1, hash |-> Len(chain) + 1, at |-> Len(chain) + 1]
           S == {t} \cup Transfer
<1>1. chain \in Seq(Transfer)
  BY DEF TypeOK
<1>2. chain \in Seq(S) /\ t \in S
  BY <1>1, SeqMonotonic
<1>3. Len(chain) \in Nat /\ DOMAIN chain = 1..Len(chain)
  BY <1>1, LenProperties
<1>4. chain' = Append(chain, t) /\ t.hash = Len(chain) + 1
  BY DEF Transferred
<1> HIDE DEF t, S
<1>5. /\ Append(chain, t) \in Seq(S) /\ Len(Append(chain, t)) = Len(chain) + 1
      /\ \A i \in 1..Len(chain) : Append(chain, t)[i] = chain[i]
      /\ Append(chain, t)[Len(chain) + 1] = t
  BY <1>2, AppendProperties
<1>6. DOMAIN chain' = 1 .. Len(chain) + 1
  BY <1>4, <1>5, LenProperties
<1>7. ASSUME NEW i \in DOMAIN chain' PROVE chain'[i].hash = i
  <2>1. CASE i = Len(chain) + 1
    BY <1>4, <1>5, <2>1
  <2>2. CASE i # Len(chain) + 1
    <3>1. i \in 1..Len(chain)
      BY <1>3, <1>6, <2>2
    <3> QED BY <1>3, <1>4, <1>5, <3>1 DEF HashesPlaced
  <2> QED BY <2>1, <2>2
<1> QED BY <1>7 DEF HashesPlaced

LEMMA HistoryStep == TypeOK /\ HistoryInv /\ [Next]_vars => HistoryInv'
<1> SUFFICES ASSUME TypeOK, HistoryInv, [Next]_vars PROVE HistoryInv'
  OBVIOUS
<1>1. IsFiniteSet(rows') /\ KeysUnique'
  <2>1. CASE UNCHANGED rows
    BY <2>1 DEF HistoryInv, KeysUnique
  <2>2. CASE rows' # rows
    <3>1. PICK item : rows' = Put(rows, item)
      <4>1. CASE ArrivesLate
        BY <4>1 DEF ArrivesLate, WrittenLate, PutItem
      <4>2. CASE ~ArrivesLate
        <5>1. PICK w \in Writers : Acknowledged(w) \/ Refused(w)
          BY <2>2, <4>2 DEF Next, vars, AskForGas, Create, Update, Pay, gaslessTxn, Report, TankMines,
                 apiVars, createUserTransaction, updateTransaction, sendTransactionStatus, Post
        <5>2. ~Refused(w)
          BY <2>2 DEF Refused, WriteFails, Forsaken
        <5> QED BY <5>1, <5>2 DEF Acknowledged, Written, PutItem
      <4> QED BY <4>1, <4>2
    <3> QED BY <3>1, RowsKept DEF HistoryInv
  <2> QED BY <2>1, <2>2
<1>2. HashesPlaced'
  <2>1. CASE UNCHANGED chain
    BY <2>1 DEF HistoryInv, HashesPlaced
  <2>2. CASE chain' # chain
    <3>1. PICK c \in Clients, a \in Addresses : Pay(c, a) \/ gaslessTxn(c, a)
      BY <2>2, PayeesAddresses DEF Next, vars, AskForGas, Create, Update, Report, TankMines, Acknowledged, Refused, ArrivesLate
    <3>2. Transferred(c, a)
      BY <3>1 DEF Pay, gaslessTxn
    <3> QED BY <3>2, ChainPlaced DEF HistoryInv
  <2> QED BY <2>1, <2>2
<1> QED BY <1>1, <1>2 DEF HistoryInv

LEMMA HistoryHeld == Spec => []HistoryInv
BY HistoryInit, HistoryStep, PaymentsTyped, PTL DEF Spec

(* On every page of the scan, in every order of its items, the history of  *)
(* a user shows each transaction once, as its newest item there, and the   *)
(* newest transaction first.                                               *)
THEOREM HistoriesFaithful == Spec => []HistoryFaithful
<1>1. TypeOK /\ HistoryInv => HistoryFaithful
  <2> SUFFICES ASSUME TypeOK, HistoryInv, NEW page \in Pages, NEW user \in Users,
                      NEW items \in SetToSeqs(page)
               PROVE  LET history == getUserFiatTransactions(items, user)
                          mine    == {r \in page : r.user = user}
                      IN  /\ ToSet(history) =
                                  {r \in mine : \A q \in mine : q.txId = r.txId => q.at <= r.at}
                          /\ Len(history) = Cardinality({r.txId : r \in mine})
                          /\ \A i, j \in DOMAIN history : i < j => history[i].at >= history[j].at
    BY DEF HistoryFaithful
  <2>1. page \in SUBSET rows
    BY DEF Pages, kSubset
  <2>2. IsFiniteSet(page)
    BY <2>1, FS_Subset DEF HistoryInv
  <2>3. \A r \in page : r.at \in Nat
    BY <2>1 DEF TypeOK, ApiTypeOK, Item
  <2>4. \A q, r \in page : q.txId = r.txId /\ q.at = r.at => q = r
    BY <2>1 DEF HistoryInv, KeysUnique
  <2> QED BY <2>2, <2>3, <2>4, HistoryOfPage
<1> QED BY <1>1, HistoryHeld, PaymentsTyped, PTL

(* Whatever is on the chain and whatever address each of the two calls is  *)
(* told, no transfer of a user is missing from both views, neither view    *)
(* shows one twice, both are sorted, and no transfer is in both when both  *)
(* calls were told the address.                                            *)
THEOREM ViewsAreComplete == Spec => []ViewsComplete
<1>1. TypeOK /\ HistoryInv => ViewsComplete
  <2> SUFFICES ASSUME TypeOK, HistoryInv, NEW w \in Wallets
               PROVE  Complete(Filter(chain, {i \in DOMAIN chain : chain[i].wallet = w}))
    BY DEF ViewsComplete, Complete
  <2> DEFINE mine == Filter(chain, {i \in DOMAIN chain : chain[i].wallet = w})
  <2>1. chain \in Seq(Transfer) /\ \A i \in DOMAIN chain : chain[i].hash = i
    BY DEF TypeOK, HistoryInv, HashesPlaced
  <2>2. PICK n \in Nat : /\ mine \in [1..n -> Transfer]
                         /\ \A i, j \in 1..n : mine[i].hash = mine[j].hash => i = j
    BY <2>1, MineListed
  <2> HIDE DEF mine
  <2>3. Complete(mine)
    BY <2>2, ViewsOf
  <2> QED BY <2>3 DEF mine
<1> QED BY <1>1, HistoryHeld, PaymentsTyped, PTL
=============================================================================
