----------------------------- MODULE OrderLife ------------------------------
(***************************************************************************)
(* What the off-ramp promises the user about an order, in the terms of     *)
(* TransactionStatus (offramp.dtos.ts): the status by the deposit's hash   *)
(* runs once through its life.  A deposit is rejected or sold, as the      *)
(* partner screened it; it is sold in one sale, which pays for no other    *)
(* order; and the order ends with the partner's verdict on that sale.  One *)
(* whose deposit or sale the partner cancelled stays as it is.             *)
(***************************************************************************)
CONSTANTS Hashes, Sales, None

VARIABLES
    shown,      \* the status a user sees of each deposit
    paid,       \* the sale it shows with
    screened,   \* the partner's verdict on each deposit
    verdict     \* the partner's verdict on each sale

lifeVars == <<shown, paid, screened, verdict>>

Init ==
    /\ shown = [x \in Hashes |-> "NONE"]
    /\ paid = [x \in Hashes |-> None]
    /\ screened = [x \in Hashes |-> "pending"]
    /\ verdict = [s \in Sales |-> "open"]

Shows(x, from, to) == shown[x] = from /\ shown' = [shown EXCEPT ![x] = to]

Arrive(x) ==
    /\ Shows(x, "NONE", "CRYPTO_COMPLETED")
    /\ UNCHANGED <<paid, screened, verdict>>

Screen(x) ==
    /\ screened[x] = "pending"
    /\ \E v \in {"completed", "failed", "cancelled"} : screened' = [screened EXCEPT ![x] = v]
    /\ UNCHANGED <<shown, paid, verdict>>

Reject(x) ==
    /\ screened[x] = "failed"
    /\ Shows(x, "CRYPTO_COMPLETED", "AML_FAILED")
    /\ UNCHANGED <<paid, screened, verdict>>

Sell(x, s) ==
    /\ screened[x] = "completed"
    /\ \A y \in Hashes : paid[y] # s
    /\ Shows(x, "CRYPTO_COMPLETED", "FIAT_INIT")
    /\ paid' = [paid EXCEPT ![x] = s]
    /\ UNCHANGED <<screened, verdict>>

Decide(s) ==
    /\ verdict[s] = "open"
    /\ \E v \in {"completed", "failed", "cancelled"} : verdict' = [verdict EXCEPT ![s] = v]
    /\ UNCHANGED <<shown, paid, screened>>

End(x) ==
    /\ \/ Shows(x, "FIAT_INIT", "FIAT_COMPLETED") /\ verdict[paid[x]] = "completed"
       \/ Shows(x, "FIAT_INIT", "FIAT_FAILED") /\ verdict[paid[x]] = "failed"
    /\ UNCHANGED <<paid, screened, verdict>>

Next ==
    \/ \E x \in Hashes :
        Arrive(x) \/ Screen(x) \/ Reject(x) \/ End(x) \/ \E s \in Sales : Sell(x, s)
    \/ \E s \in Sales : Decide(s)

Spec == Init /\ [][Next]_lifeVars
=============================================================================
