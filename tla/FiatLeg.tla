------------------------------ MODULE FiatLeg -------------------------------
(***************************************************************************)
(* What the off-ramp promises about the fiat leg of an order, in the terms *)
(* of TransactionStatus (offramp.dtos.ts): for every sale the recorded     *)
(* status is a register that is opened once as FIAT_INIT and closed at     *)
(* most once, with the verdict the partner reached, and never reopened.    *)
(* A sale the partner cancelled is never closed.                           *)
(***************************************************************************)
CONSTANT Sales

VARIABLES
    leg,        \* the recorded status of each sale
    verdict     \* the partner's verdict on it

legVars == <<leg, verdict>>

Init ==
    /\ leg = [s \in Sales |-> "NONE"]
    /\ verdict = [s \in Sales |-> "open"]

Open(s) ==
    /\ leg[s] = "NONE"
    /\ leg' = [leg EXCEPT ![s] = "FIAT_INIT"]
    /\ UNCHANGED verdict

Decide(s) ==
    /\ verdict[s] = "open"
    /\ \E v \in {"completed", "failed", "cancelled"} : verdict' = [verdict EXCEPT ![s] = v]
    /\ UNCHANGED leg

Close(s) ==
    /\ leg[s] = "FIAT_INIT"
    /\ \/ /\ verdict[s] = "completed"
          /\ leg' = [leg EXCEPT ![s] = "FIAT_COMPLETED"]
       \/ /\ verdict[s] = "failed"
          /\ leg' = [leg EXCEPT ![s] = "FIAT_FAILED"]
    /\ UNCHANGED verdict

Next == \E s \in Sales : Open(s) \/ Decide(s) \/ Close(s)

Spec == Init /\ [][Next]_legVars
=============================================================================
