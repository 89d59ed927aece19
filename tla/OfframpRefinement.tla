------------------------- MODULE OfframpRefinement --------------------------
(* Offramp implements FiatLeg: the newest item that carries a sale's id is *)
(* the register of that sale.  While orders are posted once it implements  *)
(* OrderLife too: the newest item of a deposit is what its user sees.      *)
EXTENDS Offramp

LegOf(s) ==
    LET items == {r \in rows : r.bank = s}
    IN  IF items = {} THEN "NONE" ELSE (CHOOSE r \in Latest(items) : TRUE).status

VerdictOf(s) == IF stage[s] \in {"unsold", "pending"} THEN "open" ELSE stage[s]

Leg == INSTANCE FiatLeg WITH
        leg <- [s \in Sales |-> LegOf(s)],
        verdict <- [s \in Sales |-> VerdictOf(s)]

(* The fiat leg of every order is opened once, closed at most once with    *)
(* the partner's verdict, and never reopened, whatever is notified twice,  *)
(* late, concurrently, read stale or lost in a crash.  It needs a clock    *)
(* that moves between two stamps: see AppendOnly.                          *)
ImplementsFiatLeg == Leg!Spec

-----------------------------------------------------------------------------
Newest(items) == CHOOSE r \in Latest(items) : TRUE

ItemsOf(x) == {r \in rows : r.hash = x}

ShownOf(x) == IF ItemsOf(x) = {} THEN "NONE" ELSE Newest(ItemsOf(x)).status

PaidOf(x) == IF ItemsOf(x) = {} THEN None ELSE Newest(ItemsOf(x)).bank

Life == INSTANCE OrderLife WITH
        shown <- [x \in Hashes |-> ShownOf(x)],
        paid <- [x \in Hashes |-> PaidOf(x)],
        screened <- screening,
        verdict <- [s \in Sales |-> VerdictOf(s)]

(* An order that is posted once lives once: what its user sees goes from   *)
(* the deposit to the AML failure, or to one sale and the partner's        *)
(* verdict on that sale, skips no stage and never changes the sale.        *)
ImplementsOrderLife == Life!Spec
=============================================================================
