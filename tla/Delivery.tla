------------------------------ MODULE Delivery -------------------------------
(***************************************************************************)
(* What the collector promises of a row it has parsed: it is held in       *)
(* memory, then it is in the table, once, or it is lost; and it is lost    *)
(* only to a crash of the process.  Save and SaveClickhouse implement it,  *)
(* and Relay does for messages, from the moment they are sent.             *)
(***************************************************************************)
EXTENDS Naturals

CONSTANT MaxRows   \* bound of the model: rows accepted in a behaviour

VARIABLES status,  \* what has become of each row
          crashed  \* the process has terminated at least once

deliveryVars == <<status, crashed>>

InState(s) == {r \in 1..MaxRows : status[r] = s}

Become(S, s) == status' = [r \in 1..MaxRows |-> IF r \in S THEN s ELSE status[r]]

Init == status = [r \in 1..MaxRows |-> "new"] /\ crashed = FALSE

\* A read worker hands a row over.
Accept(r) == status[r] = "new" /\ Become({r}, "held") /\ UNCHANGED crashed

\* One INSERT puts its rows in the table together.
Store(S) == Become(S, "stored") /\ UNCHANGED crashed

\* The process terminates, or an INSERT it left behind is not carried out.
Lose(S) == Become(S, "lost") /\ crashed' = TRUE

Next == \/ \E r \in 1..MaxRows : Accept(r)
        \/ \E S \in SUBSET InState("held") : Store(S) \/ Lose(S)

Spec == Init /\ [][Next]_deliveryVars
=============================================================================
