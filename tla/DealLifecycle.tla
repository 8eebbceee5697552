--------------------------- MODULE DealLifecycle ---------------------------
(***************************************************************************)
(* What the deal endpoints promise about one deal's status, whatever the   *)
(* interleaving of the brokers' requests: the status is always one the     *)
(* event log holds, and a status enters the log only as the successor of   *)
(* a status that is already in it.  The log therefore never skips a stage, *)
(* even when the row itself is overwritten out of turn.                    *)
(***************************************************************************)
EXTENDS DealStatus

CONSTANTS DealIds,   \* the deals there can be
          NoStatus   \* the status of a deal that does not exist

VARIABLES status,    \* deal -> its status
          logged     \* deal -> the statuses its event log names

vars == <<status, logged>>

Init == /\ status = [d \in DealIds |-> NoStatus]
        /\ logged = [d \in DealIds |-> {}]

\* A deal starts as an inquiry.
Open(d) ==
    /\ status[d] = NoStatus
    /\ status' = [status EXCEPT ![d] = "inquiry"]
    /\ logged' = [logged EXCEPT ![d] = {"inquiry"}]

\* A status that may follow a logged one is logged, and the row takes it or
\* keeps the one it has.
Log(d, s) ==
    /\ \E from \in logged[d] : MayMove(from, s)
    /\ logged' = [logged EXCEPT ![d] = @ \cup {s}]
    /\ \/ status' = [status EXCEPT ![d] = s]
       \/ UNCHANGED status

Next == \E d \in DealIds : Open(d) \/ \E s \in DealStatus : Log(d, s)

Spec == Init /\ [][Next]_vars
=============================================================================
