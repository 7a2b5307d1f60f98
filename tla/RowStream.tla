------------------------------- MODULE RowStream -------------------------------
(***************************************************************************)
(* What a query engine is promised by one partition of a scan: the rows of *)
(* the partition in order, each once, up to the pushed-down limit; then an *)
(* end that is only signalled when nothing is missing.  A failure ends the *)
(* stream with an error instead, and the engine may stop listening.        *)
(***************************************************************************)
EXTENDS Naturals

VARIABLES wanted,     \* rows the partition owes: its rows, cut by the limit
          delivered,  \* rows handed over so far: always the first ones
          status      \* "open", "eof", "error" or "dropped"

vars == <<wanted, delivered, status>>

Init == /\ wanted \in Nat
        /\ delivered = 0
        /\ status = "open"

\* A batch of the rows that follow those delivered.
Deliver == /\ status = "open"
           /\ delivered' \in Nat
           /\ delivered < delivered' /\ delivered' <= wanted
           /\ UNCHANGED <<wanted, status>>

End == /\ status = "open"
       /\ delivered = wanted
       /\ status' = "eof"
       /\ UNCHANGED <<wanted, delivered>>

Fail == /\ status = "open"
        /\ status' = "error"
        /\ UNCHANGED <<wanted, delivered>>

Drop == /\ status = "open"
        /\ status' = "dropped"
        /\ UNCHANGED <<wanted, delivered>>

Next == Deliver \/ End \/ Fail \/ Drop

Spec == Init /\ [][Next]_vars
================================================================================
