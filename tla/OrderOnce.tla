------------------------------ MODULE OrderOnce ------------------------------
(***************************************************************************)
(* What the order registry promises (docs/AUDIT_SPRINT_22.md): an intent   *)
(* is on record before the exchange hears of it, and the exchange gets it  *)
(* at most once, whatever is lost, retried or restarted.                   *)
(***************************************************************************)
EXTENDS Sequences, Naturals

CONSTANT Intents

VARIABLES recorded,     \* the intents on record
          placed        \* the orders at the exchange: the intent of each

Record(k) == /\ k \notin recorded
             /\ recorded' = recorded \cup {k}
             /\ UNCHANGED placed

Place(k) == /\ k \in recorded
            /\ \A n \in 1..Len(placed) : placed[n] # k
            /\ placed' = Append(placed, k)
            /\ UNCHANGED recorded

Init == recorded = {} /\ placed = <<>>

Next == \E k \in Intents : Record(k) \/ Place(k)

Spec == Init /\ [][Next]_<<recorded, placed>>
=============================================================================
