-------------------------------- MODULE CoOwned --------------------------------
(***************************************************************************)
(* What the reference count of a shared structure promises, with no count: *)
(* a cell is handed to all its parties at once, each lets go of it exactly *)
(* once, and it is reclaimed in the very step in which the last one does.  *)
(***************************************************************************)
CONSTANTS Cells, Parties

VARIABLES shares,     \* shares[c]: the parties that have not let go of c
          reclaimed   \* reclaimed[c]: c's memory has been given back

Init == /\ shares = [c \in Cells |-> {}]
        /\ reclaimed = [c \in Cells |-> FALSE]

HandOut(c) == /\ shares[c] = {} /\ ~reclaimed[c]
              /\ shares' = [shares EXCEPT ![c] = Parties]
              /\ UNCHANGED reclaimed

LetGo(c, p) == /\ p \in shares[c]
               /\ shares' = [shares EXCEPT ![c] = @ \ {p}]
               /\ reclaimed' = [reclaimed EXCEPT ![c] = (shares[c] = {p})]

Next == \E c \in Cells : HandOut(c) \/ \E p \in Parties : LetGo(c, p)

Spec == Init /\ [][Next]_<<shares, reclaimed>>
================================================================================
