----------------------------- MODULE Conversions -----------------------------
(***************************************************************************)
(* What the bridge promises an X client about its ConvertSelection         *)
(* requests: each gets one answer, the value or a refusal.                 *)
(***************************************************************************)
CONSTANT Convs

VARIABLE status

Init == status = [c \in Convs |-> "unasked"]

Ask(c) ==
  /\ status[c] = "unasked"
  /\ status' = [status EXCEPT ![c] = "pending"]

Answer(c) ==
  /\ status[c] = "pending"
  /\ \E what \in {"value", "refused"} : status' = [status EXCEPT ![c] = what]

Next == \E c \in Convs : Ask(c) \/ Answer(c)

Spec == Init /\ [][Next]_status
=============================================================================
