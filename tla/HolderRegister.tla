--------------------------- MODULE HolderRegister ---------------------------
(***************************************************************************)
(* What handing buildings over promises, with no rows and no requests in   *)
(* it: a building has at most one holder, some buildings change hands at   *)
(* one stroke, and a team leader takes only what nobody outside the team   *)
(* holds.                                                                  *)
(***************************************************************************)
CONSTANTS Building, Executive, Manager, Leader, Team, None

VARIABLE holder   \* the holder of each building, or None

Assign(a, bs, e) ==
    /\ e \in Team[a]
    /\ a \in Leader => \A b \in bs : holder[b] \in Team[a] \cup {None}
    /\ holder' = [b \in Building |-> IF b \in bs THEN e ELSE holder[b]]

Init == holder \in [Building -> Executive \cup {None}]

Next == \E a \in Manager \cup Leader, bs \in SUBSET Building, e \in Executive : Assign(a, bs, e)

Spec == Init /\ [][Next]_holder
=============================================================================
