--------------------------- MODULE SecureRegister ---------------------------
(***************************************************************************)
(* What the session storage of the phone promises to the auth client: one  *)
(* register that holds a whole session or none.  An operation takes effect *)
(* in one step or, if it breaks off, perhaps not at all.                   *)
(***************************************************************************)
CONSTANTS Values, None, Idle

VARIABLES
    value,     \* what getItem returns
    asked,     \* the value being written, None for a removal, Idle between operations
    outcome    \* how the last operation ended

Init == value = None /\ asked = Idle /\ outcome = "done"

Ask(v) == asked = Idle /\ asked' = v /\ UNCHANGED <<value, outcome>>

TakeEffect == asked # Idle /\ value' = asked /\ UNCHANGED <<asked, outcome>>

Succeed == asked # Idle /\ value = asked /\ asked' = Idle /\ outcome' = "done" /\ UNCHANGED value

BreakOff == asked # Idle /\ asked' = Idle /\ outcome' = "broken" /\ UNCHANGED value

Next == (\E v \in Values \union {None} : Ask(v)) \/ TakeEffect \/ Succeed \/ BreakOff

Spec == Init /\ [][Next]_<<value, asked, outcome>>
=============================================================================
