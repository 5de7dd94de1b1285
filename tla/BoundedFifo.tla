----------------------------- MODULE BoundedFifo -----------------------------
(***************************************************************************)
(* What a virtual terminal's input buffer promises: characters come out in *)
(* the order they went in, none twice and none invented; one is refused    *)
(* only when Capacity are held.                                            *)
(***************************************************************************)
EXTENDS Integers, Sequences

CONSTANTS Chars, Capacity, NoChar

VARIABLES held,    \* the characters in the buffer, oldest first
          refused, \* whether the last one offered was refused
          got      \* the answer of the last read

vars == <<held, refused, got>>

Init ==
    /\ held = <<>>
    /\ refused = FALSE
    /\ got = NoChar

Put(c) ==
    /\ refused' = (Len(held) = Capacity)
    /\ held' = IF Len(held) = Capacity THEN held ELSE Append(held, c)
    /\ UNCHANGED got

Get ==
    /\ got' = IF held = <<>> THEN NoChar ELSE Head(held)
    /\ held' = IF held = <<>> THEN held ELSE Tail(held)
    /\ UNCHANGED refused

Next == Get \/ \E c \in Chars : Put(c)

Spec == Init /\ [][Next]_vars

=============================================================================
