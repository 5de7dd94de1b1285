------------------------------ MODULE MCConsole ------------------------------
(* A ring of three slots, two different characters.                        *)
EXTENDS Console

CONSTANTS a, b

MCChars == {a, b}

=============================================================================
