----------------------------- MODULE MCIrqPath -----------------------------
(* IrqPath with two sources: the system timer's and the UART's.            *)
EXTENDS IrqPath

CONSTANTS tcu0, uart0

MCIrqs == {tcu0, uart0}

=============================================================================
