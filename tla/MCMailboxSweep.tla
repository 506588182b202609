--------------------------- MODULE MCMailboxSweep ---------------------------
(***************************************************************************)
(* Model checking of the mailbox sweeps.                                   *)
(***************************************************************************)
EXTENDS MailboxSweepProps

CONSTANTS w1, w2, a1, a2, n1   \* processes; alerts; mail that is no alert
=============================================================================
