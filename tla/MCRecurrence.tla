----------------------------- MODULE MCRecurrence -----------------------------
(***************************************************************************)
(* Model checking of runs and drains over their stores.                    *)
(***************************************************************************)
EXTENDS RecurrenceProps
=============================================================================
