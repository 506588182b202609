------------------------------ MODULE MCPowerBI ------------------------------
(***************************************************************************)
(* Model checking of the Power BI client.                                  *)
(***************************************************************************)
EXTENDS PowerBIProps
=============================================================================
