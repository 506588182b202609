---------------------------- MODULE MCApprovalGate ----------------------------
(***************************************************************************)
(* Model checking of approvals: one action of one mail, which may be asked *)
(* for with two arguments.                                                 *)
(***************************************************************************)
EXTENDS ApprovalGateProps

MCRequests == {<<"rebind", "A">>, <<"rebind", "B">>}
=============================================================================
