----------------------------- MODULE MCTriageRun -----------------------------
(***************************************************************************)
(* Model checking of one triage run.  Each configuration offers the model  *)
(* the tools one question is about; see README.md for the bounds.          *)
(***************************************************************************)
EXTENDS TriageRunProps

Row(s, n) == [status |-> s, attempts |-> n]
Start(k, g, r, l) ==
  [known |-> k, gate |-> g, retry |-> r, latest |-> l]

\* A new failure that can be asked about.
FreshFailure == {Start("none", TRUE, Row("none", 0), "Failed")}

\* New and seen before, announced or not; failing or recovered; with or without
\* somebody to ask, and with a retry store that is empty, in use or missing.
AllFailures ==
  {Start("none", TRUE, Row("none", 0), "Failed"),
   Start("open", TRUE, Row("pending", 1), "Completed"),
   Start("announced", FALSE, Row("unavailable", 0), "Failed")}
=============================================================================
