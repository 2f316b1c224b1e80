----------------------------- MODULE MCDashboard -----------------------------
(* Instances of Dashboard for TLC.                                         *)
EXTENDS Dashboard

\* The server is started again for one of its two sources.
SecondOfTwo == <<{"bloom", "surf"}, {"surf"}>>
=============================================================================
