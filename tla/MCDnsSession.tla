----------------------------- MODULE MCDnsSession -----------------------------
(***************************************************************************)
(* DnsSession on small instances: two settings (the user's and a profile,  *)
(* either of them the user's), one adapter where the callers are expected  *)
(* to keep the contract of the service and two where they do not.          *)
(***************************************************************************)
EXTENDS DnsSession, TLC

\* Executors are interchangeable, and so are settings (no liveness is checked
\* under symmetry).
Symmetry == Permutations(Callers) \cup Permutations(Settings)
===============================================================================
