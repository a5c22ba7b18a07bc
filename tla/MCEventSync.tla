---------------------------- MODULE MCEventSync ----------------------------
(* Instances of EventSync for TLC.                                         *)
EXTENDS EventSync, TLC

CONSTANTS t1, t2

\* t1 is named after the Space "orders" and deploys it; t2 kept another name
\* and deploys it by its source.
MCNamePart    == (t1 :> "orders") @@ (t2 :> "")
MCSourceSlugs == (t1 :> {"orders"}) @@ (t2 :> {"orders"})
=============================================================================
