---------------------------- MODULE MCDashboard ----------------------------
(***************************************************************************)
(* Small instances: how many messages of each kind are broadcast.          *)
(***************************************************************************)
EXTENDS Dashboard

FeedLimit == [k \in Kinds |-> IF k \in {"risk", "compliance"} THEN 2 ELSE 1]
=============================================================================
