---------------------------- MODULE KubeClientMC ----------------------------
(* Small instances of KubeClient: operations against two refresh loops,    *)
(* the second started after the first was stopped.                         *)
EXTENDS KubeClient, TLC

CONSTANTS o1, o2

(* A short operation on two components or without the lock, beside one     *)
(* that may hold the lock for ever.                                        *)
ShortAndLong ==
  o1 :> {"ExecInPod", "ApplyResource", "GetPodLogs"} @@ o2 :> {"GetClusteredResource"}

(* Any operation.                                                          *)
AnyKind == [o \in Ops |-> Kinds]
=============================================================================
