------------------------------ MODULE NodeCert ------------------------------
(***************************************************************************)
(* images/runner-node-certificate-controller/main.py: a cron job that runs *)
(* every minute (concurrencyPolicy: Forbid) and takes the startup taint    *)
(* node.spack.io/certificate-pending off the runner nodes whose kubelet    *)
(* certificate works.  Nodes, their conditions and their other taints      *)
(* belong to Kubernetes and Karpenter and change between any two calls of  *)
(* a run.  The patch carries the resourceVersion of the node that was      *)
(* read, so the API server refuses it when the node was written meanwhile; *)
(* "current" abstracts that version.                                       *)
(***************************************************************************)
EXTENDS Integers, FiniteSets

CONSTANTS
    Nodes,          \* names of runner nodes; a name is used once
    MaxNodeOps      \* bound: what Kubernetes does to nodes that have joined

ASSUME NodeAssumption == MaxNodeOps \in Nat

(* Taints: the one of this controller, the one each node pool of           *)
(* k8s/production/karpenter/provisioners/runners sets (runner-taint or     *)
(* notary-taint), and those other controllers set and lift.                *)
Cert   == "certificate-pending"
Pool   == "runner-taint"
Other  == "unreachable"
Taints == {Cert, Pool, Other}

(* What the conditions of a node say: not ready yet (KubeletNotReady),     *)
(* ready, ready with a message about certificates, or no longer reported.  *)
Conditions == {"joining", "ready", "certissue", "unknown"}
Absent     == "absent"
Calls      == {"ready", "csr", "kubelet", "conditions", "read", "patch"}

VARIABLES
    nodeState,      \* nodeState[n]: its conditions, or Absent
    nodeTaints,     \* nodeTaints[n]: its taints
    nodeCSRs,       \* the nodes with an approved certificate request listed
    nodeOps,        \* what happened to nodes that have joined
    (* one run of the controller *)
    nodeTodo,       \* tainted nodes listed and not yet processed
    nodeCall,       \* the next call on the node being processed
    nodeCur,        \* the node being processed: {} or a singleton
    nodeCopy,       \* the taints remove_taint_from_node has read
    nodeCurrent     \* the node was not written since

nodeCluster == <<nodeState, nodeTaints, nodeCSRs, nodeOps>>
nodeRun     == <<nodeTodo, nodeCall, nodeCur, nodeCopy, nodeCurrent>>
nodeVars    == <<nodeCluster, nodeRun>>

(* A run is at one node at most, and a copy holds what a node can carry.   *)
NodeTypeOK ==
    /\ nodeState \in [Nodes -> Conditions \union {Absent}]
    /\ nodeTaints \in [Nodes -> SUBSET Taints]
    /\ nodeCSRs \subseteq Nodes /\ nodeOps \in 0 .. MaxNodeOps
    /\ nodeTodo \subseteq Nodes /\ nodeCall \in Calls
    /\ nodeCur \in {{}} \union {{n} : n \in Nodes}
    /\ nodeCopy \subseteq Taints /\ nodeCurrent \in BOOLEAN

NodeFresh ==
    /\ nodeTodo = {} /\ nodeCall = "ready" /\ nodeCur = {}
    /\ nodeCopy = {} /\ nodeCurrent = FALSE

NodeInit ==
    /\ nodeState = [n \in Nodes |-> Absent]
    /\ nodeTaints = [n \in Nodes |-> {}]
    /\ nodeCSRs = {} /\ nodeOps = 0
    /\ NodeFresh

-----------------------------------------------------------------------------
(***************************************************************************)
(* Kubernetes and Karpenter.                                               *)
(***************************************************************************)
Up(n) == nodeState[n] # Absent

(* Every write to the node that was read makes the copy out of date.       *)
Touch(n) == nodeCurrent' = (nodeCurrent /\ n \notin nodeCur)

NodeJoins(n) ==
    /\ nodeState[n] = Absent /\ nodeTaints[n] = {}
    /\ nodeState' = [nodeState EXCEPT ![n] = "joining"]
    /\ nodeTaints' = [nodeTaints EXCEPT ![n] = {Cert, Pool}]
    /\ UNCHANGED <<nodeCSRs, nodeOps, nodeRun>>

ApproveCSR(n) ==
    /\ Up(n) /\ n \notin nodeCSRs
    /\ nodeCSRs' = nodeCSRs \union {n}
    /\ UNCHANGED <<nodeState, nodeTaints, nodeOps, nodeRun>>

(* The kubelet reports other conditions.                                   *)
Report(n) ==
    /\ Up(n) /\ nodeOps < MaxNodeOps /\ nodeOps' = nodeOps + 1
    /\ \E c \in Conditions \ {nodeState[n]} : nodeState' = [nodeState EXCEPT ![n] = c]
    /\ Touch(n)
    /\ UNCHANGED <<nodeTaints, nodeCSRs, nodeTodo, nodeCall, nodeCur, nodeCopy>>

(* Another controller sets or lifts a taint of its own.                    *)
SetOtherTaint(n) ==
    /\ Up(n) /\ nodeOps < MaxNodeOps /\ nodeOps' = nodeOps + 1
    /\ nodeTaints' = [nodeTaints EXCEPT ![n] =
                         IF Other \in @ THEN @ \ {Other} ELSE @ \union {Other}]
    /\ Touch(n)
    /\ UNCHANGED <<nodeState, nodeCSRs, nodeTodo, nodeCall, nodeCur, nodeCopy>>

(* Karpenter consolidates the node, or its spot instance is reclaimed.     *)
NodeLeaves(n) ==
    /\ Up(n) /\ nodeOps < MaxNodeOps /\ nodeOps' = nodeOps + 1
    /\ nodeState' = [nodeState EXCEPT ![n] = Absent]
    /\ Touch(n)
    /\ UNCHANGED <<nodeTaints, nodeCSRs, nodeTodo, nodeCall, nodeCur, nodeCopy>>

-----------------------------------------------------------------------------
(***************************************************************************)
(* One run of main().                                                      *)
(***************************************************************************)
EndNodeRun ==
    /\ nodeTodo' = {} /\ nodeCall' = "ready" /\ nodeCur' = {}
    /\ nodeCopy' = {} /\ nodeCurrent' = FALSE

(* get_tainted_runner_nodes.                                               *)
ListTainted ==
    /\ nodeTodo = {} /\ nodeCur = {}
    /\ nodeTodo' = {n \in Nodes : Up(n) /\ Cert \in nodeTaints[n]}
    /\ nodeTodo' # {}
    /\ UNCHANGED <<nodeCluster, nodeCall, nodeCur, nodeCopy, nodeCurrent>>

NextNode(n) ==
    /\ nodeCur = {} /\ n \in nodeTodo
    /\ nodeCur' = {n} /\ nodeTodo' = nodeTodo \ {n}
    /\ UNCHANGED <<nodeCluster, nodeCall, nodeCopy, nodeCurrent>>

At(n, call) == nodeCur = {n} /\ nodeCall = call /\ Up(n)

Goto(call) ==
    /\ nodeCall' = call
    /\ UNCHANGED <<nodeCluster, nodeTodo, nodeCur, nodeCopy, nodeCurrent>>

(* Done with this node: the loop goes on with the next one.                *)
KeepTaintReturn == EndNodeRun /\ UNCHANGED nodeCluster   \* faulty variant
KeepTaint ==
    /\ nodeCur' = {} /\ nodeCall' = "ready" /\ nodeCopy' = {} /\ nodeCurrent' = FALSE
    /\ UNCHANGED <<nodeCluster, nodeTodo>>

CheckReady(n) ==
    /\ At(n, "ready")
    /\ IF nodeState[n] \in {"ready", "certissue"} THEN Goto("csr") ELSE KeepTaint

CheckCSRs(n) ==
    /\ At(n, "csr")
    /\ IF n \in nodeCSRs THEN Goto("kubelet") ELSE KeepTaint

(* One of three kubelet endpoints answers, or the node reports Ready.      *)
CheckKubelet(n) ==
    /\ At(n, "kubelet")
    /\ \/ nodeState[n] # "unknown" /\ Goto("conditions")
       \/ nodeState[n] \in {"joining", "unknown"} /\ KeepTaint

CheckConditions(n) ==
    /\ At(n, "conditions")
    /\ IF nodeState[n] \in {"ready", "unknown"} THEN Goto("read") ELSE KeepTaint

(* remove_taint_from_node: read the node ...                               *)
ReadNode(n) ==
    /\ At(n, "read")
    /\ nodeCopy' = nodeTaints[n] /\ nodeCurrent' = TRUE /\ nodeCall' = "patch"
    /\ UNCHANGED <<nodeCluster, nodeTodo, nodeCur>>

(* ... and write the list without this taint, unless nothing is left.  The *)
(* API server refuses a copy that is out of date.                          *)
MayPatchStale(n) == At(n, "patch")   \* faulty variant: the version is not sent
MayPatch(n) == At(n, "patch") /\ nodeCurrent

PatchNode(n) ==
    /\ MayPatch(n)
    /\ IF nodeCopy \ {Cert} = {} THEN KeepTaint
       ELSE /\ nodeTaints' = [nodeTaints EXCEPT ![n] = nodeCopy \ {Cert}]
            /\ nodeCur' = {} /\ nodeCall' = "ready" /\ nodeCopy' = {} /\ nodeCurrent' = FALSE
            /\ UNCHANGED <<nodeState, nodeCSRs, nodeOps, nodeTodo>>

(* 404 for a node that has left, 409 for a copy that is out of date: an    *)
(* ApiException that nothing catches ends the run.                         *)
NodeRunDies ==
    /\ \E n \in nodeCur : ~Up(n) \/ (nodeCall = "patch" /\ ~nodeCurrent)
    /\ EndNodeRun
    /\ UNCHANGED nodeCluster

-----------------------------------------------------------------------------
NodeEnv(n) == NodeJoins(n) \/ ApproveCSR(n) \/ Report(n) \/ SetOtherTaint(n) \/ NodeLeaves(n)

NodeStep(n) ==
    \/ NextNode(n) \/ CheckReady(n) \/ CheckCSRs(n) \/ CheckKubelet(n)
    \/ CheckConditions(n) \/ ReadNode(n) \/ PatchNode(n)

NodeController == ListTainted \/ NodeRunDies \/ \E n \in Nodes : NodeStep(n)

NodeNext == NodeController \/ \E n \in Nodes : NodeEnv(n)

NodeSpec == NodeInit /\ [][NodeNext]_nodeVars

-----------------------------------------------------------------------------
(* The taint list is read, filtered and written back whole: whatever other *)
(* controllers do to the node meanwhile, only this controller's taint goes. *)
OnlyCertRemoved ==
    \A n \in Nodes : Cert \in nodeTaints[n] /\ Cert \notin nodeTaints'[n]
                        => nodeTaints'[n] = nodeTaints[n] \ {Cert}
NodeOthersKept == [][OnlyCertRemoved]_nodeVars

(* A node that stays ready, with its certificate approved, loses the taint *)
(* and takes jobs: other nodes that leave, never get ready or keep changing *)
(* under the controller do not keep it from that.                          *)
Healthy(n) == nodeState[n] = "ready" /\ n \in nodeCSRs
NodeJoinsService == \A n \in Nodes : <>[]Healthy(n) => <>[](Cert \notin nodeTaints[n])
=============================================================================
