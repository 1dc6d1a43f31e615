----------------------------- MODULE FaultTrees -----------------------------
(***************************************************************************)
(* The workflows and fault trees that the web interface ships              *)
(* (api/mock/workflows.ts).  The events of a tree are its top event, its   *)
(* intermediate ones and its basic ones, in this order, and its gates are  *)
(* numbered; names, evaluators and gate types (all OR) are left out.  Of an *)
(* execution there is the status.                                          *)
(***************************************************************************)
EXTENDS Naturals, Sequences

Node(kind, i) == [kind |-> kind, n |-> i]
Top == Node("top", 1)
Mid(i) == Node("mid", i)
Basic(i) == Node("basic", i)
GateNode(i) == Node("gate", i)

Gate(output, inputs) == [output |-> output, inputs |-> inputs]

FaultTree(mids, basics, gates) ==
  [top |-> Top,
   events |-> [i \in 1..(1 + mids + basics) |->
                 [id |-> CASE i = 1 -> Top
                           [] i \in 2..(1 + mids) -> Mid(i - 1)
                           [] OTHER -> Basic(i - 1 - mids),
                  top |-> i = 1]],
   gates |-> [i \in DOMAIN gates |->
                [id |-> GateNode(i), output |-> gates[i].output, inputs |-> gates[i].inputs]]]

nodeNotReady == FaultTree(3, 6, <<
  Gate(Top, <<Mid(1), Mid(2), Mid(3)>>), Gate(Mid(1), <<Basic(1), Basic(2)>>),
  Gate(Mid(2), <<Basic(3), Basic(4)>>), Gate(Mid(3), <<Basic(5), Basic(6)>>) >>)

rdsReplicationLag == FaultTree(2, 5, <<
  Gate(Top, <<Mid(1), Mid(2)>>), Gate(Mid(1), <<Basic(1), Basic(2), Basic(3)>>),
  Gate(Mid(2), <<Basic(4), Basic(5)>>) >>)

nodeTree == FaultTree(4, 7, <<
  Gate(Top, <<Mid(1), Mid(2), Mid(3), Mid(4)>>), Gate(Mid(1), <<Basic(1), Basic(2)>>),
  Gate(Mid(2), <<Basic(3), Basic(4)>>), Gate(Mid(3), <<Basic(5), Basic(6)>>),
  Gate(Mid(4), <<Basic(7)>>) >>)

podTree == FaultTree(3, 6, <<
  Gate(Top, <<Mid(1), Mid(2), Mid(3)>>), Gate(Mid(1), <<Basic(3), Basic(5), Basic(6)>>),
  Gate(Mid(2), <<Basic(1), Basic(2), Basic(6)>>), Gate(Mid(3), <<Basic(4), Basic(5)>>) >>)

apiserverTree == FaultTree(4, 5, <<
  Gate(Top, <<Mid(1), Mid(2), Mid(3), Mid(4)>>), Gate(Mid(1), <<Basic(1), Basic(3)>>),
  Gate(Mid(4), <<Basic(2)>>) >>)

etcdTree == FaultTree(3, 4, <<
  Gate(Top, <<Mid(1), Mid(2), Mid(3)>>), Gate(Mid(1), <<Basic(1), Basic(2)>>) >>)

dnsTree == FaultTree(3, 4, <<
  Gate(Top, <<Mid(1), Mid(2), Mid(3)>>), Gate(Mid(1), <<Basic(1), Basic(2)>>) >>)

ingressTree == FaultTree(3, 4, <<Gate(Top, <<Mid(1), Mid(2), Mid(3)>>) >>)

deploymentTree == FaultTree(3, 4, <<
  Gate(Top, <<Mid(1), Mid(2), Mid(3)>>),
  Gate(Mid(1), <<Basic(1), Basic(2), Basic(3), Basic(4)>>) >>)

statefulsetTree == FaultTree(2, 3, <<
  Gate(Top, <<Mid(1), Mid(2)>>), Gate(Mid(1), <<Basic(1), Basic(2)>>) >>)

daemonsetTree == FaultTree(2, 3, <<
  Gate(Top, <<Mid(1), Mid(2)>>), Gate(Mid(1), <<Basic(1), Basic(2), Basic(3)>>) >>)

jobTree == FaultTree(2, 4, <<
  Gate(Top, <<Mid(1), Mid(2)>>), Gate(Mid(1), <<Basic(1), Basic(2)>>) >>)

hpaTree == FaultTree(3, 4, <<Gate(Top, <<Mid(1), Mid(2), Mid(3)>>) >>)

csiTree == FaultTree(2, 4, <<Gate(Top, <<Mid(1), Mid(2)>>) >>)

rbacTree == FaultTree(2, 3, <<Gate(Top, <<Mid(1), Mid(2)>>) >>)

certificateTree == FaultTree(2, 4, <<
  Gate(Top, <<Mid(1), Mid(2)>>), Gate(Mid(1), <<Basic(1), Basic(2), Basic(3), Basic(4)>>) >>)

schedulerTree == FaultTree(4, 4, <<
  Gate(Top, <<Mid(1), Mid(2), Mid(3), Mid(4)>>), Gate(Mid(1), <<Basic(1), Basic(2)>>) >>)

monitoringTree == FaultTree(2, 4, <<Gate(Top, <<Mid(1), Mid(2)>>) >>)

serviceTree == FaultTree(2, 4, <<
  Gate(Top, <<Mid(1), Mid(2)>>), Gate(Mid(1), <<Basic(1), Basic(2)>>) >>)

withTree == {
  "wf-001", "wf-002", "wf-kudig-node", "wf-kudig-pod", "wf-kudig-apiserver",
  "wf-kudig-etcd", "wf-kudig-dns", "wf-kudig-ingress", "wf-kudig-deployment",
  "wf-kudig-statefulset", "wf-kudig-daemonset", "wf-kudig-job", "wf-kudig-hpa",
  "wf-kudig-csi", "wf-kudig-rbac", "wf-kudig-certificate", "wf-kudig-scheduler",
  "wf-kudig-monitoring", "wf-kudig-service" }

mockFaultTrees == [w \in withTree |->
  CASE w = "wf-001" -> nodeNotReady
    [] w = "wf-002" -> rdsReplicationLag
    [] w = "wf-kudig-node" -> nodeTree
    [] w = "wf-kudig-pod" -> podTree
    [] w = "wf-kudig-apiserver" -> apiserverTree
    [] w = "wf-kudig-etcd" -> etcdTree
    [] w = "wf-kudig-dns" -> dnsTree
    [] w = "wf-kudig-ingress" -> ingressTree
    [] w = "wf-kudig-deployment" -> deploymentTree
    [] w = "wf-kudig-statefulset" -> statefulsetTree
    [] w = "wf-kudig-daemonset" -> daemonsetTree
    [] w = "wf-kudig-job" -> jobTree
    [] w = "wf-kudig-hpa" -> hpaTree
    [] w = "wf-kudig-csi" -> csiTree
    [] w = "wf-kudig-rbac" -> rbacTree
    [] w = "wf-kudig-certificate" -> certificateTree
    [] w = "wf-kudig-scheduler" -> schedulerTree
    [] w = "wf-kudig-monitoring" -> monitoringTree
    [] w = "wf-kudig-service" -> serviceTree]

(* Workflows in the list for which there is no tree.                       *)
withoutTree == {
  "wf-003", "wf-004", "wf-005", "wf-kudig-vpa", "wf-kudig-controller", "wf-kudig-nodepool",
  "wf-kudig-pdb", "wf-kudig-autoscaler", "wf-kudig-cluster-upgrade", "wf-kudig-gateway",
  "wf-kudig-service-mesh", "wf-kudig-gitops", "wf-kudig-gpu", "wf-kudig-helm",
  "wf-kudig-crd", "wf-kudig-networkpolicy", "wf-kudig-psp", "wf-kudig-resourcequota",
  "wf-kudig-webhook", "wf-kudig-backup", "wf-kudig-cloudprovider", "wf-kudig-terway",
  "wf-kudig-monitoring-extra" }

mockWorkflowDetails == DOMAIN mockFaultTrees \cup withoutTree

(* The statuses of the recorded executions of each workflow.               *)
mockWorkflowExecutions == [w \in mockWorkflowDetails |->
  CASE w = "wf-001" -> <<"completed", "completed", "running">>
    [] w = "wf-004" -> <<"completed", "failed">>
    [] w = "wf-kudig-scheduler" -> <<"completed", "failed">>
    [] w \in {"wf-002", "wf-kudig-pod", "wf-kudig-dns", "wf-kudig-deployment", "wf-kudig-service"} ->
         <<"completed", "completed">>
    [] w \in {"wf-003", "wf-005", "wf-kudig-monitoring-extra"} -> <<>>
    [] OTHER -> <<"completed">>]
=============================================================================
