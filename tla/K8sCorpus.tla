------------------------------ MODULE K8sCorpus ------------------------------
(***************************************************************************)
(* The call chains the web interface ships, data/k8sCorpus.ts: for each    *)
(* source file its component, importance and key functions, and the calls  *)
(* between files.  Texts, signatures and code snippets are left out.       *)
(***************************************************************************)
EXTENDS Naturals, Sequences

SourceFile(id, component, importance, keyFunctions) ==
  [id |-> id, component |-> component, importance |-> importance, keyFunctions |-> keyFunctions]

ChainEdge(id, sourceFileId, targetFileId) ==
  [id |-> id, sourceFileId |-> sourceFileId, targetFileId |-> targetFileId]

(* The flow steps of a chain are only counted.                             *)
Chain(id, components, sourceFiles, edges, flowSteps) ==
  [id |-> id, components |-> components, sourceFiles |-> sourceFiles, edges |-> edges,
   flowSteps |-> flowSteps]

types == SourceFile("types", "api", "critical", <<"PodConditionType", "TaintEffect">>)
prober_manager == SourceFile("prober_manager", "kubelet", "critical", <<"AddPod", "UpdatePodStatus">>)
worker == SourceFile("worker", "kubelet", "high", <<"run", "doProbe">>)
generate == SourceFile("generate", "kubelet", "critical",
  <<"GenerateContainersReadyCondition", "GeneratePodReadyCondition">>)
status_manager == SourceFile("status_manager", "kubelet", "critical", <<"SetPodStatus", "syncPod">>)
pod_util == SourceFile("pod_util", "api", "medium", <<"IsPodReady">>)
node_lifecycle == SourceFile("node_lifecycle", "controller-manager", "critical",
  <<"monitorNodeHealth", "nodeConditionToTaintKeyStatusMap">>)
taint_eviction == SourceFile("taint_eviction", "controller-manager", "high", <<"handlePodUpdate">>)

podNotReadyEdges == <<
  ChainEdge("e-types-prober", "types", "prober_manager"),
  ChainEdge("e-prober-worker", "prober_manager", "worker"),
  ChainEdge("e-worker-generate", "worker", "generate"),
  ChainEdge("e-generate-status", "generate", "status_manager"),
  ChainEdge("e-status-apiserver", "status_manager", "pod_util"),
  ChainEdge("e-types-lifecycle", "types", "node_lifecycle"),
  ChainEdge("e-lifecycle-taint", "node_lifecycle", "taint_eviction"),
  ChainEdge("e-pod-util-lifecycle", "pod_util", "node_lifecycle") >>

podNotReadyChain ==
  Chain("pod-not-ready", <<"kubelet", "controller-manager", "api-server">>,
        <<types, prober_manager, worker, generate, status_manager, pod_util, node_lifecycle,
          taint_eviction>>, podNotReadyEdges, 10)

init == SourceFile("init", "kubeadm", "critical", <<"NewCmdInit">>)
certs == SourceFile("certs", "kubeadm", "critical", <<"CreatePKIAssets">>)
etcd == SourceFile("etcd", "kubeadm", "high", <<"CreateLocalEtcdStaticPodManifestFile">>)
controlplane == SourceFile("controlplane", "kubeadm", "critical",
  <<"CreateStaticPodFiles", "GetStaticPodSpecs">>)
apiserver == SourceFile("apiserver", "api-server", "critical", <<"Run">>)
controller_mgr == SourceFile("controller_mgr", "controller-manager", "high", <<"Run">>)
kubelet_phase == SourceFile("kubelet_phase", "kubeadm", "high", <<"WriteKubeletConfigToDisk">>)
bootstraptoken == SourceFile("bootstraptoken", "kubeadm", "medium", <<"CreateNewTokens">>)
addons == SourceFile("addons", "kubeadm", "medium", <<"EnsureAddons">>)

kubeadmInitEdges == <<
  ChainEdge("e-init-certs", "init", "certs"),
  ChainEdge("e-certs-etcd", "certs", "etcd"),
  ChainEdge("e-etcd-controlplane", "etcd", "controlplane"),
  ChainEdge("e-controlplane-apiserver", "controlplane", "apiserver"),
  ChainEdge("e-controlplane-ctrlmgr", "controlplane", "controller_mgr"),
  ChainEdge("e-controlplane-kubelet", "controlplane", "kubelet_phase"),
  ChainEdge("e-kubelet-bootstrap", "kubelet_phase", "bootstraptoken"),
  ChainEdge("e-bootstrap-addons", "bootstraptoken", "addons"),
  ChainEdge("e-addons-apiserver", "addons", "apiserver") >>

kubeadmInitChain ==
  Chain("kubeadm-init", <<"kubeadm", "api-server", "controller-manager">>,
        <<init, certs, etcd, controlplane, apiserver, controller_mgr, kubelet_phase,
          bootstraptoken, addons>>, kubeadmInitEdges, 9)

K8S_CORPUS == <<podNotReadyChain, kubeadmInitChain>>
=============================================================================
