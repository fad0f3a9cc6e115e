------------------------------ MODULE MC_NodeGroup ------------------------------
EXTENDS NodeGroup

MCVersions == {"1.15", "1.16"}
\* Sizes are only compared for equality, so they are opaque values here.
MCSizes == {"2", "3"}
MCUserTags == {"team"}
MCExternalTags == {"crossplane-name"}

(* Refinement mapping: the nodegroup exists in EKS (in any status,        *)
(* DELETING included); deletion and release are the resource's own.       *)
Lifecycle == INSTANCE ManagedResource WITH exists <- ng.exists

(* Refinement: the NodeGroup controller, EKS and the user together        *)
(* implement the managed-resource lifecycle with its fairness: no         *)
(* nodegroup is created for a resource being deleted; the finalizer is    *)
(* removed only after the nodegroup is gone from EKS; and under the       *)
(* reconciler's requeueing a deleted resource's nodegroup is eventually   *)
(* deleted and the finalizer removed, although Delete skips while the     *)
(* recorded status is DELETING and a degraded nodegroup may never recover. *)
ImplementsFairManagedResource == Lifecycle!FairSpec
=============================================================================
