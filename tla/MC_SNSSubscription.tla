--------------------------- MODULE MC_SNSSubscription ---------------------------
EXTENDS SNSSubscription

MCValues == {"p1"}

(* Refinement mapping: the external resource is the subscription in SNS. *)
Lifecycle == INSTANCE ManagedResource WITH exists <- sub.exists

(* Refinement: the subscription controller implements the managed-       *)
(* resource lifecycle with its fairness: no Subscribe for a resource      *)
(* being deleted, the finalizer removed only once SNS answers NotFound,  *)
(* and a deleted resource's subscription eventually unsubscribed, even  *)
(* when someone else unsubscribes it first.                              *)
ImplementsFairManagedResource == Lifecycle!FairSpec
=============================================================================
