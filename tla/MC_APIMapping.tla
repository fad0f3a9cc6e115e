---------------------------- MODULE MC_APIMapping ----------------------------
EXTENDS APIMapping, TLC

CONSTANTS a1, a2, i1, i2, i3, i4, i5

MCApis == {a1, a2}
MCKeys == {"v1", "v2"}
MCIds == {i1, i2, i3, i4, i5}

\* Ids and APIs are interchangeable; keys are not (one is the spec's).
Symmetry == Permutations(MCIds) \cup Permutations(MCApis)

(* Refinement mapping: the external resource exists while the domain     *)
(* holds a mapping this resource created.                                 *)
Lifecycle == INSTANCE ManagedResource
                 WITH exists <- \E m \in mappings : m.owner = "crossplane"

(* Refinement: while the key is left alone, the APIMapping controller     *)
(* implements the managed-resource lifecycle with fairness, even when a  *)
(* create's answer is lost and a foreign create races it for the key: no *)
(* mapping is created for a resource being deleted, a deleted resource's *)
(* mapping is eventually deleted, and only then is the finalizer removed. *)
ImplementsFairManagedResource == Lifecycle!FairSpec
=============================================================================
