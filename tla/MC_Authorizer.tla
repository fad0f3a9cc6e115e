------------------------------ MODULE MC_Authorizer ------------------------------
EXTENDS Authorizer, TLC

CONSTANTS r1, r2, a1, a2, i1, i2, i3, i4, i5

MCApis == {a1, a2}
MCNames == {"jwt", "lambda"}
MCIds == {i1, i2, i3, i4, i5}

\* One resource, named "jwt".
OneResource == {r1}
OneExternalName == [r \in OneResource |-> "jwt"]

\* Two resources in the same APIs: with their own names, or with one name.
TwoResources == {r1, r2}
DistinctExternalNames == (r1 :> "jwt") @@ (r2 :> "lambda")
SharedExternalName == [r \in TwoResources |-> "jwt"]

\* Ids and API ids are opaque: permuting them maps behaviours to behaviours.
Symmetry == Permutations(MCIds) \cup Permutations(MCApis)

(* Refinement mapping for resource r1: its external resource exists while *)
(* API Gateway holds an authorizer r1 created, in whatever API.           *)
Lifecycle == INSTANCE ManagedResource
                    WITH exists <- \E a \in authorizers : a.owner = r1,
                         deleting <- deleting[r1], gone <- gone[r1]

(* Refinement: while spec.forProvider.apiId is left alone, the Authorizer *)
(* controller implements the managed-resource lifecycle with fairness for *)
(* resource r1, with r2 (if any) reconciled beside it: no create for a    *)
(* resource being deleted, the finalizer removed only once no authorizer  *)
(* it created is left, and a deleted resource's authorizers are           *)
(* eventually all deleted, each by the id Observe recorded, and then the  *)
(* finalizer is removed; a same-named foreign authorizer Observe may pick *)
(* instead must not keep it from getting there.                           *)
ImplementsFairManagedResource == Lifecycle!FairSpec
=============================================================================
