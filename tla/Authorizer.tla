------------------------------ MODULE Authorizer ------------------------------
(***************************************************************************)
(* An API Gateway v2 Authorizer managed by Crossplane.                     *)
(*                                                                         *)
(* The hooks of src/unnamed/part_000 are translated: filterList keeps the *)
(* listed authorizers whose name is the external name; the Get, Create    *)
(* and Delete inputs take the API id from spec.forProvider.apiId, the     *)
(* create input names the authorizer after the external name, the delete  *)
(* input takes status.atProvider.authorizerId; postObserve sets           *)
(* Available; postCreate passes the result through. The generated         *)
(* Observe/Create/Delete around them (GetAuthorizers, filterList, return  *)
(* not-found on an empty list, copy the first item's id into the status)  *)
(* is modelled from the spec, after the pattern GenerateAPIMapping shows   *)
(* in zz_conversions.go. Authorizer fields other than name and id are not *)
(* modelled, so an existing authorizer is always up to date.              *)
(*                                                                         *)
(* Several Authorizer resources share API Gateway: each has its own spec, *)
(* status and pass, indexed by Resources; the authorizers are shared.     *)
(***************************************************************************)
EXTENDS Naturals, FiniteSets

CONSTANTS
    Resources,     \* the Authorizer managed resources
    Apis,          \* API ids
    Names,         \* authorizer names
    ExternalName,  \* each resource's external name (crossplane.io/external-name)
    Ids,           \* authorizer ids API Gateway hands out
    Nil,           \* an unset authorizerId
    MaxFailures,   \* bound on failed calls, including creates whose answer is lost
    MaxEdits,      \* bound on user edits of spec.forProvider.apiId
    MaxForeign     \* bound on authorizers created outside Crossplane

ASSUME /\ ExternalName \in [Resources -> Names] /\ Nil \notin Ids
       /\ "other" \notin Resources
       /\ {MaxFailures, MaxEdits, MaxForeign} \subseteq Nat

VARIABLES
    authorizers,  \* the authorizers in API Gateway: [id, api, name, owner]
    used,         \* ids handed out so far (API Gateway never reuses one)
    apiId,        \* per resource: cr.Spec.ForProvider.APIID
    authorizerID, \* per resource: cr.Status.AtProvider.AuthorizerID
    cond,         \* per resource: the Ready condition
    deleting, gone,
    pc, exists,   \* per resource: the pass's step and its observation's ResourceExists
    failures, edits, foreign

vars == <<authorizers, used, apiId, authorizerID, cond, deleting, gone,
          pc, exists, failures, edits, foreign>>

\* The creator of an authorizer: a resource, or someone outside Crossplane.
Owners == Resources \cup {"other"}
Authorizer == [id : Ids, api : Apis, name : Names, owner : Owners]

-----------------------------------------------------------------------------
\* Variant: the list is not filtered at all.
filterListAll(name, items) == items

\* Variant: the list is filtered on the authorizer id instead of the name.
filterListById(name, items) == {a \in items : a.id = name}

\* filterList: the listed authorizers whose name is the external name.
filterList(name, items) == {a \in items : a.name = name}

\* postGenerateGetAuthorizersInput: GetAuthorizers lists one API.
GetAuthorizers(api) == {a \in authorizers : a.api = api}

\* Variant: the delete input is sent without the authorizer id.
DeleteTargetWithoutId(api, id) == {a \in authorizers : a.api = api /\ a.id = Nil}

\* postGenerateDeleteAuthorizerInput: the authorizer DeleteAuthorizer names.
DeleteTarget(api, id) == {a \in authorizers : a.api = api /\ a.id = id}

\* Variant: the create input names the authorizer after the API id.
NewAuthorizerNamedByApi(r, id) ==
    [id |-> id, api |-> apiId[r], name |-> apiId[r], owner |-> r]

\* postGenerateCreateAuthorizerInput, and the authorizer API Gateway adds.
NewAuthorizer(r, id) ==
    [id |-> id, api |-> apiId[r], name |-> ExternalName[r], owner |-> r]

Fail == failures < MaxFailures /\ failures' = failures + 1
Done(r) == pc' = [pc EXCEPT ![r] = "idle"]

-----------------------------------------------------------------------------
Init ==
    /\ authorizers = {} /\ used = {}
    /\ apiId \in [Resources -> Apis]
    /\ authorizerID = [r \in Resources |-> Nil]
    /\ cond = [r \in Resources |-> "None"]
    /\ deleting = [r \in Resources |-> FALSE] /\ gone = [r \in Resources |-> FALSE]
    /\ pc = [r \in Resources |-> "idle"] /\ exists = [r \in Resources |-> FALSE]
    /\ failures = 0 /\ edits = 0 /\ foreign = 0

(* Observe: GetAuthorizers for the spec's API, filterList; an empty list  *)
(* is not-found; otherwise the first item's id goes to the status and     *)
(* postObserve sets Available. The list order is API Gateway's: any.     *)
Observe(r) ==
    /\ pc[r] = "idle" /\ ~gone[r]
    /\ \/ Fail /\ UNCHANGED <<authorizerID, cond, pc, exists>>
       \/ LET found == filterList(ExternalName[r], GetAuthorizers(apiId[r])) IN
          \/ /\ found = {}
             /\ exists' = [exists EXCEPT ![r] = FALSE]
             /\ pc' = [pc EXCEPT ![r] = "observed"]
             /\ UNCHANGED <<authorizerID, cond, failures>>
          \/ \E a \in found :
                /\ authorizerID' = [authorizerID EXCEPT ![r] = a.id]
                /\ cond' = [cond EXCEPT ![r] = "Available"]
                /\ exists' = [exists EXCEPT ![r] = TRUE]
                /\ pc' = [pc EXCEPT ![r] = "observed"]
                /\ UNCHANGED failures
    /\ UNCHANGED <<authorizers, used, apiId, deleting, gone, edits, foreign>>

(* Create: set Creating, CreateAuthorizer; postCreate passes the result   *)
(* through, so nothing of the answer is kept. The call can fail, or       *)
(* succeed with its answer lost.                                          *)
Create(r) ==
    /\ pc[r] = "observed" /\ ~deleting[r] /\ ~exists[r]
    /\ cond' = [cond EXCEPT ![r] = "Creating"]
    /\ \E id \in Ids \ used :
          \/ /\ authorizers' = authorizers \cup {NewAuthorizer(r, id)}
             /\ used' = used \cup {id}
             /\ UNCHANGED failures
          \/ /\ Fail
             /\ \/ UNCHANGED <<authorizers, used>>
                \/ /\ authorizers' = authorizers \cup {NewAuthorizer(r, id)}
                   /\ used' = used \cup {id}
    /\ Done(r)
    /\ UNCHANGED <<apiId, authorizerID, deleting, gone, exists, edits, foreign>>

(* Delete: set Deleting, DeleteAuthorizer(apiId, authorizerId); NotFound  *)
(* counts as deleted.                                                     *)
Delete(r) ==
    /\ pc[r] = "observed" /\ deleting[r] /\ exists[r]
    /\ cond' = [cond EXCEPT ![r] = "Deleting"]
    /\ \/ authorizers' = authorizers \ DeleteTarget(apiId[r], authorizerID[r])
          /\ UNCHANGED failures
       \/ Fail /\ UNCHANGED authorizers
    /\ Done(r)
    /\ UNCHANGED <<used, apiId, authorizerID, deleting, gone, exists, edits, foreign>>

RemoveFinalizer(r) ==
    /\ pc[r] = "observed" /\ deleting[r] /\ ~exists[r]
    /\ gone' = [gone EXCEPT ![r] = TRUE]
    /\ Done(r)
    /\ UNCHANGED <<authorizers, used, apiId, authorizerID, cond, deleting, exists,
                   failures, edits, foreign>>

UpToDate(r) ==
    /\ pc[r] = "observed" /\ ~deleting[r] /\ exists[r]
    /\ Done(r)
    /\ UNCHANGED <<authorizers, used, apiId, authorizerID, cond, deleting, gone,
                   exists, failures, edits, foreign>>

Reconcile(r) ==
    Observe(r) \/ Create(r) \/ Delete(r) \/ RemoveFinalizer(r) \/ UpToDate(r)

-----------------------------------------------------------------------------
(* The users between passes, and others using the same APIs.              *)

EditApiId(r) ==
    /\ pc[r] = "idle" /\ ~deleting[r] /\ edits < MaxEdits
    /\ \E api \in Apis \ {apiId[r]} : apiId' = [apiId EXCEPT ![r] = api]
    /\ edits' = edits + 1
    /\ UNCHANGED <<authorizers, used, authorizerID, cond, deleting, gone, pc,
                   exists, failures, foreign>>

DeleteResource(r) ==
    /\ pc[r] = "idle" /\ ~deleting[r]
    /\ deleting' = [deleting EXCEPT ![r] = TRUE]
    /\ UNCHANGED <<authorizers, used, apiId, authorizerID, cond, gone, pc, exists,
                   failures, edits, foreign>>

ForeignCreate ==
    /\ foreign < MaxForeign
    /\ \E id \in Ids \ used, api \in Apis, n \in Names :
          /\ authorizers' = authorizers \cup
                              {[id |-> id, api |-> api, name |-> n, owner |-> "other"]}
          /\ used' = used \cup {id}
    /\ foreign' = foreign + 1
    /\ UNCHANGED <<apiId, authorizerID, cond, deleting, gone, pc, exists,
                   failures, edits>>

Finished == (\A r \in Resources : gone[r]) /\ UNCHANGED vars

Next ==
    \/ \E r \in Resources : Reconcile(r) \/ EditApiId(r) \/ DeleteResource(r)
    \/ ForeignCreate
    \/ Finished

Spec == Init /\ [][Next]_vars

(* The reconciler requeues every resource, so each resource's steps are   *)
(* weakly fair.                                                           *)
FairSpec == Spec /\ \A r \in Resources : WF_vars(Reconcile(r))

-----------------------------------------------------------------------------
TypeOK ==
    /\ authorizers \subseteq Authorizer /\ used \subseteq Ids
    /\ apiId \in [Resources -> Apis] /\ authorizerID \in [Resources -> Ids \cup {Nil}]
    /\ cond \in [Resources -> {"None", "Available", "Creating", "Deleting"}]
    /\ deleting \in [Resources -> BOOLEAN] /\ gone \in [Resources -> BOOLEAN]
    /\ pc \in [Resources -> {"idle", "observed"}] /\ exists \in [Resources -> BOOLEAN]
    /\ failures \in 0..MaxFailures /\ edits \in 0..MaxEdits /\ foreign \in 0..MaxForeign

(* Action property: a pass of a resource only ever deletes an authorizer  *)
(* named after its external name, and never one another resource         *)
(* created. Delete names the authorizer by the id Observe copied from the *)
(* filtered list; without the name filter it would delete whatever       *)
(* authorizer the API lists first, and a resource with the same external  *)
(* name lists the other's authorizer as its own.                          *)
DeletesOnlyExternalName ==
    [][\A r \in Resources :
         Reconcile(r) => \A a \in authorizers \ authorizers' :
                            a.name = ExternalName[r] /\ a.owner \in {r, "other"}]_vars

(* Safety: an API never holds two authorizers one resource created, even *)
(* when CreateAuthorizer succeeds but its answer is lost. Nothing of the  *)
(* answer is kept (postCreate), so only Observe's lookup by name keeps    *)
(* the retried Create from adding a second one.                           *)
NoDuplicateAuthorizer ==
    \A r \in Resources, api \in Apis :
        Cardinality({a \in authorizers : a.api = api /\ a.owner = r}) <= 1

(* Safety: once a resource is gone, no authorizer it created is left in   *)
(* any API.                                                               *)
NoOrphanedAuthorizer ==
    \A r \in Resources : gone[r] => \A a \in authorizers : a.owner # r

(* Liveness: every resource ends either gone, or Available with its       *)
(* status naming an authorizer of its external name in its spec's API.    *)
Converges ==
    \A r \in Resources :
        <>[](\/ gone[r]
             \/ /\ ~deleting[r] /\ cond[r] = "Available"
                /\ \E a \in filterList(ExternalName[r], GetAuthorizers(apiId[r])) :
                      a.id = authorizerID[r])
=============================================================================
