------------------------------ MODULE APIMapping ------------------------------
(***************************************************************************)
(* An API Gateway v2 APIMapping managed by Crossplane.                     *)
(*                                                                         *)
(* The generated conversions of zz_conversions.go are translated:          *)
(* GenerateAPIMapping copies the first listed mapping into the status;     *)
(* GenerateCreateApiMappingInput sets the key only when the spec has one;  *)
(* GenerateDeleteApiMappingInput names the mapping by the status id;       *)
(* IsNotFound recognises NotFoundException. The generated Observe, Create  *)
(* and Delete around them, and the filterList hook that decides which      *)
(* listed mappings GenerateAPIMapping sees, are not in the sample and are  *)
(* modelled from the spec. The hook is a constant: "none" keeps the whole *)
(* list (the generator's default), "byKey" keeps the mappings whose key is *)
(* the spec's, as the Authorizer's filterList does with the name.         *)
(***************************************************************************)
EXTENDS Naturals, FiniteSets

CONSTANTS
    Apis,        \* API ids a mapping can point at
    Keys,        \* mapping keys a user can write (none of them "")
    Ids,         \* mapping ids API Gateway hands out
    Nil,         \* an unset pointer
    Filter,      \* the filterList hook: "none" or "byKey"
    MaxFailures, \* bound on failed calls, including creates whose answer is lost
    MaxEdits,    \* bound on user edits of spec.forProvider.apiMappingKey
    MaxForeign,  \* bound on mappings others create on the domain
    DomainDeletable \* whether someone may delete the custom domain name

ASSUME /\ Nil \notin Ids \cup Keys \cup Apis /\ "" \notin Keys
       /\ Filter \in {"none", "byKey"}
       /\ {MaxFailures, MaxEdits, MaxForeign} \subseteq Nat
       /\ DomainDeletable \in BOOLEAN

VARIABLES
    domain,      \* the custom domain name exists
    mappings,    \* the domain's API mappings: [id, api, key, owner]
    used,        \* ids handed out so far
    forProvider, \* cr.Spec.ForProvider: [api, key]; key may be Nil
    atProvider,  \* cr.Status.AtProvider: [id, api]; Nil until observed
    cond, deleting, gone,
    pc, exists,  \* the pass's step and its observation's ResourceExists
    failures, edits, foreign

vars == <<domain, mappings, used, forProvider, atProvider, cond, deleting, gone, pc,
          exists, failures, edits, foreign>>

Owners == {"crossplane", "other"}
Mapping == [id : Ids, api : Apis, key : Keys \cup {""}, owner : Owners]

-----------------------------------------------------------------------------
\* aws.StringValue: a nil key is the empty (root) key.
StringValue(k) == IF k = Nil THEN "" ELSE k

\* filterList: the listed mappings the hook keeps.
filterList(items) ==
    IF Filter = "none" THEN items
    ELSE {m \in items : m.key = StringValue(forProvider.key)}

\* GetApiMappings for the spec's domain: every mapping of the domain.
GetApiMappings == mappings

\* The error GetApiMappings, CreateApiMapping and DeleteApiMapping answer
\* when the domain name does not exist.
DomainError == IF domain THEN "none" ELSE "NotFoundException"

\* Variant: the mapping key is copied into the status id field.
GenerateAPIMappingKeyAsId(m) == [id |-> m.key, api |-> m.api]

\* GenerateAPIMapping, for the item the loop takes first (then breaks).
GenerateAPIMapping(m) == [id |-> m.id, api |-> m.api]

\* Variant: the create input never carries the key.
GenerateCreateApiMappingInputNoKey(id) ==
    [id |-> id, api |-> forProvider.api, key |-> "", owner |-> "crossplane"]

\* GenerateCreateApiMappingInput, and the mapping API Gateway adds for it:
\* an unset key creates the root ("") mapping.
GenerateCreateApiMappingInput(id) ==
    [id |-> id, api |-> forProvider.api, key |-> StringValue(forProvider.key),
     owner |-> "crossplane"]

\* GenerateDeleteApiMappingInput: the mapping DeleteApiMapping names.
GenerateDeleteApiMappingInput == {m \in mappings : m.id = atProvider.id}

\* IsNotFound.
IsNotFound(err) == err = "NotFoundException"

\* API Gateway allows one mapping per key on a domain (ConflictException).
KeyTaken(k) == \E m \in mappings : m.key = k

Fail == failures < MaxFailures /\ failures' = failures + 1
Done == pc' = "idle"

-----------------------------------------------------------------------------
Init ==
    /\ domain = TRUE /\ mappings = {} /\ used = {}
    /\ forProvider \in [api : Apis, key : Keys \cup {Nil}]
    /\ atProvider = [id |-> Nil, api |-> Nil]
    /\ cond = "None"
    /\ deleting = FALSE /\ gone = FALSE
    /\ pc = "idle" /\ exists = FALSE
    /\ failures = 0 /\ edits = 0 /\ foreign = 0

(* Observe: GetApiMappings; a NotFound error (the domain is gone) is      *)
(* not-found and any other error ends the pass; filterList; an empty list *)
(* is not-found; otherwise GenerateAPIMapping's status is copied and the  *)
(* resource is Available.                                                 *)
(* The list order is API Gateway's: any item can come first.              *)
Observe ==
    /\ pc = "idle" /\ ~gone
    /\ \/ Fail /\ UNCHANGED <<atProvider, cond, pc, exists>>
       \/ /\ IsNotFound(DomainError)
          /\ exists' = FALSE /\ pc' = "observed"
          /\ UNCHANGED <<atProvider, cond, failures>>
       \/ /\ DomainError = "none"
          /\ LET found == filterList(GetApiMappings) IN
             \/ /\ found = {}
                /\ exists' = FALSE /\ pc' = "observed"
                /\ UNCHANGED <<atProvider, cond, failures>>
             \/ \E m \in found :
                   /\ atProvider' = GenerateAPIMapping(m)
                   /\ cond' = "Available"
                   /\ exists' = TRUE /\ pc' = "observed"
                   /\ UNCHANGED failures
    /\ UNCHANGED <<domain, mappings, used, forProvider, deleting, gone, edits,
                   foreign>>

(* Create: set Creating, CreateApiMapping. A key already on the domain is *)
(* a ConflictException and a missing domain a NotFoundException. The     *)
(* call can also fail, or succeed with its answer lost; nothing of the   *)
(* answer is kept either way.                                            *)
Create ==
    /\ pc = "observed" /\ ~deleting /\ ~exists
    /\ cond' = "Creating"
    /\ \E id \in Ids \ used :
          LET new == GenerateCreateApiMappingInput(id) IN
          \/ /\ domain /\ ~KeyTaken(new.key)
             /\ mappings' = mappings \cup {new} /\ used' = used \cup {id}
             /\ UNCHANGED failures
          \/ /\ ~domain \/ KeyTaken(new.key)
             /\ UNCHANGED <<mappings, used, failures>>
          \/ /\ Fail
             /\ \/ UNCHANGED <<mappings, used>>
                \/ /\ domain /\ ~KeyTaken(new.key)
                   /\ mappings' = mappings \cup {new} /\ used' = used \cup {id}
    /\ Done
    /\ UNCHANGED <<domain, forProvider, atProvider, deleting, gone, exists, edits,
                   foreign>>

(* Delete: set Deleting, DeleteApiMapping(atProvider.id); NotFound counts *)
(* as deleted.                                                            *)
Delete ==
    /\ pc = "observed" /\ deleting /\ exists
    /\ cond' = "Deleting"
    /\ \/ mappings' = mappings \ GenerateDeleteApiMappingInput
          /\ UNCHANGED failures
       \/ Fail /\ UNCHANGED mappings
    /\ Done
    /\ UNCHANGED <<domain, used, forProvider, atProvider, deleting, gone, exists,
                   edits, foreign>>

RemoveFinalizer ==
    /\ pc = "observed" /\ deleting /\ ~exists
    /\ gone' = TRUE
    /\ Done
    /\ UNCHANGED <<domain, mappings, used, forProvider, atProvider, cond, deleting,
                   exists, failures, edits, foreign>>

UpToDate ==
    /\ pc = "observed" /\ ~deleting /\ exists
    /\ Done
    /\ UNCHANGED <<domain, mappings, used, forProvider, atProvider, cond, deleting,
                   gone, exists, failures, edits, foreign>>

Reconcile == Observe \/ Create \/ Delete \/ RemoveFinalizer \/ UpToDate

-----------------------------------------------------------------------------
(* The user between passes, and others mapping the same domain.            *)

EditKey ==
    /\ pc = "idle" /\ ~deleting /\ edits < MaxEdits
    /\ \E k \in (Keys \cup {Nil}) \ {forProvider.key} :
          forProvider' = [forProvider EXCEPT !.key = k]
    /\ edits' = edits + 1
    /\ UNCHANGED <<domain, mappings, used, atProvider, cond, deleting, gone, pc,
                   exists, failures, foreign>>

DeleteResource ==
    /\ pc = "idle" /\ ~deleting
    /\ deleting' = TRUE
    /\ UNCHANGED <<domain, mappings, used, forProvider, atProvider, cond, gone, pc,
                   exists, failures, edits, foreign>>

ForeignCreate ==
    /\ domain /\ foreign < MaxForeign
    /\ \E id \in Ids \ used, api \in Apis, k \in Keys \cup {""} :
          /\ ~KeyTaken(k)
          /\ mappings' = mappings \cup
                           {[id |-> id, api |-> api, key |-> k, owner |-> "other"]}
          /\ used' = used \cup {id}
    /\ foreign' = foreign + 1
    /\ UNCHANGED <<domain, forProvider, atProvider, cond, deleting, gone, pc,
                   exists, failures, edits>>

\* Someone deletes the custom domain name, and its mappings with it.
DeleteDomain ==
    /\ DomainDeletable /\ domain
    /\ domain' = FALSE /\ mappings' = {}
    /\ UNCHANGED <<used, forProvider, atProvider, cond, deleting, gone, pc, exists,
                   failures, edits, foreign>>

Finished == gone /\ UNCHANGED vars

Next ==
    \/ Reconcile \/ EditKey \/ DeleteResource \/ ForeignCreate \/ DeleteDomain
    \/ Finished

Spec == Init /\ [][Next]_vars

(* The reconciler requeues every resource, so its steps are weakly fair. *)
FairSpec == Spec /\ WF_vars(Reconcile)

-----------------------------------------------------------------------------
TypeOK ==
    /\ domain \in BOOLEAN /\ mappings \subseteq Mapping /\ used \subseteq Ids
    /\ forProvider \in [api : Apis, key : Keys \cup {Nil}]
    /\ atProvider \in [id : Ids \cup {Nil}, api : Apis \cup {Nil}]
    /\ cond \in {"None", "Available", "Creating", "Deleting"}
    /\ deleting \in BOOLEAN /\ gone \in BOOLEAN
    /\ pc \in {"idle", "observed"} /\ exists \in BOOLEAN
    /\ failures \in 0..MaxFailures /\ edits \in 0..MaxEdits /\ foreign \in 0..MaxForeign

(* Action property: a step of the controller only ever deletes a mapping whose key  *)
(* is the resource's key. Delete names the mapping by the id Observe      *)
(* copied from the first item GenerateAPIMapping saw; if the list it saw  *)
(* holds other mappings of the domain, that can be someone else's.        *)
DeletesOnlyOwnKey ==
    [][Reconcile => \A m \in mappings \ mappings' :
                        m.key = StringValue(forProvider.key)]_vars

(* Liveness: with finitely many failures, edits and foreign mappings, the *)
(* resource ends either gone or Available with its status naming a       *)
(* mapping of the spec's key, even when a create's answer was lost or a   *)
(* foreign create took the key between Observe and Create.               *)
Converges ==
    <>[](\/ gone
         \/ /\ ~deleting /\ cond = "Available"
            /\ \E m \in mappings : m.id = atProvider.id
                                /\ m.key = StringValue(forProvider.key))

=============================================================================
