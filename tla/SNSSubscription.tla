---------------------------- MODULE SNSSubscription ----------------------------
(***************************************************************************)
(* The attributes of an SNS subscription managed by Crossplane.            *)
(*                                                                         *)
(* The helpers of src/pkg/clients/sns/snssubscription.go are operators:   *)
(* the attribute names, GenerateSubscribeInput,                           *)
(* GenerateSubscriptionObservation, LateInitializeSubscription,           *)
(* getSubAttributes, GetChangedSubAttributes,                             *)
(* IsSNSSubscriptionAttributesUpToDate and IsSubscriptionNotFound. The    *)
(* controller that calls them is not in the repository; its pass          *)
(* (Observe, then Create, Update, Delete or removing the finalizer) is    *)
(* modelled from the spec. SNS is the                                     *)
(* environment: the endpoint owner confirms, someone else changes an      *)
(* attribute or unsubscribes.                                             *)
(***************************************************************************)
EXTENDS Naturals, FiniteSets

CONSTANTS
    Values,       \* non-empty attribute values (policies as opaque values)
    Nil,          \* an unset *string of the parameters
    MaxFailures,  \* bound on failed API calls
    MaxEdits,     \* bound on user edits of the parameters
    MaxDrift      \* bound on changes made to the subscription outside Crossplane

ASSUME Nil \notin Values /\ "" \notin Values
       /\ {MaxFailures, MaxEdits, MaxDrift} \subseteq Nat

VARIABLES
    params,    \* cr.Spec.ForProvider: attribute name -> *string
    observed,  \* cr.Status.AtProvider (SNSSubscriptionObservation)
    sub,       \* the subscription in SNS: exists, pending, attributes
    pc,        \* the step the reconciler has reached in the current pass
    upToDate,  \* ResourceUpToDate of this pass's observation
    deleting,  \* the resource has a deletion timestamp
    gone,      \* its finalizer is removed
    failures, edits, drifts

vars == <<params, observed, sub, pc, upToDate, deleting, gone, failures, edits,
          drifts>>

\* The attribute names of the subscription that the parameters carry.
SubscriptionDeliveryPolicy == "DeliveryPolicy"
SubscriptionFilterPolicy == "FilterPolicy"
SubscriptionRawMessageDelivery == "RawMessageDelivery"
SubscriptionRedrivePolicy == "RedrivePolicy"
AttrKeys == {SubscriptionDeliveryPolicy, SubscriptionFilterPolicy,
             SubscriptionRawMessageDelivery, SubscriptionRedrivePolicy}

ParamValues == Values \cup {"", Nil}
AttrValues == Values \cup {""}
ConfirmationStatuses == {"", "ConfirmationPending", "ConfirmationSuccessful"}

-----------------------------------------------------------------------------
(* Conversions the helpers use.                                            *)

\* aws.StringValue: the pointed-to string, or "" for nil.
StringValue(p) == IF p = Nil THEN "" ELSE p

\* awsclients.String: a pointer to the string, or nil for "".
PtrString(s) == IF s = "" THEN Nil ELSE s

\* awsclients.LateInitializeStringPtr: keep a set field, else take from.
LateInitializeStringPtr(in, from) == IF in = Nil THEN from ELSE in

\* strconv.ParseBool: <<ok, value>>.
ParseBool(s) ==
    CASE s \in {"1", "t", "T", "TRUE", "true", "True"}  -> <<TRUE, TRUE>>
      [] s \in {"0", "f", "F", "FALSE", "false", "False"} -> <<TRUE, FALSE>>
      [] OTHER -> <<FALSE, FALSE>>

-----------------------------------------------------------------------------
(* The helpers of snssubscription.go.                                      *)

\* Variant: the PendingConfirmation attribute is copied as the status.
GenerateSubscriptionObservationVerbatim(pending) == [status |-> pending]

\* GenerateSubscriptionObservation: the confirmation status is Pending or
\* Successful when PendingConfirmation parses, and empty otherwise.
GenerateSubscriptionObservation(pending) ==
    LET b == ParseBool(pending)
    IN  [status |-> IF ~b[1] THEN ""
                    ELSE IF b[2] THEN "ConfirmationPending"
                    ELSE "ConfirmationSuccessful"]

\* LateInitializeSubscription: every unset parameter takes the value SNS
\* reports, unless SNS reports the empty string.
LateInitializeSubscription(p, attrs) ==
    [k \in AttrKeys |-> LateInitializeStringPtr(p[k], PtrString(attrs[k]))]

\* getSubAttributes: the parameters as an attribute map, nil as "".
getSubAttributes(p) == [k \in AttrKeys |-> StringValue(p[k])]

\* Variant: the changed attributes carry the value SNS has.
GetChangedSubAttributesObservedValue(p, attrs) ==
    [k \in {k \in AttrKeys : getSubAttributes(p)[k] # attrs[k]} |-> attrs[k]]

\* GetChangedSubAttributes: the attributes whose parameter value differs
\* from SNS's, with the parameter value.
GetChangedSubAttributes(p, attrs) ==
    LET subAttrs == getSubAttributes(p)
    IN  [k \in {k \in AttrKeys : subAttrs[k] # attrs[k]} |-> subAttrs[k]]

\* Variant: RedrivePolicy is left out of the comparison.
IsUpToDateNoRedrive(p, attrs) ==
    /\ StringValue(p[SubscriptionDeliveryPolicy]) = attrs[SubscriptionDeliveryPolicy]
    /\ StringValue(p[SubscriptionFilterPolicy]) = attrs[SubscriptionFilterPolicy]
    /\ StringValue(p[SubscriptionRawMessageDelivery]) = attrs[SubscriptionRawMessageDelivery]

\* IsSNSSubscriptionAttributesUpToDate, one conjunct per attribute.
IsSNSSubscriptionAttributesUpToDate(p, attrs) ==
    /\ StringValue(p[SubscriptionDeliveryPolicy]) = attrs[SubscriptionDeliveryPolicy]
    /\ StringValue(p[SubscriptionFilterPolicy]) = attrs[SubscriptionFilterPolicy]
    /\ StringValue(p[SubscriptionRawMessageDelivery]) = attrs[SubscriptionRawMessageDelivery]
    /\ StringValue(p[SubscriptionRedrivePolicy]) = attrs[SubscriptionRedrivePolicy]

\* GenerateSubscribeInput, and the subscription SNS creates from it: the
\* attributes are not part of the input, so SNS starts with none set, and
\* the endpoint has not confirmed yet.
Subscribed == [exists |-> TRUE, pending |-> "true",
               attrs |-> [k \in AttrKeys |-> ""]]

\* Variant: no error is recognised as NotFound.
IsSubscriptionNotFoundNever(s) == FALSE

\* IsSubscriptionNotFound: the call on the subscription answers NotFound.
IsSubscriptionNotFound(s) == ~s.exists

NoSubscription == [exists |-> FALSE, pending |-> "", attrs |-> [k \in AttrKeys |-> ""]]

Fail == failures < MaxFailures /\ failures' = failures + 1

-----------------------------------------------------------------------------
Init ==
    /\ params \in [AttrKeys -> ParamValues]
    /\ observed = [status |-> ""]
    /\ sub = NoSubscription
    /\ pc = "idle"
    /\ upToDate = FALSE
    /\ deleting = FALSE /\ gone = FALSE
    /\ failures = 0 /\ edits = 0 /\ drifts = 0

(* Observe: GetSubscriptionAttributes; NotFound means no resource;        *)
(* otherwise late-initialize the parameters (a kube update when they     *)
(* change), record the observation and whether the attributes are up to  *)
(* date.                                                                  *)
Observe ==
    /\ pc = "idle" /\ ~gone
    /\ \/ Fail /\ UNCHANGED <<params, observed, pc, upToDate>>
       \/ /\ IsSubscriptionNotFound(sub)
          /\ pc' = "absent"
          /\ UNCHANGED <<params, observed, upToDate, failures>>
       \/ /\ ~IsSubscriptionNotFound(sub)
          /\ LET p == LateInitializeSubscription(params, sub.attrs) IN
             \/ p # params /\ Fail /\ UNCHANGED <<params, observed, pc, upToDate>>
             \/ /\ params' = p
                /\ observed' = GenerateSubscriptionObservation(sub.pending)
                /\ upToDate' = IsSNSSubscriptionAttributesUpToDate(p, sub.attrs)
                /\ pc' = "observed"
                /\ UNCHANGED failures
    /\ UNCHANGED <<sub, deleting, gone, edits, drifts>>

(* Create: Subscribe with GenerateSubscribeInput.                         *)
Create ==
    /\ pc = "absent" /\ ~deleting
    /\ \/ sub' = Subscribed /\ UNCHANGED failures
       \/ Fail /\ UNCHANGED sub
    /\ pc' = "idle"
    /\ UNCHANGED <<params, observed, upToDate, deleting, gone, edits, drifts>>

(* Update: GetSubscriptionAttributes, then SetSubscriptionAttributes for  *)
(* each entry of GetChangedSubAttributes, in Go map order (any order),   *)
(* returning at the first failure.                                        *)
Update ==
    /\ pc = "observed" /\ ~deleting /\ ~upToDate
    /\ IF IsSubscriptionNotFound(sub)
       THEN UNCHANGED <<sub, failures>>
       ELSE LET changed == GetChangedSubAttributes(params, sub.attrs) IN
            \E applied \in SUBSET DOMAIN changed :
               /\ IF applied = DOMAIN changed THEN UNCHANGED failures ELSE Fail
               /\ sub' = [sub EXCEPT !.attrs =
                            [k \in AttrKeys |-> IF k \in applied THEN changed[k] ELSE @[k]]]
    /\ pc' = "idle"
    /\ UNCHANGED <<params, observed, upToDate, deleting, gone, edits, drifts>>

(* The reconciler: an up-to-date subscription needs no call.              *)
UpToDate ==
    /\ pc = "observed" /\ ~deleting /\ upToDate
    /\ pc' = "idle"
    /\ UNCHANGED <<params, observed, sub, upToDate, deleting, gone, failures,
                   edits, drifts>>

(* Delete: Unsubscribe; a NotFound answer counts as deleted.               *)
Delete ==
    /\ pc = "observed" /\ deleting
    /\ \/ /\ IsSubscriptionNotFound(sub)
          /\ UNCHANGED <<sub, failures>>
       \/ /\ ~IsSubscriptionNotFound(sub)
          /\ \/ sub' = NoSubscription /\ UNCHANGED failures
             \/ Fail /\ UNCHANGED sub
    /\ pc' = "idle"
    /\ UNCHANGED <<params, observed, upToDate, deleting, gone, edits, drifts>>

(* The reconciler: a deleted resource whose subscription is not found     *)
(* has its finalizer removed.                                             *)
RemoveFinalizer ==
    /\ pc = "absent" /\ deleting
    /\ gone' = TRUE /\ pc' = "idle"
    /\ UNCHANGED <<params, observed, sub, upToDate, deleting, failures, edits,
                   drifts>>

Reconcile == Observe \/ Create \/ Update \/ UpToDate \/ Delete \/ RemoveFinalizer

-----------------------------------------------------------------------------
(* The user between passes, and SNS.                                       *)

EditParams ==
    /\ pc = "idle" /\ ~deleting /\ edits < MaxEdits
    /\ \E k \in AttrKeys, v \in ParamValues : params' = [params EXCEPT ![k] = v]
    /\ edits' = edits + 1
    /\ UNCHANGED <<observed, sub, pc, upToDate, deleting, gone, failures, drifts>>

DeleteResource ==
    /\ pc = "idle" /\ ~deleting
    /\ deleting' = TRUE
    /\ UNCHANGED <<params, observed, sub, pc, upToDate, gone, failures, edits,
                   drifts>>

Confirm ==
    /\ sub.exists /\ sub.pending = "true"
    /\ sub' = [sub EXCEPT !.pending = "false"]
    /\ UNCHANGED <<params, observed, pc, upToDate, deleting, gone, failures, edits,
                   drifts>>

\* Someone sets an attribute in the console or with the CLI.
Drift ==
    /\ sub.exists /\ drifts < MaxDrift
    /\ \E k \in AttrKeys, v \in AttrValues : sub' = [sub EXCEPT !.attrs[k] = v]
    /\ drifts' = drifts + 1
    /\ UNCHANGED <<params, observed, pc, upToDate, deleting, gone, failures, edits>>

\* Someone unsubscribes the endpoint.
Unsubscribe ==
    /\ sub.exists /\ drifts < MaxDrift
    /\ sub' = NoSubscription
    /\ drifts' = drifts + 1
    /\ UNCHANGED <<params, observed, pc, upToDate, deleting, gone, failures, edits>>

Finished == gone /\ UNCHANGED vars

Next ==
    \/ Reconcile \/ EditParams \/ DeleteResource
    \/ Confirm \/ Drift \/ Unsubscribe \/ Finished

Spec == Init /\ [][Next]_vars

(* The reconciler requeues every resource, so its steps are weakly fair. *)
FairSpec == Spec /\ WF_vars(Reconcile)

-----------------------------------------------------------------------------
TypeOK ==
    /\ params \in [AttrKeys -> ParamValues]
    /\ observed \in [status : ConfirmationStatuses]
    /\ sub \in {NoSubscription} \cup
               [exists : {TRUE}, pending : {"true", "false"},
                attrs : [AttrKeys -> AttrValues]]
    /\ pc \in {"idle", "absent", "observed"}
    /\ upToDate \in BOOLEAN /\ deleting \in BOOLEAN /\ gone \in BOOLEAN
    /\ failures \in 0..MaxFailures /\ edits \in 0..MaxEdits /\ drifts \in 0..MaxDrift

(* Safety: the two encodings of "the attributes match the parameters"     *)
(* agree. Observe decides with IsSNSSubscriptionAttributesUpToDate        *)
(* whether Update runs; Update sends GetChangedSubAttributes. If they     *)
(* disagreed, Update would run forever with nothing to send, or never run *)
(* while something differs.                                               *)
DiffAgreesWithUpToDate ==
    (DOMAIN GetChangedSubAttributes(params, sub.attrs) = {})
        <=> IsSNSSubscriptionAttributesUpToDate(params, sub.attrs)

(* Action property: Update sends only attributes whose parameter is set  *)
(* in the spec, as the spec says of the diff ("fields present in Spec     *)
(* but absent/different in the observed cloud object trigger an Update"). *)
(* Late initialization in Observe adopts what SNS reported then; Update   *)
(* diffs against the attributes it reads itself, and getSubAttributes    *)
(* turns an unset parameter into "", so an attribute set in SNS between   *)
(* the two is sent back as "".                                            *)
UpdateSendsOnlySetParameters ==
    [][Update /\ sub.exists =>
         \A k \in DOMAIN GetChangedSubAttributes(params, sub.attrs) : params[k] # Nil]_vars

(* Liveness: once edits, drift and failures stop, the resource is either  *)
(* gone after deletion, or its subscription exists and its attributes     *)
(* match the parameters for good.                                         *)
Converges ==
    <>[](\/ gone
         \/ ~deleting /\ sub.exists
            /\ IsSNSSubscriptionAttributesUpToDate(params, sub.attrs))
=============================================================================
