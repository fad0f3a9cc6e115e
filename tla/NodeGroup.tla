------------------------------- MODULE NodeGroup -------------------------------
(***************************************************************************)
(* The EKS NodeGroup managed resource: the external client of the         *)
(* nodegroup controller (tagger.Initialize, connector.Connect,            *)
(* external.Observe/Create/Update/Delete), driven by the managed          *)
(* reconciler of crossplane-runtime, against an EKS nodegroup whose       *)
(* CREATING, UPDATING and DELETING states complete asynchronously.        *)
(*                                                                         *)
(* The controller source is not in the repository sample; its behaviour   *)
(* is taken from the table tests in                                        *)
(* src/pkg/controller/eks/nodegroup/controller_test.go, which fix the     *)
(* result of every branch (which AWS calls are made, in which order, what  *)
(* the custom resource looks like afterwards, which error is returned).   *)
(***************************************************************************)
EXTENDS Naturals, FiniteSets, Sequences, SequencesExt

CONSTANTS
    Versions,        \* Kubernetes versions a nodegroup may run
    Sizes,           \* desired sizes of the scaling config
    DefaultVersion,  \* version EKS picks when the create input has none
    DefaultSize,     \* desired size EKS picks when the create input has none
    UserTags,        \* tags a user may put in spec.forProvider.tags
    ExternalTags,    \* resource.GetExternalTags: crossplane-kind/name/provider
    Nil,             \* an unset pointer field of the spec
    MaxFailures,     \* bound on failed API calls (AWS, kube, provider lookup)
    MaxEdits,        \* bound on user edits of the spec
    MaxOOB,          \* bound on deletions of the nodegroup outside Crossplane
    MaxDegrade       \* bound on health failures that leave the nodegroup DEGRADED

ASSUME /\ DefaultVersion \in Versions /\ DefaultSize \in Sizes
       /\ UserTags \cap ExternalTags = {}
       /\ Nil \notin Versions /\ Nil \notin Sizes
       /\ {MaxFailures, MaxEdits, MaxOOB, MaxDegrade} \subseteq Nat

VARIABLES
    spec,      \* cr.Spec.ForProvider: [version, size, tags]
    status,    \* cr.Status.AtProvider.Status, as of the last successful Observe
    cond,      \* the Ready condition of the custom resource
    deleting,  \* the custom resource carries a deletion timestamp
    gone,      \* the finalizer was removed and the custom resource is gone
    ng,        \* the nodegroup in EKS
    pc,        \* the step the reconciler has reached in the current pass
    obs,       \* the ExternalObservation returned by Observe in this pass
    failures, edits, oob, degrades   \* bounded counters of environment events

vars == <<spec, status, cond, deleting, gone, ng, pc, obs, failures, edits, oob, degrades>>

NGStatus == {"CREATING", "ACTIVE", "UPDATING", "DELETING", "DEGRADED"}
Conditions == {"None", "Available", "Creating", "Deleting", "Unavailable"}
Tags == UserTags \cup ExternalTags

SpecOf(v, s, t) == [version |-> v, size |-> s, tags |-> t]
NoNodeGroup == [exists |-> FALSE, status |-> "NONE", version |-> Nil,
                size |-> Nil, tags |-> {}, target |-> SpecOf(Nil, Nil, {})]

-----------------------------------------------------------------------------
(* Helpers of the controller and of pkg/clients/eks.                       *)

\* The condition Observe sets for each status the nodegroup reports.
CondOf(s) ==
    CASE s = "ACTIVE"   -> "Available"
      [] s = "CREATING" -> "Creating"
      [] s = "DELETING" -> "Deleting"
      [] OTHER          -> "Unavailable"

\* Variant: a DELETING nodegroup is reported as already gone.
ObservedExistsUnlessDeleting(g) == g.exists /\ g.status # "DELETING"

\* Whether DescribeNodegroup finds the nodegroup (no ResourceNotFound error).
ObservedExists(g) == g.exists

LateInitialize(sp, g) ==
    [sp EXCEPT !.version = IF @ = Nil THEN g.version ELSE @,
               !.size    = IF @ = Nil THEN g.size ELSE @]

\* IsNodeGroupUpToDate: every field set in the spec has the observed value.
IsNodeGroupUpToDate(sp, g) ==
    /\ sp.version \in {Nil, g.version}
    /\ sp.size \in {Nil, g.size}
    /\ sp.tags = g.tags

\* GenerateCreateNodeGroupInput, and the nodegroup EKS creates from it.
CreatedNodeGroup(sp) ==
    LET v == IF sp.version = Nil THEN DefaultVersion ELSE sp.version
        s == IF sp.size = Nil THEN DefaultSize ELSE sp.size
    IN  [exists |-> TRUE, status |-> "CREATING", version |-> v, size |-> s,
         tags |-> sp.tags, target |-> SpecOf(v, s, sp.tags)]

\* Variant: Update never removes tags EKS has and the spec lacks.
UpdateCallsWithoutUntag(sp, g) ==
    <<"describe">>
    \o (IF sp.tags \ g.tags # {} THEN <<"tag">> ELSE <<>>)
    \o (IF sp.version \notin {Nil, g.version} THEN <<"version">> ELSE <<"config">>)

\* The AWS calls Update makes, in order: DescribeNodegroup, UntagResource
\* when EKS has tags the spec lacks, TagResource when the spec has tags EKS
\* lacks, then UpdateNodegroupVersion when the spec sets another version
\* (and returns), otherwise UpdateNodegroupConfig.
UpdateCalls(sp, g) ==
    <<"describe">>
    \o (IF g.tags \ sp.tags # {} THEN <<"untag">> ELSE <<>>)
    \o (IF sp.tags \ g.tags # {} THEN <<"tag">> ELSE <<>>)
    \o (IF sp.version \notin {Nil, g.version} THEN <<"version">> ELSE <<"config">>)

\* The effect on the nodegroup of one successful Update call. EKS rejects an
\* update of a nodegroup that is not ACTIVE (ResourceInUseException) and a
\* config update that changes nothing (InvalidParameterException).
ApplyCall(g, c) ==
    CASE c = "describe" -> g
      [] c = "untag"    -> [g EXCEPT !.tags = @ \cap spec.tags]
      [] c = "tag"      -> [g EXCEPT !.tags = @ \cup spec.tags]
      [] c = "version"  -> IF g.status = "ACTIVE"
                           THEN [g EXCEPT !.status = "UPDATING",
                                          !.target.version = spec.version]
                           ELSE g
      [] c = "config"   -> IF g.status = "ACTIVE" /\ spec.size \notin {Nil, g.size}
                           THEN [g EXCEPT !.status = "UPDATING",
                                          !.target.size = spec.size]
                           ELSE g

\* The number of calls out of n that succeed before the pass stops: all of
\* them, or, while the failure budget lasts, any prefix followed by a failure.
Succeeded(n) == {n} \cup (IF failures < MaxFailures THEN 0..(n - 1) ELSE {})

Fail == failures' = failures + 1
Done == pc' = "idle"

-----------------------------------------------------------------------------
Init ==
    /\ spec \in {SpecOf(v, s, t) : v \in Versions \cup {Nil}, s \in Sizes \cup {Nil},
                                  t \in SUBSET UserTags}
    /\ status = "NONE"
    /\ cond = "None"
    /\ deleting = FALSE
    /\ gone = FALSE
    /\ ng = NoNodeGroup
    /\ pc = "idle"
    /\ obs = [exists |-> FALSE, upToDate |-> FALSE]
    /\ failures = 0 /\ edits = 0 /\ oob = 0 /\ degrades = 0

\* Variant: a failed kube.Update of the tags does not end the pass.
InitializeIgnoringUpdateError ==
    /\ pc = "idle" /\ ~gone
    /\ \/ /\ spec' = [spec EXCEPT !.tags = @ \cup ExternalTags]
          /\ UNCHANGED failures
       \/ /\ failures < MaxFailures /\ Fail
          /\ UNCHANGED spec
    /\ pc' = "initialized"
    /\ UNCHANGED <<status, cond, deleting, gone, ng, obs, edits, oob, degrades>>

(* tagger.Initialize: merge the external tags into spec.forProvider.tags  *)
(* and kube.Update the resource; a failed update ends the pass.           *)
Initialize ==
    /\ pc = "idle" /\ ~gone
    /\ \/ /\ spec' = [spec EXCEPT !.tags = @ \cup ExternalTags]
          /\ pc' = "initialized"
          /\ UNCHANGED failures
       \/ /\ failures < MaxFailures /\ Fail /\ Done
          /\ UNCHANGED spec
    /\ UNCHANGED <<status, cond, deleting, gone, ng, obs, edits, oob, degrades>>

(* connector.Connect: get the Provider, then its credentials Secret, and  *)
(* build the EKS client; any failed lookup ends the pass.                 *)
Connect ==
    /\ pc = "initialized"
    /\ \/ pc' = "connected" /\ UNCHANGED failures
       \/ failures < MaxFailures /\ Fail /\ Done
    /\ UNCHANGED <<spec, status, cond, deleting, gone, ng, obs, edits, oob, degrades>>

(* external.Observe: DescribeNodegroup; NotFound means no resource and    *)
(* leaves the custom resource untouched; otherwise late-initialize the    *)
(* spec and kube.Update it if it changed, then record the status and set *)
(* the condition it implies.                                              *)
Observe ==
    /\ pc = "connected"
    /\ \/ /\ failures < MaxFailures /\ Fail /\ Done
          /\ UNCHANGED <<spec, status, cond, obs>>
       \/ /\ ~ObservedExists(ng)
          /\ obs' = [exists |-> FALSE, upToDate |-> FALSE]
          /\ pc' = "observed"
          /\ UNCHANGED <<spec, status, cond, failures>>
       \/ /\ ObservedExists(ng)
          /\ LET sp == LateInitialize(spec, ng) IN
             \/ /\ sp # spec /\ failures < MaxFailures /\ Fail /\ Done
                /\ UNCHANGED <<spec, status, cond, obs>>
             \/ /\ spec' = sp
                /\ status' = ng.status
                /\ cond' = CondOf(ng.status)
                /\ obs' = [exists |-> TRUE, upToDate |-> IsNodeGroupUpToDate(sp, ng)]
                /\ pc' = "observed"
                /\ UNCHANGED failures
    /\ UNCHANGED <<deleting, gone, ng, edits, oob, degrades>>

(* external.Create: set Creating; if the recorded status is CREATING,     *)
(* return without calling EKS; otherwise CreateNodegroup.                 *)
Create ==
    /\ pc = "observed" /\ ~deleting /\ ~obs.exists
    /\ cond' = "Creating"
    /\ IF status = "CREATING"
       THEN UNCHANGED <<ng, failures>>
       ELSE \/ /\ ng' = IF ng.exists THEN ng ELSE CreatedNodeGroup(spec)
               /\ UNCHANGED failures
            \/ failures < MaxFailures /\ Fail /\ UNCHANGED ng
    /\ Done
    /\ UNCHANGED <<spec, status, deleting, gone, obs, edits, oob, degrades>>

(* external.Update: nothing while the recorded status is UPDATING;        *)
(* otherwise the calls of UpdateCalls, stopping at the first failure.     *)
Update ==
    /\ pc = "observed" /\ ~deleting /\ obs.exists /\ ~obs.upToDate
    /\ IF status = "UPDATING" \/ ~ng.exists
       THEN UNCHANGED <<ng, failures>>
       ELSE LET calls == UpdateCalls(spec, ng) IN
            \E k \in Succeeded(Len(calls)) :
               /\ ng' = FoldLeft(ApplyCall, ng, SubSeq(calls, 1, k))
               /\ IF k < Len(calls) THEN Fail ELSE UNCHANGED failures
    /\ Done
    /\ UNCHANGED <<spec, status, cond, deleting, gone, obs, edits, oob, degrades>>

\* Variant: the delete is sent only for a nodegroup recorded as ACTIVE.
DeleteOnlyWhenActive ==
    /\ pc = "observed" /\ deleting /\ obs.exists
    /\ cond' = "Deleting"
    /\ IF status # "ACTIVE"
       THEN UNCHANGED <<ng, failures>>
       ELSE \/ /\ ng' = IF ng.exists THEN [ng EXCEPT !.status = "DELETING"] ELSE ng
               /\ UNCHANGED failures
            \/ failures < MaxFailures /\ Fail /\ UNCHANGED ng
    /\ Done
    /\ UNCHANGED <<spec, status, deleting, gone, obs, edits, oob, degrades>>

(* external.Delete: set Deleting; if the recorded status is DELETING,     *)
(* return; otherwise DeleteNodegroup, a NotFound answer counting as done. *)
Delete ==
    /\ pc = "observed" /\ deleting /\ obs.exists
    /\ cond' = "Deleting"
    /\ IF status = "DELETING"
       THEN UNCHANGED <<ng, failures>>
       ELSE \/ /\ ng' = IF ng.exists THEN [ng EXCEPT !.status = "DELETING"] ELSE ng
               /\ UNCHANGED failures
            \/ failures < MaxFailures /\ Fail /\ UNCHANGED ng
    /\ Done
    /\ UNCHANGED <<spec, status, deleting, gone, obs, edits, oob, degrades>>

(* managed.Reconciler: a resource being deleted that no longer exists has *)
(* its finalizer removed and disappears.                                  *)
RemoveFinalizer ==
    /\ pc = "observed" /\ deleting /\ ~obs.exists
    /\ gone' = TRUE
    /\ Done
    /\ UNCHANGED <<spec, status, cond, deleting, ng, obs, failures, edits, oob, degrades>>

(* managed.Reconciler: an existing, up-to-date resource needs no call.    *)
UpToDate ==
    /\ pc = "observed" /\ ~deleting /\ obs.exists /\ obs.upToDate
    /\ Done
    /\ UNCHANGED <<spec, status, cond, deleting, gone, ng, obs, failures, edits, oob, degrades>>

\* One step of the reconciler's pass over the custom resource.
Reconcile ==
    \/ Initialize \/ Connect \/ Observe
    \/ Create \/ Update \/ Delete \/ RemoveFinalizer \/ UpToDate

-----------------------------------------------------------------------------
(* The user, between two passes: edit the spec or delete the resource.    *)

EditSpec ==
    /\ pc = "idle" /\ ~deleting /\ edits < MaxEdits
    /\ \E v \in Versions \cup {Nil}, s \in Sizes \cup {Nil}, t \in SUBSET UserTags :
          spec' = SpecOf(v, s, (spec.tags \cap ExternalTags) \cup t)
    /\ edits' = edits + 1
    /\ UNCHANGED <<status, cond, deleting, gone, ng, pc, obs, failures, oob, degrades>>

DeleteResource ==
    /\ pc = "idle" /\ ~deleting
    /\ deleting' = TRUE
    /\ UNCHANGED <<spec, status, cond, gone, ng, pc, obs, failures, edits, oob, degrades>>

-----------------------------------------------------------------------------
(* EKS: asynchronous completion of operations, and deletion of the        *)
(* nodegroup by someone other than Crossplane.                            *)

CreationCompletes ==
    /\ ng.status = "CREATING"
    /\ ng' = [ng EXCEPT !.status = "ACTIVE"]
    /\ UNCHANGED <<spec, status, cond, deleting, gone, pc, obs, failures, edits, oob, degrades>>

UpdateCompletes ==
    /\ ng.status = "UPDATING"
    /\ ng' = [ng EXCEPT !.status = "ACTIVE", !.version = ng.target.version,
                        !.size = ng.target.size]
    /\ UNCHANGED <<spec, status, cond, deleting, gone, pc, obs, failures, edits, oob, degrades>>

DeletionCompletes ==
    /\ ng.status = "DELETING"
    /\ ng' = NoNodeGroup
    /\ UNCHANGED <<spec, status, cond, deleting, gone, pc, obs, failures, edits, oob, degrades>>

OutOfBandDelete ==
    /\ ng.exists /\ ng.status # "DELETING" /\ oob < MaxOOB
    /\ ng' = [ng EXCEPT !.status = "DELETING"]
    /\ oob' = oob + 1
    /\ UNCHANGED <<spec, status, cond, deleting, gone, pc, obs, failures, edits, degrades>>

Degrade ==
    /\ ng.status = "ACTIVE" /\ degrades < MaxDegrade
    /\ ng' = [ng EXCEPT !.status = "DEGRADED"]
    /\ degrades' = degrades + 1
    /\ UNCHANGED <<spec, status, cond, deleting, gone, pc, obs, failures, edits, oob>>

Recover ==
    /\ ng.status = "DEGRADED"
    /\ ng' = [ng EXCEPT !.status = "ACTIVE"]
    /\ UNCHANGED <<spec, status, cond, deleting, gone, pc, obs, failures, edits, oob, degrades>>

Cloud == CreationCompletes \/ UpdateCompletes \/ DeletionCompletes

\* Once the resource is gone nothing is left to do.
Finished == gone /\ ~ng.exists /\ UNCHANGED vars

Next ==
    \/ Reconcile
    \/ EditSpec \/ DeleteResource
    \/ Cloud \/ OutOfBandDelete \/ Degrade \/ Recover
    \/ Finished

Spec == Init /\ [][Next]_vars

(* The managed reconciler requeues every resource (after an error, after  *)
(* a change, and on its poll interval), so each step of a pass is weakly *)
(* fair; EKS finishes every operation it accepted.                        *)
FairSpec ==
    /\ Spec
    /\ WF_vars(Reconcile)
    /\ WF_vars(CreationCompletes) /\ WF_vars(UpdateCompletes)
    /\ WF_vars(DeletionCompletes)

-----------------------------------------------------------------------------
TypeOK ==
    /\ spec \in [version : Versions \cup {Nil}, size : Sizes \cup {Nil},
                 tags : SUBSET Tags]
    /\ status \in NGStatus \cup {"NONE"}
    /\ cond \in Conditions
    /\ deleting \in BOOLEAN /\ gone \in BOOLEAN
    /\ ng \in {NoNodeGroup} \cup
              [exists : {TRUE}, status : NGStatus, version : Versions,
               size : Sizes, tags : SUBSET Tags,
               target : [version : Versions, size : Sizes, tags : SUBSET Tags]]
    /\ pc \in {"idle", "initialized", "connected", "observed"}
    /\ obs \in [exists : BOOLEAN, upToDate : BOOLEAN]
    /\ failures \in 0..MaxFailures /\ edits \in 0..MaxEdits /\ oob \in 0..MaxOOB
    /\ degrades \in 0..MaxDegrade

\* The resource is in sync: the nodegroup exists, is ACTIVE, matches the
\* spec, and the resource reports Available.
Synced ==
    /\ ng.exists /\ ng.status = "ACTIVE"
    /\ IsNodeGroupUpToDate(spec, ng)
    /\ cond = "Available"

(* Safety: every nodegroup in EKS carries the external tags. Create runs  *)
(* only in a pass whose tagger.Initialize persisted them, and Update      *)
(* never untags what the spec holds.                                      *)
ExternalTagsOnNodeGroup == ng.exists => ExternalTags \subseteq ng.tags

(* Liveness: once the user stops editing and failures stop, the resource  *)
(* either disappears (after deletion) or ends in sync with EKS for good.  *)
(* The stale CREATING status Create consults is what this is about.       *)
Converges == <>[](gone \/ (~deleting /\ Synced))
=============================================================================
