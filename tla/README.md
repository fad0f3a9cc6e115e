# TLA+ models of provider-aws controllers

This directory holds TLA+ models of the provider-aws code in `src/`. Each
model is a TLA+ module. The MC modules and `.cfg` files check the models with
TLC. `PROJECT.json` lists the components, the runs, the mutants, the map from
each definition to the source lines it models, the findings and the hazards.

## 1. Inventory

### Components

| Component | Source | State it keeps | Operations |
|---|---|---|---|
| NodeGroup controller | `src/pkg/controller/eks/nodegroup/controller_test.go`. Only the tests are in the sample; they fix every branch of the controller. | `cr.Spec.ForProvider` (version, scaling config, tags), `cr.Status.AtProvider.Status`, the Ready condition | `tagger.Initialize`, `connector.Connect`, `external.Observe`, `Create`, `Update`, `Delete` |
| Managed reconciler (crossplane-runtime, external) | not in the repository; spec §2 | finalizer, deletion timestamp, requeue | one pass: Initialize, Connect, Observe, then Delete, remove the finalizer, Create, Update or nothing |
| EKS (environment) | AWS | nodegroup: status CREATING/ACTIVE/UPDATING/DELETING/DEGRADED, version, size, tags | accept or reject calls; finish create, update and delete asynchronously |
| SNS subscription helpers | `src/pkg/clients/sns/snssubscription.go` | none; pure functions over `SNSSubscriptionParameters` and the attribute map | `GenerateSubscribeInput`, `GenerateSubscriptionObservation`, `LateInitializeSubscription`, `GetChangedSubAttributes`, `IsSNSSubscriptionAttributesUpToDate`, `IsSubscriptionNotFound` |
| Authorizer hooks (API Gateway v2) | `src/unnamed/part_000` | `Status.AtProvider.AuthorizerID`, external-name annotation | `filterList`, `postObserve`, `postCreate`, `postUpdate`, `post/preGenerate*Input` |
| APIMapping conversions (generated) | `src/pkg/controller/apigatewayv2/apimapping/zz_conversions.go` | `Status.AtProvider.APIMappingID/APIID/Stage`, `Spec.ForProvider.APIMappingKey` | `GenerateGetApiMappingsInput`, `GenerateAPIMapping`, `GenerateCreateApiMappingInput`, `GenerateDeleteApiMappingInput`, `IsNotFound` |
| Controller setup and SDK client construction | `SetupAuthorizer`, `NewSubscriptionClient` | none | wiring only; not modelled |

### How the components interact

The managed reconciler calls a controller's external client once per pass.
For NodeGroup it calls `tagger.Initialize` first, which writes the external tags
into the spec. Then it calls `Connect`, then `Observe`. If the resource is being
deleted, it calls `Delete` when the nodegroup exists and removes the finalizer
when it does not. Otherwise it calls `Create` when the nodegroup does not exist
and `Update` when it is not up to date. Every call ends the pass on error, and
the reconciler requeues the resource.

The controller and EKS share only the nodegroup. EKS runs CREATING, UPDATING
and DELETING asynchronously. Between two passes, and between Observe and the
call that follows it, EKS can finish an operation. Someone can also delete the
nodegroup outside Crossplane. `Create`, `Update` and `Delete` decide from the
status the last Observe recorded, so that status can be stale.

### What is hard

- **Stale state.** `Create` skips the create call when the recorded status is
  CREATING, and `Update` skips when it is UPDATING. A NotFound observation does
  not reset the recorded status.
- **Partial failure.** `Update` makes up to four AWS calls in order: describe,
  untag, tag, then version or config. It stops at the first error. The kube
  update in `Initialize` and the late-initialization write in `Observe` can
  fail after the object was changed in memory.
- **Multi-pass protocol.** A version change returns right after
  `UpdateNodegroupVersion`. The config change needs a later pass, once EKS has
  left UPDATING.
- **Deletion ordering.** The finalizer is removed only after Observe reports
  NotFound. A nodegroup that is still DELETING must count as existing.
- **Retries.** A delete of a nodegroup that is already gone answers NotFound,
  which counts as success. An SNS or Authorizer create whose answer was lost is
  found again only by name.

### What makes each component correct

- Every controller: it implements the managed-resource lifecycle of
  `ManagedResource`. No external resource is created for a resource being
  deleted. The finalizer is removed only once the external resource is gone.
  Under the reconciler's requeueing, a deleted resource's external resource is
  eventually deleted and the resource released. Checked for all four
  controllers as `ImplementsFairManagedResource`.
- NodeGroup: the lifecycle above.
  Every nodegroup carries the external tags (`ExternalTagsOnNodeGroup`). With finitely many failures and edits, the
  resource ends in sync or, once deleted, disappears (`Converges`).
- SNS helpers: `GetChangedSubAttributes` is empty exactly when
  `IsSNSSubscriptionAttributesUpToDate` holds (`DiffAgreesWithUpToDate`).
  Update sends only attributes the user set (`UpdateSendsOnlySetParameters`,
  violated; see the finding).
- Authorizer: retrying a create never leaves a resource two authorizers in
  one API (`NoDuplicateAuthorizer`). A resource's pass deletes only an
  authorizer of its external name that no other resource created
  (`DeletesOnlyExternalName`); this holds for resources with distinct external
  names and is violated when two share one (see the finding). No authorizer
  outlives its resource (`NoOrphanedAuthorizer`, violated; see the finding).
- APIMapping: the resource ends Available naming a mapping of its key
  (`Converges`). With the generator's default `filterList`, Delete can remove
  a mapping of another key (`DeletesOnlyOwnKey`, violated; see the finding).
  With the by-key hook the model assumes, that property holds by the hook's
  own guard, so it is not checked there.

## 2. Plan

1. **`NodeGroup`** (done). Module `NodeGroup`, instantiated
   by `MC_NodeGroup`. It is the only component with real control flow: a
   multi-pass protocol against an asynchronous cloud with failures.
2. **`SNSSubscription`** (done). The pure helpers become operators. `ParseBool` is
   modelled by what it accepts. A spec-modelled Observe/Update pass of the SNS
   controller uses them, with attribute values from a small set that includes
   the empty string. The diff and up-to-date agreement, and convergence of the
   attributes, are checked.
3. **`Authorizer`** and **`APIMapping`** (done). These model the generated
   Observe/Create/Delete (spec-modelled) with the hooks from `part_000` and
   the conversions from `zz_conversions.go`, against a cloud list that can
   hold several items with the same name or domain, and can answer a create
   but lose the answer. The checks are that Delete removes only the
   resource's own authorizer or mapping, and that no duplicate is left behind.
   The Authorizer model is composed of several resources sharing one API
   (done), to check what one resource's pass may do to another's authorizer.
4. **`ManagedResource`** (done; all four controllers refine it, with fairness). An abstract spec of the reconciliation contract:
   the external resource exists exactly while the resource is not deleted,
   and eventually matches the spec. `NodeGroup` is shown to implement it with
   `INSTANCE ManagedResource WITH` a refinement mapping, checked as a
   `PROPERTY` of an MC module.

## 3. The NodeGroup model

### State

| Variable | Code |
|---|---|
| `spec` | `cr.Spec.ForProvider`: `Version`, `ScalingConfig.DesiredSize` and `Tags`. Tags are abstracted to tag keys. |
| `status` | `cr.Status.AtProvider.Status` |
| `cond` | the Ready condition: Available, Creating, Deleting or Unavailable |
| `deleting`, `gone` | deletion timestamp set; finalizer removed |
| `ng` | the EKS nodegroup: status, version, size, tags, and `target`, the version and size an accepted update will apply |
| `pc`, `obs` | how far the current pass has got, and the observation it returned |
| `failures`, `edits`, `oob`, `degrades` | counters that bound environment events |

### Actions

- `Initialize`: `tagger.Initialize`. Tests at lines 878–921.
- `Connect`: the provider and secret lookups. Tests at lines 117–279.
- `Observe`: Describe, NotFound, late-init write, status, then the condition.
  Tests at lines 281–472.
- `Create`: tests at lines 474–545.
- `Update`: tests at lines 547–794. The call order comes from which mocks each
  test needs. `FailedAddTags` and `FailedRemoveTags` have no config mock, so
  tags come before config. `SuccessfulUpdateVersion` and
  `FailedUpdateVersion` have no config mock, so a version update returns
  without the config update.
- `Delete`: tests at lines 796–876.
- `RemoveFinalizer`, `UpToDate`, `Reconcile`: the reconciler, from the spec.
- `EditSpec`, `DeleteResource`: the user, between passes.
- `CreationCompletes`, `UpdateCompletes`, `DeletionCompletes`,
  `OutOfBandDelete`, `Degrade`, `Recover`: EKS.

Every call can fail while the failure budget lasts. EKS rejects version and
config updates of a nodegroup that is not ACTIVE, and a config update that
changes nothing. Both are errors with no effect.

### Runs

| Run | Bounds | Result |
|---|---|---|
| `nodegroup_safety` (`TypeOK`, `ExternalTagsOnNodeGroup`, `ImplementsFairManagedResource`; `FairSpec`) | 2 versions, 2 sizes, 1 user tag, 1 external tag; 1 failure, 1 edit, 1 out-of-band delete, 1 degradation | passes: about 177k distinct states |
| `nodegroup_converges` | the same, with no out-of-band delete and no degradation; `FairSpec` | passes |
| `nodegroup_stale_create` | the same, with 1 out-of-band delete | **violation** of `Converges` |

The bounds are enough for the interesting cases. One failure can hit any call
of any pass, including any point of the Update sequence. One edit can change
the version, the size and the tags together, so the tag, version and config
steps of Update are all needed. One out-of-band delete can happen in any
nodegroup status.

### Fairness

`FairSpec` makes the reconciler's steps weakly fair. The managed reconciler
requeues every resource after an error, after a change, and on its poll
interval. The EKS completions are also weakly fair, because EKS finishes the
operations it accepted. Failures, edits, out-of-band deletions and degradation
get no fairness and are bounded. The liveness runs set degradation to 0,
because recovery from DEGRADED is not something the code or EKS guarantees.

### Finding

`nodegroup_stale_create`: Create skips the create while the recorded status
is CREATING (test `SuccessfulNoNeedForCreate`). Observe does not touch the
resource when Describe answers NotFound (test `NotFound`). So a nodegroup
that disappears while CREATING is never recreated. TLC's trace: Create, then
Observe records CREATING. The nodegroup is deleted out of band and EKS
finishes the deletion before the next Observe. From then on every pass
observes NotFound and skips the create.

## 4. The SNSSubscription model

`SNSSubscription` translates the helpers of `snssubscription.go` into
operators: `GenerateSubscriptionObservation`, `LateInitializeSubscription`,
`getSubAttributes`, `GetChangedSubAttributes`,
`IsSNSSubscriptionAttributesUpToDate` and `IsSubscriptionNotFound`. Pointers
are a value or `Nil`, and `StringValue` maps `Nil` to the empty string, so the
empty string is one of the attribute values. `ParseBool` is modelled by the
strings it accepts. The four attribute keys are model-level constants.

The controller pass around them (Observe with late-initialisation, Create,
Update, the up-to-date check, Delete by Unsubscribe, and removing the
finalizer once Observe answers NotFound) is modelled from the spec.
Unsubscribe answering NotFound counts as deleted. Observe fetches
the attributes and late-initialises the parameters. Update sends the changed
attributes one `SetSubscriptionAttributes` call at a time, so a failure leaves
a subset applied. The user can edit the parameters and delete the resource;
the environment can confirm the subscription, drift an attribute and
unsubscribe.

| Run | Checks | Result |
|---|---|---|
| `sns_converges` | `TypeOK`, `DiffAgreesWithUpToDate` (the diff is empty exactly when the up-to-date check holds), `Converges`, `ImplementsFairManagedResource`, under weak fairness of the reconciler | passes: about 241k distinct states |
| `sns_clears_unset` | `UpdateSendsOnlySetParameters`; no failures or edits, one drift | **violation** |

Finding (`sns_clears_unset`): `GetChangedSubAttributes` compares every
attribute, and `getSubAttributes` turns an unset parameter into `""`.
Late initialization only adopts what SNS reported when Observe read it. TLC's
trace: the user sets only `FilterPolicy`; the subscription is created and
observed, and SNS has no `DeliveryPolicy`, so it stays unset; someone sets
`DeliveryPolicy` in SNS; Update reads the attributes again and sends
`DeliveryPolicy = ""`, clearing a field the spec does not hold. The spec says
that fields present in the spec trigger an Update, so this is recorded as a
divergence. The window is one pass wide: a drift before Observe is adopted
by late initialization instead.

Bounds: one non-empty value besides the empty string, one failure, one edit,
two drifts. That is enough to make every attribute differ from its observed
value in both directions (set and cleared).

## 5. The Authorizer model

`Authorizer` models the API Gateway v2 authorizer controller: the hooks of
`src/unnamed/part_000` inside the generated Observe, Create and Delete. It is
parameterised by a set `Resources` of Authorizer managed resources that share
API Gateway. Each resource has its own spec, status and pass, as functions
indexed by resource, and every action of the controller and of the user takes
the resource as a parameter. The authorizers, the ids handed out and the
bounds are shared. `ExternalName` maps each resource to its external name.
This is the composition the code meets when several Authorizer objects point
at the same API: the reconciler runs their passes interleaved.

| Variable | Code |
|---|---|
| `authorizers` | the authorizers in AWS: id, API, name, and which resource (or `"other"`) created it |
| `apiId[r]` | `Spec.ForProvider.APIID` of resource `r` |
| `authorizerID[r]` | `Status.AtProvider.AuthorizerID` of `r` |
| `cond[r]`, `deleting[r]`, `gone[r]`, `pc[r]`, `exists[r]` | Ready condition, deletion, pass position, Observe's answer |
| `failures`, `edits`, `foreign` | bounds on failures, apiId edits and authorizers created by others |

`Observe` lists the authorizers of `apiId` (`GetAuthorizers`), keeps those
whose name is the external name (`filterList`), and, if any is left, copies an
id and sets Available (`postObserve`). `Create` creates one with a fresh id
(`NewAuthorizer`); the call can fail, or succeed with a lost answer, and
`postCreate` records nothing in either case. `Delete` deletes by the recorded
id in `apiId` (`DeleteTarget`); NotFound counts as deleted. The environment can
change `apiId`, delete the resource, and create a foreign authorizer with the
same name in any API.

| Run | Checks | Result |
|---|---|---|
| `authorizer_safety` | `TypeOK`, `NoDuplicateAuthorizer`, `DeletesOnlyExternalName`; two resources named `jwt` and `lambda`, 1 failure, 1 edit, 1 foreign authorizer, symmetry over APIs and ids | passes: about 40k distinct states |
| `authorizer_converges` | `Converges` (for both), `ImplementsFairManagedResource` (for `r1`), under weak fairness of each resource's reconcile; two resources with distinct names, `apiId` never edited, 1 failure, 1 foreign authorizer | passes: about 437k distinct states |
| `authorizer_api_change` | `NoOrphanedAuthorizer`; one resource | **violation** |
| `authorizer_shared_name` | `DeletesOnlyExternalName`; two resources both named `jwt`, no failures, edits or foreign authorizers | **violation** |

Finding (`authorizer_api_change`): the Get and Delete inputs read the API id
from the spec on every pass, and nothing records the API the authorizer was
created in. TLC's trace creates the authorizer in API `a1`, changes `apiId` to
`a2`, and deletes the resource. Observe finds nothing in `a2`, the finalizer
is removed, and the authorizer in `a1` is left behind. The spec does not say
whether `apiId` may change, so this is recorded as a spec gap.

Finding (`authorizer_shared_name`): `filterList` keeps every authorizer of the
API with the external name, whoever created it, and `postCreate` records
nothing. Two resources with one external name therefore stand for one
authorizer. TLC's trace: `r1` observes nothing and creates the authorizer;
`r2` is deleted, observes `r1`'s authorizer as its own and deletes it, while
`r1`'s resource is live (in the shortest trace it is still Creating). `r1` recreates it on a later pass, so
`Converges` and the lifecycle still hold. The spec does not say whether two
managed resources may share an external name, so this is a spec gap.

## 6. The APIMapping model

`APIMapping` translates the five functions of `zz_conversions.go`.
`GenerateGetApiMappingsInput` lists the domain's mappings
(`GetApiMappings`). `GenerateAPIMapping` copies the id and API of the first
listed item into `Status.AtProvider`; the order is API Gateway's, so the
model lets any item come first. `GenerateCreateApiMappingInput` sets the key
only when the spec has one, and API Gateway then creates the root (empty-key)
mapping (`StringValue`). `GenerateDeleteApiMappingInput` names the mapping by
the status id. `IsNotFound` turns a NotFoundException from GetApiMappings into
"does not exist".

The generated Observe, Create and Delete, and the `filterList` hook that
narrows the list before `GenerateAPIMapping` sees it, are not in the sample.
They are modelled from the spec, after the generated Authorizer controller
whose hooks are in `part_000`. The hook is the constant `Filter`: `"none"` is
the generator's default (keep every item); `"byKey"` keeps the mappings of the
spec's key. API Gateway refuses a second mapping of a key on a domain
(`KeyTaken`, a ConflictException). The custom domain name is a boolean
`domain`: someone may delete it (`DeleteDomain`, when `DomainDeletable`),
which deletes its mappings, and from then on every call answers
NotFoundException (`DomainError`). Stage is left out.

| Variable | Code |
|---|---|
| `domain` | the custom domain name `Spec.ForProvider.DomainName` exists |
| `mappings` | the domain's mappings: id, API, key, and who created it |
| `forProvider` | `Spec.ForProvider`: API id and `APIMappingKey` (may be unset) |
| `atProvider` | `Status.AtProvider`: `APIMappingID`, `APIID` |
| `cond`, `deleting`, `gone`, `pc`, `exists`, `failures`, `edits`, `foreign` | as in `Authorizer` |

| Run | Checks | Result |
|---|---|---|
| `apimapping_safety` | `TypeOK`, `ImplementsFairManagedResource` under weak fairness of the reconciler; `Filter = "byKey"`, key never edited, 2 failures, 2 foreign mappings, the domain may be deleted | passes: about 257k distinct states |
| `apimapping_converges` | `Converges` under weak fairness of the reconciler; 1 key edit, the domain stays | passes: about 132k distinct states |
| `apimapping_first_item` | `DeletesOnlyOwnKey` with `Filter = "none"` | **violation** |

Bounds: 2 APIs, 2 keys plus the unset key, 5 ids; in `apimapping_converges`
1 failure (which can be a lost create answer), 1 key edit and 1 foreign
mapping; in `apimapping_safety` 2 failures and 2 foreign mappings. The foreign mapping can
take any key, including the resource's, and can appear between Observe and
Create.

Finding (`apimapping_first_item`): the resource has no key, so its own
mapping would be the root one. TLC's trace deletes the resource before it
created anything, another party maps key `v1` on the domain, Observe adopts
that mapping as the first listed item, and Delete removes it. Whether the real controller installs
a narrowing hook is outside the sample, so this is recorded as a spec gap.

## 7. The abstract lifecycle: ManagedResource

`ManagedResource` has three variables: `exists` (the external resource
exists), `deleting` and `gone`. Its steps are `Provision` (only while not
deleting), `Vanish` (at any time: the controller's delete or someone else's),
`RequestDeletion` and `Release` (only once the external resource is gone).
`FairSpec` adds weak fairness to `Reclaim` (a `Vanish` while deleting) and
`Release`: the reconciler must eventually delete a deleted resource's external
resource and then release it. `Provision` gets no fairness, because a
controller may adopt a resource it finds instead of creating one; each
module's `Converges` covers that side.

Each MC module instantiates it with a refinement mapping for `exists`:

| MC module | `exists` maps to |
|---|---|
| `MC_NodeGroup` | `ng.exists`: a DELETING nodegroup still exists |
| `MC_Authorizer` | API Gateway holds an authorizer resource `r1` created, in any API; `deleting` and `gone` map to `deleting[r1]` and `gone[r1]` |
| `MC_APIMapping` | the domain holds a mapping this resource created |
| `MC_SNSSubscription` | `sub.exists` |

`ImplementsFairManagedResource == Lifecycle!FairSpec` is checked as a
`PROPERTY` under each module's `FairSpec`: in `nodegroup_safety`,
`authorizer_converges`, `apimapping_safety` and `sns_converges`. For the
Authorizer the instance is for `r1`, with `r2` reconciled beside it; a second
instance for `r2` would check the same by symmetry. The
Authorizer and APIMapping checks leave `apiId` and the key unedited, since an
edit leaves the old external resource behind (the finding of section 5).
The weak fairness of the reconciler is what the code justifies: the managed
reconciler requeues every resource after an error and on its poll interval.
EKS completions are also fair; EKS degradation and its recovery are not, and
the NodeGroup check holds even when a degraded nodegroup never recovers.

## 8. Not modelled

- Connection details, the credential bytes and region, logging, events and
  error wording. No property is about them.
- Tag values. Tags are keys, so a changed value of an existing key is not
  modelled.
- Scaling bounds other than the desired size, labels, and AMI/release
  versions. They follow the same path as the size.
- User edits during a pass. They would make the reconciler's kube write fail
  with a conflict, which is already one of the modelled failures.
- The APIMapping stage, and update of an existing mapping: no hook or
  conversion for them is in the sample.
- The `Owner` and `ConfirmationWasAuthenticated` fields of the SNS
  observation: they are copied and parsed but nothing reads them.
- How the SNS controller keeps the subscription ARN (the external name) and
  whether a Subscribe whose answer was lost is retried safely: that code is
  not in the sample. SNS answers a repeated Subscribe with the same ARN.
- `SetupAuthorizer` and `NewSubscriptionClient`: wiring with no state.
