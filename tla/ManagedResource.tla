--------------------------- MODULE ManagedResource ---------------------------
(***************************************************************************)
(* What the managed reconciler promises about the lifecycle of the         *)
(* external resource behind one managed resource, whatever the kind.       *)
(*                                                                         *)
(* The external resource is created only while the managed resource is   *)
(* not being deleted; it may disappear at any time (deleted by the         *)
(* controller or by someone else); the finalizer is removed, and the       *)
(* managed resource released, only once the external resource is gone.    *)
(* A detailed controller model implements this specification through a   *)
(* refinement mapping that says which of its states has the external       *)
(* resource existing.                                                      *)
(***************************************************************************)
VARIABLES
    exists,   \* the external resource exists in the cloud
    deleting, \* the managed resource has a deletion timestamp
    gone      \* the finalizer is removed: the managed resource is released

vars == <<exists, deleting, gone>>

Init == exists = FALSE /\ deleting = FALSE /\ gone = FALSE

\* The controller creates the external resource for a live managed resource.
Provision ==
    /\ ~deleting /\ ~exists
    /\ exists' = TRUE
    /\ UNCHANGED <<deleting, gone>>

\* The external resource disappears, deleted by the controller or not.
Vanish ==
    /\ exists
    /\ exists' = FALSE
    /\ UNCHANGED <<deleting, gone>>

\* The user deletes the managed resource.
RequestDeletion ==
    /\ ~deleting
    /\ deleting' = TRUE
    /\ UNCHANGED <<exists, gone>>

\* The reconciler removes the finalizer of a deleted resource whose
\* external resource no longer exists.
Release ==
    /\ deleting /\ ~exists /\ ~gone
    /\ gone' = TRUE
    /\ UNCHANGED <<exists, deleting>>

Next == Provision \/ Vanish \/ RequestDeletion \/ Release

Spec == Init /\ [][Next]_vars

\* The controller deletes the external resource of a deleted managed resource.
Reclaim == deleting /\ Vanish

(* What the reconciler must eventually do: delete the external resource of *)
(* a deleted managed resource, then release it. Provisioning gets no       *)
(* fairness: a controller may adopt an external resource it finds instead *)
(* of creating one.                                                       *)
FairSpec == Spec /\ WF_vars(Reclaim) /\ WF_vars(Release)
=============================================================================
