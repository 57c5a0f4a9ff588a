-------------------------- MODULE ReleaseLifecycle --------------------------
(***************************************************************************)
(* What the users of a custom resource may rely on about its release,      *)
(* whatever the operator reads late, fails to do or is interrupted in.     *)
(*                                                                         *)
(* A release is made for a resource that is stored and guarded by the      *)
(* finalizer, and the resource stays until it is gone.  It is made from    *)
(* values that this resource has asked for.  One that has ever been        *)
(* deployed is taken away only when its resource is being deleted; and one *)
(* that an interrupted operation has left pending, or half uninstalled, is *)
(* not touched before that either.                                         *)
(***************************************************************************)
CONSTANTS Uids, Manifests, Nil

VARIABLES
    resource,    \* the stored resource: its uid, is it deleted, is it guarded?
    asked,       \* the manifests it has asked for
    release,     \* the latest revision: its owner, status and manifest
    established  \* has the release ever been deployed?

vars == <<resource, asked, release, established>>

Init ==
    /\ resource = Nil /\ asked = {}
    /\ release = Nil /\ established = FALSE

-----------------------------------------------------------------------------
(* The resource                                                            *)

Create ==
    /\ resource = Nil
    /\ \E uid \in Uids :
          resource' = [uid |-> uid, deleting |-> FALSE, guarded |-> FALSE]
    /\ \E m \in Manifests : asked' = {m}
    /\ UNCHANGED <<release, established>>

Ask ==
    /\ resource # Nil
    /\ \E m \in Manifests : asked' = asked \cup {m}
    /\ UNCHANGED <<resource, release, established>>

Guard ==
    /\ resource # Nil /\ ~resource.deleting
    /\ resource' = [resource EXCEPT !.guarded = TRUE]
    /\ UNCHANGED <<asked, release, established>>

Delete ==
    /\ resource # Nil
    /\ resource' = [resource EXCEPT !.deleting = TRUE]
    /\ UNCHANGED <<asked, release, established>>

(* The guard goes only when there is no release.                           *)
LetGo ==
    /\ resource # Nil /\ resource.deleting
    /\ release = Nil
    /\ resource' = [resource EXCEPT !.guarded = FALSE]
    /\ UNCHANGED <<asked, release, established>>

(* So does the resource, at once if nothing has guarded it.                *)
Vanish ==
    /\ resource # Nil
    /\ resource.deleting \/ ~resource.guarded
    /\ release = Nil
    /\ resource' = Nil /\ asked' = {}
    /\ UNCHANGED <<release, established>>

-----------------------------------------------------------------------------
(* The release                                                             *)

(* A revision is recorded, from values the resource has asked for.         *)
Record(owner) ==
    /\ \E m \in asked, status \in {"deployed", "failed", "pending"} :
          release' = [owner |-> owner, status |-> status, manifest |-> m]
    /\ established' = (established \/ release'.status = "deployed")
    /\ UNCHANGED <<resource, asked>>

Install ==
    /\ release = Nil
    /\ resource # Nil /\ resource.guarded
    /\ Record(resource.uid)

(* An upgrade, or one that is undone.                                      *)
Upgrade ==
    /\ release # Nil /\ release.status \in {"deployed", "failed"}
    /\ Record(release.owner)

(* A first installation that failed is cleaned up, or the release goes as  *)
(* its resource is deleted; either may stop half way.                      *)
Uninstall ==
    /\ release # Nil
    /\ \/ release.status = "failed" /\ ~established
       \/ resource.deleting /\ resource.uid = release.owner
    /\ \/ /\ release' = Nil
          /\ established' = FALSE
       \/ /\ release' = [release EXCEPT !.status = "uninstalling"]
          /\ UNCHANGED established
    /\ UNCHANGED <<resource, asked>>

Next ==
    \/ Create \/ Ask \/ Guard \/ Delete \/ LetGo \/ Vanish
    \/ Install \/ Upgrade \/ Uninstall

Spec == Init /\ [][Next]_vars
=============================================================================
