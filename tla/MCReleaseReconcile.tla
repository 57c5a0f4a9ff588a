------------------------- MODULE MCReleaseReconcile -------------------------
(***************************************************************************)
(* ReleaseReconcile for TLC: a custom resource, then a deployment, whose   *)
(* selector is immutable, then a second custom resource.  The chart gives  *)
(* every object an image, and a null replica count to the first; notes are *)
(* the user's.                                                             *)
(***************************************************************************)
EXTENDS ReleaseReconcile

MCFields == {"image", "other"}

MCExpected ==
    <<[image |-> "chart", other |-> Null],
      [image |-> "chart", other |-> "chart"],
      [image |-> "chart", other |-> Absent]>>

MCImmutable == {<<2, "other">>}
=============================================================================
