---------------------------- MODULE MCTaskTracking ----------------------------
(* Small instances of TaskTracking for TLC. *)
EXTENDS TaskTracking, TLC

\* A preview outline, a dimension of the user's that is laid out, and unresolved
\* geometry.
MixedPlan == <<"AI_PREVIEW_OUTLINE", "0", "AI_UNCERTAIN">>
\* Two created objects: a preview outline, and unresolved geometry.
PreviewPlan == <<"AI_PREVIEW_OUTLINE", "AI_UNCERTAIN">>
SinglePlan == <<"AI_PREVIEW_OUTLINE">>

DefaultMapping == {<<>>}
\* The default map, and a caller that maps unresolved geometry to a formal layer.
PromotingMapping == {<<>>, [AI_UNCERTAIN |-> "OUTLINE"]}

Symmetry == Permutations(Task)
=============================================================================
