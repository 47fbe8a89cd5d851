--------------------------- MODULE MCHashtagIndex ---------------------------
EXTENDS HashtagIndex, TLC

CONSTANTS p1, p2, p3, s1, s2, cats

(* p1 and p3 are local posts, p2 is a remote note.                         *)
MCTagsOf == p1 :> {cats} @@ p2 :> {cats} @@ p3 :> {}

SearchSymmetry == Permutations({s1, s2})
=============================================================================
