------------------------------ MODULE MCLibrary ------------------------------
(* Library with two chats and one course. *)
EXTENDS Library, TLC

CONSTANTS u1, u2, c1, c2, k1, p1

MCUploads == {u1, u2}
MCChats == {c1, c2}
MCCourses == {k1}
MCProblems == {p1}

\* Bound: uploads, problems and troubles together.
Few ==
  Cardinality({u \in Uploads : rows[u] # "new" \/ u \in reading})
    + Cardinality({p \in Problems : problems[p] # NoProblem}) + cuts + restarts <= 3

Alike == Permutations(MCUploads) \cup Permutations(MCChats)
=============================================================================
