------------------------------ MODULE MCHttpTurns ------------------------------
(* Small instances of HttpTurns: a request, its repetition under the same id, *)
(* and requests of another session.                                           *)
EXTENDS HttpTurns, TLC

CONSTANTS s1, s2, r1, r2, r3, i1

Sessions   == {s1, s2}
Requests   == {r1, r2, r3}
InSessions == (r1 :> s1 @@ r2 :> s1 @@ r3 :> s2)
WithIds    == (r1 :> i1 @@ r2 :> i1 @@ r3 :> NoId)

\* Whichever of the two is sent first, the other repeats it.
Repetition == Permutations({r1, r2})
=============================================================================
