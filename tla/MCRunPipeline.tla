--------------------------- MODULE MCRunPipeline ---------------------------
(***************************************************************************)
(* Small instances of RunPipeline: five people on three pages.  Ben and Bob *)
(* are one candidate, so are Ana and Eve: a page may add an id without      *)
(* adding a row.  One person is suppressed; one candidate is on the         *)
(* shortlist.                                                               *)
(***************************************************************************)
EXTENDS RunPipeline, TLC

CONSTANTS ana, ben, bob, dnc, eve, c1, c2

MCPeople == {ana, ben, bob, dnc, eve}
MCCandidates == {c1, c2}
MCCandidateOf == ana :> c1 @@ ben :> c2 @@ bob :> c2 @@ dnc :> c1 @@ eve :> c1
MCSuppressed == {dnc}
MCMain == {c1}
MCPages == 1..3
MCPeopleOn == 1 :> {ben, dnc} @@ 2 :> {ana, bob} @@ 3 :> {eve}

\* Only the workers are interchangeable.
WorkerSymmetry == Permutations(Workers)
=============================================================================
