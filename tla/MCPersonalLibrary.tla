------------------------- MODULE MCPersonalLibrary -------------------------
EXTENDS PersonalLibrary, TLC

CONSTANTS u1, u2, h1, h2, h3, plain, tagged, crowded, t1, t2

MCUserOf == (h1 :> u1) @@ (h2 :> u1) @@ (h3 :> u2)
(* The last has more tags than a note may have. *)
MCTagsOf == (plain :> {}) @@ (tagged :> {t1}) @@ (crowded :> {t1, t2})

(* The requests of one user and the IDs of lists are interchangeable.      *)
Symmetry == Permutations({h1, h2}) \cup Permutations(ListIds)

(* Bounds: the rows ever created, and requests being served at once.        *)
CONSTANTS MaxRows, MaxCalls
Created == Cardinality(usedLists) + Cardinality(usedNotes)
             + Cardinality({r \in RequestIds : requests[r] # None})
             + Cardinality(bookTags) + Cardinality(recent)
Small == Created <= MaxRows /\ Cardinality({h \in Handlers : ~Is(h, "idle")}) <= MaxCalls
=============================================================================
