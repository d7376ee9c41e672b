---------------------------- MODULE MCCatalogue -----------------------------
(* Three books: two of one second, two of one title, one without author and *)
(* series.                                                                  *)
EXTENDS Catalogue

MCTitle == (1 :> 2 @@ 2 :> 1 @@ 3 :> 2)
MCAuthor == (1 :> 1 @@ 2 :> 0 @@ 3 :> 2)
MCSeries == (1 :> 1 @@ 2 :> 0 @@ 3 :> 1)
MCSeriesIndex == (1 :> 2 @@ 2 :> 0 @@ 3 :> 1)
MCModTime == (1 :> 1 @@ 2 :> 1 @@ 3 :> 2)
=============================================================================
