----------------------------- MODULE MCWatchlist -----------------------------
(* Two apps whose names give the same object name, and a third one, on two     *)
(* clusters; two requests at a time.                                            *)
EXTENDS Watchlist, TLC

CONSTANTS a1, a2, a3, p1, p2, c1, c2, h1, h2

MCNameOf == a1 :> a1 @@ a2 :> a1 @@ a3 :> a3
MCClusterOf == p1 :> c1 @@ p2 :> c2
\* The two places change names together with their clusters.
SwapPlaces == p1 :> p2 @@ p2 :> p1 @@ c1 :> c2 @@ c2 :> c1
Symmetry == Permutations({h1, h2}) \cup {SwapPlaces}
==============================================================================
