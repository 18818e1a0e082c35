----------------------------- MODULE MCLiveHub -----------------------------
(***************************************************************************)
(* The instance of LiveHub for TLC.                                        *)
(***************************************************************************)
EXTENDS LiveHub, TLC

CONSTANTS p1, p2, s1, s2, s3, s4

\* Two ingesting goroutines, and a filter that lets one signal of each pass
\* and one of the first not.
LoadTwo == (p1 :> <<s1, s2, s3>>) @@ (p2 :> <<s4>>)
Filters == [b \in Subscribers |-> {s1, s3, s4}]
=============================================================================
