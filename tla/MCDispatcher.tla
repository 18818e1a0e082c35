---------------------------- MODULE MCDispatcher ----------------------------
(***************************************************************************)
(* Instances of Dispatcher for TLC.                                        *)
(***************************************************************************)
EXTENDS Dispatcher, TLC

CONSTANTS c1, c2, s1, s2, s3, s4

\* Two concurrent callers; c2's second signal never passes the pipeline.
LoadTwo == (c1 :> <<s1, s2>>) @@ (c2 :> <<s3, s4>>)

\* normalize keeps everything; a second processor drops s4.
Normalize == [s \in Signals |-> "keep"]
ChainFilter ==
  <<Normalize, [s \in Signals |-> IF s = s4 THEN "filter" ELSE "keep"]>>

\* One caller, all signals kept: the smaller instance for liveness.
LoadOne == c1 :> <<s1, s2, s3>>
=============================================================================
