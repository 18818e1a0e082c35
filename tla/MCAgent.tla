------------------------------- MODULE MCAgent -------------------------------
(***************************************************************************)
(* Instances of Agent for TLC.                                             *)
(***************************************************************************)
EXTENDS Agent, TLC

CONSTANTS p1, w1, w2, s1, s2, s3

LoadFirst == p1 :> <<s1>>
LoadTwo == p1 :> <<s1, s2>>

\* The first collection finds nothing, the second one signal.
Collected == <<<<>>, <<s3>>>>
NoRounds == <<>>

\* LevelPolicy: transport 1 is the default, transport 2 the one for errors.
ByLevel == [s \in Signals |-> IF s \in Reliable THEN <<2>> ELSE <<1>>]

WorkerSymmetry == Permutations(Workers)
=============================================================================
