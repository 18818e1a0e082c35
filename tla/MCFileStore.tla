----------------------------- MODULE MCFileStore -----------------------------
(***************************************************************************)
(* The instance of FileStore for TLC.                                      *)
(***************************************************************************)
EXTENDS FileStore, TLC

CONSTANTS s1, s2, s3, s4

\* Days 1 and 2 are old, day 1 is past the retention; s3 has no time.
Batches == <<<<s1, s2, s3>>, <<s4>>>>
Stamps == [s \in Signals |-> IF s = s3 THEN 0 ELSE IF s = s1 THEN 1 ELSE 2]
=============================================================================
