-------------------------- MODULE MCClientTransport --------------------------
(***************************************************************************)
(* The instance of ClientTransport for TLC.                                *)
(***************************************************************************)
EXTENDS ClientTransport, TLC

CONSTANTS w1, w2, p1, p2, p3, p4

\* Both workers send, or one alone; p3 is too large for a frame.
AllLoads == {(w1 :> <<p1, p3>>) @@ (w2 :> <<p2, p4>>),
             (w1 :> <<p1, p3, p2>>) @@ (w2 :> <<>>)}
=============================================================================
