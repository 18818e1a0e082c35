---------------------------- MODULE MCIntegration ----------------------------
(***************************************************************************)
(* The instance of Integration for TLC.                                    *)
(***************************************************************************)
EXTENDS Integration, TLC

CONSTANT w1

Http == [Enable |-> TRUE, Skip |-> FALSE, Transport |-> {"http"},
         UDPEndpoint |-> TRUE, Bridge |-> "unset"]
Unset == [enable |-> "unset", transport |-> {}]

\* The defaults, skipped, with two transports, switched off, and with udp
\* from the environment but without an endpoint, which leaves no transport.
SomeCalls == {<<Http, Unset>>, <<[Http EXCEPT !.Skip = TRUE], Unset>>,
              <<[Http EXCEPT !.Transport = {"https", "udp"}, !.Bridge = "off"], Unset>>,
              <<Http, [Unset EXCEPT !.enable = "other"]>>,
              <<[Http EXCEPT !.UDPEndpoint = FALSE], [enable |-> "truthy", transport |-> {"udp"}]>>}

\* One other goroutine, in each form.
AllShapes == [Others -> Forms]
=============================================================================
