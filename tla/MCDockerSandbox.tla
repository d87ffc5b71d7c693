--------------------------- MODULE MCDockerSandbox ---------------------------
(* Three agents on two containers: a round of three shares one when it may,   *)
(* one of two is one agent to a container.  The host can promise four.        *)
EXTENDS DockerSandbox

MCAgents == 1..3
=============================================================================
