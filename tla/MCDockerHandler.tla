--------------------------- MODULE MCDockerHandler ---------------------------
(* Model-checking instance of DockerHandler: two IP addresses, directory   *)
(* sizes up to one byte, and daemon versions on both sides of 1.10.       *)
EXTENDS DockerHandler, TLC

CONSTANTS ip1, ip2

MCIPs == {ip1, ip2}
MCDockerVersions == {<<1, 9>>, <<1, 10>>, <<17, 3>>}
MCMaxBytes == 1

Symmetry == Permutations(MCIPs)
=============================================================================
