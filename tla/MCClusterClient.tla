--------------------------- MODULE MCClusterClient ---------------------------
(***************************************************************************)
(* An instance of ClusterClient with two temperature errors in a row and   *)
(* four events: enough for a failed upgrade, an ignored reboot, a bad      *)
(* verdict and a death to meet.                                            *)
(***************************************************************************)
EXTENDS ClusterClient

MCTempLimit == 2
MCMaxEvents == 4

=============================================================================
