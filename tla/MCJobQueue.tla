----------------------------- MODULE MCJobQueue -----------------------------
(***************************************************************************)
(* Small instances of JobQueue: workers are named after the process they   *)
(* stand for, lanes after the rows they select.                            *)
(***************************************************************************)
EXTENDS JobQueue

CONSTANTS machine, simple, report,           (* lanes                      *)
          client, oneoff, mailer             (* workers                    *)

MCJobs2 == 1 .. 2
MCJobs3 == 1 .. 3

MCLanes == {machine, simple, report}

(* The recommended set-up: client.py on the machine, one cron job for the  *)
(* simple e-mails. Reports are e-mails like those and are left waiting.    *)
ClusterWorkers == {client, mailer}
ClusterLaneOf  == [w \in ClusterWorkers |-> IF w = client THEN machine ELSE simple]

(* "jobs.py run" started by hand next to the machine's client.             *)
OverlapWorkers == {client, oneoff}
OverlapLaneOf  == [w \in OverlapWorkers |-> machine]

=============================================================================
