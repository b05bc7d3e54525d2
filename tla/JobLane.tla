------------------------------ MODULE JobLane ------------------------------
(***************************************************************************)
(* What the job queue promises to the people who submit jobs and to the    *)
(* machines that measure them, without workers, statements or states of    *)
(* rows: every lane (a machine, or a type of e-mail) is a server that      *)
(* executes one job at a time. A job is queued once, is executed as often  *)
(* as the server hands it back, and once it is over it stays over. A job   *)
(* whose server died while executing it is stuck and keeps the lane.       *)
(***************************************************************************)
CONSTANTS Jobs, Lanes

VARIABLES
  phase,   (* where each job is                                           *)
  laneOf   (* the lane a job was queued for                               *)

lvars == <<phase, laneOf>>

Phases == {"absent", "queued", "claimed", "executing", "stuck", "over"}

TypeOK ==
  /\ phase \in [Jobs -> Phases]
  /\ laneOf \in [Jobs -> Lanes]

Move(j, from, to) ==
  /\ phase[j] = from
  /\ phase' = [phase EXCEPT ![j] = to]
  /\ UNCHANGED laneOf

(* Jobs that occupy their lane.                                            *)
Occupying(l) == {j \in Jobs : phase[j] \in {"executing", "stuck"} /\ laneOf[j] = l}

Init ==
  /\ phase = [j \in Jobs |-> "absent"]
  /\ laneOf \in [Jobs -> Lanes]

Enqueue(j) ==
  /\ phase[j] = "absent"
  /\ phase' = [phase EXCEPT ![j] = "queued"]
  /\ \E l \in Lanes : laneOf' = [laneOf EXCEPT ![j] = l]

(* Ended while nobody had it, or while it was stuck.                       *)
Withdraw(j) == Move(j, "queued", "over") \/ Move(j, "stuck", "over")

(* A server has read the job; a withdrawal that comes now may come late.   *)
Claim(j)   == Move(j, "queued", "claimed")
Unclaim(j) == Move(j, "claimed", "queued") \/ Move(j, "claimed", "over")

(* Only a lane nothing occupies starts a job.                              *)
Start(j) ==
  /\ Occupying(laneOf[j]) = {}
  /\ Move(j, "claimed", "executing")

End(j)      == Move(j, "executing", "over")
HandBack(j) == Move(j, "executing", "queued")
Strand(j)   == Move(j, "executing", "stuck")

Next ==
  \E j \in Jobs :
    \/ Enqueue(j) \/ Withdraw(j) \/ Claim(j) \/ Unclaim(j)
    \/ Start(j) \/ End(j) \/ HandBack(j) \/ Strand(j)

Spec == Init /\ [][Next]_lvars

=============================================================================
