---------------------------- MODULE ClusterClient ----------------------------
(***************************************************************************)
(* The main loop of cron/client.py on one machine of a cluster: forced     *)
(* maintenance (tools/cluster/maintenance_original.py), operating system   *)
(* updates and the reboot after them, control measurements and what they   *)
(* say about the machine, temperature retries, and the job in between.     *)
(* What happens to the job itself is the subject of JobQueue.              *)
(*                                                                         *)
(* Two memories decide whether a control measurement is due: the column    *)
(* machines.needs_revalidation, of which the process keeps a copy, and the *)
(* age of the last 'measurement_control_end' in client_status. The process *)
(* may die at any point; systemd starts it again. Times are abstracted to  *)
(* whether they have run out: D is time_between_control_workload_          *)
(* validations, at most a day, and the sleeps of D and of a day let every  *)
(* age of at most D run out. The mode --testing is left out.               *)
(***************************************************************************)
EXTENDS Naturals

CONSTANTS
  TempLimit,   (* temperature errors in a row the client puts up with (10) *)
  MaxEvents    (* bound: package updates, faults and bad verdicts          *)

ASSUME BoundsAssumption == TempLimit \in Nat /\ MaxEvents \in Nat

VARIABLES
  pc,          (* where the client is                                      *)
  back,        (* where it goes on after do_maintenance() or a reboot      *)
  flag,        (* machines.needs_revalidation                              *)
  wanted,      (* the local copy needs_revalidation                        *)
  fresh,       (* a measurement_control_end younger than D is recorded     *)
  due,         (* last_24h_maintenance is older than 12 hours              *)
  aptDue,      (* apt's history.log is missing or older than 24 hours      *)
  last,        (* set_status.last_status                                   *)
  tempErrors,  (* temperature_errors                                       *)
  changed,     (* history: packages changed since the last control workload *)
  verdict,     (* history: what the last control workload said             *)
  maintained,  (* history: maintenance has run since the last job          *)
  forgotten,   (* history: what died with a client that knew it            *)
  events       (* history: events so far, for the bound                    *)

vars == <<pc, back, flag, wanted, fresh, due, aptDue, last, tempErrors,
          changed, verdict, maintained, forgotten, events>>

Statuses == {"cooldown", "warmup", "job_no", "job_start", "job_error",
             "job_end", "maintenance_start", "maintenance_end",
             "maintenance_error", "measurement_control_start",
             "measurement_control_end", "measurement_control_error", "reboot"}

PCs == {"down", "top", "maintaining", "failed", "flagging", "rebooting",
        "polling", "busy", "gotjob", "gotnone", "controlling", "judging",
        "condemned", "clearing", "job", "idle"}

Goto(from, to) == pc = from /\ pc' = to

(* Something the machine or the operator does, not the client's schedule.  *)
Event == events < MaxEvents /\ events' = events + 1

(* set_status() drops a status equal to the last one. The only status the  *)
(* program reads back is measurement_control_end (is_validation_needed).   *)
SetStatus(s) ==
  /\ last' = s
  /\ fresh' = (fresh \/ (s = "measurement_control_end" /\ last # s))

(* ... and a sleep of at least D follows.                                  *)
SetStatusAndSleep(s) ==
  /\ last' = s
  /\ fresh' = FALSE

-----------------------------------------------------------------------------
(* A machine that has never been controlled.                               *)
Init ==
  /\ pc = "down" /\ back = "top"
  /\ flag = FALSE /\ wanted = FALSE /\ fresh = FALSE
  /\ due = TRUE /\ aptDue = TRUE
  /\ last = "none" /\ tempErrors = 0
  /\ changed = FALSE /\ verdict = "none" /\ maintained = FALSE
  /\ forgotten = {} /\ events = 0

-----------------------------------------------------------------------------
(* The process starts, on boot or again after it ended.                    *)
Start ==
  /\ Goto("down", "top")
  /\ wanted' = flag
  /\ due' = TRUE
  /\ last' = "none"
  /\ tempErrors' = 0
  /\ UNCHANGED <<back, flag, fresh, aptDue, changed, verdict, maintained,
                 forgotten, events>>

(* do_maintenance() at the top of the loop, if it is due.                  *)
ForcedMaintenance ==
  /\ pc = "top"
  /\ IF due
       THEN pc' = "maintaining" /\ back' = "polling" /\ SetStatus("maintenance_start")
       ELSE pc' = "polling" /\ UNCHANGED <<back, last, fresh>>
  /\ UNCHANGED <<flag, wanted, due, aptDue, tempErrors, changed, verdict,
                 maintained, forgotten, events>>

(* maintenance.py succeeds without an update.                              *)
MaintenanceUneventful ==
  /\ pc = "maintaining"
  /\ pc' = back
  /\ SetStatus("maintenance_end")
  /\ due' = FALSE
  /\ maintained' = TRUE
  /\ UNCHANGED <<back, flag, wanted, aptDue, tempErrors, changed, verdict,
                 forgotten, events>>

(* It succeeds and lists updated packages: do_maintenance() returns True.  *)
PackagesUpdated ==
  /\ Goto("maintaining", "flagging")
  /\ aptDue
  /\ Event
  /\ SetStatus("maintenance_end")
  /\ aptDue' = FALSE
  /\ changed' = TRUE
  /\ maintained' = TRUE
  /\ UNCHANGED <<back, flag, wanted, due, tempErrors, verdict, forgotten>>

(* It fails; if apt's full-upgrade is what failed, some packages may have  *)
(* changed, but none are listed.                                           *)
MaintenanceFails ==
  /\ Goto("maintaining", "failed")
  /\ Event
  /\ SetStatus("maintenance_error")
  /\ maintained' = TRUE
  /\ \/ UNCHANGED <<aptDue, changed>>
     \/ aptDue /\ aptDue' = FALSE /\ changed' = TRUE
  /\ UNCHANGED <<back, flag, wanted, due, tempErrors, verdict, forgotten>>

(* Mutant: a failed maintenance sleeps for a few minutes only.             *)
MaintenanceFailedBriefly ==
  /\ pc = "failed"
  /\ pc' = back
  /\ SetStatus("maintenance_end")
  /\ due' = FALSE
  /\ UNCHANGED <<back, flag, wanted, aptDue, tempErrors, changed, verdict,
                 maintained, forgotten, events>>

(* After the sleep of D the loop goes on as if nothing had happened.       *)
MaintenanceFailureSleptOff ==
  /\ pc = "failed"
  /\ pc' = back
  /\ SetStatusAndSleep("maintenance_end")
  /\ due' = FALSE
  /\ UNCHANGED <<back, flag, wanted, aptDue, tempErrors, changed, verdict,
                 maintained, forgotten, events>>

(* UPDATE machines SET needs_revalidation = true, then reboot().           *)
FlagForRevalidation ==
  /\ Goto("flagging", "rebooting")
  /\ flag' = TRUE
  /\ SetStatus("reboot")
  /\ UNCHANGED <<back, wanted, due, aptDue, tempErrors, changed, verdict,
                 maintained, forgotten, events>>

(* The machine goes down, or systemctl fails and the client with it.       *)
Reboots ==
  /\ Goto("rebooting", "down")
  /\ UNCHANGED <<back, flag, wanted, fresh, due, aptDue, last, tempErrors,
                 changed, verdict, maintained, forgotten, events>>

(* It is still up a day later: the client goes on, with its old copy of    *)
(* needs_revalidation. Only reboot() is followed by a reset of             *)
(* last_24h_maintenance, reboot_if_uptime_exceeded() is not.               *)
RebootIgnored ==
  /\ pc = "rebooting"
  /\ Event
  /\ pc' = back
  /\ fresh' = FALSE
  /\ due' = (back = "idle")
  /\ UNCHANGED <<back, flag, wanted, aptDue, last, tempErrors, changed,
                 verdict, maintained, forgotten>>

-----------------------------------------------------------------------------
(* get_job(), and check_job_running() if there is one.                     *)
Poll ==
  /\ pc = "polling"
  /\ pc' \in {"busy", "gotjob", "gotnone"}
  /\ UNCHANGED <<back, flag, wanted, fresh, due, aptDue, last, tempErrors,
                 changed, verdict, maintained, forgotten, events>>

(* A row of this machine is RUNNING already: sleep and start over.         *)
BusySleptOff ==
  /\ Goto("busy", "top")
  /\ UNCHANGED <<back, flag, wanted, fresh, due, aptDue, last, tempErrors,
                 changed, verdict, maintained, forgotten, events>>

(* needs_revalidation or validate.is_validation_needed()                   *)
ControlNeeded == wanted \/ ~fresh

StartControl ==
  /\ pc \in {"gotjob", "gotnone"}
  /\ ControlNeeded
  /\ pc' = "controlling"
  /\ SetStatus("measurement_control_start")
  /\ UNCHANGED <<back, flag, wanted, due, aptDue, tempErrors, changed,
                 verdict, maintained, forgotten, events>>

(* run_workload() raises and the client ends.                              *)
ControlFails ==
  /\ Goto("controlling", "down")
  /\ Event
  /\ UNCHANGED <<back, flag, wanted, fresh, due, aptDue, last, tempErrors,
                 changed, verdict, maintained, forgotten>>

(* It completes, and this is recorded before anybody looks at the result.  *)
ControlCompletes ==
  /\ Goto("controlling", "judging")
  /\ SetStatus("measurement_control_end")
  /\ changed' = FALSE
  /\ verdict' = "pending"
  /\ forgotten' = {}
  /\ UNCHANGED <<back, flag, wanted, due, aptDue, tempErrors, maintained,
                 events>>

ControlPasses ==
  /\ Goto("judging", "clearing")
  /\ verdict' = "ok"
  /\ UNCHANGED <<back, flag, wanted, fresh, due, aptDue, last, tempErrors,
                 changed, maintained, forgotten, events>>

(* validate_workload_stddev() raises: a metric scatters too much.          *)
ControlCondemns ==
  /\ Goto("judging", "condemned")
  /\ Event
  /\ verdict' = "bad"
  /\ SetStatus("measurement_control_error")
  /\ UNCHANGED <<back, flag, wanted, due, aptDue, tempErrors, changed,
                 maintained, forgotten>>

(* "it will loop endlessly in validation until manually handled"           *)
CondemnationSleptOff ==
  /\ Goto("condemned", "clearing")
  /\ fresh' = FALSE
  /\ UNCHANGED <<back, flag, wanted, due, aptDue, last, tempErrors,
                 changed, verdict, maintained, forgotten, events>>

(* Mutant: the UPDATE is left out, only the local copy is reset.           *)
ClearCopyOnly ==
  /\ Goto("clearing", "top")
  /\ wanted' = FALSE
  /\ UNCHANGED <<back, flag, fresh, due, aptDue, last, tempErrors, changed,
                 verdict, maintained, forgotten, events>>

(* UPDATE machines SET needs_revalidation = false, whatever the verdict.   *)
ClearFlag ==
  /\ Goto("clearing", "top")
  /\ flag' = FALSE
  /\ wanted' = FALSE
  /\ UNCHANGED <<back, fresh, due, aptDue, last, tempErrors, changed,
                 verdict, maintained, forgotten, events>>

-----------------------------------------------------------------------------
StartJob ==
  /\ Goto("gotjob", "job")
  /\ ~ControlNeeded
  /\ SetStatus("job_start")
  /\ UNCHANGED <<back, flag, wanted, due, aptDue, tempErrors, changed,
                 verdict, maintained, forgotten, events>>

(* finally: do_maintenance(), whatever became of the job; b is "down" when *)
(* an exception is on its way out.                                         *)
FinallyMaintain(b) ==
  /\ Goto("job", "maintaining")
  /\ back' = b
  /\ maintained' = FALSE
  /\ UNCHANGED <<flag, wanted, due, aptDue, changed, verdict, forgotten>>

JobEnds ==
  /\ FinallyMaintain("top")
  /\ SetStatus("maintenance_start")
  /\ tempErrors' = 0
  /\ UNCHANGED events

(* TemperatureException: too hot or too cold, the job waits again.         *)
TemperatureRetry ==
  /\ tempErrors < TempLimit
  /\ FinallyMaintain("top")
  /\ SetStatus("maintenance_start")
  /\ tempErrors' = tempErrors + 1
  /\ UNCHANGED events

(* ... once too often: RuntimeError, which the finally clause delays.      *)
TemperatureGivesUp ==
  /\ tempErrors >= TempLimit
  /\ FinallyMaintain("down")
  /\ SetStatus("maintenance_start")
  /\ UNCHANGED <<tempErrors, events>>

(* Any other exception of process(); one of Status.ERROR or above makes    *)
(* the client sleep for D.                                                 *)
JobError ==
  /\ FinallyMaintain("top")
  /\ SetStatus("maintenance_start") \/ SetStatusAndSleep("maintenance_start")
  /\ UNCHANGED <<tempErrors, events>>

(* Ctrl-C, or an exception of an except clause (killall, the UPDATEs and   *)
(* INSERTs of the error handling): maintenance, then the end.              *)
JobEscapes ==
  /\ FinallyMaintain("down")
  /\ Event
  /\ SetStatus("maintenance_start")
  /\ UNCHANGED tempErrors

NoJob ==
  /\ Goto("gotnone", "idle")
  /\ ~ControlNeeded
  /\ SetStatus("job_no")
  /\ UNCHANGED <<back, flag, wanted, due, aptDue, tempErrors, changed,
                 verdict, maintained, forgotten, events>>

(* reboot_if_uptime_exceeded()                                             *)
UptimeExceeded ==
  /\ Goto("idle", "rebooting")
  /\ back' = "idle"
  /\ SetStatus("reboot")
  /\ UNCHANGED <<flag, wanted, due, aptDue, tempErrors, changed, verdict,
                 maintained, forgotten, events>>

(* Suspend the machine if so configured, then sleep.                       *)
IdleSleptOff ==
  /\ Goto("idle", "top")
  /\ UNCHANGED <<back, flag, wanted, fresh, due, aptDue, last, tempErrors,
                 changed, verdict, maintained, forgotten, events>>

-----------------------------------------------------------------------------
(* Time runs out: of the last control measurement, of the last maintenance *)
(* or of the last apt update.                                              *)
Elapse ==
  /\ \/ fresh /\ fresh' = FALSE /\ UNCHANGED <<due, aptDue>>
     \/ pc # "down" /\ ~due /\ due' = TRUE /\ UNCHANGED <<fresh, aptDue>>
     \/ ~aptDue /\ aptDue' = TRUE /\ UNCHANGED <<fresh, due>>
  /\ UNCHANGED <<pc, back, flag, wanted, last, tempErrors, changed, verdict,
                 maintained, forgotten, events>>

(* What a client that dies takes with it: that packages changed, or that a *)
(* control measurement still has to be judged or was found wanting. It     *)
(* does no harm when another control measurement is due in any case.       *)
Forgets(c) ==
  IF flag \/ ~fresh THEN {}
  ELSE {x \in {"update", "verdict"} :
          \/ x = "update" /\ c /\ pc \in {"maintaining", "failed", "flagging"}
          \/ x = "verdict" /\ pc \in {"judging", "condemned"}}

(* The process or the machine dies. A maintenance script that is under way *)
(* may complete its upgrade nevertheless.                                  *)
Die ==
  /\ pc # "down"
  /\ Event
  /\ pc' = "down"
  /\ \/ UNCHANGED <<aptDue, changed>>
     \/ pc = "maintaining" /\ aptDue /\ aptDue' = FALSE /\ changed' = TRUE
  /\ maintained' = (maintained /\ pc # "job")
  /\ forgotten' = forgotten \cup Forgets(changed')
  /\ UNCHANGED <<back, flag, wanted, fresh, due, last, tempErrors, verdict>>

-----------------------------------------------------------------------------
Maintenance ==
  \/ MaintenanceUneventful
  \/ PackagesUpdated
  \/ MaintenanceFails
  \/ MaintenanceFailureSleptOff
  \/ FlagForRevalidation
  \/ Reboots
  \/ RebootIgnored

Control ==
  \/ StartControl
  \/ ControlFails
  \/ ControlCompletes
  \/ ControlPasses
  \/ ControlCondemns
  \/ CondemnationSleptOff
  \/ ClearFlag

Job ==
  \/ StartJob
  \/ JobEnds
  \/ TemperatureRetry
  \/ TemperatureGivesUp
  \/ JobError
  \/ JobEscapes

Idle == NoJob \/ UptimeExceeded \/ IdleSleptOff

Client ==
  \/ Start
  \/ ForcedMaintenance
  \/ Maintenance
  \/ Poll
  \/ BusySleptOff
  \/ Control
  \/ Job
  \/ Idle

Next == Client \/ Elapse \/ Die

Spec == Init /\ [][Next]_vars

(* The client runs: systemd restarts it, every sleep and every subprocess  *)
(* ends. No particular outcome is owed.                                    *)
LiveSpec == Spec /\ WF_vars(Client)

-----------------------------------------------------------------------------
CountersOK ==
  /\ tempErrors \in 0 .. TempLimit
  /\ events \in 0 .. MaxEvents

TypeOK ==
  /\ pc \in PCs
  /\ back \in {"top", "polling", "down", "idle"}
  /\ flag \in BOOLEAN /\ wanted \in BOOLEAN /\ fresh \in BOOLEAN
  /\ due \in BOOLEAN /\ aptDue \in BOOLEAN
  /\ last \in Statuses \cup {"none"}
  /\ changed \in BOOLEAN
  /\ verdict \in {"none", "pending", "ok", "bad"}
  /\ maintained \in BOOLEAN
  /\ forgotten \subseteq {"update", "verdict"}
  /\ CountersOK

(* "must run validation workload again. New packages installed": a job     *)
(* never runs on packages no control workload has run on, through failed   *)
(* upgrades, ignored reboots and restarts, unless the client died between  *)
(* the upgrade and the UPDATE that remembers it.                           *)
JobOnRevalidatedMachine ==
  pc = "job" /\ changed => "update" \in forgotten

(* A job runs only on a machine whose last control measurement was found   *)
(* in order, unless the client died before it had judged the measurement   *)
(* or while it was sitting out a bad one.                                  *)
JobOnValidatedMachine ==
  pc = "job" /\ verdict # "ok" => "verdict" \in forgotten

(* "run periodic maintenance between every run": also after a client that  *)
(* died during the run or during that maintenance.                         *)
MaintenanceBetweenJobs == pc = "job" => maintained

(* What a job may rely on, whatever failed or died before it: the packages *)
(* it runs on were measured, that measurement was good, and the machine    *)
(* was maintained.                                                         *)
JobOnSoundMachine ==
  JobOnRevalidatedMachine /\ JobOnValidatedMachine /\ MaintenanceBetweenJobs

(* A machine flagged for revalidation is measured and the flag cleared,    *)
(* unless the client finds a job of its machine running already.           *)
RevalidationComes == flag ~> ~flag \/ pc = "busy"

=============================================================================
