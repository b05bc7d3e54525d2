------------------------------ MODULE JobQueue ------------------------------
(***************************************************************************)
(* The jobs table of the Green Metrics Tool and the processes that work on *)
(* it: lib/job/base.py, lib/job/run.py, lib/job/email*.py, the job branch  *)
(* of the cluster client cron/client.py, the one-off worker cron/jobs.py   *)
(* and the cancel handler PUT /v1/job of api/scenario_runner.py.           *)
(*                                                                         *)
(* The table lives in PostgreSQL and every statement commits on its own    *)
(* (lib/db.py), so each statement is one atomic step and everything else   *)
(* interleaves between them: a worker reads a job, checks whether another  *)
(* one is running, marks it RUNNING, works, and writes the outcome, and no *)
(* lock or WHERE clause on the state protects any two of these steps.      *)
(***************************************************************************)
EXTENDS Naturals

CONSTANTS
  Jobs,          (* ids of the identity column, in created_at order       *)
  Lanes,         (* what check_job_running() excludes on: a type, and for *)
                 (* type 'run' a machine as well                          *)
  RunLanes,      (* the lanes of type 'run', one per machine              *)
  SimpleLane,    (* type 'email-simple'                                   *)
  ReportLane,    (* type 'email-report'                                   *)
  Workers,       (* processes that call get_job() and process()           *)
  Clients,       (* those that are cron/client.py; the rest are jobs.py   *)
  LaneOf,        (* the lane a worker polls                               *)
  Fifo,          (* jobs_processing: FALSE is 'random'                    *)
  MaxFaults,     (* bound: process deaths and database outages            *)
  MaxSoftFails   (* bound: ConfigurationCheckErrors                       *)

ASSUME JobsAssumption == Jobs \subseteq Nat \ {0}

ASSUME LanesAssumption ==
  /\ RunLanes \subseteq Lanes
  /\ {SimpleLane, ReportLane} \subseteq Lanes \ RunLanes
  /\ SimpleLane # ReportLane

ASSUME WorkersAssumption ==
  /\ LaneOf \in [Workers -> Lanes]
  /\ Clients \subseteq {w \in Workers : LaneOf[w] \in RunLanes}

ASSUME BoundsAssumption ==
  /\ Fifo \in BOOLEAN
  /\ MaxFaults \in Nat
  /\ MaxSoftFails \in Nat

NoJob == 0

VARIABLES
  rows,        (* the jobs table                                          *)
  cancelling,  (* jobs a PUT /v1/job request has read and not yet written *)
  pc,          (* where each worker is                                    *)
  job,         (* the job object each worker holds, or NoJob              *)
  hasRun,      (* jobs a row of the runs table points to                  *)
  sent,        (* e-mail jobs whose message was handed to the mail server *)
  reports,     (* jobs an e-mail report was queued for                    *)
  orphaned,    (* history: rows left RUNNING by a worker that gave up     *)
  faults,      (* history: faults so far, for the bound                   *)
  softFails    (* history: soft failures so far, for the bound            *)

vars == <<rows, cancelling, pc, job, hasRun, sent, reports, orphaned,
          faults, softFails>>

history == <<orphaned, faults, softFails>>

-----------------------------------------------------------------------------
(* job_state of docker/tables.sql. PAUSED is never written. NONE is an id  *)
(* not handed out yet, DELETED a row clear_old_jobs() removed.             *)

Terminal  == {"FINISHED", "FAILED", "CANCELLED"}
RowStates == {"NONE", "WAITING", "RUNNING", "DELETED"} \cup Terminal

Row == [state : RowStates, lane : Lanes, email : BOOLEAN]

PCs == {"idle", "fetched", "ready", "checked", "executing", "measuring",
        "reporting", "wrapup", "finishing", "requeueing", "failing",
        "refusing", "notifying"}

(* From the UPDATE to RUNNING to the UPDATE of the outcome.                *)
Executing == {"executing", "measuring", "reporting", "wrapup", "finishing",
              "requeueing", "failing"}

(* Inside ScenarioRunner.run() or after it, with the runs row inserted.    *)
Measuring == {"measuring", "reporting", "wrapup"}

State(j)   == rows[j].state
Holds(w,j) == pc[w] # "idle" /\ job[w] = j
Held(j)    == \E w \in Workers : Holds(w, j)

(* Ended, and neither a worker nor a cancel request has it in hand.        *)
Over(j) == State(j) \in Terminal /\ ~Held(j) /\ j \notin cancelling

(* Mutant: the type or machine of the query never matches.                 *)
RunningNowhere(l) == {j \in Jobs : State(j) = "RUNNING" /\ rows[j].lane \notin Lanes}

(* The rows check_job_running() looks for.                                 *)
Running(l) == {j \in Jobs : State(j) = "RUNNING" /\ rows[j].lane = l}

(* The rows get_job() can select for a lane.                               *)
Waiting(l) == {j \in Jobs : State(j) = "WAITING" /\ rows[j].lane = l}

(* Mutant: ORDER BY created_at DESC.                                       *)
LastInLane(l, j) ==
  /\ j \in Waiting(l)
  /\ Fifo => \A i \in Waiting(l) : j >= i

(* ORDER BY created_at ASC LIMIT 1, or ORDER BY RANDOM() LIMIT 1.          *)
NextInLane(l, j) ==
  /\ j \in Waiting(l)
  /\ Fifo => \A i \in Waiting(l) : j <= i

(* UPDATE jobs SET state = s WHERE id = j: whatever the row says now.      *)
UpdateState(j, s) == rows' = [rows EXCEPT ![j].state = s]

FreeId(j) ==
  /\ State(j) = "NONE"
  /\ \A i \in Jobs : i < j => State(i) # "NONE"

(* INSERT INTO jobs ... 'WAITING'. A row beyond the last id of Jobs is not *)
(* tracked.                                                                *)
InsertRow(l, e) ==
  \/ \E j \in Jobs :
       /\ FreeId(j)
       /\ rows' = [rows EXCEPT ![j] = [state |-> "WAITING", lane |-> l, email |-> e]]
  \/ /\ \A j \in Jobs : State(j) # "NONE"
     /\ UNCHANGED rows

Goto(w, from, to) ==
  /\ pc[w] = from
  /\ pc' = [pc EXCEPT ![w] = to]

-----------------------------------------------------------------------------
Init ==
  /\ rows = [j \in Jobs |-> [state |-> "NONE", lane |-> SimpleLane, email |-> FALSE]]
  /\ cancelling = {}
  /\ pc = [w \in Workers |-> "idle"]
  /\ job = [w \in Workers |-> NoJob]
  /\ hasRun = {}
  /\ sent = {}
  /\ reports = {}
  /\ orphaned = {}
  /\ faults = 0
  /\ softFails = 0

-----------------------------------------------------------------------------
(* The API and the scheduler.                                              *)

(* runs_add and cron/watchlist.py insert run jobs with or without an       *)
(* e-mail address; runs_add and the client's control measurement insert    *)
(* e-mail notifications of their own.                                      *)
Submit ==
  /\ \E j \in Jobs : FreeId(j)
  /\ \/ \E l \in RunLanes, e \in BOOLEAN : InsertRow(l, e)
     \/ InsertRow(SimpleLane, TRUE)
  /\ UNCHANGED <<cancelling, pc, job, hasRun, sent, reports, history>>

(* Mutant: only a running job is refused.                                  *)
CancelReadUnlessRunning(j) ==
  /\ State(j) \notin {"NONE", "RUNNING", "DELETED"}
  /\ rows[j].lane \in RunLanes
  /\ cancelling' = cancelling \cup {j}
  /\ UNCHANGED <<rows, pc, job, hasRun, sent, reports, history>>

(* PUT /v1/job reads the state and refuses anything but WAITING ...        *)
CancelRead(j) ==
  /\ State(j) = "WAITING"
  /\ rows[j].lane \in RunLanes
  /\ cancelling' = cancelling \cup {j}
  /\ UNCHANGED <<rows, pc, job, hasRun, sent, reports, history>>

(* ... and a statement later cancels the row without looking again.        *)
CancelWrite(j) ==
  /\ j \in cancelling
  /\ UpdateState(j, "CANCELLED")
  /\ cancelling' = cancelling \ {j}
  /\ UNCHANGED <<pc, job, hasRun, sent, reports, history>>

-----------------------------------------------------------------------------
(* A worker up to the point where it starts to work.                       *)

(* Rows of clear_old_jobs(): ended more than 14 days ago. A job runs for a *)
(* day at most, so such a row is in nobody's hands.                        *)
Purgeable == {j \in Jobs : Over(j)}

Purged(D) == [j \in Jobs |-> IF j \in D THEN [rows[j] EXCEPT !.state = "DELETED"]
                                        ELSE rows[j]]

(* runs.job_id is ON DELETE SET NULL; the other two speak of rows that are *)
(* there no more.                                                          *)
Forget(D) ==
  /\ hasRun' = hasRun \ D
  /\ sent' = sent \ D
  /\ reports' = reports \ D

(* client.py looks at its lane once more before process(), jobs.py calls   *)
(* it at once.                                                             *)
Fetched(w) == IF w \in Clients THEN "fetched" ELSE "ready"

(* get_job(): clear_old_jobs(), then the SELECT of one waiting row of the  *)
(* worker's type (and machine). The two statements touch different rows.   *)
GetJob(w) ==
  /\ pc[w] = "idle"
  /\ \E D \in SUBSET Purgeable : rows' = Purged(D) /\ Forget(D)
  /\ \/ /\ \A j \in Jobs : ~NextInLane(LaneOf[w], j)
        /\ UNCHANGED <<pc, job>>
     \/ \E j \in Jobs :
          /\ NextInLane(LaneOf[w], j)
          /\ job' = [job EXCEPT ![w] = j]
          /\ pc' = [pc EXCEPT ![w] = Fetched(w)]
  /\ UNCHANGED <<cancelling, history>>

(* client.py drops the job and polls again when one is running already ... *)
ClientSkip(w) ==
  /\ Goto(w, "fetched", "idle")
  /\ Running(LaneOf[w]) # {}
  /\ job' = [job EXCEPT ![w] = NoJob]
  /\ UNCHANGED <<rows, cancelling, hasRun, sent, reports, history>>

(* ... or when a control measurement is due first ...                      *)
ClientRevalidate(w) ==
  /\ Goto(w, "fetched", "idle")
  /\ Running(LaneOf[w]) = {}
  /\ job' = [job EXCEPT ![w] = NoJob]
  /\ UNCHANGED <<rows, cancelling, hasRun, sent, reports, history>>

(* ... and else calls process().                                           *)
ClientProceed(w) ==
  /\ Goto(w, "fetched", "ready")
  /\ Running(LaneOf[w]) = {}
  /\ UNCHANGED <<rows, cancelling, job, hasRun, sent, reports, history>>

(* process(): the job read is WAITING, so the first check never fires; the *)
(* second, check_job_running(), raises if it sees a running row.           *)
CheckJobRunning(w) ==
  /\ pc[w] = "ready"
  /\ pc' = [pc EXCEPT ![w] = IF Running(LaneOf[w]) = {} THEN "checked" ELSE "refusing"]
  /\ UNCHANGED <<rows, cancelling, job, hasRun, sent, reports, history>>

SetRunning(w) ==
  /\ Goto(w, "checked", "executing")
  /\ UpdateState(job[w], "RUNNING")
  /\ UNCHANGED <<cancelling, job, hasRun, sent, reports, history>>

-----------------------------------------------------------------------------
(* _process() of the e-mail types.                                         *)

(* The session may still fail after the message was accepted.              *)
SendMail(w) ==
  /\ LaneOf[w] \notin RunLanes
  /\ Goto(w, "executing", "finishing") \/ Goto(w, "executing", "failing")
  /\ sent' = sent \cup {job[w]}
  /\ UNCHANGED <<rows, cancelling, job, hasRun, reports, history>>

(* _process() of type 'run'.                                               *)

(* Mutant: runs.job_id is not UNIQUE.                                      *)
InitializeAnotherRun(w) ==
  /\ LaneOf[w] \in RunLanes
  /\ Goto(w, "executing", "measuring")
  /\ hasRun' = hasRun \cup {job[w]}
  /\ UNCHANGED <<rows, cancelling, job, sent, reports, history>>

(* _initialize_run() inserts the runs row; runs.job_id is UNIQUE, so the   *)
(* INSERT of a job that has one already raises.                            *)
InitializeRun(w) ==
  /\ LaneOf[w] \in RunLanes
  /\ pc[w] = "executing"
  /\ pc' = [pc EXCEPT ![w] = IF job[w] \in hasRun THEN "failing" ELSE "measuring"]
  /\ hasRun' = hasRun \cup {job[w]}
  /\ UNCHANGED <<rows, cancelling, job, sent, reports, history>>

(* A system check refuses the machine: _check_system('start') before the   *)
(* runs row is inserted, _check_system('end') after the measurement.       *)
SoftFail(w) ==
  /\ LaneOf[w] \in RunLanes
  /\ pc[w] \in {"executing", "measuring"}
  /\ softFails < MaxSoftFails
  /\ pc' = [pc EXCEPT ![w] = "requeueing"]
  /\ softFails' = softFails + 1
  /\ UNCHANGED <<rows, cancelling, job, hasRun, sent, reports,
                 orphaned, faults>>

RunCompletes(w) ==
  /\ Goto(w, "measuring", "reporting")
  /\ UNCHANGED <<rows, cancelling, job, hasRun, sent, reports, history>>

(* The e-mail report is queued before the clean-up of the finally block    *)
(* and before the job is FINISHED.                                         *)
QueueReport(w) ==
  /\ Goto(w, "reporting", "wrapup")
  /\ IF rows[job[w]].email
       THEN /\ InsertRow(ReportLane, TRUE)
            /\ reports' = reports \cup {job[w]}
       ELSE UNCHANGED <<rows, reports>>
  /\ UNCHANGED <<cancelling, job, hasRun, sent, history>>

(* finally: empty the tmp folder, deduct the measurement quota.            *)
WrapUp(w) ==
  /\ Goto(w, "wrapup", "finishing")
  /\ UNCHANGED <<rows, cancelling, job, hasRun, sent, reports, history>>

(* Anything _process() does may raise: no permission or quota, a failing   *)
(* scenario, the mail server, a reporter, the clean-up, Ctrl-C.            *)
Raise(w) ==
  /\ pc[w] \in {"executing", "measuring", "reporting", "wrapup"}
  /\ pc' = [pc EXCEPT ![w] = "failing"]
  /\ UNCHANGED <<rows, cancelling, job, hasRun, sent, reports, history>>

-----------------------------------------------------------------------------
(* The outcome.                                                            *)

SetFinished(w) ==
  /\ Goto(w, "finishing", "idle")
  /\ UpdateState(job[w], "FINISHED")
  /\ job' = [job EXCEPT ![w] = NoJob]
  /\ UNCHANGED <<cancelling, hasRun, sent, reports, history>>

(* except ConfigurationCheckError: back to WAITING, and no notice.         *)
SetWaiting(w) ==
  /\ Goto(w, "requeueing", "idle")
  /\ UpdateState(job[w], "WAITING")
  /\ job' = [job EXCEPT ![w] = NoJob]
  /\ UNCHANGED <<cancelling, hasRun, sent, reports, history>>

(* Mutant: a failed job is put back for another try.                       *)
SetFailedRetries(w) ==
  /\ Goto(w, "failing", "notifying") \/ Goto(w, "refusing", "notifying")
  /\ UpdateState(job[w], "WAITING")
  /\ UNCHANGED <<cancelling, job, hasRun, sent, reports, history>>

(* Mutant: the except clause re-raises without an UPDATE.                  *)
SetFailedForgotten(w) ==
  /\ Goto(w, "failing", "notifying") \/ Goto(w, "refusing", "notifying")
  /\ UNCHANGED <<rows, cancelling, job, hasRun, sent, reports, history>>

(* except BaseException: after the job was started, or when the checks of  *)
(* process() refused to start it.                                          *)
SetFailed(w) ==
  /\ Goto(w, "failing", "notifying") \/ Goto(w, "refusing", "notifying")
  /\ UpdateState(job[w], "FAILED")
  /\ UNCHANGED <<cancelling, job, hasRun, sent, reports, history>>

(* An e-mail about the failure is queued for the requester, if any.        *)
FailureNotice(w) ==
  IF rows[job[w]].email THEN InsertRow(SimpleLane, TRUE) ELSE UNCHANGED rows

(* The except block of the caller, client.py or jobs.py. Ctrl-C ends the   *)
(* process instead: Die at "notifying".                                    *)
NotifyFailure(w) ==
  /\ Goto(w, "notifying", "idle")
  /\ FailureNotice(w)
  /\ job' = [job EXCEPT ![w] = NoJob]
  /\ UNCHANGED <<cancelling, hasRun, sent, reports, history>>

-----------------------------------------------------------------------------
(* Faults.                                                                 *)

LeftRunning(w) == {j \in {job[w]} : State(j) = "RUNNING"}

(* The process is killed or the machine loses power; it is started again   *)
(* by systemd or cron and knows nothing of the job it held.                *)
Die(w) ==
  /\ pc[w] # "idle"
  /\ faults < MaxFaults
  /\ faults' = faults + 1
  /\ orphaned' = orphaned \cup (IF pc[w] \in Executing THEN LeftRunning(w) ELSE {})
  /\ pc' = [pc EXCEPT ![w] = "idle"]
  /\ job' = [job EXCEPT ![w] = NoJob]
  /\ UNCHANGED <<rows, cancelling, hasRun, sent, reports, softFails>>

(* The database stays away longer than with_db_retry waits (300 s), and no *)
(* UPDATE has gone through. Inside the try block the error lands in the    *)
(* except clause that writes FAILED; raised by the UPDATE of an except     *)
(* clause it leaves process().                                             *)
DatabaseGivesUp(w) ==
  /\ faults < MaxFaults
  /\ faults' = faults + 1
  /\ \/ /\ Goto(w, "ready", "refusing") \/ Goto(w, "checked", "refusing")
        /\ UNCHANGED orphaned
     \/ /\ Goto(w, "finishing", "failing")
        /\ UNCHANGED orphaned
     \/ /\ Goto(w, "refusing", "notifying")
        /\ UNCHANGED orphaned
     \/ /\ Goto(w, "requeueing", "notifying") \/ Goto(w, "failing", "notifying")
        /\ orphaned' = orphaned \cup LeftRunning(w)
  /\ UNCHANGED <<rows, cancelling, job, hasRun, sent, reports, softFails>>

(* The same, but an UPDATE has gone through: its COMMIT was not answered   *)
(* before the database went away. To RUNNING this is SetRunning and Raise, *)
(* and to FAILED it is SetFailed.                                          *)
AnswerIsLost(w) ==
  /\ faults < MaxFaults
  /\ faults' = faults + 1
  /\ \/ Goto(w, "finishing", "failing") /\ UpdateState(job[w], "FINISHED")
     \/ Goto(w, "requeueing", "notifying") /\ UpdateState(job[w], "WAITING")
  /\ UNCHANGED <<cancelling, job, hasRun, sent, reports, orphaned, softFails>>

-----------------------------------------------------------------------------
Outcome(w) ==
  SetFinished(w) \/ SetWaiting(w) \/ SetFailed(w) \/ NotifyFailure(w)

Work(w) ==
  \/ SendMail(w)
  \/ InitializeRun(w)
  \/ SoftFail(w)
  \/ RunCompletes(w)
  \/ QueueReport(w)
  \/ WrapUp(w)
  \/ Raise(w)

Next ==
  \/ Submit
  \/ \E j \in Jobs : CancelRead(j) \/ CancelWrite(j)
  \/ \E w \in Workers :
       \/ GetJob(w)
       \/ ClientSkip(w) \/ ClientRevalidate(w) \/ ClientProceed(w)
       \/ CheckJobRunning(w)
       \/ SetRunning(w)
       \/ Work(w)
       \/ Outcome(w)
       \/ Die(w)
       \/ DatabaseGivesUp(w)
       \/ AnswerIsLost(w)

Spec == Init /\ [][Next]_vars

(* The workers keep going: both loops come back to get_job() and every     *)
(* step up to the outcome is straight-line code. Strong fairness on the    *)
(* client's decision to process: a control measurement is due only after   *)
(* time_between_control_workload_validations, so it cannot push the job    *)
(* back every time round. Submit, cancel and the faults are never owed.    *)
Fairness ==
  \A w \in Workers :
    /\ WF_vars(GetJob(w))
    /\ WF_vars(ClientSkip(w))
    /\ SF_vars(ClientProceed(w))
    /\ WF_vars(CheckJobRunning(w))
    /\ WF_vars(SetRunning(w))
    /\ WF_vars(Work(w))
    /\ WF_vars(Outcome(w))

LiveSpec == Spec /\ Fairness

-----------------------------------------------------------------------------
TypeOK ==
  /\ rows \in [Jobs -> Row]
  /\ cancelling \subseteq Jobs
  /\ pc \in [Workers -> PCs]
  /\ job \in [Workers -> Jobs \cup {NoJob}]
  /\ \A w \in Workers : pc[w] = "idle" <=> job[w] = NoJob
  /\ hasRun \subseteq Jobs
  /\ sent \subseteq Jobs
  /\ reports \subseteq Jobs
  /\ orphaned \subseteq Jobs
  /\ faults \in 0 .. MaxFaults
  /\ softFails \in 0 .. MaxSoftFails

(* A row is RUNNING only while a worker that will write its outcome holds  *)
(* it, or after such a worker died or lost the database for good: no       *)
(* exception of _process() and no second worker leaves a RUNNING row       *)
(* behind (the comment in base.py on BaseException).                       *)
RunningHasOwner ==
  \A j \in Jobs : State(j) = "RUNNING" =>
    \/ j \in orphaned
    \/ \E w \in Workers : pc[w] \in Executing /\ job[w] = j

(* At most one row of a lane is RUNNING, crashes, cancellations and        *)
(* outages included, as long as each lane has one worker.                  *)
LaneExclusive ==
  \A i, j \in Jobs :
    State(i) = "RUNNING" /\ State(j) = "RUNNING" /\ rows[i].lane = rows[j].lane => i = j

(* No two workers measure for the same job, whatever both believed when    *)
(* they read it: the second stumbles over the UNIQUE runs.job_id.          *)
SingleMeasurement ==
  \A v, w \in Workers :
    pc[v] \in Measuring /\ pc[w] \in Measuring /\ job[v] = job[w] => v = w

(* An e-mail is handed to the mail server at most once per job when each   *)
(* type has one worker: who is about to send finds it unsent, after every  *)
(* crash and outage.                                                       *)
MailSentOnce ==
  \A w \in Workers :
    pc[w] = "executing" /\ LaneOf[w] \notin RunLanes => job[w] \notin sent

(* What FINISHED means: a run job was measured and its requester's report  *)
(* is queued; an e-mail was handed to the mail server.                     *)
FinishedIsDone ==
  \A j \in Jobs : State(j) = "FINISHED" =>
    IF rows[j].lane \in RunLanes
      THEN j \in hasRun /\ (rows[j].email => j \in reports)
      ELSE j \in sent

(* With 'fifo' and one worker per lane, a job that is being executed has   *)
(* not overtaken an older one of its lane that waits, re-queued jobs       *)
(* included.                                                               *)
NoOvertaking ==
  Fifo => \A w \in Workers : \A i \in Jobs :
    pc[w] \in Executing /\ i < job[w] /\ rows[i].lane = LaneOf[w]
      => State(i) # "WAITING"

(* A job that has ended and is in nobody's hands stays out of reach and    *)
(* keeps its outcome until it is deleted: it is not re-run, revived or     *)
(* relabelled.                                                             *)
EndedStaysEnded ==
  [][\A j \in Jobs : Over(j) =>
       \/ State(j)' = "DELETED"
       \/ Over(j)' /\ State(j)' = State(j)]_vars

(* Every waiting job somebody polls for ends up finished, failed or        *)
(* cancelled, unless its lane is blocked by a RUNNING row whose worker is  *)
(* gone: nothing but a crash or an outage starves a job.                   *)
Blocked(l) == \E j \in orphaned : State(j) = "RUNNING" /\ rows[j].lane = l

EveryJobEnds ==
  \A j \in Jobs :
    State(j) = "WAITING" /\ (\E w \in Workers : LaneOf[w] = rows[j].lane) ~>
      State(j) \in Terminal \cup {"DELETED"} \/ Blocked(rows[j].lane)

-----------------------------------------------------------------------------
(* The lane as a server. Executing is what a worker does from the UPDATE   *)
(* to RUNNING to the UPDATE of the outcome, even if a late cancellation    *)
(* relabels the row meanwhile; a worker that holds the job object without  *)
(* executing it has claimed it.                                            *)
Phase(j) ==
  IF \E w \in Workers : job[w] = j /\ pc[w] \in Executing THEN "executing"
  ELSE CASE State(j) = "NONE"    -> "absent"
         [] State(j) = "RUNNING" -> "stuck"
         [] /\ State(j) \notin {"NONE", "RUNNING"}
            /\ \E w \in Workers : job[w] = j /\ pc[w] # "notifying" -> "claimed"
         [] OTHER -> IF State(j) = "WAITING" THEN "queued" ELSE "over"

Server == INSTANCE JobLane WITH
  phase  <- [j \in Jobs |-> Phase(j)],
  laneOf <- [j \in Jobs |-> rows[j].lane]

(* With one worker per lane the table and its workers implement JobLane.   *)
ImplementsJobLane == Server!Spec

-----------------------------------------------------------------------------
(* What the sources say and the code does not do. TLC refutes each of them *)
(* on the constants of JobQueue_overlap.cfg, the first, second and last    *)
(* one with a single worker, too.                                          *)

(* "already running and cannot be cancelled anymore"                       *)
RunningIsNotCancelled ==
  [][\A j \in Jobs : State(j) = "RUNNING" => rows'[j].state # "CANCELLED"]_vars

(* "set back to waiting, as not the run itself has failed": no measurement *)
(* has been made of a job that is put back.                                *)
RequeuedIsUnmeasured ==
  [][\A j \in Jobs :
       State(j) = "RUNNING" /\ rows'[j].state = "WAITING" => j \notin hasRun]_vars

(* "insert a job in the 'WAITING' state and then push it through the       *)
(* states 'RUNNING', 'FAILED/FINISHED'": a job fails after it ran, not     *)
(* because another one of its lane was running.                            *)
FailsOnlyWhenRun ==
  [][\A j \in Jobs : State(j) = "WAITING" => rows'[j].state # "FAILED"]_vars

(* "successfully processed" is not mailed about a job the requester is then *)
(* told has failed.                                                        *)
NoContradictingMail ==
  \A w \in Workers : pc[w] = "notifying" => job[w] \notin reports

=============================================================================
