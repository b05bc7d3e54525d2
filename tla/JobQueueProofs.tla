--------------------------- MODULE JobQueueProofs ---------------------------
(***************************************************************************)
(* Proofs about JobQueue for any number of jobs, lanes and workers and any *)
(* bounds. What a statement does to the table comes first, as lemmas about *)
(* UpdateState, InsertRow and Purged; the invariants follow, each a step   *)
(* per action.                                                             *)
(***************************************************************************)
EXTENDS JobQueue, TLAPS

-----------------------------------------------------------------------------
(* An UPDATE changes the state of one row and nothing else.                *)
LEMMA UpdateLemma ==
  ASSUME rows \in [Jobs -> Row],
         NEW j \in Jobs, NEW s \in RowStates,
         UpdateState(j, s)
  PROVE  /\ rows' \in [Jobs -> Row]
         /\ rows'[j].state = s
         /\ \A i \in Jobs \ {j} : rows'[i] = rows[i]
         /\ \A i \in Jobs : rows'[i].lane = rows[i].lane /\ rows'[i].email = rows[i].email
  BY DEF UpdateState, Row

(* An INSERT makes a WAITING row of an id that was not handed out.         *)
LEMMA InsertLemma ==
  ASSUME rows \in [Jobs -> Row],
         NEW l \in Lanes, NEW e \in BOOLEAN,
         InsertRow(l, e)
  PROVE  /\ rows' \in [Jobs -> Row]
         /\ \A i \in Jobs :
              \/ rows'[i] = rows[i]
              \/ rows[i].state = "NONE" /\ rows'[i].state = "WAITING"
<1>1. CASE UNCHANGED rows
  BY <1>1
<1>2. ASSUME NEW j \in Jobs, FreeId(j),
             rows' = [rows EXCEPT ![j] = [state |-> "WAITING", lane |-> l, email |-> e]]
      PROVE  /\ rows' \in [Jobs -> Row]
             /\ \A i \in Jobs :
                  \/ rows'[i] = rows[i]
                  \/ rows[i].state = "NONE" /\ rows'[i].state = "WAITING"
  BY <1>2 DEF Row, RowStates, FreeId, State
<1>. QED
  BY <1>1, <1>2 DEF InsertRow

(* clear_old_jobs() removes ended rows nobody holds and keeps the rest.    *)
LEMMA PurgeLemma ==
  ASSUME rows \in [Jobs -> Row],
         NEW D \in SUBSET Purgeable,
         rows' = Purged(D)
  PROVE  /\ rows' \in [Jobs -> Row]
         /\ \A i \in Jobs : /\ i \in D => Over(i) /\ rows'[i].state = "DELETED"
                            /\ i \notin D => rows'[i] = rows[i]
                            /\ rows'[i].lane = rows[i].lane
                            /\ rows'[i].email = rows[i].email
  BY DEF Purged, Purgeable, Row, RowStates, Terminal

-----------------------------------------------------------------------------
(* Type correctness.                                                       *)
LEMMA TypeInit == Init => TypeOK
  BY JobsAssumption, LanesAssumption, WorkersAssumption, BoundsAssumption
  DEF Init, TypeOK, Row, RowStates, PCs, NoJob

(* A worker that is not idle has a job of the table in hand.               *)
LEMMA HeldIsJob ==
  ASSUME TypeOK, NEW w \in Workers, pc[w] # "idle"
  PROVE  job[w] \in Jobs
  BY DEF TypeOK

(* Every step keeps the types of the table, the workers and the outbox.    *)
LEMMA TypeStep == TypeOK /\ [Next]_vars => TypeOK'
<1>. SUFFICES ASSUME TypeOK, [Next]_vars PROVE TypeOK'
  OBVIOUS
<1>. USE JobsAssumption, LanesAssumption, WorkersAssumption, BoundsAssumption
<1>1. CASE Submit
  <2>1. rows' \in [Jobs -> Row]
    BY <1>1, InsertLemma DEF Submit, TypeOK
  <2>. QED
    BY <1>1, <2>1 DEF Submit, TypeOK, history
<1>2. ASSUME NEW j \in Jobs, CancelRead(j)
      PROVE  TypeOK'
  BY <1>2 DEF CancelRead, TypeOK, history
<1>3. ASSUME NEW j \in Jobs, CancelWrite(j)
      PROVE  TypeOK'
  <2>1. rows' \in [Jobs -> Row]
    BY <1>3, UpdateLemma DEF CancelWrite, TypeOK, RowStates, Terminal
  <2>. QED
    BY <1>3, <2>1 DEF CancelWrite, TypeOK, history
<1>4. ASSUME NEW w \in Workers, GetJob(w)
      PROVE  TypeOK'
  <2>1. rows' \in [Jobs -> Row]
    BY <1>4, PurgeLemma DEF GetJob, Fetched, TypeOK
  <2>2. hasRun' \subseteq Jobs /\ sent' \subseteq Jobs /\ reports' \subseteq Jobs
    BY <1>4 DEF GetJob, Fetched, Forget, TypeOK
  <2>3. /\ pc' \in [Workers -> PCs]
        /\ job' \in [Workers -> Jobs \cup {NoJob}]
        /\ \A v \in Workers : pc'[v] = "idle" <=> job'[v] = NoJob
    BY <1>4 DEF GetJob, Fetched, TypeOK, PCs, NextInLane, Waiting, NoJob
  <2>. QED
    BY <1>4, <2>1, <2>2, <2>3 DEF GetJob, Fetched, TypeOK, history
<1>5. ASSUME NEW w \in Workers,
             ClientSkip(w) \/ ClientRevalidate(w) \/ ClientProceed(w) \/ CheckJobRunning(w)
      PROVE  TypeOK'
  BY <1>5 DEF ClientSkip, ClientRevalidate, ClientProceed, CheckJobRunning, Goto,
              TypeOK, PCs, NoJob, history
<1>6. ASSUME NEW w \in Workers, SetRunning(w)
      PROVE  TypeOK'
  <2>1. rows' \in [Jobs -> Row]
    BY <1>6, UpdateLemma, HeldIsJob DEF SetRunning, Goto, TypeOK, RowStates
  <2>. QED
    BY <1>6, <2>1 DEF SetRunning, Goto, TypeOK, PCs, history
<1>7. ASSUME NEW w \in Workers, Work(w)
      PROVE  TypeOK'
  <2>1. CASE QueueReport(w)
    <3>1. rows' \in [Jobs -> Row] /\ reports' \subseteq Jobs
      BY <2>1, InsertLemma, HeldIsJob DEF QueueReport, Goto, TypeOK
    <3>. QED
      BY <2>1, <3>1 DEF QueueReport, Goto, TypeOK, PCs, history
  <2>2. CASE SendMail(w) \/ InitializeRun(w)
    BY <2>2, HeldIsJob DEF SendMail, InitializeRun, Goto, TypeOK, PCs, history
  <2>3. CASE SoftFail(w)
    BY <2>3 DEF SoftFail, TypeOK, PCs
  <2>4. CASE RunCompletes(w) \/ WrapUp(w) \/ Raise(w)
    BY <2>4 DEF RunCompletes, WrapUp, Raise, Goto, TypeOK, PCs, history
  <2>. QED
    BY <1>7, <2>1, <2>2, <2>3, <2>4 DEF Work
<1>8. ASSUME NEW w \in Workers, SetFinished(w) \/ SetWaiting(w) \/ SetFailed(w) \/ AnswerIsLost(w)
      PROVE  TypeOK'
  <2>1. rows' \in [Jobs -> Row]
    BY <1>8, UpdateLemma, HeldIsJob
    DEF SetFinished, SetWaiting, SetFailed, AnswerIsLost, Goto, TypeOK, RowStates, Terminal
  <2>. QED
    BY <1>8, <2>1 DEF SetFinished, SetWaiting, SetFailed, AnswerIsLost, Goto, TypeOK, PCs,
                      NoJob, history
<1>9. ASSUME NEW w \in Workers, NotifyFailure(w)
      PROVE  TypeOK'
  <2>1. rows' \in [Jobs -> Row]
    BY <1>9, InsertLemma DEF NotifyFailure, FailureNotice, TypeOK
  <2>. QED
    BY <1>9, <2>1 DEF NotifyFailure,
              FailureNotice, Goto, TypeOK, PCs, NoJob, history
<1>10. ASSUME NEW w \in Workers, Die(w)
       PROVE  TypeOK'
  BY <1>10, HeldIsJob DEF Die, LeftRunning, TypeOK, PCs, NoJob
<1>11. ASSUME NEW w \in Workers, DatabaseGivesUp(w)
       PROVE  TypeOK'
  <2>1. orphaned' \subseteq Jobs
    BY <1>11, HeldIsJob DEF DatabaseGivesUp, LeftRunning, Goto, TypeOK
  <2>. QED
    BY <1>11, <2>1 DEF DatabaseGivesUp, Goto, TypeOK, PCs
<1>12. CASE UNCHANGED vars
  BY <1>12 DEF vars, TypeOK
<1>. QED
  BY <1>1, <1>2, <1>3, <1>4, <1>5, <1>6, <1>7, <1>8, <1>9, <1>10, <1>11, <1>12
  DEF Next, Outcome

(* Every reachable state is well-formed: a worker holds a job of the table *)
(* exactly while it is not idle, and the bounds are kept.                  *)
THEOREM TypeCorrect == Spec => []TypeOK
  BY TypeInit, TypeStep, PTL DEF Spec

-----------------------------------------------------------------------------
(* RUNNING rows have an owner. The invariant is inductive on well-formed   *)
(* states: who leaves Executing writes the row or is recorded.             *)
LEMMA OwnerStep == TypeOK /\ RunningHasOwner /\ [Next]_vars => RunningHasOwner'
<1>. SUFFICES ASSUME TypeOK, RunningHasOwner, [Next]_vars,
                     NEW j \in Jobs, rows'[j].state = "RUNNING"
              PROVE  \/ j \in orphaned'
                     \/ \E w \in Workers : pc'[w] \in Executing /\ job'[w] = j
  BY DEF RunningHasOwner, State
<1>. DEFINE Owned == \/ j \in orphaned
                     \/ \E w \in Workers : pc[w] \in Executing /\ job[w] = j
            Owned1 == \/ j \in orphaned'
                      \/ \E w \in Workers : pc'[w] \in Executing /\ job'[w] = j
<1>0. rows[j].state = "RUNNING" => Owned
  BY DEF RunningHasOwner, State
<1>1. CASE Submit
  <2>1. rows[j].state = "RUNNING"
    BY <1>1, InsertLemma, LanesAssumption DEF Submit, TypeOK
  <2>. QED
    BY <1>0, <1>1, <2>1 DEF Submit, history
<1>2. ASSUME NEW i \in Jobs, CancelRead(i)
      PROVE  Owned1
  BY <1>0, <1>2 DEF CancelRead, history
<1>3. ASSUME NEW i \in Jobs, CancelWrite(i)
      PROVE  Owned1
  <2>1. rows[j].state = "RUNNING"
    BY <1>3, UpdateLemma DEF CancelWrite, TypeOK, RowStates, Terminal
  <2>. QED
    BY <1>0, <1>3, <2>1 DEF CancelWrite, history
<1>4. ASSUME NEW w \in Workers, GetJob(w)
      PROVE  Owned1
  <2>1. rows[j].state = "RUNNING"
    BY <1>4, PurgeLemma DEF GetJob, Fetched, TypeOK
  <2>2. \A v \in Workers : pc[v] \in Executing => pc'[v] = pc[v] /\ job'[v] = job[v]
    BY <1>4 DEF GetJob, Fetched, TypeOK, Executing
  <2>. QED
    BY <1>0, <1>4, <2>1, <2>2 DEF GetJob, Fetched, history
<1>5. ASSUME NEW w \in Workers,
             ClientSkip(w) \/ ClientRevalidate(w) \/ ClientProceed(w) \/ CheckJobRunning(w)
      PROVE  Owned1
  <2>1. \A v \in Workers : pc[v] \in Executing => pc'[v] = pc[v] /\ job'[v] = job[v]
    BY <1>5 DEF ClientSkip, ClientRevalidate, ClientProceed, CheckJobRunning, Goto,
                TypeOK, Executing
  <2>. QED
    BY <1>0, <1>5, <2>1 DEF ClientSkip, ClientRevalidate, ClientProceed, CheckJobRunning,
                            history
<1>6. ASSUME NEW w \in Workers, SetRunning(w)
      PROVE  Owned1
  <2>1. pc'[w] \in Executing /\ job' = job /\ orphaned' = orphaned
    BY <1>6 DEF SetRunning, Goto, TypeOK, Executing, history
  <2>2. CASE j = job[w]
    BY <2>1, <2>2
  <2>3. CASE j # job[w]
    <3>1. rows[j].state = "RUNNING"
      BY <1>6, <2>3, UpdateLemma, HeldIsJob DEF SetRunning, Goto, TypeOK, RowStates
    <3>2. \A v \in Workers : pc[v] \in Executing => pc'[v] \in Executing
      BY <1>6 DEF SetRunning, Goto, TypeOK, Executing
    <3>. QED
      BY <1>0, <2>1, <3>1, <3>2
  <2>. QED
    BY <2>2, <2>3
<1>7. ASSUME NEW w \in Workers, Work(w)
      PROVE  Owned1
  <2>1. rows[j].state = "RUNNING"
    <3>1. CASE QueueReport(w)
      BY <3>1, InsertLemma, LanesAssumption DEF QueueReport, TypeOK
    <3>. QED
      BY <1>7, <3>1 DEF Work, SendMail, InitializeRun, SoftFail, RunCompletes, WrapUp, Raise
  <2>2. /\ \A v \in Workers : pc[v] \in Executing => pc'[v] \in Executing
        /\ job' = job
        /\ orphaned' = orphaned
    BY <1>7 DEF Work, SendMail, InitializeRun, SoftFail, RunCompletes, QueueReport, WrapUp,
                Raise, Goto, TypeOK, Executing, history
  <2>. QED
    BY <1>0, <2>1, <2>2
<1>8. ASSUME NEW w \in Workers, SetFinished(w) \/ SetWaiting(w) \/ SetFailed(w) \/ AnswerIsLost(w)
      PROVE  Owned1
  <2>1. rows[j].state = "RUNNING" /\ j # job[w]
    BY <1>8, UpdateLemma, HeldIsJob
    DEF SetFinished, SetWaiting, SetFailed, AnswerIsLost, Goto, TypeOK, RowStates, Terminal
  <2>2. /\ \A v \in Workers \ {w} : pc'[v] = pc[v] /\ job'[v] = job[v]
        /\ orphaned' = orphaned
    BY <1>8 DEF SetFinished, SetWaiting, SetFailed, AnswerIsLost, Goto, TypeOK, history
  <2>. QED
    BY <1>0, <2>1, <2>2
<1>9. ASSUME NEW w \in Workers, NotifyFailure(w)
      PROVE  Owned1
  <2>1. rows[j].state = "RUNNING"
    BY <1>9, InsertLemma, LanesAssumption DEF NotifyFailure, FailureNotice, TypeOK
  <2>2. /\ \A v \in Workers : pc[v] \in Executing => pc'[v] = pc[v] /\ job'[v] = job[v]
        /\ orphaned' = orphaned
    BY <1>9 DEF NotifyFailure,
              FailureNotice, Goto, TypeOK, Executing, history
  <2>. QED
    BY <1>0, <2>1, <2>2
<1>10. ASSUME NEW w \in Workers, Die(w)
       PROVE  Owned1
  <2>1. \A v \in Workers \ {w} : pc'[v] = pc[v] /\ job'[v] = job[v]
    BY <1>10 DEF Die, TypeOK
  <2>2. pc[w] \in Executing /\ job[w] = j => j \in orphaned'
    BY <1>10 DEF Die, LeftRunning, State
  <2>. QED
    BY <1>0, <1>10, <2>1, <2>2 DEF Die
<1>11. ASSUME NEW w \in Workers, DatabaseGivesUp(w)
       PROVE  Owned1
  <2>1. \A v \in Workers \ {w} : pc'[v] = pc[v] /\ job'[v] = job[v]
    BY <1>11 DEF DatabaseGivesUp, Goto, TypeOK
  <2>2. orphaned \subseteq orphaned' /\ job' = job
    BY <1>11 DEF DatabaseGivesUp
  <2>3. pc[w] \in Executing /\ job[w] = j => j \in orphaned' \/ pc'[w] \in Executing
    BY <1>11 DEF DatabaseGivesUp, LeftRunning, State, Goto, TypeOK, Executing
  <2>. QED
    BY <1>0, <1>11, <2>1, <2>2, <2>3 DEF DatabaseGivesUp
<1>12. CASE UNCHANGED vars
  BY <1>0, <1>12 DEF vars
<1>. QED
  BY <1>1, <1>2, <1>3, <1>4, <1>5, <1>6, <1>7, <1>8, <1>9, <1>10, <1>11, <1>12
  DEF Next, Outcome

(* A row is RUNNING only while somebody will still write its outcome, or   *)
(* after a death or a lost database was recorded: process() leaves no row  *)
(* behind by itself, with any number of workers on a lane.                 *)
THEOREM RunningRowsAreOwned == Spec => []RunningHasOwner
<1>1. Init => RunningHasOwner
  BY DEF Init, RunningHasOwner, State
<1>. QED
  BY <1>1, TypeCorrect, OwnerStep, PTL DEF Spec

-----------------------------------------------------------------------------
(* One measurement per job. What makes SingleMeasurement inductive is that *)
(* every measuring worker's job has its runs row, which the UNIQUE of      *)
(* runs.job_id then denies to the others.                                  *)
MeasuredHasRun == \A w \in Workers : pc[w] \in Measuring => job[w] \in hasRun

(* A worker reaches Measuring by InitializeRun only.                       *)
LEMMA MeasuringStep ==
  ASSUME TypeOK, [Next]_vars, NEW w \in Workers, pc'[w] \in Measuring
  PROVE  /\ job'[w] = job[w]
         /\ \/ pc[w] \in Measuring
            \/ InitializeRun(w) /\ job[w] \notin hasRun
<1>. DEFINE Goal == /\ job'[w] = job[w]
                    /\ \/ pc[w] \in Measuring
                       \/ InitializeRun(w) /\ job[w] \notin hasRun
<1>1. CASE Submit \/ \E j \in Jobs : CancelRead(j) \/ CancelWrite(j)
  BY <1>1 DEF Submit, CancelRead, CancelWrite
<1>2. ASSUME NEW v \in Workers, GetJob(v)
      PROVE  Goal
  BY <1>2 DEF GetJob, Fetched, TypeOK, Measuring
<1>3. ASSUME NEW v \in Workers,
             \/ ClientSkip(v) \/ ClientRevalidate(v) \/ ClientProceed(v)
             \/ CheckJobRunning(v) \/ SetRunning(v)
      PROVE  Goal
  BY <1>3 DEF ClientSkip, ClientRevalidate, ClientProceed, CheckJobRunning, SetRunning,
              Goto, TypeOK, Measuring
<1>4. ASSUME NEW v \in Workers, Work(v)
      PROVE  Goal
  <2>1. CASE InitializeRun(v)
    BY <2>1 DEF InitializeRun, TypeOK, Measuring
  <2>2. CASE ~InitializeRun(v)
    BY <1>4, <2>2 DEF Work, SendMail, SoftFail, RunCompletes, QueueReport, WrapUp, Raise,
                      Goto, TypeOK, Measuring
  <2>. QED
    BY <2>1, <2>2
<1>5. ASSUME NEW v \in Workers, Outcome(v)
      PROVE  Goal
  BY <1>5 DEF Outcome, SetFinished, SetWaiting, SetFailed, AnswerIsLost, NotifyFailure,
              FailureNotice, Goto, TypeOK, Measuring
<1>6. ASSUME NEW v \in Workers, Die(v) \/ DatabaseGivesUp(v) \/ AnswerIsLost(v)
      PROVE  Goal
  BY <1>6 DEF Die, DatabaseGivesUp, AnswerIsLost, Goto, TypeOK, Measuring
<1>7. CASE UNCHANGED vars
  BY <1>7 DEF vars
<1>. QED
  BY <1>1, <1>2, <1>3, <1>4, <1>5, <1>6, <1>7 DEF Next

(* The runs row of a job in somebody's hands stays, and so does what was   *)
(* mailed for it: clear_old_jobs() takes only jobs nobody holds.           *)
LEMMA KeptStep ==
  ASSUME TypeOK, [Next]_vars, NEW w \in Workers, pc[w] # "idle"
  PROVE  /\ job[w] \in hasRun => job[w] \in hasRun'
         /\ job[w] \in sent => job[w] \in sent'
         /\ job[w] \in reports => job[w] \in reports'
<1>. DEFINE Goal == /\ job[w] \in hasRun => job[w] \in hasRun'
                    /\ job[w] \in sent => job[w] \in sent'
                    /\ job[w] \in reports => job[w] \in reports'
<1>1. CASE Submit \/ \E j \in Jobs : CancelRead(j) \/ CancelWrite(j)
  BY <1>1 DEF Submit, CancelRead, CancelWrite
<1>2. ASSUME NEW v \in Workers, GetJob(v)
      PROVE  Goal
  BY <1>2 DEF GetJob, Fetched, Forget, Purgeable, Over, Held, Holds
<1>3. ASSUME NEW v \in Workers, ~GetJob(v),
             \/ ClientSkip(v) \/ ClientRevalidate(v) \/ ClientProceed(v)
             \/ CheckJobRunning(v) \/ SetRunning(v) \/ Work(v) \/ Outcome(v)
             \/ Die(v) \/ DatabaseGivesUp(v) \/ AnswerIsLost(v)
      PROVE  Goal
  BY <1>3 DEF ClientSkip, ClientRevalidate, ClientProceed, CheckJobRunning, SetRunning,
              Work, SendMail, InitializeRun, SoftFail, RunCompletes, QueueReport, WrapUp,
              Raise, Outcome, SetFinished, SetWaiting, SetFailed, AnswerIsLost, NotifyFailure,
              FailureNotice, Die, DatabaseGivesUp
<1>4. CASE UNCHANGED vars
  BY <1>4 DEF vars
<1>. QED
  BY <1>1, <1>2, <1>3, <1>4 DEF Next

(* A job that is measured is a run, and one worker's at a time: the row it *)
(* was looked up by is RUNNING by then.                                    *)
LEMMA MeasurementStep ==
  TypeOK /\ MeasuredHasRun /\ SingleMeasurement /\ [Next]_vars
    => MeasuredHasRun' /\ SingleMeasurement'
<1>. SUFFICES ASSUME TypeOK, MeasuredHasRun, SingleMeasurement, [Next]_vars
              PROVE  MeasuredHasRun' /\ SingleMeasurement'
  OBVIOUS
<1>1. ASSUME NEW w \in Workers, pc'[w] \in Measuring
      PROVE  job'[w] \in hasRun'
  <2>1. CASE pc[w] \in Measuring
    BY <1>1, <2>1, MeasuringStep, KeptStep DEF MeasuredHasRun, Measuring
  <2>2. CASE InitializeRun(w)
    BY <1>1, <2>2 DEF InitializeRun
  <2>. QED
    BY <1>1, <2>1, <2>2, MeasuringStep
<1>2. ASSUME NEW v \in Workers, NEW w \in Workers,
             pc'[v] \in Measuring, pc'[w] \in Measuring, job'[v] = job'[w]
      PROVE  v = w
  <2>1. job'[v] = job[v] /\ job'[w] = job[w]
    BY <1>2, MeasuringStep
  <2>2. ASSUME NEW x \in Workers, NEW y \in Workers, InitializeRun(x),
               job[x] \notin hasRun, pc'[y] \in Measuring, job[y] = job[x], x # y
        PROVE  FALSE
    <3>1. pc[y] \in Measuring
      BY <2>2 DEF InitializeRun, TypeOK
    <3>. QED
      BY <2>2, <3>1 DEF MeasuredHasRun
  <2>3. CASE pc[v] \in Measuring /\ pc[w] \in Measuring
    BY <1>2, <2>1, <2>3 DEF SingleMeasurement
  <2>4. CASE pc[v] \notin Measuring \/ pc[w] \notin Measuring
    BY <1>2, <2>1, <2>2, <2>4, MeasuringStep
  <2>. QED
    BY <2>3, <2>4
<1>. QED
  BY <1>1, <1>2 DEF MeasuredHasRun, SingleMeasurement

(* No job is measured by two workers at a time, with any number of workers *)
(* polling the same lane.                                                  *)
THEOREM MeasuredOnceAtATime == Spec => []SingleMeasurement
<1>1. Init => MeasuredHasRun /\ SingleMeasurement
  BY DEF Init, MeasuredHasRun, SingleMeasurement, Measuring
<1>. QED
  BY <1>1, TypeCorrect, MeasurementStep, PTL DEF Spec

-----------------------------------------------------------------------------
(* An ended job stays ended. A step that writes the row of job j is a step *)
(* of a worker that holds j or of a cancel request that has read it, and   *)
(* Over(j) says there are none; get_job() hands out WAITING rows only.     *)
LEMMA EndedStep ==
  ASSUME TypeOK, [Next]_vars, NEW j \in Jobs, Over(j)
  PROVE  \/ rows'[j].state = "DELETED"
         \/ Over(j)' /\ rows'[j].state = rows[j].state
<1>. DEFINE Goal == \/ rows'[j].state = "DELETED"
                    \/ Over(j)' /\ rows'[j].state = rows[j].state
            Free == ~\E v \in Workers : pc[v] # "idle" /\ job[v] = j
            Free1 == ~\E v \in Workers : pc'[v] # "idle" /\ job'[v] = j
<1>0. /\ rows[j].state \in Terminal /\ Free /\ j \notin cancelling
      /\ rows[j].state \notin {"NONE", "WAITING", "RUNNING", "DELETED"}
  BY DEF Over, Held, Holds, State, Terminal
<1>. SUFFICES ASSUME rows'[j].state # "DELETED"
              PROVE  rows'[j].state = rows[j].state /\ Free1 /\ j \notin cancelling'
  BY <1>0 DEF Over, Held, Holds, State
<1>1. CASE Submit
  <2>1. rows'[j] = rows[j]
    BY <1>0, <1>1, InsertLemma, LanesAssumption DEF Submit, TypeOK
  <2>. QED
    BY <1>0, <1>1, <2>1 DEF Submit
<1>2. ASSUME NEW i \in Jobs, CancelRead(i)
      PROVE  rows' = rows /\ Free1 /\ j \notin cancelling'
  BY <1>0, <1>2 DEF CancelRead, State
<1>3. ASSUME NEW i \in Jobs, CancelWrite(i)
      PROVE  rows'[j].state = rows[j].state /\ Free1 /\ j \notin cancelling'
  <2>1. rows'[j] = rows[j]
    BY <1>0, <1>3, UpdateLemma DEF CancelWrite, TypeOK, RowStates, Terminal
  <2>. QED
    BY <1>0, <1>3, <2>1 DEF CancelWrite
<1>4. ASSUME NEW w \in Workers, GetJob(w)
      PROVE  rows'[j].state = rows[j].state /\ Free1 /\ j \notin cancelling'
  <2>1. rows'[j] = rows[j]
    BY <1>4, PurgeLemma DEF GetJob, Fetched, TypeOK
  <2>2. Free1
    BY <1>0, <1>4 DEF GetJob, Fetched, NextInLane, Waiting, State, TypeOK
  <2>. QED
    BY <1>0, <1>4, <2>1, <2>2 DEF GetJob, Fetched
<1>5. ASSUME NEW w \in Workers,
             ClientSkip(w) \/ ClientRevalidate(w) \/ ClientProceed(w) \/ CheckJobRunning(w)
      PROVE  rows' = rows /\ Free1 /\ j \notin cancelling'
  BY <1>0, <1>5 DEF ClientSkip, ClientRevalidate, ClientProceed, CheckJobRunning, Goto, TypeOK
<1>6. ASSUME NEW w \in Workers, SetRunning(w)
      PROVE  rows'[j].state = rows[j].state /\ Free1 /\ j \notin cancelling'
  <2>1. rows'[j] = rows[j]
    BY <1>0, <1>6, UpdateLemma, HeldIsJob DEF SetRunning, Goto, TypeOK, RowStates
  <2>. QED
    BY <1>0, <1>6, <2>1 DEF SetRunning, Goto, TypeOK
<1>7. ASSUME NEW w \in Workers, Work(w)
      PROVE  rows'[j].state = rows[j].state /\ Free1 /\ j \notin cancelling'
  <2>1. rows'[j] = rows[j]
    <3>1. CASE QueueReport(w)
      BY <1>0, <3>1, InsertLemma, LanesAssumption DEF QueueReport, TypeOK
    <3>. QED
      BY <1>7, <3>1 DEF Work, SendMail, InitializeRun, SoftFail, RunCompletes, WrapUp, Raise
  <2>. QED
    BY <1>0, <1>7, <2>1
    DEF Work, SendMail, InitializeRun, SoftFail, RunCompletes, QueueReport, WrapUp, Raise,
        Goto, TypeOK
<1>8. ASSUME NEW w \in Workers, SetFinished(w) \/ SetWaiting(w) \/ SetFailed(w) \/ AnswerIsLost(w)
      PROVE  rows'[j].state = rows[j].state /\ Free1 /\ j \notin cancelling'
  <2>1. rows'[j] = rows[j]
    BY <1>0, <1>8, UpdateLemma, HeldIsJob
    DEF SetFinished, SetWaiting, SetFailed, AnswerIsLost, Goto, TypeOK, RowStates, Terminal
  <2>. QED
    BY <1>0, <1>8, <2>1 DEF SetFinished, SetWaiting, SetFailed, AnswerIsLost, Goto, TypeOK
<1>9. ASSUME NEW w \in Workers, NotifyFailure(w)
      PROVE  rows'[j].state = rows[j].state /\ Free1 /\ j \notin cancelling'
  <2>1. rows'[j] = rows[j]
    BY <1>0, <1>9, InsertLemma, LanesAssumption DEF NotifyFailure, FailureNotice, TypeOK
  <2>. QED
    BY <1>0, <1>9, <2>1 DEF NotifyFailure,
              FailureNotice, Goto, TypeOK
<1>10. ASSUME NEW w \in Workers, Die(w) \/ DatabaseGivesUp(w)
       PROVE  rows' = rows /\ Free1 /\ j \notin cancelling'
  BY <1>0, <1>10 DEF Die, DatabaseGivesUp, Goto, TypeOK
<1>11. CASE UNCHANGED vars
  BY <1>0, <1>11 DEF vars
<1>. QED
  BY <1>1, <1>2, <1>3, <1>4, <1>5, <1>6, <1>7, <1>8, <1>9, <1>10, <1>11 DEF Next, Outcome

(* Once a job has ended and nobody has it in hand, it keeps its outcome    *)
(* until its row is deleted, whatever workers, requests and faults do.     *)
THEOREM EndedJobsStay == Spec => EndedStaysEnded
<1>1. TypeOK /\ [Next]_vars =>
        [\A j \in Jobs : Over(j) =>
           \/ State(j)' = "DELETED"
           \/ Over(j)' /\ State(j)' = State(j)]_vars
  BY EndedStep DEF State
<1>. QED
  BY <1>1, TypeCorrect, PTL DEF Spec, EndedStaysEnded

-----------------------------------------------------------------------------
(* What a worker knows of the row it holds: it is still there, and it is   *)
(* in the lane the worker polls. Cancel requests know as much.             *)
HeldInLane ==
  /\ \A w \in Workers : pc[w] # "idle" =>
       rows[job[w]].state \notin {"NONE", "DELETED"} /\ rows[job[w]].lane = LaneOf[w]
  /\ \A j \in cancelling :
       rows[j].state \notin {"NONE", "DELETED"} /\ rows[j].lane \in RunLanes

(* A row in somebody's hands stays and keeps its lane and its address.     *)
LEMMA HeldRowStep ==
  ASSUME TypeOK, [Next]_vars, NEW j \in Jobs,
         rows[j].state \notin {"NONE", "DELETED"},
         Held(j) \/ j \in cancelling
  PROVE  /\ rows'[j].state \notin {"NONE", "DELETED"}
         /\ rows'[j].lane = rows[j].lane
         /\ rows'[j].email = rows[j].email
<1>. DEFINE Goal == /\ rows'[j].state \notin {"NONE", "DELETED"}
                    /\ rows'[j].lane = rows[j].lane
                    /\ rows'[j].email = rows[j].email
<1>1. CASE Submit
  BY <1>1, InsertLemma, LanesAssumption DEF Submit, TypeOK
<1>2. ASSUME NEW i \in Jobs, CancelRead(i) \/ CancelWrite(i)
      PROVE  Goal
  BY <1>2, UpdateLemma DEF CancelRead, CancelWrite, TypeOK, RowStates, Terminal
<1>3. ASSUME NEW w \in Workers, GetJob(w)
      PROVE  Goal
  BY <1>3, PurgeLemma DEF GetJob, Fetched, TypeOK, Over
<1>4. ASSUME NEW w \in Workers,
             SetRunning(w) \/ SetFinished(w) \/ SetWaiting(w) \/ SetFailed(w) \/ AnswerIsLost(w)
      PROVE  Goal
  BY <1>4, UpdateLemma, HeldIsJob
  DEF SetRunning, SetFinished, SetWaiting, SetFailed, AnswerIsLost, Goto, TypeOK, RowStates,
      Terminal
<1>5. ASSUME NEW w \in Workers, QueueReport(w) \/ NotifyFailure(w)
      PROVE  Goal
  BY <1>5, InsertLemma, LanesAssumption DEF QueueReport, NotifyFailure, FailureNotice, TypeOK
<1>6. CASE UNCHANGED rows
  BY <1>6
<1>. QED
  BY <1>1, <1>2, <1>3, <1>4, <1>5, <1>6
  DEF Next, Outcome, Work, ClientSkip, ClientRevalidate, ClientProceed, CheckJobRunning,
      SendMail, InitializeRun, SoftFail, RunCompletes, WrapUp, Raise, Die, DatabaseGivesUp, vars

(* A worker takes a job by GetJob, Fetched only, and then holds it until it drops it. *)
LEMMA TakeStep ==
  ASSUME TypeOK, [Next]_vars, NEW w \in Workers, pc'[w] # "idle"
  PROVE  \/ pc[w] # "idle" /\ job'[w] = job[w]
         \/ /\ pc[w] = "idle" /\ GetJob(w) /\ NextInLane(LaneOf[w], job'[w])
            /\ job'[w] \in Jobs /\ pc'[w] \in {"fetched", "ready"}
<1>. DEFINE Goal == \/ pc[w] # "idle" /\ job'[w] = job[w]
                    \/ /\ pc[w] = "idle" /\ GetJob(w) /\ NextInLane(LaneOf[w], job'[w])
                       /\ job'[w] \in Jobs /\ pc'[w] \in {"fetched", "ready"}
<1>1. CASE Submit \/ \E j \in Jobs : CancelRead(j) \/ CancelWrite(j)
  BY <1>1 DEF Submit, CancelRead, CancelWrite
<1>2. ASSUME NEW v \in Workers, GetJob(v)
      PROVE  Goal
  BY <1>2 DEF GetJob, Fetched, TypeOK
<1>3. ASSUME NEW v \in Workers,
             \/ ClientSkip(v) \/ ClientRevalidate(v) \/ ClientProceed(v)
             \/ CheckJobRunning(v) \/ SetRunning(v)
      PROVE  Goal
  BY <1>3 DEF ClientSkip, ClientRevalidate, ClientProceed, CheckJobRunning, SetRunning,
              Goto, TypeOK
<1>4. ASSUME NEW v \in Workers, Work(v)
      PROVE  Goal
  BY <1>4 DEF Work, SendMail, InitializeRun, SoftFail, RunCompletes, QueueReport, WrapUp,
              Raise, Goto, TypeOK
<1>5. ASSUME NEW v \in Workers, Outcome(v) \/ Die(v) \/ DatabaseGivesUp(v) \/ AnswerIsLost(v)
      PROVE  Goal
  BY <1>5 DEF Outcome, SetFinished, SetWaiting, SetFailed, AnswerIsLost, NotifyFailure,
              FailureNotice, Die,
              DatabaseGivesUp, Goto, TypeOK
<1>6. CASE UNCHANGED vars
  BY <1>6 DEF vars
<1>. QED
  BY <1>1, <1>2, <1>3, <1>4, <1>5, <1>6 DEF Next

(* A cancel request takes WAITING jobs of type 'run'.                      *)
LEMMA CancellingStep ==
  ASSUME TypeOK, [Next]_vars, NEW j \in cancelling'
  PROVE  \/ j \in cancelling
         \/ CancelRead(j) /\ j \in Jobs
  BY DEF Next, Outcome, Work, Submit, CancelRead, CancelWrite, GetJob, Fetched, ClientSkip,
         ClientRevalidate, ClientProceed, CheckJobRunning, SetRunning, SendMail,
         InitializeRun, SoftFail, RunCompletes, QueueReport, WrapUp, Raise, SetFinished,
         SetWaiting, SetFailed, AnswerIsLost, NotifyFailure, FailureNotice, Die,
         DatabaseGivesUp, vars

(* The row of a job in hand is there, and in the lane of the worker.       *)
LEMMA HeldStep == TypeOK /\ HeldInLane /\ [Next]_vars => HeldInLane'
<1>. SUFFICES ASSUME TypeOK, HeldInLane, [Next]_vars PROVE HeldInLane'
  OBVIOUS
<1>1. ASSUME NEW w \in Workers, pc'[w] # "idle"
      PROVE  rows'[job'[w]].state \notin {"NONE", "DELETED"} /\ rows'[job'[w]].lane = LaneOf[w]
  <2>1. CASE pc[w] # "idle" /\ job'[w] = job[w]
    <3>1. Held(job[w]) /\ job[w] \in Jobs
      BY <2>1, HeldIsJob DEF Held, Holds
    <3>. QED
      BY <2>1, <3>1, HeldRowStep DEF HeldInLane
  <2>2. CASE GetJob(w) /\ NextInLane(LaneOf[w], job'[w]) /\ job'[w] \in Jobs
    <3>1. rows[job'[w]].state = "WAITING" /\ rows[job'[w]].lane = LaneOf[w]
      BY <2>2 DEF NextInLane, Waiting, State
    <3>2. rows'[job'[w]] = rows[job'[w]]
      BY <2>2, <3>1, PurgeLemma DEF GetJob, Fetched, TypeOK, Over, Terminal, State
    <3>. QED
      BY <3>1, <3>2
  <2>. QED
    BY <1>1, <2>1, <2>2, TakeStep
<1>2. ASSUME NEW j \in cancelling'
      PROVE  rows'[j].state \notin {"NONE", "DELETED"} /\ rows'[j].lane \in RunLanes
  <2>1. CASE j \in cancelling
    BY <2>1, HeldRowStep DEF HeldInLane, TypeOK
  <2>2. CASE CancelRead(j)
    BY <2>2 DEF CancelRead, State
  <2>. QED
    BY <1>2, <2>1, <2>2, CancellingStep
<1>. QED
  BY <1>1, <1>2 DEF HeldInLane

-----------------------------------------------------------------------------
(* Exclusion in a lane, for set-ups with one worker per lane.              *)
OneWorkerPerLane == \A v, w \in Workers : LaneOf[v] = LaneOf[w] => v = w

(* Between the check and the UPDATE the lane is still clear, because there *)
(* is nobody else to start a job in it.                                    *)
CheckedIsClear ==
  \A w \in Workers : pc[w] = "checked" =>
    \A j \in Jobs : ~(rows[j].state = "RUNNING" /\ rows[j].lane = LaneOf[w])

(* SetRunning alone makes a row RUNNING.                                   *)
LEMMA RunningStep ==
  ASSUME TypeOK, [Next]_vars, NEW j \in Jobs, rows'[j].state = "RUNNING"
  PROVE  /\ rows'[j].lane = rows[j].lane
         /\ \/ rows[j].state = "RUNNING"
            \/ \E w \in Workers : SetRunning(w) /\ job[w] = j
<1>. DEFINE Goal == /\ rows'[j].lane = rows[j].lane
                    /\ \/ rows[j].state = "RUNNING"
                       \/ \E w \in Workers : SetRunning(w) /\ job[w] = j
<1>1. CASE Submit
  BY <1>1, InsertLemma, LanesAssumption DEF Submit, TypeOK
<1>2. ASSUME NEW i \in Jobs, CancelRead(i) \/ CancelWrite(i)
      PROVE  Goal
  BY <1>2, UpdateLemma DEF CancelRead, CancelWrite, TypeOK, RowStates, Terminal
<1>3. ASSUME NEW w \in Workers, GetJob(w)
      PROVE  Goal
  BY <1>3, PurgeLemma DEF GetJob, Fetched, TypeOK
<1>4. ASSUME NEW w \in Workers, SetRunning(w)
      PROVE  Goal
  BY <1>4, UpdateLemma, HeldIsJob DEF SetRunning, Goto, TypeOK, RowStates
<1>5. ASSUME NEW w \in Workers, SetFinished(w) \/ SetWaiting(w) \/ SetFailed(w) \/ AnswerIsLost(w)
      PROVE  Goal
  BY <1>5, UpdateLemma, HeldIsJob
  DEF SetFinished, SetWaiting, SetFailed, AnswerIsLost, Goto, TypeOK, RowStates, Terminal
<1>6. ASSUME NEW w \in Workers, QueueReport(w) \/ NotifyFailure(w)
      PROVE  Goal
  BY <1>6, InsertLemma, LanesAssumption DEF QueueReport, NotifyFailure, FailureNotice, TypeOK
<1>7. CASE UNCHANGED rows
  BY <1>7
<1>. QED
  BY <1>1, <1>2, <1>3, <1>4, <1>5, <1>6, <1>7
  DEF Next, Outcome, Work, ClientSkip, ClientRevalidate, ClientProceed, CheckJobRunning,
      SendMail, InitializeRun, SoftFail, RunCompletes, WrapUp, Raise, Die, DatabaseGivesUp, vars

(* CheckJobRunning alone leads to the UPDATE, and has seen the lane clear. *)
LEMMA CheckedStep ==
  ASSUME TypeOK, [Next]_vars, NEW w \in Workers, pc'[w] = "checked"
  PROVE  \/ pc[w] = "checked" /\ ~SetRunning(w)
         \/ CheckJobRunning(w) /\ Running(LaneOf[w]) = {}
<1>. DEFINE Goal == \/ pc[w] = "checked" /\ ~SetRunning(w)
                    \/ CheckJobRunning(w) /\ Running(LaneOf[w]) = {}
<1>. ~SetRunning(w)
  BY DEF SetRunning, Goto, TypeOK
<1>1. CASE Submit \/ \E j \in Jobs : CancelRead(j) \/ CancelWrite(j)
  BY <1>1 DEF Submit, CancelRead, CancelWrite
<1>2. ASSUME NEW v \in Workers, CheckJobRunning(v)
      PROVE  Goal
  BY <1>2 DEF CheckJobRunning, TypeOK
<1>3. ASSUME NEW v \in Workers,
             \/ GetJob(v) \/ ClientSkip(v) \/ ClientRevalidate(v) \/ ClientProceed(v)
             \/ SetRunning(v) \/ Die(v) \/ DatabaseGivesUp(v) \/ AnswerIsLost(v)
      PROVE  Goal
  BY <1>3 DEF GetJob, Fetched, ClientSkip, ClientRevalidate, ClientProceed, SetRunning, Die,
              DatabaseGivesUp, AnswerIsLost, Goto, TypeOK
<1>4. ASSUME NEW v \in Workers, Work(v) \/ Outcome(v)
      PROVE  Goal
  BY <1>4 DEF Work, SendMail, InitializeRun, SoftFail, RunCompletes, QueueReport, WrapUp,
              Raise, Outcome, SetFinished, SetWaiting, SetFailed, AnswerIsLost, NotifyFailure,
              FailureNotice, Goto, TypeOK
<1>5. CASE UNCHANGED vars
  BY <1>5 DEF vars
<1>. QED
  BY <1>1, <1>2, <1>3, <1>4, <1>5 DEF Next

(* With one worker per lane, a lane that was found clear stays clear until *)
(* the worker has set its row to RUNNING.                                  *)
LEMMA LaneStep ==
  ASSUME OneWorkerPerLane
  PROVE  TypeOK /\ HeldInLane /\ CheckedIsClear /\ LaneExclusive /\ [Next]_vars
           => CheckedIsClear' /\ LaneExclusive'
<1>. SUFFICES ASSUME TypeOK, HeldInLane, CheckedIsClear, LaneExclusive, [Next]_vars
              PROVE  CheckedIsClear' /\ LaneExclusive'
  OBVIOUS
<1>1. ASSUME NEW v \in Workers, SetRunning(v)
      PROVE  /\ job[v] \in Jobs
             /\ rows[job[v]].lane = LaneOf[v]
             /\ \A j \in Jobs : ~(rows[j].state = "RUNNING" /\ rows[j].lane = LaneOf[v])
  BY <1>1, HeldIsJob DEF SetRunning, Goto, HeldInLane, CheckedIsClear
<1>2. ASSUME NEW w \in Workers, pc'[w] = "checked",
             NEW j \in Jobs, rows'[j].state = "RUNNING", rows'[j].lane = LaneOf[w]
      PROVE  FALSE
  <2>1. CASE pc[w] = "checked" /\ ~SetRunning(w)
    <3>1. rows[j].state # "RUNNING" /\ rows[j].lane = LaneOf[w]
      BY <1>2, <2>1, RunningStep DEF CheckedIsClear
    <3>2. PICK v \in Workers : SetRunning(v) /\ job[v] = j
      BY <1>2, <3>1, RunningStep
    <3>3. v = w
      BY <1>1, <3>1, <3>2 DEF OneWorkerPerLane
    <3>. QED
      BY <2>1, <3>2, <3>3
  <2>2. CASE CheckJobRunning(w) /\ Running(LaneOf[w]) = {}
    BY <1>2, <2>2 DEF CheckJobRunning, Running, State
  <2>. QED
    BY <1>2, <2>1, <2>2, CheckedStep
<1>3. ASSUME NEW i \in Jobs, NEW j \in Jobs,
             rows'[i].state = "RUNNING", rows'[j].state = "RUNNING",
             rows'[i].lane = rows'[j].lane
      PROVE  i = j
  <2>1. rows[i].lane = rows[j].lane
    BY <1>3, RunningStep
  <2>2. CASE rows[i].state = "RUNNING" /\ rows[j].state = "RUNNING"
    BY <2>1, <2>2 DEF LaneExclusive, State
  <2>3. ASSUME NEW v \in Workers, SetRunning(v), job[v] = i, rows[j].state = "RUNNING"
        PROVE  FALSE
    BY <1>1, <2>1, <2>3
  <2>4. ASSUME NEW v \in Workers, SetRunning(v), job[v] = j, rows[i].state = "RUNNING"
        PROVE  FALSE
    BY <1>1, <2>1, <2>4
  <2>5. ASSUME NEW u \in Workers, NEW v \in Workers, SetRunning(u), SetRunning(v),
               job[u] = i, job[v] = j
        PROVE  i = j
    BY <1>1, <2>1, <2>5 DEF OneWorkerPerLane
  <2>. QED
    BY <1>3, <2>2, <2>3, <2>4, <2>5, RunningStep
<1>. QED
  BY <1>2, <1>3 DEF CheckedIsClear, LaneExclusive, State

(* One worker per lane is enough: a lane never has two RUNNING rows, with  *)
(* no lock and no condition in the UPDATE, and through deaths, lost        *)
(* databases and cancellations.                                            *)
THEOREM LanesExclude ==
  ASSUME OneWorkerPerLane
  PROVE  Spec => []LaneExclusive
<1>1. Init => HeldInLane /\ CheckedIsClear /\ LaneExclusive
  BY DEF Init, HeldInLane, CheckedIsClear, LaneExclusive, State
<1>2. TypeOK /\ (HeldInLane /\ CheckedIsClear /\ LaneExclusive) /\ [Next]_vars
        => (HeldInLane /\ CheckedIsClear /\ LaneExclusive)'
  BY HeldStep, LaneStep
<1>. QED
  BY <1>1, <1>2, TypeCorrect, PTL DEF Spec

-----------------------------------------------------------------------------
(* What FINISHED means. A worker that will write FINISHED has done the     *)
(* work by then, and what it did is not taken back while it holds the job. *)
DoneInHand ==
  \A w \in Workers :
    /\ pc[w] \in {"measuring", "reporting", "wrapup", "requeueing"} => LaneOf[w] \in RunLanes
    /\ pc[w] \in {"wrapup", "finishing"} /\ LaneOf[w] \in RunLanes =>
         job[w] \in hasRun /\ (rows[job[w]].email => job[w] \in reports)
    /\ pc[w] = "finishing" /\ LaneOf[w] \notin RunLanes => job[w] \in sent

(* How a worker comes to the steps of _process() and to its end.           *)
LEMMA ProgressStep ==
  ASSUME TypeOK, [Next]_vars, NEW w \in Workers,
         pc'[w] \in {"measuring", "reporting", "wrapup", "requeueing", "finishing"}
  PROVE  \/ pc'[w] = pc[w] /\ job'[w] = job[w]
         \/ Work(w) /\ job' = job
<1>. DEFINE Goal == \/ pc'[w] = pc[w] /\ job'[w] = job[w]
                    \/ Work(w) /\ job' = job
<1>1. CASE Submit \/ \E j \in Jobs : CancelRead(j) \/ CancelWrite(j)
  BY <1>1 DEF Submit, CancelRead, CancelWrite
<1>2. ASSUME NEW v \in Workers,
             \/ GetJob(v) \/ ClientSkip(v) \/ ClientRevalidate(v) \/ ClientProceed(v)
             \/ CheckJobRunning(v) \/ SetRunning(v)
             \/ Die(v) \/ DatabaseGivesUp(v) \/ AnswerIsLost(v)
      PROVE  Goal
  BY <1>2 DEF GetJob, Fetched, ClientSkip, ClientRevalidate, ClientProceed, CheckJobRunning,
              SetRunning, Die, DatabaseGivesUp, AnswerIsLost, Goto, TypeOK
<1>3. ASSUME NEW v \in Workers, Work(v)
      PROVE  Goal
  BY <1>3 DEF Work, SendMail, InitializeRun, SoftFail, RunCompletes, QueueReport, WrapUp,
              Raise, Goto, TypeOK
<1>4. ASSUME NEW v \in Workers, Outcome(v)
      PROVE  Goal
  BY <1>4 DEF Outcome, SetFinished, SetWaiting, SetFailed, AnswerIsLost, NotifyFailure,
              FailureNotice, Goto, TypeOK
<1>5. CASE UNCHANGED vars
  BY <1>5 DEF vars
<1>. QED
  BY <1>1, <1>2, <1>3, <1>4, <1>5 DEF Next

(* A worker that goes on to report has measured, and one that goes on to   *)
(* finish has queued its report.                                           *)
LEMMA DoneStep ==
  TypeOK /\ HeldInLane /\ MeasuredHasRun /\ DoneInHand /\ [Next]_vars => DoneInHand'
<1>. SUFFICES ASSUME TypeOK, HeldInLane, MeasuredHasRun, DoneInHand, [Next]_vars,
                     NEW w \in Workers
              PROVE  /\ pc'[w] \in {"measuring", "reporting", "wrapup", "requeueing"}
                          => LaneOf[w] \in RunLanes
                     /\ pc'[w] \in {"wrapup", "finishing"} /\ LaneOf[w] \in RunLanes =>
                          job'[w] \in hasRun' /\ (rows'[job'[w]].email => job'[w] \in reports')
                     /\ pc'[w] = "finishing" /\ LaneOf[w] \notin RunLanes => job'[w] \in sent'
  BY DEF DoneInHand
<1>1. CASE pc'[w] = pc[w] /\ job'[w] = job[w] /\ pc[w] # "idle"
  <2>1. /\ job[w] \in Jobs
        /\ rows'[job[w]].email = rows[job[w]].email
    BY <1>1, HeldIsJob, HeldRowStep DEF HeldInLane, Held, Holds
  <2>. QED
    BY <1>1, <2>1, KeptStep DEF DoneInHand
<1>2. CASE Work(w) /\ job' = job
  <2>1. CASE SendMail(w)
    BY <1>2, <2>1 DEF SendMail, Goto, TypeOK
  <2>2. CASE InitializeRun(w) \/ SoftFail(w) \/ RunCompletes(w) \/ Raise(w)
    BY <1>2, <2>2 DEF InitializeRun, SoftFail, RunCompletes, Raise, Goto, TypeOK, DoneInHand
  <2>3. CASE QueueReport(w)
    <3>1. pc[w] = "reporting" /\ pc'[w] = "wrapup" /\ job[w] \in hasRun /\ hasRun' = hasRun
      BY <2>3 DEF QueueReport, Goto, TypeOK, MeasuredHasRun, Measuring
    <3>2. job[w] \in Jobs /\ rows'[job[w]].email = rows[job[w]].email
      BY <3>1, HeldIsJob, HeldRowStep DEF HeldInLane, Held, Holds
    <3>3. rows[job[w]].email => job[w] \in reports'
      BY <2>3 DEF QueueReport
    <3>. QED
      BY <1>2, <3>1, <3>2, <3>3 DEF DoneInHand
  <2>4. CASE WrapUp(w)
    BY <1>2, <2>4 DEF WrapUp, Goto, TypeOK, DoneInHand
  <2>. QED
    BY <1>2, <2>1, <2>2, <2>3, <2>4 DEF Work
<1>. QED
  BY <1>1, <1>2, ProgressStep

(* The UPDATE to FINISHED, whether or not it was answered.                 *)
Finishes(w) ==
  /\ pc[w] = "finishing"
  /\ UpdateState(job[w], "FINISHED")
  /\ UNCHANGED <<hasRun, sent, reports>>

(* That UPDATE alone makes a row FINISHED.                                 *)
LEMMA FinishingStep ==
  ASSUME TypeOK, [Next]_vars, NEW j \in Jobs, rows'[j].state = "FINISHED"
  PROVE  /\ rows'[j].lane = rows[j].lane /\ rows'[j].email = rows[j].email
         /\ \/ /\ rows[j].state = "FINISHED"
               /\ j \in hasRun => j \in hasRun'
               /\ j \in reports => j \in reports'
               /\ j \in sent => j \in sent'
            \/ \E w \in Workers : Finishes(w) /\ job[w] = j
<1>. DEFINE Frame == rows'[j].lane = rows[j].lane /\ rows'[j].email = rows[j].email
            Kept == /\ j \in hasRun => j \in hasRun'
                    /\ j \in reports => j \in reports'
                    /\ j \in sent => j \in sent'
<1>1. CASE Submit
  BY <1>1, InsertLemma, LanesAssumption DEF Submit, TypeOK
<1>2. ASSUME NEW i \in Jobs, CancelRead(i) \/ CancelWrite(i)
      PROVE  Frame /\ Kept /\ rows[j].state = "FINISHED"
  BY <1>2, UpdateLemma DEF CancelRead, CancelWrite, TypeOK, RowStates, Terminal
<1>3. ASSUME NEW w \in Workers, GetJob(w)
      PROVE  Frame /\ Kept /\ rows[j].state = "FINISHED"
  BY <1>3, PurgeLemma DEF GetJob, Fetched, Forget, TypeOK
<1>4. ASSUME NEW w \in Workers, SetFinished(w) \/ AnswerIsLost(w)
      PROVE  Frame /\ ((Finishes(w) /\ job[w] = j) \/ (Kept /\ rows[j].state = "FINISHED"))
  <2>1. CASE Finishes(w)
    <3>1. job[w] \in Jobs /\ UpdateState(job[w], "FINISHED")
      BY <2>1, HeldIsJob DEF Finishes
    <3>2. Kept
      BY <2>1 DEF Finishes
    <3>. QED
      BY <2>1, <3>1, <3>2, UpdateLemma DEF TypeOK, RowStates, Terminal
  <2>2. CASE pc[w] = "requeueing" /\ AnswerIsLost(w)
    <3>1. job[w] \in Jobs /\ UpdateState(job[w], "WAITING") /\ Kept
      BY <2>2, HeldIsJob DEF AnswerIsLost, Goto
    <3>. QED
      BY <3>1, UpdateLemma DEF TypeOK, RowStates, Terminal
  <2>. QED
    BY <1>4, <2>1, <2>2 DEF SetFinished, AnswerIsLost, Finishes, Goto
<1>5. ASSUME NEW w \in Workers, SetRunning(w) \/ SetWaiting(w) \/ SetFailed(w)
      PROVE  Frame /\ Kept /\ rows[j].state = "FINISHED"
  BY <1>5, UpdateLemma, HeldIsJob
  DEF SetRunning, SetWaiting, SetFailed, Goto, TypeOK, RowStates, Terminal
<1>6. ASSUME NEW w \in Workers, QueueReport(w) \/ NotifyFailure(w)
      PROVE  Frame /\ Kept /\ rows[j].state = "FINISHED"
  BY <1>6, InsertLemma, LanesAssumption DEF QueueReport, NotifyFailure, FailureNotice, TypeOK
<1>7. ASSUME NEW w \in Workers,
             \/ ClientSkip(w) \/ ClientRevalidate(w) \/ ClientProceed(w)
             \/ CheckJobRunning(w) \/ SendMail(w) \/ InitializeRun(w) \/ SoftFail(w)
             \/ RunCompletes(w) \/ WrapUp(w) \/ Raise(w) \/ Die(w) \/ DatabaseGivesUp(w)
      PROVE  rows' = rows /\ Kept
  BY <1>7 DEF ClientSkip, ClientRevalidate, ClientProceed, CheckJobRunning, SendMail,
              InitializeRun, SoftFail, RunCompletes, WrapUp, Raise, Die, DatabaseGivesUp
<1>8. CASE UNCHANGED vars
  BY <1>8 DEF vars
<1>. QED
  BY <1>1, <1>2, <1>3, <1>4, <1>5, <1>6, <1>7, <1>8 DEF Next, Outcome, Work

(* Only what was done is written as FINISHED.                              *)
LEMMA FinishedStep ==
  TypeOK /\ HeldInLane /\ DoneInHand /\ FinishedIsDone /\ [Next]_vars => FinishedIsDone'
<1>. SUFFICES ASSUME TypeOK, HeldInLane, DoneInHand, FinishedIsDone, [Next]_vars,
                     NEW j \in Jobs, rows'[j].state = "FINISHED"
              PROVE  /\ rows'[j].lane \in RunLanes =>
                          j \in hasRun' /\ (rows'[j].email => j \in reports')
                     /\ rows'[j].lane \notin RunLanes => j \in sent'
  BY DEF FinishedIsDone, State
<1>1. rows'[j].lane = rows[j].lane /\ rows'[j].email = rows[j].email
  BY FinishingStep
<1>2. CASE /\ rows[j].state = "FINISHED"
           /\ j \in hasRun => j \in hasRun'
           /\ j \in reports => j \in reports'
           /\ j \in sent => j \in sent'
  BY <1>1, <1>2 DEF FinishedIsDone, State
<1>3. ASSUME NEW w \in Workers, Finishes(w), job[w] = j
      PROVE  /\ rows[j].lane \in RunLanes => j \in hasRun' /\ (rows[j].email => j \in reports')
             /\ rows[j].lane \notin RunLanes => j \in sent'
  BY <1>3 DEF Finishes, HeldInLane, DoneInHand
<1>. QED
  BY <1>1, <1>2, <1>3, FinishingStep

(* FINISHED is never a promise the code did not keep: a finished run was   *)
(* measured and its requester's report is queued, a finished e-mail was    *)
(* handed over; with any number of workers, and whatever was cancelled.    *)
THEOREM FinishedJobsAreDone == Spec => []FinishedIsDone
<1>1. Init => HeldInLane /\ MeasuredHasRun /\ SingleMeasurement /\ DoneInHand /\ FinishedIsDone
  BY DEF Init, HeldInLane, MeasuredHasRun, SingleMeasurement, Measuring, DoneInHand,
         FinishedIsDone, State
<1>2. TypeOK /\ (HeldInLane /\ MeasuredHasRun /\ SingleMeasurement /\ DoneInHand /\ FinishedIsDone)
        /\ [Next]_vars
      => (HeldInLane /\ MeasuredHasRun /\ SingleMeasurement /\ DoneInHand /\ FinishedIsDone)'
  BY HeldStep, MeasurementStep, DoneStep, FinishedStep
<1>. QED
  BY <1>1, <1>2, TypeCorrect, PTL DEF Spec

-----------------------------------------------------------------------------
(* No e-mail twice. A message that was handed over belongs to a row that   *)
(* is neither waiting nor in the hands of a worker that has yet to send.   *)
WaitingIsUnsent ==
  /\ \A j \in Jobs :
       /\ rows[j].state = "NONE" => j \notin sent
       /\ rows[j].state = "WAITING" /\ rows[j].lane \notin RunLanes => j \notin sent
  /\ \A w \in Workers : LaneOf[w] \notin RunLanes =>
       /\ pc[w] \in {"fetched", "ready", "checked", "executing"} => job[w] \notin sent
       /\ pc[w] = "executing" => rows[job[w]].state = "RUNNING"
       /\ pc[w] # "requeueing"

(* Messages are handed over by SendMail only.                              *)
LEMMA SentStep ==
  ASSUME TypeOK, [Next]_vars, NEW j \in sent'
  PROVE  \/ j \in sent
         \/ \E w \in Workers : SendMail(w) /\ job[w] = j
  BY DEF Next, Outcome, Work, Submit, CancelRead, CancelWrite, GetJob, Fetched, Forget,
         ClientSkip,
         ClientRevalidate, ClientProceed, CheckJobRunning, SetRunning, SendMail,
         InitializeRun, SoftFail, RunCompletes, QueueReport, WrapUp, Raise, SetFinished,
         SetWaiting, SetFailed, AnswerIsLost, NotifyFailure, FailureNotice, Die,
         DatabaseGivesUp, vars

(* The UPDATE back to WAITING, whether or not it was answered.             *)
PutsBack(w) ==
  /\ pc[w] = "requeueing"
  /\ pc'[w] \in {"idle", "notifying"}
  /\ UpdateState(job[w], "WAITING")

(* A row becomes WAITING by an INSERT or by that UPDATE.                   *)
LEMMA WaitingStep ==
  ASSUME TypeOK, [Next]_vars, NEW j \in Jobs, rows'[j].state \in {"NONE", "WAITING"}
  PROVE  \/ rows'[j] = rows[j]
         \/ rows[j].state = "NONE"
         \/ \E w \in Workers : PutsBack(w) /\ job[w] = j
<1>. DEFINE Goal == \/ rows'[j] = rows[j]
                    \/ rows[j].state = "NONE"
                    \/ \E w \in Workers : PutsBack(w) /\ job[w] = j
<1>1. CASE Submit
  BY <1>1, InsertLemma, LanesAssumption DEF Submit, TypeOK
<1>2. ASSUME NEW i \in Jobs, CancelRead(i) \/ CancelWrite(i)
      PROVE  Goal
  BY <1>2, UpdateLemma DEF CancelRead, CancelWrite, TypeOK, RowStates, Terminal
<1>3. ASSUME NEW w \in Workers, GetJob(w)
      PROVE  Goal
  BY <1>3, PurgeLemma DEF GetJob, Fetched, TypeOK
<1>4. ASSUME NEW w \in Workers,
             SetRunning(w) \/ SetFinished(w) \/ SetWaiting(w) \/ SetFailed(w) \/ AnswerIsLost(w)
      PROVE  Goal
  <2>1. CASE PutsBack(w)
    <3>1. job[w] \in Jobs
      BY <2>1, HeldIsJob DEF PutsBack
    <3>. QED
      BY <2>1, <3>1, UpdateLemma DEF PutsBack, TypeOK, RowStates
  <2>2. ASSUME NEW s \in {"RUNNING", "FINISHED", "FAILED"}, UpdateState(job[w], s), job[w] \in Jobs
        PROVE  Goal
    BY <2>2, UpdateLemma DEF TypeOK, RowStates, Terminal
  <2>. QED
    BY <1>4, <2>1, <2>2, HeldIsJob
    DEF SetRunning, SetFinished, SetWaiting, SetFailed, AnswerIsLost, PutsBack, Goto, TypeOK
<1>5. ASSUME NEW w \in Workers, QueueReport(w) \/ NotifyFailure(w)
      PROVE  Goal
  BY <1>5, InsertLemma, LanesAssumption DEF QueueReport, NotifyFailure, FailureNotice, TypeOK
<1>6. CASE UNCHANGED rows
  BY <1>6
<1>. QED
  BY <1>1, <1>2, <1>3, <1>4, <1>5, <1>6
  DEF Next, Outcome, Work, ClientSkip, ClientRevalidate, ClientProceed, CheckJobRunning,
      SendMail, InitializeRun, SoftFail, RunCompletes, WrapUp, Raise, Die, DatabaseGivesUp, vars

(* The row of an e-mail that is being executed is left alone by the rest:  *)
(* requests cancel runs only, and no other worker holds it.                *)
LEMMA ExecutingRowStep ==
  ASSUME OneWorkerPerLane, TypeOK, HeldInLane, [Next]_vars,
         NEW w \in Workers, LaneOf[w] \notin RunLanes,
         pc[w] = "executing", pc'[w] = "executing", rows[job[w]].state = "RUNNING"
  PROVE  rows'[job[w]].state = "RUNNING"
<1>0. job[w] \in Jobs /\ rows[job[w]].lane = LaneOf[w]
  BY HeldIsJob DEF HeldInLane
<1>1. CASE Submit
  BY <1>0, <1>1, InsertLemma, LanesAssumption DEF Submit, TypeOK
<1>2. ASSUME NEW i \in Jobs, CancelRead(i) \/ CancelWrite(i)
      PROVE  rows'[job[w]].state = "RUNNING"
  <2>1. CASE CancelRead(i)
    BY <2>1 DEF CancelRead
  <2>2. CASE CancelWrite(i)
    <3>1. i # job[w]
      BY <1>0, <2>2 DEF CancelWrite, HeldInLane
    <3>. QED
      BY <1>0, <2>2, <3>1, UpdateLemma DEF CancelWrite, TypeOK, RowStates, Terminal
  <2>. QED
    BY <1>2, <2>1, <2>2
<1>3. ASSUME NEW v \in Workers, GetJob(v)
      PROVE  rows'[job[w]].state = "RUNNING"
  BY <1>0, <1>3, PurgeLemma DEF GetJob, Fetched, TypeOK, Over, Held, Holds
<1>4. ASSUME NEW v \in Workers,
             SetRunning(v) \/ SetFinished(v) \/ SetWaiting(v) \/ SetFailed(v) \/ AnswerIsLost(v)
      PROVE  rows'[job[w]].state = "RUNNING"
  <2>1. v # w /\ pc[v] # "idle"
    BY <1>4 DEF SetRunning, SetFinished, SetWaiting, SetFailed, AnswerIsLost, Goto, TypeOK
  <2>2. job[v] # job[w]
    BY <1>0, <2>1 DEF HeldInLane, OneWorkerPerLane
  <2>. QED
    BY <1>0, <1>4, <2>2, UpdateLemma, HeldIsJob
    DEF SetRunning, SetFinished, SetWaiting, SetFailed, AnswerIsLost, Goto, TypeOK, RowStates,
        Terminal
<1>5. ASSUME NEW v \in Workers, QueueReport(v) \/ NotifyFailure(v)
      PROVE  rows'[job[w]].state = "RUNNING"
  BY <1>0, <1>5, InsertLemma, LanesAssumption DEF QueueReport, NotifyFailure, FailureNotice,
                                                  TypeOK
<1>6. CASE UNCHANGED rows
  BY <1>6
<1>. QED
  BY <1>1, <1>2, <1>3, <1>4, <1>5, <1>6
  DEF Next, Outcome, Work, ClientSkip, ClientRevalidate, ClientProceed, CheckJobRunning,
      SendMail, InitializeRun, SoftFail, RunCompletes, WrapUp, Raise, Die, DatabaseGivesUp, vars

(* How a worker comes to the steps before a message is handed over.        *)
LEMMA BeforeSendingStep ==
  ASSUME TypeOK, [Next]_vars, NEW w \in Workers,
         pc'[w] \in {"fetched", "ready", "checked", "executing"}
  PROVE  \/ /\ pc[w] \in {"fetched", "ready", "checked", "executing"}
            /\ job'[w] = job[w]
            /\ ~SendMail(w)
            /\ pc'[w] = "executing" => pc[w] = "executing" \/ SetRunning(w)
         \/ GetJob(w) /\ NextInLane(LaneOf[w], job'[w]) /\ pc'[w] # "executing"
<1>. DEFINE Goal == \/ /\ pc[w] \in {"fetched", "ready", "checked", "executing"}
                       /\ job'[w] = job[w]
                       /\ ~SendMail(w)
                       /\ pc'[w] = "executing" => pc[w] = "executing" \/ SetRunning(w)
                    \/ GetJob(w) /\ NextInLane(LaneOf[w], job'[w]) /\ pc'[w] # "executing"
<1>0. ~SendMail(w)
  BY DEF SendMail, Goto, TypeOK
<1>1. CASE Submit \/ \E j \in Jobs : CancelRead(j) \/ CancelWrite(j)
  BY <1>0, <1>1 DEF Submit, CancelRead, CancelWrite
<1>2. ASSUME NEW v \in Workers, GetJob(v)
      PROVE  Goal
  BY <1>0, <1>2 DEF GetJob, Fetched, TypeOK
<1>3. ASSUME NEW v \in Workers,
             \/ ClientSkip(v) \/ ClientRevalidate(v) \/ ClientProceed(v)
             \/ CheckJobRunning(v) \/ SetRunning(v)
      PROVE  Goal
  BY <1>0, <1>3 DEF ClientSkip, ClientRevalidate, ClientProceed, CheckJobRunning, SetRunning,
                    Goto, TypeOK
<1>4. ASSUME NEW v \in Workers, Work(v)
      PROVE  Goal
  BY <1>0, <1>4 DEF Work, SendMail, InitializeRun, SoftFail, RunCompletes, QueueReport,
                    WrapUp, Raise, Goto, TypeOK
<1>5. ASSUME NEW v \in Workers, Outcome(v) \/ Die(v) \/ DatabaseGivesUp(v) \/ AnswerIsLost(v)
      PROVE  Goal
  BY <1>0, <1>5 DEF Outcome, SetFinished, SetWaiting, SetFailed, AnswerIsLost, NotifyFailure,
                    FailureNotice, Die,
                    DatabaseGivesUp, Goto, TypeOK
<1>6. CASE UNCHANGED vars
  BY <1>0, <1>6 DEF vars
<1>. QED
  BY <1>1, <1>2, <1>3, <1>4, <1>5, <1>6 DEF Next

(* With one worker per lane, an e-mail that waits has not been handed      *)
(* over.                                                                   *)
LEMMA UnsentStep ==
  ASSUME OneWorkerPerLane
  PROVE  TypeOK /\ HeldInLane /\ DoneInHand /\ WaitingIsUnsent /\ [Next]_vars
           => WaitingIsUnsent'
<1>. SUFFICES ASSUME TypeOK, HeldInLane, DoneInHand, WaitingIsUnsent, [Next]_vars
              PROVE  WaitingIsUnsent'
  OBVIOUS
<1>1. ASSUME NEW v \in Workers, SendMail(v)
      PROVE  /\ job[v] \in Jobs
             /\ rows' = rows
             /\ rows[job[v]].state = "RUNNING"
             /\ \A w \in Workers : pc[w] # "idle" /\ job[w] = job[v] => v = w
  BY <1>1, HeldIsJob
  DEF SendMail, Goto, HeldInLane, WaitingIsUnsent, OneWorkerPerLane
<1>2. ASSUME NEW j \in Jobs,
             \/ rows'[j].state = "NONE"
             \/ rows'[j].state = "WAITING" /\ rows'[j].lane \notin RunLanes
      PROVE  j \notin sent'
  <2>1. j \notin sent
    <3>1. CASE rows'[j] = rows[j] \/ rows[j].state = "NONE"
      BY <1>2, <3>1 DEF WaitingIsUnsent
    <3>2. ASSUME NEW w \in Workers, PutsBack(w), job[w] = j
          PROVE  FALSE
      <4>1. rows[j].lane \in RunLanes
        BY <3>2 DEF PutsBack, HeldInLane, DoneInHand
      <4>2. rows'[j].lane = rows[j].lane /\ rows'[j].state = "WAITING"
        BY <3>2, UpdateLemma DEF PutsBack, TypeOK, RowStates
      <4>. QED
        BY <1>2, <4>1, <4>2
    <3>. QED
      BY <1>2, <3>1, <3>2, WaitingStep
  <2>2. ASSUME NEW v \in Workers, SendMail(v), job[v] = j
        PROVE  FALSE
    BY <1>1, <1>2, <2>2
  <2>. QED
    BY <2>1, <2>2, SentStep
<1>3. ASSUME NEW w \in Workers, LaneOf[w] \notin RunLanes,
             pc'[w] \in {"fetched", "ready", "checked", "executing"}
      PROVE  /\ job'[w] \notin sent'
             /\ pc'[w] = "executing" => rows'[job'[w]].state = "RUNNING"
  <2>1. CASE /\ pc[w] \in {"fetched", "ready", "checked", "executing"}
             /\ job'[w] = job[w]
             /\ ~SendMail(w)
             /\ pc'[w] = "executing" => pc[w] = "executing" \/ SetRunning(w)
    <3>1. job[w] \notin sent
      BY <1>3, <2>1 DEF WaitingIsUnsent
    <3>2. ASSUME NEW v \in Workers, SendMail(v), job[v] = job[w]
          PROVE  FALSE
      BY <1>1, <2>1, <3>2
    <3>3. ASSUME SetRunning(w)
          PROVE  rows'[job[w]].state = "RUNNING"
      BY <2>1, <3>3, UpdateLemma, HeldIsJob DEF SetRunning, Goto, TypeOK, RowStates
    <3>4. ASSUME pc'[w] = "executing", pc[w] = "executing"
          PROVE  rows'[job[w]].state = "RUNNING"
      BY <1>3, <3>4, ExecutingRowStep DEF WaitingIsUnsent
    <3>. QED
      BY <2>1, <3>1, <3>2, <3>3, <3>4, SentStep
  <2>2. CASE GetJob(w) /\ NextInLane(LaneOf[w], job'[w]) /\ pc'[w] # "executing"
    <3>1. job'[w] \in Jobs /\ job'[w] \notin sent
      BY <1>3, <2>2 DEF NextInLane, Waiting, State, WaitingIsUnsent
    <3>. QED
      BY <2>2, <3>1 DEF GetJob, Fetched, Forget
  <2>. QED
    BY <1>3, <2>1, <2>2, BeforeSendingStep
<1>4. ASSUME NEW w \in Workers, LaneOf[w] \notin RunLanes
      PROVE  pc'[w] # "requeueing"
  BY <1>4, ProgressStep DEF WaitingIsUnsent, Work, SendMail, InitializeRun, SoftFail,
     RunCompletes, QueueReport, WrapUp, Raise, Goto, TypeOK
<1>. QED
  BY <1>2, <1>3, <1>4 DEF WaitingIsUnsent

(* One worker per type of e-mail never hands a message to the mail server  *)
(* twice: a worker about to send holds a message that was not sent, after  *)
(* every death and lost database.                                          *)
THEOREM MailsAreSentOnce ==
  ASSUME OneWorkerPerLane
  PROVE  Spec => []MailSentOnce
<1>. DEFINE Inv == HeldInLane /\ MeasuredHasRun /\ SingleMeasurement /\ DoneInHand /\ WaitingIsUnsent
<1>1. Init => Inv
  BY DEF Init, HeldInLane, MeasuredHasRun, SingleMeasurement, Measuring, DoneInHand,
         WaitingIsUnsent
<1>2. TypeOK /\ Inv /\ [Next]_vars => Inv'
  BY HeldStep, MeasurementStep, DoneStep, UnsentStep
<1>3. Inv => MailSentOnce
  BY DEF WaitingIsUnsent, MailSentOnce
<1>. HIDE DEF Inv
<1>. QED
  BY <1>1, <1>2, <1>3, TypeCorrect, PTL DEF Spec

-----------------------------------------------------------------------------
(* No overtaking. The ids are handed out in order, so that a row inserted  *)
(* later is never an older one.                                            *)
IdsInOrder ==
  \A i, j \in Jobs : i < j /\ rows[i].state = "NONE" => rows[j].state = "NONE"

(* The steps of a worker before the UPDATE to RUNNING.                     *)
Picked == {"fetched", "ready", "checked"}

(* From the SELECT to the UPDATE of the outcome, no older row of the lane  *)
(* waits.                                                                  *)
OldestInHand ==
  \A w \in Workers, i \in Jobs :
    pc[w] \in Picked \cup Executing /\ i < job[w] /\ rows[i].lane = LaneOf[w]
      => rows[i].state # "WAITING"

(* An INSERT takes the least free id and makes its row WAITING.            *)
LEMMA InsertsLeastId ==
  ASSUME TypeOK, NEW l \in Lanes, NEW e \in BOOLEAN, InsertRow(l, e),
         NEW j \in Jobs, rows'[j] # rows[j]
  PROVE  FreeId(j)
  BY DEF InsertRow, TypeOK

(* A free row is taken by an INSERT only: every UPDATE is of a row that is *)
(* there.                                                                  *)
LEMMA NewRowStep ==
  ASSUME TypeOK, HeldInLane, [Next]_vars,
         NEW j \in Jobs, rows[j].state = "NONE", rows'[j] # rows[j]
  PROVE  FreeId(j)
<1>1. CASE Submit
  BY <1>1, InsertsLeastId, LanesAssumption DEF Submit
<1>2. ASSUME NEW i \in Jobs, CancelRead(i) \/ CancelWrite(i)
      PROVE  FALSE
  <2>1. CASE CancelRead(i)
    BY <2>1 DEF CancelRead
  <2>2. CASE CancelWrite(i)
    BY <2>2, UpdateLemma DEF CancelWrite, HeldInLane, TypeOK, RowStates, Terminal
  <2>. QED
    BY <1>2, <2>1, <2>2
<1>3. ASSUME NEW w \in Workers, GetJob(w)
      PROVE  FALSE
  BY <1>3, PurgeLemma DEF GetJob, Fetched, TypeOK, Over, State, Terminal
<1>4. ASSUME NEW w \in Workers,
             SetRunning(w) \/ SetFinished(w) \/ SetWaiting(w) \/ SetFailed(w) \/ AnswerIsLost(w)
      PROVE  FALSE
  <2>1. job[w] \in Jobs /\ rows[job[w]].state # "NONE"
    BY <1>4, HeldIsJob
    DEF SetRunning, SetFinished, SetWaiting, SetFailed, AnswerIsLost, Goto, HeldInLane
  <2>. QED
    BY <1>4, <2>1, UpdateLemma
    DEF SetRunning, SetFinished, SetWaiting, SetFailed, AnswerIsLost, TypeOK, RowStates,
        Terminal
<1>5. ASSUME NEW w \in Workers, QueueReport(w) \/ NotifyFailure(w)
      PROVE  FreeId(j)
  BY <1>5, InsertsLeastId, LanesAssumption DEF QueueReport, NotifyFailure, FailureNotice
<1>6. CASE UNCHANGED rows
  BY <1>6
<1>. QED
  BY <1>1, <1>2, <1>3, <1>4, <1>5, <1>6
  DEF Next, Outcome, Work, ClientSkip, ClientRevalidate, ClientProceed, CheckJobRunning,
      SendMail, InitializeRun, SoftFail, RunCompletes, WrapUp, Raise, Die, DatabaseGivesUp, vars

(* Ids are handed out in order, and no row becomes free again.             *)
LEMMA IdsStep == TypeOK /\ HeldInLane /\ IdsInOrder /\ [Next]_vars => IdsInOrder'
<1>. SUFFICES ASSUME TypeOK, HeldInLane, IdsInOrder, [Next]_vars,
                     NEW i \in Jobs, NEW j \in Jobs, i < j, rows'[i].state = "NONE"
              PROVE  rows'[j].state = "NONE"
  BY DEF IdsInOrder
<1>1. rows[i].state = "NONE"
  <2>1. ASSUME NEW w \in Workers, PutsBack(w), job[w] = i
        PROVE  FALSE
    BY <2>1, UpdateLemma DEF PutsBack, TypeOK, RowStates
  <2>. QED
    BY <2>1, WaitingStep
<1>2. rows[j].state = "NONE"
  BY <1>1 DEF IdsInOrder
<1>3. ~FreeId(j)
  BY <1>1 DEF FreeId, State
<1>. QED
  BY <1>2, <1>3, NewRowStep

(* How a worker comes to the steps up to the UPDATE of the outcome.        *)
LEMMA PickedStep ==
  ASSUME TypeOK, [Next]_vars, NEW w \in Workers, pc'[w] \in Picked \cup Executing
  PROVE  \/ /\ pc[w] \in Picked \cup Executing
            /\ job'[w] = job[w]
            /\ ~PutsBack(w)
         \/ GetJob(w) /\ NextInLane(LaneOf[w], job'[w])
<1>. DEFINE Goal == \/ pc[w] \in Picked \cup Executing /\ job'[w] = job[w]
                    \/ GetJob(w) /\ NextInLane(LaneOf[w], job'[w])
<1>. ~PutsBack(w)
  BY DEF PutsBack, Picked, Executing
<1>1. CASE Submit \/ \E j \in Jobs : CancelRead(j) \/ CancelWrite(j)
  BY <1>1 DEF Submit, CancelRead, CancelWrite
<1>2. ASSUME NEW v \in Workers, GetJob(v)
      PROVE  Goal
  BY <1>2 DEF GetJob, Fetched, TypeOK, Picked, Executing
<1>3. ASSUME NEW v \in Workers,
             \/ ClientSkip(v) \/ ClientRevalidate(v) \/ ClientProceed(v)
             \/ CheckJobRunning(v) \/ SetRunning(v)
      PROVE  Goal
  BY <1>3 DEF ClientSkip, ClientRevalidate, ClientProceed, CheckJobRunning, SetRunning,
              Goto, TypeOK, Picked, Executing
<1>4. ASSUME NEW v \in Workers, Work(v)
      PROVE  Goal
  BY <1>4 DEF Work, SendMail, InitializeRun, SoftFail, RunCompletes, QueueReport, WrapUp,
              Raise, Goto, TypeOK, Picked, Executing
<1>5. ASSUME NEW v \in Workers, Outcome(v) \/ Die(v) \/ DatabaseGivesUp(v) \/ AnswerIsLost(v)
      PROVE  Goal
  BY <1>5 DEF Outcome, SetFinished, SetWaiting, SetFailed, AnswerIsLost, NotifyFailure,
              FailureNotice, Die,
              DatabaseGivesUp, Goto, TypeOK, Picked, Executing
<1>6. CASE UNCHANGED vars
  BY <1>6 DEF vars
<1>. QED
  BY <1>1, <1>2, <1>3, <1>4, <1>5, <1>6 DEF Next

(* With 'fifo' and one worker per lane, what a worker has picked stays the *)
(* oldest: only the worker itself puts a row of the lane back to WAITING.  *)
LEMMA OldestStep ==
  ASSUME OneWorkerPerLane, Fifo
  PROVE  TypeOK /\ HeldInLane /\ IdsInOrder /\ OldestInHand /\ [Next]_vars => OldestInHand'
<1>. SUFFICES ASSUME TypeOK, HeldInLane, IdsInOrder, OldestInHand, [Next]_vars,
                     NEW w \in Workers, NEW i \in Jobs,
                     pc'[w] \in Picked \cup Executing, i < job'[w],
                     rows'[i].lane = LaneOf[w], rows'[i].state = "WAITING"
              PROVE  FALSE
  BY DEF OldestInHand
<1>1. CASE pc[w] \in Picked \cup Executing /\ job'[w] = job[w] /\ ~PutsBack(w)
  <2>1. job[w] \in Jobs /\ rows[job[w]].state # "NONE" /\ rows[job[w]].lane = LaneOf[w]
    BY <1>1, HeldIsJob DEF HeldInLane, Picked, Executing
  <2>2. CASE rows'[i] = rows[i]
    BY <1>1, <2>2 DEF OldestInHand
  <2>3. CASE rows[i].state = "NONE"
    BY <1>1, <2>1, <2>3 DEF IdsInOrder
  <2>4. ASSUME NEW v \in Workers, PutsBack(v), job[v] = i
        PROVE  FALSE
    <3>1. rows'[i].lane = rows[i].lane
      BY <2>4, UpdateLemma DEF PutsBack, TypeOK, RowStates
    <3>2. LaneOf[v] = LaneOf[w]
      BY <2>4, <3>1 DEF PutsBack, HeldInLane
    <3>. QED
      BY <1>1, <2>4, <3>2 DEF OneWorkerPerLane
  <2>. QED
    BY <2>2, <2>3, <2>4, WaitingStep
<1>2. CASE GetJob(w) /\ NextInLane(LaneOf[w], job'[w])
  <2>1. rows'[i] = rows[i]
    BY <1>2, PurgeLemma DEF GetJob, Fetched, TypeOK
  <2>2. i \in Waiting(LaneOf[w]) /\ job'[w] \in Jobs
    BY <1>2, <2>1 DEF Waiting, NextInLane, State
  <2>3. job'[w] <= i
    BY <1>2, <2>2, Zenon DEF NextInLane
  <2>4. i \in Nat /\ job'[w] \in Nat
    BY <2>2, JobsAssumption
  <2>. QED
    BY <2>3, <2>4
<1>. QED
  BY <1>1, <1>2, PickedStep

(* With 'fifo' and one worker per lane, what is being executed is the      *)
(* oldest job of its lane that waits, whatever is re-queued, submitted or  *)
(* cancelled between the SELECT and the end.                               *)
THEOREM OldestGoesFirst ==
  ASSUME OneWorkerPerLane
  PROVE  Spec => []NoOvertaking
<1>1. CASE Fifo
  <2>1. Init => HeldInLane /\ IdsInOrder /\ OldestInHand
    BY DEF Init, HeldInLane, IdsInOrder, OldestInHand, Picked, Executing
  <2>2. TypeOK /\ (HeldInLane /\ IdsInOrder /\ OldestInHand) /\ [Next]_vars
          => (HeldInLane /\ IdsInOrder /\ OldestInHand)'
    BY <1>1, HeldStep, IdsStep, OldestStep
  <2>3. OldestInHand => NoOvertaking
    BY DEF OldestInHand, NoOvertaking, State
  <2>. QED
    BY <2>1, <2>2, <2>3, TypeCorrect, PTL DEF Spec
<1>2. CASE ~Fifo
  <2>1. NoOvertaking
    BY <1>2 DEF NoOvertaking
  <2>. QED
    BY <2>1, PTL
<1>. QED
  BY <1>1, <1>2, BoundsAssumption

-----------------------------------------------------------------------------
(* The refinement of JobLane. What the table says of a row in a worker's   *)
(* hands before it is started, and until its outcome is written; FINISHED  *)
(* when the UPDATE went through and its answer was lost.                   *)
Unstarted == {"fetched", "ready", "checked", "refusing"}

HeldStates ==
  \A w \in Workers :
    /\ pc[w] \in Unstarted => rows[job[w]].state \in {"WAITING", "CANCELLED"}
    /\ pc[w] \in Executing => rows[job[w]].state \in {"RUNNING", "CANCELLED", "FINISHED"}

(* With one worker per lane a job is in the hands of one worker at most.   *)
LEMMA OneHolder ==
  ASSUME OneWorkerPerLane, TypeOK, HeldInLane,
         NEW v \in Workers, NEW w \in Workers,
         pc[v] # "idle", pc[w] # "idle", job[v] = job[w]
  PROVE  v = w
  BY DEF HeldInLane, OneWorkerPerLane

(* An UPDATE of an outcome or of the start is the holder's own.            *)
Writes(w) == SetRunning(w) \/ SetFinished(w) \/ SetWaiting(w) \/ SetFailed(w) \/ AnswerIsLost(w)

(* The row a worker holds changes by its own UPDATEs and by cancellation.  *)
LEMMA OthersStep ==
  ASSUME OneWorkerPerLane, TypeOK, HeldInLane, [Next]_vars,
         NEW w \in Workers, pc[w] # "idle", ~Writes(w)
  PROVE  rows'[job[w]].state \in {rows[job[w]].state, "CANCELLED"}
<1>. DEFINE Goal == rows'[job[w]].state \in {rows[job[w]].state, "CANCELLED"}
<1>0. job[w] \in Jobs /\ rows[job[w]].state # "NONE"
  BY HeldIsJob DEF HeldInLane
<1>1. CASE Submit
  BY <1>0, <1>1, InsertLemma, LanesAssumption DEF Submit, TypeOK
<1>2. ASSUME NEW i \in Jobs, CancelRead(i) \/ CancelWrite(i)
      PROVE  Goal
  BY <1>0, <1>2, UpdateLemma DEF CancelRead, CancelWrite, TypeOK, RowStates, Terminal
<1>3. ASSUME NEW v \in Workers, GetJob(v)
      PROVE  Goal
  BY <1>0, <1>3, PurgeLemma DEF GetJob, Fetched, TypeOK, Over, Held, Holds
<1>4. ASSUME NEW v \in Workers, Writes(v)
      PROVE  Goal
  <2>1. v # w /\ pc[v] # "idle"
    BY <1>4 DEF Writes, SetRunning, SetFinished, SetWaiting, SetFailed, AnswerIsLost, Goto
  <2>2. job[v] # job[w]
    BY <2>1, OneHolder
  <2>. QED
    BY <1>0, <1>4, <2>1, <2>2, UpdateLemma, HeldIsJob
    DEF Writes, SetRunning, SetFinished, SetWaiting, SetFailed, AnswerIsLost, TypeOK,
        RowStates, Terminal
<1>5. ASSUME NEW v \in Workers, QueueReport(v) \/ NotifyFailure(v)
      PROVE  Goal
  BY <1>0, <1>5, InsertLemma, LanesAssumption DEF QueueReport, NotifyFailure, FailureNotice,
                                                  TypeOK
<1>6. CASE UNCHANGED rows
  BY <1>6
<1>. QED
  BY <1>1, <1>2, <1>3, <1>4, <1>5, <1>6
  DEF Writes, Next, Outcome, Work, ClientSkip, ClientRevalidate, ClientProceed,
      CheckJobRunning, SendMail, InitializeRun, SoftFail, RunCompletes, WrapUp, Raise, Die,
      DatabaseGivesUp, vars

(* How a worker comes to a step before the start, or to one of the         *)
(* execution.                                                              *)
LEMMA HandStep ==
  ASSUME TypeOK, [Next]_vars, NEW w \in Workers
  PROVE  /\ pc'[w] \in Unstarted =>
              \/ pc[w] \in Unstarted /\ job'[w] = job[w] /\ ~Writes(w)
              \/ GetJob(w) /\ NextInLane(LaneOf[w], job'[w])
         /\ pc'[w] \in Executing =>
              \/ pc[w] \in Executing /\ job'[w] = job[w] /\ ~Writes(w)
              \/ SetRunning(w) /\ job'[w] = job[w]
              \/ AnswerIsLost(w) /\ pc[w] = "finishing" /\ job'[w] = job[w]
<1>. DEFINE Goal == /\ pc'[w] \in Unstarted =>
                         \/ pc[w] \in Unstarted /\ job'[w] = job[w] /\ ~Writes(w)
                         \/ GetJob(w) /\ NextInLane(LaneOf[w], job'[w])
                    /\ pc'[w] \in Executing =>
                         \/ pc[w] \in Executing /\ job'[w] = job[w] /\ ~Writes(w)
                         \/ SetRunning(w) /\ job'[w] = job[w]
                         \/ AnswerIsLost(w) /\ pc[w] = "finishing" /\ job'[w] = job[w]
<1>0. /\ pc'[w] \in Unstarted => ~Writes(w)
      /\ pc'[w] \in Executing =>
           ~Writes(w) \/ SetRunning(w) \/ (AnswerIsLost(w) /\ pc[w] = "finishing")
  BY DEF Writes, SetRunning, SetFinished, SetWaiting, SetFailed, AnswerIsLost, Goto, TypeOK,
         Unstarted,
         Executing
<1>1. CASE Submit \/ \E j \in Jobs : CancelRead(j) \/ CancelWrite(j)
  <2>1. pc' = pc /\ job' = job
    BY <1>1 DEF Submit, CancelRead, CancelWrite
  <2>2. ~SetRunning(w) /\ ~AnswerIsLost(w)
    BY <2>1 DEF SetRunning, AnswerIsLost, Goto, TypeOK
  <2>. QED
    BY <1>0, <2>1, <2>2
<1>2. ASSUME NEW v \in Workers, GetJob(v)
      PROVE  Goal
  BY <1>0, <1>2 DEF GetJob, Fetched, TypeOK, Unstarted, Executing
<1>3. ASSUME NEW v \in Workers,
             ClientSkip(v) \/ ClientRevalidate(v) \/ ClientProceed(v) \/ CheckJobRunning(v)
      PROVE  Goal
  BY <1>0, <1>3 DEF ClientSkip, ClientRevalidate, ClientProceed, CheckJobRunning, Goto,
                    TypeOK, Unstarted, Executing
<1>4. ASSUME NEW v \in Workers, SetRunning(v)
      PROVE  Goal
  BY <1>0, <1>4 DEF SetRunning, Goto, TypeOK, Unstarted, Executing
<1>5. ASSUME NEW v \in Workers, Work(v)
      PROVE  Goal
  BY <1>0, <1>5 DEF Work, SendMail, InitializeRun, SoftFail, RunCompletes, QueueReport, WrapUp,
              Raise, Goto, TypeOK, Unstarted, Executing
<1>6. ASSUME NEW v \in Workers, Outcome(v) \/ Die(v) \/ DatabaseGivesUp(v) \/ AnswerIsLost(v)
      PROVE  Goal
  BY <1>0, <1>6 DEF Outcome, SetFinished, SetWaiting, SetFailed, AnswerIsLost, NotifyFailure,
                    FailureNotice, Die,
              DatabaseGivesUp, Goto, TypeOK, Unstarted, Executing
<1>7. CASE UNCHANGED vars
  BY <1>0, <1>7 DEF vars
<1>. QED
  BY <1>1, <1>2, <1>3, <1>4, <1>5, <1>6, <1>7 DEF Next

(* A job that is not started waits or was cancelled late; one that is      *)
(* executed runs or was cancelled late.                                    *)
LEMMA HeldStatesStep ==
  ASSUME OneWorkerPerLane
  PROVE  TypeOK /\ HeldInLane /\ HeldStates /\ [Next]_vars => HeldStates'
<1>. SUFFICES ASSUME TypeOK, HeldInLane, HeldStates, [Next]_vars, NEW w \in Workers
              PROVE  /\ pc'[w] \in Unstarted =>
                          rows'[job'[w]].state \in {"WAITING", "CANCELLED"}
                     /\ pc'[w] \in Executing =>
                          rows'[job'[w]].state \in {"RUNNING", "CANCELLED", "FINISHED"}
  BY DEF HeldStates
<1>1. CASE pc[w] \in Unstarted /\ job'[w] = job[w] /\ ~Writes(w)
  <2>1. pc[w] # "idle" /\ pc'[w] \notin Executing
    BY <1>1, HandStep DEF Unstarted, Executing, Writes
  <2>. QED
    BY <1>1, <2>1, OthersStep DEF HeldStates
<1>2. CASE pc[w] \in Executing /\ job'[w] = job[w] /\ ~Writes(w)
  <2>1. pc[w] # "idle" /\ (pc'[w] \notin Unstarted \/ pc[w] \in Unstarted)
    BY <1>2, HandStep DEF Unstarted, Executing, GetJob, Fetched
  <2>2. pc[w] \notin Unstarted
    BY <1>2 DEF Unstarted, Executing
  <2>. QED
    BY <1>2, <2>1, <2>2, OthersStep DEF HeldStates
<1>3. CASE GetJob(w) /\ NextInLane(LaneOf[w], job'[w])
  <2>1. rows'[job'[w]].state = "WAITING"
    BY <1>3, PurgeLemma DEF GetJob, Fetched, TypeOK, NextInLane, Waiting, State, Over, Terminal
  <2>2. pc'[w] \notin Executing
    BY <1>3 DEF GetJob, Fetched, TypeOK, Executing
  <2>. QED
    BY <2>1, <2>2
<1>4. CASE SetRunning(w) /\ job'[w] = job[w]
  <2>1. rows'[job[w]].state = "RUNNING"
    BY <1>4, UpdateLemma, HeldIsJob DEF SetRunning, Goto, TypeOK, RowStates
  <2>2. pc'[w] \notin Unstarted
    BY <1>4 DEF SetRunning, Goto, TypeOK, Unstarted
  <2>. QED
    BY <1>4, <2>1, <2>2
<1>5. CASE AnswerIsLost(w) /\ pc[w] = "finishing" /\ job'[w] = job[w]
  <2>1. rows'[job[w]].state = "FINISHED"
    BY <1>5, UpdateLemma, HeldIsJob DEF AnswerIsLost, Goto, TypeOK, RowStates, Terminal
  <2>2. pc'[w] \notin Unstarted
    BY <1>5 DEF AnswerIsLost, Goto, TypeOK, Unstarted
  <2>. QED
    BY <1>5, <2>1, <2>2
<1>. QED
  BY <1>1, <1>2, <1>3, <1>4, <1>5, HandStep

(* What JobLane sees of a row in nobody's hands, or in those of a worker   *)
(* that has only the requester left to notify.                             *)
Resting(s) ==
  IF s = "NONE" THEN "absent"
  ELSE IF s = "RUNNING" THEN "stuck"
  ELSE IF s = "WAITING" THEN "queued"
  ELSE "over"

(* The conditions under which the mapping says what is meant.              *)
LaneInv ==
  OneWorkerPerLane /\ TypeOK /\ HeldInLane /\ HeldStates /\ CheckedIsClear

(* The phase of every job, by who has it in hand.                          *)
PhaseByHolder ==
  \A j \in Jobs :
    /\ \A w \in Workers : job[w] = j =>
         /\ pc[w] \in Executing => Phase(j) = "executing"
         /\ pc[w] \in Unstarted => Phase(j) = "claimed"
         /\ pc[w] = "notifying" => Phase(j) = Resting(rows[j].state)
    /\ ~Held(j) => Phase(j) = Resting(rows[j].state)

(* The mapping, read off the one holder a job can have.                    *)
LEMMA PhaseLemma == LaneInv => PhaseByHolder
<1>. SUFFICES ASSUME LaneInv, NEW j \in Jobs
              PROVE  /\ \A w \in Workers : job[w] = j =>
                          /\ pc[w] \in Executing => Phase(j) = "executing"
                          /\ pc[w] \in Unstarted => Phase(j) = "claimed"
                          /\ pc[w] = "notifying" => Phase(j) = Resting(rows[j].state)
                     /\ ~Held(j) => Phase(j) = Resting(rows[j].state)
  BY DEF PhaseByHolder
<1>. USE DEF LaneInv
<1>1. ASSUME NEW w \in Workers, job[w] = j, pc[w] \in Executing
      PROVE  Phase(j) = "executing"
  BY <1>1 DEF Phase
<1>2. ASSUME NEW w \in Workers, job[w] = j, pc[w] \in Unstarted
      PROVE  Phase(j) = "claimed"
  <2>1. ~\E v \in Workers : job[v] = j /\ pc[v] \in Executing
    BY <1>2, OneHolder DEF Unstarted, Executing
  <2>2. rows[j].state \notin {"NONE", "RUNNING"} /\ pc[w] # "notifying"
    BY <1>2 DEF HeldStates, Unstarted
  <2>. QED
    BY <1>2, <2>1, <2>2 DEF Phase, State
<1>3. ASSUME NEW w \in Workers, job[w] = j, pc[w] = "notifying"
      PROVE  Phase(j) = Resting(rows[j].state)
  <2>1. \A v \in Workers : job[v] = j => pc[v] = "notifying"
    BY <1>3, OneHolder DEF TypeOK
  <2>2. /\ ~\E v \in Workers : job[v] = j /\ pc[v] \in Executing
        /\ ~\E v \in Workers : job[v] = j /\ pc[v] # "notifying"
    BY <2>1 DEF Executing
  <2>. QED
    BY <2>2 DEF Phase, State, Resting
<1>4. ASSUME ~Held(j)
      PROVE  Phase(j) = Resting(rows[j].state)
  <2>1. \A v \in Workers : job[v] # j
    BY <1>4, JobsAssumption DEF Held, Holds, TypeOK, NoJob
  <2>. QED
    BY <2>1 DEF Phase, State, Resting
<1>. QED
  BY <1>1, <1>2, <1>3, <1>4

(* A job whose row and whose holder stay as they are keeps its phase.      *)
LEMMA PhaseKept ==
  ASSUME NEW j \in Jobs, rows'[j].state = rows[j].state,
         \A v \in Workers : job[v] = j \/ job'[v] = j => pc'[v] = pc[v] /\ job'[v] = job[v]
  PROVE  Phase(j)' = Phase(j)
  BY DEF Phase, State

(* A step that changes the phase of one job and no lane is a Move.         *)
LEMMA ServerMove ==
  ASSUME NEW j \in Jobs, NEW from, NEW to,
         Phase(j) = from, Phase(j)' = to,
         \A i \in Jobs \ {j} : Phase(i)' = Phase(i),
         \A i \in Jobs : rows'[i].lane = rows[i].lane
  PROVE  Server!Move(j, from, to)
  BY DEF Server!Move

(* A step that changes no phase and no lane is a stutter.                  *)
LEMMA ServerStutter ==
  ASSUME \A i \in Jobs : Phase(i)' = Phase(i),
         \A i \in Jobs : rows'[i].lane = rows[i].lane
  PROVE  UNCHANGED Server!lvars
  BY DEF Server!lvars

(* An INSERT enqueues a job, or is beyond the ids that are tracked.        *)
LEMMA ServerInsert ==
  ASSUME LaneInv, LaneInv', NEW l \in Lanes, NEW e \in BOOLEAN, InsertRow(l, e),
         \A i \in Jobs : rows[i].state # "NONE" => Phase(i)' = Phase(i),
         \A w \in Workers : job'[w] \in {job[w], NoJob}
  PROVE  [Server!Next]_(Server!lvars)
<1>. PhaseByHolder /\ PhaseByHolder'
  BY PhaseLemma, PTL
<1>0. ASSUME NEW i \in Jobs, rows[i].state = "NONE"
      PROVE  Phase(i) = "absent" /\ Phase(i)' = Resting(rows'[i].state)
  <2>1. ~Held(i)
    BY <1>0 DEF LaneInv, HeldInLane, Held, Holds
  <2>2. ~Held(i)'
    BY <2>1, JobsAssumption DEF Held, Holds, LaneInv, TypeOK, NoJob
  <2>. QED
    BY <1>0, <2>1, <2>2 DEF PhaseByHolder, Resting
<1>1. CASE UNCHANGED rows
  <2>1. \A i \in Jobs : Phase(i)' = Phase(i)
    BY <1>0, <1>1 DEF Resting
  <2>. QED
    BY <1>1, <2>1, ServerStutter
<1>2. ASSUME NEW j \in Jobs, FreeId(j),
             rows' = [rows EXCEPT ![j] = [state |-> "WAITING", lane |-> l, email |-> e]]
      PROVE  Server!Next
  <2>1. Phase(j) = "absent" /\ Phase(j)' = "queued"
    BY <1>0, <1>2 DEF FreeId, State, Resting, LaneInv, TypeOK
  <2>2. \A i \in Jobs \ {j} : Phase(i)' = Phase(i) /\ rows'[i] = rows[i]
    BY <1>0, <1>2 DEF Resting, LaneInv, TypeOK
  <2>3. rows'[j].lane = l
    BY <1>2 DEF LaneInv, TypeOK
  <2>4. Server!Enqueue(j)
    BY <2>1, <2>2, <2>3 DEF Server!Enqueue
  <2>. QED
    BY <2>4 DEF Server!Next
<1>. QED
  BY <1>1, <1>2 DEF InsertRow

(* What a step of one worker on the job it holds does to the phases.       *)
LEMMA HandPhases ==
  ASSUME LaneInv, LaneInv', NEW w \in Workers, NEW j \in Jobs,
         job[w] = j, pc[w] # "idle",
         \A v \in Workers \ {w} : pc'[v] = pc[v] /\ job'[v] = job[v],
         job'[w] = IF pc'[w] = "idle" THEN NoJob ELSE j,
         \A i \in Jobs \ {j} : rows'[i].state = rows[i].state
  PROVE  /\ pc[w] \in Executing => Phase(j) = "executing"
         /\ pc[w] \in Unstarted => Phase(j) = "claimed"
         /\ pc[w] = "notifying" => Phase(j) = Resting(rows[j].state)
         /\ pc'[w] \in Executing => Phase(j)' = "executing"
         /\ pc'[w] \in Unstarted => Phase(j)' = "claimed"
         /\ pc'[w] \in {"idle", "notifying"} => Phase(j)' = Resting(rows'[j].state)
         /\ \A i \in Jobs \ {j} : Phase(i)' = Phase(i)
<1>. PhaseByHolder /\ PhaseByHolder'
  BY PhaseLemma, PTL
<1>1. \A i \in Jobs \ {j} : Phase(i)' = Phase(i)
  BY PhaseKept, JobsAssumption DEF NoJob
<1>2. ASSUME pc'[w] = "idle"
      PROVE  ~Held(j)'
  <2>1. \A v \in Workers \ {w} : pc[v] # "idle" => job[v] # j
    BY OneHolder DEF LaneInv
  <2>. QED
    BY <1>2, <2>1 DEF Held, Holds
<1>3. pc'[w] # "idle" => job'[w] = j
  OBVIOUS
<1>4. /\ pc'[w] \in Executing => Phase(j)' = "executing"
      /\ pc'[w] \in Unstarted => Phase(j)' = "claimed"
      /\ pc'[w] = "notifying" => Phase(j)' = Resting(rows'[j].state)
  BY <1>3 DEF PhaseByHolder, Executing, Unstarted
<1>5. pc'[w] = "idle" => Phase(j)' = Resting(rows'[j].state)
  BY <1>2 DEF PhaseByHolder
<1>. QED
  BY <1>1, <1>4, <1>5 DEF PhaseByHolder

(* What a job's phase can be when nobody executes it: a withdrawal or a    *)
(* stutter, read off the row.                                              *)
LEMMA ServerCancel ==
  ASSUME LaneInv, LaneInv', NEW j \in Jobs, CancelWrite(j)
  PROVE  [Server!Next]_(Server!lvars)
<1>. PhaseByHolder /\ PhaseByHolder'
  BY PhaseLemma, PTL
<1>1. /\ rows[j].state \notin {"NONE", "DELETED"}
      /\ rows'[j].state = "CANCELLED"
      /\ \A i \in Jobs \ {j} : rows'[i] = rows[i]
      /\ \A i \in Jobs : rows'[i].lane = rows[i].lane
      /\ pc' = pc /\ job' = job
  BY UpdateLemma DEF CancelWrite, LaneInv, HeldInLane, TypeOK, RowStates, Terminal
<1>2. \A i \in Jobs \ {j} : Phase(i)' = Phase(i)
  BY <1>1, PhaseKept
<1>3. ASSUME NEW w \in Workers, job[w] = j, pc[w] \in Executing \cup Unstarted
      PROVE  Phase(j)' = Phase(j)
  BY <1>1, <1>3 DEF PhaseByHolder
<1>4. ASSUME \A w \in Workers : job[w] = j => pc[w] \notin Executing \cup Unstarted
      PROVE  Phase(j) = Resting(rows[j].state) /\ Phase(j)' = "over"
  <2>1. \A w \in Workers : pc[w] # "idle" /\ job[w] = j => pc[w] = "notifying"
    BY <1>4 DEF LaneInv, TypeOK, PCs, Executing, Unstarted
  <2>2. CASE Held(j)
    BY <1>1, <2>1, <2>2 DEF PhaseByHolder, Held, Holds, Resting
  <2>3. CASE ~Held(j)
    <3>1. ~Held(j)'
      BY <1>1, <2>3 DEF Held, Holds
    <3>. QED
      BY <1>1, <2>3, <3>1 DEF PhaseByHolder, Resting
  <2>. QED
    BY <2>2, <2>3
<1>5. CASE Phase(j)' = Phase(j)
  BY <1>1, <1>2, <1>5, ServerStutter
<1>6. CASE Phase(j) \in {"queued", "stuck"} /\ Phase(j)' = "over"
  <2>1. Server!Move(j, "queued", "over") \/ Server!Move(j, "stuck", "over")
    BY <1>1, <1>2, <1>6, ServerMove
  <2>. QED
    BY <2>1 DEF Server!Next, Server!Withdraw
<1>7. Resting(rows[j].state) \in {"queued", "stuck", "over"}
  BY <1>1 DEF Resting
<1>. QED
  BY <1>3, <1>4, <1>5, <1>6, <1>7

(* The SELECT claims a queued job, and the rows deleted with it are over.  *)
LEMMA ServerClaim ==
  ASSUME LaneInv, LaneInv', NEW w \in Workers, GetJob(w)
  PROVE  [Server!Next]_(Server!lvars)
<1>. PhaseByHolder /\ PhaseByHolder'
  BY PhaseLemma, PTL
<1>1. PICK D \in SUBSET Purgeable : rows' = Purged(D)
  BY DEF GetJob, Fetched
<1>2. \A i \in Jobs : rows'[i].lane = rows[i].lane
  BY <1>1, PurgeLemma DEF LaneInv, TypeOK
<1>3. \A v \in Workers \ {w} : pc'[v] = pc[v] /\ job'[v] = job[v]
  BY DEF GetJob, Fetched, LaneInv, TypeOK
<1>4. pc[w] = "idle" /\ job[w] = NoJob
  BY DEF GetJob, Fetched, LaneInv, TypeOK
<1>5. ASSUME NEW i \in Jobs, i # job'[w]
      PROVE  Phase(i)' = Phase(i)
  <2>1. CASE i \in D
    <3>1. rows[i].state \in Terminal /\ ~Held(i) /\ rows'[i].state = "DELETED"
      BY <1>1, <2>1, PurgeLemma DEF LaneInv, TypeOK, Over, State
    <3>2. ~Held(i)'
      BY <1>3, <1>5, <3>1 DEF Held, Holds
    <3>. QED
      BY <3>1, <3>2 DEF PhaseByHolder, Resting, Terminal
  <2>2. CASE i \notin D
    <3>1. rows'[i].state = rows[i].state
      BY <1>1, <2>2, PurgeLemma DEF LaneInv, TypeOK
    <3>2. job[w] # i
      BY <1>4, JobsAssumption DEF NoJob
    <3>. QED
      BY <1>3, <1>5, <3>1, <3>2, PhaseKept
  <2>. QED
    BY <2>1, <2>2
<1>6. CASE UNCHANGED job
  <2>1. \A i \in Jobs : i # job'[w]
    BY <1>4, <1>6, JobsAssumption DEF NoJob
  <2>. QED
    BY <1>2, <1>5, <2>1, ServerStutter
<1>7. ASSUME NEW j \in Jobs, NextInLane(LaneOf[w], j), job' = [job EXCEPT ![w] = j],
             pc' = [pc EXCEPT ![w] = IF w \in Clients THEN "fetched" ELSE "ready"]
      PROVE  Server!Next
  <2>1. rows[j].state = "WAITING" /\ rows[j].lane = LaneOf[w]
    BY <1>7 DEF NextInLane, Waiting, State
  <2>2. ~Held(j)
    <3>1. \A v \in Workers : pc[v] # "idle" /\ job[v] = j => v = w
      BY <2>1 DEF LaneInv, HeldInLane, OneWorkerPerLane
    <3>. QED
      BY <1>4, <3>1 DEF Held, Holds
  <2>3. Phase(j) = "queued"
    BY <2>1, <2>2 DEF PhaseByHolder, Resting
  <2>4. job'[w] = j /\ pc'[w] \in Unstarted
    BY <1>7 DEF LaneInv, TypeOK, Unstarted
  <2>5. Phase(j)' = "claimed"
    BY <2>4 DEF PhaseByHolder
  <2>6. Server!Move(j, "queued", "claimed")
    BY <1>2, <1>5, <2>3, <2>4, <2>5, ServerMove
  <2>. QED
    BY <2>6 DEF Server!Next, Server!Claim
<1>. QED
  BY <1>6, <1>7 DEF GetJob, Fetched

(* Only a clear lane starts a job: nobody executes in it, and none of its  *)
(* rows is stuck.                                                          *)
LEMMA ServerStart ==
  ASSUME LaneInv, LaneInv', NEW w \in Workers, SetRunning(w)
  PROVE  Server!Next
<1>. PhaseByHolder /\ PhaseByHolder'
  BY PhaseLemma, PTL
<1>. DEFINE j == job[w]
<1>1. /\ j \in Jobs /\ pc[w] = "checked" /\ rows[j].lane = LaneOf[w]
      /\ pc'[w] = "executing" /\ job' = job
      /\ \A v \in Workers \ {w} : pc'[v] = pc[v]
  BY HeldIsJob DEF SetRunning, Goto, LaneInv, TypeOK, HeldInLane
<1>2. /\ \A i \in Jobs \ {j} : rows'[i].state = rows[i].state
      /\ \A i \in Jobs : rows'[i].lane = rows[i].lane
  BY <1>1, UpdateLemma DEF SetRunning, LaneInv, TypeOK, RowStates
<1>3. PICK k \in Jobs : k = j
  BY <1>1
<1>4. /\ Phase(k) = "claimed"
      /\ Phase(k)' = "executing"
      /\ \A i \in Jobs \ {k} : Phase(i)' = Phase(i)
  BY <1>1, <1>2, <1>3, HandPhases DEF Executing, Unstarted
<1>5. ASSUME NEW i \in Jobs, rows[i].lane = rows[k].lane
      PROVE  Phase(i) \notin {"executing", "stuck"}
  <2>1. rows[i].state # "RUNNING"
    BY <1>1, <1>3, <1>5 DEF LaneInv, CheckedIsClear
  <2>2. ASSUME NEW v \in Workers, pc[v] # "idle", job[v] = i
        PROVE  pc[v] \in Unstarted
    BY <1>1, <1>3, <1>5, <2>2 DEF LaneInv, HeldInLane, OneWorkerPerLane, Unstarted
  <2>3. CASE Held(i)
    BY <2>2, <2>3 DEF Held, Holds, PhaseByHolder
  <2>4. CASE ~Held(i)
    BY <2>1, <2>4 DEF PhaseByHolder, Resting
  <2>. QED
    BY <2>3, <2>4
<1>6. Server!Move(k, "claimed", "executing")
  BY <1>2, <1>3, <1>4, ServerMove
<1>7. Server!Start(k)
  BY <1>5, <1>6 DEF Server!Start, Server!Occupying
<1>. QED
  BY <1>7 DEF Server!Next

(* The steps a worker takes with the job in its hands that write no new    *)
(* row: the phase goes where the new program counter and the row say.      *)
Carries(w) ==
  \/ ClientSkip(w) \/ ClientRevalidate(w) \/ ClientProceed(w) \/ CheckJobRunning(w)
  \/ SendMail(w) \/ InitializeRun(w) \/ SoftFail(w) \/ RunCompletes(w) \/ WrapUp(w) \/ Raise(w)
  \/ SetFinished(w) \/ SetWaiting(w) \/ SetFailed(w) \/ AnswerIsLost(w)
  \/ Die(w) \/ DatabaseGivesUp(w)

(* Which program counters such a step connects, and what it writes.        *)
LEMMA CarriesStep ==
  ASSUME TypeOK, HeldInLane, NEW w \in Workers, Carries(w)
  PROVE  /\ job[w] \in Jobs /\ pc[w] # "idle"
         /\ \A v \in Workers \ {w} : pc'[v] = pc[v] /\ job'[v] = job[v]
         /\ job'[w] = IF pc'[w] = "idle" THEN NoJob ELSE job[w]
         /\ \A i \in Jobs \ {job[w]} : rows'[i] = rows[i]
         /\ \A i \in Jobs : rows'[i].lane = rows[i].lane
         /\ rows'[job[w]].state \in RowStates \ {"NONE"}
         /\ \/ pc[w] \in Unstarted /\ pc'[w] \in Unstarted
            \/ pc[w] \in Executing /\ pc'[w] \in Executing
            \/ /\ pc[w] \in Unstarted /\ pc'[w] \in {"idle", "notifying"}
               /\ rows'[job[w]].state \in {rows[job[w]].state, "FAILED"}
            \/ /\ pc[w] \in Executing /\ pc'[w] \in {"idle", "notifying"}
               /\ rows'[job[w]].state \in {rows[job[w]].state, "WAITING", "FINISHED", "FAILED"}
            \/ pc[w] = "notifying" /\ pc'[w] = "idle" /\ rows' = rows
<1>. DEFINE Goal == /\ job[w] \in Jobs /\ pc[w] # "idle"
                    /\ \A v \in Workers \ {w} : pc'[v] = pc[v] /\ job'[v] = job[v]
                    /\ job'[w] = IF pc'[w] = "idle" THEN NoJob ELSE job[w]
                    /\ \A i \in Jobs \ {job[w]} : rows'[i] = rows[i]
                    /\ \A i \in Jobs : rows'[i].lane = rows[i].lane
                    /\ rows'[job[w]].state \in RowStates \ {"NONE"}
                    /\ \/ pc[w] \in Unstarted /\ pc'[w] \in Unstarted
                       \/ pc[w] \in Executing /\ pc'[w] \in Executing
                       \/ /\ pc[w] \in Unstarted /\ pc'[w] \in {"idle", "notifying"}
                          /\ rows'[job[w]].state \in {rows[job[w]].state, "FAILED"}
                       \/ /\ pc[w] \in Executing /\ pc'[w] \in {"idle", "notifying"}
                          /\ rows'[job[w]].state \in
                               {rows[job[w]].state, "WAITING", "FINISHED", "FAILED"}
                       \/ pc[w] = "notifying" /\ pc'[w] = "idle" /\ rows' = rows
<1>. USE DEF Unstarted, Executing
<1>1. pc[w] # "idle"
  BY DEF Carries, ClientSkip, ClientRevalidate, ClientProceed, CheckJobRunning, SendMail,
         InitializeRun, SoftFail, RunCompletes, WrapUp, Raise, SetFinished, SetWaiting,
         SetFailed, AnswerIsLost, Die, DatabaseGivesUp, Goto
<1>2. job[w] \in Jobs /\ job[w] # NoJob /\ rows[job[w]].state \in RowStates \ {"NONE"}
  BY <1>1, HeldIsJob, JobsAssumption DEF HeldInLane, NoJob, TypeOK, Row
<1>3. CASE ClientSkip(w) \/ ClientRevalidate(w) \/ ClientProceed(w) \/ CheckJobRunning(w)
  BY <1>1, <1>2, <1>3 DEF ClientSkip, ClientRevalidate, ClientProceed, CheckJobRunning, Goto,
                          TypeOK
<1>4. CASE \/ SendMail(w) \/ InitializeRun(w) \/ SoftFail(w) \/ RunCompletes(w)
           \/ WrapUp(w) \/ Raise(w)
  BY <1>1, <1>2, <1>4 DEF SendMail, InitializeRun, SoftFail, RunCompletes, WrapUp, Raise, Goto,
                          TypeOK
<1>5. CASE SetFinished(w) \/ SetWaiting(w) \/ SetFailed(w) \/ AnswerIsLost(w)
  <2>1. /\ rows'[job[w]].state \in {"FINISHED", "WAITING", "FAILED"}
        /\ SetFailed(w) => rows'[job[w]].state = "FAILED"
        /\ \A i \in Jobs \ {job[w]} : rows'[i] = rows[i]
        /\ \A i \in Jobs : rows'[i].lane = rows[i].lane
    BY <1>2, <1>5, UpdateLemma
    DEF SetFinished, SetWaiting, SetFailed, AnswerIsLost, TypeOK, RowStates, Terminal
  <2>2. /\ \A v \in Workers \ {w} : pc'[v] = pc[v] /\ job'[v] = job[v]
        /\ job'[w] = IF pc'[w] = "idle" THEN NoJob ELSE job[w]
        /\ \/ pc[w] \in Executing /\ pc'[w] \in {"idle", "notifying", "failing"}
           \/ SetFailed(w) /\ pc[w] \in Unstarted /\ pc'[w] = "notifying"
    BY <1>5 DEF SetFinished, SetWaiting, SetFailed, AnswerIsLost, Goto, TypeOK
  <2>. QED
    BY <1>1, <1>2, <2>1, <2>2 DEF RowStates, Terminal
<1>6. CASE Die(w) \/ DatabaseGivesUp(w)
  BY <1>1, <1>2, <1>6 DEF Die, DatabaseGivesUp, Goto, TypeOK, PCs
<1>. QED
  BY <1>3, <1>4, <1>5, <1>6 DEF Carries

(* Such a step is an Unclaim, an End, a HandBack or a Strand of the job in *)
(* hand, or changes nothing JobLane sees.                                  *)
LEMMA ServerCarry ==
  ASSUME LaneInv, LaneInv', NEW w \in Workers, Carries(w)
  PROVE  [Server!Next]_(Server!lvars)
<1>0. PICK j \in Jobs : job[w] = j
  BY CarriesStep DEF LaneInv
<1>1. /\ pc[w] # "idle"
      /\ \A v \in Workers \ {w} : pc'[v] = pc[v] /\ job'[v] = job[v]
      /\ job'[w] = IF pc'[w] = "idle" THEN NoJob ELSE j
      /\ \A i \in Jobs \ {j} : rows'[i].state = rows[i].state
      /\ \A i \in Jobs : rows'[i].lane = rows[i].lane
      /\ rows'[j].state \in RowStates \ {"NONE"}
      /\ \/ pc[w] \in Unstarted /\ pc'[w] \in Unstarted
         \/ pc[w] \in Executing /\ pc'[w] \in Executing
         \/ /\ pc[w] \in Unstarted /\ pc'[w] \in {"idle", "notifying"}
            /\ rows'[j].state \in {rows[j].state, "FAILED"}
         \/ /\ pc[w] \in Executing /\ pc'[w] \in {"idle", "notifying"}
            /\ rows'[j].state \in {rows[j].state, "WAITING", "FINISHED", "FAILED"}
         \/ pc[w] = "notifying" /\ pc'[w] = "idle" /\ rows' = rows
  BY <1>0, CarriesStep DEF LaneInv
<1>2. /\ pc[w] \in Executing => Phase(j) = "executing"
      /\ pc[w] \in Unstarted => Phase(j) = "claimed"
      /\ pc[w] = "notifying" => Phase(j) = Resting(rows[j].state)
      /\ pc'[w] \in Executing => Phase(j)' = "executing"
      /\ pc'[w] \in Unstarted => Phase(j)' = "claimed"
      /\ pc'[w] \in {"idle", "notifying"} => Phase(j)' = Resting(rows'[j].state)
      /\ \A i \in Jobs \ {j} : Phase(i)' = Phase(i)
  BY <1>0, <1>1, HandPhases
<1>3. CASE Phase(j)' = Phase(j)
  BY <1>1, <1>2, <1>3, ServerStutter
<1>4. CASE pc[w] \in Unstarted /\ pc'[w] \in {"idle", "notifying"}
  <2>1. rows[j].state \in {"WAITING", "CANCELLED"}
    BY <1>0, <1>4 DEF LaneInv, HeldStates
  <2>2. rows'[j].state \in {"WAITING", "CANCELLED", "FAILED"}
    BY <1>1, <1>4, <2>1 DEF Unstarted, Executing
  <2>3. Phase(j) = "claimed" /\ Phase(j)' \in {"queued", "over"}
    BY <1>2, <1>4, <2>2 DEF Resting
  <2>4. Server!Move(j, "claimed", "queued") \/ Server!Move(j, "claimed", "over")
    BY <1>1, <1>2, <2>3, ServerMove
  <2>. QED
    BY <2>4 DEF Server!Next, Server!Unclaim
<1>5. CASE pc[w] \in Executing /\ pc'[w] \in {"idle", "notifying"}
  <2>1. rows[j].state \in {"RUNNING", "CANCELLED", "FINISHED"}
    BY <1>0, <1>5 DEF LaneInv, HeldStates
  <2>2. rows'[j].state \in {"RUNNING", "CANCELLED", "WAITING", "FINISHED", "FAILED"}
    BY <1>1, <1>5, <2>1 DEF Unstarted, Executing
  <2>3. Phase(j) = "executing" /\ Phase(j)' \in {"stuck", "queued", "over"}
    BY <1>2, <1>5, <2>2 DEF Resting
  <2>4. \/ Server!Move(j, "executing", "stuck")
        \/ Server!Move(j, "executing", "queued")
        \/ Server!Move(j, "executing", "over")
    BY <1>1, <1>2, <2>3, ServerMove
  <2>. QED
    BY <2>4 DEF Server!Next, Server!End, Server!HandBack, Server!Strand
<1>. QED
  BY <1>1, <1>2, <1>3, <1>4, <1>5

(* The two steps of a worker that insert a row of an e-mail leave the      *)
(* phases of the rows that are there as they are.                          *)
LEMMA ServerNotice ==
  ASSUME LaneInv, LaneInv', NEW w \in Workers, QueueReport(w) \/ NotifyFailure(w)
  PROVE  [Server!Next]_(Server!lvars)
<1>0. PICK j \in Jobs : job[w] = j
  BY HeldIsJob DEF QueueReport, NotifyFailure, FailureNotice, Goto, LaneInv
<1>1. /\ \/ pc[w] \in Executing /\ pc'[w] \in Executing
         \/ pc[w] = "notifying" /\ pc'[w] = "idle"
      /\ \A v \in Workers \ {w} : pc'[v] = pc[v] /\ job'[v] = job[v]
      /\ job'[w] = IF pc'[w] = "idle" THEN NoJob ELSE j
  BY <1>0 DEF QueueReport, NotifyFailure, FailureNotice, Goto, LaneInv, TypeOK, Executing
<1>2. pc[w] # "idle"
  BY <1>1 DEF Executing
<1>3. \/ InsertRow(ReportLane, TRUE) \/ InsertRow(SimpleLane, TRUE)
      \/ UNCHANGED rows
  BY DEF QueueReport, NotifyFailure, FailureNotice
<1>4. \A i \in Jobs : rows[i].state # "NONE" => rows'[i] = rows[i]
  BY <1>3, InsertLemma, LanesAssumption DEF LaneInv, TypeOK
<1>5. ASSUME NEW i \in Jobs, rows[i].state # "NONE"
      PROVE  Phase(i)' = Phase(i)
  <2>1. CASE i # j
    <3>1. \A v \in Workers : job[v] = i \/ job'[v] = i => pc'[v] = pc[v] /\ job'[v] = job[v]
      BY <1>0, <1>1, <2>1, JobsAssumption DEF NoJob
    <3>. QED
      BY <1>4, <1>5, <3>1, PhaseKept
  <2>2. CASE i = j
    <3>1. PhaseByHolder /\ PhaseByHolder'
      BY PhaseLemma, PTL
    <3>2. CASE pc[w] \in Executing /\ pc'[w] \in Executing
      BY <1>0, <1>1, <2>2, <3>1, <3>2 DEF PhaseByHolder, Executing
    <3>3. CASE pc[w] = "notifying" /\ pc'[w] = "idle"
      <4>1. \A v \in Workers \ {w} : pc[v] # "idle" => job[v] # j
        BY <1>0, <1>2, OneHolder DEF LaneInv
      <4>2. ~Held(j)'
        BY <1>1, <3>3, <4>1 DEF Held, Holds
      <4>. QED
        BY <1>0, <1>4, <1>5, <2>2, <3>1, <3>3, <4>2 DEF PhaseByHolder
    <3>. QED
      BY <1>1, <3>2, <3>3
  <2>. QED
    BY <2>1, <2>2
<1>6. \A v \in Workers : job'[v] \in {job[v], NoJob}
  BY <1>0, <1>1
<1>7. CASE UNCHANGED rows
  <2>1. ASSUME NEW i \in Jobs, rows[i].state = "NONE"
        PROVE  Phase(i)' = Phase(i)
    <3>1. i # j
      BY <1>0, <1>2, <2>1 DEF LaneInv, HeldInLane
    <3>2. \A v \in Workers : job[v] = i \/ job'[v] = i => pc'[v] = pc[v] /\ job'[v] = job[v]
      BY <1>0, <1>1, <3>1, JobsAssumption DEF NoJob
    <3>. QED
      BY <1>7, <3>2, PhaseKept
  <2>. QED
    BY <1>5, <1>7, <2>1, ServerStutter
<1>. QED
  BY <1>3, <1>5, <1>6, <1>7, ServerInsert, LanesAssumption

(* Every step of the table, its workers and its requests is a step of      *)
(* JobLane or one it does not see.                                         *)
LEMMA ServerStep ==
  ASSUME LaneInv, LaneInv', [Next]_vars
  PROVE  [Server!Next]_(Server!lvars)
<1>1. CASE Submit
  <2>1. ASSUME NEW l \in Lanes, NEW e \in BOOLEAN, InsertRow(l, e)
        PROVE  [Server!Next]_(Server!lvars)
    <3>1. pc' = pc /\ job' = job
      BY <1>1 DEF Submit
    <3>2. \A i \in Jobs : rows[i].state # "NONE" => Phase(i)' = Phase(i)
      BY <2>1, <3>1, InsertLemma, PhaseKept DEF LaneInv, TypeOK
    <3>. QED
      BY <2>1, <3>1, <3>2, ServerInsert
  <2>. QED
    BY <1>1, <2>1, LanesAssumption DEF Submit
<1>2. ASSUME NEW j \in Jobs, CancelRead(j)
      PROVE  UNCHANGED Server!lvars
  <2>1. rows' = rows /\ pc' = pc /\ job' = job
    BY <1>2 DEF CancelRead
  <2>. QED
    BY <2>1, PhaseKept, ServerStutter
<1>3. ASSUME NEW j \in Jobs, CancelWrite(j)
      PROVE  [Server!Next]_(Server!lvars)
  BY <1>3, ServerCancel
<1>4. ASSUME NEW w \in Workers, GetJob(w)
      PROVE  [Server!Next]_(Server!lvars)
  BY <1>4, ServerClaim
<1>5. ASSUME NEW w \in Workers, SetRunning(w)
      PROVE  Server!Next
  BY <1>5, ServerStart
<1>6. ASSUME NEW w \in Workers, Carries(w)
      PROVE  [Server!Next]_(Server!lvars)
  BY <1>6, ServerCarry
<1>7. ASSUME NEW w \in Workers, QueueReport(w) \/ NotifyFailure(w)
      PROVE  [Server!Next]_(Server!lvars)
  BY <1>7, ServerNotice
<1>8. CASE UNCHANGED vars
  <2>1. rows' = rows /\ pc' = pc /\ job' = job
    BY <1>8 DEF vars
  <2>. QED
    BY <2>1, PhaseKept, ServerStutter
<1>. QED
  BY <1>1, <1>2, <1>3, <1>4, <1>5, <1>6, <1>7, <1>8 DEF Next, Outcome, Work, Carries

(* With one worker per lane the jobs table, with all the statements that   *)
(* commit on their own, the late cancellations, the deaths and the lost    *)
(* databases, is a server per lane that executes one job at a time.        *)
THEOREM LanesAreServers ==
  ASSUME OneWorkerPerLane
  PROVE  Spec => ImplementsJobLane
<1>. DEFINE Inv == HeldInLane /\ HeldStates /\ CheckedIsClear /\ LaneExclusive
<1>1. Init => Inv
  BY DEF Init, HeldInLane, HeldStates, Unstarted, Executing, CheckedIsClear, LaneExclusive,
         State
<1>2. TypeOK /\ Inv /\ [Next]_vars => Inv'
  BY HeldStep, HeldStatesStep, LaneStep
<1>3. TypeOK /\ Inv => LaneInv
  BY DEF LaneInv
<1>4. Init => Server!Init
  <2>. SUFFICES ASSUME Init
                PROVE  Server!Init
    OBVIOUS
  <2>1. \A j \in Jobs : Phase(j) = "absent"
    BY DEF Init, Phase, State, Executing
  <2>2. [j \in Jobs |-> rows[j].lane] \in [Jobs -> Lanes]
    BY LanesAssumption DEF Init
  <2>. QED
    BY <2>1, <2>2 DEF Server!Init
<1>5. LaneInv /\ LaneInv' /\ [Next]_vars => [Server!Next]_(Server!lvars)
  BY ServerStep
<1>. HIDE DEF Inv
<1>. QED
  BY <1>1, <1>2, <1>3, <1>4, <1>5, TypeCorrect, PTL DEF Spec, ImplementsJobLane, Server!Spec

=============================================================================
