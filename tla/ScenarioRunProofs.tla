-------------------------- MODULE ScenarioRunProofs --------------------------
(***************************************************************************)
(* Proofs about ScenarioRun for any services, providers and flows and any  *)
(* number of failures per run.                                             *)
(***************************************************************************)
EXTENDS ScenarioRun, FiniteSetTheorems, TLAPS

-----------------------------------------------------------------------------
(* The tables.                                                             *)
LEMMA Lengths == Len(Body) = 30 /\ Len(PostSteps) = 12 /\ Len(CleanSteps) = 6
BY DEF Body, PostSteps, CleanSteps

(* Only the processes are last.                                            *)
LEMMA LastOfCleanSteps ==
  \A k \in 1 .. Len(CleanSteps) : CleanSteps[k] # "processes" => k + 1 <= Len(CleanSteps)
BY DEF CleanSteps

(* Where the steps with an effect of their own are.                        *)
LEMMA PositionsOfPostSteps ==
  ASSUME NEW k \in 1 .. Len(PostSteps)
  PROVE  /\ PostSteps[k] = "patch_phases" <=> k = 2
         /\ PostSteps[k] = "stop_providers" <=> k = 4
         /\ PostSteps[k] = "phases" <=> k = 7
<1>1. k \in 1 .. 12
  BY Lengths
<1>2. CASE k \in 1 .. 6
  BY <1>2 DEF PostSteps
<1>3. CASE k \in 7 .. 12
  BY <1>3 DEF PostSteps
<1>. QED
  BY <1>1, <1>2, <1>3

(* Where the lines with an effect of their own are.                        *)
LEMMA PositionsOfBody ==
  ASSUME NEW i \in 1 .. Len(Body)
  PROVE  /\ Body[i] = Do("prepare") <=> i = 1
         /\ Body[i] = Do("import_providers") <=> i = 4
         /\ Body[i] = Do("look_for_containers") <=> i = 5
         /\ Body[i] = Do("insert") <=> i = 6
         /\ Body[i] = Do("host_providers") <=> i = 7
         /\ Body[i] = Do("network") <=> i = 15
         /\ Body[i] = Do("services") <=> i = 16
         /\ Body[i] = Do("container_providers") <=> i = 19
         /\ Body[i] = Do("flows") <=> i = 24
         /\ Body[i].do = "start" => i >= 8
<1>1. i \in 1 .. 30
  BY Lengths
<1>2. CASE i \in 1 .. 8
  BY <1>2 DEF Body, Start, End, Do
<1>3. CASE i \in 9 .. 16
  BY <1>3 DEF Body, Start, End, Do
<1>4. CASE i \in 17 .. 23
  BY <1>4 DEF Body, Start, End, Do
<1>5. CASE i \in 24 .. 30
  BY <1>5 DEF Body, Start, End, Do
<1>. QED
  BY <1>1, <1>2, <1>3, <1>4, <1>5

(* Where the steps of the cleanup are.                                     *)
LEMMA PositionsOfCleanSteps ==
  ASSUME NEW k \in 1 .. Len(CleanSteps)
  PROVE  /\ CleanSteps[k] = "secrets" <=> k = 1
         /\ CleanSteps[k] = "providers" <=> k = 2
         /\ CleanSteps[k] = "containers" <=> k = 3
         /\ CleanSteps[k] = "network" <=> k = 4
         /\ CleanSteps[k] = "images" <=> k = 5
         /\ CleanSteps[k] = "processes" <=> k = 6
BY DEF CleanSteps

-----------------------------------------------------------------------------
(* Type correctness, in the parts the steps leave alone.                   *)
HostOK ==
  /\ live \in [Providers -> Owners] /\ up \in [Services -> Owners] /\ net \in BOOLEAN

RunnerOK ==
  /\ listed \subseteq Providers /\ started \subseteq Providers
  /\ containers \subseteq Services /\ network \in BOOLEAN
  /\ open \subseteq Phases /\ last \in Phases \cup {"none"}
  /\ began \in BOOLEAN /\ ended \in BOOLEAN

RowSet == [exists : BOOLEAN, lost : BOOLEAN, failed : BOOLEAN, stored : BOOLEAN,
open : SUBSET Phases,
           saved : SUBSET {PostSteps[k] : k \in 1 .. Len(PostSteps)}]

RowOK == row \in RowSet /\ metrics \in [Providers -> Nat]

TaskOK == services \in Scenarios /\ enabled \in Selections /\ prune \in BOOLEAN

(* Where a run is, within the table it is in.                              *)
PositionOK ==
  /\ pc \in {"body", "flow", "failed", "post", "post_failed", "clean", "over"}
  /\ at \in 1 .. Len(Body)
  /\ pc \in {"post", "post_failed"} => at <= Len(PostSteps)
  /\ pc = "clean" => at <= Len(CleanSteps)
  /\ pc = "flow" => Body[at] = Do("flows") /\ last \in Flows

LoopOK == todo \subseteq Loops

OutcomeOK ==
  /\ exc \in {"none", "error", "check", "killed"} /\ first \in {"none", "error", "check"}
  /\ errors \in BOOLEAN /\ unmarked \in BOOLEAN /\ dirty \in BOOLEAN

FaultsOK == stuck \subseteq Providers \cup Services /\ faults \in 0 .. MaxFaults

Types ==
  /\ HostOK /\ RunnerOK /\ RowOK /\ TaskOK
  /\ PositionOK /\ LoopOK /\ OutcomeOK /\ FaultsOK

(* The parts are the whole.                                                *)
LEMMA TypesGiveTypeOK == Types => TypeOK
BY DEF Types, TypeOK, HostOK, RunnerOK, RowOK, RowSet, TaskOK, PositionOK, LoopOK,
       OutcomeOK, FaultsOK

(* The first run starts within the types.                                  *)
LEMMA TypesInit == Init => Types
<1>. SUFFICES ASSUME Init PROVE Types
  OBVIOUS
<1>. USE DEF Init
<1>1. HostOK /\ RunnerOK /\ TaskOK
  BY DEF HostOK, RunnerOK, TaskOK, Owners
<1>2. RowOK
  BY DEF RowOK, RowSet, NoRow
<1>3. PositionOK
  BY Lengths DEF PositionOK
<1>4. LoopOK /\ OutcomeOK
  BY DEF LoopOK, OutcomeOK
<1>5. FaultsOK
  BY BoundAssumption DEF FaultsOK
<1>. QED
  BY <1>1, <1>2, <1>3, <1>4, <1>5 DEF Types

(* The loops go over providers, services and flows.                        *)
LEMMA LoadIsLoop ==
  ASSUME Types, NEW line
  PROVE  Load(line) \subseteq Loops
BY UsesAssumption DEF Types, RunnerOK, TaskOK, Load, Loops

(* Writing to a row.                                                       *)
LEMMA RowsAreUpdated ==
  ASSUME NEW r \in RowSet, NEW b \in BOOLEAN, NEW phases \in SUBSET Phases,
         NEW k \in 1 .. Len(PostSteps)
  PROVE  /\ [r EXCEPT !.exists = TRUE] \in RowSet
         /\ [r EXCEPT !.lost = TRUE] \in RowSet
         /\ [r EXCEPT !.exists = TRUE, !.lost = TRUE] \in RowSet
         /\ [r EXCEPT !.failed = @ \/ b] \in RowSet
         /\ [r EXCEPT !.stored = b, !.open = phases] \in RowSet
         /\ [r EXCEPT !.saved = @ \cup {PostSteps[k]}] \in RowSet
<1>. DEFINE Steps == {PostSteps[i] : i \in 1 .. Len(PostSteps)}
<1>1. /\ [r EXCEPT !.exists = TRUE] \in RowSet /\ [r EXCEPT !.lost = TRUE] \in RowSet
      /\ [r EXCEPT !.exists = TRUE, !.lost = TRUE] \in RowSet
  BY DEF RowSet
<1>2. [r EXCEPT !.failed = @ \/ b] \in RowSet
  <2>1. r.failed \in BOOLEAN
    BY DEF RowSet
  <2>2. (r.failed \/ b) \in BOOLEAN
    BY <2>1
  <2>. QED
    BY <2>2 DEF RowSet
<1>3. [r EXCEPT !.stored = b, !.open = phases] \in RowSet
  BY DEF RowSet
<1>4. [r EXCEPT !.saved = @ \cup {PostSteps[k]}] \in RowSet
  <2>1. r.saved \subseteq Steps /\ PostSteps[k] \in Steps
    BY DEF RowSet
  <2>2. (r.saved \cup {PostSteps[k]}) \in SUBSET Steps
    BY <2>1
  <2>. QED
    BY <2>2 DEF RowSet
<1>. QED
  BY <1>1, <1>2, <1>3, <1>4

(* Going on to the next line keeps a run within the table.                 *)
LEMMA ForwardMoves ==
  ASSUME Types, Forward, pc = "body"
  PROVE  PositionOK' /\ LoopOK' /\ OutcomeOK' /\ TaskOK'
<1>. USE DEF Types, Forward, task
<1>1. PositionOK'
  BY Lengths DEF PositionOK
<1>2. LoopOK'
  BY LoadIsLoop DEF LoopOK
<1>3. OutcomeOK' /\ TaskOK'
  BY DEF OutcomeOK, TaskOK
<1>. QED
  BY <1>1, <1>2, <1>3

(* The next line, with nothing gone wrong.                                 *)
LEMMA AdvanceMoves ==
  ASSUME Types, Advance, pc = "body"
  PROVE  PositionOK' /\ LoopOK' /\ OutcomeOK' /\ FaultsOK' /\ TaskOK'
<1>1. PositionOK' /\ LoopOK' /\ OutcomeOK' /\ TaskOK'
  BY ForwardMoves DEF Advance
<1>2. FaultsOK'
  BY DEF Types, Advance, FaultsOK
<1>. QED
  BY <1>1, <1>2

(* A failure is counted within its bound.                                  *)
LEMMA FaultsAreCounted ==
  ASSUME Types, Fault
  PROVE  faults' \in 0 .. MaxFaults
BY BoundAssumption DEF Types, FaultsOK, Fault

(* Failures stay within their bound.                                       *)
LEMMA FaultIfIsCounted ==
  ASSUME Types, NEW happens, FaultIf(happens)
  PROVE  faults' \in 0 .. MaxFaults
<1>1. CASE happens
  BY <1>1, FaultsAreCounted DEF FaultIf
<1>2. CASE ~ happens
  BY <1>2 DEF FaultIf, Types, FaultsOK
<1>. QED
  BY <1>1, <1>2

(* A prune stops containers and starts none; it knows of none it leaves.   *)
LEMMA StopsOnly ==
  ASSUME Types, NEW failing \in SUBSET Running, StopAll(failing)
  PROVE  /\ up' \in [Services -> Owners]
         /\ stuck' \subseteq Providers \cup Services
         /\ stuck \subseteq stuck'
         /\ \A s \in Services : up'[s] = up[s] \/ up'[s] = "none"
         /\ prune => \A s \in Services : up'[s] # "none" => s \in stuck'
         /\ ~ prune => up' = up
<1>. USE DEF Types, HostOK, Owners
<1>1. failing \subseteq Services
  BY DEF Running
<1>2. CASE prune
  <2>1. up' = [s \in Services |-> IF s \in failing THEN up[s] ELSE "none"]
    BY <1>2 DEF StopAll
  <2>2. \A s \in Services : up'[s] = up[s] \/ up'[s] = "none"
    BY <2>1
  <2>3. \A s \in Services : up'[s] # "none" => s \in failing
    BY <2>1
  <2>. QED
    BY <1>1, <1>2, <2>1, <2>2, <2>3 DEF StopAll, FaultsOK
<1>3. CASE ~ prune
  BY <1>1, <1>3 DEF StopAll, FaultsOK
<1>. QED
  BY <1>2, <1>3

(* So does going on to a step of post-processing or to the cleanup,        *)
LEMMA ContinueMoves ==
  ASSUME Types, NEW next \in Nat \ {0}, Continue(next)
  PROVE  PositionOK' /\ LoopOK'
<1>1. PositionOK'
  BY Lengths DEF Continue, PositionOK
<1>2. LoopOK'
  BY DEF Continue, Types, RunnerOK, LoopOK, Loops
<1>. QED
  BY <1>1, <1>2

(* after a step that went through,                                         *)
LEMMA PostDoneMoves ==
  ASSUME Types, pc = "post", PostDone
  PROVE  PositionOK' /\ LoopOK' /\ OutcomeOK' /\ FaultsOK' /\ TaskOK'
<1>1. at + 1 \in Nat \ {0}
  BY DEF Types, PositionOK
<1>2. PositionOK' /\ LoopOK'
  BY <1>1, ContinueMoves DEF PostDone
<1>3. OutcomeOK' /\ FaultsOK' /\ TaskOK'
  BY DEF PostDone, Types, OutcomeOK, FaultsOK, TaskOK, task
<1>. QED
  BY <1>2, <1>3

(* and going on within the cleanup.                                        *)
LEMMA CleanNextMoves ==
  ASSUME Types, pc = "clean", CleanSteps[at] # "processes", CleanNext
  PROVE  PositionOK' /\ LoopOK' /\ OutcomeOK' /\ TaskOK' /\ RowOK'
<1>. USE DEF Types, CleanNext, task
<1>1. PositionOK'
  BY Lengths, LastOfCleanSteps DEF PositionOK
<1>2. LoopOK'
  BY DEF LoopOK, Loops, RunnerOK
<1>3. OutcomeOK' /\ TaskOK' /\ RowOK'
  BY DEF OutcomeOK, TaskOK, RowOK
<1>. QED
  BY <1>1, <1>2, <1>3

(* The lines of Body keep the types.                                       *)
LEMMA TypesLines == Types /\ Lines => Types'
<1>. SUFFICES ASSUME Types, Lines PROVE Types'
  OBVIOUS
<1>a. Advance /\ pc = "body" => PositionOK' /\ LoopOK' /\ OutcomeOK' /\ FaultsOK' /\ TaskOK'
  BY AdvanceMoves
<1>. USE DEF At, host, runner, task
<1>1. CASE Prepare \/ Pass \/ ImportProviders \/ EndMeasurement
  <2>1. Advance /\ pc = "body" /\ UNCHANGED <<live, up, net, row, metrics>>
    BY <1>1 DEF Prepare, Pass, ImportProviders, ImportIf, EndMeasurement
  <2>2. HostOK' /\ RowOK'
    BY <2>1 DEF Types, HostOK, RowOK
  <2>3. RunnerOK'
    BY <1>1, UsesAssumption
       DEF Prepare, Pass, ImportProviders, ImportIf, EndMeasurement, Types, RunnerOK, TaskOK
  <2>. QED
    BY <1>a, <2>1, <2>2, <2>3 DEF Types
<1>2. CASE SetupNetwork
  <2>1. Advance /\ pc = "body" /\ UNCHANGED <<live, up, row, metrics>>
    BY <1>2 DEF SetupNetwork
  <2>2. HostOK' /\ RunnerOK' /\ RowOK'
    BY <1>2 DEF SetupNetwork, Types, HostOK, RunnerOK, RowOK
  <2>. QED
    BY <1>a, <2>1, <2>2 DEF Types
<1>10. CASE LookForContainers
  <2>1. Forward /\ pc = "body" /\ UNCHANGED <<live, net, runner, row, metrics>>
    BY <1>10 DEF LookForContainers
  <2>. PICK failing \in SUBSET Running : StopAll(failing) /\ FaultIf(failing # {})
    BY <1>10 DEF LookForContainers
  <2>2. HostOK' /\ RunnerOK' /\ RowOK'
    BY <2>1, StopsOnly DEF Types, HostOK, RunnerOK, RowOK
  <2>3. FaultsOK'
    BY StopsOnly, FaultIfIsCounted DEF FaultsOK
  <2>. QED
    BY <2>1, <2>2, <2>3, ForwardMoves DEF Types
<1>3. CASE InsertRow \/ InsertAgain
  <2>1. Forward /\ pc = "body" /\ UNCHANGED <<live, up, net, runner, stuck, metrics>>
    BY <1>3 DEF InsertRow, InsertAgain, Advance
  <2>4. FaultsOK'
    BY <1>3, <2>1, FaultsAreCounted DEF InsertRow, InsertAgain, Advance, Types, FaultsOK
  <2>2. RowOK'
    <3>1. row \in RowSet /\ {} \in SUBSET Phases /\ 1 \in 1 .. Len(PostSteps)
      BY Lengths DEF Types, RowOK
    <3>2. /\ [row EXCEPT !.exists = TRUE] \in RowSet
          /\ [row EXCEPT !.exists = TRUE, !.lost = TRUE] \in RowSet
      BY <3>1, RowsAreUpdated
    <3>. QED
      BY <1>3, <2>1, <3>2 DEF InsertRow, InsertAgain, Types, RowOK
  <2>3. HostOK' /\ RunnerOK'
    BY <2>1 DEF Types, HostOK, RunnerOK
  <2>. QED
    BY <2>1, <2>2, <2>3, <2>4, ForwardMoves DEF Types
<1>4. CASE \E phase \in MainPhases : StartPhase(phase) \/ EndPhase(phase)
  <2>1. Advance /\ pc = "body" /\ UNCHANGED <<live, up, net, row, metrics>>
    BY <1>4 DEF StartPhase, EndPhase
  <2>2. RunnerOK'
    BY <1>4 DEF StartPhase, EndPhase, Types, RunnerOK, Phases
  <2>3. HostOK' /\ RowOK'
    BY <2>1 DEF Types, HostOK, RowOK
  <2>. QED
    BY <1>a, <2>1, <2>2, <2>3 DEF Types
<1>5. CASE \E p \in Providers : StartProvider(p)
  <2>. PICK p \in Providers : StartProvider(p)
    BY <1>5
  <2>1. HostOK' /\ RunnerOK'
    BY DEF StartProvider, Types, HostOK, RunnerOK, Owners
  <2>2. RowOK' /\ TaskOK' /\ OutcomeOK' /\ FaultsOK'
    BY DEF StartProvider, Types, RowOK, TaskOK, OutcomeOK, FaultsOK
  <2>3. PositionOK' /\ LoopOK'
    BY DEF StartProvider, Types, PositionOK, LoopOK
  <2>. QED
    BY <2>1, <2>2, <2>3 DEF Types
<1>6. CASE \E s \in Services : SetupService(s)
  <2>. PICK s \in Services : SetupService(s)
    BY <1>6
  <2>1. HostOK' /\ RunnerOK'
    BY DEF SetupService, Types, HostOK, RunnerOK, Owners
  <2>2. RowOK' /\ TaskOK' /\ OutcomeOK' /\ FaultsOK'
    BY DEF SetupService, Types, RowOK, TaskOK, OutcomeOK, FaultsOK
  <2>3. PositionOK' /\ LoopOK'
    BY DEF SetupService, Types, PositionOK, LoopOK
  <2>. QED
    BY <2>1, <2>2, <2>3 DEF Types
<1>7. CASE EndFlow \/ \E f \in Flows : StartFlow(f)
  <2>1. RunnerOK'
    BY <1>7 DEF EndFlow, StartFlow, BeginFlow, Types, RunnerOK, Phases
  <2>2. HostOK' /\ RowOK' /\ TaskOK' /\ OutcomeOK' /\ FaultsOK'
    BY <1>7 DEF EndFlow, StartFlow, BeginFlow, Types, HostOK, RowOK, TaskOK, OutcomeOK, FaultsOK
  <2>3. PositionOK' /\ LoopOK'
    BY <1>7 DEF EndFlow, StartFlow, BeginFlow, Types, PositionOK, LoopOK
  <2>. QED
    BY <2>1, <2>2, <2>3 DEF Types
<1>8. CASE ImportRefused \/ ContainerIsRunning
  <2>1. RunnerOK'
    BY <1>8, UsesAssumption
       DEF ImportRefused, ContainerIsRunning, Escape, Types, RunnerOK, TaskOK
  <2>2. HostOK' /\ RowOK' /\ TaskOK' /\ OutcomeOK' /\ FaultsOK'
    BY <1>8 DEF ImportRefused, ContainerIsRunning, Escape, Types, HostOK, RowOK, TaskOK,
                OutcomeOK, FaultsOK
  <2>3. PositionOK' /\ LoopOK'
    BY <1>8 DEF ImportRefused, ContainerIsRunning, Escape, Types, PositionOK, LoopOK
  <2>. QED
    BY <2>1, <2>2, <2>3 DEF Types
<1>11. CASE PruneFails \/ InsertRefused
  <2>1. RunnerOK' /\ TaskOK' /\ OutcomeOK' /\ PositionOK' /\ LoopOK'
    BY <1>11 DEF PruneFails, InsertRefused, Escape, Types, RunnerOK, TaskOK, OutcomeOK,
                 PositionOK, LoopOK
  <2>2. HostOK' /\ stuck' \subseteq Providers \cup Services
    <3>1. CASE PruneFails
      <4>. PICK failing \in SUBSET Running : StopAll(failing)
        BY <3>1 DEF PruneFails
      <4>. QED
        BY <3>1, StopsOnly DEF PruneFails, Escape, Types, HostOK
    <3>2. CASE InsertRefused
      BY <3>2 DEF InsertRefused, Escape, Types, HostOK, FaultsOK
    <3>. QED
      BY <1>11, <3>1, <3>2
  <2>3. RowOK'
    <3>1. row \in RowSet /\ {} \in SUBSET Phases /\ 1 \in 1 .. Len(PostSteps)
      BY Lengths DEF Types, RowOK
    <3>2. [row EXCEPT !.lost = TRUE] \in RowSet
      BY <3>1, RowsAreUpdated
    <3>. QED
      BY <1>11, <3>2 DEF PruneFails, InsertRefused, Escape, Types, RowOK
  <2>4. FaultsOK'
    BY <1>11, <2>2, FaultsAreCounted DEF PruneFails, InsertRefused, FaultsOK
  <2>. QED
    BY <2>1, <2>2, <2>3, <2>4 DEF Types
<1>9. CASE \/ \E kind \in {"error", "check"} : Raise(kind)
           \/ \E p \in Providers \cup Services : Unnoticed(p)
  <2>1. HostOK'
    BY <1>9 DEF Raise, Unnoticed, Escape, Types, HostOK, Owners
  <2>2. RunnerOK' /\ RowOK' /\ TaskOK'
    BY <1>9 DEF Raise, Unnoticed, Escape, Types, RunnerOK, RowOK, TaskOK
  <2>3. OutcomeOK'
    BY <1>9 DEF Raise, Unnoticed, Escape, Types, OutcomeOK
  <2>4. FaultsOK'
    BY <1>9, BoundAssumption DEF Raise, Unnoticed, Escape, Fault, Types, FaultsOK
  <2>5. PositionOK' /\ LoopOK'
    BY <1>9 DEF Raise, Unnoticed, Escape, Types, PositionOK, LoopOK
  <2>. QED
    BY <2>1, <2>2, <2>3, <2>4, <2>5 DEF Types
<1>. QED
  BY <1>1, <1>2, <1>3, <1>4, <1>5, <1>6, <1>7, <1>8, <1>9, <1>10, <1>11 DEF Lines

(* Post-processing keeps the types.                                        *)
LEMMA TypesPostProcess == Types /\ PostProcess => Types'
<1>. SUFFICES ASSUME Types, PostProcess PROVE Types'
  OBVIOUS
<1>a. PostDone /\ pc = "post" =>
        PositionOK' /\ LoopOK' /\ OutcomeOK' /\ FaultsOK' /\ TaskOK'
  BY PostDoneMoves
<1>b. pc \in {"post", "post_failed"} => at \in 1 .. Len(PostSteps)
  BY DEF Types, PositionOK
<1>c. pc = "post" => Saved(row) \in RowSet
  BY <1>b, RowsAreUpdated DEF Saved, Types, RowOK
<1>. USE DEF Posting, host, runner, task
<1>1. CASE PostStep \/ PostEndMeasurement \/ PatchPhases
  <2>1. PostDone /\ pc = "post" /\ row' = Saved(row) /\ UNCHANGED <<live, up, net>>
    BY <1>1 DEF PostStep, PostEndMeasurement, PatchPhases, Patch
  <2>2. RunnerOK'
    BY <1>1 DEF PostStep, PostEndMeasurement, PatchPhases, Patch, Types, RunnerOK
  <2>3. HostOK' /\ RowOK'
    BY <2>1, <1>c DEF PostDone, Types, HostOK, RowOK
  <2>. QED
    BY <1>a, <2>1, <2>2, <2>3 DEF Types
<1>2. CASE StorePhases
  <2>. DEFINE stored == [row EXCEPT !.stored = row.exists,
                                    !.open = IF row.exists THEN open ELSE {}]
  <2>1. PostDone /\ pc = "post" /\ row' = Saved(stored) /\ UNCHANGED <<live, up, net, runner>>
    BY <1>2 DEF StorePhases
  <2>2. row \in RowSet /\ open \subseteq Phases
    BY DEF Types, RowOK, RunnerOK
  <2>3. row.exists \in BOOLEAN
    BY <2>2 DEF RowSet
  <2>4. (IF row.exists THEN open ELSE {}) \in SUBSET Phases
    BY <2>2
  <2>5. stored \in RowSet
    <3>1. 1 \in 1 .. Len(PostSteps)
      BY Lengths
    <3>2. [row EXCEPT !.stored = row.exists, !.open = IF row.exists THEN open ELSE {}]
            \in RowSet
      BY <2>2, <2>3, <2>4, <3>1, RowsAreUpdated
    <3>. QED
      BY <3>2
  <2>6. Saved(stored) \in RowSet
    BY <1>b, <2>1, <2>5, RowsAreUpdated DEF Saved
  <2>7. HostOK' /\ RowOK' /\ RunnerOK'
    BY <2>1, <2>6 DEF PostDone, Types, HostOK, RowOK, RunnerOK
  <2>. QED
    BY <1>a, <2>1, <2>7 DEF Types
<1>3. CASE MarkFailed
  <2>1. row.exists \in BOOLEAN /\ row \in RowSet
    BY DEF Types, RowOK, RowSet
  <2>2. RowOK'
    <3>1. [row EXCEPT !.failed = @ \/ row.exists] \in RowSet
      <4>1. {} \in SUBSET Phases /\ 1 \in 1 .. Len(PostSteps)
        BY Lengths
      <4>. QED
        BY <2>1, <4>1, RowsAreUpdated
    <3>. QED
      BY <1>3, <3>1 DEF MarkFailed, Mark, Types, RowOK
  <2>3. PositionOK' /\ LoopOK'
    <3>1. PICK next \in Nat \ {0} : Continue(next)
      BY <1>3, Lengths DEF MarkFailed, Mark, Types, PositionOK
    <3>. QED
      BY <3>1, ContinueMoves
  <2>4. HostOK' /\ RunnerOK' /\ TaskOK'
    BY <1>3 DEF MarkFailed, Mark, Types, HostOK, RunnerOK, TaskOK
  <2>5. OutcomeOK'
    BY <1>3 DEF MarkFailed, Mark, Types, OutcomeOK
  <2>6. FaultsOK'
    BY <1>3, BoundAssumption DEF MarkFailed, Mark, Fault, Types, FaultsOK
  <2>. QED
    BY <2>2, <2>3, <2>4, <2>5, <2>6 DEF Types
<1>4. CASE PostFails
  <2>1. HostOK' /\ RowOK' /\ TaskOK' /\ LoopOK'
    BY <1>4 DEF PostFails, PostFailure, Types, HostOK, RowOK, TaskOK, LoopOK
  <2>2. RunnerOK'
    BY <1>4 DEF PostFails, PostFailure, Types, RunnerOK
  <2>3. PositionOK'
    BY <1>4 DEF PostFails, PostFailure, Types, PositionOK
  <2>4. OutcomeOK'
    BY <1>4 DEF PostFails, PostFailure, Types, OutcomeOK
  <2>5. FaultsOK'
    BY <1>4, BoundAssumption DEF PostFails, PostFailure, Fault, Types, FaultsOK
  <2>. QED
    BY <2>1, <2>2, <2>3, <2>4, <2>5 DEF Types
<1>5. CASE \E p \in Providers : StopProvider(p)
  <2>. PICK p \in Providers : StopProvider(p)
    BY <1>5
  <2>. PICK noisy \in BOOLEAN, stopped \in BOOLEAN,
            reading \in {"imported", "refused", "broken"} :
         /\ FaultIf(noisy \/ ~ stopped \/ reading # "imported")
         /\ errors' = (errors \/ noisy \/ ~ stopped \/ reading = "refused")
         /\ live' = IF stopped THEN [live EXCEPT ![p] = "none"] ELSE live
         /\ started' = IF stopped THEN started \ {p} ELSE started
         /\ stuck' = IF stopped THEN stuck ELSE stuck \cup {p}
         /\ metrics' = IF reading = "imported" THEN [metrics EXCEPT ![p] = @ + 1] ELSE metrics
         /\ IF reading = "broken"
              THEN pc' = "post_failed" /\ exc' = "error" /\ UNCHANGED todo
              ELSE todo' = todo \ {p} /\ UNCHANGED <<pc, exc>>
    BY DEF StopProvider
  <2>. /\ pc = "post"
       /\ UNCHANGED <<up, net, task, listed, containers, network, open, last, began, ended,
                      at, first, unmarked, dirty, row>>
    BY DEF StopProvider
  <2>1. HostOK'
    BY DEF Types, HostOK, Owners
  <2>2. RunnerOK' /\ TaskOK'
    BY DEF Types, RunnerOK, TaskOK
  <2>3. RowOK'
    BY DEF Types, RowOK
  <2>4. PositionOK' /\ LoopOK'
    BY DEF Types, PositionOK, LoopOK
  <2>5. OutcomeOK'
    <3>1. errors' \in BOOLEAN
      BY DEF Types, OutcomeOK
    <3>. QED
      BY <3>1 DEF Types, OutcomeOK
  <2>6. stuck' \subseteq Providers \cup Services
    BY DEF Types, FaultsOK
  <2>7. faults' \in 0 .. MaxFaults
    BY FaultIfIsCounted
  <2>. QED
    BY <2>1, <2>2, <2>3, <2>4, <2>5, <2>6, <2>7 DEF Types, FaultsOK
<1>6. CASE ProvidersStopped
  <2>1. HostOK' /\ RunnerOK'
    BY <1>6 DEF ProvidersStopped, Types, HostOK, RunnerOK
  <2>2. CASE errors
    <3>1. RowOK' /\ TaskOK' /\ LoopOK' /\ FaultsOK' /\ OutcomeOK'
      BY <1>6, <2>2 DEF ProvidersStopped, Types, RowOK, TaskOK, LoopOK, FaultsOK, OutcomeOK
    <3>2. PositionOK'
      BY <1>6, <2>2 DEF ProvidersStopped, Types, PositionOK
    <3>. QED
      BY <2>1, <3>1, <3>2 DEF Types
  <2>3. CASE ~ errors
    <3>1. PostDone /\ pc = "post" /\ row' = Saved(row)
      BY <1>6, <2>3 DEF ProvidersStopped
    <3>2. RowOK'
      BY <3>1, <1>c DEF PostDone, Types, RowOK
    <3>. QED
      BY <1>a, <2>1, <3>1, <3>2 DEF Types
  <2>. QED
    BY <2>2, <2>3
<1>. QED
  BY <1>1, <1>2, <1>3, <1>4, <1>5, <1>6 DEF PostProcess

(* The cleanup keeps the types.                                            *)
LEMMA TypesCleanup == Types /\ Cleanup => Types'
<1>. SUFFICES ASSUME Types, Cleanup PROVE Types'
  OBVIOUS
<1>. USE DEF Cleaning, host, runner, task
<1>a. CleanNext /\ pc = "clean" /\ CleanSteps[at] # "processes" =>
        PositionOK' /\ LoopOK' /\ OutcomeOK' /\ TaskOK' /\ RowOK'
  BY CleanNextMoves
<1>7. CASE RemoveImages
  <2>. PICK failing \in SUBSET Running : StopAll(failing) /\ FaultIf(failing # {})
    BY <1>7 DEF RemoveImages
  <2>1. /\ CleanNext /\ pc = "clean" /\ CleanSteps[at] # "processes"
        /\ UNCHANGED <<live, runner>>
    BY <1>7 DEF RemoveImages
  <2>2. net' \in BOOLEAN
    BY <1>7 DEF RemoveImages, Types, HostOK
  <2>3. HostOK' /\ RunnerOK'
    BY <2>1, <2>2, StopsOnly DEF Types, HostOK, RunnerOK
  <2>4. FaultsOK'
    BY StopsOnly, FaultIfIsCounted DEF FaultsOK
  <2>. QED
    BY <1>a, <2>1, <2>3, <2>4 DEF Types
<1>1. CASE CleanSecrets \/ ContainersRemoved \/ RemoveNetwork
  <2>1. /\ CleanNext /\ pc = "clean" /\ CleanSteps[at] # "processes"
        /\ UNCHANGED <<live, stuck, faults>>
    BY <1>1 DEF CleanSecrets, ContainersRemoved, RemoveNetwork
  <2>2. up' \in [Services -> Owners]
    BY <1>1 DEF CleanSecrets, ContainersRemoved, RemoveNetwork, Types, HostOK, Owners
  <2>3. net' \in BOOLEAN
    BY <1>1 DEF CleanSecrets, ContainersRemoved, RemoveNetwork, Types, HostOK
  <2>4. RunnerOK'
    BY <1>1 DEF CleanSecrets, ContainersRemoved, RemoveNetwork, Types, RunnerOK
  <2>5. HostOK' /\ FaultsOK'
    BY <2>1, <2>2, <2>3 DEF Types, HostOK, FaultsOK
  <2>. QED
    BY <1>a, <2>1, <2>4, <2>5 DEF Types
<1>2. CASE CleanProviders
  <2>. PICK failing \in SUBSET (listed \cap started) :
         /\ faults + Cardinality(failing) <= MaxFaults
         /\ faults' = faults + Cardinality(failing)
         /\ stuck' = stuck \cup failing
         /\ live' = [p \in Providers |->
                       IF p \in (listed \cap started) \ failing THEN "none" ELSE live[p]]
    BY <1>2 DEF CleanProviders
  <2>1. CleanNext /\ pc = "clean" /\ CleanSteps[at] # "processes"
    BY <1>2 DEF CleanProviders
  <2>2. HostOK' /\ RunnerOK'
    BY <1>2 DEF CleanProviders, Types, HostOK, RunnerOK, Owners
  <2>3. FaultsOK'
    <3>1. failing \subseteq Providers
      BY DEF Types, RunnerOK
    <3>2. Cardinality(failing) \in Nat
      BY <3>1, FinitenessAssumption, FS_Subset, FS_CardinalityType
    <3>3. faults' \in 0 .. MaxFaults
      BY <3>2, BoundAssumption DEF Types, FaultsOK
    <3>4. stuck' \subseteq Providers \cup Services
      BY <3>1 DEF Types, FaultsOK
    <3>. QED
      BY <3>3, <3>4 DEF FaultsOK
  <2>. QED
    BY <1>a, <2>1, <2>2, <2>3 DEF Types
<1>3. CASE \E s \in Services : RemoveContainer(s)
  <2>. PICK s \in Services : RemoveContainer(s)
    BY <1>3
  <2>1. HostOK' /\ RunnerOK' /\ TaskOK' /\ RowOK'
    BY DEF RemoveContainer, Types, HostOK, RunnerOK, TaskOK, RowOK, Owners
  <2>2. PositionOK' /\ LoopOK' /\ OutcomeOK' /\ FaultsOK'
    BY DEF RemoveContainer, Types, PositionOK, LoopOK, OutcomeOK, FaultsOK
  <2>. QED
    BY <2>1, <2>2 DEF Types
<1>4. CASE KillProcesses
  <2>1. HostOK' /\ RunnerOK' /\ TaskOK' /\ RowOK'
    BY <1>4 DEF KillProcesses, Reset, Types, HostOK, RunnerOK, TaskOK, RowOK
  <2>2. PositionOK'
    BY <1>4, Lengths DEF KillProcesses, Reset, Types, PositionOK
  <2>3. LoopOK' /\ OutcomeOK' /\ FaultsOK'
    BY <1>4 DEF KillProcesses, Reset, Types, LoopOK, OutcomeOK, FaultsOK
  <2>. QED
    BY <2>1, <2>2, <2>3 DEF Types
<1>5. CASE CleanupFails
  <2>1. RunnerOK' /\ TaskOK' /\ RowOK'
    BY <1>5 DEF CleanupFails, Types, RunnerOK, TaskOK, RowOK
  <2>5. HostOK' /\ stuck' \subseteq Providers \cup Services
    <3>1. CASE UNCHANGED <<up, stuck>>
      BY <1>5, <3>1 DEF CleanupFails, Types, HostOK, FaultsOK
    <3>2. CASE \E failing \in SUBSET Running : StopAll(failing)
      <4>. PICK failing \in SUBSET Running : StopAll(failing)
        BY <3>2
      <4>. QED
        BY <1>5, StopsOnly DEF CleanupFails, Types, HostOK
    <3>. QED
      BY <1>5, <3>1, <3>2 DEF CleanupFails
  <2>2. PositionOK'
    BY <1>5, Lengths DEF CleanupFails, Types, PositionOK
  <2>3. LoopOK' /\ OutcomeOK'
    BY <1>5 DEF CleanupFails, Types, LoopOK, OutcomeOK
  <2>4. FaultsOK'
    BY <1>5, <2>5, FaultsAreCounted DEF CleanupFails, FaultsOK
  <2>. QED
    BY <2>1, <2>2, <2>3, <2>4, <2>5 DEF Types
<1>. QED
  BY <1>1, <1>2, <1>3, <1>4, <1>5, <1>7 DEF Cleanup

(* So do the next run, a kill and a stutter.                               *)
LEMMA TypesBetween == Types /\ (StartRun \/ Killed \/ UNCHANGED vars) => Types'
<1>. SUFFICES ASSUME Types, StartRun \/ Killed \/ UNCHANGED vars PROVE Types'
  OBVIOUS
<1>. USE DEF host, runner, task
<1>1. CASE StartRun
  <2>1. HostOK'
    BY <1>1 DEF StartRun, Age, Types, HostOK, Owners
  <2>2. RunnerOK'
    BY <1>1 DEF StartRun, Types, RunnerOK
  <2>3. RowOK'
    BY <1>1 DEF StartRun, RowOK, RowSet, NoRow
  <2>4. PositionOK'
    BY <1>1, Lengths DEF StartRun, PositionOK
  <2>5. TaskOK' /\ LoopOK' /\ OutcomeOK'
    BY <1>1 DEF StartRun, TaskOK, LoopOK, OutcomeOK
  <2>6. FaultsOK'
    BY <1>1, BoundAssumption DEF StartRun, FaultsOK
  <2>. QED
    BY <2>1, <2>2, <2>3, <2>4, <2>5, <2>6 DEF Types
<1>2. CASE Killed
  <2>1. HostOK' /\ RunnerOK' /\ TaskOK' /\ RowOK'
    BY <1>2 DEF Killed, Types, HostOK, RunnerOK, TaskOK, RowOK
  <2>2. PositionOK'
    BY <1>2, Lengths DEF Killed, Types, PositionOK
  <2>3. LoopOK' /\ OutcomeOK' /\ FaultsOK'
    BY <1>2 DEF Killed, Types, LoopOK, OutcomeOK, FaultsOK
  <2>. QED
    BY <2>1, <2>2, <2>3 DEF Types
<1>3. CASE UNCHANGED vars
  <2>1. HostOK' /\ RunnerOK' /\ TaskOK' /\ RowOK'
    BY <1>3 DEF vars, Types, HostOK, RunnerOK, TaskOK, RowOK
  <2>2. PositionOK' /\ LoopOK' /\ OutcomeOK' /\ FaultsOK'
    BY <1>3 DEF vars, control, Types, PositionOK, LoopOK, OutcomeOK, FaultsOK
  <2>. QED
    BY <2>1, <2>2 DEF Types
<1>. QED
  BY <1>1, <1>2, <1>3

(* The types are inductive.                                                *)
LEMMA TypesInvariant == Spec => []Types
<1>1. Types /\ [Next]_vars => Types'
  BY TypesLines, TypesPostProcess, TypesCleanup, TypesBetween DEF Next
<1>. QED
  BY <1>1, TypesInit, PTL DEF Spec

(* Every variable keeps its type, whatever fails and in whatever order.    *)
THEOREM TypeCorrect == Spec => []TypeOK
BY TypesInvariant, TypesGiveTypeOK, PTL

-----------------------------------------------------------------------------
(* A run that is marked, or about to be, has an exception to hand on, and  *)
(* so has one that does not know of its row.                               *)
FailureIsRaised ==
  /\ row.failed \/ pc \in {"failed", "post_failed"} => exc # "none"
  /\ row.lost /\ ~ row.exists => exc # "none"

(* No step of a run drops the exception of a run that is marked.           *)
LEMMA FailureIsRaisedStep ==
  Types /\ FailureIsRaised /\ [Next]_vars => FailureIsRaised'
<1>. SUFFICES ASSUME Types, FailureIsRaised, [Next]_vars PROVE FailureIsRaised'
  OBVIOUS
<1>. USE DEF FailureIsRaised
<1>1. CASE StartRun \/ Killed \/ UNCHANGED vars
  BY <1>1 DEF StartRun, Killed, NoRow, vars, control
<1>2. CASE Lines
  <2>1. CASE Forward /\ UNCHANGED row
    BY <2>1 DEF Forward
  <2>2. CASE InsertRow \/ InsertAgain
    <3>1. row'.exists /\ row'.failed = row.failed /\ Forward /\ pc = "body"
      BY <2>2 DEF InsertRow, InsertAgain, At, Advance, Types, RowOK, RowSet
    <3>. QED
      BY <3>1 DEF Forward
  <2>3. CASE \E p \in Providers : StartProvider(p)
    BY <2>3 DEF StartProvider
  <2>4. CASE \E s \in Services : SetupService(s)
    BY <2>4 DEF SetupService
  <2>5. CASE EndFlow \/ \E f \in Flows : StartFlow(f)
    BY <2>5 DEF EndFlow, StartFlow, BeginFlow
  <2>6. CASE \/ ImportRefused \/ ContainerIsRunning \/ PruneFails \/ InsertRefused
             \/ \E kind \in {"error", "check"} : Raise(kind)
             \/ \E p \in Providers \cup Services : Unnoticed(p)
    BY <2>6 DEF ImportRefused, ContainerIsRunning, PruneFails, InsertRefused, Raise, Unnoticed,
                Escape
  <2>. QED
    BY <1>2, <2>1, <2>2, <2>3, <2>4, <2>5, <2>6
       DEF Lines, Prepare, Pass, ImportProviders, ImportIf, LookForContainers, StartPhase,
           EndPhase, SetupNetwork, EndMeasurement, Advance
<1>3. CASE PostProcess
  <2>1. CASE MarkFailed
    BY <2>1 DEF MarkFailed, Mark, Types, RowOK, RowSet
  <2>2. CASE PostStep \/ PostEndMeasurement \/ PatchPhases \/ StorePhases
    <3>1. PostDone /\ row'.failed = row.failed /\ row'.lost = row.lost /\ row'.exists = row.exists
      BY <2>2 DEF PostStep, PostEndMeasurement, PatchPhases, Patch, StorePhases, Saved, Types,
                  RowOK, RowSet
    <3>. QED
      BY <3>1, <2>2 DEF PostDone, Continue, PostStep, PostEndMeasurement, PatchPhases, Patch,
                  StorePhases
  <2>3. CASE PostFails \/ \E p \in Providers : StopProvider(p)
    BY <2>3 DEF PostFails, PostFailure, StopProvider
  <2>4. CASE ProvidersStopped
    BY <2>4 DEF ProvidersStopped, PostDone, Continue, Saved, Types, RowOK, RowSet
  <2>. QED
    BY <1>3, <2>1, <2>2, <2>3, <2>4 DEF PostProcess
<1>4. CASE Cleanup
  <2>1. CASE CleanNext
    BY <2>1 DEF CleanNext
  <2>2. CASE KillProcesses \/ CleanupFails \/ \E s \in Services : RemoveContainer(s)
    BY <2>2 DEF KillProcesses, Reset, CleanupFails, RemoveContainer
  <2>. QED
    BY <1>4, <2>1, <2>2
       DEF Cleanup, CleanSecrets, CleanProviders, ContainersRemoved, RemoveNetwork, RemoveImages
<1>. QED
  BY <1>1, <1>2, <1>3, <1>4 DEF Next

(* The caller of a run marked as failed gets an exception, whichever of    *)
(* the stages failed, and however many of them.                            *)
THEOREM MarkedRunsAreReported == Spec => []MarkedIsReported
<1>1. Init => FailureIsRaised
  BY DEF Init, NoRow, FailureIsRaised
<1>2. FailureIsRaised => MarkedIsReported
  BY DEF FailureIsRaised, MarkedIsReported
<1>. QED
  BY <1>1, <1>2, FailureIsRaisedStep, TypesInvariant, PTL DEF Spec

-----------------------------------------------------------------------------
(* A runner that is used again is as good as new.                          *)
Fresh ==
  /\ listed = {} /\ started = {} /\ containers = {} /\ ~ network
  /\ open = {} /\ last = "none" /\ ~ began /\ ~ ended

FreshBetweenRuns ==
  /\ pc = "over" /\ exc = "none" => Fresh
  /\ pc = "body" /\ at = 1 => Fresh

(* The cleanup empties the runner, and nothing fills it between two runs.  *)
LEMMA FreshStep == Types /\ FreshBetweenRuns /\ [Next]_vars => FreshBetweenRuns'
<1>. SUFFICES ASSUME Types, FreshBetweenRuns, [Next]_vars PROVE FreshBetweenRuns'
  OBVIOUS
<1>. USE DEF FreshBetweenRuns
<1>1. CASE StartRun \/ Killed \/ UNCHANGED vars
  BY <1>1 DEF StartRun, Killed, vars, control, runner, Fresh
<1>2. CASE Lines
  <2>1. CASE Forward /\ pc = "body"
    BY <2>1 DEF Forward, Types, PositionOK
  <2>2. CASE \/ \E p \in Providers : StartProvider(p)
             \/ \E s \in Services : SetupService(s)
    <3>1. UNCHANGED <<pc, at>> /\ pc = "body" /\ at # 1
      BY <2>2 DEF StartProvider, SetupService, At, Body, Do
    <3>. QED
      BY <3>1
  <2>3. CASE \E f \in Flows : StartFlow(f)
    BY <2>3 DEF StartFlow, BeginFlow
  <2>4. CASE EndFlow
    <3>1. UNCHANGED at /\ pc' = "body" /\ at # 1
      BY <2>4 DEF EndFlow, Types, PositionOK, Body, Do
    <3>. QED
      BY <3>1
  <2>5. CASE \/ ImportRefused \/ ContainerIsRunning \/ PruneFails \/ InsertRefused
             \/ \E kind \in {"error", "check"} : Raise(kind)
             \/ \E p \in Providers \cup Services : Unnoticed(p)
    BY <2>5 DEF ImportRefused, ContainerIsRunning, PruneFails, InsertRefused, Raise, Unnoticed,
                Escape
  <2>. QED
    BY <1>2, <2>1, <2>2, <2>3, <2>4, <2>5
       DEF Lines, Prepare, Pass, ImportProviders, ImportIf, LookForContainers, InsertRow,
           InsertAgain,
           StartPhase, EndPhase, SetupNetwork, EndMeasurement, At, Advance
<1>3. CASE PostProcess
  <2>1. pc' \in {"post", "post_failed", "clean"}
    BY <1>3 DEF PostProcess, MarkFailed, Mark, PostStep, PostEndMeasurement, PatchPhases, Patch,
           StorePhases, PostDone, Continue, PostFails, PostFailure, StopProvider,
           ProvidersStopped, Posting
  <2>. QED
    BY <2>1
<1>4. CASE Cleanup
  <2>1. CASE KillProcesses
    BY <2>1 DEF KillProcesses, Reset, Fresh
  <2>2. CASE CleanupFails
    BY <2>2 DEF CleanupFails
  <2>3. CASE pc = "clean" /\ UNCHANGED pc
    BY <2>3
  <2>. QED
    BY <1>4, <2>1, <2>2, <2>3
       DEF Cleanup, CleanSecrets, CleanProviders, ContainersRemoved, RemoveNetwork, RemoveImages,
           RemoveContainer, CleanNext, Cleaning
<1>. QED
  BY <1>1, <1>2, <1>3, <1>4 DEF Next

(* So it is in every state.                                                *)
LEMMA FreshInvariant == Spec => []FreshBetweenRuns
<1>1. Init => FreshBetweenRuns
  BY DEF Init, Fresh, FreshBetweenRuns
<1>. QED
  BY <1>1, FreshStep, TypesInvariant, PTL DEF Spec

(* No run starts with anything of the run before it in its runner.         *)
THEOREM RunsStartFresh == Spec => []StartsFresh
<1>1. FreshBetweenRuns => StartsFresh
  BY DEF FreshBetweenRuns, Fresh, StartsFresh
<1>. QED
  BY <1>1, FreshInvariant, PTL

-----------------------------------------------------------------------------
(* The phase that is under way at a line of Body.                          *)
UnderWay(i) ==
  CASE i = 9          -> {"[BASELINE]"}
    [] i \in 11 .. 12 -> {"[INSTALLATION]"}
    [] i \in 15 .. 17 -> {"[BOOT]"}
    [] i = 22         -> {"[IDLE]"}
    [] i \in 24 .. 25 -> {"[RUNTIME]"}
    [] i = 28         -> {"[REMOVE]"}
    [] OTHER          -> {}

(* In Body every phase that starts ends before the next one starts.        *)
LEMMA PhasesFollowBody ==
  ASSUME NEW i \in 1 .. Len(Body)
  PROVE  /\ Body[i].do \in {"start", "end"} => Body[i].of \in MainPhases
         /\ Body[i].do = "start" => UnderWay(i) = {} /\ UnderWay(i + 1) = {Body[i].of}
         /\ Body[i].do = "end" => UnderWay(i) = {Body[i].of} /\ UnderWay(i + 1) = {}
         /\ Body[i].do \notin {"start", "end"} => UnderWay(i) = UnderWay(i + 1)
<1>1. i \in 1 .. 30
  BY Lengths
<1>2. CASE i \in 1 .. 8
  BY <1>2 DEF Body, Start, End, Do, UnderWay, MainPhases
<1>3. CASE i \in 9 .. 16
  BY <1>3 DEF Body, Start, End, Do, UnderWay, MainPhases
<1>4. CASE i \in 17 .. 23
  BY <1>4 DEF Body, Start, End, Do, UnderWay, MainPhases
<1>5. CASE i \in 24 .. 30
  BY <1>5 DEF Body, Start, End, Do, UnderWay, MainPhases
<1>6. i \in 1 .. 8 \/ i \in 9 .. 16 \/ i \in 17 .. 23 \/ i \in 24 .. 30
  BY <1>1
<1>. QED
  BY <1>2, <1>3, <1>4, <1>5, <1>6, Zenon

(* The phases without an end are the one under way and, during the flows,  *)
(* [RUNTIME]; and once both have been patched there are none.              *)
OpenIsKnown ==
  /\ pc = "body" => open \subseteq UnderWay(at)
  /\ pc = "flow" => open \subseteq {"[RUNTIME]", last}
  /\ open \subseteq {"[RUNTIME]", last}
  /\ pc \in {"post", "post_failed"} /\ at > 2 => open = {}
  /\ pc = "post_failed" => at # 2
  /\ row.stored => row.open = {}

(* The lines of the run open and close phases in this order.               *)
LEMMA OpenIsKnownLines == Types /\ OpenIsKnown /\ Lines => OpenIsKnown'
<1>. SUFFICES ASSUME Types, OpenIsKnown, Lines PROVE OpenIsKnown'
  OBVIOUS
<1>1. row'.stored = row.stored /\ row'.open = row.open
  <2>1. CASE InsertRow \/ InsertAgain \/ InsertRefused
    BY <2>1 DEF InsertRow, InsertAgain, InsertRefused, Types, RowOK, RowSet
  <2>2. CASE UNCHANGED row
    BY <2>2
  <2>. QED
    BY <2>1, <2>2 DEF Lines, Prepare, Pass, ImportProviders, ImportIf, ImportRefused,
         LookForContainers, ContainerIsRunning, PruneFails, InsertRefused, StartProvider,
         StartPhase, EndPhase,
         SetupNetwork, SetupService, StartFlow, BeginFlow, EndFlow, EndMeasurement, Raise,
         Unnoticed, Escape
<1>2. at \in 1 .. Len(Body) /\ at \in 1 .. 30
  BY Lengths DEF Types, PositionOK
<1>3. CASE \E phase \in MainPhases : StartPhase(phase)
  <2>. PICK phase \in MainPhases : StartPhase(phase)
    BY <1>3
  <2>1. pc = "body" /\ Body[at].do = "start" /\ Body[at].of = phase
    BY DEF StartPhase, Start
  <2>2. open = {} /\ UnderWay(at + 1) = {phase}
    BY <1>2, <2>1, PhasesFollowBody DEF OpenIsKnown
  <2>3. open' = {phase} /\ last' = phase
    BY <2>2 DEF StartPhase
  <2>4. (pc' = "body" /\ at' = at + 1) \/ (pc' = "post" /\ at' = 1)
    BY <2>1 DEF StartPhase, Advance, Forward
  <2>. QED
    BY <1>1, <2>2, <2>3, <2>4 DEF OpenIsKnown
<1>4. CASE \E phase \in MainPhases : EndPhase(phase)
  <2>. PICK phase \in MainPhases : EndPhase(phase)
    BY <1>4
  <2>1. pc = "body" /\ Body[at].do = "end" /\ Body[at].of = phase
    BY DEF EndPhase, End
  <2>2. open \subseteq {phase} /\ UnderWay(at + 1) = {}
    BY <1>2, <2>1, PhasesFollowBody DEF OpenIsKnown
  <2>3. open' = {} /\ last' = last
    BY <2>2 DEF EndPhase
  <2>4. pc' \in {"body", "post"} /\ (pc' = "post" => at' = 1)
    BY <2>1 DEF EndPhase, Advance, Forward
  <2>. QED
    BY <1>1, <2>2, <2>3, <2>4 DEF OpenIsKnown
<1>5. CASE /\ pc = "body" /\ Body[at].do \notin {"start", "end"}
           /\ Forward /\ UNCHANGED <<open, last>>
  <2>1. UnderWay(at + 1) = UnderWay(at)
    BY <1>2, <1>5, PhasesFollowBody
  <2>2. \/ pc' = "body" /\ at' = at + 1
        \/ pc' = "post" /\ at' = 1
    BY <1>5 DEF Forward
  <2>. QED
    BY <1>1, <1>5, <2>1, <2>2 DEF OpenIsKnown
<1>6. CASE pc = "body" /\ UNCHANGED <<pc, at, open, last>>
  BY <1>1, <1>6 DEF OpenIsKnown
<1>7. CASE EndFlow \/ \E f \in Flows : StartFlow(f)
  <2>1. at = 24
    BY <1>2, <1>7, PositionsOfBody DEF EndFlow, StartFlow, BeginFlow, At, Types, PositionOK
  <2>2. UnderWay(24) = {"[RUNTIME]"}
    BY DEF UnderWay
  <2>. QED
    BY <1>1, <1>7, <2>1, <2>2 DEF EndFlow, StartFlow, BeginFlow, At, OpenIsKnown
<1>8. CASE pc' = "failed" /\ UNCHANGED <<open, last>>
  BY <1>1, <1>8 DEF OpenIsKnown
<1>. QED
  BY <1>3, <1>4, <1>5, <1>6, <1>7, <1>8
     DEF Lines, At, Do, Prepare, Pass, ImportProviders, ImportIf, ImportRefused,
         LookForContainers, ContainerIsRunning, PruneFails, InsertRefused, InsertRow, InsertAgain,
         StartProvider, SetupNetwork,
         SetupService, EndMeasurement, Raise, Unnoticed, Escape, Advance, runner

(* Post-processing closes what they leave open before it stores phases.    *)
LEMMA OpenIsKnownStep ==
  Types /\ FreshBetweenRuns /\ OpenIsKnown /\ [Next]_vars => OpenIsKnown'
<1>. SUFFICES ASSUME Types, FreshBetweenRuns, OpenIsKnown, [Next]_vars PROVE OpenIsKnown'
  OBVIOUS
<1>1. CASE Lines
  BY <1>1, OpenIsKnownLines
<1>2. CASE StartRun \/ Killed \/ UNCHANGED vars
  <2>1. CASE StartRun
    <3>1. open' = {} /\ pc' = "body" /\ row' = NoRow
      BY <2>1 DEF StartRun, FreshBetweenRuns, Fresh, runner
    <3>. QED
      BY <3>1 DEF OpenIsKnown, NoRow
  <2>2. CASE Killed \/ UNCHANGED vars
    BY <2>2 DEF Killed, vars, control, runner, OpenIsKnown
  <2>. QED
    BY <1>2, <2>1, <2>2
<1>3. CASE PostProcess
  <2>. at \in 1 .. Len(Body) /\ (pc \in {"post", "post_failed"} => at \in 1 .. Len(PostSteps))
    BY DEF Types, PositionOK
  <2>1. CASE MarkFailed
    BY <2>1, Lengths
       DEF MarkFailed, Mark, Continue, runner, OpenIsKnown, Types, RowOK, RowSet
  <2>2. CASE PostStep \/ PostEndMeasurement
    <3>1. /\ pc = "post" /\ UNCHANGED <<open, last>> /\ at # 2
          /\ row'.stored = row.stored /\ row'.open = row.open
      BY <2>2, PositionsOfPostSteps
         DEF PostStep, PostEndMeasurement, Posting, Saved, runner, Types, RowOK, RowSet
    <3>2. (pc' = "post" /\ at' = at + 1) \/ pc' = "clean"
      BY <2>2 DEF PostStep, PostEndMeasurement, PostDone, Continue
    <3>. QED
      BY <3>1, <3>2 DEF OpenIsKnown
  <2>3. CASE PatchPhases
    <3>1. /\ open' = {} /\ row'.stored = row.stored /\ row'.open = row.open
      BY <2>3 DEF PatchPhases, Patch, Saved, OpenIsKnown, Types, RowOK, RowSet
    <3>2. pc' \in {"post", "clean"}
      BY <2>3 DEF PatchPhases, Patch, PostDone, Continue
    <3>. QED
      BY <3>1, <3>2 DEF OpenIsKnown
  <2>4. CASE StorePhases
    <3>1. pc = "post" /\ at = 7 /\ open = {} /\ open' = {}
      BY <2>4, PositionsOfPostSteps DEF StorePhases, Posting, runner, OpenIsKnown
    <3>2. row'.open = {}
      BY <2>4, <3>1 DEF StorePhases, Saved, Types, RowOK, RowSet
    <3>3. pc' \in {"post", "clean"}
      BY <2>4 DEF StorePhases, PostDone, Continue
    <3>. QED
      BY <3>1, <3>2, <3>3 DEF OpenIsKnown
  <2>5. CASE PostFails
    <3>1. at # 2
      BY <2>5, PositionsOfPostSteps DEF PostFails, PostFailure, MayFail
    <3>. QED
      BY <2>5, <3>1 DEF PostFails, PostFailure, OpenIsKnown
  <2>6. CASE \E p \in Providers : StopProvider(p)
    <3>1. pc = "post" /\ at = 4 /\ pc' \in {"post", "post_failed"}
          /\ UNCHANGED <<at, open, last, row>>
      BY <2>6, PositionsOfPostSteps DEF StopProvider, Posting
    <3>. QED
      BY <3>1 DEF OpenIsKnown
  <2>7. CASE ProvidersStopped
    <3>1. /\ pc = "post" /\ at = 4 /\ UNCHANGED <<open, last>>
          /\ row'.stored = row.stored /\ row'.open = row.open
      BY <2>7, PositionsOfPostSteps
         DEF ProvidersStopped, Posting, Saved, Types, RowOK, RowSet
    <3>2. \/ pc' = "post" /\ at' = 5
          \/ pc' = "post_failed" /\ at' = 4
          \/ pc' = "clean"
      BY <2>7, <3>1 DEF ProvidersStopped, PostDone, Continue
    <3>. QED
      BY <3>1, <3>2 DEF OpenIsKnown
  <2>. QED
    BY <1>3, <2>1, <2>2, <2>3, <2>4, <2>5, <2>6, <2>7 DEF PostProcess
<1>4. CASE Cleanup
  <2>1. CASE KillProcesses
    BY <2>1 DEF KillProcesses, Reset, OpenIsKnown
  <2>2. pc = "clean" /\ pc' \in {"clean", "over"} /\ UNCHANGED row
    BY <1>4 DEF Cleanup, CleanSecrets, CleanProviders, ContainersRemoved, RemoveNetwork,
         RemoveImages, RemoveContainer, KillProcesses, Reset, CleanupFails, CleanNext, Cleaning
  <2>3. CASE UNCHANGED <<open, last>>
    BY <2>2, <2>3 DEF OpenIsKnown
  <2>. QED
    BY <1>4, <2>1, <2>3
       DEF Cleanup, CleanSecrets, CleanProviders, ContainersRemoved, RemoveNetwork, RemoveImages,
           RemoveContainer, CleanupFails, runner
<1>. QED
  BY <1>1, <1>2, <1>3, <1>4 DEF Next

(* So it is in every state.                                                *)
LEMMA OpenInvariant == Spec => []OpenIsKnown
<1>1. Init => OpenIsKnown
  BY DEF Init, NoRow, OpenIsKnown
<1>. QED
  BY <1>1, OpenIsKnownStep, TypesInvariant, FreshInvariant, PTL DEF Spec

(* Wherever a run breaks off, in a flow, in a phase or between two, the    *)
(* phases that are stored all have an end.                                 *)
THEOREM StoredPhasesHaveEnds == Spec => []StoredPhasesAreClosed
<1>1. OpenIsKnown => StoredPhasesAreClosed
  BY DEF OpenIsKnown, StoredPhasesAreClosed
<1>. QED
  BY <1>1, OpenInvariant, PTL

-----------------------------------------------------------------------------
(* From its check on, a run is alone with its providers and names.         *)
ProvidersClear == \A p \in enabled : live[p] # "earlier"

NamesClear ==
  /\ \A s \in services : up[s] # "earlier"
  /\ prune => \A s \in Services : up[s] = "earlier" => s \in stuck

CheckedFirst ==
  /\ pc = "body" /\ at > 4 => ProvidersClear
  /\ pc = "body" /\ at > 5 => NamesClear
  /\ pc = "flow" => ProvidersClear /\ NamesClear
  /\ open # {} => ProvidersClear /\ NamesClear

(* A step that leaves the task alone, makes nothing "earlier" and forgets  *)
(* nothing of what could not be stopped.                                   *)
LEMMA StaysClear ==
  ASSUME Types, UNCHANGED task, stuck \subseteq stuck',
         \A p \in Providers : live'[p] = live[p] \/ live'[p] # "earlier",
         \A s \in Services : up'[s] = up[s] \/ up'[s] # "earlier"
  PROVE  /\ ProvidersClear => ProvidersClear'
         /\ NamesClear => NamesClear'
BY UsesAssumption DEF ProvidersClear, NamesClear, task, Types, TaskOK

(* Only the start of the next run makes something "earlier".               *)
LEMMA OnlyNextRunAges ==
  ASSUME Types, [Next]_vars, ~ StartRun
  PROVE  /\ UNCHANGED task
         /\ stuck \subseteq stuck'
         /\ \A p \in Providers : live'[p] = live[p] \/ live'[p] # "earlier"
         /\ \A s \in Services : up'[s] = up[s] \/ up'[s] # "earlier"
<1>. USE DEF host, task, Types, HostOK
<1>0. ASSUME NEW failing \in SUBSET Running, StopAll(failing), UNCHANGED <<services, enabled,
prune, live>>
      PROVE  /\ UNCHANGED task
             /\ stuck \subseteq stuck'
             /\ \A p \in Providers : live'[p] = live[p] \/ live'[p] # "earlier"
             /\ \A s \in Services : up'[s] = up[s] \/ up'[s] # "earlier"
  BY <1>0, StopsOnly
<1>1. CASE Lines
  <2>1. CASE LookForContainers \/ PruneFails
    <3>. PICK failing \in SUBSET Running : StopAll(failing)
      BY <2>1 DEF LookForContainers, PruneFails
    <3>1. UNCHANGED <<services, enabled, prune, live>>
      BY <2>1 DEF LookForContainers, PruneFails, Forward, Escape
    <3>. QED
      BY <1>0, <3>1
  <2>. QED
    BY <1>1, <2>1
       DEF Lines, Advance, Forward, Prepare, Pass, ImportProviders, ImportIf, ImportRefused,
           ContainerIsRunning, InsertRefused, InsertRow, InsertAgain, StartProvider,
           StartPhase, EndPhase, SetupNetwork, SetupService, StartFlow, BeginFlow, EndFlow,
           EndMeasurement, Raise, Unnoticed, Escape
<1>2. CASE PostProcess
  BY <1>2 DEF PostProcess, MarkFailed, Mark, PostStep, PostEndMeasurement, PatchPhases, Patch,
       StorePhases, PostDone, PostFails, PostFailure, StopProvider, ProvidersStopped
<1>3. CASE Cleanup
  <2>1. CASE RemoveImages \/ CleanupFails
    <3>1. UNCHANGED <<services, enabled, prune, live>>
      BY <2>1 DEF RemoveImages, CleanupFails, CleanNext
    <3>2. CASE UNCHANGED <<up, stuck>>
      BY <3>1, <3>2
    <3>3. CASE \E failing \in SUBSET Running : StopAll(failing)
      <4>. PICK failing \in SUBSET Running : StopAll(failing)
        BY <3>3
      <4>. QED
        BY <1>0, <3>1
    <3>. QED
      BY <2>1, <3>2, <3>3 DEF RemoveImages, CleanupFails
  <2>. QED
    BY <1>3, <2>1
       DEF Cleanup, CleanNext, CleanSecrets, CleanProviders, ContainersRemoved,
           RemoveNetwork, RemoveContainer, KillProcesses, Reset
<1>4. CASE Killed \/ UNCHANGED vars
  BY <1>4 DEF Killed, vars, control
<1>. QED
  BY <1>1, <1>2, <1>3, <1>4 DEF Next

(* No step lets a leftover in once the two checks have been passed.        *)
LEMMA CheckedFirstStep ==
  Types /\ FreshBetweenRuns /\ CheckedFirst /\ [Next]_vars => CheckedFirst'
<1>. SUFFICES ASSUME Types, FreshBetweenRuns, CheckedFirst, [Next]_vars PROVE CheckedFirst'
  OBVIOUS
<1>. at \in 1 .. Len(Body)
  BY DEF Types, PositionOK
<1>1. CASE StartRun
  BY <1>1 DEF StartRun, FreshBetweenRuns, Fresh, runner, CheckedFirst
<1>2. ASSUME ~ StartRun
      PROVE  (ProvidersClear => ProvidersClear') /\ (NamesClear => NamesClear')
  BY <1>2, OnlyNextRunAges, StaysClear
<1>3. CASE ~ StartRun /\ Lines
  <2>1. CASE ImportProviders
    <3>1. pc = "body" /\ at = 4 /\ open' = open
      BY <2>1, PositionsOfBody DEF ImportProviders, ImportIf, At
    <3>2. ProvidersClear'
      BY <2>1 DEF ImportProviders, ImportIf, Advance, Forward, host, task, ProvidersClear
    <3>3. (pc' = "body" /\ at' = 5) \/ pc' = "post"
      BY <2>1, <3>1 DEF ImportProviders, ImportIf, Advance, Forward
    <3>. QED
      BY <1>2, <1>3, <3>1, <3>2, <3>3 DEF CheckedFirst
  <2>2. CASE LookForContainers
    <3>1. pc = "body" /\ at = 5 /\ open' = open
      BY <2>2, PositionsOfBody DEF LookForContainers, At, runner
    <3>2. NamesClear'
      <4>. PICK failing \in SUBSET Running : StopAll(failing)
        BY <2>2 DEF LookForContainers
      <4>1. UNCHANGED task /\ \A s \in services : up[s] = "none"
        BY <2>2 DEF LookForContainers, Forward
      <4>2. services \subseteq Services
        BY UsesAssumption DEF Types, TaskOK
      <4>. QED
        BY <4>1, <4>2, StopsOnly DEF task, NamesClear
    <3>3. (pc' = "body" /\ at' = 6) \/ pc' = "post"
      BY <2>2, <3>1 DEF LookForContainers, Forward
    <3>. QED
      BY <1>2, <1>3, <3>1, <3>2, <3>3 DEF CheckedFirst
  <2>3. CASE \E phase \in MainPhases : StartPhase(phase)
    <3>1. pc = "body" /\ at >= 8
      BY <2>3, PositionsOfBody DEF StartPhase, Start
    <3>2. pc' \in {"body", "post"}
      BY <2>3 DEF StartPhase, Advance, Forward
    <3>. QED
      BY <1>2, <1>3, <3>1, <3>2 DEF CheckedFirst
  <2>4. CASE EndFlow \/ \E f \in Flows : StartFlow(f)
    <3>1. at = 24 /\ pc \in {"body", "flow"} /\ pc' \in {"body", "flow"}
      BY <2>4, PositionsOfBody DEF EndFlow, StartFlow, BeginFlow, At, Types, PositionOK
    <3>. QED
      BY <1>2, <1>3, <3>1 DEF CheckedFirst
  <2>5. CASE pc = "body" /\ UNCHANGED <<pc, at, open>>
    BY <1>2, <1>3, <2>5 DEF CheckedFirst
  <2>6. CASE pc' = "failed" /\ UNCHANGED open
    BY <1>2, <1>3, <2>6 DEF CheckedFirst
  <2>7. CASE /\ pc = "body" /\ at \notin {4, 5} /\ Forward
             /\ open' \subseteq open
    <3>1. (pc' = "body" /\ at' = at + 1) \/ pc' = "post"
      BY <2>7 DEF Forward
    <3>. QED
      BY <1>2, <1>3, <2>7, <3>1 DEF CheckedFirst
  <2>8. Body[4] = Do("import_providers") /\ Body[5] = Do("look_for_containers")
    BY Lengths, PositionsOfBody
  <2>9. CASE \/ Prepare \/ Pass \/ InsertRow \/ InsertAgain \/ SetupNetwork
             \/ EndMeasurement
    BY <2>7, <2>8, <2>9
       DEF Prepare, Pass, InsertRow, InsertAgain, SetupNetwork, EndMeasurement, At, Do, runner,
           Advance
  <2>10. CASE \E phase \in MainPhases : EndPhase(phase)
    BY <2>7, <2>8, <2>10 DEF EndPhase, End, Do, Advance
  <2>11. CASE \/ \E p \in Providers : StartProvider(p)
              \/ \E s \in Services : SetupService(s)
    BY <2>5, <2>11 DEF StartProvider, SetupService, At
  <2>12. CASE \/ ImportRefused \/ ContainerIsRunning \/ PruneFails \/ InsertRefused
              \/ \E kind \in {"error", "check"} : Raise(kind)
              \/ \E p \in Providers \cup Services : Unnoticed(p)
    BY <2>6, <2>12 DEF ImportRefused, ContainerIsRunning, PruneFails, InsertRefused, Raise,
                       Unnoticed, Escape
  <2>. QED
    BY <1>3, <2>1, <2>2, <2>3, <2>4, <2>9, <2>10, <2>11, <2>12 DEF Lines
<1>4. CASE ~ StartRun /\ (PostProcess \/ Cleanup \/ Killed \/ UNCHANGED vars)
  <2>1. CASE UNCHANGED vars
    BY <1>2, <1>4, <2>1 DEF vars, runner, control, CheckedFirst
  <2>2. CASE pc' \notin {"body", "flow"} /\ open' \subseteq open
    BY <1>2, <1>4, <2>2 DEF CheckedFirst
  <2>3. PostProcess => pc' \in {"post", "post_failed", "clean"} /\ open' \subseteq open
    BY DEF PostProcess, MarkFailed, Mark, PostStep, PostEndMeasurement, PatchPhases, Patch,
           StorePhases, PostDone, Continue, PostFails, PostFailure, StopProvider,
           ProvidersStopped, Posting, runner
  <2>4. Cleanup \/ Killed => pc' \in {"clean", "over"} /\ open' \subseteq open
    BY DEF Cleanup, CleanSecrets, CleanProviders, ContainersRemoved, RemoveNetwork,
           RemoveImages, RemoveContainer, KillProcesses, Reset, CleanupFails, CleanNext,
           Cleaning, Killed, runner
  <2>. QED
    BY <1>4, <2>1, <2>2, <2>3, <2>4
<1>. QED
  BY <1>1, <1>3, <1>4 DEF Next

(* No phase is measured beside what an earlier run left running under a    *)
(* name or of a provider of this one, however many runs failed before.     *)
THEOREM RunsAreMeasuredAlone == Spec => []MeasuredAlone
<1>1. Init => CheckedFirst
  BY DEF Init, CheckedFirst
<1>2. CheckedFirst => MeasuredAlone
  BY DEF CheckedFirst, ProvidersClear, NamesClear, MeasuredAlone
<1>3. Spec => []CheckedFirst
  BY <1>1, CheckedFirstStep, TypesInvariant, FreshInvariant, PTL DEF Spec
<1>. QED
  BY <1>2, <1>3, PTL

-----------------------------------------------------------------------------
(* Before a run has a row there is nothing post-processing could fail at   *)
(* once the measurement has begun.                                         *)
NothingToFail ==
  /\ pc = "body" /\ at > 6 => row.exists
  /\ pc = "flow" => row.exists /\ began
  /\ pc = "body" /\ at > 1 => began
  /\ pc \in {"failed", "post", "post_failed"} /\ first = "check" => began
  /\ ~ row.exists => containers = {} /\ started = {} /\ ~ errors
  /\ ~ row.exists /\ pc = "post" => todo = {}
  /\ first = "check" /\ ~ row.exists /\ ~ dirty => exc = "check"

(* Up to the insert of the row no line starts anything.                    *)
LEMMA NothingToFailLines == Types /\ NothingToFail /\ Lines => NothingToFail'
<1>. SUFFICES ASSUME Types, NothingToFail, Lines PROVE NothingToFail'
  OBVIOUS
<1>. at \in 1 .. Len(Body) /\ row \in RowSet
  BY DEF Types, PositionOK, RowOK
<1>1. CASE Prepare
  <2>1. pc = "body" /\ at = 1 /\ began' /\ UNCHANGED <<row, containers, started>> /\ Advance
    BY <1>1, PositionsOfBody DEF Prepare, At
  <2>. QED
    BY <2>1 DEF Advance, Forward, NothingToFail
<1>2. CASE InsertRow \/ InsertAgain
  <2>1. row'.exists /\ Forward /\ at = 6 /\ pc = "body" /\ began' = began
    BY <1>2, PositionsOfBody DEF InsertRow, InsertAgain, At, RowSet, runner, Advance
  <2>. QED
    BY <2>1 DEF Forward, NothingToFail
<1>3. CASE /\ pc = "body" /\ at \notin {1, 6} /\ Forward
           /\ UNCHANGED <<row, containers, started, began>>
  BY <1>3 DEF Forward, NothingToFail
<1>4. CASE \/ \E p \in Providers : StartProvider(p)
           \/ \E s \in Services : SetupService(s)
  <2>1. at > 6 /\ pc = "body" /\ UNCHANGED <<pc, at, row, first, began, exc, dirty, errors>>
    BY <1>4, PositionsOfBody DEF StartProvider, SetupService, At
  <2>. QED
    BY <2>1 DEF NothingToFail
<1>5. CASE EndFlow \/ \E f \in Flows : StartFlow(f)
  <2>1. at = 24 /\ pc \in {"body", "flow"} /\ pc' \in {"body", "flow"}
    BY <1>5, PositionsOfBody DEF EndFlow, StartFlow, BeginFlow, At, Types, PositionOK
  <2>2. row.exists
    BY <2>1 DEF NothingToFail
  <2>3. began /\ UNCHANGED <<row, began, first, exc, dirty, errors>>
    <3>1. CASE EndFlow
      BY <3>1, <2>1 DEF EndFlow, NothingToFail
    <3>2. CASE \E f \in Flows : StartFlow(f)
      BY <3>2, <2>1 DEF StartFlow, BeginFlow, At, NothingToFail
    <3>. QED
      BY <1>5, <3>1, <3>2
  <2>. QED
    BY <2>1, <2>2, <2>3 DEF NothingToFail
<1>6. CASE \E kind \in {"error", "check"} : Raise(kind)
  BY <1>6, PositionsOfBody DEF Raise, Escape, At, Do, NothingToFail
<1>7. CASE \E p \in Providers \cup Services : Unnoticed(p)
  BY <1>7 DEF Unnoticed, Escape, NothingToFail
<1>8. CASE ImportRefused \/ ContainerIsRunning \/ PruneFails \/ InsertRefused
  <2>1. at \in {4, 5, 6} /\ pc = "body"
    BY <1>8, PositionsOfBody DEF ImportRefused, ContainerIsRunning, PruneFails, InsertRefused, At
  <2>2. Escape("check") \/ Escape("error")
    BY <1>8 DEF ImportRefused, ContainerIsRunning, PruneFails, InsertRefused
  <2>3. row'.exists = row.exists
    BY <1>8 DEF ImportRefused, ContainerIsRunning, PruneFails, InsertRefused, RowSet
  <2>. QED
    BY <2>1, <2>2, <2>3 DEF Escape, NothingToFail
<1>9. Body[1] = Do("prepare") /\ Body[6] = Do("insert")
  BY Lengths, PositionsOfBody
<1>10. CASE \/ Pass \/ ImportProviders \/ LookForContainers \/ SetupNetwork \/ EndMeasurement
  BY <1>3, <1>9, <1>10
     DEF Pass, ImportProviders, ImportIf, LookForContainers, SetupNetwork, EndMeasurement, At, Do,
         Advance, runner
<1>11. CASE \E phase \in MainPhases : StartPhase(phase) \/ EndPhase(phase)
  BY <1>3, <1>9, <1>11 DEF StartPhase, EndPhase, Start, End, Do, Advance
<1>. QED
  BY <1>1, <1>2, <1>4, <1>5, <1>6, <1>7, <1>8, <1>10, <1>11 DEF Lines

(* Without a row neither post-processing nor the marking adds a failure.   *)
LEMMA NothingToFailStep ==
  Types /\ FreshBetweenRuns /\ NothingToFail /\ [Next]_vars => NothingToFail'
<1>. SUFFICES ASSUME Types, FreshBetweenRuns, NothingToFail, [Next]_vars PROVE NothingToFail'
  OBVIOUS
<1>. (pc \in {"post", "post_failed"} => at \in 1 .. Len(PostSteps)) /\ row \in RowSet
  BY DEF Types, PositionOK, RowOK
<1>1. CASE Lines
  BY <1>1, NothingToFailLines
<1>2. CASE StartRun
  BY <1>2 DEF StartRun, FreshBetweenRuns, Fresh, NoRow, runner, NothingToFail
<1>3. CASE Killed
  BY <1>3 DEF Killed, runner, NothingToFail
<1>4. CASE UNCHANGED vars
  BY <1>4 DEF vars, control, runner, NothingToFail
<1>5. CASE MarkFailed
  <2>1. row'.exists = row.exists
    BY <1>5 DEF MarkFailed, Mark, RowSet
  <2>2. CASE row.exists
    BY <1>5, <2>1, <2>2 DEF MarkFailed, Mark, Continue, runner, NothingToFail
  <2>3. CASE ~ row.exists
    BY <1>5, <2>1, <2>3 DEF MarkFailed, Mark, Continue, runner, NothingToFail
  <2>. QED
    BY <2>2, <2>3
<1>6. CASE PostStep \/ PostEndMeasurement \/ PatchPhases \/ StorePhases
  <2>1. row'.exists = row.exists
    BY <1>6 DEF PostStep, PostEndMeasurement, PatchPhases, Patch, StorePhases, Saved, RowSet
  <2>2. PostDone /\ pc = "post" /\ UNCHANGED <<containers, started, began>>
    BY <1>6 DEF PostStep, PostEndMeasurement, PatchPhases, Patch, StorePhases, Posting, runner
  <2>. QED
    BY <2>1, <2>2 DEF PostDone, Continue, NothingToFail
<1>7. CASE PostFails
  <2>1. row.exists \/ first # "check"
    BY <1>7 DEF PostFails, PostFailure, MayFail, NothingToFail
  <2>. QED
    BY <1>7, <2>1 DEF PostFails, PostFailure, NothingToFail
<1>8. CASE \E p \in Providers : StopProvider(p)
  BY <1>8 DEF StopProvider, Posting, NothingToFail
<1>9. CASE ProvidersStopped
  <2>1. row'.exists = row.exists
    BY <1>9 DEF ProvidersStopped, Saved, RowSet
  <2>2. CASE errors
    BY <1>9, <2>1, <2>2 DEF ProvidersStopped, Posting, NothingToFail
  <2>3. CASE ~ errors
    BY <1>9, <2>1, <2>3 DEF ProvidersStopped, Posting, PostDone, Continue, NothingToFail
  <2>. QED
    BY <2>2, <2>3
<1>10. CASE Cleanup
  BY <1>10 DEF Cleanup, CleanNext, CleanSecrets, CleanProviders, ContainersRemoved,
       RemoveNetwork, RemoveImages, RemoveContainer, KillProcesses, Reset, CleanupFails,
       Cleaning, runner, NothingToFail
<1>. QED
  BY <1>1, <1>2, <1>3, <1>4, <1>5, <1>6, <1>7, <1>8, <1>9, <1>10 DEF Next, PostProcess

(* A check of the machine that fails before the run has a row reaches the  *)
(* caller as it is, through post-processing, unless the cleanup fails.     *)
THEOREM EarlyChecksReachCaller == Spec => []EarlyCheckReachesCaller
<1>1. Init => NothingToFail
  BY DEF Init, NoRow, NothingToFail
<1>2. NothingToFail => EarlyCheckReachesCaller
  BY DEF NothingToFail, EarlyCheckReachesCaller
<1>3. Spec => []NothingToFail
  BY <1>1, NothingToFailStep, TypesInvariant, FreshInvariant, PTL DEF Spec
<1>. QED
  BY <1>2, <1>3, PTL

-----------------------------------------------------------------------------
(* Measurements are imported at the fourth step only, and there only those *)
(* of providers that are not off the loop.                                 *)
ImportsAreAhead ==
  /\ \A p \in Providers : metrics[p] <= 1
  /\ pc \in {"body", "flow", "failed"} => \A p \in Providers : metrics[p] = 0
  /\ pc \in {"post", "post_failed"} /\ at < 4 => \A p \in Providers : metrics[p] = 0
  /\ pc = "post" /\ at = 4 => \A p \in Providers \cap todo : metrics[p] = 0

(* A provider leaves the loop with its measurements.                       *)
LEMMA ImportsAreAheadStep == Types /\ ImportsAreAhead /\ [Next]_vars => ImportsAreAhead'
<1>. SUFFICES ASSUME Types, ImportsAreAhead, [Next]_vars PROVE ImportsAreAhead'
  OBVIOUS
<1>. /\ pc \in {"post", "post_failed"} => at \in 1 .. Len(PostSteps)
     /\ metrics \in [Providers -> Nat] /\ at \in Nat
  BY DEF Types, PositionOK, RowOK
<1>1. CASE StartRun \/ Killed \/ UNCHANGED vars
  BY <1>1 DEF StartRun, Killed, vars, control, ImportsAreAhead
<1>2. CASE Lines
  <2>1. /\ pc \in {"body", "flow"} /\ UNCHANGED metrics
        /\ \/ pc' \in {"body", "flow", "failed"}
           \/ pc' = "post" /\ at' = 1
    BY <1>2 DEF Lines, At, Advance, Forward, Prepare, Pass, ImportProviders, ImportIf,
                ImportRefused,
       LookForContainers, ContainerIsRunning, PruneFails, InsertRefused, InsertRow, InsertAgain,
       StartProvider, StartPhase, EndPhase,
       SetupNetwork, SetupService, StartFlow, BeginFlow, EndFlow, EndMeasurement, Raise,
       Unnoticed, Escape
  <2>. QED
    BY <2>1 DEF ImportsAreAhead
<1>3. CASE MarkFailed
  <2>1. /\ pc \in {"failed", "post_failed"} /\ UNCHANGED metrics
        /\ \/ pc' = "post" /\ at' = IF pc = "failed" THEN 1 ELSE at + 1
           \/ pc' = "clean"
    BY <1>3, Lengths DEF MarkFailed, Mark, Continue
  <2>. QED
    BY <2>1 DEF ImportsAreAhead
<1>4. CASE PostStep \/ PostEndMeasurement \/ PatchPhases \/ StorePhases
  <2>1. /\ pc = "post" /\ UNCHANGED metrics /\ at # 4
        /\ (pc' = "post" /\ at' = at + 1) \/ pc' = "clean"
    BY <1>4, PositionsOfPostSteps DEF PostStep, PostEndMeasurement, PatchPhases, Patch,
       StorePhases, Posting, PostDone, Continue
  <2>. QED
    BY <2>1 DEF ImportsAreAhead
<1>5. CASE PostFails
  BY <1>5 DEF PostFails, PostFailure, ImportsAreAhead
<1>6. CASE \E p \in Providers : StopProvider(p)
  <2>. PICK p \in Providers : StopProvider(p)
    BY <1>6
  <2>1. pc = "post" /\ at = 4 /\ p \in todo /\ metrics[p] = 0 /\ UNCHANGED at
    BY PositionsOfPostSteps DEF StopProvider, Posting, ImportsAreAhead
  <2>2. UNCHANGED metrics \/ metrics' = [metrics EXCEPT ![p] = @ + 1]
    BY DEF StopProvider
  <2>3. \A q \in Providers : metrics'[q] <= 1 /\ (q # p => metrics'[q] = metrics[q])
    BY <2>1, <2>2 DEF ImportsAreAhead
  <2>4. pc' = "post_failed" \/ (pc' = "post" /\ todo' = todo \ {p})
    BY <2>1 DEF StopProvider
  <2>. QED
    BY <2>1, <2>3, <2>4 DEF ImportsAreAhead
<1>7. CASE ProvidersStopped
  <2>1. pc = "post" /\ at = 4 /\ UNCHANGED metrics
    BY <1>7, PositionsOfPostSteps DEF ProvidersStopped, Posting, PostDone
  <2>2. \/ pc' = "post_failed" /\ at' = 4
        \/ pc' = "post" /\ at' = 5
        \/ pc' = "clean"
    BY <1>7, <2>1 DEF ProvidersStopped, PostDone, Continue
  <2>. QED
    BY <2>1, <2>2 DEF ImportsAreAhead
<1>8. CASE Cleanup
  <2>1. pc' \in {"clean", "over"} /\ UNCHANGED metrics
    BY <1>8 DEF Cleanup, CleanNext, CleanSecrets, CleanProviders, ContainersRemoved,
       RemoveNetwork, RemoveImages, RemoveContainer, KillProcesses, Reset, CleanupFails, Cleaning
  <2>. QED
    BY <2>1 DEF ImportsAreAhead
<1>. QED
  BY <1>1, <1>2, <1>3, <1>4, <1>5, <1>6, <1>7, <1>8 DEF Next, PostProcess

(* No provider's measurements are imported twice, through failures of any  *)
(* of the steps of post-processing, which starts over behind each of them. *)
THEOREM MeasurementsAreImportedOnce == Spec => []ImportedOnce
<1>1. Init => ImportsAreAhead
  BY DEF Init, ImportsAreAhead
<1>2. ImportsAreAhead => ImportedOnce
  BY DEF ImportsAreAhead, ImportedOnce
<1>3. Spec => []ImportsAreAhead
  BY <1>1, ImportsAreAheadStep, TypesInvariant, PTL DEF Spec
<1>. QED
  BY <1>2, <1>3, PTL

-----------------------------------------------------------------------------
(* Whatever of this run is up is in the runner's hands or known to be      *)
(* beyond them, until the cleanup has gone over it.                        *)
ProvidersTracked ==
  /\ \A p \in Providers : live[p] = "this" => p \in listed \cap started \/ p \in stuck
  /\ pc = "body" /\ at <= 6 => started = {} /\ \A p \in Providers : live[p] # "this"
  /\ pc = "body" /\ at \in {7, 19} => todo \subseteq listed
  /\ pc = "post" /\ at = 4 => listed \cap started \subseteq todo \cup stuck
  /\ (pc = "clean" /\ at > 2) \/ (pc = "over" /\ ~ dirty) =>
       \A p \in Providers : live[p] = "this" => p \in stuck

ContainersTracked ==
  /\ \A s \in Services : up[s] = "this" => s \in containers \/ s \in stuck
  /\ pc = "clean" /\ at = 3 => \A s \in Services : up[s] = "this" => s \in todo \/ s \in stuck
  /\ (pc = "clean" /\ at > 3) \/ (pc = "over" /\ ~ dirty) =>
       \A s \in Services : up[s] = "this" => s \in stuck

NetworkTracked ==
  /\ net => network \/ (pc = "clean" /\ at > 4) \/ pc = "over"
  /\ (pc = "clean" /\ at > 4) \/ (pc = "over" /\ ~ dirty) =>
       (net => \E s \in Services : up[s] = "this")

(* The cleanup removes each container the runner has noted.                *)
LEMMA ContainersTrackedStep == Types /\ ContainersTracked /\ [Next]_vars => ContainersTracked'
<1>. SUFFICES ASSUME Types, ContainersTracked, [Next]_vars PROVE ContainersTracked'
  OBVIOUS
<1>. /\ pc = "clean" => at \in 1 .. Len(CleanSteps)
     /\ up \in [Services -> Owners] /\ at \in Nat
  BY DEF Types, PositionOK, HostOK
<1>1. CASE StartRun
  <2>1. \A s \in Services : up'[s] # "this"
    BY <1>1 DEF StartRun, Age
  <2>. QED
    BY <2>1 DEF ContainersTracked
<1>2. CASE Killed \/ UNCHANGED vars
  BY <1>2 DEF Killed, vars, host, runner, control, ContainersTracked
<1>3. CASE Lines
  <2>1. pc' \in {"body", "flow", "failed", "post"}
    BY <1>3 DEF Lines, At, Advance, Forward, Prepare, Pass, ImportProviders, ImportIf,
                ImportRefused,
       LookForContainers, ContainerIsRunning, PruneFails, InsertRefused, InsertRow, InsertAgain,
       StartProvider, StartPhase, EndPhase,
       SetupNetwork, SetupService, StartFlow, BeginFlow, EndFlow, EndMeasurement, Raise,
       Unnoticed, Escape
  <2>2. CASE LookForContainers \/ PruneFails
    <3>. PICK failing \in SUBSET Running : StopAll(failing)
      BY <2>2 DEF LookForContainers, PruneFails
    <3>1. UNCHANGED containers
      BY <2>2 DEF LookForContainers, PruneFails, Escape, runner
    <3>2. stuck \subseteq stuck' /\ \A s \in Services : up'[s] = "this" => up[s] = "this"
      BY StopsOnly
    <3>. QED
      BY <2>1, <3>1, <3>2 DEF ContainersTracked
  <2>3. CASE \E s \in Services : SetupService(s)
    BY <2>1, <2>3 DEF SetupService, ContainersTracked
  <2>4. CASE \E p \in Providers \cup Services : Unnoticed(p)
    BY <2>1, <2>4 DEF Unnoticed, Escape, ContainersTracked
  <2>5. CASE UNCHANGED <<up, containers, stuck>>
    BY <2>1, <2>5 DEF ContainersTracked
  <2>. QED
    BY <1>3, <2>2, <2>3, <2>4, <2>5
       DEF Lines, Advance, Forward, Prepare, Pass, ImportProviders, ImportIf, ImportRefused,
           ContainerIsRunning, InsertRefused, InsertRow, InsertAgain, StartProvider, StartPhase,
           EndPhase, SetupNetwork, StartFlow, BeginFlow, EndFlow, EndMeasurement, Raise, Escape,
           host, runner
<1>4. CASE PostProcess
  <2>1. /\ UNCHANGED <<up, containers>> /\ stuck \subseteq stuck'
        /\ pc' \in {"post", "post_failed"} \/ (pc' = "clean" /\ at' = 1)
    BY <1>4 DEF PostProcess, MarkFailed, Mark, PostStep, PostEndMeasurement, PatchPhases, Patch,
           StorePhases, PostDone, Continue, PostFails, PostFailure, StopProvider,
           ProvidersStopped, Posting, host, runner
  <2>. QED
    BY <2>1 DEF ContainersTracked
<1>5. CASE Cleanup
  <2>1. CASE CleanSecrets \/ CleanProviders \/ RemoveNetwork
    <3>1. /\ pc = "clean" /\ pc' = "clean" /\ at' = at + 1 /\ at # 3
          /\ UNCHANGED <<up, containers>> /\ stuck \subseteq stuck'
          /\ at = 2 => todo' = containers
      BY <2>1, PositionsOfCleanSteps, Lengths
         DEF CleanSecrets, CleanProviders, RemoveNetwork, Cleaning, CleanNext, host, runner
    <3>. QED
      BY <3>1 DEF ContainersTracked
  <2>2. CASE \E s \in Services : RemoveContainer(s)
    BY <2>2, PositionsOfCleanSteps DEF RemoveContainer, Cleaning, runner, ContainersTracked
  <2>3. CASE ContainersRemoved
    BY <2>3, PositionsOfCleanSteps
       DEF ContainersRemoved, Cleaning, CleanNext, host, ContainersTracked
  <2>4. CASE RemoveImages
    <3>. PICK failing \in SUBSET Running : StopAll(failing)
      BY <2>4 DEF RemoveImages
    <3>1. pc = "clean" /\ pc' = "clean" /\ at = 5 /\ at' = 6 /\ UNCHANGED containers
      BY <2>4, PositionsOfCleanSteps DEF RemoveImages, Cleaning, CleanNext, runner
    <3>2. stuck \subseteq stuck' /\ \A s \in Services : up'[s] = "this" => up[s] = "this"
      BY StopsOnly
    <3>. QED
      BY <3>1, <3>2 DEF ContainersTracked
  <2>5. CASE KillProcesses
    BY <2>5, PositionsOfCleanSteps DEF KillProcesses, Reset, Cleaning, host, ContainersTracked
  <2>6. CASE CleanupFails
    <3>1. pc' = "over" /\ dirty' /\ UNCHANGED containers
      BY <2>6 DEF CleanupFails, runner
    <3>2. stuck \subseteq stuck' /\ \A s \in Services : up'[s] = "this" => up[s] = "this"
      <4>1. CASE UNCHANGED <<up, stuck>>
        BY <4>1
      <4>2. CASE \E failing \in SUBSET Running : StopAll(failing)
        BY <4>2, StopsOnly
      <4>. QED
        BY <2>6, <4>1, <4>2 DEF CleanupFails
    <3>. QED
      BY <3>1, <3>2 DEF ContainersTracked
  <2>. QED
    BY <1>5, <2>1, <2>2, <2>3, <2>4, <2>5, <2>6 DEF Cleanup
<1>. QED
  BY <1>1, <1>2, <1>3, <1>4, <1>5 DEF Next

(* The cleanup removes the network, unless a container is still in it.     *)
LEMMA NetworkTrackedStep ==
  Types /\ NetworkTracked /\ [Next]_vars => NetworkTracked'
<1>. SUFFICES ASSUME Types, NetworkTracked, [Next]_vars PROVE NetworkTracked'
  OBVIOUS
<1>. /\ pc = "clean" => at \in 1 .. Len(CleanSteps)
     /\ up \in [Services -> Owners] /\ at \in Nat
  BY DEF Types, PositionOK, HostOK
<1>1. CASE StartRun \/ Killed \/ UNCHANGED vars
  BY <1>1 DEF StartRun, Killed, vars, host, runner, control, NetworkTracked
<1>2. CASE Lines
  <2>1. pc \in {"body", "flow"} /\ pc' \in {"body", "flow", "failed", "post"}
    BY <1>2 DEF Lines, At, Advance, Forward, Prepare, Pass, ImportProviders, ImportIf,
                ImportRefused,
       LookForContainers, ContainerIsRunning, PruneFails, InsertRefused, InsertRow, InsertAgain,
       StartProvider, StartPhase, EndPhase,
       SetupNetwork, SetupService, StartFlow, BeginFlow, EndFlow, EndMeasurement, Raise,
       Unnoticed, Escape
  <2>2. network' \/ UNCHANGED <<net, network>>
    BY <1>2 DEF Lines, Advance, Forward, Prepare, Pass, ImportProviders, ImportIf, ImportRefused,
       LookForContainers, ContainerIsRunning, PruneFails, InsertRefused, InsertRow, InsertAgain,
       StartProvider, StartPhase, EndPhase,
       SetupNetwork, SetupService, StartFlow, BeginFlow, EndFlow, EndMeasurement, Raise,
       Unnoticed, Escape, host, runner
  <2>. QED
    BY <2>1, <2>2 DEF NetworkTracked
<1>3. CASE PostProcess
  <2>1. /\ UNCHANGED <<net, network>> /\ pc \in {"failed", "post", "post_failed"}
        /\ pc' \in {"post", "post_failed"} \/ (pc' = "clean" /\ at' = 1)
    BY <1>3 DEF PostProcess, MarkFailed, Mark, PostStep, PostEndMeasurement, PatchPhases, Patch,
           StorePhases, PostDone, Continue, PostFails, PostFailure, StopProvider,
           ProvidersStopped, Posting, host, runner
  <2>. QED
    BY <2>1 DEF NetworkTracked
<1>4. CASE Cleanup
  <2>1. CASE CleanSecrets \/ CleanProviders \/ ContainersRemoved
    <3>1. /\ pc = "clean" /\ pc' = "clean" /\ at' = at + 1 /\ at < 4
          /\ UNCHANGED <<net, network>>
      BY <2>1, PositionsOfCleanSteps
         DEF CleanSecrets, CleanProviders, ContainersRemoved, Cleaning, CleanNext, host, runner
    <3>. QED
      BY <3>1 DEF NetworkTracked
  <2>2. CASE \E s \in Services : RemoveContainer(s)
    <3>1. pc = "clean" /\ at = 3 /\ UNCHANGED <<pc, at, net, network>>
      BY <2>2, PositionsOfCleanSteps DEF RemoveContainer, Cleaning, runner
    <3>. QED
      BY <3>1 DEF NetworkTracked
  <2>3. CASE RemoveNetwork
    <3>1. pc = "clean" /\ pc' = "clean" /\ at' = 5 /\ UNCHANGED up
      BY <2>3, PositionsOfCleanSteps DEF RemoveNetwork, Cleaning, CleanNext
    <3>2. net' => \E s \in Services : up[s] = "this"
      BY <2>3, PositionsOfCleanSteps DEF RemoveNetwork, Cleaning, NetworkTracked
    <3>. QED
      BY <3>1, <3>2 DEF NetworkTracked
  <2>4. CASE RemoveImages
    <3>1. pc = "clean" /\ pc' = "clean" /\ at = 5 /\ at' = 6
      BY <2>4, PositionsOfCleanSteps DEF RemoveImages, Cleaning, CleanNext
    <3>2. (net' => net) /\ (net' /\ prune => \E s \in Services : up'[s] = "this")
      BY <2>4 DEF RemoveImages
    <3>3. ~ prune => up' = up
      BY <2>4, StopsOnly DEF RemoveImages
    <3>. QED
      BY <3>1, <3>2, <3>3 DEF NetworkTracked
  <2>5. CASE KillProcesses
    BY <2>5, PositionsOfCleanSteps DEF KillProcesses, Reset, Cleaning, host, NetworkTracked
  <2>6. CASE CleanupFails
    BY <2>6 DEF CleanupFails, runner, NetworkTracked
  <2>. QED
    BY <1>4, <2>1, <2>2, <2>3, <2>4, <2>5, <2>6 DEF Cleanup
<1>. QED
  BY <1>1, <1>2, <1>3, <1>4 DEF Next

(* A line starts only providers on the list and notes their processes.     *)
LEMMA ProvidersTrackedLines == Types /\ ProvidersTracked /\ Lines => ProvidersTracked'
<1>. SUFFICES ASSUME Types, ProvidersTracked, Lines PROVE ProvidersTracked'
  OBVIOUS
<1>. at \in 1 .. Len(Body) /\ live \in [Providers -> Owners]
  BY DEF Types, PositionOK, HostOK
<1>1. Body[6] = Do("insert") /\ Body[7] = Do("host_providers")
      /\ Body[19] = Do("container_providers")
  BY Lengths, PositionsOfBody
<1>2. Load(Body[7]) \subseteq listed /\ Load(Body[19]) \subseteq listed
  BY <1>1 DEF Load, Do
<1>3. CASE ImportProviders
  <2>1. pc = "body" /\ at = 4 /\ UNCHANGED <<live, started, stuck>>
    BY <1>3, PositionsOfBody DEF ImportProviders, ImportIf, At, Advance, Forward, host
  <2>2. (pc' = "body" /\ at' = 5) \/ (pc' = "post" /\ at' = 1)
    BY <1>3, <2>1 DEF ImportProviders, ImportIf, Advance, Forward
  <2>. QED
    BY <2>1, <2>2 DEF ProvidersTracked
<1>4. CASE /\ pc = "body"
           /\ Forward /\ stuck \subseteq stuck' /\ UNCHANGED <<live, listed, started>>
  <2>2. CASE at < Len(Body)
    <3>1. pc' = "body" /\ at' = at + 1 /\ todo' = Load(Body[at + 1])
      BY <1>4, <2>2 DEF Forward
    <3>2. at' \in {7, 19} => todo' \subseteq listed
      BY <1>2, <3>1
    <3>. QED
      BY <1>4, <3>1, <3>2 DEF ProvidersTracked
  <2>3. CASE ~ (at < Len(Body))
    <3>1. pc' = "post" /\ at' = 1
      BY <1>4, <2>3 DEF Forward
    <3>. QED
      BY <1>4, <3>1 DEF ProvidersTracked
  <2>. QED
    BY <2>2, <2>3
<1>5. CASE \E p \in Providers : StartProvider(p)
  <2>. PICK p \in Providers : StartProvider(p)
    BY <1>5
  <2>1. pc = "body" /\ at \in {7, 19} /\ p \in listed
    BY PositionsOfBody DEF StartProvider, At, ProvidersTracked
  <2>. QED
    BY <2>1 DEF StartProvider, ProvidersTracked
<1>6. CASE \/ EndFlow \/ \E f \in Flows : StartFlow(f)
           \/ \E s \in Services : SetupService(s)
  <2>1. pc \in {"body", "flow"} /\ at \in {16, 24} /\ UNCHANGED <<at, live, listed, started, stuck>>
    BY <1>6, PositionsOfBody
       DEF EndFlow, StartFlow, BeginFlow, SetupService, At, host, Types, PositionOK
  <2>2. pc' \in {"body", "flow"}
    BY <1>6 DEF EndFlow, StartFlow, BeginFlow, SetupService, At
  <2>. QED
    BY <2>1, <2>2 DEF ProvidersTracked
<1>7. CASE ImportRefused
  <2>1. pc = "body" /\ at = 4
    BY <1>7, PositionsOfBody DEF ImportRefused, At
  <2>. QED
    BY <1>7, <2>1 DEF ImportRefused, Escape, ProvidersTracked
<1>8. CASE \/ ContainerIsRunning \/ PruneFails \/ InsertRefused
           \/ \E kind \in {"error", "check"} : Raise(kind)
  <2>1. pc' = "failed" /\ UNCHANGED <<live, listed, started>>
    BY <1>8 DEF ContainerIsRunning, PruneFails, InsertRefused, Raise, Escape
  <2>2. stuck \subseteq stuck'
    BY <1>8, StopsOnly DEF ContainerIsRunning, PruneFails, InsertRefused, Raise
  <2>. QED
    BY <2>1, <2>2 DEF ProvidersTracked
<1>9. CASE \E p \in Providers \cup Services : Unnoticed(p)
  BY <1>9 DEF Unnoticed, Escape, ProvidersTracked
<1>10. CASE \/ Prepare \/ Pass \/ InsertRow \/ InsertAgain \/ SetupNetwork
            \/ EndMeasurement
  BY <1>4, <1>10
     DEF Prepare, Pass, InsertRow, InsertAgain, SetupNetwork, EndMeasurement, At, host,
         runner, Advance
<1>11. CASE \E phase \in MainPhases : StartPhase(phase) \/ EndPhase(phase)
  BY <1>4, <1>11 DEF StartPhase, EndPhase, host, Advance
<1>12. CASE LookForContainers
  <2>1. stuck \subseteq stuck'
    BY <1>12, StopsOnly DEF LookForContainers
  <2>. QED
    BY <1>4, <1>12, <2>1 DEF LookForContainers, At, runner
<1>. QED
  BY <1>3, <1>5, <1>6, <1>7, <1>8, <1>9, <1>10, <1>11, <1>12 DEF Lines

(* Post-processing and cleanup stop every process that was noted.          *)
LEMMA ProvidersTrackedStep ==
  Types /\ FreshBetweenRuns /\ ProvidersTracked /\ [Next]_vars => ProvidersTracked'
<1>. SUFFICES ASSUME Types, FreshBetweenRuns, ProvidersTracked, [Next]_vars
             PROVE  ProvidersTracked'
  OBVIOUS
<1>. /\ pc \in {"post", "post_failed"} => at \in 1 .. Len(PostSteps)
     /\ pc = "clean" => at \in 1 .. Len(CleanSteps)
     /\ live \in [Providers -> Owners] /\ at \in Nat
  BY DEF Types, PositionOK, HostOK
<1>1. CASE Lines
  BY <1>1, ProvidersTrackedLines
<1>2. CASE StartRun
  <2>1. \A p \in Providers : live'[p] # "this"
    BY <1>2 DEF StartRun, Age
  <2>2. started' = {}
    BY <1>2 DEF StartRun, FreshBetweenRuns, Fresh, runner
  <2>. QED
    BY <1>2, <2>1, <2>2 DEF StartRun, ProvidersTracked
<1>3. CASE Killed \/ UNCHANGED vars
  BY <1>3 DEF Killed, vars, host, runner, control, ProvidersTracked
<1>4. CASE MarkFailed
  <2>1. /\ UNCHANGED <<live, listed, started, stuck>>
        /\ \/ pc' = "post" /\ (at' = 4 => todo' = listed \cap started)
           \/ pc' = "clean" /\ at' = 1
    BY <1>4, PositionsOfPostSteps DEF MarkFailed, Mark, Continue, host, runner
  <2>. QED
    BY <2>1 DEF ProvidersTracked
<1>5. CASE PostStep \/ PostEndMeasurement \/ PatchPhases \/ StorePhases
  <2>1. /\ UNCHANGED <<live, listed, started, stuck>> /\ PostDone
    BY <1>5 DEF PostStep, PostEndMeasurement, PatchPhases, Patch, StorePhases, PostDone, host,
                runner
  <2>2. \/ pc' = "post" /\ (at' = 4 => todo' = listed \cap started)
        \/ pc' = "clean" /\ at' = 1
    BY <2>1, Lengths, PositionsOfPostSteps DEF PostDone, Continue
  <2>. QED
    BY <2>1, <2>2 DEF ProvidersTracked
<1>6. CASE PostFails
  BY <1>6 DEF PostFails, PostFailure, host, ProvidersTracked
<1>7. CASE \E p \in Providers : StopProvider(p)
  <2>. PICK p \in Providers : StopProvider(p)
    BY <1>7
  <2>1. pc = "post" /\ at = 4 /\ UNCHANGED <<at, listed>> /\ pc' \in {"post", "post_failed"}
    BY PositionsOfPostSteps DEF StopProvider, Posting
  <2>2. todo' = todo \ {p} \/ pc' = "post_failed"
    BY DEF StopProvider
  <2>3. \/ /\ live' = [live EXCEPT ![p] = "none"] /\ started' = started \ {p}
           /\ stuck' = stuck
        \/ /\ live' = live /\ started' = started /\ stuck' = stuck \cup {p}
    BY DEF StopProvider
  <2>4. CASE UNCHANGED started
    <3>1. \A q \in Providers : live'[q] = "this" => q \in listed \cap started' \/ q \in stuck'
      BY <2>3, <2>4 DEF ProvidersTracked
    <3>. QED
      BY <2>1, <2>2, <2>3, <2>4, <3>1 DEF ProvidersTracked, Posting, StopProvider
  <2>5. CASE started' = started \ {p}
    <3>1. \A q \in Providers : live'[q] = "this" => q \in listed \cap started' \/ q \in stuck'
      BY <2>3, <2>5 DEF ProvidersTracked
    <3>. QED
      BY <2>1, <2>2, <2>3, <2>5, <3>1 DEF ProvidersTracked
  <2>. QED
    BY <2>3, <2>4, <2>5
<1>8. CASE ProvidersStopped
  <2>1. /\ pc = "post" /\ at = 4 /\ todo = {}
        /\ listed' = {} /\ started' = {} /\ UNCHANGED <<live, stuck>>
    BY <1>8, PositionsOfPostSteps DEF ProvidersStopped, Posting, PostDone, host
  <2>2. \A p \in Providers : live'[p] = "this" => p \in stuck'
    BY <2>1 DEF ProvidersTracked
  <2>3. pc' \in {"post", "post_failed"} \/ (pc' = "clean" /\ at' = 1)
    BY <1>8, <2>1 DEF ProvidersStopped, PostDone, Continue
  <2>. QED
    BY <2>1, <2>2, <2>3 DEF ProvidersTracked
<1>9. CASE CleanSecrets
  BY <1>9, PositionsOfCleanSteps
     DEF CleanSecrets, Cleaning, CleanNext, host, runner, ProvidersTracked
<1>10. CASE CleanProviders
  <2>1. \A p \in Providers : live'[p] = "this" => p \in stuck'
    BY <1>10 DEF CleanProviders, ProvidersTracked
  <2>2. pc' = "clean"
    BY <1>10 DEF CleanProviders, Cleaning, CleanNext
  <2>. QED
    BY <2>1, <2>2 DEF ProvidersTracked
<1>11. CASE \/ ContainersRemoved \/ RemoveNetwork \/ RemoveImages \/ KillProcesses
            \/ \E s \in Services : RemoveContainer(s)
  <2>1. /\ pc = "clean" /\ at > 2 /\ pc' \in {"clean", "over"} /\ UNCHANGED live
    BY <1>11, PositionsOfCleanSteps
       DEF ContainersRemoved, RemoveNetwork, RemoveImages, KillProcesses, Reset,
           RemoveContainer, Cleaning, CleanNext, host
  <2>3. stuck \subseteq stuck'
    BY <1>11, StopsOnly
       DEF ContainersRemoved, RemoveNetwork, RemoveImages, KillProcesses, Reset,
           RemoveContainer
  <2>2. \A p \in Providers : live'[p] = "this" => p \in stuck'
    BY <2>1, <2>3 DEF ProvidersTracked
  <2>. QED
    BY <2>1, <2>2 DEF ProvidersTracked
<1>12. CASE CleanupFails
  <2>1. pc' = "over" /\ dirty' /\ UNCHANGED <<live, listed, started>>
    BY <1>12 DEF CleanupFails, runner
  <2>2. stuck \subseteq stuck'
    BY <1>12, StopsOnly DEF CleanupFails
  <2>. QED
    BY <2>1, <2>2 DEF ProvidersTracked
<1>. QED
  BY <1>1, <1>2, <1>3, <1>4, <1>5, <1>6, <1>7, <1>8, <1>9, <1>10, <1>11, <1>12
     DEF Next, PostProcess, Cleanup

(* However a run fails, its providers, containers and network are gone     *)
(* when it is over, unless the cleanup failed, a provider could not be     *)
(* stopped or something came up unnoticed.                                 *)
THEOREM RunsCleanUp == Spec => []CleanAfterwards
<1>1. Init => ProvidersTracked /\ ContainersTracked /\ NetworkTracked
  BY DEF Init, ProvidersTracked, ContainersTracked, NetworkTracked
<1>2. ProvidersTracked /\ ContainersTracked /\ NetworkTracked => CleanAfterwards
  BY DEF ProvidersTracked, ContainersTracked, NetworkTracked, CleanAfterwards
<1>3. Spec => [](ProvidersTracked /\ ContainersTracked /\ NetworkTracked)
  BY <1>1, ProvidersTrackedStep, ContainersTrackedStep, NetworkTrackedStep, TypesInvariant,
     FreshInvariant, PTL DEF Spec
<1>. QED
  BY <1>2, <1>3, PTL

-----------------------------------------------------------------------------
(* A run that has a row and is not marked as failed, nor should have been. *)
Intact == row.exists /\ ~ row.failed /\ ~ unmarked

Ended == pc = "clean" \/ (pc = "over" /\ exc # "killed")

(* An intact run has gone through all the steps so far.                    *)
StepsAreDone ==
  /\ pc \in {"body", "flow"} => first = "none"
  /\ first # "none" /\ (pc \in {"post", "post_failed"} \/ Ended) => ~ Intact
  /\ Intact /\ pc \in {"post", "post_failed"} =>
       \A k \in 1 .. Len(PostSteps) : k < at => PostSteps[k] \in row.saved
  /\ Intact /\ Ended => \A k \in 1 .. Len(PostSteps) : PostSteps[k] \in row.saved

(* A run stays intact only by going through every step.                    *)
LEMMA StepsAreDoneStep == Types /\ StepsAreDone /\ [Next]_vars => StepsAreDone'
<1>. SUFFICES ASSUME Types, StepsAreDone, [Next]_vars PROVE StepsAreDone'
  OBVIOUS
<1>. /\ pc \in {"post", "post_failed"} => at \in 1 .. Len(PostSteps)
     /\ row \in RowSet /\ at \in Nat
  BY DEF Types, PositionOK, RowOK
<1>1. CASE StartRun
  BY <1>1 DEF StartRun, NoRow, StepsAreDone, Intact, Ended
<1>2. CASE Killed \/ UNCHANGED vars
  BY <1>2 DEF Killed, vars, control, StepsAreDone, Intact, Ended
<1>3. CASE Lines
  <2>1. pc \in {"body", "flow"} /\ first = "none"
    BY <1>3 DEF Lines, At, Prepare, Pass, ImportProviders, ImportIf, ImportRefused,
       LookForContainers, ContainerIsRunning, PruneFails, InsertRefused, InsertRow, InsertAgain,
       StartProvider, StartPhase, EndPhase,
       SetupNetwork, SetupService, StartFlow, BeginFlow, EndFlow, EndMeasurement, Raise,
       Unnoticed, StepsAreDone
  <2>2. \/ pc' = "failed"
        \/ first' = first /\ (pc' \in {"body", "flow"} \/ (pc' = "post" /\ at' = 1))
    BY <1>3, <2>1 DEF Lines, At, Advance, Forward, Prepare, Pass, ImportProviders, ImportIf,
       ImportRefused, LookForContainers, ContainerIsRunning, PruneFails, InsertRefused, InsertRow,
       InsertAgain, StartProvider,
       StartPhase, EndPhase, SetupNetwork, SetupService, StartFlow, BeginFlow, EndFlow,
       EndMeasurement, Raise, Unnoticed, Escape
  <2>. QED
    BY <2>1, <2>2 DEF StepsAreDone, Ended
<1>4. CASE MarkFailed
  <2>1. ~ Intact'
    BY <1>4 DEF MarkFailed, Mark, Intact, RowSet
  <2>2. pc' \in {"post", "clean"}
    BY <1>4 DEF MarkFailed, Mark, Continue
  <2>. QED
    BY <2>1, <2>2 DEF StepsAreDone
<1>5. CASE \/ PostStep \/ PostEndMeasurement \/ PatchPhases \/ StorePhases
           \/ ProvidersStopped /\ ~ errors
  <2>1. /\ pc = "post" /\ PostDone
        /\ row'.saved = row.saved \cup {PostSteps[at]}
        /\ row'.exists = row.exists /\ row'.failed = row.failed
    BY <1>5 DEF PostStep, PostEndMeasurement, PatchPhases, Patch, StorePhases,
         ProvidersStopped, Posting, Saved, RowSet
  <2>2. UNCHANGED <<first, unmarked>>
    BY <2>1 DEF PostDone
  <2>3. (pc' = "post" /\ at' = at + 1) \/ (pc' = "clean" /\ at = Len(PostSteps))
    BY <2>1, Lengths DEF PostDone, Continue
  <2>4. Intact' => Intact
    BY <2>1, <2>2 DEF Intact
  <2>5. Intact' => \A k \in 1 .. Len(PostSteps) : k < at + 1 => PostSteps[k] \in row'.saved
    BY <2>1, <2>4 DEF StepsAreDone
  <2>6. CASE pc' = "post"
    BY <2>1, <2>2, <2>3, <2>4, <2>5, <2>6 DEF StepsAreDone, Ended
  <2>7. CASE pc' = "clean"
    BY <2>1, <2>2, <2>3, <2>4, <2>5, <2>7, Lengths DEF StepsAreDone, Ended
  <2>. QED
    BY <2>3, <2>6, <2>7
<1>6. CASE PostFails \/ (ProvidersStopped /\ errors) \/ \E p \in Providers : StopProvider(p)
  <2>1. pc = "post" /\ pc' \in {"post", "post_failed"}
        /\ UNCHANGED <<row, first, unmarked, at>>
    BY <1>6 DEF PostFails, PostFailure, ProvidersStopped, StopProvider, Posting
  <2>. QED
    BY <2>1 DEF StepsAreDone, Intact, Ended
<1>7. CASE Cleanup
  <2>1. /\ pc = "clean" /\ pc' \in {"clean", "over"} /\ UNCHANGED <<row, first, unmarked>>
    BY <1>7 DEF Cleanup, CleanNext, CleanSecrets, CleanProviders, ContainersRemoved,
       RemoveNetwork, RemoveImages, RemoveContainer, KillProcesses, Reset, CleanupFails, Cleaning
  <2>. QED
    BY <2>1 DEF StepsAreDone, Intact, Ended
<1>. QED
  BY <1>1, <1>2, <1>3, <1>4, <1>5, <1>6, <1>7 DEF Next, PostProcess

(* An intact run has started all its providers and imports from each.      *)
ImportsAreComplete ==
  /\ pc = "body" /\ at > 4 => listed = enabled
  /\ pc = "body" /\ at = 7 => enabled \ ContainerProviders \subseteq todo \cup started
  /\ pc = "body" /\ at > 7 => enabled \ ContainerProviders \subseteq started
  /\ pc = "body" /\ at = 19 => enabled \cap ContainerProviders \subseteq todo \cup started
  /\ pc = "body" /\ at > 19 => enabled \subseteq started
  /\ pc = "flow" => listed = enabled /\ enabled \subseteq started
  /\ Intact /\ pc \in {"post", "post_failed"} /\ at < 4 =>
       listed = enabled /\ enabled \subseteq started
  /\ Intact /\ pc = "post" /\ at = 4 =>
       errors \/ \A p \in enabled : p \in todo \/ metrics[p] = 1
  /\ Intact /\ ((pc \in {"post", "post_failed"} /\ at > 4) \/ Ended) =>
       \A p \in enabled : metrics[p] = 1

(* The lines of the run start the providers they have to.                  *)
LEMMA ImportsAreCompleteLines ==
  Types /\ ImportsAreComplete /\ Lines => ImportsAreComplete'
<1>. SUFFICES ASSUME Types, ImportsAreComplete, Lines PROVE ImportsAreComplete'
  OBVIOUS
<1>. at \in 1 .. 30 /\ at \in 1 .. Len(Body)
  BY Lengths DEF Types, PositionOK
<1>1. Body[4] = Do("import_providers") /\ Body[7] = Do("host_providers")
      /\ Body[19] = Do("container_providers")
  BY Lengths, PositionsOfBody
<1>2. Load(Body[7]) = listed \ ContainerProviders
      /\ Load(Body[19]) = listed \cap ContainerProviders
  BY <1>1 DEF Load, Do
<1>3. CASE ImportProviders
  <2>1. pc = "body" /\ at = 4 /\ listed' = enabled /\ UNCHANGED task
    BY <1>3, PositionsOfBody DEF ImportProviders, ImportIf, At, Advance, Forward
  <2>2. pc' = "body" /\ at' = 5
    BY <1>3, <2>1, Lengths DEF ImportProviders, ImportIf, Advance, Forward
  <2>. QED
    BY <2>1, <2>2 DEF ImportsAreComplete, Ended, task
<1>4. CASE /\ pc = "body" /\ at # 4 /\ (at \in {7, 19} => todo = {})
           /\ Forward /\ UNCHANGED <<listed, started, metrics>>
  <2>1. UNCHANGED <<enabled, first, errors>>
    BY <1>4 DEF Forward, task
  <2>2. CASE at < 30
    <3>1. pc' = "body" /\ at' = at + 1 /\ todo' = Load(Body[at + 1])
      BY <1>4, <2>2, Lengths DEF Forward
    <3>2. at > 3 => listed' = enabled'
      BY <1>4, <2>1 DEF ImportsAreComplete
    <3>3. at = 6 => enabled' \ ContainerProviders \subseteq todo' \cup started'
      BY <1>2, <1>4, <2>1, <3>1, <3>2
    <3>4. at > 6 => enabled' \ ContainerProviders \subseteq started'
      BY <1>4, <2>1 DEF ImportsAreComplete
    <3>5. at = 18 => enabled' \cap ContainerProviders \subseteq todo' \cup started'
      BY <1>2, <1>4, <2>1, <3>1, <3>2
    <3>6. at > 18 => enabled' \subseteq started'
      BY <1>4, <2>1 DEF ImportsAreComplete
    <3>. QED
      BY <3>1, <3>2, <3>3, <3>4, <3>5, <3>6 DEF ImportsAreComplete, Ended
  <2>3. CASE at = 30
    <3>1. pc' = "post" /\ at' = 1
      BY <1>4, <2>3, Lengths DEF Forward
    <3>2. listed' = enabled' /\ enabled' \subseteq started'
      BY <1>4, <2>1, <2>3 DEF ImportsAreComplete
    <3>. QED
      BY <3>1, <3>2 DEF ImportsAreComplete, Ended
  <2>. QED
    BY <2>2, <2>3
<1>5. CASE \E p \in Providers : StartProvider(p)
  <2>. PICK p \in Providers : StartProvider(p)
    BY <1>5
  <2>1. /\ pc = "body" /\ at \in {7, 19} /\ UNCHANGED <<pc, at, listed, enabled>>
        /\ started' = started \cup {p} /\ todo' = todo \ {p}
    BY PositionsOfBody DEF StartProvider, At, task
  <2>. QED
    BY <2>1 DEF ImportsAreComplete, Ended
<1>6. CASE \E s \in Services : SetupService(s)
  <2>1. /\ pc = "body" /\ at = 16 /\ UNCHANGED <<pc, at, listed, enabled, started>>
    BY <1>6, PositionsOfBody DEF SetupService, At, task
  <2>. QED
    BY <2>1 DEF ImportsAreComplete, Ended
<1>7. CASE EndFlow \/ \E f \in Flows : StartFlow(f)
  <2>1. pc \in {"body", "flow"} /\ at = 24 /\ UNCHANGED <<at, listed, enabled, started>>
    BY <1>7, PositionsOfBody DEF EndFlow, StartFlow, BeginFlow, At, task, Types, PositionOK
  <2>2. pc' \in {"body", "flow"}
    BY <1>7 DEF EndFlow, StartFlow, BeginFlow, At
  <2>3. listed = enabled /\ enabled \subseteq started
    BY <2>1 DEF ImportsAreComplete
  <2>. QED
    BY <2>1, <2>2, <2>3 DEF ImportsAreComplete, Ended
<1>8. CASE \/ ImportRefused \/ ContainerIsRunning \/ PruneFails \/ InsertRefused
           \/ \E kind \in {"error", "check"} : Raise(kind)
           \/ \E p \in Providers \cup Services : Unnoticed(p)
  <2>1. pc' = "failed"
    BY <1>8 DEF ImportRefused, ContainerIsRunning, PruneFails, InsertRefused, Raise, Unnoticed,
                Escape
  <2>. QED
    BY <2>1 DEF ImportsAreComplete, Ended
<1>9. CASE \/ Prepare \/ InsertRow \/ InsertAgain \/ SetupNetwork \/ EndMeasurement
           \/ LookForContainers
  BY <1>1, <1>4, <1>9
     DEF Prepare, InsertRow, InsertAgain, SetupNetwork, EndMeasurement, LookForContainers, At, Do,
         runner, Advance
<1>10. CASE Pass
  <2>1. pc = "body" /\ at # 4 /\ Forward /\ UNCHANGED <<listed, started, metrics>>
    BY <1>1, <1>10 DEF Pass, At, Do, runner, Advance
  <2>2. at \in {7, 19} => todo = {}
    BY <1>1, <1>10 DEF Pass, At, Do
  <2>. QED
    BY <1>4, <2>1, <2>2
<1>11. CASE \E phase \in MainPhases : StartPhase(phase) \/ EndPhase(phase)
  BY <1>1, <1>4, <1>11 DEF StartPhase, EndPhase, Start, End, Do, Advance
<1>. QED
  BY <1>3, <1>5, <1>6, <1>7, <1>8, <1>9, <1>10, <1>11 DEF Lines

(* So do the other steps: each provider in use is imported from before     *)
(* post-processing goes on.                                                *)
LEMMA ImportsAreCompleteStep ==
  Types /\ ImportsAreAhead /\ ImportsAreComplete /\ [Next]_vars => ImportsAreComplete'
<1>. SUFFICES ASSUME Types, ImportsAreAhead, ImportsAreComplete, [Next]_vars
             PROVE  ImportsAreComplete'
  OBVIOUS
<1>. /\ pc \in {"post", "post_failed"} => at \in 1 .. Len(PostSteps)
     /\ row \in RowSet /\ at \in Nat /\ metrics \in [Providers -> Nat]
     /\ enabled \subseteq Providers
  BY UsesAssumption DEF Types, PositionOK, RowOK, TaskOK
<1>1. CASE Lines
  BY <1>1, ImportsAreCompleteLines
<1>2. CASE StartRun
  <2>1. pc' = "body" /\ at' = 1
    BY <1>2 DEF StartRun
  <2>. QED
    BY <2>1 DEF ImportsAreComplete, Ended
<1>3. CASE Killed
  <2>1. pc' = "over" /\ exc' = "killed"
    BY <1>3 DEF Killed
  <2>. QED
    BY <2>1 DEF ImportsAreComplete, Ended
<1>4. CASE UNCHANGED vars
  BY <1>4 DEF vars, host, runner, control, task, ImportsAreComplete, Intact, Ended
<1>5. CASE MarkFailed
  <2>1. ~ Intact'
    BY <1>5 DEF MarkFailed, Mark, Intact, RowSet
  <2>2. pc' \in {"post", "clean"}
    BY <1>5 DEF MarkFailed, Mark, Continue
  <2>. QED
    BY <2>1, <2>2 DEF ImportsAreComplete
<1>6. CASE PostStep \/ PostEndMeasurement \/ PatchPhases \/ StorePhases
  <2>1. /\ pc = "post" /\ at # 4 /\ PostDone
        /\ UNCHANGED <<listed, started>>
    BY <1>6, PositionsOfPostSteps
       DEF PostStep, PostEndMeasurement, PatchPhases, Patch, StorePhases, Posting, runner
  <2>2. row'.exists = row.exists /\ row'.failed = row.failed
    BY <1>6 DEF PostStep, PostEndMeasurement, PatchPhases, Patch, StorePhases, Saved, RowSet
  <2>3. UNCHANGED <<enabled, metrics, unmarked, errors>>
    BY <2>1 DEF PostDone, task
  <2>4. Intact' => Intact
    BY <2>2, <2>3 DEF Intact
  <2>5. \/ pc' = "post" /\ at' = at + 1 /\ (at = 3 => todo' = listed \cap started)
        \/ pc' = "clean" /\ at = 12
    BY <2>1, Lengths, PositionsOfPostSteps DEF PostDone, Continue
  <2>6. CASE at < 4
    <3>1. Intact' => listed' = enabled' /\ enabled' \subseteq started'
      BY <2>1, <2>3, <2>4, <2>6 DEF ImportsAreComplete
    <3>2. pc' = "post" /\ at' = at + 1
      BY <2>5, <2>6
    <3>3. at = 3 /\ Intact' => \A p \in enabled' : p \in todo'
      BY <2>1, <2>5, <2>6, <3>1
    <3>. QED
      BY <2>6, <3>1, <3>2, <3>3 DEF ImportsAreComplete, Ended
  <2>7. CASE at > 4
    <3>1. Intact' => \A p \in enabled' : metrics'[p] = 1
      BY <2>1, <2>3, <2>4, <2>7 DEF ImportsAreComplete
    <3>2. (pc' = "post" /\ at' = at + 1) \/ pc' = "clean"
      BY <2>5
    <3>. QED
      BY <2>7, <3>1, <3>2 DEF ImportsAreComplete
  <2>. QED
    BY <2>1, <2>6, <2>7
<1>7. CASE PostFails
  <2>1. /\ pc = "post" /\ at # 4 /\ pc' = "post_failed"
        /\ UNCHANGED <<at, row, unmarked, listed, started, enabled, metrics>>
    BY <1>7, PositionsOfPostSteps DEF PostFails, PostFailure, MayFail, task
  <2>. QED
    BY <2>1 DEF ImportsAreComplete, Intact, Ended
<1>8. CASE \E p \in Providers : StopProvider(p)
  <2>. PICK p \in Providers : StopProvider(p)
    BY <1>8
  <2>1. /\ pc = "post" /\ at = 4 /\ pc' \in {"post", "post_failed"} /\ p \in todo
        /\ UNCHANGED <<at, row, unmarked, enabled>>
    BY PositionsOfPostSteps DEF StopProvider, Posting, task
  <2>2. CASE pc' = "post_failed"
    BY <2>1, <2>2 DEF ImportsAreComplete, Ended
  <2>3. CASE pc' = "post"
    <3>1. todo' = todo \ {p}
      BY <2>3 DEF StopProvider
    <3>2. errors' \/ (~ errors /\ metrics' = [metrics EXCEPT ![p] = @ + 1])
      BY <2>3 DEF StopProvider
    <3>3. metrics[p] = 0
      BY <2>1 DEF ImportsAreAhead
    <3>4. Intact' => Intact
      BY <2>1 DEF Intact
    <3>5. Intact' => errors' \/ \A q \in enabled' : q \in todo' \/ metrics'[q] = 1
      BY <2>1, <3>1, <3>2, <3>3, <3>4 DEF ImportsAreComplete
    <3>. QED
      BY <2>1, <2>3, <3>5 DEF ImportsAreComplete, Ended
  <2>. QED
    BY <2>1, <2>2, <2>3
<1>9. CASE ProvidersStopped
  <2>1. pc = "post" /\ at = 4 /\ todo = {}
    BY <1>9, PositionsOfPostSteps DEF ProvidersStopped, Posting
  <2>2. CASE errors
    <3>1. pc' = "post_failed" /\ at' = 4
      BY <1>9, <2>1, <2>2 DEF ProvidersStopped
    <3>. QED
      BY <3>1 DEF ImportsAreComplete, Ended
  <2>3. CASE ~ errors
    <3>1. PostDone /\ row' = Saved(row)
      BY <1>9, <2>3 DEF ProvidersStopped
    <3>2. /\ UNCHANGED <<enabled, metrics, unmarked>>
          /\ row'.exists = row.exists /\ row'.failed = row.failed
      BY <3>1 DEF PostDone, task, Saved, RowSet
    <3>3. Intact' => \A p \in enabled' : metrics'[p] = 1
      BY <2>1, <2>3, <3>2 DEF ImportsAreComplete, Intact
    <3>4. pc' = "post" /\ at' = 5
      BY <2>1, <3>1, Lengths DEF PostDone, Continue
    <3>. QED
      BY <3>3, <3>4 DEF ImportsAreComplete
  <2>. QED
    BY <2>2, <2>3
<1>10. CASE Cleanup
  <2>1. /\ pc = "clean" /\ pc' \in {"clean", "over"}
        /\ UNCHANGED <<row, unmarked, enabled, metrics>>
    BY <1>10 DEF Cleanup, CleanNext, CleanSecrets, CleanProviders, ContainersRemoved, task,
       RemoveNetwork, RemoveImages, RemoveContainer, KillProcesses, Reset, CleanupFails, Cleaning
  <2>. QED
    BY <2>1 DEF ImportsAreComplete, Intact, Ended
<1>. QED
  BY <1>1, <1>2, <1>3, <1>4, <1>5, <1>6, <1>7, <1>8, <1>9, <1>10 DEF Next, PostProcess

(* A run that ended without being marked as failed, and without a failed   *)
(* marking, went through all of Body and of post-processing, and has the   *)
(* measurements of each of its providers once.                             *)
THEOREM UnmarkedRunsAreComplete == Spec => []UnmarkedIsComplete
<1>1. Init => StepsAreDone /\ ImportsAreAhead /\ ImportsAreComplete
  BY DEF Init, NoRow, StepsAreDone, ImportsAreAhead, ImportsAreComplete, Intact, Ended
<1>2. Types /\ StepsAreDone /\ ImportsAreComplete => UnmarkedIsComplete
  <2>. SUFFICES ASSUME Types, StepsAreDone, ImportsAreComplete, Intact, Ended
                PROVE  /\ first = "none"
                       /\ row.saved = {PostSteps[k] : k \in 1 .. Len(PostSteps)}
                       /\ \A p \in enabled : metrics[p] = 1
    BY DEF UnmarkedIsComplete, Intact, Ended
  <2>1. first = "none"
    BY DEF StepsAreDone
  <2>2. \A k \in 1 .. Len(PostSteps) : PostSteps[k] \in row.saved
    BY DEF StepsAreDone
  <2>3. row.saved \subseteq {PostSteps[k] : k \in 1 .. Len(PostSteps)}
    BY DEF Types, RowOK, RowSet
  <2>4. \A p \in enabled : metrics[p] = 1
    BY DEF ImportsAreComplete
  <2>. QED
    BY <2>1, <2>2, <2>3, <2>4
<1>3. Spec => [](Types /\ StepsAreDone /\ ImportsAreAhead /\ ImportsAreComplete)
  BY <1>1, StepsAreDoneStep, ImportsAreAheadStep, ImportsAreCompleteStep, TypesInvariant, PTL
     DEF Spec
<1>. QED
  BY <1>2, <1>3, PTL

(* A run has the host to itself while it measures and leaves it clean.     *)
THEOREM HostsAreClean == Spec => []HostIsClean
<1>1. MeasuredAlone /\ CleanAfterwards => HostIsClean
  BY DEF HostIsClean
<1> QED BY <1>1, RunsAreMeasuredAlone, RunsCleanUp, PTL

(* Row and exception tell what happened, wherever a run fails.             *)
THEOREM OutcomesAreTrue == Spec => []OutcomeIsTrue
<1>1. UnmarkedIsComplete /\ MarkedIsReported /\ EarlyCheckReachesCaller => OutcomeIsTrue
  BY DEF OutcomeIsTrue
<1> QED BY <1>1, UnmarkedRunsAreComplete, MarkedRunsAreReported, EarlyChecksReachCaller, PTL

=============================================================================
