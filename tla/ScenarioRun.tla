----------------------------- MODULE ScenarioRun -----------------------------
(***************************************************************************)
(* ScenarioRunner.run(): the runs of one machine, one after the other.     *)
(* A run goes through the lines of Body; whichever of them raises, the run *)
(* is marked as failed, the twelve steps of post-processing are gone       *)
(* through, each of which may fail on its own, and the cleanup follows,    *)
(* which may fail too. What a run leaves on the host (providers and        *)
(* containers) is there when the next one starts.                          *)
(***************************************************************************)
EXTENDS Naturals, Sequences, FiniteSets

CONSTANTS
  Services,            \* container names the scenarios use
  Scenarios,           \* the sets of services of the scenarios
  Providers,           \* metric providers with a process of their own
  ContainerProviders,  \* those that are started once the containers are up
  Selections,          \* the sets of providers users leave enabled
  Flows,               \* flows of a scenario
  MaxFaults            \* bound: failures of the environment per run

ASSUME UsesAssumption ==
  /\ Scenarios \subseteq SUBSET Services /\ Selections \subseteq SUBSET Providers
  /\ Scenarios # {} /\ Selections # {}
ASSUME FinitenessAssumption == IsFiniteSet(Providers)
ASSUME BoundAssumption == MaxFaults \in Nat

VARIABLES
  live,        \* whose provider process runs: none, this (run) or an earlier one
  up,          \* whose container runs under a name
  net,         \* the network of this run exists
  services,    \* the services of this run's scenario
  enabled,     \* its providers
  prune,       \* it is to prune the whole host (full_docker_prune)
  listed,      \* self.__metric_providers
  started,     \* those with a process in _ps
  containers,  \* self.__containers
  network,     \* self.__networks
  open,        \* phases in self.__phases without an end
  last,        \* the last phase of self.__phases
  began,       \* self.__start_measurement is set
  ended,       \* self.__end_measurement is set
  pc,          \* body, flow, failed, post, clean, over
  at,          \* the line of Body, or the step of post-processing or cleanup
  todo,        \* what the loop at this line has to go
  exc,         \* the exception on its way to the caller
  first,       \* history: the one Body raised
  row,         \* the row of the table runs, the steps that went through, and
               \* whether there is another one the run does not know of
  metrics,     \* how often a provider's measurements were imported
  errors,      \* _stop_metric_providers: errors collected
  unmarked,    \* history: _set_run_failed failed
  dirty,       \* history: the cleanup failed or did not take place
  stuck,       \* history: providers that could not be stopped, and whatever
               \* came up without the runner's learning of it
  faults       \* failures so far

host == <<live, up, net>>
runner == <<listed, started, containers, network, open, last, began, ended>>
control == <<pc, at, todo, exc, first, errors, unmarked, dirty, stuck, faults>>
task == <<services, enabled, prune>>
vars == <<host, runner, control, task, row, metrics>>

Owners == {"none", "this", "earlier"}
Loops == Providers \cup Services \cup Flows

(* Phases with a name of their own, and the flows that become phases.      *)
MainPhases == {"[BASELINE]", "[INSTALLATION]", "[BOOT]", "[IDLE]", "[RUNTIME]", "[REMOVE]"}
Phases == MainPhases \cup Flows

Do(what) == [do |-> what, of |-> "none"]
Start(phase) == [do |-> "start", of |-> phase]
End(phase) == [do |-> "end", of |-> phase]

(* The lines of run().                                                     *)
Body ==
  << Do("prepare"), Do("check_system"), Do("load_scenario"), Do("import_providers"),
     Do("look_for_containers"), Do("insert"), Do("host_providers"),
     Start("[BASELINE]"), End("[BASELINE]"),
     Start("[INSTALLATION]"), Do("build"), End("[INSTALLATION]"), Do("sizes"),
     Start("[BOOT]"), Do("network"), Do("services"), End("[BOOT]"),
     Do("containers_run"), Do("container_providers"), Do("dependencies"),
     Start("[IDLE]"), End("[IDLE]"),
     Start("[RUNTIME]"), Do("flows"), End("[RUNTIME]"), Do("containers_run"),
     Start("[REMOVE]"), End("[REMOVE]"),
     Do("end_measurement"), Do("check_system_after") >>

PostSteps ==
  << "end_measurement", "patch_phases", "container_logs", "stop_providers", "processes",
     "custom_metrics", "phases", "notes", "run_logs", "warnings", "phase_stats", "all_logs" >>

CleanSteps == << "secrets", "providers", "containers", "network", "images", "processes" >>

At(what) == pc = "body" /\ Body[at] = Do(what)
Posting(what) == pc = "post" /\ PostSteps[at] = what
Cleaning(what) == pc = "clean" /\ CleanSteps[at] = what

Fault == faults < MaxFaults /\ faults' = faults + 1
NoRow ==
  [exists |-> FALSE, lost |-> FALSE, failed |-> FALSE, stored |-> FALSE, open |-> {}, saved |-> {}]

-----------------------------------------------------------------------------
Init ==
  /\ live = [p \in Providers |-> "none"] /\ up = [s \in Services |-> "none"] /\ net = FALSE
  /\ services \in Scenarios /\ enabled \in Selections /\ prune \in BOOLEAN
  /\ listed = {} /\ started = {} /\ containers = {} /\ network = FALSE
  /\ open = {} /\ last = "none" /\ began = FALSE /\ ended = FALSE
  /\ pc = "body" /\ at = 1 /\ todo = {} /\ exc = "none" /\ first = "none"
  /\ row = NoRow /\ metrics = [p \in Providers |-> 0]
  /\ errors = FALSE /\ unmarked = FALSE /\ dirty = FALSE /\ stuck = {} /\ faults = 0

Age(owner) == IF owner = "this" THEN "earlier" ELSE owner

(* The next run. runner.py uses its ScenarioRunner again after a success;  *)
(* the client makes a new one for every job.                               *)
StartRun ==
  /\ pc = "over"
  /\ \/ exc = "none" /\ UNCHANGED runner
     \/ /\ listed' = {} /\ started' = {} /\ containers' = {} /\ network' = FALSE
        /\ open' = {} /\ last' = "none" /\ began' = FALSE /\ ended' = FALSE
  /\ services' \in Scenarios /\ enabled' \in Selections /\ prune' \in BOOLEAN
  /\ live' = [p \in Providers |-> Age(live[p])] /\ up' = [s \in Services |-> Age(up[s])]
  /\ net' = FALSE
  /\ pc' = "body" /\ at' = 1 /\ todo' = {} /\ exc' = "none" /\ first' = "none"
  /\ row' = NoRow /\ metrics' = [p \in Providers |-> 0]
  /\ errors' = FALSE /\ unmarked' = FALSE /\ dirty' = FALSE /\ stuck' = {} /\ faults' = 0

(* What the loop at a line goes over.                                      *)
Load(line) ==
  CASE line = Do("host_providers")      -> listed \ ContainerProviders
    [] line = Do("container_providers") -> listed \cap ContainerProviders
    [] line = Do("services")            -> services
    [] line = Do("flows")               -> Flows
    [] OTHER                            -> {}

Forward ==
  /\ UNCHANGED <<exc, first, errors, unmarked, dirty, task>>
  /\ IF at < Len(Body)
       THEN at' = at + 1 /\ todo' = Load(Body[at + 1]) /\ UNCHANGED pc
       ELSE pc' = "post" /\ at' = 1 /\ todo' = {}

Advance == Forward /\ UNCHANGED <<stuck, faults>>

(* Folders and the start of the measurement.                               *)
Prepare ==
  /\ At("prepare")
  /\ began' = TRUE
  /\ Advance
  /\ UNCHANGED <<host, listed, started, containers, network, open, last, ended, row, metrics>>

(* Lines that change nothing the properties tell apart.                    *)
Pass ==
  /\ \/ \E what \in {"check_system", "load_scenario", "build", "sizes", "containers_run",
                     "dependencies", "check_system_after"} : At(what)
     \/ \E what \in {"host_providers", "container_providers", "services", "flows"} :
          At(what) /\ todo = {}
  /\ Advance
  /\ UNCHANGED <<host, runner, row, metrics>>

ImportIf(checked) ==
  /\ At("import_providers")
  /\ checked
  /\ listed' = enabled
  /\ Advance
  /\ UNCHANGED <<host, started, containers, network, open, last, began, ended, row, metrics>>

(* Mutant: nobody looks for processes of the providers.                    *)
ImportUnchecked == ImportIf(TRUE)

(* check_system() of a provider finds no other process of its program.     *)
ImportProviders == ImportIf(\A p \in enabled : live[p] = "none")

Running == {s \in Services : up[s] # "none"}

(* A full prune stops and removes every container there is, but those that *)
(* docker stop fails for: nobody looks at what became of it.               *)
StopAll(failing) ==
  /\ IF prune THEN failing \subseteq Running ELSE failing = {}
  /\ up' = IF prune THEN [s \in Services |-> IF s \in failing THEN up[s] ELSE "none"] ELSE up
  /\ stuck' = stuck \cup failing
FaultIf(happens) == IF happens THEN Fault ELSE UNCHANGED faults

(* No container of the scenario's names may run; all others may be pruned. *)
LookForContainers ==
  /\ At("look_for_containers")
  /\ \A s \in services : up[s] = "none"
  /\ \E failing \in SUBSET Running : StopAll(failing) /\ FaultIf(failing # {})
  /\ Forward
  /\ UNCHANGED <<live, net, runner, row, metrics>>

InsertRow ==
  /\ At("insert")
  /\ row' = [row EXCEPT !.exists = TRUE]
  /\ Advance
  /\ UNCHANGED <<host, runner, metrics>>

(* The COMMIT of the INSERT is not answered, but takes place. The retry    *)
(* inserts a second row, if this is nobody's job.                          *)
InsertAgain ==
  /\ At("insert") /\ Fault
  /\ row' = [row EXCEPT !.exists = TRUE, !.lost = TRUE]
  /\ Forward
  /\ UNCHANGED <<host, runner, stuck, metrics>>

StartProvider(p) ==
  /\ At("host_providers") \/ At("container_providers")
  /\ p \in todo
  /\ started' = started \cup {p}
  /\ live' = [live EXCEPT ![p] = "this"]
  /\ todo' = todo \ {p}
  /\ UNCHANGED <<up, net, task, listed, containers, network, open, last, began, ended,
                 pc, at, exc, first, errors, unmarked, dirty, stuck, faults, row, metrics>>

StartPhase(phase) ==
  /\ pc = "body" /\ Body[at] = Start(phase)
  /\ open' = open \cup {phase} /\ last' = phase
  /\ Advance
  /\ UNCHANGED <<host, listed, started, containers, network, began, ended, row, metrics>>

EndPhase(phase) ==
  /\ pc = "body" /\ Body[at] = End(phase)
  /\ open' = open \ {phase}
  /\ Advance
  /\ UNCHANGED <<host, listed, started, containers, network, last, began, ended, row, metrics>>

SetupNetwork ==
  /\ At("network")
  /\ net' = TRUE /\ network' = TRUE
  /\ Advance
  /\ UNCHANGED <<live, up, listed, started, containers, open, last, began, ended, row, metrics>>

SetupService(s) ==
  /\ At("services") /\ s \in todo
  /\ up' = [up EXCEPT ![s] = "this"]
  /\ containers' = containers \cup {s}
  /\ todo' = todo \ {s}
  /\ UNCHANGED <<live, net, task, listed, started, network, open, last, began, ended,
                 pc, at, exc, first, errors, unmarked, dirty, stuck, faults, row, metrics>>

BeginFlow(f, newest) ==
  /\ At("flows") /\ f \in todo
  /\ open' = open \cup {f} /\ last' = newest
  /\ pc' = "flow"
  /\ UNCHANGED <<host, task, listed, started, containers, network, began, ended,
                 at, todo, exc, first, errors, unmarked, dirty, stuck, faults, row, metrics>>

StartFlow(f) == BeginFlow(f, f)

EndFlow ==
  /\ pc = "flow"
  /\ open' = open \ {last}
  /\ todo' = todo \ {last}
  /\ pc' = "body"
  /\ UNCHANGED <<host, task, listed, started, containers, network, last, began, ended,
                 at, exc, first, errors, unmarked, dirty, stuck, faults, row, metrics>>

EndMeasurement ==
  /\ At("end_measurement")
  /\ ~ended
  /\ ended' = TRUE
  /\ Advance
  /\ UNCHANGED <<host, listed, started, containers, network, open, last, began, row, metrics>>

(* A line raises: a failed command, a timeout, a refused system check, an  *)
(* interrupt, a database that stays away.                                  *)
Escape(kind) ==
  /\ pc' = "failed" /\ exc' = kind /\ first' = kind /\ todo' = {}
  /\ UNCHANGED <<net, task, started, containers, network, open, last, began,
                 at, errors, unmarked, dirty, metrics>>

(* What is wrong with the machine, or with its providers in config.yml, is *)
(* told from other errors.                                                 *)
Raise(kind) ==
  /\ pc \in {"body", "flow"}
  /\ kind = "check" =>
       \E what \in {"check_system", "load_scenario", "import_providers", "check_system_after"} :
         At(what)
  /\ Fault
  /\ ended' = (ended \/ At("end_measurement"))
  /\ Escape(kind) /\ UNCHANGED <<live, up, listed, stuck, row>>

(* Containers are stopped, and the rest of the prune fails.                *)
PruneFails ==
  /\ At("look_for_containers")
  /\ \A s \in services : up[s] = "none"
  /\ \E failing \in SUBSET Running : StopAll(failing)
  /\ Fault
  /\ Escape("error") /\ UNCHANGED <<live, listed, ended, row>>

(* The same for a job, of which there is one row only, or the retries end  *)
(* before the database is back: the run does not have the row it has made. *)
InsertRefused ==
  /\ At("insert") /\ Fault
  /\ row' = [row EXCEPT !.lost = TRUE]
  /\ Escape("error") /\ UNCHANGED <<live, up, listed, ended, stuck>>

(* An interrupt after Popen or docker run and before the runner has noted  *)
(* what it started.                                                        *)
Unnoticed(p) ==
  /\ p \in todo /\ pc = "body"
  /\ \/ p \in Services /\ up' = [up EXCEPT ![p] = "this"] /\ UNCHANGED live
     \/ p \in Providers /\ live' = [live EXCEPT ![p] = "this"] /\ UNCHANGED up
  /\ stuck' = stuck \cup {p}
  /\ Fault
  /\ Escape("error") /\ UNCHANGED <<listed, ended, row>>

(* Another instance of a provider runs; those before it are on the list.   *)
ImportRefused ==
  /\ At("import_providers")
  /\ \E p \in enabled : live[p] # "none"
  /\ listed' \in SUBSET {p \in enabled : live[p] = "none"}
  /\ Escape("check") /\ UNCHANGED <<live, up, ended, stuck, faults, row>>

ContainerIsRunning ==
  /\ At("look_for_containers")
  /\ \E s \in services : up[s] # "none"
  /\ Escape("error") /\ UNCHANGED <<live, up, listed, ended, stuck, faults, row>>

-----------------------------------------------------------------------------
(* Mutant: the step that failed is tried again.                            *)
ContinueWithFailed(next) ==
  IF next <= Len(PostSteps)
    THEN /\ pc' = "post" /\ at' = IF pc = "post_failed" THEN at ELSE next
         /\ todo' = IF PostSteps[at'] = "stop_providers" THEN listed \cap started ELSE {}
    ELSE pc' = "clean" /\ at' = 1 /\ todo' = {}

(* Post-processing. A step that fails is followed by the marking of the    *)
(* run and the steps after it, unless the marking fails, too.              *)
Continue(next) ==
  IF next <= Len(PostSteps)
    THEN /\ pc' = "post" /\ at' = next
         /\ todo' = IF PostSteps[next] = "stop_providers" THEN listed \cap started ELSE {}
    ELSE pc' = "clean" /\ at' = 1 /\ todo' = {}

Mark(sets) ==
  /\ pc \in {"failed", "post_failed"}
  /\ \/ /\ row' = [row EXCEPT !.failed = @ \/ sets]
        /\ Continue(IF pc = "failed" THEN 1 ELSE at + 1)
        /\ UNCHANGED <<exc, unmarked, faults>>
     \/ /\ row.exists /\ Fault
        /\ unmarked' = TRUE /\ exc' = "error"
        /\ Continue(IF pc = "failed" THEN 1 ELSE Len(PostSteps) + 1)
        /\ UNCHANGED row
  /\ UNCHANGED <<host, runner, task, first, errors, dirty, stuck, metrics>>

(* Mutant: a failure in post-processing leaves the run unmarked.           *)
MarkBodyOnly == Mark(row.exists /\ pc = "failed")

(* _set_run_failed(), after Body or after a step of post-processing.       *)
MarkFailed == Mark(row.exists)

Saved(r) == [r EXCEPT !.saved = @ \cup {PostSteps[at]}]

PostDone ==
  /\ Continue(at + 1)
  /\ UNCHANGED <<exc, first, errors, unmarked, dirty, stuck, faults, task, metrics>>

(* Steps without effect on what is modelled.                               *)
PostStep ==
  /\ \E step \in {"container_logs", "processes", "custom_metrics", "notes", "run_logs",
                  "warnings", "phase_stats", "all_logs"} : Posting(step)
  /\ row' = Saved(row)
  /\ PostDone
  /\ UNCHANGED <<host, runner>>

PostEndMeasurement ==
  /\ Posting("end_measurement")
  /\ began
  /\ ended' = TRUE
  /\ row' = Saved(row)
  /\ PostDone
  /\ UNCHANGED <<host, listed, started, containers, network, open, last, began>>

Patch(closed) ==
  /\ Posting("patch_phases")
  /\ open' = open \ closed
  /\ row' = Saved(row)
  /\ PostDone
  /\ UNCHANGED <<host, listed, started, containers, network, last, began, ended>>

PatchPhases == Patch({last, "[RUNTIME]"})

StorePhases ==
  /\ Posting("phases")
  /\ row' = Saved([row EXCEPT !.stored = row.exists, !.open = IF row.exists THEN open ELSE {}])
  /\ PostDone
  /\ UNCHANGED <<host, runner>>

(* Without a row most steps return at once, and without containers there   *)
(* are no logs to read and no processes to kill.                           *)
MayFail(step) ==
  CASE step \in {"patch_phases", "stop_providers", "all_logs"} -> FALSE
    [] step = "end_measurement"                  -> ~ began \/ (row.exists /\ ~ ended)
    [] step \in {"container_logs", "processes"}  -> containers # {}
    [] OTHER                                     -> row.exists

PostFailure(raised) ==
  /\ pc = "post" /\ MayFail(PostSteps[at])
  /\ IF began THEN Fault ELSE UNCHANGED faults
  /\ ended' = (ended \/ PostSteps[at] = "end_measurement")
  /\ pc' = "post_failed" /\ exc' = raised
  /\ UNCHANGED <<host, task, listed, started, containers, network, open, last, began,
                 at, todo, first, errors, unmarked, dirty, stuck, row, metrics>>

PostFails == PostFailure("error")

(* A provider is stopped and its measurements are read and imported. That  *)
(* it has complained, cannot be stopped, or that a reading is refused is   *)
(* collected; any other error leaves the loop.                             *)
StopProvider(p) ==
  /\ Posting("stop_providers") /\ p \in todo
  /\ \E noisy, stopped \in BOOLEAN, reading \in {"imported", "refused", "broken"} :
       /\ FaultIf(noisy \/ ~ stopped \/ reading # "imported")
       /\ errors' = (errors \/ noisy \/ ~ stopped \/ reading = "refused")
       /\ live' = IF stopped THEN [live EXCEPT ![p] = "none"] ELSE live
       /\ started' = IF stopped THEN started \ {p} ELSE started
       /\ stuck' = IF stopped THEN stuck ELSE stuck \cup {p}
       /\ metrics' = IF reading = "imported" THEN [metrics EXCEPT ![p] = @ + 1] ELSE metrics
       /\ IF reading = "broken"
            THEN pc' = "post_failed" /\ exc' = "error" /\ UNCHANGED todo
            ELSE todo' = todo \ {p} /\ UNCHANGED <<pc, exc>>
  /\ UNCHANGED <<up, net, task, listed, containers, network, open, last, began, ended,
                 at, first, unmarked, dirty, row>>

ProvidersStopped ==
  /\ Posting("stop_providers") /\ todo = {}
  /\ listed' = {} /\ started' = {}
  /\ IF errors
       THEN /\ pc' = "post_failed" /\ exc' = "error"
            /\ UNCHANGED <<at, todo, first, errors, unmarked, dirty, stuck, faults,
                           task, row, metrics>>
       ELSE row' = Saved(row) /\ PostDone
  /\ UNCHANGED <<host, containers, network, open, last, began, ended>>

-----------------------------------------------------------------------------
(* cleanup()                                                               *)
CleanNext ==
  /\ at' = at + 1
  /\ todo' = IF CleanSteps[at + 1] = "containers" THEN containers ELSE {}
  /\ UNCHANGED <<pc, exc, first, errors, unmarked, dirty, task, row, metrics>>

CleanSecrets ==
  /\ Cleaning("secrets")
  /\ CleanNext
  /\ UNCHANGED <<host, runner, stuck, faults>>

(* What is still on the list; a provider that cannot be stopped is logged. *)
CleanProviders ==
  /\ Cleaning("providers")
  /\ \E failing \in SUBSET (listed \cap started) :
       /\ faults + Cardinality(failing) <= MaxFaults
       /\ faults' = faults + Cardinality(failing)
       /\ stuck' = stuck \cup failing
       /\ live' = [p \in Providers |->
                     IF p \in (listed \cap started) \ failing THEN "none" ELSE live[p]]
  /\ listed' = {} /\ started' = {}
  /\ CleanNext
  /\ UNCHANGED <<up, net, containers, network, open, last, began, ended>>

RemoveContainer(s) ==
  /\ Cleaning("containers") /\ s \in todo
  /\ up' = [up EXCEPT ![s] = "none"]
  /\ todo' = todo \ {s}
  /\ UNCHANGED <<live, net, runner, task, pc, at, exc, first, errors, unmarked, dirty,
                 stuck, faults, row, metrics>>

ContainersRemoved ==
  /\ Cleaning("containers") /\ todo = {}
  /\ containers' = {}
  /\ CleanNext
  /\ UNCHANGED <<host, listed, started, network, open, last, began, ended, stuck, faults>>

(* Docker removes no network with a running container in it.               *)
RemoveNetwork ==
  /\ Cleaning("network")
  /\ net' = (net /\ (~ network \/ \E s \in Services : up[s] = "this"))
  /\ network' = FALSE
  /\ CleanNext
  /\ UNCHANGED <<live, up, listed, started, containers, open, last, began, ended, stuck, faults>>

RemoveImages ==
  /\ Cleaning("images")
  /\ \E failing \in SUBSET Running : StopAll(failing) /\ FaultIf(failing # {})
  /\ net' = (net /\ (~ prune \/ \E s \in Services : up'[s] = "this"))
  /\ CleanNext
  /\ UNCHANGED <<live, runner>>

Reset(end) ==
  /\ Cleaning("processes")
  /\ network' = FALSE /\ listed' = {} /\ started' = {} /\ containers' = {}
  /\ open' = {} /\ last' = "none" /\ began' = FALSE /\ ended' = end
  /\ pc' = "over" /\ at' = 1
  /\ UNCHANGED <<host, task, todo, exc, first, errors, unmarked, dirty, stuck, faults,
                 row, metrics>>

(* The processes left, and the reset of the runner for its next use.       *)
KillProcesses == Reset(FALSE)

CleanupFails ==
  /\ \/ /\ \E step \in {"secrets", "containers", "images", "processes"} : Cleaning(step)
        /\ UNCHANGED <<up, stuck>>
     \/ Cleaning("images") /\ \E failing \in SUBSET Running : StopAll(failing)
  /\ Fault
  /\ pc' = "over" /\ exc' = "error" /\ dirty' = TRUE /\ at' = 1 /\ todo' = {}
  /\ UNCHANGED <<live, net, runner, task, first, errors, unmarked, row, metrics>>

(* The process is killed.                                                  *)
Killed ==
  /\ pc # "over"
  /\ pc' = "over" /\ exc' = "killed" /\ dirty' = TRUE /\ at' = 1 /\ todo' = {}
  /\ UNCHANGED <<host, runner, task, first, errors, unmarked, stuck, faults, row,
                 metrics>>

-----------------------------------------------------------------------------
Lines ==
  \/ Prepare \/ Pass \/ ImportProviders \/ ImportRefused
  \/ LookForContainers \/ ContainerIsRunning \/ PruneFails
  \/ InsertRow \/ InsertAgain \/ InsertRefused
  \/ \E p \in Providers : StartProvider(p)
  \/ \E phase \in MainPhases : StartPhase(phase) \/ EndPhase(phase)
  \/ SetupNetwork \/ \E s \in Services : SetupService(s)
  \/ \E f \in Flows : StartFlow(f)
  \/ EndFlow \/ EndMeasurement
  \/ \E kind \in {"error", "check"} : Raise(kind)
  \/ \E p \in Providers \cup Services : Unnoticed(p)

PostProcess ==
  \/ MarkFailed \/ PostStep \/ PostEndMeasurement \/ PatchPhases \/ StorePhases \/ PostFails
  \/ \E p \in Providers : StopProvider(p)
  \/ ProvidersStopped

Cleanup ==
  \/ CleanSecrets \/ CleanProviders \/ ContainersRemoved \/ RemoveNetwork \/ RemoveImages
  \/ KillProcesses \/ CleanupFails
  \/ \E s \in Services : RemoveContainer(s)

Next == StartRun \/ Lines \/ PostProcess \/ Cleanup \/ Killed

Spec == Init /\ [][Next]_vars

-----------------------------------------------------------------------------
TypeOK ==
  /\ live \in [Providers -> Owners] /\ up \in [Services -> Owners] /\ net \in BOOLEAN
  /\ services \in Scenarios /\ enabled \in Selections /\ prune \in BOOLEAN
  /\ listed \subseteq Providers /\ started \subseteq Providers
  /\ containers \subseteq Services /\ network \in BOOLEAN
  /\ open \subseteq Phases /\ last \in Phases \cup {"none"}
  /\ began \in BOOLEAN /\ ended \in BOOLEAN
  /\ pc \in {"body", "flow", "failed", "post", "post_failed", "clean", "over"}
  /\ at \in 1 .. Len(Body)
  /\ todo \subseteq Loops
  /\ exc \in {"none", "error", "check", "killed"} /\ first \in {"none", "error", "check"}
  /\ row \in [exists : BOOLEAN, lost : BOOLEAN, failed : BOOLEAN, stored : BOOLEAN,
              open : SUBSET Phases, saved : SUBSET {PostSteps[k] : k \in 1 .. Len(PostSteps)}]
  /\ pc = "flow" => last \in Flows
  /\ metrics \in [Providers -> Nat]
  /\ errors \in BOOLEAN /\ unmarked \in BOOLEAN /\ dirty \in BOOLEAN
  /\ stuck \subseteq Providers \cup Services /\ faults \in 0 .. MaxFaults

(* While a phase is measured, no other run's process of one of its         *)
(* providers runs, nor a container of another run under one of its names,  *)
(* nor, with a full prune, any container of another run: whatever earlier  *)
(* runs left when they failed, could not clean up or were killed. Under    *)
(* another name one goes on for which docker stop has failed.              *)
MeasuredAlone ==
  open # {} =>
    /\ \A p \in enabled : live[p] # "earlier"
    /\ \A s \in services : up[s] # "earlier"
    /\ prune => \A s \in Services : up[s] = "earlier" => s \in stuck

(* A run leaves nothing on the host, however it fails, unless its cleanup  *)
(* fails, a provider cannot be stopped, or something came up unnoticed.    *)
CleanAfterwards ==
  pc = "over" /\ ~ dirty =>
    /\ \A p \in Providers : live[p] = "this" => p \in stuck
    /\ \A s \in Services : up[s] = "this" => s \in stuck
    /\ net => \E s \in Services : up[s] = "this"

(* The two sides of a clean host: nothing of others in a measurement, and  *)
(* nothing left for others after it.                                       *)
HostIsClean == MeasuredAlone /\ CleanAfterwards

(* A run that is not marked as failed has all its measurements, phases,    *)
(* logs and statistics, once, unless the marking failed or the run was     *)
(* killed. A second row, of an INSERT that was not answered, has nothing.  *)
UnmarkedIsComplete ==
  pc = "over" /\ row.exists /\ ~ row.failed /\ ~ unmarked /\ exc # "killed" =>
    /\ first = "none"
    /\ row.saved = {PostSteps[k] : k \in 1 .. Len(PostSteps)}
    /\ \A p \in enabled : metrics[p] = 1

(* "this method should never be called twice to avoid double logging of    *)
(* metrics", through failures of any step of post-processing.              *)
ImportedOnce == \A p \in Providers : metrics[p] <= 1

(* The caller of a run that is marked as failed gets an exception, and the *)
(* one of a run that has written a row it does not know of, and no other:  *)
(* a job does not count as finished when its run failed.                   *)
MarkedIsReported ==
  pc = "over" /\ (row.failed \/ (row.lost /\ ~ row.exists)) => exc # "none"

(* Every phase that is stored has an end, wherever the run broke off.      *)
StoredPhasesAreClosed == row.stored => row.open = {}

(* A check of the machine that fails before the run has a row reaches the  *)
(* caller as such, who lets the job wait for another try: nothing that     *)
(* follows replaces it, unless the cleanup fails.                          *)
EarlyCheckReachesCaller ==
  pc = "over" /\ first = "check" /\ ~ row.exists /\ ~ dirty => exc = "check"

(* The outcome that others see is what happened, wherever it happened: in  *)
(* the row for those who look at the measurements, in the exception for    *)
(* the one who called.                                                     *)
OutcomeIsTrue == UnmarkedIsComplete /\ MarkedIsReported /\ EarlyCheckReachesCaller

(* A run starts with nothing of the one before it in the runner.           *)
StartsFresh ==
  pc = "body" /\ at = 1 =>
    /\ listed = {} /\ started = {} /\ containers = {} /\ ~ network
    /\ open = {} /\ last = "none" /\ ~ began /\ ~ ended

=============================================================================
