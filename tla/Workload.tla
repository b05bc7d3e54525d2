------------------------------ MODULE Workload ------------------------------
(***************************************************************************)
(* lib/scenario_runner.py, from the clone of a repository to the end of    *)
(* its flows: runner.py takes one ScenarioRunner through several files. A  *)
(* file's images are built and its memory shared out, its services are put *)
(* in the order of depends_on, each is started when the ones it depends on *)
(* are up, commands run in the containers, awaited or detached, and        *)
(* containers exit, turn unhealthy and detached commands end whenever they *)
(* like.                                                                   *)
(***************************************************************************)
EXTENDS Integers, Sequences, Sums

CONSTANTS
  Services,    \* services, with their containers
  Unknown,     \* a name in depends_on that is not a service
  Host,        \* a container that is up whatever the runner does
  Scenarios,   \* usage scenarios, see Scenario
  Lookalikes,  \* containers whose names contain the name of another one
  Images,      \* names of images
  Tag,         \* the name under which the runner keeps an image of that name
  Memory,      \* what is left for containers, in a unit of some size
  Strangers,   \* sets of services whose containers somebody else has running
  Branches,    \* of the remote repository
  Default,     \* the one a clone gets that does not ask for one
  Asked,       \* --branch, and whether there is a --commit-hash
  MaxWaiting,  \* wait_time_dependencies: looks at a dependency
  MaxFiles     \* bound: --filename times --iterations

None == "none"

(* A scenario: images and memory that are asked for, what depends on what, *)
(* on whose health, which services have a healthcheck, or a setting that   *)
(* is not allowed, and the commands.                                       *)
Command == [on : Services \cup {Host}, detach : BOOLEAN, ignore : BOOLEAN]
Scenario ==
  [services : SUBSET Services,
   image : [Services -> Images],
   memory : [Services -> Nat \cup {-1}],
   needs : [Services -> SUBSET (Services \cup {Unknown})],
   healthy : SUBSET (Services \X Services),
   checked : SUBSET Services,
   refused : SUBSET Services,
   setup : [Services -> Seq(Command)],
   flows : Seq(Seq(Command))]

ASSUME NamesAssumption == Unknown \notin Services /\ Host \notin Services
ASSUME ScenarioAssumption == Scenarios # {} /\ Scenarios \subseteq Scenario
ASSUME FileAssumption == \A scenario \in Scenarios : IsFiniteSet(scenario.services)
ASSUME LookalikeAssumption ==
  /\ Lookalikes \in [Services -> SUBSET Services]
  /\ \A s \in Services : \A t \in Lookalikes[s] : Lookalikes[t] \subseteq Lookalikes[s]
ASSUME MemoryAssumption == Memory \in Nat \ {0}
ASSUME StrangerAssumption == Strangers # {} /\ Strangers \subseteq SUBSET Services
ASSUME BranchAssumption ==
  /\ Default \in Branches /\ {None, "detached"} \cap Branches = {}
  /\ Asked \subseteq [branch : Branches \cup {None}, commit : BOOLEAN]
ASSUME BoundAssumption == MaxWaiting \in Nat \ {0} /\ MaxFiles \in Nat

VARIABLES
  asked,      \* what this runner was asked for of these
  branch,     \* self._branch
  packages,   \* self.__container_dependencies: services they were read from
  files,      \* files to go
  task,       \* the scenario of this file
  limit,      \* the memory its services get
  tags,       \* the images of the runner, and the file they were made for
  strangers,  \* containers of somebody else
  used,       \* the images its containers were started from
  row,        \* of the table runs: branch and packages
  visited,    \* _order_services: names on the way from a root
  stack,      \* the calls of order_service_names
  ordered,    \* names_ordered
  queue,      \* _setup_services: services to go
  wanted,     \* dependencies of the first of them to go
  target,     \* the one that is waited for
  seen,       \* its state and health when last looked at
  waited,     \* time_waited
  container,  \* state of the containers
  health,     \* and their health, as Docker has it
  procs,      \* the commands that were started, in order
  listed,     \* those in __ps_to_read, or in __ps_to_kill if detached
  todo,       \* what a loop over containers or processes has to go
  flow,       \* the flow, 0 in the setup, and the command in it
  command,
  pc,
  after,      \* where to go after a loop
  exc,        \* the exception that ended the file
  early,      \* history: containers that exited before they were last checked
  late,       \* history: processes that failed after they were last checked
  healed,     \* history: containers that have been healthy
  gone        \* history: containers that had exited when a service's turn came

runner == <<asked, branch, packages, files, task, row>>
images == <<limit, tags, strangers, used>>
sorting == <<visited, stack, ordered>>
waiting == <<queue, wanted, target, seen, waited, gone>>
docker == <<container, health, early, healed>>
running == <<procs, listed, late>>
control == <<todo, flow, command, pc, after, exc>>
vars == <<runner, images, sorting, waiting, docker, running, control>>

Elements(seq) == {seq[i] : i \in 1 .. Len(seq)}
NoTask == CHOOSE scenario \in Scenarios : TRUE
Tags == {Tag[i] : i \in Images}
NoImage == [image |-> None, file |-> MaxFiles]
NothingSeen == [state |-> "absent", health |-> "healthy"]
Up(s) == s = Host \/ container[s] = "running"

Fail(reason) ==
  /\ exc' = reason /\ pc' = "post" /\ todo' = {p \in listed : procs[p].detach}
  /\ UNCHANGED <<flow, command, after>>

Goto(place) == pc' = place /\ UNCHANGED <<todo, flow, command, after, exc>>

-----------------------------------------------------------------------------
Init ==
  /\ asked \in Asked
  /\ branch = asked.branch /\ packages = {} /\ files = MaxFiles
  /\ task = NoTask /\ row = [branch |-> None, packages |-> {}]
  /\ visited = {} /\ stack = <<>> /\ ordered = <<>>
  /\ queue = <<>> /\ wanted = {} /\ target = Unknown /\ seen = NothingSeen /\ waited = 0
  /\ strangers \in Strangers
  /\ limit = [s \in Services |-> 0] /\ used = [s \in Services |-> NoImage]
  /\ tags = [t \in Tags |-> [image |-> CHOOSE i \in Images : Tag[i] = t, file |-> MaxFiles]]
  /\ container = [s \in Services |-> IF s \in strangers THEN "running" ELSE "absent"]
  /\ health = [s \in Services |-> None]
  /\ procs = <<>> /\ listed = {} /\ todo = {} /\ flow = 0 /\ command = 1
  /\ pc = "over" /\ after = "over" /\ exc = None
  /\ early = {} /\ late = {} /\ healed = {} /\ gone = {}

(* runner.py goes on with the next file unless this one has raised. The    *)
(* branch and the packages of the last one are still there.                *)
NextFile ==
  /\ pc = "over" /\ exc = None /\ files > 0
  /\ files' = files - 1 /\ task' = NoTask
  /\ row' = [branch |-> None, packages |-> {}]
  /\ visited' = {} /\ stack' = <<>> /\ ordered' = <<>>
  /\ queue' = <<>> /\ wanted' = {} /\ target' = Unknown /\ seen' = NothingSeen /\ waited' = 0
  /\ health' = [s \in Services |-> None] /\ used' = [s \in Services |-> NoImage]
  /\ limit' = [s \in Services |-> 0]
  /\ procs' = <<>> /\ listed' = {} /\ todo' = {} /\ flow' = 0 /\ command' = 1
  /\ pc' = "clone" /\ early' = {} /\ late' = {} /\ healed' = {} /\ gone' = {}
  /\ UNCHANGED <<asked, branch, packages, tags, strangers, container, after, exc>>

(* git clone -b, the checkout of a commit, and what branch that makes.     *)
Clone ==
  /\ pc = "clone"
  /\ branch \in Branches \cup {None}
  /\ branch' = IF asked.commit THEN "detached" ELSE IF branch = None THEN Default ELSE branch
  /\ Goto("load")
  /\ UNCHANGED <<asked, packages, files, task, row, images, sorting, waiting, docker, running>>

(* The remote does not answer, or does not have the branch or the commit.  *)
CloneFails ==
  /\ pc = "clone"
  /\ Fail(IF branch \in Branches \cup {None} THEN "remote" ELSE "noBranch")
  /\ UNCHANGED <<runner, images, sorting, waiting, docker, running>>

(* The file with its includes and variables, as the schema allows it.      *)
Load ==
  /\ pc = "load" /\ task' \in Scenarios
  /\ Goto("limits")
  /\ UNCHANGED <<asked, branch, packages, files, row, images, sorting, waiting, docker, running>>

(* A file that is not there, is no scenario or is for another machine.     *)
LoadFails ==
  /\ pc = "load" /\ Fail("scenario")
  /\ UNCHANGED <<runner, images, sorting, waiting, docker, running>>

RelationsFail ==
  /\ pc = "limits" /\ Fail("remote")
  /\ UNCHANGED <<runner, images, sorting, waiting, docker, running>>

-----------------------------------------------------------------------------
(* Memory and images.                                                      *)

Limited == {s \in task.services : task.memory[s] # -1}
Rest == task.services \ Limited
Left == Memory - Sum(task.memory, Limited)

(* Mutant: what the others have asked for is shared out again.             *)
ShareOfAll == IF Rest = {} THEN 0 ELSE Memory \div Cardinality(Rest)

(* The services that ask for nothing share what the others leave.          *)
Share == IF Rest = {} THEN 0 ELSE Left \div Cardinality(Rest)

SetLimits ==
  /\ pc = "limits" /\ Left >= 0
  /\ limit' = [s \in Services |-> IF s \in Limited THEN task.memory[s] ELSE Share]
  /\ Goto("names")
  /\ UNCHANGED <<tags, strangers, used, runner, sorting, waiting, docker, running>>

LimitsExceeded ==
  /\ pc = "limits" /\ Left < 0
  /\ Fail("memory")
  /\ UNCHANGED <<runner, images, sorting, waiting, docker, running>>

NoTags == [t \in Tags |-> NoImage]

(* Mutant: the images of an earlier run are kept.                          *)
InitializeKeeping ==
  /\ pc = "names" /\ \A s \in task.services : container[s] # "running"
  /\ row' = [row EXCEPT !.branch = branch]
  /\ todo' = task.services /\ pc' = "build" /\ UNCHANGED <<flow, command, after, exc>>
  /\ UNCHANGED <<tags, limit, strangers, used, asked, branch, packages, files, task,
                 sorting, waiting, docker, running>>

(* _check_running_containers_before_start, _remove_docker_images and       *)
(* _initialize_run.                                                        *)
Initialize ==
  /\ pc = "names" /\ \A s \in task.services : container[s] # "running"
  /\ tags' = NoTags
  /\ row' = [row EXCEPT !.branch = branch]
  /\ todo' = task.services /\ pc' = "build" /\ UNCHANGED <<flow, command, after, exc>>
  /\ UNCHANGED <<limit, strangers, used, asked, branch, packages, files, task,
                 sorting, waiting, docker, running>>

NameTaken ==
  /\ pc = "names" /\ \E s \in task.services : container[s] = "running"
  /\ Fail("nameTaken")
  /\ UNCHANGED <<runner, images, sorting, waiting, docker, running>>

(* An image that is there under the name the runner gives it is not made   *)
(* again; otherwise it is pulled or built and then tagged.                 *)
Build(s) ==
  /\ pc = "build" /\ s \in todo
  /\ LET i == task.image[s]
     IN tags' = IF tags[Tag[i]] = NoImage
                THEN [tags EXCEPT ![Tag[i]] = [image |-> i, file |-> files]]
                ELSE tags
  /\ todo' = todo \ {s} /\ UNCHANGED <<flow, command, pc, after, exc>>
  /\ UNCHANGED <<limit, strangers, used, runner, sorting, waiting, docker, running>>

BuildFails(s) ==
  /\ pc = "build" /\ s \in todo /\ tags[Tag[task.image[s]]] = NoImage
  /\ Fail("image")
  /\ UNCHANGED <<runner, images, sorting, waiting, docker, running>>

(* The sizes of the images are written down, networks are created.         *)
Network ==
  /\ pc = "build" /\ todo = {} /\ Goto("order")
  /\ UNCHANGED <<runner, images, sorting, waiting, docker, running>>

NetworkFails ==
  /\ pc = "build" /\ todo = {} /\ Fail("network")
  /\ UNCHANGED <<runner, images, sorting, waiting, docker, running>>

-----------------------------------------------------------------------------
(* _order_services. It goes through services and dependencies in the order *)
(* of the file; any order is modelled.                                     *)

Root(s) ==
  /\ pc = "order" /\ stack = <<>>
  /\ s \in task.services \ Elements(ordered)
  /\ visited' = {s} /\ stack' = <<s>>
  /\ UNCHANGED <<ordered, runner, images, waiting, docker, running, control>>

Top == stack[Len(stack)]
Open == task.needs[Top] \ Elements(ordered)

Descend(d) ==
  /\ pc = "order" /\ stack # <<>> /\ d \in Open
  /\ d \notin visited /\ d \in task.services
  /\ visited' = visited \cup {d} /\ stack' = Append(stack, d)
  /\ UNCHANGED <<ordered, runner, images, waiting, docker, running, control>>

OrderFails(d) ==
  /\ pc = "order" /\ stack # <<>> /\ d \in Open
  /\ d \in visited \/ d \notin task.services
  /\ Fail(IF d \in visited THEN "cycle" ELSE "unknownService")
  /\ UNCHANGED <<runner, images, sorting, waiting, docker, running>>

(* Mutant: a service goes in front of what it depends on.                  *)
ReturnEarly ==
  /\ pc = "order" /\ stack # <<>>
  /\ ordered' = Append(ordered, Top) /\ stack' = SubSeq(stack, 1, Len(stack) - 1)
  /\ UNCHANGED <<visited, runner, images, waiting, docker, running, control>>

Return ==
  /\ pc = "order" /\ stack # <<>> /\ Open = {}
  /\ ordered' = Append(ordered, Top) /\ stack' = SubSeq(stack, 1, Len(stack) - 1)
  /\ UNCHANGED <<visited, runner, images, waiting, docker, running, control>>

Ordered ==
  /\ pc = "order" /\ stack = <<>> /\ task.services \subseteq Elements(ordered)
  /\ queue' = ordered /\ Goto("service")
  /\ UNCHANGED <<wanted, target, seen, waited, gone, runner, images, sorting, docker, running>>

-----------------------------------------------------------------------------
(* _setup_services                                                         *)

Current == Head(queue)

(* docker rm -f: a container that has the name already goes.               *)
ResetContainer == container' = [container EXCEPT ![Current] = "absent"]

(* The settings are accepted: networks, limits, healthcheck and entrypoint *)
(* go into the docker run command, and the wait for depends_on begins.     *)
Prepare ==
  /\ pc = "service" /\ queue # <<>> /\ Current \notin task.refused
  /\ ResetContainer
  /\ wanted' = task.needs[Current] /\ Goto("wait")
  /\ gone' = {s \in Services : container[s] = "exited"}
  /\ UNCHANGED <<queue, target, seen, waited, health, early, healed, runner, images, sorting, running>>

(* Volumes, ports, run arguments, variables, labels, networks, healthcheck *)
(* or entrypoint that are not allowed, or an image of another machine.     *)
Refuse ==
  /\ pc = "service" /\ queue # <<>> /\ Current \in task.refused
  /\ ResetContainer
  /\ Fail("refused")
  /\ UNCHANGED <<health, early, healed, runner, images, sorting, waiting, running>>

(* Mutant: what was seen of the last dependency stands for the next one.   *)
WaitForWithoutReset(d) ==
  /\ pc = "wait" /\ d \in wanted
  /\ target' = d /\ waited' = 0
  /\ Goto(IF waited > 0 /\ seen.health = "healthy" THEN "decide" ELSE "inspect")
  /\ UNCHANGED <<queue, wanted, seen, gone, runner, images, sorting, docker, running>>

WaitFor(d) ==
  /\ pc = "wait" /\ d \in wanted
  /\ target' = d /\ seen' = NothingSeen /\ waited' = 0 /\ Goto("inspect")
  /\ UNCHANGED <<queue, wanted, gone, runner, images, sorting, docker, running>>

AsksForHealth == <<Current, target>> \in task.healthy

Inspect ==
  /\ pc = "inspect"
  /\ seen' = [seen EXCEPT !.state = container[target]]
  /\ Goto(IF AsksForHealth THEN "health" ELSE "decide")
  /\ UNCHANGED <<queue, wanted, target, waited, gone, runner, images, sorting, docker, running>>

(* No container, no healthcheck or a container given up ends it at once.   *)
InspectHealth ==
  /\ pc = "health"
  /\ container[target] # "absent" /\ health[target] \in {"starting", "healthy"}
  /\ seen' = [seen EXCEPT !.health = health[target]]
  /\ Goto("decide")
  /\ UNCHANGED <<queue, wanted, target, waited, gone, runner, images, sorting, docker, running>>

HealthFails ==
  /\ pc = "health"
  /\ container[target] = "absent" \/ health[target] \in {None, "unhealthy"}
  /\ Fail("unhealthy")
  /\ UNCHANGED <<runner, images, sorting, waiting, docker, running>>

Ready == seen = [state |-> "running", health |-> "healthy"]

Satisfied ==
  /\ pc = "decide" /\ Ready
  /\ wanted' = wanted \ {target} /\ Goto("wait")
  /\ UNCHANGED <<queue, target, seen, waited, gone, runner, images, sorting, docker, running>>

(* Mutant: one look too many.                                              *)
SleepOnceMore ==
  /\ pc = "decide" /\ ~ Ready /\ waited < MaxWaiting
  /\ waited' = waited + 1 /\ Goto("inspect")
  /\ UNCHANGED <<queue, wanted, target, seen, gone, runner, images, sorting, docker, running>>

(* Mutant: the time is not counted while the container is up.              *)
SleepUncounted ==
  /\ pc = "decide" /\ ~ Ready /\ waited + 1 < MaxWaiting
  /\ waited' = IF seen.state = "running" THEN waited ELSE waited + 1
  /\ Goto("inspect")
  /\ UNCHANGED <<queue, wanted, target, seen, gone, runner, images, sorting, docker, running>>

Sleep ==
  /\ pc = "decide" /\ ~ Ready /\ waited + 1 < MaxWaiting
  /\ waited' = waited + 1 /\ Goto("inspect")
  /\ UNCHANGED <<queue, wanted, target, seen, gone, runner, images, sorting, docker, running>>

GiveUp ==
  /\ pc = "decide" /\ ~ Ready /\ waited + 1 = MaxWaiting
  /\ Fail("notReady")
  /\ UNCHANGED <<runner, images, sorting, waiting, docker, running>>

(* docker run, once nothing is left to wait for.                           *)
Run ==
  /\ pc = "wait" /\ wanted = {}
  /\ container' = [container EXCEPT ![Current] = "running"]
  /\ used' = [used EXCEPT ![Current] = tags[Tag[task.image[Current]]]]
  /\ health' = [health EXCEPT ![Current] = IF Current \in task.checked THEN "starting" ELSE None]
  /\ command' = 1 /\ pc' = "setup" /\ UNCHANGED <<todo, flow, after, exc>>
  /\ UNCHANGED <<early, healed, limit, tags, strangers, runner, sorting, waiting, running>>

(* docker run fails and may leave a container that was not started, or     *)
(* writes to stderr with one that was.                                     *)
RunFails ==
  /\ pc = "wait" /\ wanted = {}
  /\ \E state \in {"absent", "created", "running"} :
       container' = [container EXCEPT ![Current] = state]
  /\ Fail("notStarted")
  /\ UNCHANGED <<health, early, healed, runner, images, sorting, waiting, running>>

-----------------------------------------------------------------------------
(* Commands. An awaited one is over when the runner goes on; "bad" is an   *)
(* exit code that is not 0, or a shell that does not know an option.       *)

Outcomes(on) == IF Up(on) THEN {"ok", "bad"} ELSE {"bad"}
Launched(on) == IF Up(on) THEN "runs" ELSE "bad"
Started(c, state) ==
  Append(procs, [on |-> c.on, detach |-> c.detach, ignore |-> c.ignore, state |-> state, flow |-> flow])

SetupCommand == task.setup[Current][command]
SettingUp == pc = "setup" /\ command <= Len(task.setup[Current])

SetUp ==
  /\ SettingUp
  /\ \E state \in IF SetupCommand.detach THEN {Launched(SetupCommand.on)}
                  ELSE Outcomes(SetupCommand.on) \ {"bad"} :
       procs' = Started(SetupCommand, state)
  /\ listed' = listed \cup {Len(procs) + 1}
  /\ command' = command + 1
  /\ UNCHANGED <<late, todo, flow, pc, after, exc, runner, images, sorting, waiting, docker>>

(* In the setup a command that is awaited and fails ends the run.          *)
SetUpFails ==
  /\ SettingUp /\ ~ SetupCommand.detach
  /\ Fail("setupFailed")
  /\ UNCHANGED <<runner, images, sorting, waiting, docker, running>>

ServiceDone ==
  /\ pc = "setup" /\ command > Len(task.setup[Current])
  /\ queue' = Tail(queue) /\ Goto("service")
  /\ UNCHANGED <<wanted, target, seen, waited, gone, runner, images, sorting, docker, running>>

(* A loop over containers or processes.                                    *)
Loop(over, place, then) ==
  /\ todo' = over /\ pc' = place /\ after' = then /\ UNCHANGED <<flow, command, exc>>

ServicesDone ==
  /\ pc = "service" /\ queue = <<>>
  /\ Loop(task.services, "containers", "booted")
  /\ UNCHANGED <<runner, images, sorting, waiting, docker, running>>

(* Mutant: docker ps -a, which lists exited containers too.                *)
FoundInAnyState(s) == \E t \in {s} \cup Lookalikes[s] : container[t] # "absent"

(* docker ps -q -f name=: a container is found by any part of its name.    *)
Found(s) == \E t \in {s} \cup Lookalikes[s] : Up(t)

ContainerFound(s) ==
  /\ pc = "containers" /\ s \in todo /\ Found(s)
  /\ todo' = todo \ {s} /\ UNCHANGED <<flow, command, pc, after, exc>>
  /\ UNCHANGED <<runner, images, sorting, waiting, docker, running>>

ContainerMissed(s) ==
  /\ pc = "containers" /\ s \in todo /\ ~ Found(s)
  /\ Fail("containerExited")
  /\ UNCHANGED <<runner, images, sorting, waiting, docker, running>>

(* _check_process_returncodes looks at what is in __ps_to_read, all of it. *)
Watched == {p \in listed : ~ procs[p].ignore}

ContainersChecked ==
  /\ pc = "containers" /\ todo = {}
  /\ Loop(Watched, "codes", after)
  /\ UNCHANGED <<runner, images, sorting, waiting, docker, running>>

(* A detached process may be running, or have been ended by a signal.      *)
CodeAccepted(p) ==
  /\ pc = "codes" /\ p \in todo /\ procs[p].state # "bad"
  /\ todo' = todo \ {p} /\ UNCHANGED <<flow, command, pc, after, exc>>
  /\ UNCHANGED <<runner, images, sorting, waiting, docker, running>>

CodeRefused(p) ==
  /\ pc = "codes" /\ p \in todo /\ procs[p].state = "bad"
  /\ Fail("processFailed")
  /\ UNCHANGED <<runner, images, sorting, waiting, docker, running>>

-----------------------------------------------------------------------------
(* _collect_container_dependencies, and what the row is given of it.       *)
CollectPackages ==
  /\ pc = "codes" /\ todo = {} /\ after = "booted"
  /\ packages' = IF task.services = {} THEN packages ELSE task.services
  /\ row' = [row EXCEPT !.packages = packages']
  /\ flow' = 1 /\ pc' = "flow" /\ UNCHANGED <<todo, command, after, exc>>
  /\ UNCHANGED <<asked, branch, files, task, images, sorting, waiting, docker, running>>

(* The inspector fails for a container, or it has been gone for a while.   *)
CollectFails ==
  /\ pc = "codes" /\ todo = {} /\ after = "booted" /\ task.services # {}
  /\ Fail("packages")
  /\ UNCHANGED <<runner, images, sorting, waiting, docker, running>>

(* _run_flows                                                              *)
StartFlow ==
  /\ pc = "flow" /\ flow <= Len(task.flows)
  /\ command' = 1 /\ pc' = "command" /\ UNCHANGED <<todo, flow, after, exc>>
  /\ UNCHANGED <<runner, images, sorting, waiting, docker, running>>

FlowCommand == task.flows[flow][command]

(* Whether it failed is looked at when the flow is over.                   *)
Execute ==
  /\ pc = "command" /\ command <= Len(task.flows[flow])
  /\ \E state \in IF FlowCommand.detach THEN {Launched(FlowCommand.on)} ELSE Outcomes(FlowCommand.on) :
       procs' = Started(FlowCommand, state)
  /\ command' = command + 1
  /\ UNCHANGED <<listed, late, todo, flow, pc, after, exc, runner, images, sorting, waiting, docker>>

(* total_duration is over, or an await fails: the processes of this flow   *)
(* are not handed over.                                                    *)
FlowFails ==
  /\ pc \in {"flow", "command"} /\ flow <= Len(task.flows)
  /\ Fail("flow")
  /\ UNCHANGED <<runner, images, sorting, waiting, docker, running>>

(* flow_process_duration is over while a command is awaited: the client    *)
(* that waits for it is killed.                                            *)
FlowTimesOut ==
  /\ pc = "command" /\ command <= Len(task.flows[flow])
  /\ ~ FlowCommand.detach /\ Launched(FlowCommand.on) = "runs"
  /\ procs' = Started(FlowCommand, "left")
  /\ Fail("flow")
  /\ UNCHANGED <<listed, late, runner, images, sorting, waiting, docker>>

(* Mutant: the processes of this flow take the place of the earlier ones.  *)
HandOverOnly ==
  /\ pc = "command" /\ command > Len(task.flows[flow])
  /\ listed' = {p \in DOMAIN procs : procs[p].flow = flow}
  /\ todo' = {p \in listed' : ~ procs[p].ignore}
  /\ pc' = "codes" /\ after' = "flown" /\ UNCHANGED <<flow, command, exc>>
  /\ UNCHANGED <<procs, late, runner, images, sorting, waiting, docker>>

HandOver ==
  /\ pc = "command" /\ command > Len(task.flows[flow])
  /\ listed' = listed \cup {p \in DOMAIN procs : procs[p].flow = flow}
  /\ todo' = {p \in listed' : ~ procs[p].ignore}
  /\ pc' = "codes" /\ after' = "flown" /\ UNCHANGED <<flow, command, exc>>
  /\ UNCHANGED <<procs, late, runner, images, sorting, waiting, docker>>

FlowChecked ==
  /\ pc = "codes" /\ todo = {} /\ after = "flown"
  /\ flow' = flow + 1 /\ pc' = "flow" /\ UNCHANGED <<todo, command, after, exc>>
  /\ UNCHANGED <<runner, images, sorting, waiting, docker, running>>

FlowsDone ==
  /\ pc = "flow" /\ flow > Len(task.flows)
  /\ Loop(task.services, "containers", "end")
  /\ UNCHANGED <<runner, images, sorting, waiting, docker, running>>

Finish ==
  /\ pc = "codes" /\ todo = {} /\ after = "end"
  /\ pc' = "post" /\ todo' = {p \in listed : procs[p].detach}
  /\ UNCHANGED <<flow, command, after, exc, runner, images, sorting, waiting, docker, running>>

-----------------------------------------------------------------------------
(* When the runner looks at containers and processes again.                *)
Ending == pc \in {"post", "clean", "reap", "over"}
CheckAhead(s) == ~ Ending /\ ~ (after = "end" /\ (pc = "codes" \/ (pc = "containers" /\ s \notin todo)))
LookAhead(p) == ~ Ending /\ ~ (after = "end" /\ pc = "codes" /\ p \notin todo)

(* With a container end the commands in it.                                *)
Stopped(state) == IF state = "runs" THEN "bad" ELSE IF state = "left" THEN "gone" ELSE state

AllStop(s) ==
  /\ procs' = [p \in DOMAIN procs |->
       IF procs[p].on = s THEN [procs[p] EXCEPT !.state = Stopped(@)] ELSE procs[p]]
  /\ late' = late \cup {p \in DOMAIN procs :
       procs[p].on = s /\ procs[p].state = "runs" /\ ~ LookAhead(p)}

-----------------------------------------------------------------------------
(* _read_and_cleanup_processes: what is killed is the docker exec that has *)
(* started a command. The command is left to itself in its container. A    *)
(* process that is over already is let be.                                 *)
Killed(p) == [procs EXCEPT ![p].state = IF @ = "runs" THEN "left" ELSE @]

(* Mutant: the first one stands for all.                                   *)
KillFirst(p) ==
  /\ pc = "post" /\ p \in todo
  /\ procs' = Killed(p) /\ todo' = {}
  /\ UNCHANGED <<listed, late, flow, command, pc, after, exc, runner, images, sorting, waiting, docker>>

Kill(p) ==
  /\ pc = "post" /\ p \in todo
  /\ procs' = Killed(p) /\ todo' = todo \ {p}
  /\ UNCHANGED <<listed, late, flow, command, pc, after, exc, runner, images, sorting, waiting, docker>>

(* It takes a SIGKILL, which is an exception: the rest waits for cleanup.  *)
KillFails(p) ==
  /\ pc = "post" /\ p \in todo /\ procs[p].state = "runs"
  /\ procs' = Killed(p) /\ pc' = "clean" /\ exc' = "stubborn"
  /\ UNCHANGED <<listed, late, todo, flow, command, after, runner, images, sorting, waiting, docker>>

PostDone ==
  /\ pc = "post" /\ todo = {} /\ Goto("clean")
  /\ UNCHANGED <<runner, images, sorting, waiting, docker, running>>

(* cleanup(): the containers that docker run has given an id for go, one   *)
(* by one, then the images.                                                *)
Known(s) == container[s] \in {"running", "exited"} /\ s \notin strangers

RemoveContainer(s) ==
  /\ pc = "clean" /\ Known(s)
  /\ container' = [container EXCEPT ![s] = "absent"]
  /\ AllStop(s)
  /\ UNCHANGED <<listed, health, early, healed, runner, images, sorting, waiting, control>>

RemoveImages ==
  /\ pc = "clean" /\ \A s \in Services : ~ Known(s)
  /\ tags' = NoTags /\ Goto("reap")
  /\ UNCHANGED <<limit, strangers, used, runner, sorting, waiting, docker, running>>

(* docker rm, docker images or docker system prune fails: the rest of the  *)
(* cleanup does not take place.                                            *)
CleanupFails ==
  /\ pc = "clean" /\ exc' = "docker" /\ pc' = "over" /\ todo' = {}
  /\ UNCHANGED <<flow, command, after, runner, images, sorting, waiting, docker, running>>

(* What the post-processing has left is killed, up to one that takes a     *)
(* SIGKILL again.                                                          *)
Reap(p) ==
  /\ pc = "reap" /\ p \in todo
  /\ procs' = Killed(p) /\ todo' = todo \ {p}
  /\ UNCHANGED <<listed, late, flow, command, pc, after, exc, runner, images, sorting, waiting, docker>>

ReapFails(p) ==
  /\ pc = "reap" /\ p \in todo /\ procs[p].state = "runs"
  /\ procs' = Killed(p) /\ todo' = {} /\ pc' = "over" /\ exc' = "stubborn"
  /\ UNCHANGED <<listed, late, flow, command, after, runner, images, sorting, waiting, docker>>

Over ==
  /\ pc = "reap" /\ todo = {} /\ Goto("over")
  /\ UNCHANGED <<runner, images, sorting, waiting, docker, running>>

-----------------------------------------------------------------------------
(* Containers and processes, whenever they like.                           *)

Ends(p, state) ==
  /\ procs' = [procs EXCEPT ![p].state = state]
  /\ late' = IF LookAhead(p) THEN late ELSE late \cup {p}

ProcessEnds(p) ==
  /\ \/ procs[p].state = "runs" /\ \E state \in {"ok", "bad"} : Ends(p, state)
     \/ procs[p].state = "left" /\ Ends(p, "gone")
  /\ UNCHANGED <<listed, runner, images, sorting, waiting, docker, control>>

ContainerExits(s) ==
  /\ container[s] = "running" /\ s \notin strangers
  /\ container' = [container EXCEPT ![s] = "exited"]
  /\ early' = IF CheckAhead(s) THEN early \cup {s} ELSE early
  /\ AllStop(s)
  /\ UNCHANGED <<listed, health, healed, runner, images, sorting, waiting, control>>

HealthTurns(s) ==
  /\ container[s] = "running" /\ health[s] # None
  /\ \E h \in {"healthy", "unhealthy"} \ {health[s]} : health' = [health EXCEPT ![s] = h]
  /\ healed' = IF health'[s] = "healthy" THEN healed \cup {s} ELSE healed
  /\ UNCHANGED <<container, early, runner, images, sorting, waiting, running, control>>

-----------------------------------------------------------------------------
Order ==
  \/ \E s \in Services : Root(s)
  \/ \E d \in Services : Descend(d)
  \/ \E d \in Services \cup {Unknown} : OrderFails(d)
  \/ Return \/ Ordered

Setup ==
  \/ Prepare \/ Refuse \/ (\E d \in Services : WaitFor(d))
  \/ Inspect \/ InspectHealth \/ HealthFails \/ Satisfied \/ Sleep \/ GiveUp
  \/ Run \/ RunFails \/ SetUp \/ SetUpFails \/ ServiceDone \/ ServicesDone

Check ==
  \/ \E s \in Services : ContainerFound(s) \/ ContainerMissed(s)
  \/ ContainersChecked
  \/ \E p \in DOMAIN procs : CodeAccepted(p) \/ CodeRefused(p)

Flows ==
  \/ CollectPackages \/ CollectFails \/ StartFlow \/ Execute \/ FlowFails
  \/ FlowTimesOut \/ HandOver \/ FlowChecked \/ FlowsDone \/ Finish

End ==
  \/ \E p \in DOMAIN procs : Kill(p) \/ KillFails(p) \/ Reap(p) \/ ReapFails(p)
  \/ \E s \in Services : RemoveContainer(s)
  \/ PostDone \/ RemoveImages \/ CleanupFails \/ Over

Begin ==
  \/ NextFile \/ Clone \/ CloneFails \/ Load \/ LoadFails \/ RelationsFail
  \/ SetLimits \/ LimitsExceeded \/ Initialize \/ NameTaken
  \/ (\E s \in Services : Build(s) \/ BuildFails(s)) \/ Network \/ NetworkFails

Step == Begin \/ Order \/ Setup \/ Check \/ Flows \/ End

Environment ==
  \/ \E p \in DOMAIN procs : ProcessEnds(p)
  \/ \E s \in Services : ContainerExits(s) \/ HealthTurns(s)

Done == pc = "over" /\ (exc # None \/ files = 0) /\ UNCHANGED vars

Next == Step \/ Environment \/ Done

Spec == Init /\ [][Next]_vars
FairSpec == Spec /\ WF_vars(Step)

-----------------------------------------------------------------------------
(* Properties                                                              *)

Exceptions ==
  {None, "remote", "noBranch", "scenario", "memory", "nameTaken", "image", "network",
   "cycle", "unknownService", "refused", "unhealthy",
   "notReady", "notStarted", "setupFailed", "containerExited", "processFailed", "packages",
   "flow", "stubborn", "docker"}

Places ==
  {"over", "clone", "load", "limits", "names", "build", "order", "service",
   "wait", "inspect", "health", "decide", "setup",
   "containers", "codes", "flow", "command", "post", "clean", "reap"}

(* Types of the runner, of Docker and of the processes.                    *)
TypeOK ==
  /\ asked \in Asked
  /\ branch \in Branches \cup {None, "detached"} /\ packages \subseteq Services
  /\ files \in 0 .. MaxFiles /\ task \in Scenarios
  /\ limit \in [Services -> Nat] /\ strangers \in Strangers
  /\ tags \in [Tags -> [image : Images \cup {None}, file : 0 .. MaxFiles]]
  /\ used \in [Services -> [image : Images \cup {None}, file : 0 .. MaxFiles]]
  /\ row \in [branch : Branches \cup {None, "detached"}, packages : SUBSET Services]
  /\ visited \subseteq Services /\ stack \in Seq(Services) /\ ordered \in Seq(Services)
  /\ queue \in Seq(Services) /\ wanted \subseteq Services /\ target \in Services \cup {Unknown}
  /\ seen \in [state : {"absent", "created", "running", "exited"}, health : {"starting", "healthy"}]
  /\ waited \in 0 .. MaxWaiting - 1
  /\ container \in [Services -> {"absent", "created", "running", "exited"}]
  /\ health \in [Services -> {None, "starting", "healthy", "unhealthy"}]
  /\ procs \in Seq([on : Services \cup {Host}, detach : BOOLEAN, ignore : BOOLEAN,
                    state : {"runs", "ok", "bad", "left", "gone"}, flow : Nat])
  /\ listed \subseteq DOMAIN procs /\ todo \subseteq Services \cup Nat
  /\ flow \in Nat /\ command \in Nat
  /\ pc \in Places /\ after \in {"over", "booted", "flown", "end"} /\ exc \in Exceptions
  /\ early \subseteq Services /\ late \subseteq DOMAIN procs /\ healed \subseteq Services
  /\ gone \subseteq Services

(* What the containers are given is there. One without a limit of its own  *)
(* is given nothing, which for Docker is no limit at all, only if the      *)
(* others have taken all but what cannot be shared.                        *)
MemoryIsThere ==
  row.branch # None =>
    /\ Sum(limit, task.services) <= Memory
    /\ \A s \in Rest : limit[s] = 0 => Left < Cardinality(Rest)

(* A container runs an image that was made for this file, for its service  *)
(* or, if their names look the same to the runner, for another one.        *)
ImagesAreFresh ==
  \A s \in Services : used[s] # NoImage =>
    /\ used[s].file = files
    /\ \E t \in task.services :
         used[s].image = task.image[t] /\ Tag[task.image[t]] = Tag[task.image[s]]

(* A service comes after everything it depends on, and everything it       *)
(* depends on is a service: cycles and unknown names do not get through.   *)
DependenciesFirst ==
  \A i \in 1 .. Len(ordered) :
    /\ task.needs[ordered[i]] \subseteq {ordered[j] : j \in 1 .. i - 1}
    /\ \A j \in 1 .. i - 1 : ordered[j] # ordered[i]

(* A scenario is refused for a cycle only if there is one: services that   *)
(* reach each other on several ways are none.                              *)
CyclesAreReal ==
  exc = "cycle" =>
    \E ring \in SUBSET task.services :
      ring # {} /\ \A s \in ring : task.needs[s] \cap ring # {}

(* The order of the services is right, and refused only if there is none.  *)
OrderIsRight == DependenciesFirst /\ CyclesAreReal

(* A service is started when the containers it depends on have been        *)
(* started in their turn, were not dead by then, and have been healthy if  *)
(* it asked for their health.                                              *)
StartedWhenReady ==
  pc = "setup" => \A d \in task.needs[Current] :
    /\ container[d] # "absent" /\ d \notin gone
    /\ <<Current, d>> \in task.healthy => d \in healed

(* No flow starts, and no run ends well, after a command failed whose      *)
(* errors are not ignored; a detached one may fail after the last look.    *)
FailuresEndTheRun ==
  \A p \in DOMAIN procs : procs[p].state = "bad" /\ ~ procs[p].ignore =>
    /\ pc = "flow" => procs[p].detach
    /\ pc = "over" /\ exc = None => procs[p].detach /\ p \in late

(* A run ends well only if the containers of its services were up at the   *)
(* end of the flows, but for those taken for another by their names.       *)
DeadContainersAreNoticed ==
  pc = "over" /\ exc = None =>
    \A s \in early : \E t \in Lookalikes[s] : t \in (task.services \cup strangers) \ early

(* Unless Docker fails in the cleanup, no container that the runner has    *)
(* started is left when it is done with a file, and no command in one of   *)
(* the scenario's. A command elsewhere of which the runner has not even    *)
(* let go was detached by a flow that failed, or in a run with a process   *)
(* that did not end when asked to.                                         *)
NothingRunsOn ==
  pc = "over" /\ exc # "docker" =>
    /\ \A s \in Services : container[s] \in {"running", "exited"} <=> s \in strangers
    /\ \A p \in DOMAIN procs :
         /\ procs[p].state \in {"runs", "left"} => procs[p].on \notin task.services
         /\ procs[p].state = "runs" => exc = "stubborn" \/ (procs[p].flow = flow /\ exc # None)

(* Waiting, looking and killing come to an end with every file.            *)
EveryFileEnds == pc = "clone" ~> pc = "over"

(* "how many times each scenario should be run": a file is cloned by a     *)
(* runner that has been through another one as by a new one.               *)
LaterFilesAreCloned == exc # "noBranch"

(* The packages in a row are those of its own services. They are not: what *)
(* was collected for one file is there for the next one, see the README.   *)
PackagesAreOwn == row.packages \subseteq task.services

=============================================================================
