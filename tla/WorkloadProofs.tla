--------------------------- MODULE WorkloadProofs ---------------------------
(***************************************************************************)
(* Proofs about Workload, for any scenarios, of any number of services and *)
(* flows, any number of files, and whatever containers, health checks and  *)
(* processes do. The invariant has a part for each thing that must not go  *)
(* wrong: the order of the services (SortOK), where the runner is          *)
(* (PlaceOK), what became of the processes (ProcsOK), the containers that  *)
(* were there before (HostOK), a service's turn (ReadyOK), the images      *)
(* (ImagesOK), the containers that die (EarlyOK), the memory they are given *)
(* (LimitsOK), and the types of all the rest (RestOK).                     *)
(***************************************************************************)
EXTENDS Workload, SequenceTheorems, SumsProofs

(* Where the runner is before a scenario's services are put in order, and  *)
(* where it is when a file is over, in one way or another.                 *)
Unsorted == {"clone", "load", "limits", "names", "build"}
Ending0 == {"post", "clean", "reap", "over"}

(* A ring of services that depend on each other.                           *)
Ring(ring) ==
  ring # {} /\ ring \subseteq task.services
    /\ \A s \in ring : task.needs[s] \cap ring # {}

(* The calls that are open are a way along the dependencies, of services   *)
(* that are not in their place yet; the names that have been visited are   *)
(* on it, or in their place.                                               *)
SortOK ==
  /\ task \in Scenarios
  /\ stack \in Seq(Services) /\ ordered \in Seq(Services)
  /\ pc \in Unsorted => stack = <<>> /\ ordered = <<>>
  /\ pc \notin Ending0 => exc = None
  /\ exc = "cycle" => \E ring : Ring(ring)
  /\ DependenciesFirst
  /\ \A i \in 1 .. Len(stack) - 1 : stack[i + 1] \in task.needs[stack[i]]
  /\ \A i \in 1 .. Len(stack) :
       /\ stack[i] \in task.services /\ stack[i] \notin Elements(ordered)
       /\ \A j \in 1 .. i - 1 : stack[j] # stack[i]
  /\ Elements(ordered) \subseteq task.services
  /\ Elements(stack) \subseteq visited
  /\ visited \subseteq Elements(stack) \cup Elements(ordered)

(* While it is a service's turn it is at the head of the queue; commands   *)
(* and flows are counted from 1, but for the setup, which is flow 0.       *)
Turn == {"wait", "inspect", "health", "decide", "setup"}
PlaceOK ==
  /\ queue \in Seq(Services) /\ flow \in Nat /\ command \in Nat \ {0}
  /\ pc \in Unsorted => queue = <<>>
  /\ \A i \in 1 .. Len(queue) : queue[i] \in task.services
  /\ pc \in Turn => queue # <<>>
  /\ pc \in {"flow", "command"} => flow > 0
  /\ pc = "command" => flow <= Len(task.flows)

(* A process that nobody awaits any more runs only if it was detached. A   *)
(* failed one that was awaited has been noticed before a flow starts, or   *)
(* is of the flow that goes on, or will be looked at; at the end of a file *)
(* that ends well all have been looked at, and what runs has been killed.  *)
States == {"runs", "ok", "bad", "left", "gone"}
Proc == [on : Services \cup {Host}, detach : BOOLEAN, ignore : BOOLEAN,
         state : States, flow : Nat]
Failed(p) == procs[p].state = "bad" /\ ~ procs[p].ignore
BeforeFlows == Unsorted \cup Turn \cup {"order", "service", "containers"}
Everywhere == BeforeFlows \cup {"flow", "command", "codes"} \cup Ending0

ProcsTyped ==
  /\ procs \in Seq(Proc) /\ listed \subseteq DOMAIN procs /\ late \subseteq DOMAIN procs
  /\ pc \in Everywhere
NoticedOK ==
  /\ pc \in BeforeFlows \cup {"flow"} =>
       listed = DOMAIN procs /\ \A p \in DOMAIN procs : Failed(p) => procs[p].detach
  /\ pc = "command" => \A p \in DOMAIN procs :
       /\ p \in listed \/ procs[p].flow = flow
       /\ Failed(p) => procs[p].detach \/ procs[p].flow = flow
  /\ pc = "codes" =>
       /\ listed = DOMAIN procs
       /\ \A p \in DOMAIN procs : Failed(p) =>
            /\ procs[p].detach \/ p \in todo
            /\ after = "end" => p \in todo \cup late
  /\ pc \in Ending0 /\ exc = None =>
       \A p \in DOMAIN procs : Failed(p) => procs[p].detach /\ p \in late
KilledOK ==
  /\ \A p \in DOMAIN procs : procs[p].state = "runs" => procs[p].detach
  /\ pc \in Ending0 /\ exc \notin {"stubborn", "docker"} =>
       \A p \in DOMAIN procs : procs[p].state = "runs" =>
         \/ pc = "post" /\ p \in todo
         \/ exc # None /\ procs[p].flow = flow
ProcsOK == ProcsTyped /\ NoticedOK /\ KilledOK

(* Containers of somebody else run on, and there are no others but while   *)
(* services are set up and used, and after Docker has failed in the        *)
(* cleanup; none of them has the name of a service once names have been    *)
(* checked. A command that goes on has its container.                      *)
Outside == {"clone", "load", "limits", "names", "build", "order", "reap", "over"}
Unnamed == {"clone", "load", "limits", "names"}
Alive(p) == procs[p].state \in {"runs", "left"}
HostOK ==
  /\ strangers \subseteq Services
  /\ container \in [Services -> {"absent", "created", "running", "exited"}]
  /\ \A s \in strangers : container[s] = "running"
  /\ pc \in Outside /\ exc # "docker" =>
       \A s \in Services : container[s] \in {"running", "exited"} => s \in strangers
  /\ pc \notin Unnamed \cup Ending0 => task.services \cap strangers = {}
  /\ exc = "docker" => pc = "over"
  /\ pc \in Unnamed => procs = <<>>
  /\ procs # <<>> => task.services \cap strangers = {}
  /\ \A p \in DOMAIN procs : Alive(p) => procs[p].on = Host \/ container[procs[p].on] = "running"

(* What is not wanted any more was up in this turn, and healthy; what was  *)
(* dead when it began cannot be seen running.                              *)
Met(d) ==
  /\ d \in Services /\ container[d] # "absent" /\ d \notin gone
  /\ <<Current, d>> \in task.healthy => d \in healed
ReadyOK ==
  /\ health \in [Services -> {None, "starting", "healthy", "unhealthy"}]
  /\ \A s \in Services : health[s] = "healthy" => s \in healed
  /\ seen \in [state : {"absent", "created", "running", "exited"}, health : {"starting", "healthy"}]
  /\ pc \in Turn => \A d \in task.needs[Current] : d \in wanted \/ Met(d)
  /\ pc = "setup" => wanted = {}
  /\ pc \in Turn \ {"setup"} => \A d \in gone : container[d] # "running"
  /\ pc \in Turn \ {"setup"} => gone \subseteq Services
  /\ pc \in {"inspect", "health", "decide"} => target \in Services
  /\ pc \in {"health", "decide"} /\ seen.state = "running" =>
       container[target] # "absent" /\ target \notin gone
  /\ pc = "decide" /\ AsksForHealth /\ seen.health = "healthy" => target \in healed

(* The images the runner has tagged are of this file, and of a service     *)
(* that asks for one of that name.                                         *)
Fresh(i, tag) ==
  /\ i.file = files
  /\ \E t \in task.services : i.image = task.image[t] /\ Tag[task.image[t]] = tag
ImagesOK ==
  /\ tags \in [Tags -> [image : Images \cup {None}, file : 0 .. MaxFiles]]
  /\ used \in [Services -> [image : Images \cup {None}, file : 0 .. MaxFiles]]
  /\ pc \in Unsorted => \A s \in Services : used[s] = NoImage
  /\ pc \notin {"clone", "load", "limits", "names"} \cup Ending0 =>
       \A t \in Tags : tags[t] # NoImage => Fresh(tags[t], t)
  /\ pc = "build" => todo \subseteq task.services
  /\ files \in 0 .. MaxFiles /\ ImagesAreFresh

(* Of a service that was dead before it was last looked at there is no     *)
(* container that runs, and it does not come to be in the queue again. It  *)
(* has been taken for one with a longer name: if that has died as well, it *)
(* will be looked at, and be missed or taken for a third one, whose name   *)
(* contains the first one's, too.                                          *)
Vouched(s) == \E t \in Lookalikes[s] : t \in (task.services \cup strangers) \ early
EarlyOK ==
  /\ early \subseteq Services
  /\ pc \in Unsorted \cup {"order"} => early = {}
  /\ \A s \in Services : container[s] = "running" => s \in task.services \cup strangers
  /\ pc \notin Ending0 => \A s \in early : s \in task.services /\ container[s] # "running"
  /\ pc = "containers" /\ after = "end" => \A s \in early :
       \/ s \in todo
       \/ \E t \in Lookalikes[s] : t \in task.services \cup strangers /\ (t \in early => t \in todo)
  /\ (pc = "codes" /\ after = "end") \/ (pc \in Ending0 /\ exc = None) => \A s \in early : Vouched(s)
  /\ pc \in Turn \cup {"service"} => \A i \in 1 .. Len(queue) :
       /\ \A j \in 1 .. i - 1 : queue[i] # queue[j]
       /\ container[queue[i]] = "running" \/ queue[i] \in early => i = 1 /\ pc = "setup"

(* Services are in the queue in the order they have been given.            *)
QueueOK == \A i \in 1 .. Len(queue) : queue[i] \in Elements(ordered)

(* What the services of a file get is laid down before its row is made.    *)
Limits == [s \in Services |-> IF s \in Limited THEN task.memory[s] ELSE Share]
LimitsOK ==
  /\ limit \in [Services -> Nat]
  /\ pc \in {"clone", "load", "limits", "names"} => row.branch = None
  /\ row.branch # None \/ pc = "names" =>
       /\ Left >= 0
       /\ limit = Limits

(* The types of everything else.                                           *)
RestOK ==
  /\ asked \in Asked
  /\ branch \in Branches \cup {None, "detached"} /\ packages \subseteq Services
  /\ strangers \in Strangers
  /\ row \in [branch : Branches \cup {None, "detached"}, packages : SUBSET Services]
  /\ wanted \subseteq Services /\ target \in Services \cup {Unknown}
  /\ waited \in 0 .. MaxWaiting - 1
  /\ todo \subseteq Services \cup Nat
  /\ after \in {"over", "booted", "flown", "end"} /\ exc \in Exceptions
  /\ healed \subseteq Services /\ gone \subseteq Services

-----------------------------------------------------------------------------
(* Scenarios are what they are said to be.                                 *)
LEMMA TaskIsScenario ==
  ASSUME task \in Scenarios
  PROVE  /\ task.services \subseteq Services
         /\ task.needs \in [Services -> SUBSET (Services \cup {Unknown})]
         /\ task.image \in [Services -> Images]
         /\ task.setup \in [Services -> Seq(Command)] /\ task.flows \in Seq(Seq(Command))
BY ScenarioAssumption DEF Scenario

(* What is in order stays in order.                                        *)
LEMMA OrderedStays ==
  ASSUME UNCHANGED <<task, ordered>>
  PROVE  /\ DependenciesFirst => DependenciesFirst'
         /\ \A ring : Ring(ring)' <=> Ring(ring)
         /\ Elements(ordered)' = Elements(ordered)
BY DEF DependenciesFirst, Ring, Elements

(* A step that leaves the order of the services alone.                     *)
LEMMA SortQuiet ==
  ASSUME SortOK, UNCHANGED <<task, visited, stack, ordered>>,
         pc' \in Unsorted => pc \in Unsorted, pc' \notin Ending0 => pc \notin Ending0,
         exc' = exc \/ (pc' \in Ending0 /\ exc' # "cycle")
  PROVE  SortOK'
<1>1. DependenciesFirst' /\ \A ring : Ring(ring)' <=> Ring(ring)
  BY DEF SortOK, DependenciesFirst, Ring
<1>2. Elements(stack)' = Elements(stack) /\ Elements(ordered)' = Elements(ordered)
  BY DEF Elements
<1> QED BY <1>1, <1>2 DEF SortOK

(* Most steps are such steps.                                              *)
LEMMA SortElsewhere ==
  ASSUME SortOK, Setup \/ Check \/ Flows \/ End \/ Environment PROVE SortOK'
<1> USE DEF Fail, Goto, Unsorted, Ending0
<1>1. CASE Setup
  BY <1>1, SortQuiet DEF Setup, Prepare, Refuse, ResetContainer, WaitFor, Inspect, InspectHealth,
       HealthFails, Satisfied, Sleep, GiveUp, Run, RunFails, SetUp, SetUpFails, SettingUp,
       ServiceDone, ServicesDone, Loop, runner, images, sorting, waiting, docker, running,
       control
<1>2. CASE Check
  BY <1>2, SortQuiet DEF Check, ContainerFound, ContainerMissed, ContainersChecked,
       CodeAccepted, CodeRefused, Loop, runner, images, sorting, waiting, docker, running,
       control
<1>3. CASE Flows
  BY <1>3, SortQuiet DEF Flows, CollectPackages, CollectFails, StartFlow, Execute,
       FlowFails, FlowTimesOut, HandOver, FlowChecked, FlowsDone, Finish, Loop, runner, images, sorting,
       waiting, docker, running, control
<1>4. CASE End
  BY <1>4, SortQuiet DEF End, Kill, KillFails, Reap, ReapFails, PostDone,
       RemoveContainer, RemoveImages, CleanupFails, Over,
       runner, images, sorting, waiting, docker, running, control
<1>5. CASE Environment
  BY <1>5, SortQuiet DEF Environment, ProcessEnds, ContainerExits, HealthTurns, runner,
       images, sorting, waiting, docker, running, control
<1> QED BY <1>1, <1>2, <1>3, <1>4, <1>5

(* A file begins with nothing in order.                                    *)
LEMMA SortBegin == ASSUME SortOK, Begin PROVE SortOK'
<1> USE DEF Fail, Goto, Unsorted, Ending0
<1>1. CASE NextFile
  <2>1. task' \in Scenarios
    BY <1>1, ScenarioAssumption DEF NextFile, NoTask
  <2>2. /\ stack' = <<>> /\ ordered' = <<>> /\ visited' = {} /\ exc' = exc /\ exc = None
        /\ pc' = "clone"
    BY <1>1 DEF NextFile, runner
  <2>3. None # "cycle"
    BY DEF None
  <2> QED BY <2>1, <2>2, <2>3 DEF SortOK, DependenciesFirst, Elements
<1>2. CASE Load
  <2>1. /\ task' \in Scenarios /\ stack = <<>> /\ ordered = <<>> /\ exc = None /\ pc' = "limits"
        /\ UNCHANGED <<stack, ordered, visited, exc>>
    BY <1>2 DEF Load, SortOK, sorting
  <2>2. None # "cycle"
    BY DEF None
  <2> QED BY <2>1, <2>2 DEF SortOK, DependenciesFirst, Elements
<1>3. CASE ~ (NextFile \/ Load)
  BY <1>3, SortQuiet DEF Begin, Clone, CloneFails, LoadFails, RelationsFail, SetLimits,
       LimitsExceeded, Initialize, NameTaken, Build, BuildFails, Network, NetworkFails, runner,
       images, sorting, waiting, docker, running, control
<1> QED BY <1>1, <1>2, <1>3

(* The steps of _order_services.                                           *)
LEMMA SortOrder == ASSUME SortOK, Order PROVE SortOK'
<1>0. /\ stack \in Seq(Services) /\ ordered \in Seq(Services) /\ task \in Scenarios
      /\ Len(stack) \in Nat /\ DOMAIN stack = 1 .. Len(stack)
      /\ Len(ordered) \in Nat /\ DOMAIN ordered = 1 .. Len(ordered)
      /\ Elements(stack) \subseteq Services /\ Elements(ordered) \subseteq Services
  BY DEF SortOK, Elements
<1>n. Len(stack) \in Nat
  BY <1>0
<1>1. ASSUME NEW s \in Services, Root(s) PROVE SortOK'
  <2>1. /\ stack = <<>> /\ stack' = <<s>> /\ visited' = {s} /\ ordered' = ordered
        /\ s \in task.services /\ s \notin Elements(ordered)
        /\ UNCHANGED <<task, pc, exc>> /\ pc = "order"
    BY <1>1 DEF Root, runner, images, sorting, waiting, docker, running, control
  <2>2. stack' \in Seq(Services) /\ Len(stack') = 1 /\ stack'[1] = s
    BY <2>1
  <2>3. Elements(ordered)' = Elements(ordered) /\ Elements(stack)' = {s}
    BY <2>1, <2>2 DEF Elements
  <2>4. DependenciesFirst' /\ \A ring : Ring(ring)' <=> Ring(ring)
    BY <2>1, OrderedStays DEF SortOK
  <2> QED BY <2>1, <2>2, <2>3, <2>4 DEF SortOK, Unsorted
<1>2. ASSUME NEW d \in Services, Descend(d) PROVE SortOK'
  <2>1. /\ stack # <<>> /\ stack' = Append(stack, d) /\ visited' = visited \cup {d}
        /\ d \in task.needs[stack[Len(stack)]] /\ d \notin Elements(ordered)
        /\ d \notin visited /\ d \in task.services
        /\ UNCHANGED <<task, pc, exc, ordered>> /\ pc = "order"
    BY <1>2 DEF Descend, Open, Top, runner, images, sorting, waiting, docker, running, control
  <2>2. /\ stack' \in Seq(Services) /\ Len(stack') = Len(stack) + 1
        /\ stack'[Len(stack) + 1] = d /\ Len(stack) > 0
        /\ \A i \in 1 .. Len(stack) : stack'[i] = stack[i]
    BY <1>0, <2>1
  <2>3. Elements(ordered)' = Elements(ordered) /\ Elements(stack)' = Elements(stack) \cup {d}
    BY <1>0, <2>1, <2>2 DEF Elements
  <2>4. DependenciesFirst' /\ \A ring : Ring(ring)' <=> Ring(ring)
    BY <2>1, OrderedStays DEF SortOK
  <2>5. \A i \in 1 .. Len(stack') - 1 : stack'[i + 1] \in task.needs[stack'[i]]
    BY <1>0, <2>1, <2>2 DEF SortOK
  <2>6. d \notin Elements(stack)
    <3> SUFFICES ASSUME d \in Elements(stack) PROVE FALSE
      OBVIOUS
    <3> QED BY <2>1 DEF SortOK
  <2>7. \A i \in 1 .. Len(stack') :
          /\ stack'[i] \in task.services /\ stack'[i] \notin Elements(ordered)
          /\ \A j \in 1 .. i - 1 : stack'[j] # stack'[i]
    <3> TAKE i \in 1 .. Len(stack')
    <3>1. CASE i \in 1 .. Len(stack)
      <4>1. \A j \in 1 .. i - 1 : j \in 1 .. Len(stack)
        BY <1>0, <3>1
      <4> QED BY <2>2, <3>1, <4>1 DEF SortOK
    <3>2. CASE i = Len(stack) + 1
      BY <1>0, <2>1, <2>2, <2>6, <3>2 DEF Elements
    <3> QED BY <1>0, <2>2, <3>1, <3>2
  <2> QED BY <2>1, <2>2, <2>3, <2>4, <2>5, <2>7 DEF SortOK, Unsorted
<1>3. ASSUME NEW d \in Services \cup {Unknown}, OrderFails(d) PROVE SortOK'
  <2>1. /\ stack # <<>> /\ d \in task.needs[stack[Len(stack)]] /\ d \notin Elements(ordered)
        /\ exc' = IF d \in visited THEN "cycle" ELSE "unknownService"
        /\ pc' = "post" /\ UNCHANGED <<task, visited, stack, ordered>>
    BY <1>3 DEF OrderFails, Open, Top, Fail, Goto, runner, sorting
  <2>2. CASE d \notin visited
    BY <2>1, <2>2, SortQuiet DEF Unsorted, Ending0
  <2>3. CASE d \in visited
    <3>1. PICK k \in 1 .. Len(stack) : stack[k] = d
      BY <2>1, <2>3 DEF SortOK, Elements
    <3> DEFINE ring == {stack[i] : i \in k .. Len(stack)}
    <3>2. ring # {} /\ ring \subseteq task.services
      BY <1>0, <3>1 DEF SortOK
    <3>3. ASSUME NEW i \in k .. Len(stack) PROVE task.needs[stack[i]] \cap ring # {}
      <4>1. CASE i = Len(stack)
        BY <1>0, <2>1, <3>1, <4>1
      <4>2. CASE i # Len(stack)
        <5>1. i \in 1 .. Len(stack) - 1 /\ i + 1 \in k .. Len(stack)
          <6> HIDE DEF ring
          <6> QED BY <1>n, <3>3, <4>2
        <5>2. stack[i + 1] \in task.needs[stack[i]] /\ stack[i + 1] \in ring
          BY <5>1 DEF SortOK
        <5> QED BY <5>2
      <4> QED BY <4>1, <4>2
    <3>4. Ring(ring)
      BY <3>2, <3>3 DEF Ring
    <3>5. \E r : Ring(r)'
      <4> HIDE DEF ring
      <4> QED BY <2>1, <3>4, OrderedStays
    <3>6. DependenciesFirst' /\ Elements(stack)' = Elements(stack)
      BY <2>1, OrderedStays DEF SortOK, Elements
    <3> QED BY <2>1, <3>5, <3>6, OrderedStays DEF SortOK, Unsorted, Ending0
  <2> QED BY <2>2, <2>3
<1>4. ASSUME Return PROVE SortOK'
  <2> DEFINE top == stack[Len(stack)]
  <2>1. /\ stack # <<>> /\ task.needs[top] \ Elements(ordered) = {}
        /\ ordered' = Append(ordered, top) /\ stack' = SubSeq(stack, 1, Len(stack) - 1)
        /\ UNCHANGED <<task, visited, pc, exc>> /\ pc = "order"
    BY <1>4 DEF Return, Open, Top, runner, images, sorting, waiting, docker, running, control
  <2>2. /\ Len(stack) > 0 /\ top \in Services /\ top \in task.services
        /\ top \notin Elements(ordered)
    BY <1>0, <2>1 DEF SortOK
  <2>3. /\ ordered' \in Seq(Services) /\ Len(ordered') = Len(ordered) + 1
        /\ ordered'[Len(ordered) + 1] = top
        /\ \A i \in 1 .. Len(ordered) : ordered'[i] = ordered[i]
    BY <1>0, <2>1, <2>2
  <2>4. /\ stack' \in Seq(Services) /\ Len(stack') = Len(stack) - 1
        /\ \A i \in 1 .. Len(stack) - 1 : stack'[i] = stack[i]
    BY <1>0, <2>1, <2>2, SubSeqProperties
  <2>5. Elements(ordered)' = Elements(ordered) \cup {top}
    BY <1>0, <2>3 DEF Elements
  <2>6. Elements(stack)' \subseteq Elements(stack) /\ Elements(stack) \subseteq Elements(stack)' \cup {top}
    <3>1. ASSUME NEW i \in 1 .. Len(stack) PROVE i \in 1 .. Len(stack) - 1 \/ i = Len(stack)
      <4> HIDE DEF top
      <4> QED BY <1>n
    <3> QED BY <1>0, <2>4, <3>1 DEF Elements
  <2>7. DependenciesFirst'
    <3> SUFFICES ASSUME NEW i \in 1 .. Len(ordered')
                 PROVE  /\ task.needs[ordered'[i]] \subseteq {ordered'[j] : j \in 1 .. i - 1}
                        /\ \A j \in 1 .. i - 1 : ordered'[j] # ordered'[i]
      BY <2>1 DEF DependenciesFirst
    <3>1. CASE i \in 1 .. Len(ordered)
      <4>1. \A j \in 1 .. i - 1 : ordered'[j] = ordered[j]
        BY <1>0, <2>3, <3>1
      <4>2. {ordered'[j] : j \in 1 .. i - 1} = {ordered[j] : j \in 1 .. i - 1}
        BY <4>1
      <4> QED BY <2>3, <3>1, <4>1, <4>2 DEF SortOK, DependenciesFirst
    <3>2. CASE i = Len(ordered) + 1
      <4>1. i - 1 = Len(ordered) /\ ordered'[i] = top
        BY <1>0, <2>3, <3>2
      <4>2. {ordered'[j] : j \in 1 .. i - 1} = Elements(ordered)
        BY <2>3, <4>1 DEF Elements
      <4>3. \A j \in 1 .. i - 1 : ordered'[j] \in Elements(ordered)
        BY <4>2
      <4> QED BY <2>1, <2>2, <4>1, <4>2, <4>3
    <3> QED BY <1>0, <2>3, <3>1, <3>2
  <2>8. \A i \in 1 .. Len(stack') - 1 : stack'[i + 1] \in task.needs[stack'[i]]
    <3> TAKE i \in 1 .. Len(stack') - 1
    <3>1. i \in 1 .. Len(stack) - 1 /\ i + 1 \in 1 .. Len(stack) - 1
      BY <1>0, <2>2, <2>4
    <3> QED BY <2>4, <3>1 DEF SortOK
  <2>9. \A i \in 1 .. Len(stack') :
          /\ stack'[i] \in task.services /\ stack'[i] \notin Elements(ordered) \cup {top}
          /\ \A j \in 1 .. i - 1 : stack'[j] # stack'[i]
    <3> TAKE i \in 1 .. Len(stack')
    <3>1. /\ i \in 1 .. Len(stack) - 1 /\ i \in 1 .. Len(stack) /\ i \in 1 .. Len(stack) - 1
          /\ \A j \in 1 .. i - 1 : j \in 1 .. Len(stack) - 1
      BY <1>0, <2>2, <2>4
    <3>2. Len(stack) \in 1 .. Len(stack)
      BY <1>0, <2>2
    <3>3. stack[i] # top
      BY <3>1, <3>2 DEF SortOK
    <3> QED BY <2>4, <3>1, <3>3 DEF SortOK
  <2>10. visited \subseteq Elements(stack)' \cup Elements(ordered)' /\ Elements(stack)' \subseteq visited
    BY <2>5, <2>6 DEF SortOK
  <2>11. \A ring : Ring(ring)' <=> Ring(ring)
    BY <2>1 DEF Ring
  <2> HIDE DEF top
  <2> QED
    BY <2>1, <2>2, <2>3, <2>4, <2>5, <2>7, <2>8, <2>9, <2>10, <2>11 DEF SortOK, Unsorted,
         Ending0
<1>5. ASSUME Ordered PROVE SortOK'
  BY <1>5, SortQuiet DEF Ordered, Goto, runner, images, sorting, waiting, docker, running,
       control, Unsorted, Ending0
<1> QED BY <1>1, <1>2, <1>3, <1>4, <1>5 DEF Order

(* All steps keep the order.                                               *)
LEMMA SortStays == ASSUME SortOK, [Next]_vars PROVE SortOK'
<1>1. CASE Done \/ UNCHANGED vars
  BY <1>1, SortQuiet DEF Done, vars, runner, sorting, control
<1> QED BY <1>1, SortBegin, SortOrder, SortElsewhere DEF Next, Step

-----------------------------------------------------------------------------
(* A step that leaves the runner where it is.                              *)
LEMMA PlaceQuiet ==
  ASSUME PlaceOK, UNCHANGED <<task, queue, flow, command>>,
         pc' \in Unsorted => pc \in Unsorted, pc' \in Turn => pc \in Turn,
         pc' \in {"flow", "command"} => pc' = pc
  PROVE  PlaceOK'
BY DEF PlaceOK

(* Where the runner is, through a file.                                    *)
LEMMA PlaceStays ==
  ASSUME SortOK, PlaceOK, [Next]_vars PROVE PlaceOK'
<1> USE DEF Fail, Goto, Unsorted, Turn
<1>1. CASE NextFile
  BY <1>1 DEF NextFile, PlaceOK
<1>2. CASE Load
  BY <1>2 DEF Load, PlaceOK, runner, images, sorting, waiting, docker, running, control
<1>3. CASE Begin /\ ~ NextFile /\ ~ Load
  BY <1>3, PlaceQuiet DEF Begin, Clone, CloneFails, LoadFails, RelationsFail, SetLimits,
       LimitsExceeded, Initialize, NameTaken, Build, BuildFails, Network, NetworkFails, runner,
       images, sorting, waiting, docker, running, control
<1>4. CASE Order
  <2>1. CASE Ordered
    <3>1. /\ queue' = ordered /\ pc' = "service" /\ UNCHANGED <<task, flow, command>>
          /\ ordered \in Seq(Services) /\ Elements(ordered) \subseteq task.services
      BY <2>1 DEF Ordered, SortOK, runner
    <3> QED BY <3>1 DEF PlaceOK, Elements
  <2>2. CASE ~ Ordered
    BY <1>4, <2>2, PlaceQuiet DEF Order, Root, Descend, OrderFails, Return, Ordered, runner,
         images, sorting, waiting, docker, running, control
  <2> QED BY <2>1, <2>2
<1>5. CASE Prepare \/ Run \/ SetUp
  BY <1>5 DEF Prepare, ResetContainer, Run, SetUp, SettingUp, PlaceOK, runner, images, sorting, waiting,
       docker, running, control
<1>6. CASE ServiceDone
  <2>1. /\ queue' = Tail(queue) /\ queue # <<>> /\ queue \in Seq(Services)
        /\ pc' = "service" /\ UNCHANGED <<task, flow, command>>
    BY <1>6 DEF ServiceDone, PlaceOK, runner
  <2>2. /\ queue' \in Seq(Services) /\ Len(queue') = Len(queue) - 1
        /\ \A i \in 1 .. Len(queue') : queue'[i] = queue[i + 1] /\ i + 1 \in 1 .. Len(queue)
    BY <2>1
  <2> QED BY <2>1, <2>2 DEF PlaceOK
<1>7. CASE Setup /\ ~ (Prepare \/ Run \/ SetUp \/ ServiceDone)
  BY <1>7, PlaceQuiet DEF Setup, Prepare, Refuse, ResetContainer, WaitFor, Inspect, InspectHealth,
       HealthFails, Satisfied, Sleep, GiveUp, Run, RunFails, SetUp, SetUpFails, SettingUp,
       ServiceDone, ServicesDone, Loop, runner, images, sorting, waiting, docker, running,
       control
<1>8. CASE Check
  BY <1>8, PlaceQuiet DEF Check, ContainerFound, ContainerMissed, ContainersChecked,
       CodeAccepted, CodeRefused, Loop, runner, images, sorting, waiting, docker, running,
       control
<1>9. CASE CollectPackages \/ StartFlow \/ FlowChecked \/ Execute
  BY <1>9 DEF CollectPackages, StartFlow, FlowChecked, Execute, PlaceOK, runner, images,
       sorting, waiting, docker, running, control
<1>10. CASE Flows /\ ~ (CollectPackages \/ StartFlow \/ FlowChecked \/ Execute)
  BY <1>10, PlaceQuiet DEF Flows, CollectPackages, CollectFails, StartFlow, Execute,
       FlowFails, FlowTimesOut, HandOver, FlowChecked, FlowsDone, Finish, Loop, runner, images, sorting,
       waiting, docker, running, control
<1>11. CASE End
  BY <1>11, PlaceQuiet DEF End, Kill, KillFails, Reap, ReapFails, PostDone,
       RemoveContainer, RemoveImages, CleanupFails, Over,
       runner, images, sorting, waiting, docker, running, control
<1>12. CASE Environment
  BY <1>12, PlaceQuiet DEF Environment, ProcessEnds, ContainerExits, HealthTurns, runner,
       images, sorting, waiting, docker, running, control
<1>13. CASE Done \/ UNCHANGED vars
  BY <1>13, PlaceQuiet DEF Done, vars, runner, images, sorting, waiting, docker, running,
       control
<1> QED
  BY <1>1, <1>2, <1>3, <1>4, <1>5, <1>6, <1>7, <1>8, <1>9, <1>10, <1>11, <1>12, <1>13
     DEF Next, Step

-----------------------------------------------------------------------------
(* Steps that leave the processes alone, and go on as the runner goes on   *)
(* from a place where all is noticed to another one.                       *)
LEMMA ProcsQuiet ==
  ASSUME ProcsOK, UNCHANGED <<procs, listed, late, flow>>, exc' = exc, pc' \in Everywhere,
         \/ UNCHANGED <<pc, after, todo>>
         \/ pc \in BeforeFlows \cup {"flow"} /\ pc' \in BeforeFlows \cup {"flow", "command"}
         \/ pc \in Ending0 /\ pc' \in Ending0 /\ pc' # "post" /\ (pc = "post" => todo = {})
  PROVE  ProcsOK'
<1> USE DEF BeforeFlows, Unsorted, Turn, Ending0
<1>1. ProcsTyped' /\ \A p : Failed(p)' <=> Failed(p)
  BY DEF ProcsOK, ProcsTyped, Failed
<1>2. NoticedOK'
  BY <1>1 DEF ProcsOK, NoticedOK
<1>3. KilledOK'
  BY DEF ProcsOK, KilledOK
<1> QED BY <1>1, <1>2, <1>3 DEF ProcsOK

(* A file that fails goes on to kill what is listed.                       *)
LEMMA ProcsFail ==
  ASSUME ProcsOK, UNCHANGED <<procs, listed, late>>, NEW reason, reason # None,
         Fail(reason), pc \notin Ending0
  PROVE  ProcsOK'
<1>1. /\ exc' = reason /\ pc' = "post" /\ todo' = {p \in listed : procs[p].detach}
      /\ UNCHANGED <<flow, after>>
  BY DEF Fail
<1>2. ProcsTyped'
  BY <1>1 DEF ProcsOK, ProcsTyped, Everywhere, Ending0
<1>3. NoticedOK'
  BY <1>1 DEF NoticedOK, BeforeFlows, Unsorted, Turn
<1>4. ASSUME NEW p \in DOMAIN procs, procs[p].state = "runs"
      PROVE  p \in todo' \/ procs[p].flow = flow
  BY <1>1, <1>4 DEF ProcsOK, ProcsTyped, NoticedOK, KilledOK, Everywhere, Ending0
<1>5. KilledOK'
  BY <1>1, <1>4 DEF ProcsOK, KilledOK
<1> QED BY <1>2, <1>3, <1>5 DEF ProcsOK

(* A command is started as it is written, by the flow that goes on.        *)
LEMMA ProcsStart ==
  ASSUME procs \in Seq(Proc), flow \in Nat, NEW c \in Command, NEW state \in States,
         procs' = Started(c, state)
  PROVE  /\ procs' \in Seq(Proc) /\ DOMAIN procs' = DOMAIN procs \cup {Len(procs) + 1}
         /\ \A p \in DOMAIN procs : procs'[p] = procs[p]
         /\ procs'[Len(procs) + 1].detach = c.detach
         /\ procs'[Len(procs) + 1].state = state /\ procs'[Len(procs) + 1].flow = flow
<1> DEFINE new == [on |-> c.on, detach |-> c.detach, ignore |-> c.ignore, state |-> state,
                   flow |-> flow]
<1>1. new \in Proc
  BY DEF Proc, Command
<1>2. procs' = Append(procs, new)
  BY DEF Started
<1>3. new.detach = c.detach /\ new.state = state /\ new.flow = flow
  OBVIOUS
<1> HIDE DEF new
<1>4. /\ procs' \in Seq(Proc) /\ Len(procs') = Len(procs) + 1
      /\ \A p \in 1 .. Len(procs) : procs'[p] = procs[p]
      /\ procs'[Len(procs) + 1] = new
  BY <1>1, <1>2
<1>5. DOMAIN procs = 1 .. Len(procs) /\ DOMAIN procs' = 1 .. Len(procs) + 1 /\ Len(procs) \in Nat
  BY <1>4
<1> QED BY <1>3, <1>4, <1>5

(* The state of processes changes, and nothing else of them.               *)
LEMMA StatesChange ==
  ASSUME procs \in Seq(Proc), procs' = [p \in DOMAIN procs |-> procs'[p]],
         \A p \in DOMAIN procs : \E v \in States : procs'[p] = [procs[p] EXCEPT !.state = v]
  PROVE  /\ procs' \in Seq(Proc) /\ DOMAIN procs' = DOMAIN procs
         /\ \A p \in DOMAIN procs :
              /\ procs'[p].detach = procs[p].detach /\ procs'[p].ignore = procs[p].ignore
              /\ procs'[p].flow = procs[p].flow /\ procs'[p].on = procs[p].on
<1>1. ASSUME NEW p \in DOMAIN procs
      PROVE  /\ procs'[p] \in Proc
             /\ procs'[p].detach = procs[p].detach /\ procs'[p].ignore = procs[p].ignore
             /\ procs'[p].flow = procs[p].flow /\ procs'[p].on = procs[p].on
  <2>1. procs[p] \in Proc
    OBVIOUS
  <2>2. PICK v \in States : procs'[p] = [procs[p] EXCEPT !.state = v]
    OBVIOUS
  <2> QED BY <2>1, <2>2 DEF Proc
<1>2. DOMAIN procs' = 1 .. Len(procs) /\ DOMAIN procs = 1 .. Len(procs) /\ Len(procs) \in Nat
  OBVIOUS
<1>3. procs' \in Seq(Proc)
  BY <1>1, <1>2
<1> QED BY <1>1, <1>2, <1>3

(* The steps up to the services: none starts a process.                    *)
LEMMA ProcsBegin == ASSUME ProcsOK, Begin \/ Order PROVE ProcsOK'
<1> USE DEF Fail, Goto, Unsorted, Turn, BeforeFlows, Everywhere, Ending0
<1>1. CASE NextFile
  <2>1. procs' = <<>> /\ listed' = {} /\ late' = {} /\ pc' = "clone"
    BY <1>1 DEF NextFile
  <2>2. procs' \in Seq(Proc) /\ DOMAIN procs' = {}
    BY <2>1
  <2> QED BY <2>1, <2>2 DEF ProcsOK, ProcsTyped, NoticedOK, KilledOK
<1>2. CASE CloneFails \/ LoadFails \/ RelationsFail \/ LimitsExceeded \/ NameTaken
             \/ NetworkFails \/ (\E s \in Services : BuildFails(s))
  BY <1>2, ProcsFail DEF CloneFails, LoadFails, RelationsFail, LimitsExceeded, NameTaken,
     NetworkFails, BuildFails, running, None
<1>3. CASE Clone \/ Load \/ SetLimits \/ Initialize \/ Network \/ (\E s \in Services : Build(s))
  BY <1>3, ProcsQuiet DEF Clone, Load, SetLimits, Initialize, Network, Build, running
<1>4. CASE \E d \in Services \cup {Unknown} : OrderFails(d)
  BY <1>4, ProcsFail DEF OrderFails, running, None
<1>5. CASE (\E s \in Services : Root(s) \/ Descend(s)) \/ Return \/ Ordered
  BY <1>5, ProcsQuiet DEF Root, Descend, Return, Ordered, running, control
<1> QED BY <1>1, <1>2, <1>3, <1>4, <1>5 DEF Begin, Order

(* In the setup an awaited command that fails ends the file.               *)
LEMMA ProcsSetup == ASSUME SortOK, PlaceOK, ProcsOK, Setup PROVE ProcsOK'
<1> USE DEF Fail, Goto, Unsorted, Turn, BeforeFlows, Everywhere, Ending0
<1>1. CASE Refuse \/ HealthFails \/ GiveUp \/ RunFails \/ SetUpFails
  BY <1>1, ProcsFail DEF Refuse, ResetContainer, HealthFails, GiveUp, RunFails, SetUpFails, SettingUp,
     running, None
<1>2. CASE \/ Prepare \/ (\E d \in Services : WaitFor(d)) \/ Inspect \/ InspectHealth
           \/ Satisfied \/ Sleep \/ Run \/ ServiceDone \/ ServicesDone
  BY <1>2, ProcsQuiet DEF Prepare, ResetContainer, WaitFor, Inspect, InspectHealth, Satisfied, Sleep, Run,
     ServiceDone, ServicesDone, Loop, running
<1>3. CASE SetUp
  <2>1. Current \in Services
    BY <1>3 DEF SetUp, SettingUp, PlaceOK, Current
  <2>2. SetupCommand \in Command
    <3>1. task.setup[Current] \in Seq(Command)
      BY <2>1, TaskIsScenario DEF SortOK
    <3> QED BY <1>3, <3>1 DEF SetUp, SettingUp, SetupCommand, PlaceOK
  <2>3. PICK state \in IF SetupCommand.detach THEN {Launched(SetupCommand.on)}
                       ELSE Outcomes(SetupCommand.on) \ {"bad"} :
          procs' = Started(SetupCommand, state)
    BY <1>3 DEF SetUp
  <2>4. state \in States /\ (state \in {"runs", "bad"} => SetupCommand.detach)
    BY <2>3 DEF Launched, Outcomes, States
  <2>5. /\ procs \in Seq(Proc) /\ flow \in Nat /\ listed' = listed \cup {Len(procs) + 1}
        /\ UNCHANGED <<late, pc, exc>> /\ pc = "setup"
    BY <1>3 DEF SetUp, SettingUp, PlaceOK, ProcsOK, ProcsTyped
  <2>6. /\ procs' \in Seq(Proc) /\ DOMAIN procs' = DOMAIN procs \cup {Len(procs) + 1}
        /\ \A p \in DOMAIN procs : procs'[p] = procs[p]
        /\ procs'[Len(procs) + 1].detach = SetupCommand.detach
        /\ procs'[Len(procs) + 1].state = state
    BY <2>2, <2>3, <2>4, <2>5, ProcsStart
  <2>7. ProcsTyped'
    BY <2>5, <2>6 DEF ProcsOK, ProcsTyped
  <2>8. NoticedOK'
    BY <2>4, <2>5, <2>6 DEF ProcsOK, NoticedOK, Failed
  <2>9. KilledOK'
    BY <2>4, <2>5, <2>6 DEF ProcsOK, KilledOK
  <2> QED BY <2>7, <2>8, <2>9 DEF ProcsOK
<1> QED BY <1>1, <1>2, <1>3 DEF Setup

(* Looking at containers and exit codes.                                   *)
LEMMA ProcsCheck == ASSUME SortOK, ProcsOK, Check PROVE ProcsOK'
<1> USE DEF Fail, Goto, Unsorted, Turn, BeforeFlows, Everywhere, Ending0
<1>1. CASE (\E s \in Services : ContainerMissed(s)) \/ (\E p \in DOMAIN procs : CodeRefused(p))
  BY <1>1, ProcsFail DEF ContainerMissed, CodeRefused, running, None
<1>2. CASE \E s \in Services : ContainerFound(s)
  BY <1>2, ProcsQuiet DEF ContainerFound, running
<1>3. CASE ContainersChecked
  <2>1. /\ pc = "containers" /\ pc' = "codes" /\ todo' = {p \in listed : ~ procs[p].ignore}
        /\ UNCHANGED <<procs, listed, late, flow, after, exc>>
    BY <1>3 DEF ContainersChecked, Loop, Watched, running
  <2>2. ProcsTyped' /\ \A p : Failed(p)' <=> Failed(p)
    BY <2>1 DEF ProcsOK, ProcsTyped, Failed
  <2>3. NoticedOK'
    BY <2>1, <2>2 DEF ProcsOK, NoticedOK, Failed
  <2>4. KilledOK'
    BY <2>1 DEF ProcsOK, KilledOK
  <2> QED BY <2>2, <2>3, <2>4 DEF ProcsOK
<1>4. ASSUME NEW p \in DOMAIN procs, CodeAccepted(p) PROVE ProcsOK'
  <2>1. /\ pc = "codes" /\ pc' = pc /\ todo' = todo \ {p} /\ procs[p].state # "bad"
        /\ UNCHANGED <<procs, listed, late, flow, after, exc>>
    BY <1>4 DEF CodeAccepted, running
  <2>2. ProcsTyped' /\ \A q : Failed(q)' <=> Failed(q)
    BY <2>1 DEF ProcsOK, ProcsTyped, Failed
  <2>3. NoticedOK'
    BY <2>1, <2>2 DEF ProcsOK, NoticedOK, Failed
  <2>4. KilledOK'
    BY <2>1 DEF ProcsOK, KilledOK
  <2> QED BY <2>2, <2>3, <2>4 DEF ProcsOK
<1> QED BY <1>1, <1>2, <1>3, <1>4 DEF Check

(* What flows start is handed over and looked at before the next one.      *)
LEMMA ProcsFlows == ASSUME SortOK, PlaceOK, ProcsOK, Flows PROVE ProcsOK'
<1> USE DEF Fail, Goto, Unsorted, Turn, BeforeFlows, Everywhere, Ending0
<1>1. CASE CollectFails \/ FlowFails
  BY <1>1, ProcsFail DEF CollectFails, FlowFails, running, None
<1>2. CASE StartFlow \/ FlowsDone
  BY <1>2, ProcsQuiet DEF StartFlow, FlowsDone, Loop, running
<1>3. CASE CollectPackages \/ FlowChecked
  <2>1. /\ pc = "codes" /\ pc' = "flow" /\ todo = {}
        /\ UNCHANGED <<procs, listed, late, exc>>
    BY <1>3 DEF CollectPackages, FlowChecked, running
  <2>2. ProcsTyped' /\ \A p : Failed(p)' <=> Failed(p)
    BY <2>1 DEF ProcsOK, ProcsTyped, Failed
  <2>3. NoticedOK'
    BY <2>1, <2>2 DEF ProcsOK, NoticedOK
  <2>4. KilledOK'
    BY <2>1 DEF ProcsOK, KilledOK
  <2> QED BY <2>2, <2>3, <2>4 DEF ProcsOK
<1>4. CASE Execute
  <2>1. FlowCommand \in Command
    <3>1. task.flows \in Seq(Seq(Command))
      BY TaskIsScenario DEF SortOK
    <3>2. flow \in 1 .. Len(task.flows)
      BY <1>4 DEF Execute, PlaceOK
    <3>3. task.flows[flow] \in Seq(Command)
      BY <3>1, <3>2
    <3> QED BY <1>4, <3>3 DEF Execute, FlowCommand, PlaceOK
  <2>2. PICK state \in IF FlowCommand.detach THEN {Launched(FlowCommand.on)}
                       ELSE Outcomes(FlowCommand.on) :
          procs' = Started(FlowCommand, state)
    BY <1>4 DEF Execute
  <2>3. state \in States /\ (state = "runs" => FlowCommand.detach)
    BY <2>2 DEF Launched, Outcomes, States
  <2>4. /\ procs \in Seq(Proc) /\ flow \in Nat
        /\ UNCHANGED <<listed, late, pc, exc, flow>> /\ pc = "command"
    BY <1>4 DEF Execute, PlaceOK, ProcsOK, ProcsTyped
  <2>5. /\ procs' \in Seq(Proc) /\ DOMAIN procs' = DOMAIN procs \cup {Len(procs) + 1}
        /\ \A p \in DOMAIN procs : procs'[p] = procs[p]
        /\ procs'[Len(procs) + 1].detach = FlowCommand.detach
        /\ procs'[Len(procs) + 1].state = state /\ procs'[Len(procs) + 1].flow = flow
    BY <2>1, <2>2, <2>3, <2>4, ProcsStart
  <2>6. ProcsTyped'
    BY <2>4, <2>5 DEF ProcsOK, ProcsTyped
  <2>7. NoticedOK'
    BY <2>4, <2>5 DEF ProcsOK, NoticedOK, Failed
  <2>8. KilledOK'
    BY <2>3, <2>4, <2>5 DEF ProcsOK, KilledOK
  <2> QED BY <2>6, <2>7, <2>8 DEF ProcsOK
<1>5. CASE HandOver
  <2>1. /\ pc = "command" /\ pc' = "codes" /\ after' = "flown"
        /\ listed' = listed \cup {p \in DOMAIN procs : procs[p].flow = flow}
        /\ todo' = {p \in listed' : ~ procs[p].ignore}
        /\ UNCHANGED <<procs, late, flow, exc>>
    BY <1>5 DEF HandOver
  <2>2. ProcsTyped' /\ \A p : Failed(p)' <=> Failed(p)
    BY <2>1 DEF ProcsOK, ProcsTyped, Failed
  <2>3. listed' = DOMAIN procs
    BY <2>1 DEF ProcsOK, NoticedOK, ProcsTyped
  <2>4. NoticedOK'
    BY <2>1, <2>2, <2>3 DEF NoticedOK, Failed
  <2>5. KilledOK'
    BY <2>1 DEF ProcsOK, KilledOK
  <2> QED BY <2>2, <2>4, <2>5 DEF ProcsOK
<1>6. CASE Finish
  <2>1. /\ pc = "codes" /\ pc' = "post" /\ todo = {} /\ after = "end"
        /\ todo' = {p \in listed : procs[p].detach}
        /\ UNCHANGED <<procs, listed, late, flow, exc>> /\ exc = None
    BY <1>6 DEF Finish, running, SortOK
  <2>2. ProcsTyped' /\ \A p : Failed(p)' <=> Failed(p)
    BY <2>1 DEF ProcsOK, ProcsTyped, Failed
  <2>3. NoticedOK'
    BY <2>1, <2>2 DEF ProcsOK, NoticedOK
  <2>4. KilledOK'
    BY <2>1 DEF ProcsOK, KilledOK, NoticedOK
  <2> QED BY <2>2, <2>3, <2>4 DEF ProcsOK
<1>7. CASE FlowTimesOut
  <2>1. FlowCommand \in Command
    <3>1. task.flows \in Seq(Seq(Command))
      BY TaskIsScenario DEF SortOK
    <3>2. flow \in 1 .. Len(task.flows)
      BY <1>7 DEF FlowTimesOut, PlaceOK
    <3>3. task.flows[flow] \in Seq(Command)
      BY <3>1, <3>2
    <3> QED BY <1>7, <3>3 DEF FlowTimesOut, FlowCommand, PlaceOK
  <2>2. /\ procs \in Seq(Proc) /\ flow \in Nat /\ "left" \in States
        /\ procs' = Started(FlowCommand, "left")
        /\ UNCHANGED <<listed, late, flow>> /\ pc = "command" /\ pc' = "post"
        /\ exc' = "flow" /\ todo' = {p \in listed : procs[p].detach}
    BY <1>7 DEF FlowTimesOut, PlaceOK, ProcsOK, ProcsTyped, States
  <2>3. /\ procs' \in Seq(Proc) /\ DOMAIN procs' = DOMAIN procs \cup {Len(procs) + 1}
        /\ \A p \in DOMAIN procs : procs'[p] = procs[p]
        /\ procs'[Len(procs) + 1].state = "left"
    BY <2>1, <2>2, ProcsStart
  <2>4. ProcsTyped'
    BY <2>2, <2>3 DEF ProcsOK, ProcsTyped
  <2>5. NoticedOK'
    BY <2>2 DEF NoticedOK, None
  <2>6. ASSUME NEW p \in DOMAIN procs', procs'[p].state = "runs"
        PROVE  p \in DOMAIN procs /\ procs[p].state = "runs" /\ procs'[p] = procs[p]
    BY <2>3, <2>6
  <2>7. ASSUME NEW p \in DOMAIN procs, procs[p].state = "runs"
        PROVE  procs[p].detach /\ (p \in todo' \/ procs[p].flow = flow)
    BY <2>2, <2>7 DEF ProcsOK, ProcsTyped, NoticedOK, KilledOK
  <2>8. KilledOK'
    BY <2>2, <2>6, <2>7 DEF KilledOK, None
  <2> QED BY <2>4, <2>5, <2>8 DEF ProcsOK
<1> QED BY <1>1, <1>2, <1>3, <1>4, <1>5, <1>6, <1>7 DEF Flows

(* Processes end, whenever they like. One that fails after it was looked   *)
(* at for the last time is late.                                           *)
LEMMA ProcsChange ==
  ASSUME ProcsOK, UNCHANGED <<listed, control>>,
         procs' = [p \in DOMAIN procs |-> procs'[p]],
         \A p \in DOMAIN procs : \E v \in States : procs'[p] = [procs[p] EXCEPT !.state = v],
         \A p \in DOMAIN procs : procs'[p].state = "runs" => procs[p].state = "runs",
         \A p \in DOMAIN procs : procs'[p].state = "bad" =>
           \/ procs[p].state = "bad"
           \/ procs[p].state = "runs" /\ (LookAhead(p) \/ p \in late'),
         late \subseteq late', late' \subseteq DOMAIN procs
  PROVE  ProcsOK'
<1>0. UNCHANGED <<listed, flow, pc, exc, todo, after>>
  BY DEF control
<1>1. /\ procs' \in Seq(Proc) /\ DOMAIN procs' = DOMAIN procs
      /\ \A p \in DOMAIN procs :
           /\ procs'[p].detach = procs[p].detach /\ procs'[p].ignore = procs[p].ignore
           /\ procs'[p].flow = procs[p].flow
  BY StatesChange DEF ProcsOK, ProcsTyped
<1>2. \A p \in DOMAIN procs : procs'[p].state = "bad" =>
        \/ procs[p].state = "bad"
        \/ /\ procs[p].detach
           /\ pc \in Ending0 => p \in late'
           /\ pc = "codes" /\ after = "end" => p \in late' \cup todo
  BY DEF ProcsOK, KilledOK, LookAhead, Ending, Ending0
<1>3. ProcsTyped'
  BY <1>0, <1>1 DEF ProcsOK, ProcsTyped
<1>4. NoticedOK'
  BY <1>0, <1>1, <1>2 DEF ProcsOK, NoticedOK, Failed, BeforeFlows, Unsorted, Turn, Ending0
<1>5. KilledOK'
  BY <1>0, <1>1 DEF ProcsOK, KilledOK
<1> QED BY <1>3, <1>4, <1>5 DEF ProcsOK

(* With a container end the commands in it, and no others.                 *)
LEMMA AllStopped ==
  ASSUME procs \in Seq(Proc), NEW s, AllStop(s)
  PROVE  /\ procs' = [p \in DOMAIN procs |-> procs'[p]] /\ DOMAIN procs' = DOMAIN procs
         /\ \A p \in DOMAIN procs :
              /\ procs'[p].on = procs[p].on
              /\ \E v \in States : procs'[p] = [procs[p] EXCEPT !.state = v]
              /\ procs'[p].state = IF procs[p].on = s THEN Stopped(procs[p].state)
                                                   ELSE procs[p].state
<1>1. procs' = [p \in DOMAIN procs |->
        IF procs[p].on = s THEN [procs[p] EXCEPT !.state = Stopped(procs[p].state)] ELSE procs[p]]
  BY DEF AllStop
<1>2. ASSUME NEW p \in DOMAIN procs
      PROVE  /\ procs'[p].on = procs[p].on
             /\ \E v \in States : procs'[p] = [procs[p] EXCEPT !.state = v]
             /\ procs'[p].state = IF procs[p].on = s THEN Stopped(procs[p].state)
                                                  ELSE procs[p].state
  <2>1. procs[p] \in Proc
    OBVIOUS
  <2>2. procs[p].state \in States /\ procs[p] = [procs[p] EXCEPT !.state = procs[p].state]
    BY <2>1 DEF Proc
  <2>3. Stopped(procs[p].state) \in States
    BY <2>2 DEF Stopped, States
  <2>4. CASE procs[p].on = s
    <3>1. procs'[p] = [procs[p] EXCEPT !.state = Stopped(procs[p].state)]
      BY <1>1, <2>4
    <3>2. procs'[p].on = procs[p].on /\ procs'[p].state = Stopped(procs[p].state)
      BY <2>1, <3>1 DEF Proc
    <3> QED BY <2>3, <2>4, <3>1, <3>2
  <2>5. CASE procs[p].on # s
    BY <1>1, <2>2, <2>5
  <2> QED BY <2>4, <2>5
<1> QED BY <1>1, <1>2

(* A container that stops takes its commands with it.                      *)
LEMMA ProcsStop ==
  ASSUME ProcsOK, NEW s, AllStop(s), UNCHANGED <<listed, control>> PROVE ProcsOK'
<1>1. procs \in Seq(Proc) /\ late \subseteq DOMAIN procs
  BY DEF ProcsOK, ProcsTyped
<1>2. late' = late \cup {p \in DOMAIN procs :
        procs[p].on = s /\ procs[p].state = "runs" /\ ~ LookAhead(p)}
  BY DEF AllStop
<1>3. ASSUME NEW p \in DOMAIN procs
      PROVE  /\ procs'[p].state = "runs" => procs[p].state = "runs"
             /\ procs'[p].state = "bad" =>
                  \/ procs[p].state = "bad"
                  \/ procs[p].state = "runs" /\ procs[p].on = s
  BY <1>1, AllStopped DEF Stopped
<1>4. late \subseteq late' /\ late' \subseteq DOMAIN procs
  BY <1>1, <1>2
<1>5. \A p \in DOMAIN procs : procs'[p].state = "bad" =>
        \/ procs[p].state = "bad"
        \/ procs[p].state = "runs" /\ (LookAhead(p) \/ p \in late')
  BY <1>2, <1>3
<1> QED BY <1>1, <1>3, <1>4, <1>5, AllStopped, ProcsChange

(* Killing, and what goes with the containers.                             *)
LEMMA ProcsEnd == ASSUME ProcsOK, End PROVE ProcsOK'
<1> USE DEF Fail, Goto, Unsorted, Turn, BeforeFlows, Everywhere, Ending0
<1>0. procs \in Seq(Proc) /\ DOMAIN procs = 1 .. Len(procs)
  BY DEF ProcsOK, ProcsTyped
<1>1. CASE PostDone \/ Over
  BY <1>1, ProcsQuiet DEF PostDone, Over, running
<1>2. ASSUME NEW p \in DOMAIN procs, Kill(p) \/ KillFails(p) \/ Reap(p) \/ ReapFails(p)
      PROVE  ProcsOK'
  <2>0. PICK E : E = {q \in {p} : procs[q].state = "runs"}
    OBVIOUS
  <2>1. /\ procs' = [procs EXCEPT ![p].state = IF @ = "runs" THEN "left" ELSE @]
        /\ UNCHANGED <<listed, late, flow>> /\ pc \in Ending0 /\ pc' \in Ending0
        /\ \/ pc' = pc /\ exc' = exc /\ todo' = todo \ {p}
           \/ exc' = "stubborn"
    BY <1>2 DEF Kill, KillFails, Reap, ReapFails, Killed
  <2>2. procs' = [q \in DOMAIN procs |->
                    IF q \in E THEN [procs[q] EXCEPT !.state = "left"] ELSE procs[q]]
    <3>1. procs[p] = [procs[p] EXCEPT !.state = procs[p].state]
      <4>1. procs[p] \in Proc
        BY <1>0
      <4> QED BY <4>1 DEF Proc
    <3>2. procs' = [procs EXCEPT ![p] =
                      [procs[p] EXCEPT !.state = IF procs[p].state = "runs" THEN "left"
                                                 ELSE procs[p].state]]
      BY <2>1
    <3>3. CASE procs[p].state = "runs"
      BY <2>0, <3>2, <3>3
    <3>4. CASE procs[p].state # "runs"
      BY <2>0, <3>1, <3>2, <3>4
    <3> QED BY <3>3, <3>4
  <2>3. "left" \in States
    BY DEF States
  <2>4. /\ procs' \in Seq(Proc) /\ DOMAIN procs' = DOMAIN procs
        /\ \A q \in DOMAIN procs :
             /\ procs'[q].detach = procs[q].detach /\ procs'[q].ignore = procs[q].ignore
             /\ procs'[q].flow = procs[q].flow
             /\ procs'[q].state = IF q \in E THEN "left" ELSE procs[q].state
    <3>1. /\ procs' = [q \in DOMAIN procs |-> procs'[q]]
          /\ \A q \in DOMAIN procs :
               procs'[q] = IF q \in E THEN [procs[q] EXCEPT !.state = "left"] ELSE procs[q]
      BY <2>2
    <3>2. ASSUME NEW q \in DOMAIN procs
          PROVE  /\ \E w \in States : procs'[q] = [procs[q] EXCEPT !.state = w]
                 /\ procs'[q].state = IF q \in E THEN "left" ELSE procs[q].state
      <4>1. procs[q] \in Proc
        BY <1>0
      <4>2. procs[q] = [procs[q] EXCEPT !.state = procs[q].state] /\ procs[q].state \in States
        BY <4>1 DEF Proc
      <4>3. CASE q \in E
        BY <3>1, <4>1, <4>3, <2>3 DEF Proc
      <4>4. CASE q \notin E
        BY <3>1, <4>2, <4>4
      <4> QED BY <4>3, <4>4
    <3> QED BY <1>0, <3>1, <3>2, StatesChange
  <2>5. /\ \A q \in DOMAIN procs : procs'[q].state = "runs" => procs[q].state = "runs" /\ q # p
        /\ \A q \in DOMAIN procs : procs'[q].state = "bad" => procs[q].state = "bad"
    BY <2>0, <2>4
  <2>6. ProcsTyped'
    BY <2>1, <2>4 DEF ProcsOK, ProcsTyped
  <2>7. NoticedOK'
    BY <2>1, <2>4, <2>5 DEF ProcsOK, NoticedOK, Failed, None
  <2>8. KilledOK'
    BY <2>1, <2>4, <2>5 DEF ProcsOK, KilledOK
  <2> QED BY <2>6, <2>7, <2>8 DEF ProcsOK
<1>3. ASSUME NEW s \in Services, RemoveContainer(s) PROVE ProcsOK'
  BY <1>3, ProcsStop DEF RemoveContainer
<1>4. CASE RemoveImages
  BY <1>4, ProcsQuiet DEF RemoveImages, running
<1>5. CASE CleanupFails
  <2>1. /\ pc' = "over" /\ exc' = "docker" /\ pc = "clean"
        /\ UNCHANGED <<procs, listed, late, flow>>
    BY <1>5 DEF CleanupFails, running
  <2>2. ProcsTyped' /\ NoticedOK' /\ KilledOK'
    BY <2>1 DEF ProcsOK, ProcsTyped, NoticedOK, KilledOK, None
  <2> QED BY <2>2 DEF ProcsOK
<1> QED BY <1>1, <1>2, <1>3, <1>4, <1>5 DEF End

(* Processes that end by themselves, or with their containers, after they  *)
(* were looked at for the last time.                                       *)
LEMMA ProcsEnvironment == ASSUME ProcsOK, Environment PROVE ProcsOK'
<1> USE DEF Fail, Goto, Unsorted, Turn, BeforeFlows, Everywhere, Ending0
<1>0. procs \in Seq(Proc) /\ DOMAIN procs = 1 .. Len(procs)
  BY DEF ProcsOK, ProcsTyped
<1>1. CASE \E s \in Services : HealthTurns(s)
  BY <1>1, ProcsQuiet DEF HealthTurns, running, control, ProcsOK, ProcsTyped
<1>2. ASSUME NEW p \in DOMAIN procs, ProcessEnds(p) PROVE ProcsOK'
  <2>1. PICK state \in {"ok", "bad", "gone"} :
          /\ Ends(p, state)
          /\ procs[p].state = "runs" \/ (procs[p].state = "left" /\ state = "gone")
    BY <1>2 DEF ProcessEnds
  <2>2. /\ procs' = [procs EXCEPT ![p].state = state]
        /\ late' = IF LookAhead(p) THEN late ELSE late \cup {p}
        /\ UNCHANGED <<listed, control>> /\ state \in States
    BY <1>2, <2>1 DEF Ends, ProcessEnds, States
  <2>3. ASSUME NEW q \in DOMAIN procs
        PROVE  /\ \E v \in States : procs'[q] = [procs[q] EXCEPT !.state = v]
               /\ procs'[q].state = IF q = p THEN state ELSE procs[q].state
    <3>1. procs[q] \in Proc /\ procs[p] \in Proc
      BY <1>0
    <3>2. procs[q].state \in States /\ procs[q] = [procs[q] EXCEPT !.state = procs[q].state]
      BY <3>1 DEF Proc
    <3>3. CASE q = p
      <4>1. procs'[p] = [procs[p] EXCEPT !.state = state]
        BY <2>2
      <4>2. procs'[p].state = state
        BY <4>1, <3>1 DEF Proc
      <4> QED BY <2>2, <3>3, <4>1, <4>2
    <3>4. CASE q # p
      BY <2>2, <3>2, <3>4
    <3> QED BY <3>3, <3>4
  <2>4. procs' = [q \in DOMAIN procs |-> procs'[q]]
    BY <2>2
  <2>5. \A q \in DOMAIN procs :
          /\ procs'[q].state = "runs" => procs[q].state = "runs"
          /\ procs'[q].state = "bad" =>
               \/ procs[q].state = "bad"
               \/ procs[q].state = "runs" /\ (LookAhead(q) \/ q \in late')
    BY <2>1, <2>2, <2>3
  <2>6. late \subseteq late' /\ late' \subseteq DOMAIN procs
    BY <2>2 DEF ProcsOK, ProcsTyped
  <2> QED BY <2>2, <2>3, <2>4, <2>5, <2>6, ProcsChange
<1>3. ASSUME NEW s \in Services, ContainerExits(s) PROVE ProcsOK'
  BY <1>3, ProcsStop DEF ContainerExits
<1> QED BY <1>1, <1>2, <1>3 DEF Environment

(* All steps keep what is known of the processes.                          *)
LEMMA ProcsStays ==
  ASSUME SortOK, PlaceOK, ProcsOK, [Next]_vars PROVE ProcsOK'
<1>1. CASE Done \/ UNCHANGED vars
  <2>1. UNCHANGED <<procs, listed, late, flow, exc, pc, after, todo>>
    BY <1>1 DEF Done, vars, running, control
  <2> QED BY <2>1, ProcsQuiet DEF ProcsOK, ProcsTyped
<1> QED
  BY <1>1, ProcsBegin, ProcsSetup, ProcsCheck, ProcsFlows, ProcsEnd, ProcsEnvironment
     DEF Next, Step

-----------------------------------------------------------------------------
(* The service whose turn it is belongs to the scenario.                   *)
LEMMA HeadIsService ==
  ASSUME SortOK, PlaceOK, queue # <<>> PROVE Current \in Services /\ Current \in task.services
<1>1. Current = queue[1] /\ 1 \in 1 .. Len(queue)
  BY DEF PlaceOK, Current
<1>2. task.services \subseteq Services
  BY TaskIsScenario DEF SortOK
<1> QED BY <1>1, <1>2 DEF PlaceOK

(* A step that leaves containers and processes where they are.             *)
LEMMA HostQuiet ==
  ASSUME HostOK, UNCHANGED <<task, strangers, container, procs>>,
         pc' \in Outside => pc \in Outside /\ (exc = "docker" => exc' = "docker"),
         exc' = "docker" => exc = "docker" /\ pc' = pc,
         pc' \in Unnamed => pc \in Unnamed,
         pc' \in Unnamed \cup Ending0 \/ pc \notin Unnamed \cup Ending0
  PROVE  HostOK'
BY DEF HostOK, Alive

(* The runner starts a command: what is in order stays so.                 *)
LEMMA HostStarts ==
  ASSUME HostOK, UNCHANGED <<task, strangers, container>>, procs \in Seq(Proc),
         NEW c \in Command, NEW state \in States, procs' = Started(c, state),
         state \in {"runs", "left"} => Up(c.on),
         pc \notin Unnamed \cup Ending0, pc' \notin Outside, pc' \notin Unnamed,
         exc' # "docker"
  PROVE  HostOK'
<1> DEFINE new == [on |-> c.on, detach |-> c.detach, ignore |-> c.ignore, state |-> state,
                   flow |-> flow]
<1>1. procs' = Append(procs, new) /\ new.on = c.on /\ new.state = state
  BY DEF Started
<1> HIDE DEF new
<1>2. /\ DOMAIN procs' = DOMAIN procs \cup {Len(procs) + 1}
      /\ \A p \in DOMAIN procs : procs'[p] = procs[p]
      /\ procs'[Len(procs) + 1] = new
  BY <1>1
<1>3. ASSUME NEW p \in DOMAIN procs', procs'[p].state \in {"runs", "left"}
      PROVE  procs'[p].on = Host \/ container[procs'[p].on] = "running"
  <2>1. CASE p \in DOMAIN procs
    BY <1>2, <1>3, <2>1 DEF HostOK, Alive
  <2>2. CASE p = Len(procs) + 1
    BY <1>1, <1>2, <1>3, <2>2 DEF Up
  <2> QED BY <1>2, <2>1, <2>2
<1> QED BY <1>3 DEF HostOK, Alive

(* The runner, or somebody else, has a command end.                        *)
LEMMA HostEnds ==
  ASSUME HostOK, UNCHANGED <<task, strangers>>, procs \in Seq(Proc),
         DOMAIN procs' = DOMAIN procs,
         \A p \in DOMAIN procs : procs'[p].on = procs[p].on /\ (Alive(p)' => Alive(p)),
         procs' = [p \in DOMAIN procs |-> procs'[p]],
         NEW s \in Services \ strangers, NEW state \in {"absent", "exited"},
         \/ UNCHANGED container
         \/ /\ container' = [container EXCEPT ![s] = state]
            /\ \A p \in DOMAIN procs : Alive(p)' => procs[p].on # s
            /\ container[s] \in {"running", "exited"},
         pc' \in Outside => pc \in Outside /\ (exc = "docker" => exc' = "docker"),
         exc' = "docker" => exc = "docker" /\ pc' = pc,
         pc' \in Unnamed => pc \in Unnamed,
         pc' \in Unnamed \cup Ending0 \/ pc \notin Unnamed \cup Ending0
  PROVE  HostOK'
<1>1. /\ container' \in [Services -> {"absent", "created", "running", "exited"}]
      /\ \A e \in Services : e # s => container'[e] = container[e]
      /\ container' = container \/ container'[s] = state
  BY DEF HostOK
<1>2. procs = <<>> <=> procs' = <<>>
  BY DEF HostOK
<1>3. ASSUME NEW p \in DOMAIN procs', Alive(p)'
      PROVE  procs'[p].on = Host \/ container'[procs'[p].on] = "running"
  <2>1. p \in DOMAIN procs /\ procs'[p].on = procs[p].on /\ Alive(p)
    BY <1>3
  <2>2. procs[p].on = Host \/ container[procs[p].on] = "running"
    BY <2>1 DEF HostOK
  <2>3. procs[p].on \in Services \cup {Host}
    <3>1. procs[p] \in Proc
      BY <2>1
    <3> QED BY <3>1 DEF Proc
  <2> QED BY <1>1, <1>3, <2>1, <2>2, <2>3
<1>4. \A e \in Services : container'[e] \in {"running", "exited"} =>
        container[e] \in {"running", "exited"}
  BY <1>1
<1>5. \A e \in strangers : container'[e] = "running"
  BY <1>1 DEF HostOK
<1> QED BY <1>1, <1>2, <1>3, <1>4, <1>5 DEF HostOK

(* Nobody else's containers are touched, and all others are removed.       *)
LEMMA HostStays ==
  ASSUME SortOK, PlaceOK, ProcsOK, HostOK, EarlyOK, [Next]_vars PROVE HostOK'
<1> USE DEF Fail, Goto, Ending0, Outside, Unnamed
<1>0. /\ exc = "docker" => pc = "over"
      /\ procs \in Seq(Proc)
      /\ pc \notin Ending0 => exc # "docker"
  BY DEF HostOK, ProcsOK, ProcsTyped
<1>1. CASE NextFile
  <2>1. /\ procs' = <<>> /\ pc' = "clone" /\ pc = "over" /\ exc' = exc /\ exc = None
        /\ UNCHANGED <<strangers, container>>
    BY <1>1 DEF NextFile
  <2> QED BY <2>1 DEF HostOK, None
<1>2. CASE Load
  BY <1>0, <1>2 DEF Load, HostOK, Alive, runner, images, sorting, waiting, docker, running, control
<1>3. CASE Initialize
  <2>1. /\ pc = "names" /\ pc' = "build" /\ \A s \in task.services : container[s] # "running"
        /\ UNCHANGED <<task, strangers, container, procs, exc>>
    BY <1>3 DEF Initialize, docker, running
  <2> QED BY <1>0, <2>1 DEF HostOK, Alive
<1>4. CASE Begin /\ ~ NextFile /\ ~ Load /\ ~ Initialize
  BY <1>0, <1>4, HostQuiet DEF Begin, Clone, CloneFails, LoadFails, RelationsFail, SetLimits,
       LimitsExceeded, Initialize, NameTaken, Build, BuildFails, Network, NetworkFails, runner,
       images, sorting, waiting, docker, running, control
<1>5. CASE Order
  BY <1>0, <1>5, HostQuiet DEF Order, Root, Descend, OrderFails, Return, Ordered, runner, images,
       sorting, waiting, docker, running, control
<1>6. CASE Prepare \/ Refuse \/ Run \/ RunFails
  <2>1. /\ queue # <<>> /\ pc \in {"service", "wait"}
        /\ pc \notin Unnamed \cup Ending0
    BY <1>6 DEF Prepare, Refuse, ResetContainer, Run, RunFails, PlaceOK, Turn
  <2>2. Current \in Services /\ Current \in task.services
    BY <2>1, HeadIsService
  <2>3. Current \notin strangers
    BY <2>1, <2>2 DEF HostOK
  <2>4. container[Current] # "running"
    <3>1. Current = queue[1] /\ 1 \in 1 .. Len(queue)
      BY <2>1 DEF PlaceOK, Current
    <3> QED BY <2>1, <3>1 DEF EarlyOK, Turn
  <2>5. PICK state \in {"absent", "created", "running"} :
          container' = [container EXCEPT ![Current] = state]
    BY <1>6 DEF Prepare, Refuse, ResetContainer, Run, RunFails
  <2>6. /\ pc' \in {"wait", "setup", "post"} /\ UNCHANGED <<task, strangers, procs>>
        /\ exc' = exc \/ exc' \in {"refused", "notStarted"}
    BY <1>6 DEF Prepare, Refuse, ResetContainer, Run, RunFails, runner, images, sorting, waiting, docker,
         running, control
  <2>7. /\ container' \in [Services -> {"absent", "created", "running", "exited"}]
        /\ \A e \in Services : container[e] = "running" => container'[e] = "running"
    BY <2>2, <2>4, <2>5 DEF HostOK
  <2>8. ASSUME NEW p \in DOMAIN procs, Alive(p)
        PROVE  procs[p].on = Host \/ container'[procs[p].on] = "running"
    <3>0. procs[p] \in Proc
      BY <1>0
    <3>1. procs[p].on \in Services \cup {Host}
      BY <3>0 DEF Proc
    <3> QED BY <2>7, <2>8, <3>1 DEF HostOK
  <2>9. \A s \in strangers : container'[s] = "running"
    BY <2>7 DEF HostOK
  <2> QED BY <1>0, <2>1, <2>6, <2>7, <2>8, <2>9 DEF HostOK, Alive
<1>7. CASE SetUp
  <2>1. Current \in Services /\ queue # <<>> /\ pc = "setup"
    <3>1. queue # <<>> /\ pc = "setup"
      BY <1>7 DEF SetUp, SettingUp, PlaceOK, Turn
    <3> QED BY <3>1, HeadIsService
  <2>2. SetupCommand \in Command
    <3>1. task.setup[Current] \in Seq(Command)
      BY <2>1, TaskIsScenario DEF SortOK
    <3> QED BY <1>7, <3>1 DEF SetUp, SettingUp, SetupCommand, PlaceOK
  <2>3. PICK state \in IF SetupCommand.detach THEN {Launched(SetupCommand.on)}
                       ELSE Outcomes(SetupCommand.on) \ {"bad"} :
          procs' = Started(SetupCommand, state)
    BY <1>7 DEF SetUp
  <2>4. state \in States /\ (state \in {"runs", "left"} => Up(SetupCommand.on))
    BY <2>3 DEF Launched, Outcomes, States
  <2>5. UNCHANGED <<task, strangers, container, pc, exc>>
    BY <1>7 DEF SetUp, runner, images, docker
  <2> QED BY <1>0, <2>1, <2>2, <2>3, <2>4, <2>5, HostStarts
<1>8. CASE Setup /\ ~ (Prepare \/ Refuse \/ Run \/ RunFails \/ SetUp)
  BY <1>0, <1>8, HostQuiet DEF Setup, Prepare, Refuse, ResetContainer, WaitFor, Inspect, InspectHealth,
       HealthFails, Satisfied, Sleep, GiveUp, Run, RunFails, SetUp, SetUpFails, SettingUp,
       ServiceDone, ServicesDone, Loop, runner, images, sorting, waiting, docker, running,
       control
<1>9. CASE Check
  BY <1>0, <1>9, HostQuiet DEF Check, ContainerFound, ContainerMissed, ContainersChecked,
       CodeAccepted, CodeRefused, Loop, runner, images, sorting, waiting, docker, running,
       control
<1>10. CASE Execute \/ FlowTimesOut
  <2>1. FlowCommand \in Command
    <3>1. task.flows \in Seq(Seq(Command))
      BY TaskIsScenario DEF SortOK
    <3>2. flow \in 1 .. Len(task.flows)
      BY <1>10 DEF Execute, FlowTimesOut, PlaceOK
    <3>3. task.flows[flow] \in Seq(Command)
      BY <3>1, <3>2
    <3> QED BY <1>10, <3>3 DEF Execute, FlowTimesOut, FlowCommand, PlaceOK
  <2>2. PICK state \in States :
          /\ procs' = Started(FlowCommand, state)
          /\ state \in {"runs", "left"} => Up(FlowCommand.on)
    BY <1>10 DEF Execute, FlowTimesOut, Launched, Outcomes, States
  <2>3. /\ UNCHANGED <<task, strangers, container>> /\ pc = "command"
        /\ pc' \in {"command", "post"} /\ (exc' = exc \/ exc' = "flow")
    BY <1>10 DEF Execute, FlowTimesOut, runner, images, docker
  <2> QED BY <1>0, <2>1, <2>2, <2>3, HostStarts
<1>11. CASE Flows /\ ~ Execute /\ ~ FlowTimesOut
  BY <1>0, <1>11, HostQuiet DEF Flows, CollectPackages, CollectFails, StartFlow, Execute,
       FlowFails, FlowTimesOut, HandOver, FlowChecked, FlowsDone, Finish, Loop, runner, images, sorting,
       waiting, docker, running, control
<1>12. CASE PostDone \/ Over
  BY <1>0, <1>12, HostQuiet DEF PostDone, Over, runner, images, sorting, waiting, docker, running,
       control
<1>13. CASE RemoveImages
  <2>1. /\ pc' = "reap" /\ pc = "clean" /\ UNCHANGED <<task, strangers, container, procs, exc>>
        /\ \A s \in Services : ~ Known(s)
    BY <1>13 DEF RemoveImages, runner, docker, running
  <2> QED BY <1>0, <2>1 DEF HostOK, Known, Alive
<1>14. CASE CleanupFails
  <2>1. /\ pc' = "over" /\ pc = "clean" /\ UNCHANGED <<task, strangers, container, procs>>
        /\ exc' = "docker"
    BY <1>14 DEF CleanupFails, runner, images, docker, running
  <2> QED BY <2>1 DEF HostOK, Alive
<1>15. ASSUME NEW p \in DOMAIN procs, Kill(p) \/ KillFails(p) \/ Reap(p) \/ ReapFails(p)
       PROVE  HostOK'
  <2>1. /\ procs' = [procs EXCEPT ![p].state = IF @ = "runs" THEN "left" ELSE @]
        /\ pc' \in Ending0 /\ pc \in {"post", "reap"} /\ UNCHANGED <<task, strangers, container>>
        /\ pc' \in Outside => pc \in Outside
        /\ exc' \in {exc, "stubborn"}
    BY <1>15 DEF Kill, KillFails, Reap, ReapFails, Killed, runner, images, sorting, waiting,
         docker, running, control
  <2>2. DOMAIN procs' = DOMAIN procs /\ (procs = <<>> <=> procs' = <<>>)
    BY <1>0, <2>1
  <2>3. ASSUME NEW q \in DOMAIN procs', Alive(q)'
        PROVE  q \in DOMAIN procs /\ Alive(q) /\ procs'[q].on = procs[q].on
    <3>1. q \in DOMAIN procs /\ procs[q] \in Proc /\ procs[p] \in Proc
      BY <1>0, <2>2
    <3> QED BY <2>1, <2>3, <3>1 DEF Proc, Alive
  <2>4. \A q \in DOMAIN procs' : Alive(q)' =>
          procs'[q].on = Host \/ container[procs'[q].on] = "running"
    BY <2>3 DEF HostOK
  <2> QED BY <1>0, <2>1, <2>2, <2>4 DEF HostOK
<1>16. ASSUME NEW s \in Services, RemoveContainer(s) \/ ContainerExits(s) PROVE HostOK'
  <2>1. PICK state \in {"absent", "exited"} : container' = [container EXCEPT ![s] = state]
    BY <1>16 DEF RemoveContainer, ContainerExits
  <2>2. /\ AllStop(s) /\ s \notin strangers /\ UNCHANGED <<task, strangers, pc, exc>>
        /\ container[s] \in {"running", "exited"}
    BY <1>16 DEF RemoveContainer, ContainerExits, Known, runner, images, control
  <2>3. \A p \in DOMAIN procs :
          procs'[p].on = procs[p].on /\ (Alive(p)' => Alive(p) /\ procs[p].on # s)
    BY <1>0, <2>2, AllStopped DEF Alive, Stopped
  <2>4. DOMAIN procs' = DOMAIN procs /\ procs' = [p \in DOMAIN procs |-> procs'[p]]
    BY <1>0, <2>2, AllStopped
  <2> QED BY <1>0, <2>1, <2>2, <2>3, <2>4, HostEnds
<1>17. ASSUME NEW p \in DOMAIN procs, ProcessEnds(p) PROVE HostOK'
  <2>1. PICK state \in {"ok", "bad", "gone"} : procs' = [procs EXCEPT ![p].state = state]
    BY <1>17 DEF ProcessEnds, Ends
  <2>2. UNCHANGED <<task, strangers, container, pc, exc>>
    BY <1>17 DEF ProcessEnds, runner, images, docker, control
  <2>3. DOMAIN procs' = DOMAIN procs /\ (procs = <<>> <=> procs' = <<>>)
    BY <1>0, <2>1
  <2>4. ASSUME NEW q \in DOMAIN procs', Alive(q)'
        PROVE  q \in DOMAIN procs /\ Alive(q) /\ procs'[q].on = procs[q].on
    <3>1. q \in DOMAIN procs /\ procs[q] \in Proc /\ procs[p] \in Proc
      BY <1>0, <2>3
    <3> QED BY <2>1, <2>4, <3>1 DEF Proc, Alive
  <2>5. \A q \in DOMAIN procs' : Alive(q)' =>
          procs'[q].on = Host \/ container[procs'[q].on] = "running"
    BY <2>4 DEF HostOK
  <2> QED BY <1>0, <2>2, <2>3, <2>5 DEF HostOK
<1>18. CASE (\E s \in Services : HealthTurns(s)) \/ Done \/ UNCHANGED vars
  BY <1>18, HostQuiet DEF HealthTurns, Done, vars, runner, images, sorting, waiting, docker,
     running, control
<1> QED
  BY <1>1, <1>2, <1>3, <1>4, <1>5, <1>6, <1>7, <1>8, <1>9, <1>10, <1>11, <1>12, <1>13, <1>14,
     <1>15, <1>16, <1>17, <1>18 DEF Next, Step, End, Environment

-----------------------------------------------------------------------------
(* A step that leaves services, their dependencies and health alone.       *)
LEMMA ReadyQuiet ==
  ASSUME ReadyOK, UNCHANGED <<task, queue, wanted, target, seen, gone, container, health, healed>>,
         pc' \in Turn => pc' = pc
  PROVE  ReadyOK'
<1>1. pc' \in Turn => \A d : Met(d)' <=> Met(d)
  BY DEF Met, Current
<1>2. Current' = Current /\ (AsksForHealth' <=> AsksForHealth)
  BY DEF Current, AsksForHealth
<1> QED BY <1>1, <1>2 DEF ReadyOK, Turn

(* A service is started when it is ready to be.                            *)
LEMMA ReadyStays ==
  ASSUME SortOK, PlaceOK, HostOK, ReadyOK, [Next]_vars PROVE ReadyOK'
<1> USE DEF Fail, Goto, Turn
<1>1. CASE NextFile
  BY <1>1 DEF NextFile, ReadyOK, None, NothingSeen
<1>2. CASE Load
  BY <1>2 DEF Load, ReadyOK, runner, images, sorting, waiting, docker, running, control
<1>3. CASE Begin /\ ~ NextFile /\ ~ Load
  BY <1>3, ReadyQuiet DEF Begin, Clone, CloneFails, LoadFails, RelationsFail, SetLimits,
       LimitsExceeded, Initialize, NameTaken, Build, BuildFails, Network, NetworkFails, runner,
       images, sorting, waiting, docker, running, control
<1>4. CASE Order
  <2>1. CASE Ordered
    BY <2>1 DEF Ordered, ReadyOK, runner, images, sorting, waiting, docker, running, control
  <2>2. CASE ~ Ordered
    BY <1>4, <2>2, ReadyQuiet DEF Order, Root, Descend, OrderFails, Return, Ordered, runner,
         images, sorting, waiting, docker, running, control
  <2> QED BY <2>1, <2>2
<1>5. CASE Prepare
  <2>1. /\ Current \in Services /\ container' = [container EXCEPT ![Current] = "absent"]
        /\ wanted' = task.needs[Current] /\ pc' = "wait"
        /\ gone' = {s \in Services : container[s] = "exited"}
        /\ UNCHANGED <<task, queue, seen, health, healed>>
    BY <1>5, HeadIsService DEF Prepare, ResetContainer, runner
  <2>2. Current' = Current
    BY <2>1 DEF Current
  <2>3. \A d \in gone' : container'[d] # "running"
    BY <2>1 DEF HostOK
  <2> QED BY <2>1, <2>2, <2>3 DEF ReadyOK
<1>6. CASE Refuse \/ RunFails
  BY <1>6 DEF Refuse, ResetContainer, RunFails, ReadyOK, runner, images, sorting, waiting, docker, running,
       control
<1>7. ASSUME NEW d \in Services, WaitFor(d) PROVE ReadyOK'
  <2>1. /\ target' = d /\ seen' = NothingSeen /\ pc' = "inspect" /\ pc = "wait"
        /\ UNCHANGED <<task, queue, wanted, gone, container, health, healed>>
    BY <1>7 DEF WaitFor, runner, images, sorting, waiting, docker, running, control
  <2>2. Current' = Current /\ \A e : Met(e)' <=> Met(e)
    BY <2>1 DEF Current, Met
  <2> QED BY <2>1, <2>2 DEF ReadyOK, NothingSeen
<1>8. CASE Inspect
  <2>1. /\ seen' = [seen EXCEPT !.state = container[target]] /\ pc = "inspect"
        /\ pc' = IF AsksForHealth THEN "health" ELSE "decide"
        /\ UNCHANGED <<task, queue, wanted, target, gone, container, health, healed>>
    BY <1>8 DEF Inspect, runner, images, sorting, waiting, docker, running, control
  <2>2. Current' = Current /\ (AsksForHealth' <=> AsksForHealth) /\ \A e : Met(e)' <=> Met(e)
    BY <2>1 DEF Current, Met, AsksForHealth
  <2>3. /\ seen' \in [state : {"absent", "created", "running", "exited"},
                     health : {"starting", "healthy"}]
        /\ seen'.state = container[target]
    BY <2>1 DEF ReadyOK, HostOK
  <2> QED BY <2>1, <2>2, <2>3 DEF ReadyOK
<1>9. CASE InspectHealth
  <2>1. /\ seen' = [seen EXCEPT !.health = health[target]] /\ pc = "health" /\ pc' = "decide"
        /\ health[target] \in {"starting", "healthy"}
        /\ UNCHANGED <<task, queue, wanted, target, gone, container, health, healed>>
    BY <1>9 DEF InspectHealth, runner, images, sorting, waiting, docker, running, control
  <2>2. Current' = Current /\ (AsksForHealth' <=> AsksForHealth) /\ \A e : Met(e)' <=> Met(e)
    BY <2>1 DEF Current, Met, AsksForHealth
  <2>3. /\ seen' \in [state : {"absent", "created", "running", "exited"},
                     health : {"starting", "healthy"}]
        /\ seen'.state = seen.state /\ seen'.health = health[target]
    BY <2>1 DEF ReadyOK
  <2> QED BY <2>1, <2>2, <2>3 DEF ReadyOK
<1>10. CASE Satisfied
  <2>1. /\ seen.state = "running" /\ seen.health = "healthy" /\ pc = "decide" /\ pc' = "wait"
        /\ wanted' = wanted \ {target}
        /\ UNCHANGED <<task, queue, target, seen, gone, container, health, healed>>
    BY <1>10 DEF Satisfied, Ready, runner, images, sorting, waiting, docker, running, control
  <2>2. Current' = Current /\ \A e : Met(e)' <=> Met(e)
    BY <2>1 DEF Current, Met
  <2>3. Met(target)
    BY <2>1 DEF ReadyOK, Met, AsksForHealth
  <2> QED BY <2>1, <2>2, <2>3 DEF ReadyOK
<1>11. CASE Sleep
  <2>1. /\ pc = "decide" /\ pc' = "inspect"
        /\ UNCHANGED <<task, queue, wanted, target, seen, gone, container, health, healed>>
    BY <1>11 DEF Sleep, runner, images, sorting, waiting, docker, running, control
  <2>2. Current' = Current /\ \A e : Met(e)' <=> Met(e)
    BY <2>1 DEF Current, Met
  <2> QED BY <2>1, <2>2 DEF ReadyOK
<1>12. CASE Run
  <2>1. /\ Current \in Services /\ container' = [container EXCEPT ![Current] = "running"]
        /\ \E h \in {None, "starting"} : health' = [health EXCEPT ![Current] = h]
        /\ pc = "wait" /\ pc' = "setup" /\ wanted = {}
        /\ UNCHANGED <<task, queue, wanted, target, seen, gone, healed>>
    BY <1>12, HeadIsService DEF Run, PlaceOK, runner, waiting
  <2>2. Current' = Current /\ \A e : Met(e) => Met(e)'
    <3>1. \A e \in Services : container[e] # "absent" => container'[e] # "absent"
      BY <2>1 DEF HostOK
    <3> QED BY <2>1, <3>1 DEF Current, Met
  <2> QED BY <2>1, <2>2 DEF ReadyOK, None
<1>13. CASE ServiceDone
  BY <1>13 DEF ServiceDone, ReadyOK, runner, images, sorting, waiting, docker, running, control
<1>14. CASE HealthFails \/ GiveUp \/ SetUp \/ SetUpFails \/ ServicesDone
  BY <1>14, ReadyQuiet DEF HealthFails, GiveUp, SetUp, SetUpFails, SettingUp, ServicesDone,
     Loop, runner, images, sorting, waiting, docker, running, control
<1>15. CASE Check
  BY <1>15, ReadyQuiet DEF Check, ContainerFound, ContainerMissed, ContainersChecked,
       CodeAccepted, CodeRefused, Loop, runner, images, sorting, waiting, docker, running,
       control
<1>16. CASE Flows
  BY <1>16, ReadyQuiet DEF Flows, CollectPackages, CollectFails, StartFlow, Execute,
       FlowFails, FlowTimesOut, HandOver, FlowChecked, FlowsDone, Finish, Loop, runner, images, sorting,
       waiting, docker, running, control
<1>17. CASE End
  <2>1. CASE \E s \in Services : RemoveContainer(s)
    BY <2>1 DEF RemoveContainer, ReadyOK, runner, images, sorting, waiting, docker, running, control
  <2>2. CASE ~ \E s \in Services : RemoveContainer(s)
    BY <1>17, <2>2, ReadyQuiet DEF End, Kill, KillFails, Reap, ReapFails, PostDone,
         RemoveContainer, RemoveImages, CleanupFails,
         Over, runner, images, sorting, waiting, docker, running, control
  <2> QED BY <2>1, <2>2
<1>18. CASE \E p \in DOMAIN procs : ProcessEnds(p)
  BY <1>18, ReadyQuiet DEF ProcessEnds, runner, images, sorting, waiting, docker, running,
       control
<1>19. ASSUME NEW s \in Services, ContainerExits(s) PROVE ReadyOK'
  <2>1. /\ container[s] = "running" /\ container' = [container EXCEPT ![s] = "exited"]
        /\ UNCHANGED <<task, queue, wanted, target, seen, gone, health, healed, pc>>
    BY <1>19 DEF ContainerExits, runner, waiting, control
  <2>2. Current' = Current /\ (AsksForHealth' <=> AsksForHealth)
    BY <2>1 DEF Current, AsksForHealth
  <2>3. \A e \in Services : container[e] # "absent" => container'[e] # "absent"
    BY <2>1 DEF HostOK
  <2>4. \A e : Met(e) => Met(e)'
    BY <2>1, <2>2, <2>3 DEF Met
  <2>5. \A e \in Services : container[e] # "running" => container'[e] # "running"
    BY <2>1 DEF HostOK
  <2> QED BY <2>1, <2>2, <2>3, <2>4, <2>5 DEF ReadyOK
<1>20. ASSUME NEW s \in Services, HealthTurns(s) PROVE ReadyOK'
  <2>1. PICK h \in {"healthy", "unhealthy"} : health' = [health EXCEPT ![s] = h]
    BY <1>20 DEF HealthTurns
  <2>2. /\ healed' = IF health'[s] = "healthy" THEN healed \cup {s} ELSE healed
        /\ UNCHANGED <<task, queue, wanted, target, seen, gone, container, pc>>
    BY <1>20 DEF HealthTurns, runner, waiting, control
  <2>3. Current' = Current /\ (AsksForHealth' <=> AsksForHealth) /\ healed \subseteq healed'
    BY <2>2 DEF Current, AsksForHealth
  <2>4. \A e : Met(e) => Met(e)'
    BY <2>2, <2>3 DEF Met
  <2>5. /\ health' \in [Services -> {None, "starting", "healthy", "unhealthy"}]
        /\ \A e \in Services : health'[e] = "healthy" => e \in healed'
    BY <2>1, <2>2 DEF ReadyOK
  <2> QED BY <2>2, <2>3, <2>4, <2>5 DEF ReadyOK
<1>21. CASE Done \/ UNCHANGED vars
  BY <1>21, ReadyQuiet DEF Done, vars, runner, images, sorting, waiting, docker, running,
       control
<1> QED
  BY <1>1, <1>2, <1>3, <1>4, <1>5, <1>6, <1>7, <1>8, <1>9, <1>10, <1>11, <1>12, <1>13, <1>14,
     <1>15, <1>16, <1>17, <1>18, <1>19, <1>20, <1>21 DEF Next, Step, Setup, Environment

-----------------------------------------------------------------------------
(* A step that leaves images and services alone.                           *)
LEMMA ImagesQuiet ==
  ASSUME ImagesOK, UNCHANGED <<task, files, tags, used>>,
         pc' \in Unsorted => pc \in Unsorted,
         \/ pc' \in {"clone", "load", "limits", "names"} \cup Ending0
         \/ pc \notin {"clone", "load", "limits", "names"} \cup Ending0,
         pc' = "build" => pc = "build" /\ todo' \subseteq todo
  PROVE  ImagesOK'
<1>1. ImagesAreFresh' /\ \A i, t : Fresh(i, t)' <=> Fresh(i, t)
  BY DEF ImagesOK, ImagesAreFresh, Fresh
<1> QED BY <1>1 DEF ImagesOK

(* Containers are started from images of their file.                       *)
LEMMA ImagesStay ==
  ASSUME SortOK, PlaceOK, ImagesOK, [Next]_vars PROVE ImagesOK'
<1> USE DEF Fail, Goto, Ending0, Unsorted
<1>0. \A i \in Images : Tag[i] \in Tags
  BY DEF Tags
<1>1. CASE NextFile
  <2>1. /\ pc' = "clone" /\ used' = [s \in Services |-> NoImage] /\ UNCHANGED tags
    BY <1>1 DEF NextFile
  <2>3. files' \in 0 .. MaxFiles
    BY <1>1, BoundAssumption DEF NextFile, ImagesOK
  <2>2. NoImage \in [image : Images \cup {None}, file : 0 .. MaxFiles]
    BY BoundAssumption DEF NoImage
  <2> QED BY <2>1, <2>2, <2>3 DEF ImagesOK, ImagesAreFresh
<1>2. CASE Load
  <2>1. pc' = "limits" /\ pc = "load" /\ UNCHANGED <<used, tags, files>>
    BY <1>2 DEF Load, images
  <2> QED BY <2>1 DEF ImagesOK, ImagesAreFresh
<1>3. CASE Initialize
  <2>1. /\ pc' = "build" /\ pc = "names" /\ UNCHANGED <<used, task, files>>
        /\ tags' = [t \in Tags |-> NoImage] /\ todo' = task.services
    BY <1>3 DEF Initialize, NoTags
  <2>2. NoImage \in [image : Images \cup {None}, file : 0 .. MaxFiles]
    BY BoundAssumption DEF NoImage
  <2> QED BY <2>1, <2>2 DEF ImagesOK, ImagesAreFresh
<1>4. ASSUME NEW s \in Services, Build(s) PROVE ImagesOK'
  <2> DEFINE i == task.image[s]
  <2>1. /\ pc = "build" /\ pc' = pc /\ s \in todo /\ todo' = todo \ {s}
        /\ tags' = IF tags[Tag[i]] = NoImage
                    THEN [tags EXCEPT ![Tag[i]] = [image |-> i, file |-> files]] ELSE tags
        /\ UNCHANGED <<used, task, files>>
    BY <1>4 DEF Build, runner
  <2>2. i \in Images /\ Tag[i] \in Tags /\ s \in task.services
    BY <1>0, <2>1, TaskIsScenario DEF SortOK, ImagesOK
  <2>3. files \in 0 .. MaxFiles
    BY DEF ImagesOK
  <2>4. Fresh([image |-> i, file |-> files], Tag[i])
    BY <2>2 DEF Fresh
  <2>5. ImagesAreFresh' /\ \A j, t : Fresh(j, t)' <=> Fresh(j, t)
    BY <2>1 DEF ImagesOK, ImagesAreFresh, Fresh
  <2> HIDE DEF i
  <2>6. tags' \in [Tags -> [image : Images \cup {None}, file : 0 .. MaxFiles]]
    BY <2>1, <2>2, <2>3 DEF ImagesOK
  <2>7. \A t \in Tags : tags'[t] # NoImage => Fresh(tags'[t], t)
    BY <2>1, <2>2, <2>4 DEF ImagesOK
  <2> QED BY <2>1, <2>5, <2>6, <2>7 DEF ImagesOK
<1>5. CASE Begin /\ ~ NextFile /\ ~ Load /\ ~ Initialize /\ ~ (\E s \in Services : Build(s))
  BY <1>5, ImagesQuiet DEF Begin, Clone, CloneFails, LoadFails, RelationsFail, SetLimits,
       LimitsExceeded, Initialize, NameTaken, Build, BuildFails, Network, NetworkFails, runner,
       images, sorting, waiting, docker, running, control
<1>6. CASE Order
  BY <1>6, ImagesQuiet DEF Order, Root, Descend, OrderFails, Return, Ordered, runner,
       images, sorting, waiting, docker, running, control
<1>7. CASE Run
  <2> DEFINE tag == Tag[task.image[Current]]
  <2>1. /\ pc = "wait" /\ pc' = "setup" /\ used' = [used EXCEPT ![Current] = tags[tag]]
        /\ UNCHANGED <<tags, task, files>> /\ Current \in Services
    BY <1>7, HeadIsService DEF Run, PlaceOK, Turn, runner
  <2>2. tag \in Tags
    BY <1>0, <2>1, TaskIsScenario DEF SortOK
  <2>3. tags[tag] = NoImage \/ Fresh(tags[tag], tag)
    BY <2>1, <2>2 DEF ImagesOK
  <2>4. used' \in [Services -> [image : Images \cup {None}, file : 0 .. MaxFiles]]
    BY <2>1, <2>2 DEF ImagesOK
  <2>5. ASSUME NEW s \in Services, used'[s] # NoImage
        PROVE  Fresh(used'[s], Tag[task.image[s]])
    <3>1. CASE s = Current
      BY <2>1, <2>3, <2>5, <3>1 DEF ImagesOK
    <3>2. CASE s # Current
      BY <2>1, <2>5, <3>2 DEF ImagesOK, ImagesAreFresh, Fresh
    <3> QED BY <3>1, <3>2
  <2>6. ImagesAreFresh'
    BY <2>1, <2>5 DEF ImagesAreFresh, Fresh
  <2>7. \A j, t : Fresh(j, t)' <=> Fresh(j, t)
    BY <2>1 DEF Fresh
  <2> QED BY <2>1, <2>4, <2>6, <2>7 DEF ImagesOK
<1>8. CASE Setup /\ ~ Run
  BY <1>8, ImagesQuiet DEF Setup, Prepare, Refuse, ResetContainer, WaitFor, Inspect, InspectHealth,
       HealthFails, Satisfied, Sleep, GiveUp, Run, RunFails, SetUp, SetUpFails, SettingUp,
       ServiceDone, ServicesDone, Loop, runner, images, sorting, waiting, docker, running,
       control
<1>9. CASE Check
  BY <1>9, ImagesQuiet DEF Check, ContainerFound, ContainerMissed, ContainersChecked,
       CodeAccepted, CodeRefused, Loop, runner, images, sorting, waiting, docker, running,
       control
<1>10. CASE Flows
  BY <1>10, ImagesQuiet DEF Flows, CollectPackages, CollectFails, StartFlow, Execute,
       FlowFails, FlowTimesOut, HandOver, FlowChecked, FlowsDone, Finish, Loop, runner, images, sorting,
       waiting, docker, running, control
<1>11. CASE RemoveImages
  <2>1. /\ pc' = "reap" /\ UNCHANGED <<used, task, files>> /\ tags' = [t \in Tags |-> NoImage]
    BY <1>11 DEF RemoveImages, NoTags, runner
  <2>2. NoImage \in [image : Images \cup {None}, file : 0 .. MaxFiles]
    BY BoundAssumption DEF NoImage
  <2> QED BY <2>1, <2>2 DEF ImagesOK, ImagesAreFresh
<1>12. CASE End /\ ~ RemoveImages
  BY <1>12, ImagesQuiet DEF End, Kill, KillFails, Reap, ReapFails, PostDone,
       RemoveContainer, RemoveImages, CleanupFails, Over,
       runner, images, sorting, waiting, docker, running, control
<1>13. CASE Environment
  BY <1>13, ImagesQuiet DEF Environment, ProcessEnds, ContainerExits, HealthTurns, runner,
       images, sorting, waiting, docker, running, control
<1>14. CASE Done \/ UNCHANGED vars
  BY <1>14, ImagesQuiet DEF Done, vars, runner, images, sorting, waiting, docker, running,
       control
<1> QED
  BY <1>1, <1>2, <1>3, <1>4, <1>5, <1>6, <1>7, <1>8, <1>9, <1>10, <1>11, <1>12, <1>13, <1>14
     DEF Next, Step

-----------------------------------------------------------------------------
(* A step that leaves the containers alone and does not look at them.      *)
LEMMA EarlyQuiet ==
  ASSUME EarlyOK, UNCHANGED <<task, strangers, queue, early, container>>,
         pc' \in Unsorted \cup {"order"} => pc \in Unsorted \cup {"order"},
         pc' \notin Ending0 => pc \notin Ending0,
         pc' = "containers" /\ after' = "end" => UNCHANGED <<pc, after, todo>>,
         pc' = "codes" /\ after' = "end" => UNCHANGED <<pc, after>>,
         pc' \in Ending0 /\ exc' = None =>
           (pc = "codes" /\ after = "end") \/ (pc \in Ending0 /\ exc = None),
         pc' \in Turn \cup {"service"} =>
           pc \in Turn \cup {"service"} /\ (pc = "setup" => pc' = "setup")
  PROVE  EarlyOK'
<1>1. \A s : Vouched(s)' <=> Vouched(s)
  BY DEF Vouched
<1> QED BY <1>1 DEF EarlyOK

(* A file begins, and another scenario is read.                            *)
LEMMA EarlyBegin == ASSUME SortOK, HostOK, EarlyOK, Begin PROVE EarlyOK'
<1> USE DEF Fail, Goto, Unsorted, Ending0, Turn
<1>1. CASE NextFile
  <2>1. /\ early' = {} /\ pc' = "clone" /\ pc = "over" /\ exc # "docker"
        /\ UNCHANGED <<container, strangers>>
    BY <1>1 DEF NextFile, None
  <2> QED BY <2>1 DEF EarlyOK, HostOK, Outside
<1>2. CASE Load
  <2>1. pc = "load" /\ pc' = "limits" /\ UNCHANGED <<container, strangers, early>>
    BY <1>2 DEF Load, images, docker
  <2> QED BY <2>1 DEF EarlyOK, HostOK, Outside
<1>3. CASE Clone \/ SetLimits \/ Initialize \/ Network \/ \E s \in Services : Build(s)
  BY <1>3, EarlyQuiet DEF Clone, SetLimits, Initialize, Network, Build, runner, images, waiting, docker
<1>4. CASE \/ CloneFails \/ LoadFails \/ RelationsFail \/ LimitsExceeded \/ NameTaken \/ NetworkFails
           \/ \E s \in Services : BuildFails(s)
  <2>1. exc' # None
    BY <1>4 DEF CloneFails, LoadFails, RelationsFail, LimitsExceeded, NameTaken, NetworkFails,
         BuildFails, None
  <2> QED
    BY <1>4, <2>1, EarlyQuiet DEF CloneFails, LoadFails, RelationsFail, LimitsExceeded, NameTaken,
         NetworkFails, BuildFails, runner, images, waiting, docker
<1> QED BY <1>1, <1>2, <1>3, <1>4 DEF Begin

(* The queue holds each service once, and none of them runs yet.           *)
LEMMA EarlyOrder == ASSUME SortOK, HostOK, EarlyOK, Order PROVE EarlyOK'
<1> USE DEF Fail, Goto, Unsorted, Ending0, Turn
<1>1. CASE Ordered
  <2>1. /\ pc = "order" /\ pc' = "service" /\ queue' = ordered /\ early = {}
        /\ UNCHANGED <<container, early, task, strangers>>
    BY <1>1 DEF Ordered, runner, images, docker, EarlyOK
  <2>2. ordered \in Seq(Services) /\ DependenciesFirst /\ Elements(ordered) \subseteq task.services
    BY DEF SortOK
  <2>3. \A i \in 1 .. Len(ordered) : ordered[i] \in Services /\ ordered[i] \in task.services
    BY <2>2 DEF Elements
  <2>4. \A i \in 1 .. Len(ordered) : container[ordered[i]] # "running"
    BY <2>1, <2>3 DEF HostOK, Outside, Unnamed
  <2>5. \A i \in 1 .. Len(ordered) : \A j \in 1 .. i - 1 : ordered[i] # ordered[j]
    BY <2>2 DEF DependenciesFirst
  <2> QED BY <2>1, <2>4, <2>5 DEF EarlyOK
<1>2. CASE (\E s \in Services : Root(s) \/ Descend(s)) \/ Return
  BY <1>2, EarlyQuiet DEF Root, Descend, Return, runner, images, waiting, docker, control
<1>3. CASE \E d \in Services \cup {Unknown} : OrderFails(d)
  <2>1. exc' # None
    BY <1>3 DEF OrderFails, None
  <2> QED BY <1>3, <2>1, EarlyQuiet DEF OrderFails, runner, images, waiting, docker
<1> QED BY <1>1, <1>2, <1>3 DEF Order

(* A service's container is started once, in its turn.                     *)
LEMMA EarlySetup == ASSUME SortOK, PlaceOK, HostOK, EarlyOK, Setup PROVE EarlyOK'
<1> USE DEF Fail, Goto, Unsorted, Ending0, Turn
<1>0. /\ container \in [Services -> {"absent", "created", "running", "exited"}]
      /\ queue \in Seq(Services)
  BY DEF HostOK, PlaceOK
<1>1. CASE \/ (\E d \in Services : WaitFor(d)) \/ Inspect \/ InspectHealth \/ Satisfied \/ Sleep
           \/ SetUp \/ ServicesDone
  BY <1>1, EarlyQuiet DEF WaitFor, Inspect, InspectHealth, Satisfied, Sleep, SetUp, SettingUp,
       ServicesDone, Loop, runner, images, docker, waiting
<1>2. CASE HealthFails \/ GiveUp \/ SetUpFails
  <2>1. exc' # None /\ pc' = "post" /\ pc \in Turn \cup {"service"}
    BY <1>2 DEF HealthFails, GiveUp, SetUpFails, SettingUp, None
  <2>2. UNCHANGED <<task, strangers, queue, early, container>>
    BY <1>2 DEF HealthFails, GiveUp, SetUpFails, runner, images, docker, waiting
  <2> QED BY <2>1, <2>2, EarlyQuiet
<1>3. ASSUME queue # <<>>, pc \in Turn \cup {"service"}
      PROVE  /\ Len(queue) \in Nat /\ Len(queue) > 0 /\ Current = queue[1]
             /\ Current \in Services /\ Current \in task.services
             /\ pc # "setup" => Current \notin early
             /\ \A i \in 1 .. Len(queue) : queue[i] = Current => i = 1
             /\ \A i \in 1 .. Len(queue) : queue[i] \in Services
  <2>1. Len(queue) \in Nat /\ Len(queue) > 0 /\ Current = queue[1]
    BY <1>0, <1>3 DEF Current
  <2>2. 1 \in 1 .. Len(queue) /\ \A i \in 1 .. Len(queue) : i # 1 => 1 \in 1 .. i - 1
    BY <2>1
  <2> QED BY <1>0, <1>3, <2>1, <2>2 DEF EarlyOK, PlaceOK
<1>4. CASE Prepare
  <2>1. /\ pc = "service" /\ queue # <<>> /\ pc' = "wait" /\ queue' = queue
        /\ container' = [container EXCEPT ![Current] = "absent"]
        /\ UNCHANGED <<early, task, strangers>>
    BY <1>4 DEF Prepare, ResetContainer, runner, images
  <2>2. Current \notin early /\ Current \in Services
    BY <1>3, <2>1
  <2>3. \A s \in Services : container'[s] = "running" => container[s] = "running"
    BY <1>0, <2>1
  <2>4. \A i \in 1 .. Len(queue) : queue[i] \in Services
    BY <1>3, <2>1
  <2> HIDE DEF Current
  <2> QED BY <1>0, <2>1, <2>2, <2>3, <2>4 DEF EarlyOK
<1>5. CASE Run
  <2>1. /\ pc = "wait" /\ pc' = "setup" /\ queue' = queue
        /\ container' = [container EXCEPT ![Current] = "running"]
        /\ UNCHANGED <<early, task, strangers>>
    BY <1>5 DEF Run, runner, images, waiting
  <2>2. queue # <<>>
    BY <2>1 DEF PlaceOK
  <2>3. /\ Current \notin early /\ Current \in Services /\ Current \in task.services
        /\ \A i \in 1 .. Len(queue) : queue[i] = Current => i = 1
        /\ \A i \in 1 .. Len(queue) : queue[i] \in Services
    BY <1>3, <2>1, <2>2
  <2>4. \A s \in Services : container'[s] = IF s = Current THEN "running" ELSE container[s]
    BY <1>0, <2>1
  <2> HIDE DEF Current
  <2> QED BY <2>1, <2>3, <2>4 DEF EarlyOK
<1>6. CASE RunFails
  <2>1. /\ pc = "wait" /\ pc' = "post" /\ exc' = "notStarted" /\ "notStarted" # None
        /\ \E state \in {"absent", "created", "running"} : container' = [container EXCEPT ![Current] = state]
        /\ UNCHANGED <<early, task, strangers>>
    BY <1>6 DEF RunFails, runner, images, None
  <2>2. queue # <<>>
    BY <2>1 DEF PlaceOK
  <2>3. Current \in task.services
    BY <1>3, <2>1, <2>2
  <2>4. \A s \in Services : s # Current => container'[s] = container[s]
    BY <1>0, <2>1
  <2> HIDE DEF Current
  <2> QED BY <2>1, <2>3, <2>4 DEF EarlyOK
<1>7. CASE Refuse
  <2>1. /\ pc = "service" /\ queue # <<>> /\ pc' = "post" /\ exc' = "refused" /\ "refused" # None
        /\ container' = [container EXCEPT ![Current] = "absent"]
        /\ UNCHANGED <<early, task, strangers>>
    BY <1>7 DEF Refuse, ResetContainer, runner, images, None
  <2>2. \A s \in Services : container'[s] = "running" => container[s] = "running"
    BY <1>0, <1>3, <2>1
  <2> QED BY <2>1, <2>2 DEF EarlyOK
<1>8. CASE ServiceDone
  <2>1. /\ pc = "setup" /\ pc' = "service" /\ queue' = Tail(queue)
        /\ UNCHANGED <<early, container, task, strangers>>
    BY <1>8 DEF ServiceDone, runner, images, docker
  <2>2. queue # <<>>
    BY <2>1 DEF PlaceOK
  <2>3. /\ Len(queue) \in Nat /\ Len(queue') = Len(queue) - 1 /\ Len(queue) > 0
        /\ \A i \in 1 .. Len(queue) - 1 : queue'[i] = queue[i + 1]
    BY <1>0, <2>1, <2>2
  <2>4. ASSUME NEW i \in 1 .. Len(queue')
        PROVE  /\ \A j \in 1 .. i - 1 : queue'[i] # queue'[j]
               /\ container[queue'[i]] # "running" /\ queue'[i] \notin early
    <3>1. /\ i + 1 \in 1 .. Len(queue) /\ i + 1 # 1 /\ queue'[i] = queue[i + 1]
          /\ \A j \in 1 .. i - 1 : j + 1 \in 1 .. i + 1 - 1 /\ queue'[j] = queue[j + 1]
      BY <2>3
    <3> QED BY <2>1, <3>1 DEF EarlyOK
  <2> QED BY <2>1, <2>4 DEF EarlyOK
<1> QED BY <1>1, <1>2, <1>4, <1>5, <1>6, <1>7, <1>8 DEF Setup

(* A container that is found by another one's name is vouched for by it,   *)
(* or by the one that one will be found by.                                *)
LEMMA EarlyCheck == ASSUME SortOK, HostOK, EarlyOK, Check PROVE EarlyOK'
<1> USE DEF Fail, Goto, Unsorted, Ending0, Turn
<1>1. ASSUME NEW s \in Services, ContainerFound(s) PROVE EarlyOK'
  <2>1. /\ pc = "containers" /\ s \in todo /\ todo' = todo \ {s}
        /\ UNCHANGED <<pc, after, task, strangers, container, early>>
    BY <1>1 DEF ContainerFound, runner, images, docker
  <2>2. ASSUME s \in early
        PROVE  \E t \in Lookalikes[s] : t \in (task.services \cup strangers) \ early
    <3>1. PICK t \in {s} \cup Lookalikes[s] : Up(t)
      BY <1>1 DEF ContainerFound, Found
    <3>2. container[s] # "running" /\ s # Host
      BY <2>1, <2>2, NamesAssumption DEF EarlyOK
    <3>3. t \in Lookalikes[s] /\ t \in Services
      BY <3>1, <3>2, LookalikeAssumption DEF Up
    <3>4. container[t] = "running"
      BY <3>1, <3>3, NamesAssumption DEF Up
    <3> QED BY <2>1, <3>3, <3>4 DEF EarlyOK
  <2>3. ASSUME after = "end", NEW u \in early
        PROVE  \/ u \in todo'
               \/ \E t \in Lookalikes[u] : t \in task.services \cup strangers /\ (t \in early => t \in todo')
    <3>1. CASE u = s
      BY <2>1, <2>2, <2>3, <3>1
    <3>2. CASE u # s /\ u \notin todo
      <4>1. PICK t \in Lookalikes[u] : t \in task.services \cup strangers /\ (t \in early => t \in todo)
        BY <2>1, <2>3, <3>2 DEF EarlyOK
      <4>2. CASE t = s /\ s \in early
        <5>1. PICK v \in Lookalikes[s] : v \in (task.services \cup strangers) \ early
          BY <2>2, <4>2
        <5>2. v \in Lookalikes[u]
          BY <2>3, <4>1, <4>2, <5>1, LookalikeAssumption DEF EarlyOK
        <5> QED BY <5>1, <5>2
      <4>3. CASE ~ (t = s /\ s \in early)
        BY <2>1, <4>1, <4>3
      <4> QED BY <4>2, <4>3
    <3> QED BY <2>1, <3>1, <3>2
  <2> QED BY <2>1, <2>3 DEF EarlyOK
<1>2. CASE ContainersChecked
  <2>1. /\ pc = "containers" /\ todo = {} /\ pc' = "codes" /\ after' = after
        /\ UNCHANGED <<task, strangers, container, early>>
    BY <1>2 DEF ContainersChecked, Loop, runner, images, docker
  <2>2. after = "end" => \A s \in early : Vouched(s)
    BY <2>1 DEF EarlyOK, Vouched
  <2>3. \A s : Vouched(s)' <=> Vouched(s)
    BY <2>1 DEF Vouched
  <2> QED BY <2>1, <2>2, <2>3 DEF EarlyOK
<1>3. CASE \E p \in DOMAIN procs : CodeAccepted(p)
  BY <1>3, EarlyQuiet DEF CodeAccepted, runner, images, docker, waiting
<1>4. CASE (\E s \in Services : ContainerMissed(s)) \/ (\E p \in DOMAIN procs : CodeRefused(p))
  <2>1. exc' # None /\ pc' = "post" /\ pc \in {"containers", "codes"}
    BY <1>4 DEF ContainerMissed, CodeRefused, None
  <2>2. UNCHANGED <<task, strangers, queue, early, container>>
    BY <1>4 DEF ContainerMissed, CodeRefused, runner, images, docker, waiting
  <2> QED BY <2>1, <2>2, EarlyQuiet
<1> QED BY <1>1, <1>2, <1>3, <1>4 DEF Check

(* All services are looked at again when the flows are over.               *)
LEMMA EarlyFlows == ASSUME SortOK, EarlyOK, Flows PROVE EarlyOK'
<1> USE DEF Fail, Goto, Unsorted, Ending0, Turn
<1>1. UNCHANGED <<task, strangers, queue, early, container>>
  BY DEF Flows, CollectPackages, CollectFails, StartFlow, Execute, FlowFails, FlowTimesOut, HandOver,
     FlowChecked, FlowsDone, Finish, runner, images, docker, waiting
<1>2. CASE FlowsDone
  <2>1. pc = "flow" /\ pc' = "containers" /\ todo' = task.services
    BY <1>2 DEF FlowsDone, Loop
  <2> QED BY <1>1, <2>1 DEF EarlyOK
<1>3. CASE CollectPackages \/ StartFlow \/ Execute \/ HandOver \/ FlowChecked
  <2>1. /\ pc \in {"codes", "flow", "command"} /\ pc' \in {"codes", "flow", "command"}
        /\ pc' = "codes" => after' = "flown"
    BY <1>3 DEF CollectPackages, StartFlow, Execute, HandOver, FlowChecked
  <2> QED BY <1>1, <2>1, EarlyQuiet
<1>4. CASE CollectFails \/ FlowFails \/ FlowTimesOut
  <2>1. exc' # None /\ pc' = "post" /\ pc \in {"codes", "flow", "command"}
    BY <1>4 DEF CollectFails, FlowFails, FlowTimesOut, None
  <2> QED BY <1>1, <2>1, EarlyQuiet
<1>5. CASE Finish
  <2>1. pc = "codes" /\ after = "end" /\ pc' = "post"
    BY <1>5 DEF Finish
  <2> QED BY <1>1, <2>1, EarlyQuiet
<1> QED BY <1>2, <1>3, <1>4, <1>5 DEF Flows

(* Afterwards nobody looks any more.                                       *)
LEMMA EarlyEnd == ASSUME HostOK, EarlyOK, End PROVE EarlyOK'
<1> USE DEF Goto, Unsorted, Ending0, Turn
<1>1. /\ UNCHANGED <<task, strangers, queue, early>>
      /\ pc \in Ending0 /\ pc' \in Ending0
      /\ exc' = exc \/ exc' \in {"stubborn", "docker"}
  BY DEF End, Kill, KillFails, Reap, ReapFails, PostDone, RemoveContainer, RemoveImages,
         CleanupFails, Over, runner, images, docker, waiting, control
<1>2. None \notin {"stubborn", "docker"}
  BY DEF None
<1>3. ASSUME NEW r \in Services, RemoveContainer(r) PROVE EarlyOK'
  <2>1. \A s \in Services : container'[s] = "running" => container[s] = "running"
    BY <1>3 DEF RemoveContainer, HostOK
  <2>2. \A s : Vouched(s)' <=> Vouched(s)
    BY <1>1 DEF Vouched
  <2> QED BY <1>1, <1>2, <2>1, <2>2 DEF EarlyOK
<1>4. CASE ~ \E s \in Services : RemoveContainer(s)
  <2>1. UNCHANGED container
    BY <1>4 DEF End, Kill, KillFails, Reap, ReapFails, PostDone, RemoveImages, CleanupFails, Over,
                docker
  <2> QED BY <1>1, <1>2, <2>1, EarlyQuiet
<1> QED BY <1>3, <1>4

(* What exits before it is looked at has run, and was somebody's business. *)
LEMMA EarlyEnvironment == ASSUME SortOK, HostOK, EarlyOK, Environment PROVE EarlyOK'
<1> USE DEF Unsorted, Ending0, Turn
<1>1. CASE (\E p \in DOMAIN procs : ProcessEnds(p)) \/ (\E s \in Services : HealthTurns(s))
  BY <1>1, EarlyQuiet DEF ProcessEnds, HealthTurns, runner, images, docker, waiting, control
<1>2. ASSUME NEW s \in Services, ContainerExits(s) PROVE EarlyOK'
  <2>1. /\ container[s] = "running" /\ s \notin strangers
        /\ \A t \in Services : container'[t] = IF t = s THEN "exited" ELSE container[t]
        /\ UNCHANGED <<task, strangers, queue, pc, after, exc, todo>>
    BY <1>2 DEF ContainerExits, HostOK, runner, images, waiting, control
  <2>2. early' = IF CheckAhead(s) THEN early \cup {s} ELSE early
    BY <1>2 DEF ContainerExits
  <2>3. s \in task.services /\ pc \notin Unsorted \cup {"order"}
    BY <2>1 DEF EarlyOK, HostOK, Outside
  <2>4. CheckAhead(s) => /\ pc \notin Ending0
                         /\ ~ (pc = "codes" /\ after = "end")
                         /\ pc = "containers" /\ after = "end" => s \in todo
    BY DEF CheckAhead, Ending
  <2>5. pc = "containers" /\ after = "end" => \A u \in early' :
          \/ u \in todo
          \/ \E t \in Lookalikes[u] : t \in task.services \cup strangers /\ (t \in early' => t \in todo)
    BY <2>2, <2>4 DEF EarlyOK
  <2>6. (pc = "codes" /\ after = "end") \/ (pc \in Ending0 /\ exc = None) =>
          early' = early /\ \A u \in early : Vouched(u)
    BY <2>2, <2>4 DEF EarlyOK
  <2>7. early' = early => \A u : Vouched(u)' <=> Vouched(u)
    BY <2>1 DEF Vouched
  <2>8. pc \in Turn \cup {"service"} => \A i \in 1 .. Len(queue) :
          /\ \A j \in 1 .. i - 1 : queue[i] # queue[j]
          /\ container'[queue[i]] = "running" \/ queue[i] \in early' => i = 1 /\ pc = "setup"
    <3> SUFFICES ASSUME pc \in Turn \cup {"service"}, NEW i \in 1 .. Len(queue),
                        container'[queue[i]] = "running" \/ queue[i] \in early'
                 PROVE  i = 1 /\ pc = "setup"
      BY DEF EarlyOK
    <3>1. container[queue[i]] = "running" \/ queue[i] \in early => i = 1 /\ pc = "setup"
      BY DEF EarlyOK
    <3>2. CASE queue[i] = s
      BY <2>1, <3>1, <3>2
    <3>3. CASE queue[i] # s
      <4>1. queue[i] \in early' => queue[i] \in early
        BY <2>2, <3>3
      <4>2. container'[queue[i]] = container[queue[i]]
        BY <1>2, <3>3 DEF ContainerExits
      <4> QED BY <3>1, <4>1, <4>2
    <3> QED BY <3>2, <3>3
  <2> QED BY <2>1, <2>2, <2>3, <2>5, <2>6, <2>7, <2>8 DEF EarlyOK
<1> QED BY <1>1, <1>2 DEF Environment

(* All steps keep what is known of dead containers.                        *)
LEMMA EarlyStays ==
  ASSUME SortOK, PlaceOK, HostOK, EarlyOK, [Next]_vars PROVE EarlyOK'
<1>1. CASE Done \/ UNCHANGED vars
  BY <1>1, EarlyQuiet DEF Done, vars, runner, images, docker, waiting, control
<1> QED
  BY <1>1, EarlyBegin, EarlyOrder, EarlySetup, EarlyCheck, EarlyFlows, EarlyEnd, EarlyEnvironment
  DEF Next, Step

-----------------------------------------------------------------------------
(* What is shared out is there.                                            *)
LEMMA SharesFit ==
  ASSUME task \in Scenarios, Left >= 0
  PROVE  /\ Limits \in [Services -> Nat]
         /\ Sum(Limits, task.services) <= Memory
         /\ \A s \in Rest : Limits[s] = 0 => Left < Cardinality(Rest)
<1> DEFINE n == Cardinality(Rest)
           taken == Sum(task.memory, Limited)
<1>1. /\ task.memory \in [Services -> Nat \cup {-1}] /\ task.services \subseteq Services
      /\ IsFiniteSet(task.services)
  BY ScenarioAssumption, FileAssumption DEF Scenario
<1>2. /\ IsFiniteSet(Limited) /\ Limited \subseteq task.services
      /\ \A s \in Limited : task.memory[s] \in Nat
  BY <1>1, FS_Subset DEF Limited
<1>3. /\ IsFiniteSet(Rest) /\ Rest \subseteq Services /\ n \in Nat
      /\ (n = 0 <=> Rest = {})
  BY <1>1, FS_Subset, FS_CardinalityType, FS_EmptySet DEF Rest
<1>4. taken \in Nat /\ Memory \in Nat /\ Left = Memory - taken /\ Left \in Nat
  <2>1. taken \in Nat
    BY <1>2, SumIsNat
  <2>2. Left = Memory - taken
    BY DEF Left
  <2> HIDE DEF taken
  <2> QED BY <2>1, <2>2, MemoryAssumption
<1>5. /\ Share \in Nat /\ n * Share <= Left
      /\ Rest # {} /\ Share = 0 => Left < n
  <2> HIDE DEF n, taken
  <2>1. CASE Rest = {}
    BY <1>3, <1>4, <2>1 DEF Share
  <2>2. CASE Rest # {}
    <3>1. Share = Left \div n /\ n \in Nat \ {0}
      BY <1>3, <2>2 DEF Share, n
    <3>2. \A a \in Nat, b \in Nat \ {0} :
            a \div b \in Nat /\ b * (a \div b) <= a /\ (a \div b = 0 => a < b)
      OBVIOUS
    <3> QED BY <1>4, <3>1, <3>2
  <2> QED BY <2>1, <2>2
<1>6. Limits \in [Services -> Nat]
  BY <1>2, <1>5 DEF Limits
<1>7. Sum(Limits, Limited) = taken
  <2>1. \A s \in Limited : Limits[s] \in Nat /\ Limits[s] = task.memory[s]
    BY <1>1, <1>2 DEF Limits
  <2> QED BY <1>2, <2>1, SumIsOfMembers
<1>8. Sum(Limits, Rest) = Share * n
  <2>1. \A s \in Rest : Limits[s] = Share
    BY <1>3 DEF Limits, Rest
  <2> QED BY <1>3, <1>5, <2>1, SumOfEquals
<1>9. Sum(Limits, task.services) = taken + Share * n
  <2>1. \A s \in task.services : Limits[s] \in Nat
    BY <1>1, <1>6
  <2>2. Sum(Limits, task.services) = Sum(Limits, Limited) + Sum(Limits, task.services \ Limited)
    BY <1>1, <1>2, <2>1, SumOfParts
  <2> QED BY <1>7, <1>8, <2>2 DEF Rest
<1>10. \A s \in Rest : Limits[s] = Share
  BY <1>3 DEF Limits, Rest
<1> HIDE DEF n, taken
<1>11. \A a, b, c, d \in Nat : a * b <= d - c => c + b * a <= d
  OBVIOUS
<1>12. taken + Share * n <= Memory
  BY <1>3, <1>4, <1>5, <1>11
<1> QED BY <1>5, <1>6, <1>9, <1>10, <1>12 DEF n

(* A step that leaves the limits and what they follow from alone.          *)
LEMMA LimitsQuiet ==
  ASSUME LimitsOK, UNCHANGED <<task, limit>>, row'.branch = row.branch,
         pc' \in {"clone", "load", "limits", "names"} => pc \in {"clone", "load", "limits", "names"},
         pc' = "names" => pc = "names"
  PROVE  LimitsOK'
<1>1. Left' = Left /\ Limits' = Limits
  BY DEF Left, Limited, Limits, Share, Rest
<1> QED BY <1>1 DEF LimitsOK

(* The limits of a file stay.                                              *)
LEMMA LimitsStay ==
  ASSUME SortOK, LimitsOK, RestOK, [Next]_vars PROVE LimitsOK'
<1> USE DEF Fail, Goto
<1>1. CASE NextFile
  BY <1>1 DEF NextFile, LimitsOK
<1>2. CASE Load
  BY <1>2 DEF Load, LimitsOK, images
<1>3. CASE SetLimits
  <2>1. /\ pc = "limits" /\ pc' = "names" /\ Left >= 0 /\ limit' = Limits
        /\ UNCHANGED <<task, row>>
    BY <1>3 DEF SetLimits, Limits, runner
  <2>2. Left' = Left /\ Limits' = Limits
    BY <2>1 DEF Left, Limited, Limits, Share, Rest
  <2>3. Limits \in [Services -> Nat]
    BY <2>1, SharesFit DEF SortOK
  <2> QED BY <2>1, <2>2, <2>3 DEF LimitsOK
<1>4. CASE Initialize
  <2>1. /\ pc = "names" /\ pc' = "build" /\ UNCHANGED <<task, limit>>
    BY <1>4 DEF Initialize
  <2>2. Left' = Left /\ Limits' = Limits
    BY <2>1 DEF Left, Limited, Limits, Share, Rest
  <2> QED BY <2>1, <2>2 DEF LimitsOK
<1>5. CASE Begin /\ ~ (NextFile \/ Load \/ SetLimits \/ Initialize)
  BY <1>5, LimitsQuiet DEF Begin, Clone, CloneFails, LoadFails, RelationsFail,
       LimitsExceeded, NameTaken, Build, BuildFails, Network, NetworkFails, runner,
       images, sorting, waiting, docker, running, control
<1>6. CASE Order
  BY <1>6, LimitsQuiet DEF Order, Root, Descend, OrderFails, Return, Ordered, runner,
       images, sorting, waiting, docker, running, control
<1>7. CASE Setup
  BY <1>7, LimitsQuiet DEF Setup, Prepare, Refuse, ResetContainer, WaitFor, Inspect, InspectHealth,
       HealthFails, Satisfied, Sleep, GiveUp, Run, RunFails, SetUp, SetUpFails, SettingUp,
       ServiceDone, ServicesDone, Loop, runner, images, sorting, waiting, docker, running,
       control
<1>8. CASE Check
  BY <1>8, LimitsQuiet DEF Check, ContainerFound, ContainerMissed, ContainersChecked,
       CodeAccepted, CodeRefused, Loop, runner, images, sorting, waiting, docker, running,
       control
<1>9. CASE CollectPackages
  <2>1. row'.branch = row.branch
    BY <1>9 DEF CollectPackages, RestOK
  <2> QED BY <1>9, <2>1, LimitsQuiet DEF CollectPackages, images
<1>10. CASE Flows /\ ~ CollectPackages
  BY <1>10, LimitsQuiet DEF Flows, CollectFails, StartFlow, Execute,
       FlowFails, FlowTimesOut, HandOver, FlowChecked, FlowsDone, Finish, Loop, runner, images, sorting,
       waiting, docker, running, control
<1>11. CASE End
  BY <1>11, LimitsQuiet DEF End, Kill, KillFails, Reap, ReapFails, PostDone,
       RemoveContainer, RemoveImages, CleanupFails, Over,
       runner, images, sorting, waiting, docker, running, control
<1>12. CASE Environment
  BY <1>12, LimitsQuiet DEF Environment, ProcessEnds, ContainerExits, HealthTurns, runner,
       images, sorting, waiting, docker, running, control
<1>13. CASE Done \/ UNCHANGED vars
  BY <1>13, LimitsQuiet DEF Done, vars, runner, images, sorting, waiting, docker, running,
       control
<1> QED
  BY <1>1, <1>2, <1>3, <1>4, <1>5, <1>6, <1>7, <1>8, <1>9, <1>10, <1>11, <1>12, <1>13
     DEF Next, Step

(* The queue is what has been put in order.                                *)
LEMMA QueueStays ==
  ASSUME SortOK, PlaceOK, QueueOK, [Next]_vars PROVE QueueOK'
<1>1. CASE NextFile
  BY <1>1 DEF NextFile, QueueOK
<1>2. CASE Ordered
  BY <1>2 DEF Ordered, QueueOK, Elements, sorting
<1>3. CASE Return
  <2>1. /\ queue' = queue /\ ordered' = Append(ordered, Top) /\ ordered \in Seq(Services)
    BY <1>3 DEF Return, waiting, SortOK
  <2>2. Elements(ordered) \subseteq Elements(ordered')
    <3>1. \A i \in 1 .. Len(ordered) : i \in 1 .. Len(ordered') /\ ordered'[i] = ordered[i]
      BY <2>1
    <3> QED BY <3>1 DEF Elements
  <2> QED BY <2>1, <2>2 DEF QueueOK, Elements
<1>4. CASE ServiceDone
  <2>1. /\ queue' = Tail(queue) /\ queue # <<>> /\ queue \in Seq(Services) /\ ordered' = ordered
    BY <1>4 DEF ServiceDone, PlaceOK, sorting, Turn
  <2>2. \A i \in 1 .. Len(queue') : queue'[i] = queue[i + 1] /\ i + 1 \in 1 .. Len(queue)
    BY <2>1
  <2> QED BY <2>1, <2>2 DEF QueueOK, Elements
<1>5. CASE UNCHANGED <<queue, ordered>>
  BY <1>5 DEF QueueOK, Elements
<1>6. CASE (Begin /\ ~ NextFile) \/ (Order /\ ~ Ordered /\ ~ Return)
  BY <1>6, <1>5 DEF Begin, Clone, CloneFails, Load, LoadFails, RelationsFail, SetLimits,
       LimitsExceeded, Initialize, NameTaken, Build, BuildFails, Network, NetworkFails,
       Order, Root, Descend, OrderFails, sorting, waiting
<1>7. CASE Setup /\ ~ ServiceDone
  BY <1>7, <1>5 DEF Setup, Prepare, Refuse, WaitFor, Inspect, InspectHealth,
       HealthFails, Satisfied, Sleep, GiveUp, Run, RunFails, SetUp, SetUpFails,
       ServicesDone, sorting, waiting
<1>8. CASE Check \/ Flows
  BY <1>8, <1>5 DEF Check, ContainerFound, ContainerMissed, ContainersChecked, CodeAccepted,
       CodeRefused, Flows, CollectPackages, CollectFails, StartFlow, Execute,
       FlowFails, FlowTimesOut, HandOver, FlowChecked, FlowsDone, Finish, sorting, waiting
<1>9. CASE End \/ Environment
  BY <1>9, <1>5 DEF End, Kill, KillFails, Reap, ReapFails, PostDone,
       RemoveContainer, RemoveImages, CleanupFails, Over,
       Environment, ProcessEnds, ContainerExits, HealthTurns, sorting, waiting
<1>10. CASE Done \/ UNCHANGED vars
  BY <1>10, <1>5 DEF Done, vars, sorting, waiting
<1> QED
  BY <1>1, <1>2, <1>3, <1>4, <1>6, <1>7, <1>8, <1>9, <1>10 DEF Next, Step

(* The types of where the runner goes when it fails, or on.                *)
LEMMA GoingIsTyped ==
  ASSUME RestOK, ProcsTyped
  PROVE  /\ listed \subseteq Nat
         /\ \A reason \in Exceptions : Fail(reason) =>
              /\ todo' \subseteq Services \cup Nat /\ exc' \in Exceptions
              /\ after' \in {"over", "booted", "flown", "end"}
         /\ \A place : Goto(place) =>
              /\ todo' \subseteq Services \cup Nat /\ exc' \in Exceptions
              /\ after' \in {"over", "booted", "flown", "end"}
<1>1. listed \subseteq Nat
  BY DEF ProcsTyped
<1> QED BY <1>1 DEF RestOK, Fail, Goto

(* The types of what a file begins with.                                   *)
LEMMA RestBegin == ASSUME SortOK, RestOK, ProcsTyped, Begin PROVE RestOK'
<1>1. task.services \subseteq Services
  BY TaskIsScenario DEF SortOK
<1>2. CASE NextFile
  BY <1>2, BoundAssumption DEF NextFile, RestOK
<1>3. CASE Clone
  <2>1. branch' \in Branches \cup {None, "detached"}
    BY <1>3, BranchAssumption DEF Clone, RestOK
  <2> QED BY <1>3, <2>1, GoingIsTyped DEF Clone, RestOK, images, sorting, waiting, docker, control
<1>4. CASE Initialize
  <2>1. row' \in [branch : Branches \cup {None, "detached"}, packages : SUBSET Services]
    BY <1>4 DEF Initialize, RestOK
  <2> QED BY <1>1, <1>4, <2>1 DEF Initialize, RestOK, waiting, docker
<1>5. ASSUME NEW s \in Services, Build(s) PROVE RestOK'
  BY <1>5 DEF Build, RestOK, runner, waiting, docker
<1>6. CASE Load \/ SetLimits \/ Network
  BY <1>6, GoingIsTyped DEF Load, SetLimits, Network, RestOK, runner, images, waiting, docker
<1>7. CASE \/ CloneFails \/ LoadFails \/ RelationsFail \/ LimitsExceeded \/ NameTaken \/ NetworkFails
           \/ \E s \in Services : BuildFails(s)
  <2>1. PICK reason \in Exceptions : Fail(reason)
    BY <1>7 DEF CloneFails, LoadFails, RelationsFail, LimitsExceeded, NameTaken, NetworkFails,
         BuildFails, Exceptions
  <2>2. UNCHANGED <<runner, strangers, waiting, docker>>
    BY <1>7 DEF CloneFails, LoadFails, RelationsFail, LimitsExceeded, NameTaken, NetworkFails,
         BuildFails, images
  <2> QED BY <2>1, <2>2, GoingIsTyped DEF RestOK, runner, waiting, docker
<1> QED BY <1>2, <1>3, <1>4, <1>5, <1>6, <1>7 DEF Begin

(* ... while services are put in order                                     *)
LEMMA RestOrder == ASSUME RestOK, ProcsTyped, Order PROVE RestOK'
<1>1. CASE \E d \in Services \cup {Unknown} : OrderFails(d)
  <2>1. PICK reason \in Exceptions : Fail(reason)
    BY <1>1 DEF OrderFails, Exceptions
  <2>2. UNCHANGED <<runner, strangers, waiting, docker>>
    BY <1>1 DEF OrderFails, images
  <2> QED BY <2>1, <2>2, GoingIsTyped DEF RestOK, runner, waiting, docker
<1>2. CASE \/ \E s \in Services : Root(s) \/ Descend(s)
           \/ Return \/ Ordered
  BY <1>2, GoingIsTyped DEF Root, Descend, Return, Ordered, RestOK, runner, images, waiting, docker,
     control
<1> QED BY <1>1, <1>2 DEF Order

(* ... and set up                                                          *)
LEMMA RestSetup ==
  ASSUME SortOK, PlaceOK, QueueOK, ReadyOK, RestOK, ProcsTyped, Setup PROVE RestOK'
<1>1. task.services \subseteq Services
  BY TaskIsScenario DEF SortOK
<1>2. CASE Prepare
  <2>1. task.needs[Current] \subseteq Services
    <3>1. queue # <<>> /\ Current = queue[1] /\ 1 \in 1 .. Len(queue)
      BY <1>2 DEF Prepare, PlaceOK, Current
    <3>2. PICK i \in 1 .. Len(ordered) : Current = ordered[i]
      BY <3>1 DEF QueueOK, Elements
    <3>3. task.needs[Current] \subseteq {ordered[j] : j \in 1 .. i - 1}
      BY <3>2 DEF SortOK, DependenciesFirst
    <3>4. \A j \in 1 .. i - 1 : ordered[j] \in Services
      BY <3>2 DEF SortOK
    <3> QED BY <3>3, <3>4
  <2>2. gone' \subseteq Services /\ wanted' = task.needs[Current]
        /\ UNCHANGED <<target, waited, healed>> /\ UNCHANGED <<runner, images>>
    BY <1>2 DEF Prepare
  <2> QED BY <1>2, <2>1, <2>2, GoingIsTyped DEF Prepare, RestOK, runner, images
<1>3. ASSUME NEW d \in Services, WaitFor(d) PROVE RestOK'
  BY <1>3, BoundAssumption, GoingIsTyped DEF WaitFor, RestOK, runner, images, docker
<1>4. CASE Sleep
  <2>1. waited' \in 0 .. MaxWaiting - 1
    BY <1>4, BoundAssumption DEF Sleep, RestOK
  <2> QED BY <1>4, <2>1, GoingIsTyped DEF Sleep, RestOK, runner, images, docker
<1>5. CASE Inspect \/ InspectHealth \/ Satisfied \/ ServiceDone
  BY <1>5, GoingIsTyped DEF Inspect, InspectHealth, Satisfied, ServiceDone, RestOK, runner, images,
     docker
<1>6. CASE Run
  BY <1>6 DEF Run, RestOK, runner, waiting
<1>7. CASE SetUp
  BY <1>7 DEF SetUp, RestOK, runner, images, waiting, docker
<1>8. CASE ServicesDone
  BY <1>1, <1>8 DEF ServicesDone, Loop, RestOK, runner, images, waiting, docker
<1>9. CASE Refuse \/ HealthFails \/ GiveUp \/ RunFails \/ SetUpFails
  <2>1. PICK reason \in Exceptions : Fail(reason)
    BY <1>9 DEF Refuse, HealthFails, GiveUp, RunFails, SetUpFails, Exceptions
  <2>2. UNCHANGED <<runner, strangers, waiting, healed>>
    BY <1>9 DEF Refuse, HealthFails, GiveUp, RunFails, SetUpFails, images, docker
  <2> QED BY <2>1, <2>2, GoingIsTyped DEF RestOK, runner, waiting
<1> QED BY <1>2, <1>3, <1>4, <1>5, <1>6, <1>7, <1>8, <1>9 DEF Setup

(* ... and used                                                            *)
LEMMA RestFlows == ASSUME SortOK, RestOK, ProcsTyped, Check \/ Flows PROVE RestOK'
<1>1. task.services \subseteq Services /\ listed \subseteq Nat /\ DOMAIN procs \subseteq Nat
  BY TaskIsScenario, GoingIsTyped DEF SortOK, ProcsTyped
<1>2. CASE \/ \E s \in Services : ContainerFound(s)
           \/ \E p \in DOMAIN procs : CodeAccepted(p)
  BY <1>2 DEF ContainerFound, CodeAccepted, RestOK, runner, images, waiting, docker
<1>3. CASE ContainersChecked \/ FlowsDone
  <2>1. todo' \subseteq Services \cup Nat
    BY <1>1, <1>3 DEF ContainersChecked, FlowsDone, Loop, Watched
  <2> QED BY <1>3, <2>1 DEF ContainersChecked, FlowsDone, Loop, RestOK, runner, images, waiting, docker
<1>4. CASE CollectPackages
  <2>1. packages' \subseteq Services
    BY <1>1, <1>4 DEF CollectPackages, RestOK
  <2>2. row' \in [branch : Branches \cup {None, "detached"}, packages : SUBSET Services]
    BY <1>4, <2>1 DEF CollectPackages, RestOK
  <2> QED BY <1>4, <2>1, <2>2 DEF CollectPackages, RestOK, images, waiting, docker
<1>5. CASE StartFlow \/ Execute \/ FlowChecked
  BY <1>5 DEF StartFlow, Execute, FlowChecked, RestOK, runner, images, waiting, docker
<1>6. CASE HandOver \/ Finish
  <2>1. todo' \subseteq Services \cup Nat
    BY <1>1, <1>6 DEF HandOver, Finish
  <2> QED BY <1>6, <2>1 DEF HandOver, Finish, RestOK, runner, images, waiting, docker
<1>7. CASE \/ \E s \in Services : ContainerMissed(s)
           \/ \E p \in DOMAIN procs : CodeRefused(p)
           \/ CollectFails \/ FlowFails \/ FlowTimesOut
  <2>1. PICK reason \in Exceptions : Fail(reason)
    BY <1>7 DEF ContainerMissed, CodeRefused, CollectFails, FlowFails, FlowTimesOut, Exceptions
  <2>2. UNCHANGED <<runner, strangers, waiting, docker>>
    BY <1>7 DEF ContainerMissed, CodeRefused, CollectFails, FlowFails, FlowTimesOut, images
  <2> QED BY <2>1, <2>2, GoingIsTyped DEF RestOK, runner, waiting, docker
<1> QED BY <1>2, <1>3, <1>4, <1>5, <1>6, <1>7 DEF Check, Flows

(* ... and are stopped, and whatever they do meanwhile.                    *)
LEMMA RestEnd == ASSUME HostOK, RestOK, ProcsTyped, End \/ Environment PROVE RestOK'
<1>1. CASE \E p \in DOMAIN procs : Kill(p) \/ KillFails(p) \/ Reap(p) \/ ReapFails(p)
  BY <1>1 DEF Kill, KillFails, Reap, ReapFails, RestOK, Exceptions, runner, images, waiting, docker
<1>2. CASE PostDone \/ (\E s \in Services : RemoveContainer(s)) \/ RemoveImages \/ CleanupFails \/ Over
  BY <1>2, GoingIsTyped DEF PostDone, RemoveContainer, RemoveImages, CleanupFails, Over, RestOK,
     Exceptions, runner, images, waiting, docker, control
<1>3. CASE Environment
  BY <1>3 DEF Environment, ProcessEnds, ContainerExits, HealthTurns, RestOK, runner, images, waiting,
     docker, control
<1> QED BY <1>1, <1>2, <1>3 DEF End

(* All steps keep the types of the rest.                                   *)
LEMMA RestStays ==
  ASSUME SortOK, PlaceOK, QueueOK, HostOK, ReadyOK, RestOK, ProcsTyped, [Next]_vars PROVE RestOK'
<1>1. CASE Done \/ UNCHANGED vars
  BY <1>1 DEF Done, vars, RestOK, runner, images, waiting, docker, control
<1> QED
  BY <1>1, RestBegin, RestOrder, RestSetup, RestFlows, RestEnd DEF Next, Step

-----------------------------------------------------------------------------
(* The inductive invariant: all of it is kept by every step.               *)
IInv ==
  /\ SortOK /\ PlaceOK /\ QueueOK /\ ProcsOK /\ HostOK /\ ReadyOK /\ ImagesOK /\ EarlyOK
  /\ LimitsOK /\ RestOK

(* The runner has not begun with any file.                                 *)
LEMMA InitHolds == ASSUME Init PROVE IInv
<1>1. /\ task \in Scenarios /\ stack = <<>> /\ ordered = <<>> /\ visited = {} /\ queue = <<>>
      /\ procs = <<>> /\ listed = {} /\ late = {} /\ flow = 0 /\ command = 1
      /\ pc = "over" /\ exc = None /\ strangers \subseteq Services /\ seen = NothingSeen
      /\ container = [s \in Services |-> IF s \in strangers THEN "running" ELSE "absent"]
      /\ health = [s \in Services |-> None] /\ used = [s \in Services |-> NoImage]
      /\ files \in 0 .. MaxFiles /\ DOMAIN procs = {}
  BY ScenarioAssumption, StrangerAssumption, BoundAssumption DEF Init, NoTask
<1>2. SortOK
  BY <1>1 DEF SortOK, DependenciesFirst, Elements, Unsorted, Ending0, None
<1>3. PlaceOK
  BY <1>1 DEF PlaceOK, Unsorted, Turn
<1>4. ProcsOK
  BY <1>1 DEF ProcsOK, ProcsTyped, NoticedOK, KilledOK, BeforeFlows, Everywhere, Ending0
<1>5. HostOK
  BY <1>1 DEF HostOK, Ending0, Unnamed, Outside, Alive, None
<1>6. ReadyOK
  BY <1>1 DEF ReadyOK, Turn, NothingSeen, None
<1>7. ImagesOK
  <2>1. NoImage \in [image : Images \cup {None}, file : 0 .. MaxFiles]
    BY BoundAssumption DEF NoImage
  <2>2. tags \in [Tags -> [image : Images \cup {None}, file : 0 .. MaxFiles]]
    <3>1. tags = [t \in Tags |-> [image |-> CHOOSE i \in Images : Tag[i] = t, file |-> MaxFiles]]
      BY DEF Init
    <3>2. \A t \in Tags : (CHOOSE i \in Images : Tag[i] = t) \in Images
      BY DEF Tags
    <3> QED BY <3>1, <3>2, BoundAssumption
  <2> QED BY <1>1, <2>1, <2>2 DEF ImagesOK, ImagesAreFresh, Unsorted, Ending0
<1>8. EarlyOK
  <2>1. early = {}
    BY DEF Init
  <2> QED BY <1>1, <2>1 DEF EarlyOK, Turn
<1>9. QueueOK
  BY <1>1 DEF QueueOK
<1>10. LimitsOK
  BY <1>1 DEF Init, LimitsOK
<1>11. RestOK
  BY BoundAssumption, BranchAssumption DEF Init, RestOK, Exceptions
<1> QED
  BY <1>2, <1>3, <1>4, <1>5, <1>6, <1>7, <1>8, <1>9, <1>10, <1>11 DEF IInv

(* Whatever the runner, its containers and its processes do, the invariant *)
(* holds.                                                                  *)
THEOREM Invariant == Spec => []IInv
<1>1. IInv /\ [Next]_vars => IInv'
  BY SortStays, PlaceStays, QueueStays, ProcsStays, HostStays, ReadyStays, ImagesStay, EarlyStays,
     LimitsStay, RestStays DEF IInv, ProcsOK
<1> QED BY <1>1, InitHolds, PTL DEF Spec

(* Types of every reachable state, of any scenarios and any number of      *)
(* files, services and processes.                                          *)
THEOREM TypeCorrect == Spec => []TypeOK
<1>1. IInv => TypeOK
  <2> SUFFICES ASSUME IInv PROVE TypeOK
    OBVIOUS
  <2>1. visited \subseteq Services
    <3>1. Elements(stack) \subseteq Services /\ Elements(ordered) \subseteq Services
      BY DEF IInv, SortOK, Elements
    <3> QED BY <3>1 DEF IInv, SortOK
  <2>2. procs \in Seq([on : Services \cup {Host}, detach : BOOLEAN, ignore : BOOLEAN,
                      state : {"runs", "ok", "bad", "left", "gone"}, flow : Nat])
    BY DEF IInv, ProcsOK, ProcsTyped, Proc, States
  <2>3. pc \in Places
    BY DEF IInv, ProcsOK, ProcsTyped, Everywhere, BeforeFlows, Unsorted, Turn, Ending0, Places
  <2> QED
    BY <2>1, <2>2, <2>3
    DEF IInv, TypeOK, SortOK, PlaceOK, ProcsOK, ProcsTyped, HostOK, ReadyOK, ImagesOK, EarlyOK,
        LimitsOK, RestOK
<1> QED BY <1>1, Invariant, PTL

(* The containers are given no more memory than there is, and one gets no  *)
(* limit only if the others leave nothing that can be shared.              *)
THEOREM MemoryIsEnough == Spec => []MemoryIsThere
<1>1. IInv => MemoryIsThere
  BY SharesFit DEF IInv, SortOK, LimitsOK, MemoryIsThere
<1> QED BY <1>1, Invariant, PTL

(* _order_services never puts a service before one that it depends on, and *)
(* never leaves a name in depends_on that is no service.                   *)
THEOREM DependenciesComeFirst == Spec => []DependenciesFirst
<1>1. IInv => DependenciesFirst
  BY DEF IInv, SortOK
<1> QED BY <1>1, Invariant, PTL

(* A scenario that is refused for a cycle has one, however many ways there *)
(* are from one service to another.                                        *)
THEOREM RingsAreReal == Spec => []CyclesAreReal
<1>1. IInv => CyclesAreReal
  BY DEF IInv, SortOK, CyclesAreReal, Ring
<1> QED BY <1>1, Invariant, PTL

(* A service is started when those it depends on have come up in its turn, *)
(* and have been healthy if it asked for that.                             *)
THEOREM ServicesAreReady == Spec => []StartedWhenReady
<1>1. IInv => StartedWhenReady
  BY DEF IInv, ReadyOK, Met, StartedWhenReady, Turn
<1> QED BY <1>1, Invariant, PTL

(* A command that failed is noticed before the next flow starts, and at    *)
(* the end, unless it is detached and fails after the last look.           *)
THEOREM FailuresAreNoticed == Spec => []FailuresEndTheRun
<1>1. IInv => FailuresEndTheRun
  BY DEF IInv, ProcsOK, NoticedOK, Failed, BeforeFlows, Ending0, FailuresEndTheRun
<1> QED BY <1>1, Invariant, PTL

(* Unless Docker fails in it, cleanup() leaves no container of the runner, *)
(* and no command but in somebody else's, or on the host. The runner has   *)
(* let go of those, too, but of what a failing flow has detached, or in a  *)
(* run with a process that takes a SIGKILL.                                *)
THEOREM AllIsStopped == Spec => []NothingRunsOn
<1>1. ASSUME IInv, pc = "over", exc # "docker" PROVE NothingRunsOn
  <2>1. \A s \in Services : container[s] \in {"running", "exited"} <=> s \in strangers
    BY <1>1 DEF IInv, HostOK, Outside
  <2>2. ASSUME NEW p \in DOMAIN procs, procs[p].state \in {"runs", "left"},
               procs[p].on \in task.services
        PROVE  FALSE
    <3>1. procs[p].on \in Services
      BY <1>1, <2>2, TaskIsScenario DEF IInv, SortOK
    <3>2. container[procs[p].on] = "running"
      BY <1>1, <2>2, <3>1, NamesAssumption DEF IInv, HostOK, Alive
    <3>3. task.services \cap strangers = {}
      BY <1>1, <2>2 DEF IInv, HostOK
    <3> QED BY <2>1, <2>2, <3>1, <3>2, <3>3
  <2>3. \A p \in DOMAIN procs : procs[p].state = "runs" =>
          exc = "stubborn" \/ (procs[p].flow = flow /\ exc # None)
    BY <1>1 DEF IInv, ProcsOK, KilledOK, Ending0
  <2> QED BY <2>1, <2>2, <2>3 DEF NothingRunsOn
<1>2. IInv => NothingRunsOn
  BY <1>1 DEF NothingRunsOn
<1> QED BY <1>2, Invariant, PTL

(* A container is started from an image that was made for its own file.    *)
THEOREM ImagesAreOwn == Spec => []ImagesAreFresh
<1>1. IInv => ImagesAreFresh
  BY DEF IInv, ImagesOK
<1> QED BY <1>1, Invariant, PTL

(* A run ends well only if the containers of its services were up at the   *)
(* end of the flows, but for those taken for another by their names, and   *)
(* that other one was up.                                                  *)
THEOREM DeadServicesAreNoticed == Spec => []DeadContainersAreNoticed
<1>1. IInv => DeadContainersAreNoticed
  BY DEF IInv, EarlyOK, Vouched, Ending0, DeadContainersAreNoticed
<1> QED BY <1>1, Invariant, PTL

(* The order of the services is right, and refused only if there is none.  *)
THEOREM OrdersAreRight == Spec => []OrderIsRight
<1>1. DependenciesFirst /\ CyclesAreReal => OrderIsRight
  BY DEF OrderIsRight
<1> QED BY <1>1, DependenciesComeFirst, RingsAreReal, PTL

=============================================================================
