-------------------------- MODULE PhaseStatsProofs --------------------------
(***************************************************************************)
(* Proofs about PhaseStats for runs of any length, with any number of      *)
(* flows, hidden or not, wherever they fail, for any provider, any padding *)
(* and any samples. How the phases lie in time (PhasesInOrder), which      *)
(* samples there are (SeriesOK) and what has been built and stored so far  *)
(* (BuiltOK) is enough for what is counted, stored and warned of. What the *)
(* numbers are rests on more: that samples are what was used since the one *)
(* before (SamplesOK), that the padding is between the phases (BordersOK), *)
(* and that what is stored is what the samples make (RowsOK).              *)
(***************************************************************************)
EXTENDS PhaseStats, SequenceTheorems, SumsProofs

Phase == [name : {Plan[p] : p \in 1 .. Len(Plan)}, start : Nat, end : Int,
          hidden : {Hidden(p) : p \in 1 .. Len(Plan)}]

Measuring == {"measuring", "post"}
Steps == Measuring \cup {"patched", "co2", "build", "insert", "update", "done", "crashed"}

PhasesTyped ==
  now \in Nat /\ phases \in Seq(Phase) /\ pc \in Steps

(* The runner is never so quick that a phase has no time at all.           *)
LastBegan == Len(phases) > 0 => now > phases[Len(phases)].start

(* A phase other than [RUNTIME] ends before the next one starts.           *)
PhasesInOrder ==
  /\ \A p \in DOMAIN phases :
       /\ phases[p].start <= now
       /\ Closed(p) => phases[p].start < phases[p].end /\ phases[p].end <= now
       /\ pc \notin Measuring => Closed(p)
  /\ \A p, q \in DOMAIN phases :
       p < q => /\ phases[p].start <= phases[q].start
                /\ p # Runtime => Closed(p) /\ phases[p].end <= phases[q].start
  /\ pc = "post" => LastBegan

(* Samples are from the time of the run, and of metrics that are listed as *)
(* soon as the providers are read.                                         *)
SeriesOK ==
  /\ world \in Worlds /\ now \in 0 .. MaxTime
  /\ \A m \in DOMAIN series : DOMAIN series[m] \subseteq 0 .. MaxTime
  /\ pc \in Measuring \cup {"patched"} => DOMAIN series = {Energy}
  /\ pc \notin Measuring \cup {"patched"} => DOMAIN series \subseteq listed

HasTime(rows, p) == \E r \in rows : r.phase = p /\ r.kind = "time"
Done(rows, p) == HasTime(rows, p) /\ PhaseWarnings(p) \subseteq warnings

(* Nothing is stored before everything is built; what is stored is there   *)
(* for all phases.                                                         *)
BuiltOK ==
  /\ idx \in Nat
  /\ pc \in Measuring \cup {"patched", "co2"} => idx = 1
  /\ pc \in Measuring \cup {"patched", "co2", "build", "crashed"} => stats = {}
  /\ pc = "build" => \A p \in DOMAIN phases \ {Runtime} : p < idx => Done(csv, p)
  /\ stats # {} => \A p \in DOMAIN phases \ {Runtime} : Done(stats, p)

IInv == PhasesTyped /\ PhasesInOrder /\ SeriesOK /\ BuiltOK

-----------------------------------------------------------------------------
(* A bounded set of naturals has a greatest member.                        *)
LEMMA GreatestOfNat ==
  ASSUME NEW n \in Nat, NEW S, S \subseteq 0 .. n, S # {}
  PROVE  \E x \in S : \A y \in S : x >= y
<1> DEFINE T == {n - x : x \in S}
<1>1. T \subseteq Nat /\ T # {}
  <2>1. \A x \in S : x \in Int /\ x <= n /\ n - x \in Nat
    OBVIOUS
  <2>2. PICK x \in S : TRUE
    OBVIOUS
  <2>3. n - x \in T
    OBVIOUS
  <2> QED BY <2>1, <2>3
<1>2. PICK t \in T : \A u \in T : t <= u
  <2> HIDE DEF T
  <2> QED BY <1>1, LeastNatural
<1>3. PICK x \in S : t = n - x
  OBVIOUS
<1>4. ASSUME NEW y \in S PROVE x >= y
  BY <1>2, <1>3
<1> QED BY <1>4

(* Min and Max are in their set.                                           *)
LEMMA Extremes ==
  ASSUME NEW n \in Nat, NEW S, S \subseteq 0 .. n, S # {}
  PROVE  /\ Min(S) \in S /\ Max(S) \in S
         /\ \A x \in S : Min(S) <= x /\ x <= Max(S)
<1>1. S \subseteq Nat
  OBVIOUS
<1>2. Min(S) \in S /\ \A x \in S : Min(S) <= x
  BY <1>1, LeastNatural DEF Min
<1>3. Max(S) \in S /\ \A x \in S : Max(S) >= x
  BY GreatestOfNat DEF Max
<1> QED BY <1>1, <1>2, <1>3

-----------------------------------------------------------------------------
(* A phase that is started comes after all others.                         *)
LEMMA OrderOfStart ==
  ASSUME PhasesTyped, PhasesInOrder, StartPhase
  PROVE  PhasesTyped' /\ PhasesInOrder'
<1> DEFINE next == Len(phases) + 1
           phase == [name |-> Plan[next], start |-> now, end |-> Running,
                     hidden |-> Hidden(next)]
<1>1. /\ phases' = Append(phases, phase) /\ next \in 1 .. Len(Plan)
      /\ \A p \in 1 .. Len(phases) : Closed(p) \/ p = Runtime
      /\ pc = "measuring" /\ pc' = pc /\ now' = now
  BY DEF StartPhase, PhasesTyped
<1>2. phase \in Phase
  BY <1>1 DEF Phase, PhasesTyped, Running
<1> HIDE DEF phase
<1>3. /\ phases' \in Seq(Phase) /\ Len(phases') = next /\ DOMAIN phases' = 1 .. next
      /\ phases'[next] = phase /\ \A p \in 1 .. Len(phases) : phases'[p] = phases[p]
  BY <1>1, <1>2 DEF PhasesTyped
<1>4. phase.start = now /\ phase.end = Running
  BY DEF phase
<1>5. DOMAIN phases = 1 .. Len(phases) /\ Len(phases) \in Nat /\ now \in Nat
  BY DEF PhasesTyped
<1>6. ASSUME NEW p \in DOMAIN phases'
      PROVE  /\ phases'[p].start <= now'
             /\ Closed(p)' => phases'[p].start < phases'[p].end /\ phases'[p].end <= now'
  BY <1>1, <1>3, <1>4, <1>5 DEF PhasesInOrder, Closed
<1>7. ASSUME NEW p \in DOMAIN phases', NEW q \in DOMAIN phases', p < q
      PROVE  /\ phases'[p].start <= phases'[q].start
             /\ p # Runtime => Closed(p)' /\ phases'[p].end <= phases'[q].start
  <2>1. p \in 1 .. Len(phases) /\ phases'[p] = phases[p]
    BY <1>3, <1>5, <1>7
  <2>2. CASE q = next
    BY <1>1, <1>3, <1>4, <1>5, <2>1, <2>2 DEF PhasesInOrder, Closed
  <2>3. CASE q # next
    BY <1>3, <1>5, <1>7, <2>1, <2>3 DEF PhasesInOrder, Closed
  <2> QED BY <2>2, <2>3
<1>8. PhasesInOrder'
  BY <1>1, <1>6, <1>7 DEF PhasesInOrder, Measuring
<1>9. Phase' = Phase
  BY DEF StartPhase, Phase, Plan, Hidden, Flow, Runtime
<1> QED BY <1>1, <1>3, <1>8, <1>9 DEF PhasesTyped

(* Giving open phases an end now keeps them in order, if only the last one *)
(* and [RUNTIME] are open.                                                 *)
LEMMA OrderOfEnd ==
  ASSUME PhasesTyped, PhasesInOrder, NEW E,
         \A p \in E : p \in DOMAIN phases =>
           ~Closed(p) /\ now > phases[p].start /\ p \in {Len(phases), Runtime},
         phases' = [p \in DOMAIN phases |->
                      IF p \in E THEN [phases[p] EXCEPT !.end = now] ELSE phases[p]],
         now' = now, world' = world, pc' \in Steps \ {"post"},
         pc' \in Measuring \/ \A p \in DOMAIN phases : Closed(p) \/ p \in E
  PROVE  PhasesTyped' /\ PhasesInOrder'
<1>1. DOMAIN phases = 1 .. Len(phases) /\ Len(phases) \in Nat /\ now \in Nat
  BY DEF PhasesTyped
<1>2. ASSUME NEW p \in DOMAIN phases
      PROVE  /\ phases'[p] \in Phase
             /\ phases'[p].start = phases[p].start
             /\ phases'[p].end = IF p \in E THEN now ELSE phases[p].end
  <2>1. phases[p] \in Phase
    BY DEF PhasesTyped
  <2>2. phases'[p] = IF p \in E THEN [phases[p] EXCEPT !.end = now] ELSE phases[p]
    OBVIOUS
  <2> QED BY <1>1, <2>1, <2>2 DEF Phase
<1>3. phases' \in Seq(Phase) /\ Len(phases') = Len(phases) /\ DOMAIN phases' = DOMAIN phases
  BY <1>1, <1>2 DEF PhasesTyped
<1>4. ASSUME NEW p \in DOMAIN phases, p \in E PROVE Closed(p)'
  <2>1. now # Running
    BY <1>1 DEF Running
  <2>2. phases'[p].end = now
    BY <1>2, <1>4
  <2> QED BY <2>1, <2>2 DEF Closed, Running
<1>5. ASSUME NEW p \in DOMAIN phases
      PROVE  /\ phases'[p].start <= now'
             /\ Closed(p)' => phases'[p].start < phases'[p].end /\ phases'[p].end <= now'
             /\ pc' \notin Measuring => Closed(p)'
  <2>1. CASE p \in E
    <3>1. phases[p].start < now /\ phases'[p].start = phases[p].start /\ phases'[p].end = now
      BY <1>2, <2>1
    <3>2. Closed(p)'
      BY <1>4, <2>1
    <3>3. phases[p] \in Phase
      BY DEF PhasesTyped
    <3>4. phases[p].start \in Int
      BY <3>3 DEF Phase
    <3> QED BY <1>1, <3>1, <3>2, <3>4
  <2>2. CASE p \notin E
    <3>1. Closed(p)' <=> Closed(p)
      BY <1>2, <2>2 DEF Closed, Running
    <3> QED BY <1>2, <2>2, <3>1 DEF PhasesInOrder
  <2> QED BY <2>1, <2>2
<1>6. ASSUME NEW p \in DOMAIN phases, NEW q \in DOMAIN phases, p < q
      PROVE  /\ phases'[p].start <= phases'[q].start
             /\ p # Runtime => Closed(p)' /\ phases'[p].end <= phases'[q].start
  <2>1. p # Runtime => p \notin E
    BY <1>1, <1>6
  <2> QED BY <1>2, <1>6, <2>1 DEF PhasesInOrder, Closed
<1>7. PhasesInOrder'
  BY <1>3, <1>5, <1>6 DEF PhasesInOrder
<1>8. Phase' = Phase
  BY DEF Phase, Plan, Hidden, Flow, Runtime
<1> QED BY <1>1, <1>3, <1>7, <1>8 DEF PhasesTyped

(* A step that leaves the phases alone keeps their order, if no phase is   *)
(* open any more when the runner stops measuring.                          *)
LEMMA OrderStays ==
  ASSUME PhasesTyped, PhasesInOrder, UNCHANGED <<phases, world>>, now' \in Nat, now <= now',
         pc' \in Steps, pc' \notin Measuring => pc \notin Measuring,
         pc' = "post" => LastBegan
  PROVE  PhasesTyped' /\ PhasesInOrder'
<1>1. Phase' = Phase
  BY DEF Phase, Plan, Hidden, Flow, Runtime
<1>2. PhasesTyped'
  BY <1>1 DEF PhasesTyped
<1>3. ASSUME NEW p \in DOMAIN phases
      PROVE  /\ phases[p].start <= now' /\ (Closed(p)' <=> Closed(p))
             /\ Closed(p) => phases[p].end <= now'
  <2>1. phases[p] \in Phase
    BY DEF PhasesTyped
  <2>2. phases[p].start \in Int /\ phases[p].end \in Int /\ now \in Int /\ now' \in Int
    BY <2>1 DEF Phase, PhasesTyped
  <2>3. Closed(p)' <=> Closed(p)
    BY DEF Closed, Running
  <2> QED BY <2>2, <2>3 DEF PhasesInOrder
<1>4. pc' = "post" => LastBegan'
  <2>1. Len(phases) > 0 => phases[Len(phases)] \in Phase
    BY DEF PhasesTyped
  <2>2. Len(phases) > 0 => phases[Len(phases)].start \in Int
    BY <2>1 DEF Phase
  <2> QED BY <2>2 DEF LastBegan, PhasesTyped
<1>5. PhasesInOrder'
  BY <1>3, <1>4 DEF PhasesInOrder
<1> QED BY <1>2, <1>5

(* All steps keep the phases in order.                                     *)
LEMMA PhasesStay ==
  ASSUME PhasesTyped, PhasesInOrder, [Next]_vars PROVE PhasesTyped' /\ PhasesInOrder'
<1>0. DOMAIN phases = 1 .. Len(phases) /\ Len(phases) \in Nat /\ now \in Nat
  BY DEF PhasesTyped
<1>1. CASE Tick
  BY <1>0, <1>1, OrderStays DEF Tick, PhasesTyped, Steps, Measuring
<1>2. CASE StartPhase
  BY <1>2, OrderOfStart
<1>3. ASSUME NEW p, EndPhase(p), p \in {Len(phases), Runtime}
      PROVE  PhasesTyped' /\ PhasesInOrder'
  <2>1. phases' = [q \in DOMAIN phases |->
                     IF q \in {p} THEN [phases[q] EXCEPT !.end = now] ELSE phases[q]]
    BY <1>3 DEF EndPhase
  <2>2. /\ now' = now /\ world' = world /\ pc' = pc /\ pc = "measuring"
        /\ ~Closed(p) /\ now > phases[p].start
    BY <1>3 DEF EndPhase
  <2> QED BY <1>3, <2>1, <2>2, OrderOfEnd DEF Steps, Measuring
<1>4. CASE EndLast \/ EndRuntime
  BY <1>3, <1>4 DEF EndLast, EndRuntime
<1>5. CASE Complete \/ Fail
  <2>1. LastBegan
    <3> SUFFICES ASSUME Len(phases) > 0 PROVE now > phases[Len(phases)].start
      BY DEF LastBegan
    <3>1. Len(phases) \in DOMAIN phases
      BY <1>0
    <3>2. phases[Len(phases)] \in Phase
      BY <3>1 DEF PhasesTyped
    <3>3. phases[Len(phases)].start \in Int /\ phases[Len(phases)].end \in Int
      BY <3>2 DEF Phase
    <3>4. CASE Complete
      BY <1>0, <3>1, <3>3, <3>4 DEF Complete, PhasesInOrder
    <3>5. CASE Fail
      BY <3>5 DEF Fail
    <3> QED BY <1>5, <3>4, <3>5
  <2> QED BY <1>0, <1>5, <2>1, OrderStays DEF Complete, Fail, Leave, measured, Steps, Measuring
<1>6. CASE PatchPhases
  <2>1. PICK E : E = {p \in DOMAIN phases : ~Closed(p) /\ p \in {Len(phases), Runtime}}
    OBVIOUS
  <2>2. phases' = [p \in DOMAIN phases |->
                     IF p \in E THEN [phases[p] EXCEPT !.end = now] ELSE phases[p]]
    BY <1>6, <2>1 DEF PatchPhases
  <2>3. ASSUME NEW p \in DOMAIN phases, p \in E
        PROVE  ~Closed(p) /\ now > phases[p].start /\ p \in {Len(phases), Runtime}
    <3>1. p \in 1 .. Len(phases) /\ Len(phases) \in DOMAIN phases /\ Len(phases) > 0
      BY <1>0
    <3>2. phases[p] \in Phase /\ phases[Len(phases)] \in Phase
      BY <3>1 DEF PhasesTyped
    <3>3. phases[p].start \in Int /\ phases[Len(phases)].start \in Int
      BY <3>2 DEF Phase
    <3>4. phases[p].start <= phases[Len(phases)].start
      BY <1>0, <3>1, <3>3 DEF PhasesInOrder
    <3>5. now > phases[Len(phases)].start
      BY <1>6, <3>1 DEF PatchPhases, PhasesInOrder, LastBegan
    <3> QED BY <1>0, <2>1, <2>3, <3>3, <3>4, <3>5
  <2>4. ASSUME NEW p \in DOMAIN phases PROVE Closed(p) \/ p \in E
    <3>1. p < Len(phases) \/ p = Len(phases)
      BY <1>0
    <3> QED BY <1>0, <2>1, <3>1 DEF PhasesInOrder
  <2>5. now' = now /\ world' = world /\ pc' = "patched"
    BY <1>6 DEF PatchPhases
  <2> QED BY <2>2, <2>3, <2>4, <2>5, OrderOfEnd DEF Steps, Measuring
<1>7. CASE StopProviders \/ CalculateCo2
  BY <1>0, <1>7, OrderStays DEF StopProviders, CalculateCo2, measured, Steps, Measuring
<1>8. CASE BuildPhase \/ BuildCrashes \/ SkipRuntime \/ Store \/ InsertRuntime \/ UpdateRuntime
  BY <1>0, <1>8, OrderStays DEF BuildPhase, BuildCrashes, SkipRuntime, Store, InsertRuntime,
     UpdateRuntime, measured, Steps, Measuring
<1>9. CASE UNCHANGED vars
  BY <1>0, <1>9, OrderStays DEF vars, measured, PhasesTyped, PhasesInOrder
<1> QED BY <1>1, <1>2, <1>4, <1>5, <1>6, <1>7, <1>8, <1>9 DEF Next

-----------------------------------------------------------------------------
(* What is read of a series is from the time of the run.                   *)
LEMMA ReadIsInTime ==
  ASSUME SeriesOK, pc = "patched", NEW loss, NEW m \in {Energy} \cup DOMAIN world.tracks
  PROVE  DOMAIN Read(m, loss) \subseteq 0 .. MaxTime
<1>1. CASE m = Energy
  BY <1>1 DEF SeriesOK, Read, Restrict
<1>2. CASE m # Energy
  <2>1. DOMAIN world.tracks[m] \subseteq 1 .. MaxTime
    BY <1>2, WorldAssumption DEF SeriesOK
  <2> QED BY <1>2, <2>1, TimeAssumption DEF Read, Restrict
<1> QED BY <1>1, <1>2

(* Where samples come from: the provider of energy, the reading, energy.   *)
LEMMA SeriesStay ==
  ASSUME PhasesTyped, SeriesOK, [Next]_vars PROVE SeriesOK'
<1> USE TimeAssumption
<1>1. CASE Tick
  <2>1. /\ now \in 0 .. MaxTime /\ now < MaxTime /\ now' = now + 1 /\ MaxTime \in Nat
        /\ world' = world /\ listed' = listed
    BY <1>1 DEF Tick, SeriesOK
  <2>2. PICK f : /\ DOMAIN f = DOMAIN series[Energy] \cup {now + 1}
                 /\ series' = [series EXCEPT ![Energy] = f] \/ series' = series
    <3> DEFINE used == meter + world.power[now + 1]
               taken == [t \in DOMAIN series[Energy] \cup {now + 1} |->
                           IF t = now + 1 THEN used ELSE series[Energy][t]]
    <3>1. series' = [series EXCEPT ![Energy] = taken] \/ series' = series
      BY <1>1 DEF Tick
    <3>2. DOMAIN taken = DOMAIN series[Energy] \cup {now + 1}
      OBVIOUS
    <3> HIDE DEF taken
    <3> QED BY <3>1, <3>2
  <2>3. now + 1 \in 0 .. MaxTime
    BY <2>1
  <2>4. ASSUME NEW m \in DOMAIN series' PROVE DOMAIN series'[m] \subseteq 0 .. MaxTime
    <3>1. m \in DOMAIN series /\ (series'[m] = series[m] \/ (m = Energy /\ series'[m] = f))
      BY <2>2
    <3> QED BY <2>2, <2>3, <3>1 DEF SeriesOK
  <2>5. DOMAIN series' = DOMAIN series /\ pc' = pc
    BY <1>1, <2>2 DEF Tick
  <2> QED BY <2>1, <2>3, <2>4, <2>5 DEF SeriesOK
<1>2. CASE StopProviders
  <2>1. PICK loss \in Losses :
          Import(({Energy} \cup DOMAIN world.tracks) \ Unread(loss), loss)
    BY <1>2 DEF StopProviders
  <2>2. DOMAIN series' \subseteq listed' /\ listed' \subseteq {Energy} \cup DOMAIN world.tracks
    BY <2>1 DEF Import
  <2>3. \A m \in DOMAIN series' : series'[m] = Read(m, loss)
    BY <2>1 DEF Import
  <2>4. pc = "patched" /\ pc' = "co2" /\ UNCHANGED <<now, world>>
    BY <1>2 DEF StopProviders, measured
  <2>5. \A m \in DOMAIN series' : DOMAIN series'[m] \subseteq 0 .. MaxTime
    BY <2>2, <2>3, <2>4, ReadIsInTime
  <2> QED BY <2>2, <2>4, <2>5 DEF SeriesOK, Measuring
<1>3. CASE CalculateCo2
  <2> DEFINE with == {i \in Range(Intensities) :
                        {Metric("intensity", i), Energy} \subseteq DOMAIN series}
             derived == {Metric("carbon", i) : i \in with}
  <2>1. /\ listed' = listed \cup derived
        /\ series' = [m \in DOMAIN series \cup derived |->
                        IF m \in derived THEN CarbonSeries(m.of) ELSE series[m]]
        /\ pc = "co2" /\ pc' \in {"build", "done"} /\ UNCHANGED <<now, world>>
    BY <1>3 DEF CalculateCo2, measured
  <2>2. \A m \in derived : Energy \in DOMAIN series
    OBVIOUS
  <2>3. \A m : DOMAIN CarbonSeries(m.of) = DOMAIN series[Energy]
    BY DEF CarbonSeries
  <2> HIDE DEF derived
  <2>4. \A m \in DOMAIN series' : DOMAIN series'[m] \subseteq 0 .. MaxTime
    BY <2>1, <2>2, <2>3 DEF SeriesOK
  <2>5. DOMAIN series' \subseteq listed'
    BY <2>1 DEF SeriesOK, Measuring
  <2> QED BY <2>1, <2>4, <2>5 DEF SeriesOK, Measuring
<1>4. ASSUME UNCHANGED <<world, now, series, listed>>, pc' \in Steps,
             pc \in Measuring \cup {"patched"} <=> pc' \in Measuring \cup {"patched"}
      PROVE  SeriesOK'
  BY <1>4 DEF SeriesOK
<1>5. CASE StartPhase \/ EndLast \/ EndRuntime \/ Complete \/ Fail \/ PatchPhases
  <2>1. UNCHANGED <<world, now, series, listed>>
    BY <1>5 DEF StartPhase, EndLast, EndRuntime, EndPhase, Complete, Fail, Leave, PatchPhases,
       measured, imported
  <2>2. pc' \in Steps /\ {pc, pc'} \subseteq Measuring \cup {"patched"}
    BY <1>5 DEF StartPhase, EndLast, EndRuntime, EndPhase, Complete, Fail, Leave, PatchPhases,
       Steps, Measuring
  <2> QED BY <1>4, <2>1, <2>2
<1>6. CASE BuildPhase \/ BuildCrashes \/ SkipRuntime \/ Store \/ InsertRuntime \/ UpdateRuntime
  <2>1. UNCHANGED <<world, now, series, listed>>
    BY <1>6 DEF BuildPhase, BuildCrashes, SkipRuntime, Store, InsertRuntime, UpdateRuntime,
       measured, imported
  <2>2. pc' \in Steps /\ {pc, pc'} \cap (Measuring \cup {"patched"}) = {}
    BY <1>6 DEF BuildPhase, BuildCrashes, SkipRuntime, Store, InsertRuntime, UpdateRuntime,
       Steps, Measuring
  <2> QED BY <1>4, <2>1, <2>2
<1>7. CASE UNCHANGED vars
  BY <1>4, <1>7 DEF vars, measured, imported, PhasesTyped
<1> QED BY <1>1, <1>2, <1>3, <1>5, <1>6, <1>7 DEF Next

-----------------------------------------------------------------------------
(* What a phase's warnings are does not change once samples are imported.  *)
LEMMA WarningsStay ==
  ASSUME UNCHANGED <<phases, listed, series>>, NEW p
  PROVE  PhaseWarnings(p)' = PhaseWarnings(p)
BY DEF PhaseWarnings, Counted, InPhase, Later, NextStart, Undersampled, Duration

(* A phase is built with its time and its warnings.                        *)
LEMMA BuildBuilds ==
  ASSUME PhasesTyped, BuiltOK, BuildPhase PROVE BuiltOK'
<1>1. /\ pc = "build" /\ pc' = pc /\ idx' = idx + 1 /\ idx \in Nat /\ stats' = stats
      /\ stats = {} /\ csv' = csv \cup PhaseRows(idx, baseline)
      /\ warnings' = warnings \cup PhaseWarnings(idx)
      /\ UNCHANGED <<phases, listed, series>>
  BY DEF BuildPhase, BuiltOK, measured, imported
<1>2. HasTime(csv', idx)
  <2>1. TimeRow(idx) \in csv'
    BY <1>1 DEF PhaseRows
  <2>2. TimeRow(idx).phase = idx /\ TimeRow(idx).kind = "time"
    BY DEF TimeRow, TotalRow, Row
  <2> QED BY <2>1, <2>2 DEF HasTime
<1>3. ASSUME NEW p \in DOMAIN phases \ {Runtime}, p < idx + 1
      PROVE  Done(csv, p)'
  <2>1. PhaseWarnings(p)' = PhaseWarnings(p)
    BY <1>1, WarningsStay
  <2>2. CASE p = idx
    BY <1>1, <1>2, <2>1, <2>2 DEF Done, HasTime
  <2>3. CASE p # idx
    <3>1. p < idx
      BY <1>1, <1>3, <2>3 DEF PhasesTyped
    <3>2. Done(csv, p)
      BY <1>1, <3>1 DEF BuiltOK
    <3> QED BY <1>1, <2>1, <3>2 DEF Done, HasTime
  <2> QED BY <2>2, <2>3
<1>4. pc' = "build" /\ stats' = {} /\ idx' = idx + 1 /\ idx' \in Nat /\ phases' = phases
  BY <1>1
<1> QED BY <1>3, <1>4 DEF BuiltOK, Measuring

(* Rows are stored when all phases are built, and stay.                    *)
LEMMA StoredStays ==
  ASSUME PhasesTyped, BuiltOK, SkipRuntime \/ Store \/ InsertRuntime \/ UpdateRuntime
  PROVE  BuiltOK'
<1>1. UNCHANGED <<phases, listed, series, warnings, csv>> /\ idx \in Nat
  BY DEF BuiltOK, SkipRuntime, Store, InsertRuntime, UpdateRuntime, measured, imported, built
<1>2. \A p : PhaseWarnings(p)' = PhaseWarnings(p)
  BY <1>1, WarningsStay
<1>3. CASE SkipRuntime
  <2>1. ASSUME NEW p \in DOMAIN phases \ {Runtime}, p < idx + 1 PROVE Done(csv, p)'
    <3>1. p < idx
      BY <1>1, <1>3, <2>1 DEF SkipRuntime, PhasesTyped
    <3>2. Done(csv, p)
      BY <1>3, <3>1 DEF SkipRuntime, BuiltOK
    <3> QED BY <1>1, <1>2, <3>2 DEF Done, HasTime
  <2> QED BY <1>1, <1>3, <2>1 DEF SkipRuntime, BuiltOK, Measuring
<1>4. CASE Store
  <2>1. ASSUME NEW p \in DOMAIN phases \ {Runtime} PROVE Done(stats, p)'
    <3>1. p < idx
      BY <1>1, <1>4 DEF Store, PhasesTyped
    <3>2. Done(csv, p)
      BY <1>4, <3>1 DEF Store, BuiltOK
    <3> QED BY <1>1, <1>2, <1>4, <3>2 DEF Done, HasTime, Store
  <2> QED BY <1>1, <1>4, <2>1 DEF Store, BuiltOK, Measuring, built
<1>5. CASE InsertRuntime
  <2>1. ASSUME NEW p \in DOMAIN phases \ {Runtime}, stats # {} PROVE Done(stats, p)'
    <3>1. stats \subseteq stats'
      BY <1>5 DEF InsertRuntime
    <3>2. Done(stats, p)
      BY <2>1 DEF BuiltOK
    <3> QED BY <1>1, <1>2, <3>1, <3>2 DEF Done, HasTime
  <2>2. stats = {} => stats' = {}
    BY <1>5 DEF InsertRuntime, SubPhases
  <2> QED BY <1>1, <1>5, <2>1, <2>2 DEF InsertRuntime, BuiltOK, Measuring, built
<1>6. CASE UpdateRuntime
  <2>1. ASSUME NEW p \in DOMAIN phases \ {Runtime}, stats # {} PROVE Done(stats, p)'
    <3>1. Done(stats, p)
      BY <2>1 DEF BuiltOK
    <3>2. PICK r \in stats : r.phase = p /\ r.kind = "time"
      BY <3>1 DEF Done, HasTime
    <3>3. r \in stats'
      BY <1>6, <2>1, <3>2 DEF UpdateRuntime
    <3> QED BY <1>1, <1>2, <3>1, <3>2, <3>3 DEF Done, HasTime
  <2>2. stats = {} => stats' = {}
    BY <1>6 DEF UpdateRuntime
  <2> QED BY <1>1, <1>6, <2>1, <2>2 DEF UpdateRuntime, BuiltOK, Measuring, built
<1> QED BY <1>3, <1>4, <1>5, <1>6

(* Nothing is built or stored by the other steps.                          *)
LEMMA BuiltStays ==
  ASSUME PhasesTyped, BuiltOK, [Next]_vars PROVE BuiltOK'
<1>1. CASE \/ Tick \/ StartPhase \/ EndLast \/ EndRuntime \/ Complete \/ Fail
           \/ PatchPhases \/ StopProviders
  <2>1. /\ pc \in Measuring \cup {"patched"} /\ pc' \in Measuring \cup {"patched", "co2"}
    BY <1>1 DEF Tick, StartPhase, EndLast, EndRuntime, EndPhase, Complete, Fail, Leave,
       PatchPhases, StopProviders, Measuring
  <2>2. UNCHANGED <<idx, stats>>
    BY <1>1 DEF Tick, StartPhase, EndLast, EndRuntime, EndPhase, Complete, Fail, Leave,
       PatchPhases, StopProviders, built
  <2> QED BY <2>1, <2>2 DEF BuiltOK, Measuring
<1>2. CASE CalculateCo2
  <2>1. UNCHANGED <<idx, stats, phases>> /\ pc = "co2" /\ pc' \in {"build", "done"}
    BY <1>2 DEF CalculateCo2, measured, built
  <2>2. \A p \in DOMAIN phases \ {Runtime} : ~ (p < 1)
    BY DEF PhasesTyped
  <2> QED BY <2>1, <2>2 DEF BuiltOK, Measuring
<1>3. CASE BuildCrashes
  BY <1>3 DEF BuildCrashes, BuiltOK, Measuring, built
<1>4. CASE UNCHANGED vars
  <2>1. UNCHANGED <<pc, phases, listed, series, csv, warnings, stats, idx>>
    BY <1>4 DEF vars, measured, imported, built
  <2>2. \A p : PhaseWarnings(p)' = PhaseWarnings(p)
    BY <2>1, WarningsStay
  <2> QED BY <2>1, <2>2 DEF BuiltOK, Done, HasTime
<1> QED BY <1>1, <1>2, <1>3, <1>4, BuildBuilds, StoredStays DEF Next

(* The invariant holds at the start.                                       *)
LEMMA InitHolds == ASSUME Init PROVE IInv
<1>1. PhasesTyped /\ PhasesInOrder
  BY DEF Init, PhasesTyped, PhasesInOrder, Steps, Measuring
<1>2. SeriesOK
  BY TimeAssumption DEF Init, SeriesOK, Measuring
<1>3. BuiltOK
  BY DEF Init, BuiltOK
<1> QED BY <1>1, <1>2, <1>3 DEF IInv

(* The invariant that all results of this module rest on.                  *)
THEOREM Invariant == Spec => []IInv
<1>1. IInv /\ [Next]_vars => IInv'
  BY PhasesStay, SeriesStay, BuiltStays DEF IInv
<1> QED BY <1>1, InitHolds, PTL DEF Spec

-----------------------------------------------------------------------------
(* What counts for a phase is after its start and, unless it is from the   *)
(* padding, before its end; in any case it is before the next phase.       *)
LEMMA CountedInPhase ==
  ASSUME PhasesTyped, PhasesInOrder, SeriesOK, pc \notin Measuring,
         NEW m \in DOMAIN series, NEW p \in DOMAIN phases, NEW t \in Counted(m, p)
  PROVE  /\ phases[p].start < t
         /\ p < Len(phases) => t < phases[p].end \/ t < phases[p + 1].start
<1>1. t \in Nat /\ (t \in InPhase(m, p) \/ (t \in Later(m, p) /\ t < NextStart(p)))
  BY DEF SeriesOK, Counted, InPhase, Later
<1>2. phases[p] \in Phase
  BY DEF PhasesTyped
<1>3. phases[p].start \in Int /\ phases[p].end \in Int /\ phases[p].start < phases[p].end
  BY <1>2 DEF Phase, PhasesInOrder
<1>4. CASE t \in InPhase(m, p)
  BY <1>4 DEF InPhase
<1>5. CASE t \in Later(m, p) /\ t < NextStart(p)
  BY <1>1, <1>3, <1>5 DEF Later, NextStart
<1> QED BY <1>1, <1>4, <1>5

(* Samples that count for different phases are different.                  *)
LEMMA CountedApart ==
  ASSUME PhasesTyped, PhasesInOrder, SeriesOK, pc \notin Measuring, NEW m \in DOMAIN series,
         NEW p \in DOMAIN phases \ {Runtime}, NEW q \in DOMAIN phases \ {Runtime}, p # q
  PROVE  Counted(m, p) \cap Counted(m, q) = {}
<1>1. ASSUME NEW i \in DOMAIN phases \ {Runtime}, NEW j \in DOMAIN phases \ {Runtime}, i < j,
             NEW t \in Counted(m, i), t \in Counted(m, j)
      PROVE  FALSE
  <2>2. t \in Nat
    BY <1>1 DEF SeriesOK, Counted, InPhase, Later
  <2>3. i \in Nat /\ j \in Nat /\ i < Len(phases) /\ i + 1 \in DOMAIN phases /\ i + 1 <= j
    BY <1>1 DEF PhasesTyped
  <2>4. phases[i] \in Phase /\ phases[i + 1] \in Phase /\ phases[j] \in Phase
    BY <2>3 DEF PhasesTyped
  <2>5. {phases[i].end, phases[i + 1].start, phases[j].start} \subseteq Int
    BY <2>4 DEF Phase
  <2>6. phases[j].start < t
    BY <1>1, CountedInPhase
  <2>7. t < phases[i].end \/ t < phases[i + 1].start
    BY <1>1, <2>3, CountedInPhase
  <2>8. phases[i].end <= phases[j].start
    BY <1>1 DEF PhasesInOrder
  <2>9. i + 1 < j \/ i + 1 = j
    BY <2>3
  <2>10. phases[i + 1].start <= phases[j].start
    BY <2>3, <2>5, <2>9 DEF PhasesInOrder
  <2> QED BY <2>2, <2>5, <2>6, <2>7, <2>8, <2>10
<1>2. p < q \/ q < p
  BY DEF PhasesTyped
<1> QED BY <1>1, <1>2

(* A sample counts for one phase at most, however the phases lie, whoever  *)
(* is hidden in them and whatever the padding is.                          *)
THEOREM SamplesCountOnce == Spec => []NothingIsCountedTwice
<1>1. ASSUME IInv PROVE NothingIsCountedTwice
  <2> SUFFICES ASSUME pc = "build", NEW m \in DOMAIN series,
                      NEW p \in DOMAIN phases \ {Runtime}, NEW q \in DOMAIN phases \ {Runtime},
                      p < q
               PROVE  Counted(m, p) \cap Counted(m, q) = {}
    BY DEF NothingIsCountedTwice
  <2>1. pc \notin Measuring /\ PhasesTyped /\ PhasesInOrder /\ SeriesOK
    BY <1>1 DEF IInv, Measuring
  <2>2. p # q
    BY <2>1 DEF PhasesTyped
  <2> QED BY <2>1, <2>2, CountedApart
<1> QED BY <1>1, Invariant, PTL

(* The statistics of a run are stored for all of its phases or for none.   *)
THEOREM StatisticsAreWhole == Spec => []StatsAreWhole
<1>1. IInv => StatsAreWhole
  BY DEF IInv, BuiltOK, Done, HasTime, StatsAreWhole
<1> QED BY <1>1, Invariant, PTL

(* What counts for a phase is a finite set of times.                       *)
LEMMA CountedIsFinite ==
  ASSUME SeriesOK, NEW m \in DOMAIN series, NEW p
  PROVE  Counted(m, p) \subseteq 0 .. MaxTime /\ IsFiniteSet(Counted(m, p))
<1>1. Counted(m, p) \subseteq 0 .. MaxTime
  BY DEF SeriesOK, Counted, InPhase, Later
<1>2. IsFiniteSet(0 .. MaxTime)
  BY TimeAssumption, FS_Interval
<1> QED BY <1>1, <1>2, FS_Subset

(* Samples that span less than a quarter of the phase are too few.         *)
LEMMA ShortSpanIsFew ==
  ASSUME NEW n \in Nat, n > 1, NEW x \in Nat, NEW d \in Int, 4 * x < d
  PROVE  2 * n * x < d * (n - 1)
<1> DEFINE k == n - 1
<1>1. k \in Nat /\ k >= 1 /\ n = k + 1
  OBVIOUS
<1> HIDE DEF k
<1>2. d >= 4 * x + 1 /\ d - (4 * x + 1) \in Nat
  OBVIOUS
<1>3. d * k >= (4 * x + 1) * k
  BY <1>1, <1>2
<1>4. x * k >= x
  BY <1>1
<1>5. (4 * x + 1) * k = 4 * (x * k) + k /\ 2 * n * x = 2 * (x * k) + 2 * x
  BY <1>1
<1>6. x * k \in Nat /\ d * k \in Int
  BY <1>1
<1>7. d * k > 2 * n * x
  BY <1>1, <1>3, <1>4, <1>5, <1>6
<1> QED BY <1>7, <1>6 DEF k

(* The user is warned wherever statistics rest on the samples of less than *)
(* a quarter of a phase.                                                   *)
THEOREM SilenceIsReported == Spec => []SilenceIsWarned
<1>1. ASSUME IInv PROVE SilenceIsWarned
  <2> SUFFICES ASSUME stats # {}, NEW p \in DOMAIN phases \ {Runtime}, NEW m \in DOMAIN series,
                      m.kind # "custom", Counted(m, p) # {},
                      4 * (Max(Counted(m, p)) - Min(Counted(m, p))) < Duration(p)
               PROVE  [phase |-> p, metric |-> m] \in warnings
    BY DEF SilenceIsWarned
  <2> DEFINE S == Counted(m, p)
             n == Cardinality(S)
             x == Max(S) - Min(S)
             d == Duration(p)
  <2>1. S \subseteq 0 .. MaxTime /\ IsFiniteSet(S) /\ S # {}
    BY <1>1, CountedIsFinite DEF IInv
  <2>2. n \in Nat /\ n # 0
    BY <2>1, FS_CardinalityType, FS_EmptySet
  <2>3. x \in Nat
    <3> HIDE DEF S
    <3>1. Max(S) \in S /\ Min(S) \in S /\ Min(S) <= Max(S) /\ MaxTime \in Nat
      BY <2>1, Extremes, TimeAssumption
    <3>2. Max(S) \in 0 .. MaxTime /\ Min(S) \in 0 .. MaxTime
      BY <2>1, <3>1
    <3>3. Max(S) \in Int /\ Min(S) \in Int
      BY <3>1, <3>2
    <3>4. Max(S) - Min(S) \in Nat
      BY <3>1, <3>3
    <3> QED BY <3>4
  <2>4. d \in Int
    <3>1. phases[p] \in Phase
      BY <1>1 DEF IInv, PhasesTyped
    <3> QED BY <3>1 DEF Phase, Duration
  <2>5. n = 1 \/ 2 * n * x < d * (n - 1)
    <3> HIDE DEF n, x, d
    <3>1. 4 * x < d
      BY DEF x, d, S
    <3> QED BY <2>2, <2>3, <2>4, <3>1, ShortSpanIsFew
  <2>6. Undersampled(m, p)
    BY <2>5 DEF Undersampled
  <2>7. m \in listed
    BY <1>1 DEF IInv, SeriesOK, BuiltOK
  <2>8. [phase |-> p, metric |-> m] \in PhaseWarnings(p)
    BY <2>6, <2>7 DEF PhaseWarnings
  <2>9. PhaseWarnings(p) \subseteq warnings
    BY <1>1 DEF IInv, BuiltOK, Done
  <2> QED BY <2>8, <2>9
<1> QED BY <1>1, Invariant, PTL

-----------------------------------------------------------------------------
(* g adds up the fractions of f on the sets of D.                          *)
AddsQ(g, f, D) ==
  g = [T \in D |-> IF T = {} THEN Zero ELSE Plus(f[First(T)], g[T \ {First(T)}])]

(* As for sums of numbers, there is such a function, size by size.         *)
LEMMA FractionsAddUp ==
  ASSUME NEW f, NEW S, IsFiniteSet(S), NEW n \in Nat
  PROVE  \E g : AddsQ(g, f, Small(S, n))
<1> DEFINE Bad == {k \in Nat : ~ \E g : AddsQ(g, f, Small(S, k))}
<1> SUFFICES ASSUME Bad # {} PROVE FALSE
  OBVIOUS
<1>1. PICK k \in Bad : \A j \in Bad : k <= j
  BY LeastNatural
<1>2. CASE k = 0
  <2>1. \A T \in SUBSET S : Cardinality(T) <= 0 => T = {}
    <3> SUFFICES ASSUME NEW T \in SUBSET S, T # {} PROVE ~ (Cardinality(T) <= 0)
      OBVIOUS
    <3>1. Cardinality(T) \in Nat \ {0}
      BY SmallerStep
    <3> QED BY <3>1
  <2>2. {} \in SUBSET S /\ Cardinality({}) <= 0
    BY FS_EmptySet
  <2>3. Small(S, 0) = {{}}
    BY <2>1, <2>2 DEF Small
  <2>4. AddsQ([T \in {{}} |-> Zero], f, Small(S, 0))
    BY <2>3 DEF AddsQ
  <2> QED BY <1>2, <2>4
<1>3. CASE k # 0
  <2>1. k - 1 \in Nat /\ k - 1 \notin Bad
    BY <1>1, <1>3
  <2>2. PICK g : AddsQ(g, f, Small(S, k - 1))
    BY <2>1
  <2> DEFINE h == [T \in Small(S, k) |->
                     IF T = {} THEN Zero ELSE Plus(f[First(T)], g[T \ {First(T)}])]
  <2>3. ASSUME NEW T \in Small(S, k), T # {}
        PROVE  T \ {First(T)} \in Small(S, k) /\ h[T \ {First(T)}] = g[T \ {First(T)}]
    <3>1. T \ {First(T)} \in Small(S, k - 1)
      BY <2>3, SmallerStep DEF Small
    <3>2. T \ {First(T)} \in Small(S, k)
      <4>1. Cardinality(T \ {First(T)}) \in Int
        BY <2>3, SmallerStep DEF Small
      <4> QED BY <3>1, <4>1 DEF Small
    <3>3. \A U \in Small(S, k - 1) :
            g[U] = IF U = {} THEN Zero ELSE Plus(f[First(U)], g[U \ {First(U)}])
      BY <2>2 DEF AddsQ
    <3> HIDE DEF Small
    <3> QED BY <3>1, <3>2, <3>3
  <2>4. h = [T \in Small(S, k) |->
               IF T = {} THEN Zero ELSE Plus(f[First(T)], h[T \ {First(T)}])]
    <3> HIDE DEF h
    <3>1. h = [T \in Small(S, k) |->
                 IF T = {} THEN Zero ELSE Plus(f[First(T)], g[T \ {First(T)}])]
      BY DEF h
    <3> QED BY <2>3, <3>1
  <2> QED BY <2>4 DEF AddsQ
<1> QED BY <1>2, <1>3

(* What a sum of fractions is made of.                                     *)
LEMMA SumQIsMade ==
  ASSUME NEW f, NEW S, IsFiniteSet(S)
  PROVE  \E g : AddsQ(g, f, SUBSET S) /\ SumQ(f, S) = g[S]
<1> DEFINE g == CHOOSE g : AddsQ(g, f, SUBSET S)
<1>1. AddsQ(g, f, SUBSET S)
  <2>1. PICK n \in Nat : n = Cardinality(S)
    BY FS_CardinalityType
  <2>2. Small(S, n) = SUBSET S
    <3>1. ASSUME NEW T \in SUBSET S PROVE Cardinality(T) <= n
      BY <2>1, FS_Subset
    <3> QED BY <3>1 DEF Small
  <2>3. PICK h : AddsQ(h, f, Small(S, n))
    BY FractionsAddUp
  <2>4. AddsQ(h, f, SUBSET S)
    BY <2>2, <2>3
  <2> QED BY <2>4
<1>2. SumQ(f, S) = g[S]
  BY DEF SumQ, FoldSet, MapThenFoldSet, AddsQ, First
<1> HIDE DEF g
<1> QED BY <1>1, <1>2

(* Two ways to add fractions up agree where they both do.                  *)
LEMMA SumQIsOne ==
  ASSUME NEW f, NEW g, NEW h, NEW S, NEW R, IsFiniteSet(S), R \subseteq S,
         AddsQ(g, f, SUBSET S), AddsQ(h, f, SUBSET R)
  PROVE  \A T \in SUBSET R : g[T] = h[T]
<1> DEFINE Good == {T \in SUBSET R : g[T] = h[T]}
<1>0. IsFiniteSet(R)
  BY FS_Subset
<1>1. ASSUME NEW T \in SUBSET R
      PROVE  /\ g[T] = IF T = {} THEN Zero ELSE Plus(f[First(T)], g[T \ {First(T)}])
             /\ h[T] = IF T = {} THEN Zero ELSE Plus(f[First(T)], h[T \ {First(T)}])
  <2>1. \A U \in SUBSET S :
          g[U] = IF U = {} THEN Zero ELSE Plus(f[First(U)], g[U \ {First(U)}])
    BY DEF AddsQ
  <2>2. \A U \in SUBSET R :
          h[U] = IF U = {} THEN Zero ELSE Plus(f[First(U)], h[U \ {First(U)}])
    BY DEF AddsQ
  <2>3. T \in SUBSET S
    OBVIOUS
  <2> QED BY <2>1, <2>2, <2>3
<1>2. {} \in Good
  BY <1>1
<1>3. ASSUME NEW T \in SUBSET R, T # {}, \A x \in T : T \ {x} \in Good PROVE T \in Good
  <2>1. First(T) \in T
    BY <1>3 DEF First
  <2>2. g[T \ {First(T)}] = h[T \ {First(T)}]
    BY <1>3, <2>1
  <2>3. g[T] = h[T]
    BY <1>1, <1>3, <2>2
  <2> QED BY <2>3
<1>4. SUBSET R \subseteq Good
  <2> HIDE DEF Good
  <2> QED BY <1>0, <1>2, <1>3, AllSubsets
<1> QED BY <1>4

(* The sum of no fractions is 0, any other one of them and the rest.       *)
LEMMA SumQUnfolds ==
  ASSUME NEW f, NEW S, IsFiniteSet(S)
  PROVE  /\ S = {} => SumQ(f, S) = Zero
         /\ S # {} => First(S) \in S /\ SumQ(f, S) = Plus(f[First(S)], SumQ(f, S \ {First(S)}))
<1>1. PICK g : AddsQ(g, f, SUBSET S) /\ SumQ(f, S) = g[S]
  BY SumQIsMade
<1>2. g[S] = IF S = {} THEN Zero ELSE Plus(f[First(S)], g[S \ {First(S)}])
  <2>1. \A U \in SUBSET S :
          g[U] = IF U = {} THEN Zero ELSE Plus(f[First(U)], g[U \ {First(U)}])
    BY <1>1 DEF AddsQ
  <2> QED BY <2>1
<1>3. ASSUME S # {}
      PROVE  First(S) \in S /\ SumQ(f, S \ {First(S)}) = g[S \ {First(S)}]
  <2> DEFINE R == S \ {First(S)}
  <2>1. First(S) \in S
    BY <1>3 DEF First
  <2>2. IsFiniteSet(R) /\ R \subseteq S
    BY FS_Subset
  <2> HIDE DEF R
  <2>3. PICK h : AddsQ(h, f, SUBSET R) /\ SumQ(f, R) = h[R]
    BY <2>2, SumQIsMade
  <2>4. \A T \in SUBSET R : g[T] = h[T]
    BY <1>1, <2>2, <2>3, SumQIsOne
  <2>5. SumQ(f, R) = g[R]
    BY <2>3, <2>4
  <2> QED BY <2>1, <2>5 DEF R
<1> QED BY <1>1, <1>2, <1>3

(* A sum of fractions has a denominator that all of them divide, and the   *)
(* sum of their numerators over it.                                        *)
LEMMA SumOfFractions ==
  ASSUME NEW f, NEW S, IsFiniteSet(S),
         \A x \in S : f[x].n \in Nat /\ f[x].d \in Nat \ {0}
  PROVE  \E k \in [S -> Nat \ {0}] :
           /\ SumQ(f, S).d \in Nat \ {0}
           /\ \A x \in S : SumQ(f, S).d = k[x] * f[x].d
           /\ SumQ(f, S).n = Sum([x \in S |-> k[x] * f[x].n], S)
<1> DEFINE Fits(k, T) == /\ SumQ(f, T).d \in Nat \ {0}
                         /\ \A x \in T : SumQ(f, T).d = k[x] * f[x].d
                         /\ SumQ(f, T).n = Sum([x \in T |-> k[x] * f[x].n], T)
           Good == {T \in SUBSET S : \E k \in [T -> Nat \ {0}] : Fits(k, T)}
<1>1. {} \in Good
  <2>1. SumQ(f, {}) = Zero /\ \A h : Sum(h, {}) = 0
    BY FS_EmptySet, SumQUnfolds, SumUnfolds
  <2>2. Fits([x \in {} |-> 1], {})
    BY <2>1 DEF Zero, Q
  <2>3. [x \in {} |-> 1] \in [{} -> Nat \ {0}]
    OBVIOUS
  <2> QED BY <2>2, <2>3
<1>2. ASSUME NEW T \in SUBSET S, T # {}, \A x \in T : T \ {x} \in Good PROVE T \in Good
  <2> DEFINE x == First(T)
             R == T \ {x}
             v == f[x]
             w == SumQ(f, R)
  <2>1. IsFiniteSet(T) /\ IsFiniteSet(R)
    BY FS_Subset
  <2>2. x \in T /\ SumQ(f, T) = Plus(v, w)
    BY <1>2, <2>1, SumQUnfolds
  <2>3. PICK k \in [R -> Nat \ {0}] : Fits(k, R)
    <3>1. R \in Good
      BY <1>2, <2>2
    <3> QED BY <3>1
  <2>4. v.n \in Nat /\ v.d \in Nat \ {0} /\ w.d \in Nat \ {0}
    BY <2>2, <2>3
  <2> DEFINE part == [y \in R |-> k[y] * f[y].n]
  <2>5. \A y \in R : part[y] \in Nat /\ k[y] \in Nat \ {0} /\ f[y].n \in Nat /\ f[y].d \in Nat \ {0}
    OBVIOUS
  <2>6. w.n = Sum(part, R) /\ w.n \in Nat
    <3>1. w.n = Sum(part, R)
      BY <2>3
    <3> HIDE DEF part, R
    <3> QED BY <2>1, <2>5, <3>1, SumIsNat
  <2>7. ASSUME NEW a \in Nat \ {0}, NEW b \in Nat \ {0},
               SumQ(f, T) = Q(b * v.n + a * w.n, b * v.d), b * v.d = a * w.d
        PROVE  T \in Good
    <3> DEFINE j == [y \in T |-> IF y = x THEN b ELSE a * k[y]]
               all == [y \in T |-> j[y] * f[y].n]
    <3>0. \A y \in T : y = x \/ y \in R
      OBVIOUS
    <3>1. j \in [T -> Nat \ {0}]
      BY <2>5
    <3>2. SumQ(f, T).d = b * v.d /\ SumQ(f, T).n = b * v.n + a * w.n /\ b * v.d \in Nat \ {0}
      BY <2>4, <2>7 DEF Q
    <3>3. ASSUME NEW y \in T PROVE SumQ(f, T).d = j[y] * f[y].d
      <4>1. CASE y = x
        BY <3>2, <4>1
      <4>2. CASE y # x
        <5>1. y \in R /\ w.d = k[y] * f[y].d
          BY <2>3, <4>2
        <5>2. \A p, q, r \in Nat : p * (q * r) = (p * q) * r
          OBVIOUS
        <5>3. a * w.d = (a * k[y]) * f[y].d
          BY <2>5, <5>1, <5>2
        <5> QED BY <2>7, <3>2, <4>2, <5>3
      <4> QED BY <4>1, <4>2
    <3>4. all[x] = b * v.n /\ all[x] \in Nat
      BY <2>2, <2>4
    <3>5. ASSUME NEW y \in R PROVE all[y] = a * part[y] + 0 /\ all[y] \in Nat
      <4>1. all[y] = (a * k[y]) * f[y].n /\ part[y] = k[y] * f[y].n
        OBVIOUS
      <4>2. \A p, q, r \in Nat : (p * q) * r = p * (q * r) + 0 /\ (p * q) * r \in Nat
        OBVIOUS
      <4> HIDE DEF all, part
      <4> QED BY <2>5, <4>1, <4>2
    <3>6. \A y \in T : all[y] \in Nat
      BY <3>0, <3>4, <3>5
    <3> HIDE DEF all, j, part, v, w
    <3>7. Sum(all, T) = all[x] + Sum(all, R)
      BY <2>1, <2>2, <3>6, SumWithout
    <3>8. Sum(all, R) = a * Sum(part, R) + 0 * Cardinality(R)
      BY <2>1, <2>5, <3>5, SumOfAffine
    <3>9. Cardinality(R) \in Nat
      BY <2>1, FS_CardinalityType
    <3>10. Sum(all, T) = b * v.n + a * w.n
      BY <2>4, <2>6, <3>4, <3>7, <3>8, <3>9
    <3>11. Fits(j, T)
      BY <3>2, <3>3, <3>10 DEF all
    <3> QED BY <3>1, <3>11
  <2>8. CASE v.d = w.d
    <3>1. SumQ(f, T) = Q(v.n + w.n, v.d)
      BY <2>2, <2>8 DEF Plus
    <3>2. SumQ(f, T) = Q(1 * v.n + 1 * w.n, 1 * v.d) /\ 1 * v.d = 1 * w.d
      BY <2>4, <2>6, <2>8, <3>1
    <3> HIDE DEF Good, v, w
    <3> QED BY <2>7, <3>2
  <2>9. CASE v.d # w.d
    <3>1. SumQ(f, T) = Q(v.n * w.d + w.n * v.d, v.d * w.d)
      BY <2>2, <2>9 DEF Plus
    <3>2. \A p, q, r, s \in Nat : p * s + r * q = s * p + q * r /\ q * s = s * q
      OBVIOUS
    <3>3. SumQ(f, T) = Q(w.d * v.n + v.d * w.n, w.d * v.d) /\ w.d * v.d = v.d * w.d
      <4> HIDE DEF v, w
      <4> QED BY <2>4, <2>6, <3>1, <3>2
    <3> HIDE DEF Good, v, w
    <3> QED BY <2>4, <2>7, <3>3
  <2> QED BY <2>8, <2>9
<1>3. SUBSET S \subseteq Good
  <2> HIDE DEF Good
  <2> QED BY <1>1, <1>2, AllSubsets
<1> QED BY <1>3

-----------------------------------------------------------------------------
Fraction == [n : Nat, d : Nat \ {0}]
Signed == [n : Int, d : Nat \ {0}]

(* What operations on fractions make.                                      *)
LEMMA FractionTypes ==
  ASSUME NEW p, NEW q
  PROVE  /\ p \in Fraction => p \in Signed
         /\ p \in Fraction /\ q \in Fraction => Times(p, q) \in Fraction /\ Plus(p, q) \in Fraction
         /\ p \in Signed /\ q \in Signed =>
              Times(p, q) \in Signed /\ Plus(p, q) \in Signed /\ Minus(p, q) \in Signed
         /\ \A n \in Nat, d \in Nat \ {0} : Q(n, d) \in Fraction
         /\ \A n \in Int, d \in Nat \ {0} : Q(n, d) \in Signed
<1>0. \A a, b \in Nat \ {0} : a * b \in Nat \ {0}
  OBVIOUS
<1>1. /\ \A n \in Nat, d \in Nat \ {0} : Q(n, d) \in Fraction
      /\ \A n \in Int, d \in Nat \ {0} : Q(n, d) \in Signed
  BY DEF Q, Fraction, Signed
<1>2. p \in Fraction => p \in Signed
  BY DEF Fraction, Signed
<1>3. ASSUME p \in Fraction, q \in Fraction
      PROVE  Times(p, q) \in Fraction /\ Plus(p, q) \in Fraction
  <2>1. p.n \in Nat /\ q.n \in Nat /\ p.d \in Nat \ {0} /\ q.d \in Nat \ {0}
    BY <1>3 DEF Fraction
  <2>2. /\ p.d * q.d \in Nat \ {0} /\ p.n * q.n \in Nat
        /\ p.n + q.n \in Nat /\ p.n * q.d + q.n * p.d \in Nat
    <3>1. \A a, b \in Nat : a * b \in Nat /\ a + b \in Nat
      OBVIOUS
    <3>2. p.n * q.d \in Nat /\ q.n * p.d \in Nat /\ p.n * q.n \in Nat
      BY <2>1, <3>1
    <3>3. p.d * q.d \in Nat \ {0}
      BY <1>0, <2>1
    <3> QED BY <2>1, <3>1, <3>2, <3>3
  <2> QED BY <1>1, <2>1, <2>2 DEF Times, Plus
<1>4. ASSUME p \in Signed, q \in Signed
      PROVE  Times(p, q) \in Signed /\ Plus(p, q) \in Signed /\ Minus(p, q) \in Signed
  <2>1. p.n \in Int /\ q.n \in Int /\ p.d \in Nat \ {0} /\ q.d \in Nat \ {0}
    BY <1>4 DEF Signed
  <2>2. /\ p.d * q.d \in Nat \ {0} /\ p.n * q.n \in Int
        /\ p.n + q.n \in Int /\ p.n * q.d + q.n * p.d \in Int
        /\ p.n + (-q.n) \in Int /\ p.n * q.d + (-q.n) * p.d \in Int
    <3>1. \A a, b \in Int : a * b \in Int /\ a + b \in Int /\ -a \in Int
      OBVIOUS
    <3>2. p.n * q.d \in Int /\ q.n * p.d \in Int /\ p.n * q.n \in Int /\ (-q.n) * p.d \in Int
      BY <2>1, <3>1
    <3>3. p.d * q.d \in Nat \ {0}
      BY <1>0, <2>1
    <3> QED BY <2>1, <3>1, <3>2, <3>3
  <2>3. Q(-q.n, q.d).n = -q.n /\ Q(-q.n, q.d).d = q.d
    BY DEF Q
  <2> QED BY <1>1, <2>1, <2>2, <2>3 DEF Times, Plus, Minus
<1> QED BY <1>1, <1>2, <1>3, <1>4

(* round() is never off by more than a half.                               *)
LEMMA Rounding ==
  ASSUME NEW n \in Int, NEW d \in Nat \ {0}
  PROVE  /\ Round(Q(n, d)) \in Int
         /\ 2 * (d * Round(Q(n, d))) <= 2 * n + d
         /\ 2 * (d * Round(Q(n, d))) >= 2 * n - d
<1> DEFINE w == n \div d
           m == n % d
<1>1. w \in Int /\ m \in 0 .. d - 1 /\ n = d * w + m
  OBVIOUS
<1>2. Q(n, d).n = n /\ Q(n, d).d = d
  BY DEF Q
<1>3. \/ Round(Q(n, d)) = w /\ 2 * m <= d
      \/ Round(Q(n, d)) = w + 1 /\ 2 * m >= d
  <2>1. Round(Q(n, d)) = IF 2 * m < d \/ (2 * m = d /\ w % 2 = 0) THEN w ELSE w + 1
    BY <1>2 DEF Round
  <2> HIDE DEF w, m
  <2> QED BY <1>1, <2>1
<1> HIDE DEF w, m
<1>4. d * (w + 1) = d * w + d /\ d * w \in Int
  BY <1>1
<1>5. CASE Round(Q(n, d)) = w /\ 2 * m <= d
  BY <1>1, <1>4, <1>5
<1>6. CASE Round(Q(n, d)) = w + 1 /\ 2 * m >= d
  BY <1>1, <1>4, <1>6
<1> QED BY <1>3, <1>5, <1>6

(* It leaves whole numbers alone and keeps what is between two of them     *)
(* there.                                                                  *)
LEMMA RoundingIsMonotone ==
  ASSUME NEW n \in Int, NEW d \in Nat \ {0}
  PROVE  /\ \A a \in Int : n <= a * d => Round(Q(n, d)) <= a
         /\ \A a \in Int : a * d <= n => a <= Round(Q(n, d))
         /\ Round(Q(n, 1)) = n
<1> DEFINE r == Round(Q(n, d))
<1>1. r \in Int /\ 2 * (d * r) <= 2 * n + d /\ 2 * (d * r) >= 2 * n - d
  BY Rounding
<1> HIDE DEF r
<1>2. ASSUME NEW a \in Int, n <= a * d PROVE r <= a
  <2> SUFFICES ASSUME r >= a + 1 PROVE FALSE
    BY <1>1
  <2>1. d * r >= d * (a + 1)
    BY <1>1
  <2>2. d * (a + 1) = a * d + d /\ a * d \in Int /\ d * r \in Int
    BY <1>1
  <2> QED BY <1>1, <1>2, <2>1, <2>2
<1>3. ASSUME NEW a \in Int, a * d <= n PROVE a <= r
  <2> SUFFICES ASSUME r + 1 <= a PROVE FALSE
    BY <1>1
  <2>1. d * (r + 1) <= d * a
    BY <1>1
  <2>2. d * (r + 1) = d * r + d /\ a * d = d * a /\ a * d \in Int /\ d * r \in Int
    BY <1>1
  <2> QED BY <1>1, <1>3, <2>1, <2>2
<1>4. Round(Q(n, 1)) = n
  <2>1. /\ Round(Q(n, 1)) \in Int /\ 2 * (1 * Round(Q(n, 1))) <= 2 * n + 1
        /\ 2 * (1 * Round(Q(n, 1))) >= 2 * n - 1
    BY Rounding
  <2> QED BY <2>1
<1> QED BY <1>2, <1>3, <1>4 DEF r

(* Rounded fractions are integers, and natural if they are.                *)
LEMMA RoundTypes ==
  ASSUME NEW q
  PROVE  (q \in Signed => Round(q) \in Int) /\ (q \in Fraction => Round(q) \in Nat)
<1>1. ASSUME q \in Signed PROVE Round(q) \in Int
  <2>1. PICK n \in Int, d \in Nat \ {0} : q = Q(n, d)
    BY <1>1 DEF Signed, Q
  <2>2. Round(Q(n, d)) \in Int
    BY Rounding
  <2> QED BY <2>1, <2>2
<1>2. ASSUME q \in Fraction PROVE Round(q) \in Nat
  <2>1. PICK n \in Nat, d \in Nat \ {0} : q = Q(n, d)
    BY <1>2 DEF Fraction, Q
  <2>2. n \in Int /\ 0 * d <= n
    BY <2>1
  <2>3. 0 <= Round(Q(n, d)) /\ Round(Q(n, d)) \in Int
    BY <2>2, Rounding, RoundingIsMonotone
  <2>4. Round(Q(n, d)) \in Nat
    BY <2>3
  <2> QED BY <2>1, <2>4
<1> QED BY <1>1, <1>2

-----------------------------------------------------------------------------
Early == Measuring \cup {"patched"}   \* the providers run

(* The time of the sample before t, if there is one.                       *)
Since(f, t) == IF {u \in DOMAIN f : u < t} = {} THEN 0 ELSE Max({u \in DOMAIN f : u < t})

(* Each sample is what was used since the one before.                      *)
Gapless(f) == \A t \in DOMAIN f : f[t] = Used(Since(f, t), t) /\ t - Since(f, t) <= MaxGap

(* What is sampled, listed and derived.                                    *)
SamplesOK ==
  /\ meter \in Nat
  /\ listed \subseteq Measured \cup Derived
  /\ \A m \in DOMAIN series :
       /\ DOMAIN series[m] \subseteq 1 .. now
       /\ \A t \in DOMAIN series[m] : series[m][t] \in Nat
       /\ pc \notin Early => DOMAIN series[m] # {}
       /\ m = Energy => Gapless(series[m])
       /\ m.kind = "carbon" =>
            /\ pc \notin Early \cup {"co2"}
            /\ {Energy, Metric("intensity", m.of)} \subseteq DOMAIN series
            /\ series[m] = CarbonSeries(m.of)
  /\ pc \in Early => listed = {} /\ meter = Used(LastSample, now) /\ now - LastSample < MaxGap

-----------------------------------------------------------------------------
(* Energy used from one time to another is that up to a time between them  *)
(* and that from then on.                                                  *)
LEMMA UsedAdds ==
  ASSUME world \in Worlds, NEW a \in Int, NEW b \in Int, NEW c \in Int, a <= b, b <= c
  PROVE  Used(a, c) = Used(a, b) + Used(b, c)
<1> DEFINE A == (1 .. MaxTime) \cap (a + 1 .. b)
           B == (1 .. MaxTime) \cap (b + 1 .. c)
           C == (1 .. MaxTime) \cap (a + 1 .. c)
<1>1. A \cap B = {} /\ A \cup B = C
  BY TimeAssumption
<1>2. IsFiniteSet(A) /\ IsFiniteSet(B)
  <2>1. IsFiniteSet(1 .. MaxTime)
    BY TimeAssumption, FS_Interval
  <2> QED BY <2>1, FS_Subset
<1>3. \A t \in A \cup B : world.power[t] \in Nat
  BY WorldAssumption
<1> HIDE DEF A, B, C
<1>4. Sum(world.power, A \cup B) = Sum(world.power, A) + Sum(world.power, B)
  BY <1>1, <1>2, <1>3, SumOfDisjoint
<1> QED BY <1>1, <1>4 DEF Used, A, B, C

(* More time, more energy.                                                 *)
LEMMA UsedGrows ==
  ASSUME world \in Worlds, NEW a \in Int, NEW b \in Int, NEW c \in Int, NEW d \in Int,
         c <= a, b <= d
  PROVE  Used(a, b) <= Used(c, d) /\ Used(a, b) \in Nat
<1> DEFINE A == (1 .. MaxTime) \cap (a + 1 .. b)
           C == (1 .. MaxTime) \cap (c + 1 .. d)
<1>1. A \in SUBSET C
  BY TimeAssumption
<1>2. IsFiniteSet(C)
  <2>1. IsFiniteSet(1 .. MaxTime)
    BY TimeAssumption, FS_Interval
  <2> QED BY <2>1, FS_Subset
<1>3. \A t \in C : world.power[t] \in Nat
  BY WorldAssumption
<1> HIDE DEF A, C
<1>4. Sum(world.power, A) <= Sum(world.power, C) /\ Sum(world.power, A) \in Nat
  BY <1>1, <1>2, <1>3, SumOfLess
<1> QED BY <1>4 DEF Used, A, C

(* In no time nothing is used, and in one tick what the world says.        *)
LEMMA UsedInTick ==
  ASSUME world \in Worlds, NEW n \in Int
  PROVE  Used(n, n) = 0 /\ (n + 1 \in 1 .. MaxTime => Used(n, n + 1) = world.power[n + 1])
<1>1. (1 .. MaxTime) \cap (n + 1 .. n) = {}
  OBVIOUS
<1>2. Used(n, n) = 0
  BY <1>1, FS_EmptySet, SumUnfolds DEF Used
<1>3. ASSUME n + 1 \in 1 .. MaxTime PROVE Used(n, n + 1) = world.power[n + 1]
  <2>1. (1 .. MaxTime) \cap (n + 1 .. n + 1) = {n + 1}
    BY <1>3
  <2>2. world.power[n + 1] \in Nat
    BY <1>3, WorldAssumption
  <2> QED BY <2>1, <2>2, SumOfOne DEF Used
<1> QED BY <1>2, <1>3

(* The sample before t is one, or t is the first.                          *)
LEMMA SinceIsBefore ==
  ASSUME NEW f, DOMAIN f \subseteq 1 .. MaxTime, NEW t \in Nat \ {0}
  PROVE  /\ Since(f, t) \in Nat /\ Since(f, t) < t
         /\ \A u \in DOMAIN f : u < t => u <= Since(f, t)
         /\ Since(f, t) \in DOMAIN f \/ (Since(f, t) = 0 /\ \A u \in DOMAIN f : u >= t)
<1> DEFINE E == {u \in DOMAIN f : u < t}
<1>1. CASE E = {}
  BY <1>1 DEF Since
<1>2. CASE E # {}
  <2>1. E \subseteq 0 .. MaxTime /\ MaxTime \in Nat
    BY TimeAssumption
  <2>2. Max(E) \in E /\ \A u \in E : u <= Max(E)
    <3> HIDE DEF E
    <3> QED BY <1>2, <2>1, Extremes
  <2> QED BY <1>2, <2>2 DEF Since
<1> QED BY <1>1, <1>2

(* The metrics of a world are none that is derived, nor energy.            *)
LEMMA TracksAreMeasured ==
  ASSUME world \in Worlds, NEW m \in DOMAIN world.tracks
  PROVE  /\ m \in Measured /\ m # Energy /\ m.kind # "carbon"
         /\ DOMAIN world.tracks[m] \subseteq 1 .. MaxTime
         /\ \A t \in DOMAIN world.tracks[m] : world.tracks[m][t] \in Nat
<1>1. m \in Measured \ {Energy}
  BY WorldAssumption
<1>2. \A n \in Measured : n.kind # "carbon"
  BY DEF Measured, Energy, Load, Metric
<1>3. /\ DOMAIN world.tracks[m] \subseteq 1 .. MaxTime
      /\ \A t \in DOMAIN world.tracks[m] : world.tracks[m][t] \in Nat
  BY WorldAssumption
<1> QED BY <1>1, <1>2, <1>3

(* MaxGap is the longest gap.                                              *)
LEMMA MaxGapIsMax == MaxGap \in Nat \ {0} /\ \A g \in Gaps : g \in Nat /\ g <= MaxGap
<1>1. Gaps \subseteq 0 .. MaxTime /\ Gaps # {} /\ MaxTime \in Nat /\ Gaps \subseteq 1 .. MaxTime
  BY TimeAssumption
<1>2. Max(Gaps) \in Gaps /\ \A g \in Gaps : g <= Max(Gaps)
  BY <1>1, Extremes
<1>3. Max(Gaps) \in 1 .. MaxTime /\ \A g \in Gaps : g \in 1 .. MaxTime
  BY <1>1, <1>2
<1>4. Max(Gaps) \in Nat \ {0} /\ \A g \in Gaps : g \in Nat
  BY <1>1, <1>3
<1> QED BY <1>2, <1>4 DEF MaxGap

-----------------------------------------------------------------------------
(* A sample that is taken is of what was used since the last one.          *)
LEMMA TakenIsTrue ==
  ASSUME world \in Worlds, now \in 0 .. MaxTime, now < MaxTime, Energy \in DOMAIN series,
         NEW f, f = series[Energy], DOMAIN f \subseteq 1 .. now, Gapless(f),
         meter = Used(LastSample, now), now - LastSample < MaxGap,
         NEW g, g = [t \in DOMAIN f \cup {now + 1} |->
                       IF t = now + 1 THEN meter + world.power[now + 1] ELSE f[t]]
  PROVE  /\ Gapless(g) /\ DOMAIN g \subseteq 1 .. now + 1 /\ LastSample \in 0 .. now
         /\ Max(DOMAIN g) = now + 1
         /\ meter + world.power[now + 1] = Used(LastSample, now + 1)
<1>1. now \in Nat /\ MaxTime \in Nat /\ DOMAIN f \subseteq 0 .. MaxTime
  BY TimeAssumption
<1>2. LastSample \in 0 .. now /\ \A u \in DOMAIN f : u <= LastSample
  <2>1. CASE DOMAIN f = {}
    BY <1>1, <2>1 DEF LastSample
  <2>2. CASE DOMAIN f # {}
    <3>1. Max(DOMAIN f) \in DOMAIN f /\ \A u \in DOMAIN f : u <= Max(DOMAIN f)
      BY <1>1, <2>2, Extremes
    <3> QED BY <1>1, <2>2, <3>1 DEF LastSample
  <2> QED BY <2>1, <2>2
<1>3. meter + world.power[now + 1] = Used(LastSample, now + 1)
  <2>1. Used(LastSample, now + 1) = Used(LastSample, now) + Used(now, now + 1)
    BY <1>1, <1>2, UsedAdds
  <2>2. Used(now, now + 1) = world.power[now + 1]
    <3>1. now \in Int /\ now + 1 \in 1 .. MaxTime
      BY <1>1
    <3> QED BY <3>1, UsedInTick
  <2> QED BY <2>1, <2>2
<1>4. DOMAIN g = DOMAIN f \cup {now + 1} /\ DOMAIN g \subseteq 1 .. now + 1
  BY <1>1
<1>5. {u \in DOMAIN g : u < now + 1} = DOMAIN f
  <2>1. \A u \in DOMAIN f : u < now + 1
    BY <1>1
  <2>2. ~ (now + 1 < now + 1)
    BY <1>1
  <2> QED BY <1>4, <2>1, <2>2
<1>6. Since(g, now + 1) = LastSample
  BY <1>5 DEF Since, LastSample
<1>7. ASSUME NEW t \in DOMAIN g PROVE g[t] = Used(Since(g, t), t) /\ t - Since(g, t) <= MaxGap
  <2>1. CASE t = now + 1
    <3>1. g[t] = Used(LastSample, now + 1)
      BY <1>3, <2>1
    <3>2. now + 1 - LastSample <= MaxGap
      BY <1>1, <1>2, MaxGapIsMax
    <3>3. Since(g, t) = LastSample
      BY <1>6, <2>1
    <3>4. t - LastSample <= MaxGap
      BY <1>1, <1>2, <2>1, <3>2, MaxGapIsMax
    <3>5. g[t] = Used(LastSample, t)
      BY <2>1, <3>1, Zenon
    <3> QED BY <3>3, <3>4, <3>5
  <2>2. CASE t # now + 1
    <3>1. t \in DOMAIN f /\ g[t] = f[t] /\ t \in 1 .. now
      BY <1>4, <2>2
    <3>2. {u \in DOMAIN g : u < t} = {u \in DOMAIN f : u < t}
      BY <1>1, <1>4, <3>1
    <3>3. Since(g, t) = Since(f, t)
      BY <3>2 DEF Since
    <3> QED BY <3>1, <3>3 DEF Gapless
  <2> QED BY <2>1, <2>2
<1>8. Max(DOMAIN g) = now + 1
  <2>1. DOMAIN g \subseteq 0 .. now + 1 /\ DOMAIN g # {} /\ now + 1 \in DOMAIN g
    BY <1>1, <1>4
  <2>2. Max(DOMAIN g) \in DOMAIN g /\ now + 1 <= Max(DOMAIN g)
    BY <1>1, <2>1, Extremes
  <2> QED BY <1>1, <1>4, <2>2
<1> QED BY <1>2, <1>3, <1>4, <1>7, <1>8 DEF Gapless

(* The clock ticks.                                                        *)
LEMMA SamplesInTick ==
  ASSUME SeriesOK, SamplesOK, Tick PROVE SamplesOK'
<1> DEFINE f == series[Energy]
           used == meter + world.power[now + 1]
           taken == [t \in DOMAIN f \cup {now + 1} |-> IF t = now + 1 THEN used ELSE f[t]]
<1>1. /\ pc \in Early /\ pc' = pc /\ now \in 0 .. MaxTime /\ now < MaxTime /\ now' = now + 1
      /\ world' = world /\ listed' = listed /\ world \in Worlds /\ MaxTime \in Nat
      /\ pc \notin {"co2", "build", "done"}
  BY TimeAssumption DEF Tick, SeriesOK, Early, Measuring
<1>2. /\ DOMAIN series = {Energy} /\ DOMAIN f \subseteq 1 .. now /\ \A t \in DOMAIN f : f[t] \in Nat
      /\ listed = {} /\ meter = Used(LastSample, now) /\ now - LastSample < MaxGap
      /\ Gapless(f) /\ meter \in Nat /\ Energy.kind # "carbon"
  BY <1>1 DEF SamplesOK, SeriesOK, Early, Energy, Metric
<1>3. /\ Gapless(taken) /\ DOMAIN taken \subseteq 1 .. now + 1 /\ LastSample \in 0 .. now
      /\ Max(DOMAIN taken) = now + 1 /\ used = Used(LastSample, now + 1)
  <2> HIDE DEF f
  <2>1. f = series[Energy]
    BY DEF f
  <2> QED BY <1>1, <1>2, <2>1, TakenIsTrue
<1>4. used \in Nat
  BY <1>1, <1>2, WorldAssumption
<1>5. \A t \in DOMAIN taken : taken[t] \in Nat
  BY <1>2, <1>4
<1>6. DOMAIN taken # {}
  OBVIOUS
<1>7. \/ meter' = 0 /\ series' = [series EXCEPT ![Energy] = taken]
      \/ meter' = used /\ series' = series /\ now + 1 - LastSample # MaxGap
  BY DEF Tick
<1>8. \A a, b : Used(a, b)' = Used(a, b)
  BY <1>1 DEF Used
<1>9. \A h : Gapless(h)' = Gapless(h)
  BY <1>8 DEF Gapless
<1> HIDE DEF taken, used, f
<1>10. CASE meter' = 0 /\ series' = [series EXCEPT ![Energy] = taken]
  <2>1. DOMAIN series' = {Energy} /\ series'[Energy] = taken
    BY <1>2, <1>10
  <2>2. LastSample' = now'
    BY <1>1, <1>3, <1>6, <2>1 DEF LastSample
  <2>3. meter' = Used(LastSample, now)' /\ (now - LastSample < MaxGap)'
    <3>1. Used(now', now') = 0
      BY <1>1, UsedInTick
    <3>2. now' - now' < MaxGap
      BY <1>1, MaxGapIsMax
    <3> QED BY <1>8, <1>10, <2>2, <3>1, <3>2
  <2> QED BY <1>1, <1>2, <1>3, <1>5, <1>9, <1>10, <2>1, <2>3 DEF SamplesOK
<1>11. CASE meter' = used /\ series' = series /\ now + 1 - LastSample # MaxGap
  <2>1. LastSample' = LastSample
    BY <1>11 DEF LastSample
  <2>2. meter' = Used(LastSample, now)' /\ (now - LastSample < MaxGap)'
    <3>1. now + 1 - LastSample < MaxGap
      BY <1>1, <1>2, <1>3, <1>11, MaxGapIsMax
    <3> QED BY <1>1, <1>3, <1>8, <1>11, <2>1, <3>1
  <2>3. DOMAIN f \subseteq 1 .. now + 1
    BY <1>1, <1>2
  <2>4. DOMAIN series' = {Energy} /\ series'[Energy] = f
    BY <1>2, <1>11 DEF f
  <2> QED BY <1>1, <1>2, <1>4, <1>9, <1>11, <2>2, <2>3, <2>4 DEF SamplesOK
<1> QED BY <1>7, <1>10, <1>11

-----------------------------------------------------------------------------
(* What is read of energy is gapless as well: only its end may be missing. *)
LEMMA ReadIsGapless ==
  ASSUME DOMAIN series[Energy] \subseteq 1 .. MaxTime, Gapless(series[Energy]), NEW loss,
         now \in 0 .. MaxTime
  PROVE  Gapless(Read(Energy, loss))
<1> DEFINE f == series[Energy]
           last == IF loss.cut THEN now - 1 ELSE now
           g == Read(Energy, loss)
<1>1. g = [t \in {u \in DOMAIN f : 0 < u /\ u <= last} |-> f[t]]
  BY DEF Read, Restrict, StartOf, OfContainers, Energy, Metric
<1>2. last \in Int
  BY TimeAssumption
<1> HIDE DEF g, f, last
<1>3. ASSUME NEW t \in DOMAIN g PROVE g[t] = Used(Since(g, t), t) /\ t - Since(g, t) <= MaxGap
  <2>1. t \in DOMAIN f /\ g[t] = f[t] /\ t <= last
    BY <1>1
  <2>2. DOMAIN f \subseteq 1 .. MaxTime
    BY DEF f
  <2>3. ASSUME NEW u \in DOMAIN f, u < t PROVE 0 < u /\ u <= last
    <3>1. u \in 1 .. MaxTime /\ t \in 1 .. MaxTime
      BY <2>1, <2>2
    <3> QED BY <1>2, <2>1, <2>3, <3>1
  <2>4. {u \in DOMAIN g : u < t} = {u \in DOMAIN f : u < t}
    BY <1>1, <2>3
  <2>5. Since(g, t) = Since(f, t)
    BY <2>4 DEF Since
  <2>6. f[t] = Used(Since(f, t), t) /\ t - Since(f, t) <= MaxGap
    BY <2>1 DEF Gapless, f
  <2> QED BY <2>1, <2>5, <2>6
<1> QED BY <1>3 DEF Gapless, g

(* The providers are read.                                                 *)
LEMMA SamplesInStop ==
  ASSUME SeriesOK, SamplesOK, StopProviders PROVE SamplesOK'
<1>1. PICK loss \in Losses :
        Import(({Energy} \cup DOMAIN world.tracks) \ Unread(loss), loss)
  BY DEF StopProviders
<1>2. /\ pc = "patched" /\ pc' = "co2" /\ UNCHANGED <<now, world, meter, phases>>
      /\ world \in Worlds /\ meter \in Nat /\ now \in 0 .. MaxTime
  BY DEF StopProviders, measured, SeriesOK, SamplesOK
<1>3. /\ DOMAIN series = {Energy} /\ DOMAIN series[Energy] \subseteq 1 .. now
      /\ \A t \in DOMAIN series[Energy] : series[Energy][t] \in Nat
      /\ Gapless(series[Energy])
  BY <1>2 DEF SeriesOK, SamplesOK, Measuring
<1>4. \A a, b : Used(a, b)' = Used(a, b)
  BY <1>2 DEF Used
<1>5. \A h : Gapless(h)' = Gapless(h)
  BY <1>4 DEF Gapless
<1>6. listed' \subseteq Measured /\ Energy.kind # "carbon"
  <2>1. listed' \subseteq {Energy} \cup DOMAIN world.tracks
    BY <1>1 DEF Import
  <2>2. Energy \in Measured /\ Energy.kind # "carbon"
    BY DEF Measured, Energy, Metric
  <2> QED BY <1>2, <2>1, <2>2, TracksAreMeasured
<1>7. ASSUME NEW m \in DOMAIN series'
      PROVE  /\ DOMAIN series'[m] \subseteq 1 .. now /\ DOMAIN series'[m] # {}
             /\ \A t \in DOMAIN series'[m] : series'[m][t] \in Nat
             /\ m = Energy => Gapless(series'[m])
             /\ m.kind # "carbon"
  <2>1. /\ m \in {Energy} \cup DOMAIN world.tracks /\ m \notin Unread(loss)
        /\ series'[m] = Read(m, loss)
    BY <1>1, <1>7 DEF Import
  <2>2. DOMAIN series'[m] # {}
    BY <2>1 DEF Unread
  <2> DEFINE track == IF m = Energy THEN series[Energy] ELSE world.tracks[m]
             last == IF loss.cut THEN now - 1 ELSE now
  <2>3. Read(m, loss) = [t \in {u \in DOMAIN track : StartOf(m) < u /\ u <= last} |-> track[t]]
    BY DEF Read, Restrict
  <2>4. DOMAIN track \subseteq 1 .. MaxTime /\ \A t \in DOMAIN track : track[t] \in Nat
    <3>1. CASE m = Energy
      BY <1>2, <1>3, <3>1, TimeAssumption
    <3>2. CASE m # Energy
      BY <1>2, <2>1, <3>2, TracksAreMeasured
    <3> QED BY <3>1, <3>2
  <2>5. last <= now /\ last \in Int
    BY <1>2, TimeAssumption
  <2> HIDE DEF track, last
  <2>6. DOMAIN series'[m] \subseteq 1 .. now /\ \A t \in DOMAIN series'[m] : series'[m][t] \in Nat
    <3> SUFFICES ASSUME NEW t \in DOMAIN series'[m]
                 PROVE  t \in 1 .. now /\ series'[m][t] \in Nat
      OBVIOUS
    <3>1. t \in DOMAIN track /\ t <= last /\ series'[m][t] = track[t]
      BY <2>1, <2>3
    <3>2. t \in 1 .. MaxTime /\ track[t] \in Nat
      BY <2>4, <3>1
    <3> QED BY <1>2, <2>5, <3>1, <3>2, TimeAssumption
  <2>7. ASSUME m = Energy PROVE Gapless(series'[m])
    <3>1. DOMAIN series[Energy] \subseteq 1 .. MaxTime
      BY <1>2, <1>3, TimeAssumption
    <3>2. Gapless(Read(Energy, loss))
      BY <1>2, <1>3, <3>1, ReadIsGapless
    <3> QED BY <2>1, <2>7, <3>2
  <2>8. m.kind # "carbon"
    BY <1>2, <1>6, <2>1, TracksAreMeasured
  <2> QED BY <2>2, <2>6, <2>7, <2>8
<1> QED BY <1>2, <1>5, <1>6, <1>7 DEF SamplesOK, Early, Measuring

(* What a reading is applied to is that of its time or the first.          *)
LEMMA ReadingIsRead ==
  ASSUME NEW f, DOMAIN f \subseteq 1 .. MaxTime, DOMAIN f # {}, NEW t \in Nat
  PROVE  \E u \in DOMAIN f :
           /\ ReadingAt(f, t) = f[u]
           /\ u <= t \/ u = Min(DOMAIN f)
           /\ ~ \E w \in DOMAIN f : u < w /\ w <= t
<1> DEFINE B == {u \in DOMAIN f : u <= t}
<1>1. MaxTime \in Nat /\ DOMAIN f \subseteq 0 .. MaxTime /\ B \subseteq 0 .. MaxTime
  BY TimeAssumption
<1>2. ReadingAt(f, t) = f[IF B = {} THEN Min(DOMAIN f) ELSE Max(B)]
  BY DEF ReadingAt
<1>3. CASE B = {}
  <2>1. Min(DOMAIN f) \in DOMAIN f
    BY <1>1, Extremes
  <2>2. ~ \E w \in DOMAIN f : w <= t
    BY <1>3
  <2> QED BY <1>2, <1>3, <2>1, <2>2
<1>4. CASE B # {}
  <2>1. Max(B) \in B /\ \A w \in B : w <= Max(B)
    <3> HIDE DEF B
    <3> QED BY <1>1, <1>4, Extremes
  <2>2. Max(B) \in DOMAIN f /\ Max(B) <= t
    BY <2>1
  <2>3. ~ \E w \in DOMAIN f : Max(B) < w /\ w <= t
    <3> SUFFICES ASSUME NEW w \in DOMAIN f, Max(B) < w, w <= t PROVE FALSE
      OBVIOUS
    <3>1. w \in B
      OBVIOUS
    <3>2. w \in Nat /\ Max(B) \in Nat /\ w <= Max(B)
      BY <1>1, <2>1, <3>1
    <3> QED BY <3>2
  <2>4. ReadingAt(f, t) = f[Max(B)]
    BY <1>2, <1>4
  <2> HIDE DEF B
  <2> QED BY <2>2, <2>3, <2>4
<1> QED BY <1>3, <1>4

(* Carbon is derived.                                                      *)
LEMMA SamplesInCo2 ==
  ASSUME SeriesOK, SamplesOK, CalculateCo2 PROVE SamplesOK'
<1> DEFINE with == {i \in Range(Intensities) :
                      {Metric("intensity", i), Energy} \subseteq DOMAIN series}
           derived == {Metric("carbon", i) : i \in with}
<1>1. /\ listed' = listed \cup derived
      /\ series' = [m \in DOMAIN series \cup derived |->
                      IF m \in derived THEN CarbonSeries(m.of) ELSE series[m]]
      /\ pc = "co2" /\ pc' \in {"build", "done"} /\ UNCHANGED <<now, world, meter>>
  BY DEF CalculateCo2, measured
<1>2. \A m \in derived : /\ m.kind = "carbon" /\ m \in Derived /\ m.of \in with
                         /\ {Metric("intensity", m.of), Energy} \subseteq DOMAIN series
  <2> TAKE m \in derived
  <2>1. PICK i \in with : m = Metric("carbon", i)
    OBVIOUS
  <2>2. m.kind = "carbon" /\ m.of = i
    BY <2>1 DEF Metric
  <2>3. i \in Range(Intensities) /\ {Metric("intensity", i), Energy} \subseteq DOMAIN series
    OBVIOUS
  <2>4. m \in Derived
    BY <2>1, <2>3 DEF Derived
  <2> HIDE DEF with, derived
  <2> QED BY <2>2, <2>3, <2>4
<1>3. \A i : Metric("intensity", i).kind # "carbon" /\ Energy.kind # "carbon"
  BY DEF Metric, Energy
<1> HIDE DEF derived, with
<1>4. \A m \in DOMAIN series : m \notin derived /\ m.kind # "carbon" /\ series'[m] = series[m]
  BY <1>1, <1>2 DEF SamplesOK
<1>5. \A h : Gapless(h)' = Gapless(h)
  <2>1. \A a, b : Used(a, b)' = Used(a, b)
    BY <1>1 DEF Used
  <2> QED BY <2>1 DEF Gapless
<1>6. now \in Nat /\ now <= MaxTime /\ MaxTime \in Nat /\ pc \notin Early
  BY <1>1, TimeAssumption DEF SeriesOK, Early, Measuring
<1>7. ASSUME NEW m \in derived
      PROVE  /\ series'[m] = CarbonSeries(m.of) /\ CarbonSeries(m.of)' = CarbonSeries(m.of)
             /\ DOMAIN series'[m] = DOMAIN series[Energy]
             /\ \A t \in DOMAIN series'[m] : series'[m][t] \in Nat
  <2> DEFINE readings == series[Metric("intensity", m.of)]
  <2>1. {Metric("intensity", m.of), Energy} \subseteq DOMAIN series
    BY <1>2
  <2>2. series'[m] = CarbonSeries(m.of)
    BY <1>1
  <2>3. CarbonSeries(m.of)' = CarbonSeries(m.of)
    <3>1. series'[Energy] = series[Energy] /\ readings' = readings
      BY <1>4, <2>1
    <3> QED BY <3>1 DEF CarbonSeries
  <2>4. /\ DOMAIN readings \subseteq 1 .. MaxTime /\ DOMAIN readings # {}
        /\ \A u \in DOMAIN readings : readings[u] \in Nat
    BY <1>6, <2>1 DEF SamplesOK
  <2>5. ASSUME NEW t \in DOMAIN series[Energy] PROVE CarbonSeries(m.of)[t] \in Nat
    <3>1. t \in Nat /\ series[Energy][t] \in Nat
      BY <1>6, <2>1 DEF SamplesOK
    <3>2. ReadingAt(readings, t) \in Nat
      <4> HIDE DEF readings
      <4> QED BY <2>4, <3>1, ReadingIsRead
    <3>3. \A a, b \in Nat : a * b \in Nat
      OBVIOUS
    <3>4. series[Energy][t] * ReadingAt(readings, t) \in Nat
      BY <3>1, <3>2, <3>3
    <3>5. Q(series[Energy][t] * ReadingAt(readings, t), CarbonScale) \in Fraction
      BY <3>4, FractionTypes, ScaleAssumption
    <3> QED BY <3>5, RoundTypes DEF CarbonSeries
  <2>6. DOMAIN CarbonSeries(m.of) = DOMAIN series[Energy]
    BY DEF CarbonSeries
  <2> QED BY <2>2, <2>3, <2>5, <2>6
<1>8. ASSUME NEW m \in DOMAIN series'
      PROVE  /\ DOMAIN series'[m] \subseteq 1 .. now /\ DOMAIN series'[m] # {}
             /\ \A t \in DOMAIN series'[m] : series'[m][t] \in Nat
             /\ m = Energy => Gapless(series'[m])
             /\ m.kind = "carbon" =>
                  /\ {Energy, Metric("intensity", m.of)} \subseteq DOMAIN series'
                  /\ series'[m] = CarbonSeries(m.of)'
  <2>1. CASE m \in derived
    <3>1. {Metric("intensity", m.of), Energy} \subseteq DOMAIN series /\ m # Energy
      BY <1>2, <1>3, <2>1
    <3>2. DOMAIN series[Energy] \subseteq 1 .. now /\ DOMAIN series[Energy] # {}
      BY <1>6, <3>1 DEF SamplesOK
    <3> QED BY <1>1, <1>7, <2>1, <3>1, <3>2
  <2>2. CASE m \notin derived
    <3>1. m \in DOMAIN series
      BY <1>1, <2>2
    <3> QED BY <1>4, <1>6, <3>1 DEF SamplesOK
  <2> QED BY <2>1, <2>2
<1>9. meter' \in Nat /\ listed' \subseteq Measured \cup Derived
  BY <1>1, <1>2 DEF SamplesOK
<1> QED BY <1>1, <1>5, <1>8, <1>9 DEF SamplesOK, Early, Measuring

(* All steps keep the samples true.                                        *)
LEMMA SamplesStay ==
  ASSUME PhasesTyped, SeriesOK, SamplesOK, [Next]_vars PROVE SamplesOK'
<1>1. ASSUME UNCHANGED <<world, now, meter, series, listed>>,
             pc \in Early <=> pc' \in Early, pc' # "co2" \/ pc = "co2"
      PROVE  SamplesOK'
  <2>1. \A a, b : Used(a, b)' = Used(a, b)
    BY <1>1 DEF Used
  <2>2. \A h : Gapless(h)' = Gapless(h)
    BY <2>1 DEF Gapless
  <2>3. \A i : CarbonSeries(i)' = CarbonSeries(i)
    BY <1>1 DEF CarbonSeries
  <2>4. LastSample' = LastSample
    BY <1>1 DEF LastSample
  <2> QED BY <1>1, <2>1, <2>2, <2>3, <2>4 DEF SamplesOK
<1>2. CASE StartPhase \/ EndLast \/ EndRuntime \/ Complete \/ Fail \/ PatchPhases
  <2>1. UNCHANGED <<world, now, meter, series, listed>>
    BY <1>2 DEF StartPhase, EndLast, EndRuntime, EndPhase, Complete, Fail, Leave, PatchPhases,
       measured, imported
  <2>2. {pc, pc'} \subseteq Early /\ pc' # "co2"
    BY <1>2 DEF StartPhase, EndLast, EndRuntime, EndPhase, Complete, Fail, Leave, PatchPhases,
       Early, Measuring
  <2> QED BY <1>1, <2>1, <2>2
<1>3. CASE BuildPhase \/ BuildCrashes \/ SkipRuntime \/ Store \/ InsertRuntime \/ UpdateRuntime
  <2>1. UNCHANGED <<world, now, meter, series, listed>>
    BY <1>3 DEF BuildPhase, BuildCrashes, SkipRuntime, Store, InsertRuntime, UpdateRuntime,
       measured, imported
  <2>2. {pc, pc'} \cap Early = {} /\ pc' # "co2"
    BY <1>3 DEF BuildPhase, BuildCrashes, SkipRuntime, Store, InsertRuntime, UpdateRuntime,
       Early, Measuring
  <2> QED BY <1>1, <2>1, <2>2
<1>4. CASE UNCHANGED vars
  BY <1>1, <1>4 DEF vars, measured, imported
<1> QED BY <1>2, <1>3, <1>4, SamplesInTick, SamplesInStop, SamplesInCo2 DEF Next

-----------------------------------------------------------------------------
(* Phases are those of the plan, in its order.                             *)
PlanOK ==
  /\ rest \in 0 .. MaxTime + Padding
  /\ Len(phases) <= Len(Plan)
  /\ \A p \in DOMAIN phases : phases[p].name = Plan[p] /\ phases[p].hidden = Hidden(p)

(* The padding is between them, and around the flows is [RUNTIME].         *)
BordersOK ==
  /\ \A p, q \in DOMAIN phases : p < q /\ p # Runtime => phases[p].end + Padding <= phases[q].start
  /\ pc = "measuring" =>
       \A p \in DOMAIN phases : p # Runtime /\ Closed(p) => phases[p].end + Padding <= rest
  /\ Runtime \in DOMAIN phases /\ Closed(Runtime) =>
       /\ \A p \in DOMAIN phases : Flow(p) => Closed(p) /\ phases[p].end <= phases[Runtime].end
       /\ pc = "measuring" => Len(phases) >= Runtime + Len(world.hidden)

-----------------------------------------------------------------------------
(* The plan is a sequence as long as the scenario makes it.                *)
LEMMA PlanIsSeq ==
  ASSUME world \in Worlds
  PROVE  /\ Runtime \in Nat /\ Runtime > 1 /\ Len(world.hidden) \in Nat
         /\ Len(Plan) = Runtime + Len(world.hidden) + 1
         /\ \A p : Hidden(p) \in BOOLEAN
<1>1. world.hidden \in Seq(BOOLEAN) /\ Lead \in Seq(STRING) /\ Len(Lead) > 0
  BY WorldAssumption, TimeAssumption
<1>2. Len(world.hidden) \in Nat /\ Len(Lead) \in Nat
  BY <1>1
<1> DEFINE flows == [f \in 1 .. Len(world.hidden) |-> "flow"]
<1> DEFINE S == STRING \cup {"flow", "[RUNTIME]", "[REMOVE]"}
<1>3. flows \in Seq(S) /\ Len(flows) = Len(world.hidden)
  BY <1>2
<1>4. Lead \in Seq(S) /\ <<"[RUNTIME]">> \in Seq(S) /\ <<"[REMOVE]">> \in Seq(S)
  <2>1. \A i \in 1 .. Len(Lead) : Lead[i] \in S
    BY <1>1
  <2>2. Lead = [i \in 1 .. Len(Lead) |-> Lead[i]]
    BY <1>1
  <2> QED BY <1>2, <2>1, <2>2
<1>5. Len(<<"[RUNTIME]">>) = 1 /\ Len(<<"[REMOVE]">>) = 1
  OBVIOUS
<1> HIDE DEF flows, S
<1> DEFINE RR == <<"[RUNTIME]">>
           ZZ == <<"[REMOVE]">>
<1>6. /\ Len(Lead \o RR \o flows \o ZZ) = Len(Lead) + 1 + Len(world.hidden) + 1
  <2> HIDE DEF RR, ZZ
  <2>1. RR \in Seq(S) /\ ZZ \in Seq(S) /\ Len(RR) = 1 /\ Len(ZZ) = 1
    BY <1>4, <1>5 DEF RR, ZZ
  <2>2. Lead \o RR \in Seq(S) /\ Len(Lead \o RR) = Len(Lead) + 1
    <3>1. Lead \o RR \in Seq(S) /\ Len(Lead \o RR) = Len(Lead) + Len(RR)
      BY <1>4, <2>1, ConcatProperties
    <3> QED BY <2>1, <3>1
  <2> DEFINE LR == Lead \o RR
  <2>3. LR \o flows \in Seq(S) /\ Len(LR \o flows) = Len(LR) + Len(flows)
    <3> HIDE DEF LR
    <3>1. LR \in Seq(S)
      BY <2>2 DEF LR
    <3> QED BY <1>3, <3>1, ConcatProperties
  <2> DEFINE LF == LR \o flows
  <2>4. Len(LF \o ZZ) = Len(LF) + Len(ZZ)
    <3> HIDE DEF LF
    <3>1. LF \in Seq(S)
      BY <2>3 DEF LF
    <3> QED BY <2>1, <3>1, ConcatProperties
  <2> HIDE DEF LR
  <2>5. Len(LR) = Len(Lead) + 1 /\ Len(LF) = Len(LR) + Len(flows)
    BY <2>2, <2>3 DEF LR
  <2> HIDE DEF LF
  <2>6. Len(LF \o ZZ) = Len(Lead) + 1 + Len(world.hidden) + 1
    BY <1>2, <1>3, <2>1, <2>4, <2>5
  <2> QED BY <2>6 DEF LF, LR
<1>7. Plan = Lead \o RR \o flows \o ZZ
  BY DEF Plan, flows
<1>8. ASSUME NEW p PROVE Hidden(p) \in BOOLEAN
  BY DEF Hidden
<1> HIDE DEF RR, ZZ
<1>9. Len(Plan) = Len(Lead) + 1 + Len(world.hidden) + 1
  BY <1>6, <1>7
<1>10. Runtime \in Nat /\ Runtime > 1 /\ Runtime = Len(Lead) + 1
  BY <1>1, <1>2 DEF Runtime
<1>11. Len(Plan) = Runtime + Len(world.hidden) + 1
  BY <1>9, <1>10
<1> QED BY <1>2, <1>8, <1>10, <1>11

(* The plan stays, and with it what is in it.                              *)
LEMMA PlanStays ==
  ASSUME world' = world
  PROVE  /\ Plan' = Plan /\ Runtime' = Runtime
         /\ \A p : (Flow(p)' <=> Flow(p)) /\ Hidden(p)' = Hidden(p)
BY DEF Plan, Runtime, Flow, Hidden

(* A phase that is started has the padding behind it.                      *)
LEMMA BordersInStart ==
  ASSUME PhasesTyped, PhasesInOrder, SeriesOK, PlanOK, BordersOK, StartPhase
  PROVE  PlanOK' /\ BordersOK'
<1>0. PICK next : next = Len(phases) + 1
  OBVIOUS
<1> DEFINE phase == [name |-> Plan[next], start |-> now, end |-> Running,
                     hidden |-> Hidden(next)]
<1>1. /\ phases' = Append(phases, phase) /\ next \in 1 .. Len(Plan) /\ now >= rest
      /\ \A p \in 1 .. Len(phases) : Closed(p) \/ (p = Runtime /\ Flow(next))
      /\ pc = "measuring" /\ UNCHANGED <<pc, now, rest, world>> /\ world \in Worlds
  BY <1>0 DEF StartPhase, PhasesTyped, SeriesOK
<1>2. /\ phase.start = now /\ phase.end = Running
      /\ phase.name = Plan[next] /\ phase.hidden = Hidden(next)
  OBVIOUS
<1>3. DOMAIN phases = 1 .. Len(phases) /\ Len(phases) \in Nat /\ now \in Nat
  BY DEF PhasesTyped
<1> HIDE DEF phase
<1>4. /\ Len(phases') = next /\ DOMAIN phases' = 1 .. next /\ phases'[next] = phase
      /\ \A p \in 1 .. Len(phases) : phases'[p] = phases[p]
  BY <1>0, <1>1 DEF PhasesTyped
<1>5. /\ Plan' = Plan /\ Runtime' = Runtime
      /\ \A p : (Flow(p)' <=> Flow(p)) /\ Hidden(p)' = Hidden(p)
  BY <1>1, PlanStays
<1>6. PlanOK'
  <2>1. ASSUME NEW p \in DOMAIN phases'
        PROVE  phases'[p].name = Plan[p] /\ phases'[p].hidden = Hidden(p)
    <3>1. CASE p = next
      BY <1>2, <1>4, <3>1
    <3>2. CASE p # next
      BY <1>0, <1>3, <1>4, <2>1, <3>2 DEF PlanOK
    <3> QED BY <3>1, <3>2
  <2> QED BY <1>0, <1>1, <1>3, <1>4, <1>5, <2>1 DEF PlanOK
<1>7. \A p \in 1 .. Len(phases) : (Closed(p)' <=> Closed(p)) /\ phases'[p] = phases[p]
  BY <1>4 DEF Closed, Running
<1>8. ~ Closed(next)'
  BY <1>2, <1>4 DEF Closed, Running
<1>9. Runtime \in Nat /\ Len(world.hidden) \in Nat /\ Len(Plan) = Runtime + Len(world.hidden) + 1
  BY <1>1, PlanIsSeq
<1>10. ASSUME NEW p \in DOMAIN phases', NEW q \in DOMAIN phases', p < q, p # Runtime
       PROVE  phases'[p].end + Padding <= phases'[q].start
  <2>1. p \in 1 .. Len(phases)
    BY <1>0, <1>3, <1>4, <1>10
  <2>2. CASE q = next
    <3>1. Closed(p) /\ phases[p].end + Padding <= rest
      BY <1>1, <1>3, <1>10, <2>1 DEF BordersOK
    <3>2. phases[p] \in Phase /\ Padding \in Nat
      BY <1>3, <2>1, TimeAssumption DEF PhasesTyped
    <3>3. phases[p].end \in Int
      BY <3>2 DEF Phase
    <3>4. rest \in Int
      BY TimeAssumption DEF PlanOK
    <3> QED BY <1>1, <1>2, <1>3, <1>4, <2>1, <2>2, <3>1, <3>2, <3>3, <3>4
  <2>3. CASE q # next
    <3>1. q \in 1 .. Len(phases)
      BY <1>0, <1>3, <1>4, <2>3
    <3> QED BY <1>3, <1>7, <1>10, <2>1, <3>1 DEF BordersOK
  <2> QED BY <2>2, <2>3
<1>11. ASSUME NEW p \in DOMAIN phases', p # Runtime, Closed(p)'
       PROVE  phases'[p].end + Padding <= rest
  <2>1. p \in 1 .. Len(phases)
    BY <1>0, <1>3, <1>4, <1>8, <1>11
  <2> QED BY <1>1, <1>3, <1>7, <1>11, <2>1 DEF BordersOK
<1>12. ASSUME Runtime \in DOMAIN phases', Closed(Runtime)'
       PROVE  /\ \A p \in DOMAIN phases' :
                   Flow(p) => Closed(p)' /\ phases'[p].end <= phases'[Runtime].end
              /\ Len(phases') >= Runtime + Len(world.hidden)
  <2>1. Runtime \in 1 .. Len(phases) /\ Closed(Runtime)
    BY <1>0, <1>3, <1>4, <1>7, <1>8, <1>12
  <2>2. Len(phases) >= Runtime + Len(world.hidden)
    BY <1>1, <1>3, <2>1 DEF BordersOK
  <2>3. ~ Flow(next)
    BY <1>0, <1>3, <1>9, <2>2 DEF Flow
  <2>4. ASSUME NEW p \in DOMAIN phases', Flow(p)
        PROVE  Closed(p)' /\ phases'[p].end <= phases'[Runtime].end
    <3>1. p \in 1 .. Len(phases)
      BY <1>0, <1>3, <1>4, <2>3, <2>4
    <3> QED BY <1>3, <1>7, <2>1, <2>4, <3>1 DEF BordersOK
  <2> QED BY <1>0, <1>3, <1>4, <1>9, <2>2, <2>4
<1>13. BordersOK'
  BY <1>1, <1>5, <1>10, <1>11, <1>12 DEF BordersOK
<1> QED BY <1>6, <1>13

(* Ends are given only to the last phase and [RUNTIME], to this one when   *)
(* the flows are over.                                                     *)
LEMMA BordersInEnd ==
  ASSUME PhasesTyped, PhasesInOrder, SeriesOK, PlanOK, BordersOK, NEW E,
         \A p \in E : p \in DOMAIN phases =>
           ~Closed(p) /\ now > phases[p].start /\ p \in {Len(phases), Runtime},
         phases' = [p \in DOMAIN phases |->
                      IF p \in E THEN [phases[p] EXCEPT !.end = now] ELSE phases[p]],
         now' = now, world' = world, rest' \in {now, now + Padding},
         pc' # "measuring" \/ (pc' = pc /\ pc = "measuring" /\ rest' = now + Padding),
         Runtime \in E /\ pc' = "measuring" => Len(phases) >= Runtime + Len(world.hidden),
         Runtime \in E => \A p \in DOMAIN phases : Flow(p) => Closed(p) \/ p \in E
  PROVE  PlanOK' /\ BordersOK'
<1>1. /\ DOMAIN phases = 1 .. Len(phases) /\ Len(phases) \in Nat /\ now \in Nat
      /\ now \in 0 .. MaxTime /\ Padding \in Nat /\ MaxTime \in Nat
  BY TimeAssumption DEF PhasesTyped, SeriesOK
<1>2. /\ Plan' = Plan /\ Runtime' = Runtime
      /\ \A p : (Flow(p)' <=> Flow(p)) /\ Hidden(p)' = Hidden(p)
  BY PlanStays
<1>3. ASSUME NEW p \in DOMAIN phases
      PROVE  /\ phases'[p].start = phases[p].start /\ phases'[p].name = phases[p].name
             /\ phases'[p].hidden = phases[p].hidden
             /\ phases'[p].end = IF p \in E THEN now ELSE phases[p].end
             /\ phases[p].end \in Int
             /\ Closed(p) => phases[p].end <= now
             /\ Closed(p)' <=> Closed(p) \/ p \in E
  <2>1. phases[p] \in Phase
    BY DEF PhasesTyped
  <2>2. phases'[p] = IF p \in E THEN [phases[p] EXCEPT !.end = now] ELSE phases[p]
    OBVIOUS
  <2>3. /\ phases'[p].start = phases[p].start /\ phases'[p].name = phases[p].name
        /\ phases'[p].hidden = phases[p].hidden
        /\ phases'[p].end = (IF p \in E THEN now ELSE phases[p].end) /\ phases[p].end \in Int
    BY <2>1, <2>2 DEF Phase
  <2>4. now # Running
    BY <1>1 DEF Running
  <2>5. Closed(p)' <=> Closed(p) \/ p \in E
    BY <2>3, <2>4 DEF Closed, Running
  <2> QED BY <2>3, <2>5 DEF PhasesInOrder
<1>4. DOMAIN phases' = DOMAIN phases /\ Len(phases') = Len(phases)
  BY <1>1
<1>5. PlanOK'
  BY <1>1, <1>2, <1>3, <1>4 DEF PlanOK
<1>6. ASSUME NEW p \in DOMAIN phases, NEW q \in DOMAIN phases, p < q, p # Runtime
      PROVE  phases'[p].end + Padding <= phases'[q].start
  <2>1. p \notin E
    BY <1>1, <1>6
  <2> QED BY <1>3, <1>6, <2>1 DEF BordersOK
<1>7. ASSUME NEW p \in DOMAIN phases, pc' = "measuring", Closed(p)', p # Runtime
      PROVE  phases'[p].end + Padding <= rest'
  <2>1. phases'[p].end <= now
    BY <1>1, <1>3, <1>7
  <2> QED BY <1>1, <1>3, <1>7, <2>1
<1>8. ASSUME Runtime \in DOMAIN phases, Closed(Runtime)'
      PROVE  /\ \A p \in DOMAIN phases :
                  Flow(p) => Closed(p)' /\ phases'[p].end <= phases'[Runtime].end
             /\ pc' = "measuring" => Len(phases) >= Runtime + Len(world.hidden)
  <2>1. CASE Runtime \in E
    <3>1. phases'[Runtime].end = now
      BY <1>3, <1>8, <2>1
    <3>2. ASSUME NEW p \in DOMAIN phases, Flow(p)
          PROVE  Closed(p)' /\ phases'[p].end <= phases'[Runtime].end
      <4>1. Closed(p) \/ p \in E
        BY <2>1, <3>2
      <4> QED BY <1>1, <1>3, <3>1, <4>1
    <3> QED BY <2>1, <3>2
  <2>2. CASE Runtime \notin E
    <3>1. Closed(Runtime)
      BY <1>3, <1>8, <2>2
    <3>2. ASSUME NEW p \in DOMAIN phases, Flow(p)
          PROVE  Closed(p)' /\ phases'[p].end <= phases'[Runtime].end
      <4>1. Closed(p) /\ phases[p].end <= phases[Runtime].end
        BY <1>8, <3>1, <3>2 DEF BordersOK
      <4>2. p \notin E
        BY <4>1
      <4> QED BY <1>3, <1>8, <2>2, <4>1, <4>2
    <3> QED BY <1>8, <3>1, <3>2 DEF BordersOK
  <2> QED BY <2>1, <2>2
<1>9. BordersOK'
  BY <1>2, <1>4, <1>6, <1>7, <1>8 DEF BordersOK
<1> QED BY <1>5, <1>9

(* All steps keep the plan and the borders.                                *)
LEMMA BordersStay ==
  ASSUME PhasesTyped, PhasesInOrder, SeriesOK, PlanOK, BordersOK, [Next]_vars
  PROVE  PlanOK' /\ BordersOK'
<1>0. /\ DOMAIN phases = 1 .. Len(phases) /\ Len(phases) \in Nat /\ world \in Worlds
      /\ Runtime \in Nat /\ Len(world.hidden) \in Nat
      /\ Len(Plan) = Runtime + Len(world.hidden) + 1
  BY PlanIsSeq DEF PhasesTyped, SeriesOK
<1>1. ASSUME UNCHANGED <<phases, world, rest>>, pc' = "measuring" => pc = "measuring"
      PROVE  PlanOK' /\ BordersOK'
  <2>1. /\ Plan' = Plan /\ Runtime' = Runtime
        /\ \A p : (Flow(p)' <=> Flow(p)) /\ Hidden(p)' = Hidden(p)
    BY <1>1, PlanStays
  <2>2. \A p : Closed(p)' <=> Closed(p)
    BY <1>1 DEF Closed, Running
  <2> QED BY <1>1, <2>1, <2>2 DEF PlanOK, BordersOK
<1>2. ASSUME NEW p, EndPhase(p), p \in {Len(phases), Runtime},
             p = Runtime => /\ Len(phases) = Runtime + Len(world.hidden)
                            /\ Closed(Len(phases)) \/ world.hidden = <<>>
      PROVE  PlanOK' /\ BordersOK'
  <2>1. phases' = [q \in DOMAIN phases |->
                     IF q \in {p} THEN [phases[q] EXCEPT !.end = now] ELSE phases[q]]
    BY <1>2 DEF EndPhase
  <2>2. /\ now' = now /\ world' = world /\ pc' = pc /\ pc = "measuring" /\ rest' = now + Padding
        /\ ~Closed(p) /\ now > phases[p].start
    BY <1>2 DEF EndPhase
  <2>3. ASSUME Runtime \in {p}, NEW q \in DOMAIN phases, Flow(q) PROVE Closed(q)
    <3>1. Len(phases) = Runtime + Len(world.hidden) /\ q \in Runtime + 1 .. Len(phases)
      BY <1>0, <1>2, <2>3 DEF Flow
    <3>2. q = Len(phases) \/ q < Len(phases)
      BY <1>0, <3>1
    <3>3. world.hidden # <<>>
      <4>1. Len(world.hidden) # 0
        BY <1>0, <3>1
      <4> QED BY <4>1
    <3> QED BY <1>0, <1>2, <2>3, <3>1, <3>2, <3>3 DEF PhasesInOrder
  <2>4. PICK E : E = {p}
    OBVIOUS
  <2>5. Runtime \in E => Len(phases) >= Runtime + Len(world.hidden)
    <3> SUFFICES ASSUME p = Runtime PROVE Len(phases) >= Runtime + Len(world.hidden)
      BY <2>4
    <3>1. Len(phases) = Runtime + Len(world.hidden)
      BY <1>2
    <3> QED BY <1>0, <3>1
  <2>6. \A q \in E : q = p
    BY <2>4
  <2> QED BY <1>2, <2>1, <2>2, <2>3, <2>4, <2>5, <2>6, BordersInEnd
<1>3. CASE EndLast
  BY <1>2, <1>3 DEF EndLast
<1>4. CASE EndRuntime
  BY <1>2, <1>4 DEF EndRuntime
<1>5. CASE PatchPhases
  <2>1. PICK E : E = {p \in DOMAIN phases : ~Closed(p) /\ p \in {Len(phases), Runtime}}
    OBVIOUS
  <2>2. phases' = [p \in DOMAIN phases |->
                     IF p \in E THEN [phases[p] EXCEPT !.end = now] ELSE phases[p]]
    BY <1>5, <2>1 DEF PatchPhases
  <2>3. now' = now /\ world' = world /\ rest' = now /\ pc' = "patched" /\ pc = "post"
    BY <1>5 DEF PatchPhases
  <2>4. ASSUME NEW p \in DOMAIN phases, p \in E PROVE now > phases[p].start
    <3>1. p \in 1 .. Len(phases) /\ Len(phases) \in DOMAIN phases /\ Len(phases) > 0
      BY <1>0
    <3>2. phases[p] \in Phase /\ phases[Len(phases)] \in Phase /\ now \in Nat
      BY <3>1 DEF PhasesTyped
    <3>3. phases[p].start \in Int /\ phases[Len(phases)].start \in Int
      BY <3>2 DEF Phase
    <3>4. phases[p].start <= phases[Len(phases)].start
      BY <1>0, <3>1, <3>3 DEF PhasesInOrder
    <3>5. now > phases[Len(phases)].start
      BY <2>3, <3>1 DEF PhasesInOrder, LastBegan
    <3> QED BY <3>2, <3>3, <3>4, <3>5
  <2>5. ASSUME NEW p \in DOMAIN phases, Flow(p) PROVE Closed(p) \/ p \in E
    <3>1. p < Len(phases) \/ p = Len(phases)
      BY <1>0
    <3>2. p # Runtime
      BY <1>0, <2>5 DEF Flow
    <3> QED BY <1>0, <2>1, <3>1, <3>2 DEF PhasesInOrder
  <2> QED BY <2>1, <2>2, <2>3, <2>4, <2>5, BordersInEnd
<1>6. CASE Tick \/ Complete \/ Fail \/ StopProviders \/ CalculateCo2
  BY <1>1, <1>6 DEF Tick, Complete, Fail, Leave, StopProviders, CalculateCo2, measured
<1>7. CASE BuildPhase \/ BuildCrashes \/ SkipRuntime \/ Store \/ InsertRuntime \/ UpdateRuntime
  BY <1>1, <1>7 DEF BuildPhase, BuildCrashes, SkipRuntime, Store, InsertRuntime, UpdateRuntime,
     measured
<1>8. CASE UNCHANGED vars
  BY <1>1, <1>8 DEF vars, measured
<1> QED BY <1>3, <1>4, <1>5, <1>6, <1>7, <1>8, BordersInStart DEF Next

-----------------------------------------------------------------------------
(* A sum of fractions is one.                                              *)
LEMMA SumIsFraction ==
  ASSUME NEW f, NEW S, IsFiniteSet(S), \A x \in S : f[x] \in Fraction
  PROVE  SumQ(f, S) \in Fraction
<1> DEFINE Good == {T \in SUBSET S : SumQ(f, T) \in Fraction}
<1>1. {} \in Good
  <2>1. SumQ(f, {}) = Zero
    BY FS_EmptySet, SumQUnfolds
  <2> QED BY <2>1 DEF Zero, Q, Fraction
<1>2. ASSUME NEW T \in SUBSET S, T # {}, \A x \in T : T \ {x} \in Good PROVE T \in Good
  <2>1. IsFiniteSet(T)
    BY FS_Subset
  <2>2. First(T) \in T /\ SumQ(f, T) = Plus(f[First(T)], SumQ(f, T \ {First(T)}))
    BY <1>2, <2>1, SumQUnfolds
  <2>3. SumQ(f, T \ {First(T)}) \in Fraction /\ f[First(T)] \in Fraction
    BY <1>2, <2>2
  <2>4. SumQ(f, T) \in Fraction
    BY <2>2, <2>3, FractionTypes
  <2> QED BY <2>4
<1>3. SUBSET S \subseteq Good
  <2> HIDE DEF Good
  <2> QED BY <1>1, <1>2, AllSubsets
<1> QED BY <1>3

-----------------------------------------------------------------------------
(* The time of a phase, which is over.                                     *)
LEMMA PhaseTakesTime ==
  ASSUME PhasesTyped, PhasesInOrder, pc \notin Measuring, NEW p \in DOMAIN phases
  PROVE  /\ Duration(p) \in Nat \ {0} /\ phases[p].start \in Nat /\ phases[p].end \in Nat
         /\ phases[p].start < phases[p].end
<1>1. phases[p] \in Phase
  BY DEF PhasesTyped
<1>2. phases[p].start \in Nat /\ phases[p].end \in Int /\ phases[p].start < phases[p].end
  BY <1>1 DEF Phase, PhasesInOrder
<1> QED BY <1>2 DEF Duration

(* What counts for a phase are samples, numbers that add up.               *)
LEMMA CountedTypes ==
  ASSUME SeriesOK, SamplesOK, NEW m \in DOMAIN series, NEW p
  PROVE  /\ Counted(m, p) \subseteq DOMAIN series[m] /\ Counted(m, p) \subseteq 1 .. MaxTime
         /\ DOMAIN series[m] \subseteq 1 .. MaxTime
         /\ IsFiniteSet(Counted(m, p)) /\ IsFiniteSet(DOMAIN series[m])
         /\ \A t \in DOMAIN series[m] : series[m][t] \in Nat
         /\ Total(m, p) \in Nat
<1>1. Counted(m, p) \subseteq DOMAIN series[m]
  BY DEF Counted, InPhase, Later
<1>2. DOMAIN series[m] \subseteq 1 .. now /\ now \in 0 .. MaxTime /\ MaxTime \in Nat
      /\ \A t \in DOMAIN series[m] : series[m][t] \in Nat
  BY TimeAssumption DEF SamplesOK, SeriesOK
<1>3. 1 .. now \subseteq 1 .. MaxTime /\ IsFiniteSet(1 .. MaxTime)
  BY <1>2, FS_Interval
<1>4. IsFiniteSet(Counted(m, p)) /\ IsFiniteSet(DOMAIN series[m])
  BY <1>1, <1>2, <1>3, FS_Subset
<1>5. Total(m, p) \in Nat
  BY <1>1, <1>2, <1>4, SumIsNat DEF Total
<1> QED BY <1>1, <1>2, <1>3, <1>4, <1>5

(* Min and Max of times.                                                   *)
LEMMA ExtremeTimes ==
  ASSUME NEW S, S \subseteq 1 .. MaxTime, S # {}
  PROVE  /\ Min(S) \in S /\ Max(S) \in S /\ Min(S) \in Nat /\ Max(S) \in Nat
         /\ \A t \in S : t \in Nat /\ Min(S) <= t /\ t <= Max(S)
<1>1. S \subseteq 0 .. MaxTime /\ MaxTime \in Nat
  BY TimeAssumption
<1>2. Min(S) \in S /\ Max(S) \in S /\ \A t \in S : Min(S) <= t /\ t <= Max(S)
  BY <1>1, Extremes
<1>3. \A t \in S : t \in Nat
  BY <1>1
<1> QED BY <1>2, <1>3

(* All but the first of some times have one before.                        *)
LEMMA BeforeIsInner ==
  ASSUME NEW S, S \subseteq 1 .. MaxTime, NEW t \in Inner(S)
  PROVE  /\ Before(S, t) \in S /\ Before(S, t) < t /\ Before(S, t) \in Nat /\ t \in Nat
         /\ t \in S /\ \A u \in S : u < t => u <= Before(S, t)
<1>1. t \in S /\ t # Min(S)
  BY DEF Inner
<1>2. Min(S) \in S /\ Min(S) < t /\ t \in Nat
  <2>1. Min(S) \in S /\ Min(S) \in Nat /\ t \in Nat /\ Min(S) <= t
    BY <1>1, ExtremeTimes
  <2> QED BY <1>1, <2>1
<1> DEFINE T == {u \in S : u < t}
<1>3. T \subseteq 1 .. MaxTime /\ T # {}
  BY <1>2
<1>4. Before(S, t) = Max(T)
  BY DEF Before
<1>5. Max(T) \in T /\ Max(T) \in Nat /\ \A u \in T : u <= Max(T)
  <2> HIDE DEF T
  <2> QED BY <1>3, ExtremeTimes
<1> QED BY <1>1, <1>2, <1>4, <1>5

(* A set of more than two times spans some time.                           *)
LEMMA MoreThanTwo ==
  ASSUME NEW S, S \subseteq 1 .. MaxTime, IsFiniteSet(S), S # {}
  PROVE  /\ Cardinality(S) \in Nat \ {0}
         /\ Cardinality(Inner(S)) = Cardinality(S) - 1 /\ IsFiniteSet(Inner(S))
         /\ ~ Cardinality(S) <= 2 => Inner(S) # {} /\ Min(S) < Max(S)
<1>1. Min(S) \in S
  BY ExtremeTimes
<1>2. Cardinality(S) \in Nat \ {0}
  BY FS_CardinalityType, FS_EmptySet
<1>3. IsFiniteSet(Inner(S)) /\ Cardinality(Inner(S)) = Cardinality(S) - 1
  BY <1>1, FS_RemoveElement DEF Inner
<1>4. ASSUME ~ Cardinality(S) <= 2 PROVE Inner(S) # {} /\ Min(S) < Max(S)
  <2>1. Cardinality(Inner(S)) # 0
    BY <1>2, <1>3, <1>4
  <2>2. Inner(S) # {}
    BY <2>1, FS_EmptySet
  <2>3. PICK t \in Inner(S) : TRUE
    BY <2>2
  <2>4. t \in S /\ t # Min(S)
    BY <2>3 DEF Inner
  <2>5. Min(S) \in Nat /\ Max(S) \in Nat /\ t \in Nat /\ Min(S) <= t /\ t <= Max(S)
    BY <2>4, ExtremeTimes
  <2> QED BY <2>2, <2>4, <2>5
<1> QED BY <1>2, <1>3, <1>4

(* Averages and derivatives are fractions that are not negative.           *)
LEMMA AverageTypes ==
  ASSUME PhasesTyped, PhasesInOrder, SeriesOK, SamplesOK, pc \notin Measuring,
         NEW p \in DOMAIN phases, NEW m \in DOMAIN series, Counted(m, p) # {}
  PROVE  Average(m, p) \in Fraction /\ Derivative(m, p) \in Fraction
<1> DEFINE S == Counted(m, p)
<1>1. S \subseteq DOMAIN series[m] /\ S \subseteq 1 .. MaxTime /\ IsFiniteSet(S) /\ S # {}
      /\ Total(m, p) \in Nat /\ Duration(p) \in Nat \ {0}
      /\ \A t \in DOMAIN series[m] : series[m][t] \in Nat
  BY CountedTypes, PhaseTakesTime
<1> HIDE DEF S
<1>2. /\ Cardinality(S) \in Nat \ {0} /\ IsFiniteSet(Inner(S))
      /\ Cardinality(Inner(S)) = Cardinality(S) - 1
      /\ ~ Cardinality(S) <= 2 => Min(S) < Max(S)
  BY <1>1, MoreThanTwo
<1>3. Min(S) \in Nat /\ Max(S) \in Nat
  BY <1>1, ExtremeTimes
<1>4. \A t \in Inner(S) : /\ t \in S /\ t \in Nat /\ Before(S, t) \in Nat
                          /\ t - Before(S, t) \in Nat \ {0} /\ series[m][t] \in Nat
  <2> SUFFICES ASSUME NEW t \in Inner(S)
               PROVE  /\ t \in S /\ t \in Nat /\ Before(S, t) \in Nat
                      /\ t - Before(S, t) \in Nat \ {0} /\ series[m][t] \in Nat
    OBVIOUS
  <2>1. t \in S /\ t \in Nat /\ Before(S, t) \in Nat /\ Before(S, t) < t
    BY <1>1, BeforeIsInner
  <2> QED BY <1>1, <2>1
<1>5. Average(m, p) \in Fraction
  <2>1. CASE Cardinality(S) <= 2
    <3>1. Average(m, p) = Q(Total(m, p), Cardinality(S))
      BY <2>1 DEF Average, S
    <3> QED BY <1>1, <1>2, <3>1, FractionTypes
  <2>2. CASE ~ Cardinality(S) <= 2
    <3> DEFINE gap == [t \in Inner(S) |-> t - Before(S, t)]
               f == [t \in Inner(S) |-> series[m][t] * gap[t]]
    <3>1. Average(m, p) = Q(Sum(f, Inner(S)), Max(S) - Min(S))
      BY <2>2 DEF Average, S
    <3>2. \A t \in Inner(S) : f[t] \in Nat
      <4>1. \A a, b \in Nat : a * b \in Nat
        OBVIOUS
      <4> QED BY <1>4, <4>1
    <3> HIDE DEF f
    <3>3. Sum(f, Inner(S)) \in Nat
      BY <1>2, <3>2, SumIsNat
    <3>4. Max(S) - Min(S) \in Nat \ {0}
      BY <1>2, <1>3, <2>2
    <3> QED BY <3>1, <3>3, <3>4, FractionTypes
  <2> QED BY <2>1, <2>2
<1>6. Derivative(m, p) \in Fraction
  <2>1. CASE Cardinality(S) <= 2
    <3>1. Derivative(m, p) = Q(Total(m, p), Duration(p))
      BY <2>1 DEF Derivative, S
    <3> QED BY <1>1, <3>1, FractionTypes
  <2>2. CASE ~ Cardinality(S) <= 2
    <3> DEFINE slope == [t \in Inner(S) |-> Q(series[m][t], t - Before(S, t))]
    <3>1. Derivative(m, p) = Times(SumQ(slope, Inner(S)), Q(1, Cardinality(Inner(S))))
      BY <2>2 DEF Derivative, S
    <3>2. \A t \in Inner(S) : slope[t] \in Fraction
      BY <1>4, FractionTypes
    <3> HIDE DEF slope
    <3>3. SumQ(slope, Inner(S)) \in Fraction
      BY <1>2, <3>2, SumIsFraction
    <3>4. Cardinality(Inner(S)) \in Nat \ {0}
      BY <1>2, <2>2
    <3>5. Q(1, Cardinality(Inner(S))) \in Fraction
      BY <3>4, FractionTypes
    <3> QED BY <3>1, <3>3, <3>5, FractionTypes
  <2> QED BY <2>1, <2>2
<1> QED BY <1>5, <1>6

-----------------------------------------------------------------------------
(* Statistics are made of what is listed, and only if all of it was        *)
(* imported.                                                               *)
Evaluable ==
  /\ PhasesTyped /\ PhasesInOrder /\ SeriesOK /\ SamplesOK
  /\ pc \notin Measuring /\ listed \subseteq DOMAIN series

RowsAt(p) ==
  [phase : {p}, kind : Kinds, of : Details, type : {"TOTAL", "MEAN"}, value : Int,
   hidden : {phases[p].hidden}]

-----------------------------------------------------------------------------
(* The names of metrics; there is one metric of the machine's energy.      *)
LEMMA MetricTypes ==
  ASSUME SamplesOK, NEW m \in listed
  PROVE  /\ m = Metric(m.kind, m.of) /\ m.kind \in Kinds /\ m.of \in Details
         /\ m.kind = "energy" => m = Energy
         /\ m.kind = "load" => m = Load
         /\ m.kind = "carbon" => m.of \in Range(Intensities)
<1>1. m \in Measured \cup Derived
  BY DEF SamplesOK
<1>2. Range(Intensities) \cup Containers \cup {"machine"} \subseteq Details
  BY DEF Details
<1>3. CASE m \in {Energy, Load}
  BY <1>2, <1>3 DEF Energy, Load, Metric, Kinds
<1>4. CASE m \notin {Energy, Load}
  <2>1. PICK kind \in {"intensity", "carbon", "share", "bytes", "custom"},
             of \in Range(Intensities) \cup Containers :
          m = Metric(kind, of) /\ (kind = "carbon" => of \in Range(Intensities))
    BY <1>1, <1>4 DEF Measured, Derived
  <2> QED BY <1>2, <2>1 DEF Metric, Kinds
<1> QED BY <1>3, <1>4

(* There are finitely many.                                                *)
LEMMA ListedIsFinite ==
  ASSUME SamplesOK
  PROVE  IsFiniteSet(listed) /\ \A k, p : IsFiniteSet(In(k, p)) /\ In(k, p) \subseteq listed
<1> DEFINE names == Range(Intensities)
           ofIntensities == [i \in names |-> Metric("intensity", i)]
           ofCarbon == [i \in names |-> Metric("carbon", i)]
           pairs == {"share", "bytes", "custom"} \X Containers
           ofContainers == [x \in pairs |-> Metric(x[1], x[2])]
<1>1. IsFiniteSet(names)
  <2>1. names = {Intensities[i] : i \in 1 .. Len(Intensities)} /\ Len(Intensities) \in Nat
    BY NamesAssumption DEF Range
  <2>2. IsFiniteSet(1 .. Len(Intensities))
    BY <2>1, FS_Interval
  <2> HIDE DEF names
  <2> QED BY <2>1, <2>2, ImageIsFinite
<1>2. IsFiniteSet({ofIntensities[i] : i \in names}) /\ IsFiniteSet({ofCarbon[i] : i \in names})
  <2> HIDE DEF names, ofIntensities, ofCarbon
  <2> QED BY <1>1, ImageIsFinite
<1>3. IsFiniteSet({ofContainers[x] : x \in pairs})
  <2>1. IsFiniteSet({"share", "bytes", "custom"})
    <3>1. IsFiniteSet({"share"}) /\ IsFiniteSet({"bytes"}) /\ IsFiniteSet({"custom"})
      BY FS_Singleton
    <3>2. IsFiniteSet({"share"} \cup {"bytes"})
      BY <3>1, FS_Union
    <3>3. IsFiniteSet(({"share"} \cup {"bytes"}) \cup {"custom"})
      BY <3>1, <3>2, FS_Union
    <3>4. ({"share"} \cup {"bytes"}) \cup {"custom"} = {"share", "bytes", "custom"}
      OBVIOUS
    <3> QED BY <3>3, <3>4
  <2>2. IsFiniteSet(pairs)
    BY <2>1, FS_Product, NamesAssumption
  <2> HIDE DEF pairs, ofContainers
  <2> QED BY <2>2, ImageIsFinite
<1>4. IsFiniteSet({Energy} \cup {Load})
  BY FS_Singleton, FS_Union
<1> DEFINE A == {ofIntensities[i] : i \in names}
           B == {ofCarbon[i] : i \in names}
           C == {ofContainers[x] : x \in pairs}
           D == {Energy} \cup {Load}
<1>5. listed \subseteq A \cup B \cup C \cup D
  <2> SUFFICES ASSUME NEW m \in listed PROVE m \in A \cup B \cup C \cup D
    OBVIOUS
  <2>1. m \in Measured \cup Derived
    BY DEF SamplesOK
  <2>2. CASE m \in {Energy, Load}
    BY <2>2
  <2>3. CASE \E i \in names : m = Metric("intensity", i)
    BY <2>3
  <2>4. CASE \E i \in names : m = Metric("carbon", i)
    BY <2>4
  <2>5. CASE \E k \in {"share", "bytes", "custom"}, c \in Containers : m = Metric(k, c)
    <3>1. PICK k \in {"share", "bytes", "custom"}, c \in Containers : m = Metric(k, c)
      BY <2>5
    <3>2. <<k, c>> \in pairs /\ ofContainers[<<k, c>>] = m
      BY <3>1
    <3> HIDE DEF pairs, ofContainers
    <3> QED BY <3>2
  <2> HIDE DEF A, B, C, D
  <2> QED BY <2>1, <2>2, <2>3, <2>4, <2>5 DEF Measured, Derived
<1> HIDE DEF A, B, C, D
<1>6. IsFiniteSet(A \cup B \cup C \cup D)
  <2>1. IsFiniteSet(A \cup B)
    BY <1>2, FS_Union DEF A, B
  <2>2. IsFiniteSet(A \cup B \cup C)
    BY <1>3, <2>1, FS_Union DEF C
  <2> QED BY <1>4, <2>2, FS_Union DEF D
<1>7. IsFiniteSet(listed)
  BY <1>5, <1>6, FS_Subset
<1>8. ASSUME NEW k, NEW p PROVE IsFiniteSet(In(k, p)) /\ In(k, p) \subseteq listed
  <2>1. In(k, p) \subseteq listed
    BY DEF In
  <2> QED BY <1>7, <2>1, FS_Subset
<1> QED BY <1>7, <1>8

-----------------------------------------------------------------------------
(* What a metric that counts for a phase amounts to in it.                 *)
LEMMA InTypes ==
  ASSUME Evaluable, NEW p \in DOMAIN phases, NEW k, NEW m \in In(k, p)
  PROVE  /\ m \in listed /\ m \in DOMAIN series /\ m.kind = k /\ Counted(m, p) # {}
         /\ m.kind \in Kinds /\ m.of \in Details
         /\ Total(m, p) \in Nat /\ Q(Total(m, p), 1) \in Fraction
         /\ Average(m, p) \in Fraction /\ Derivative(m, p) \in Fraction
<1>1. m \in listed /\ m.kind = k /\ Counted(m, p) # {}
  BY DEF In
<1>2. m \in DOMAIN series /\ m.kind \in Kinds /\ m.of \in Details
  BY <1>1, MetricTypes DEF Evaluable
<1>3. Total(m, p) \in Nat
  BY <1>2, CountedTypes DEF Evaluable
<1>4. Average(m, p) \in Fraction /\ Derivative(m, p) \in Fraction
  BY <1>1, <1>2, AverageTypes DEF Evaluable
<1> QED BY <1>1, <1>2, <1>3, <1>4, FractionTypes

(* A row that is made of a fraction.                                       *)
LEMMA RowIsTyped ==
  ASSUME NEW p, NEW k \in Kinds, NEW of \in Details, NEW type \in {"TOTAL", "MEAN"}, NEW q \in Signed
  PROVE  Row(p, k, of, type, q) \in RowsAt(p)
BY RoundTypes DEF Row, RowsAt

(* A total or a mean.                                                      *)
LEMMA RowsAreTyped ==
  ASSUME NEW p, NEW k \in Kinds, NEW of \in Details, NEW q, q \in Signed \/ q \in Fraction
  PROVE  TotalRow(p, k, of, q) \in RowsAt(p) /\ MeanRow(p, k, of, q) \in RowsAt(p)
<1>1. q \in Signed
  BY FractionTypes
<1> QED BY <1>1, RowIsTyped DEF TotalRow, MeanRow

(* The power of the machine.                                               *)
LEMMA PowerTypes ==
  ASSUME Evaluable, NEW p \in DOMAIN phases, In("energy", p) # {}
  PROVE  /\ Power(p) \in Fraction /\ Energy \in In("energy", p)
<1>1. PICK m \in In("energy", p) : TRUE
  OBVIOUS
<1>2. m \in listed /\ m.kind = "energy" /\ Derivative(m, p) \in Fraction
  BY <1>1, InTypes
<1>3. m = Energy
  BY <1>2, MetricTypes DEF Evaluable
<1>4. Q(Scale, 1) \in Fraction
  BY ScaleAssumption, FractionTypes
<1> QED BY <1>1, <1>2, <1>3, <1>4, FractionTypes DEF Power

(* Shares of the load, and what part of it a container has.                *)
LEMMA RatioTypes ==
  ASSUME Evaluable, NEW p \in DOMAIN phases, NEW m \in In("share", p)
  PROVE  Shares(p) \in Fraction /\ Ratio(p, m) \in Fraction
<1> DEFINE f == [x \in In("share", p) |-> Average(x, p)]
<1>1. \A x \in In("share", p) : f[x] \in Fraction
  BY InTypes
<1>2. IsFiniteSet(In("share", p))
  BY ListedIsFinite DEF Evaluable
<1>3. Shares(p) = SumQ(f, In("share", p))
  BY DEF Shares
<1> HIDE DEF f
<1>4. Shares(p) \in Fraction
  BY <1>1, <1>2, <1>3, SumIsFraction
<1>5. Average(m, p) \in Fraction
  BY InTypes
<1>6. CASE Shares(p).n < Shares(p).d
  BY <1>4, <1>6, FractionTypes DEF Ratio, Zero
<1>7. CASE ~ Shares(p).n < Shares(p).d
  <2>1. Shares(p).n \in Nat \ {0} /\ Shares(p).d \in Nat
    BY <1>4, <1>7 DEF Fraction
  <2>2. Q(Shares(p).d, Shares(p).n) \in Fraction
    BY <2>1, FractionTypes
  <2> QED BY <1>4, <1>5, <1>7, <2>2, FractionTypes DEF Ratio
<1> QED BY <1>6, <1>7

(* What the rows of a phase are made of is a fraction.                     *)
LEMMA PhaseRowTypes ==
  ASSUME Evaluable, NEW p \in DOMAIN phases, NEW b \in Fraction
  PROVE  PhaseRows(p, b) \subseteq RowsAt(p)
<1>0. /\ Duration(p) \in Nat \ {0} /\ Duration(p) \in Nat /\ 1 \in Nat \ {0} /\ 1 \in Nat
      /\ Scale \in Nat \ {0} /\ Scale \in Nat /\ CarbonScale \in Nat \ {0}
      /\ {"machine", "formula"} \subseteq Details
  BY PhaseTakesTime, ScaleAssumption DEF Evaluable, Details
<1>1. TimeRow(p) \in RowsAt(p)
  BY <1>0, FractionTypes, RowsAreTyped DEF TimeRow, Kinds
<1>2. MetricRows(p) \subseteq RowsAt(p)
  <2>1. ASSUME NEW m \in In("intensity", p) \cup In("load", p) \cup In("share", p)
        PROVE  MeanRow(p, m.kind, m.of, Average(m, p)) \in RowsAt(p)
    <3>1. PICK k \in {"intensity", "load", "share"} : m \in In(k, p)
      BY <2>1
    <3> QED BY <3>1, InTypes, RowsAreTyped
  <2>2. ASSUME NEW m \in In("bytes", p)
        PROVE  MeanRow(p, "rate", m.of, Times(Derivative(m, p), Q(Scale, 1))) \in RowsAt(p)
    <3>1. Derivative(m, p) \in Fraction /\ m.of \in Details
      BY <2>2, InTypes
    <3>2. Times(Derivative(m, p), Q(Scale, 1)) \in Fraction
      BY <1>0, <3>1, FractionTypes
    <3> QED BY <3>1, <3>2, RowsAreTyped DEF Kinds
  <2>3. ASSUME NEW m \in In("energy", p) PROVE MeanRow(p, "power", m.of, Power(p)) \in RowsAt(p)
    <3>1. Power(p) \in Fraction /\ m.of \in Details
      BY <2>3, InTypes, PowerTypes
    <3> QED BY <3>1, RowsAreTyped DEF Kinds
  <2>4. ASSUME NEW m \in UNION {In(k, p) : k \in {"bytes", "energy", "carbon", "custom"}}
        PROVE  TotalRow(p, m.kind, m.of, Q(Total(m, p), 1)) \in RowsAt(p)
    <3>1. PICK k \in {"bytes", "energy", "carbon", "custom"} : m \in In(k, p)
      BY <2>4
    <3> QED BY <3>1, InTypes, RowsAreTyped
  <2> QED BY <2>1, <2>2, <2>3, <2>4 DEF MetricRows
<1>3. NetworkRows(p) \subseteq RowsAt(p)
  <2> DEFINE f == [m \in In("bytes", p) |-> Total(m, p)]
             bytes == Q(Sum(f, In("bytes", p)), 1)
  <2>1. bytes \in Fraction
    <3>1. \A m \in In("bytes", p) : f[m] \in Nat
      BY InTypes
    <3>2. IsFiniteSet(In("bytes", p))
      BY ListedIsFinite DEF Evaluable
    <3> HIDE DEF f
    <3>3. Sum(f, In("bytes", p)) \in Nat
      BY <3>1, <3>2, SumIsNat
    <3> QED BY <1>0, <3>3, FractionTypes
  <2>2. \A r \in NetworkRows(p) :
          \/ r = TotalRow(p, "network_energy", "formula", bytes)
          \/ r = TotalRow(p, "network_power", "formula", Times(bytes, Q(Scale, Duration(p))))
          \/ \E m \in In("intensity", p) :
               r = TotalRow(p, "network_carbon", "formula",
                            Times(bytes, Times(Average(m, p), Q(1, CarbonScale))))
    BY DEF NetworkRows
  <2> HIDE DEF bytes
  <2>3. Times(bytes, Q(Scale, Duration(p))) \in Fraction
    BY <1>0, <2>1, FractionTypes
  <2>4. ASSUME NEW m \in In("intensity", p)
        PROVE  Times(bytes, Times(Average(m, p), Q(1, CarbonScale))) \in Fraction
    <3>1. Average(m, p) \in Fraction /\ Q(1, CarbonScale) \in Fraction
      BY <1>0, InTypes, FractionTypes
    <3>2. Times(Average(m, p), Q(1, CarbonScale)) \in Fraction
      BY <3>1, FractionTypes
    <3> QED BY <2>1, <3>2, FractionTypes
  <2> QED BY <1>0, <2>1, <2>2, <2>3, <2>4, RowsAreTyped DEF Kinds
<1>4. EmbodiedRows(p) \subseteq RowsAt(p)
  BY <1>0, FractionTypes, RowsAreTyped DEF EmbodiedRows, Embodied, Kinds
<1>5. SliceRows(p, b) \subseteq RowsAt(p)
  <2> SUFFICES ASSUME Sliced(p, b) PROVE SliceRows(p, b) \subseteq RowsAt(p)
    BY DEF SliceRows
  <2> DEFINE energy == Q(Total(Energy, p), 1)
             idle == Times(b, Q(Duration(p), Scale))
  <2>1. Energy \in In("energy", p) /\ Power(p) \in Fraction
    BY PowerTypes DEF Sliced
  <2>2. energy \in Fraction /\ idle \in Fraction
    BY <1>0, <2>1, InTypes, FractionTypes
  <2>3. Minus(energy, idle) \in Signed /\ Minus(Power(p), b) \in Signed
    <3> HIDE DEF energy, idle
    <3>1. energy \in Signed /\ idle \in Signed /\ b \in Signed /\ Power(p) \in Signed
      BY <2>1, <2>2, FractionTypes
    <3> QED BY <3>1, FractionTypes
  <2>4. \A r \in SliceRows(p, b) : \E m \in In("share", p) :
          \/ r = TotalRow(p, "slice_energy", m.of, Times(energy, Ratio(p, m)))
          \/ r = MeanRow(p, "slice_power", m.of, Times(Power(p), Ratio(p, m)))
          \/ r = TotalRow(p, "surplus_energy", m.of, Times(Minus(energy, idle), Ratio(p, m)))
          \/ r = MeanRow(p, "surplus_power", m.of, Times(Minus(Power(p), b), Ratio(p, m)))
    BY DEF SliceRows
  <2> HIDE DEF energy, idle
  <2>5. ASSUME NEW m \in In("share", p)
        PROVE  /\ Times(energy, Ratio(p, m)) \in Fraction /\ Times(Power(p), Ratio(p, m)) \in Fraction
               /\ Times(Minus(energy, idle), Ratio(p, m)) \in Signed
               /\ Times(Minus(Power(p), b), Ratio(p, m)) \in Signed
               /\ m.of \in Details
    <3>1. Ratio(p, m) \in Fraction /\ Ratio(p, m) \in Signed /\ m.of \in Details
      BY InTypes, RatioTypes, FractionTypes
    <3> QED BY <2>1, <2>2, <2>3, <3>1, FractionTypes
  <2> QED BY <2>4, <2>5, RowsAreTyped DEF Kinds
<1>6. SciRows(p) \subseteq RowsAt(p)
  <2> DEFINE carbon == {m \in In("carbon", p) : m.of \in Chosen}
             f == [m \in carbon |-> Total(m, p)]
             machine == Q(Sum(f, carbon), 1)
  <2>1. machine \in Fraction
    <3>1. \A m \in carbon : f[m] \in Nat
      BY InTypes
    <3>2. IsFiniteSet(In("carbon", p)) /\ carbon \subseteq In("carbon", p)
      BY ListedIsFinite DEF Evaluable
    <3>3. IsFiniteSet(carbon)
      BY <3>2, FS_Subset
    <3> HIDE DEF f, carbon
    <3>4. Sum(f, carbon) \in Nat
      BY <3>1, <3>3, SumIsNat
    <3> QED BY <1>0, <3>4, FractionTypes
  <2>2. \A r \in SciRows(p) : \E m \in In("custom", p) :
          /\ Total(m, p) # 0
          /\ r = TotalRow(p, "sci", m.of, Times(Plus(machine, Embodied(p)), Q(1, Total(m, p))))
    BY DEF SciRows
  <2> HIDE DEF machine
  <2>3. ASSUME NEW m \in In("custom", p), Total(m, p) # 0
        PROVE  Times(Plus(machine, Embodied(p)), Q(1, Total(m, p))) \in Fraction /\ m.of \in Details
    <3>1. Total(m, p) \in Nat \ {0} /\ m.of \in Details
      BY <2>3, InTypes
    <3>2. Q(1, Total(m, p)) \in Fraction /\ Embodied(p) \in Fraction
      BY <1>0, <3>1, FractionTypes DEF Embodied
    <3>3. Plus(machine, Embodied(p)) \in Fraction
      BY <2>1, <3>2, FractionTypes
    <3> QED BY <3>1, <3>2, <3>3, FractionTypes
  <2> QED BY <2>2, <2>3, RowsAreTyped DEF Kinds
<1> QED BY <1>1, <1>2, <1>3, <1>4, <1>5, <1>6 DEF PhaseRows

-----------------------------------------------------------------------------
(* The columns of a row.                                                   *)
LEMMA RowHas ==
  ASSUME NEW p, NEW k, NEW of, NEW q
  PROVE  /\ TotalRow(p, k, of, q).phase = p /\ TotalRow(p, k, of, q).kind = k
         /\ TotalRow(p, k, of, q).of = of /\ TotalRow(p, k, of, q).type = "TOTAL"
         /\ TotalRow(p, k, of, q).value = Round(q)
         /\ TotalRow(p, k, of, q).hidden = phases[p].hidden
         /\ MeanRow(p, k, of, q).phase = p /\ MeanRow(p, k, of, q).kind = k
         /\ MeanRow(p, k, of, q).of = of /\ MeanRow(p, k, of, q).type = "MEAN"
         /\ MeanRow(p, k, of, q).value = Round(q)
         /\ MeanRow(p, k, of, q).hidden = phases[p].hidden
BY DEF TotalRow, MeanRow, Row

(* What a row of a kind is.                                                *)
LEMMA RowsByKind ==
  ASSUME NEW p, NEW b, NEW r \in PhaseRows(p, b)
  PROVE  /\ r.phase = p /\ r.hidden = phases[p].hidden
         /\ r.kind = "time" => r = TimeRow(p)
         /\ r.kind \in {"bytes", "energy", "carbon", "custom"} =>
              \E m \in In(r.kind, p) : r = TotalRow(p, m.kind, m.of, Q(Total(m, p), 1))
         /\ r.kind \in {"intensity", "load", "share"} =>
              \E m \in In(r.kind, p) : r = MeanRow(p, m.kind, m.of, Average(m, p))
         /\ r.kind = "slice_energy" => r \in SliceRows(p, b)
         /\ r.kind = "sci" => r \in SciRows(p)
<1> USE RowHas
<1>1. CASE r = TimeRow(p)
  BY <1>1 DEF TimeRow
<1>2. CASE r \in MetricRows(p)
  <2>1. ASSUME NEW m \in In("intensity", p) \cup In("load", p) \cup In("share", p),
               r = MeanRow(p, m.kind, m.of, Average(m, p))
        PROVE  r.kind \in {"intensity", "load", "share"} /\ m \in In(r.kind, p)
    BY <2>1 DEF In
  <2>2. ASSUME NEW m \in UNION {In(k, p) : k \in {"bytes", "energy", "carbon", "custom"}},
               r = TotalRow(p, m.kind, m.of, Q(Total(m, p), 1))
        PROVE  r.kind \in {"bytes", "energy", "carbon", "custom"} /\ m \in In(r.kind, p)
    <3>1. PICK k \in {"bytes", "energy", "carbon", "custom"} : m \in In(k, p)
      BY <2>2
    <3>2. m.kind = k
      BY <3>1 DEF In
    <3> QED BY <2>2, <3>1, <3>2
  <2>3. \/ \E m \in In("intensity", p) \cup In("load", p) \cup In("share", p) :
             r = MeanRow(p, m.kind, m.of, Average(m, p))
        \/ \E m \in In("bytes", p) :
             r = MeanRow(p, "rate", m.of, Times(Derivative(m, p), Q(Scale, 1)))
        \/ \E m \in In("energy", p) : r = MeanRow(p, "power", m.of, Power(p))
        \/ \E m \in UNION {In(k, p) : k \in {"bytes", "energy", "carbon", "custom"}} :
             r = TotalRow(p, m.kind, m.of, Q(Total(m, p), 1))
    BY <1>2 DEF MetricRows
  <2>4. CASE \E m \in In("intensity", p) \cup In("load", p) \cup In("share", p) :
               r = MeanRow(p, m.kind, m.of, Average(m, p))
    BY <2>1, <2>4
  <2>5. CASE \E m \in UNION {In(k, p) : k \in {"bytes", "energy", "carbon", "custom"}} :
               r = TotalRow(p, m.kind, m.of, Q(Total(m, p), 1))
    BY <2>2, <2>5
  <2> QED BY <2>3, <2>4, <2>5
<1>3. CASE r \in NetworkRows(p)
  <2>1. \E k \in {"network_energy", "network_power", "network_carbon"} : \E q :
          r = TotalRow(p, k, "formula", q)
    BY <1>3 DEF NetworkRows
  <2> QED BY <2>1
<1>4. CASE r \in EmbodiedRows(p)
  BY <1>4 DEF EmbodiedRows
<1>5. CASE r \in SliceRows(p, b)
  <2>1. \E k \in {"slice_energy", "slice_power", "surplus_energy", "surplus_power"} : \E of, q :
          r = TotalRow(p, k, of, q) \/ r = MeanRow(p, k, of, q)
    BY <1>5 DEF SliceRows
  <2> QED BY <1>5, <2>1
<1>6. CASE r \in SciRows(p)
  <2> DEFINE carbon == {m \in In("carbon", p) : m.of \in Chosen}
             machine == Q(Sum([m \in carbon |-> Total(m, p)], carbon), 1)
             units == {n \in In("custom", p) : Total(n, p) # 0}
             value(m) == Times(Plus(machine, Embodied(p)), Q(1, Total(m, p)))
  <2>0. r \in {TotalRow(p, "sci", m.of, value(m)) : m \in units}
    BY <1>6 DEF SciRows
  <2>1. \E of, q : r = TotalRow(p, "sci", of, q)
    <3> HIDE DEF units, value
    <3> QED BY <2>0
  <2> QED BY <1>6, <2>1
<1> QED BY <1>1, <1>2, <1>3, <1>4, <1>5, <1>6 DEF PhaseRows

-----------------------------------------------------------------------------
RowsOf(rows, p) == {r \in rows : r.phase = p}
MadeOf(rows, p) == \E b \in Fraction : RowsOf(rows, p) = PhaseRows(p, b)

(* The row that [RUNTIME] has for a row of a flow: first with a sum.       *)
RuntimeRow(r) ==
  [phase |-> Runtime, kind |-> r.kind, of |-> r.of, type |-> r.type,
   value |-> IF pc = "done" /\ r.type = "MEAN" THEN WeightedMean(r)
             ELSE SumOfValues({s \in SubPhases : SameMetric(r, s)}),
   hidden |-> FALSE]

(* The rows of each phase are those that its samples make, and [RUNTIME]   *)
(* has those that the visible flows make.                                  *)
RowsOK ==
  /\ baseline \in Fraction /\ idx \in 1 .. Len(phases) + 1
  /\ IsFiniteSet(csv) /\ IsFiniteSet(stats)
  /\ pc \in Early \cup {"co2"} => csv = {} /\ warnings = {}
  /\ csv # {} \/ stats # {} => listed \subseteq DOMAIN series
  /\ \A r \in csv : r.phase \in DOMAIN phases \ {Runtime} /\ r.phase < idx
  /\ \A r \in stats : r.phase \in DOMAIN phases
  /\ \A w \in warnings : w.phase \in DOMAIN phases /\ w.metric \in listed
  /\ \A p \in DOMAIN phases \ {Runtime} : p < idx => MadeOf(csv, p)
  /\ stats # {} => \A p \in DOMAIN phases \ {Runtime} : MadeOf(stats, p)
  /\ RowsOf(stats, Runtime) =
       IF pc \in {"update", "done"} THEN {RuntimeRow(r) : r \in SubPhases} ELSE {}

-----------------------------------------------------------------------------
(* A phase has finitely many rows.                                         *)
LEMMA PhaseRowsAreFinite ==
  ASSUME SamplesOK, NEW p, NEW b
  PROVE  IsFiniteSet(PhaseRows(p, b))
<1>1. \A k : IsFiniteSet(In(k, p))
  BY ListedIsFinite
<1>2. IsFiniteSet(MetricRows(p))
  <2> DEFINE X == In("intensity", p) \cup In("load", p) \cup In("share", p)
             Y == UNION {In(k, p) : k \in {"bytes", "energy", "carbon", "custom"}}
             f == [m \in X |-> MeanRow(p, m.kind, m.of, Average(m, p))]
             g == [m \in In("bytes", p) |->
                     MeanRow(p, "rate", m.of, Times(Derivative(m, p), Q(Scale, 1)))]
             h == [m \in In("energy", p) |-> MeanRow(p, "power", m.of, Power(p))]
             i == [m \in Y |-> TotalRow(p, m.kind, m.of, Q(Total(m, p), 1))]
             A == {f[m] : m \in X}
             B == {g[m] : m \in In("bytes", p)}
             C == {h[m] : m \in In("energy", p)}
             D == {i[m] : m \in Y}
  <2>1. MetricRows(p) = A \cup B \cup C \cup D
    BY DEF MetricRows
  <2>2. IsFiniteSet(X)
    <3>1. IsFiniteSet(In("intensity", p) \cup In("load", p))
      BY <1>1, FS_Union
    <3> QED BY <1>1, <3>1, FS_Union
  <2>3. IsFiniteSet(Y)
    <3> DEFINE Z == In("bytes", p) \cup In("energy", p) \cup In("carbon", p) \cup In("custom", p)
    <3>1. Y = Z
      OBVIOUS
    <3>2. IsFiniteSet(In("bytes", p) \cup In("energy", p))
      BY <1>1, FS_Union
    <3>3. IsFiniteSet(In("bytes", p) \cup In("energy", p) \cup In("carbon", p))
      BY <1>1, <3>2, FS_Union
    <3>4. IsFiniteSet(Z)
      BY <1>1, <3>3, FS_Union
    <3> HIDE DEF Y, Z
    <3> QED BY <3>1, <3>4
  <2> HIDE DEF f, g, h, i, X, Y
  <2>4. IsFiniteSet(A) /\ IsFiniteSet(B) /\ IsFiniteSet(C) /\ IsFiniteSet(D)
    BY <1>1, <2>2, <2>3, ImageIsFinite
  <2> HIDE DEF A, B, C, D
  <2>5. IsFiniteSet(A \cup B)
    BY <2>4, FS_Union
  <2>6. IsFiniteSet(A \cup B \cup C)
    BY <2>4, <2>5, FS_Union
  <2>7. IsFiniteSet(A \cup B \cup C \cup D)
    BY <2>4, <2>6, FS_Union
  <2> QED BY <2>1, <2>7
<1>3. IsFiniteSet(NetworkRows(p))
  <2> DEFINE bytes == Q(Sum([m \in In("bytes", p) |-> Total(m, p)], In("bytes", p)), 1)
             f == [m \in In("intensity", p) |->
                     TotalRow(p, "network_carbon", "formula",
                              Times(bytes, Times(Average(m, p), Q(1, CarbonScale))))]
             A == {f[m] : m \in In("intensity", p)}
             u == TotalRow(p, "network_energy", "formula", bytes)
             v == TotalRow(p, "network_power", "formula", Times(bytes, Q(Scale, Duration(p))))
  <2>1. NetworkRows(p) \subseteq ({u} \cup {v}) \cup A
    BY DEF NetworkRows
  <2> HIDE DEF f, u, v
  <2>2. IsFiniteSet(A)
    BY <1>1, ImageIsFinite
  <2> HIDE DEF A
  <2>3. IsFiniteSet({u} \cup {v})
    <3>1. IsFiniteSet({u}) /\ IsFiniteSet({v})
      BY FS_Singleton
    <3> QED BY <3>1, FS_Union
  <2>4. IsFiniteSet(({u} \cup {v}) \cup A)
    BY <2>2, <2>3, FS_Union
  <2> QED BY <2>1, <2>4, FS_Subset
<1>4. IsFiniteSet(SliceRows(p, b))
  <2> DEFINE X == In("share", p)
             energy == Q(Total(Energy, p), 1)
             idle == Times(b, Q(Duration(p), Scale))
             f == [m \in X |-> TotalRow(p, "slice_energy", m.of, Times(energy, Ratio(p, m)))]
             g == [m \in X |-> MeanRow(p, "slice_power", m.of, Times(Power(p), Ratio(p, m)))]
             h == [m \in X |-> TotalRow(p, "surplus_energy", m.of,
                                        Times(Minus(energy, idle), Ratio(p, m)))]
             i == [m \in X |-> MeanRow(p, "surplus_power", m.of,
                                       Times(Minus(Power(p), b), Ratio(p, m)))]
             A == {f[m] : m \in X}
             B == {g[m] : m \in X}
             C == {h[m] : m \in X}
             D == {i[m] : m \in X}
  <2>1. SliceRows(p, b) \subseteq A \cup B \cup C \cup D
    <3> SUFFICES ASSUME Sliced(p, b), NEW r \in SliceRows(p, b) PROVE r \in A \cup B \cup C \cup D
      BY DEF SliceRows
    <3>1. \E m \in X :
          \/ r = TotalRow(p, "slice_energy", m.of, Times(energy, Ratio(p, m)))
          \/ r = MeanRow(p, "slice_power", m.of, Times(Power(p), Ratio(p, m)))
          \/ r = TotalRow(p, "surplus_energy", m.of, Times(Minus(energy, idle), Ratio(p, m)))
          \/ r = MeanRow(p, "surplus_power", m.of, Times(Minus(Power(p), b), Ratio(p, m)))
      BY DEF SliceRows
    <3>2. \E m \in X : r \in {f[m], g[m], h[m], i[m]}
      <4> HIDE DEF energy, idle, X
      <4> QED BY <3>1
    <3> HIDE DEF f, g, h, i, X
    <3> QED BY <3>2
  <2> HIDE DEF f, g, h, i, X
  <2>2. IsFiniteSet(A) /\ IsFiniteSet(B) /\ IsFiniteSet(C) /\ IsFiniteSet(D)
    <3>1. IsFiniteSet(X)
      BY <1>1 DEF X
    <3> QED BY <3>1, ImageIsFinite
  <2> HIDE DEF A, B, C, D
  <2>3. IsFiniteSet(A \cup B)
    BY <2>2, FS_Union
  <2>4. IsFiniteSet(A \cup B \cup C)
    BY <2>2, <2>3, FS_Union
  <2>5. IsFiniteSet(A \cup B \cup C \cup D)
    BY <2>2, <2>4, FS_Union
  <2> QED BY <2>1, <2>5, FS_Subset
<1>5. IsFiniteSet(SciRows(p))
  <2> DEFINE carbon == {m \in In("carbon", p) : m.of \in Chosen}
             machine == Q(Sum([m \in carbon |-> Total(m, p)], carbon), 1)
             units == {n \in In("custom", p) : Total(n, p) # 0}
             f == [m \in units |->
                     TotalRow(p, "sci", m.of,
                              Times(Plus(machine, Embodied(p)), Q(1, Total(m, p))))]
             A == {f[m] : m \in units}
  <2>1. SciRows(p) \subseteq A
    BY DEF SciRows
  <2>2. IsFiniteSet(units)
    <3>1. IsFiniteSet(In("custom", p)) /\ units \subseteq In("custom", p)
      BY <1>1
    <3> QED BY <3>1, FS_Subset
  <2> HIDE DEF f, units
  <2>3. IsFiniteSet(A)
    BY <2>2, ImageIsFinite
  <2> HIDE DEF A
  <2> QED BY <2>1, <2>3, FS_Subset
<1>6. IsFiniteSet({TimeRow(p)}) /\ IsFiniteSet(EmbodiedRows(p))
  BY FS_Singleton, FS_EmptySet DEF EmbodiedRows
<1> DEFINE T == {TimeRow(p)}
           M == MetricRows(p)
           N == NetworkRows(p)
           E == EmbodiedRows(p)
           S == SliceRows(p, b)
<1> HIDE DEF T, M, N, E, S
<1>7. IsFiniteSet(T \cup M)
  BY <1>2, <1>6, FS_Union DEF T, M
<1>8. IsFiniteSet(T \cup M \cup N)
  BY <1>3, <1>7, FS_Union DEF N
<1>9. IsFiniteSet(T \cup M \cup N \cup E)
  BY <1>6, <1>8, FS_Union DEF E
<1>10. IsFiniteSet(T \cup M \cup N \cup E \cup S)
  BY <1>4, <1>9, FS_Union DEF S
<1>11. IsFiniteSet(T \cup M \cup N \cup E \cup S \cup SciRows(p))
  BY <1>5, <1>10, FS_Union
<1> QED BY <1>11 DEF PhaseRows, T, M, N, E, S

(* They stay what they are.                                                *)
LEMMA PhaseRowsStay ==
  ASSUME UNCHANGED <<phases, listed, series, world>>
  PROVE  \A p, b : PhaseRows(p, b)' = PhaseRows(p, b)
<1>1. \A m, p : Counted(m, p)' = Counted(m, p)
  BY DEF Counted, InPhase, Later, NextStart
<1>2. \A m, p : Total(m, p)' = Total(m, p) /\ Average(m, p)' = Average(m, p)
  BY <1>1 DEF Total, Average
<1>3. \A m, p : Derivative(m, p)' = Derivative(m, p) /\ Duration(p)' = Duration(p)
  BY <1>1, <1>2 DEF Derivative, Duration
<1>4. \A k, p : In(k, p)' = In(k, p)
  BY <1>1 DEF In
<1>5. \A p : Power(p)' = Power(p) /\ Embodied(p)' = Embodied(p)
  BY <1>3 DEF Power, Embodied
<1>6. ASSUME NEW p, NEW b PROVE PhaseRows(p, b)' = PhaseRows(p, b)
  <2>1. TimeRow(p)' = TimeRow(p)
    BY DEF TimeRow, TotalRow, Row, Duration
  <2>2. MetricRows(p)' = MetricRows(p)
    BY <1>2, <1>3, <1>4, <1>5 DEF MetricRows, TotalRow, MeanRow, Row
  <2>3. Chosen' = Chosen
    BY DEF Chosen
  <2>4. NetworkRows(p)' = NetworkRows(p)
    <3> DEFINE all == [m \in In("bytes", p) |-> Total(m, p)]
               bytes == Q(Sum(all, In("bytes", p)), 1)
               used == {n \in In("intensity", p) : n.of \in Chosen}
    <3>1. all' = all
      BY <1>2, <1>4
    <3>2. bytes' = bytes
      BY <1>4, <3>1
    <3>3. used' = used
      BY <1>4, <2>3
    <3>4. ("N" \in world.sci)' = ("N" \in world.sci) /\ In("bytes", p)' = In("bytes", p)
      BY <1>4
    <3> DEFINE rows ==
            IF In("bytes", p) = {} \/ "N" \notin world.sci THEN {}
            ELSE {TotalRow(p, "network_energy", "formula", bytes),
                  TotalRow(p, "network_power", "formula",
                           Times(bytes, Q(Scale, Duration(p))))}
                 \cup {TotalRow(p, "network_carbon", "formula",
                                Times(bytes, Times(Average(m, p), Q(1, CarbonScale)))) :
                         m \in used}
    <3>5. NetworkRows(p) = rows /\ NetworkRows(p)' = rows'
      BY DEF NetworkRows
    <3> HIDE DEF bytes, used
    <3> QED BY <1>2, <1>3, <3>2, <3>3, <3>4, <3>5 DEF TotalRow, Row
  <2>5. EmbodiedRows(p)' = EmbodiedRows(p)
    BY <1>5 DEF EmbodiedRows, TotalRow, Row
  <2>6. Shares(p)' = Shares(p)
    BY <1>2, <1>4 DEF Shares
  <2>7. \A m : Ratio(p, m)' = Ratio(p, m)
    BY <1>2, <2>6 DEF Ratio
  <2>8. Sliced(p, b)' = Sliced(p, b)
    BY <1>2, <1>4, <1>5 DEF Sliced
  <2>9. SliceRows(p, b)' = SliceRows(p, b)
    BY <1>2, <1>3, <1>4, <1>5, <2>7, <2>8 DEF SliceRows, TotalRow, MeanRow, Row
  <2>10. SciRows(p)' = SciRows(p)
    BY <1>2, <1>4, <1>5, <2>3 DEF SciRows, TotalRow, Row
  <2> QED BY <2>1, <2>2, <2>4, <2>5, <2>9, <2>10 DEF PhaseRows
<1> QED BY <1>6

-----------------------------------------------------------------------------
(* The phases are numbered; [RUNTIME] is none of its flows.                *)
LEMMA NumbersOfPhases ==
  ASSUME PhasesTyped, world \in Worlds
  PROVE  /\ DOMAIN phases = 1 .. Len(phases) /\ Len(phases) \in Nat /\ Runtime \in Nat
         /\ ~ Flow(Runtime) /\ \A p : Flow(p) => p \in Nat /\ p > Runtime
<1>1. Runtime \in Nat /\ Len(world.hidden) \in Nat
  BY PlanIsSeq
<1>2. \A p : Flow(p) => p \in Nat /\ p > Runtime
  BY <1>1 DEF Flow
<1> QED BY <1>1, <1>2 DEF PhasesTyped

(* Nothing is built while the providers run.                               *)
LEMMA RowsBefore ==
  ASSUME PhasesTyped, BuiltOK, RowsOK, PhasesTyped', pc \in Early \cup {"co2"},
         pc' \in Early \cup {"co2", "build", "done"}, UNCHANGED <<built, stats>>
  PROVE  RowsOK'
<1>1. csv = {} /\ warnings = {} /\ stats = {} /\ idx = 1 /\ baseline \in Fraction
      /\ UNCHANGED <<idx, baseline, csv, warnings, stats>>
  BY DEF RowsOK, BuiltOK, Early, built
<1>2. IsFiniteSet({})
  BY FS_EmptySet
<1>3. idx' \in 1 .. Len(phases') + 1 /\ \A p \in DOMAIN phases' : ~ p < 1
  BY <1>1 DEF PhasesTyped
<1>4. RowsOf(stats, Runtime)' = {} /\ SubPhases' = {}
  BY <1>1 DEF RowsOf, SubPhases
<1>5. {RuntimeRow(r) : r \in SubPhases}' = {}
  BY <1>4
<1> QED BY <1>1, <1>2, <1>3, <1>4, <1>5 DEF RowsOK

(* The rows of a phase are added to those of the phases before it.         *)
LEMMA RowsInBuild ==
  ASSUME PhasesTyped, PhasesInOrder, SeriesOK, SamplesOK, BuiltOK, RowsOK, BuildPhase
  PROVE  RowsOK'
<1>0. PICK i, b : i = idx /\ b = baseline
  OBVIOUS
<1>1. /\ pc = "build" /\ pc' = pc /\ idx' = i + 1 /\ i \in 1 .. Len(phases) /\ i # Runtime
      /\ stats = {} /\ stats' = {} /\ csv' = csv \cup PhaseRows(i, b) /\ b \in Fraction
      /\ warnings' = warnings \cup PhaseWarnings(i) /\ listed \subseteq DOMAIN series
      /\ UNCHANGED <<phases, listed, series, world>>
      /\ baseline' = IF phases[i].name = "[BASELINE]" /\ In("energy", i) # {} THEN Power(i) ELSE b
  BY <1>0 DEF BuildPhase, BuiltOK, RowsOK, measured, imported
<1>2. DOMAIN phases = 1 .. Len(phases) /\ Len(phases) \in Nat /\ i \in DOMAIN phases
  BY <1>1 DEF PhasesTyped
<1>3. Evaluable /\ pc \notin Early \cup {"co2"}
  BY <1>1 DEF Evaluable, Measuring, Early
<1>4. baseline' \in Fraction
  BY <1>1, <1>2, <1>3, PowerTypes
<1>5. IsFiniteSet(csv') /\ IsFiniteSet(stats')
  <2>1. IsFiniteSet(PhaseRows(i, b))
    BY PhaseRowsAreFinite
  <2> QED BY <1>1, <2>1, FS_Union, FS_EmptySet DEF RowsOK
<1>6. \A r \in PhaseRows(i, b) : r.phase = i
  BY RowsByKind
<1>7. \A p, c : PhaseRows(p, c)' = PhaseRows(p, c)
  BY <1>1, PhaseRowsStay
<1>8. Runtime' = Runtime
  BY <1>1, PlanStays
<1>9. ASSUME NEW r \in csv' PROVE r.phase \in DOMAIN phases \ {Runtime} /\ r.phase < i + 1
  <2>1. CASE r \in csv
    <3>1. r.phase \in DOMAIN phases \ {Runtime} /\ r.phase < i
      BY <1>0, <2>1 DEF RowsOK
    <3> QED BY <1>1, <1>2, <3>1
  <2>2. CASE r \in PhaseRows(i, b)
    BY <1>1, <1>2, <1>6, <2>2
  <2> QED BY <1>1, <2>1, <2>2
<1>10. ASSUME NEW p \in DOMAIN phases \ {Runtime}, p < i + 1 PROVE MadeOf(csv, p)'
  <2>1. CASE p = i
    <3>1. \A r \in csv : r.phase < i
      BY <1>0 DEF RowsOK
    <3>2. \A r \in csv : r.phase # i
      BY <1>2, <3>1
    <3>3. {r \in csv' : r.phase = i} = PhaseRows(i, b)
      BY <1>1, <1>6, <3>2
    <3>4. RowsOf(csv, p)' = PhaseRows(p, b)'
      BY <1>7, <2>1, <3>3 DEF RowsOf
    <3> QED BY <1>1, <3>4 DEF MadeOf
  <2>2. CASE p # i
    <3>1. p < i
      BY <1>1, <1>2, <1>10, <2>2
    <3>2. PICK c \in Fraction : RowsOf(csv, p) = PhaseRows(p, c)
      BY <1>0, <1>1, <3>1 DEF RowsOK, MadeOf
    <3>3. {r \in csv' : r.phase = p} = {r \in csv : r.phase = p}
      BY <1>1, <1>6, <2>2
    <3>4. RowsOf(csv, p)' = PhaseRows(p, c)'
      BY <1>7, <3>2, <3>3 DEF RowsOf
    <3> QED BY <3>4 DEF MadeOf
  <2> QED BY <2>1, <2>2
<1>11. ASSUME NEW w \in warnings' PROVE w.phase \in DOMAIN phases /\ w.metric \in listed
  <2>1. CASE w \in warnings
    BY <2>1 DEF RowsOK
  <2>2. CASE w \in PhaseWarnings(i)
    BY <1>2, <2>2 DEF PhaseWarnings
  <2> QED BY <1>1, <2>1, <2>2
<1>12. RowsOf(stats, Runtime)' = {}
  BY <1>1 DEF RowsOf
<1>13. idx' \in 1 .. Len(phases) + 1
  BY <1>1, <1>2
<1> QED BY <1>1, <1>3, <1>4, <1>5, <1>8, <1>9, <1>10, <1>11, <1>12, <1>13 DEF RowsOK

(* [RUNTIME] has no rows of its own.                                       *)
LEMMA RowsInSkip ==
  ASSUME PhasesTyped, SeriesOK, BuiltOK, RowsOK, SkipRuntime
  PROVE  RowsOK'
<1>1. /\ pc = "build" /\ pc' = pc /\ idx = Runtime /\ idx' = idx + 1 /\ idx <= Len(phases)
      /\ UNCHANGED <<phases, listed, series, world, csv, stats, warnings, baseline>>
      /\ stats = {} /\ idx \in 1 .. Len(phases) + 1
  BY DEF SkipRuntime, RowsOK, BuiltOK, measured, imported
<1>2. DOMAIN phases = 1 .. Len(phases) /\ Len(phases) \in Nat
  BY DEF PhasesTyped
<1>3. \A p, c : PhaseRows(p, c)' = PhaseRows(p, c)
  BY <1>1, PhaseRowsStay
<1>4. Runtime' = Runtime
  BY <1>1, PlanStays
<1>5. ASSUME NEW p \in DOMAIN phases \ {Runtime}, p < idx + 1 PROVE MadeOf(csv, p)'
  <2>1. p < idx
    BY <1>1, <1>2, <1>5
  <2>2. PICK c \in Fraction : RowsOf(csv, p) = PhaseRows(p, c)
    BY <1>1, <2>1 DEF RowsOK, MadeOf
  <2>3. RowsOf(csv, p)' = PhaseRows(p, c)'
    BY <1>1, <1>3, <2>2 DEF RowsOf
  <2> QED BY <2>3 DEF MadeOf
<1>6. \A r \in csv : r.phase \in DOMAIN phases /\ r.phase < idx => r.phase < idx + 1
  BY <1>1, <1>2
<1>7. RowsOf(stats, Runtime)' = {}
  BY <1>1 DEF RowsOf
<1>8. idx' \in 1 .. Len(phases) + 1
  BY <1>1, <1>2
<1> QED BY <1>1, <1>4, <1>5, <1>6, <1>7, <1>8 DEF RowsOK, Early, Measuring

(* All rows are stored together.                                           *)
LEMMA RowsInStore ==
  ASSUME PhasesTyped, SeriesOK, BuiltOK, RowsOK, Store
  PROVE  RowsOK'
<1>1. /\ pc = "build" /\ pc' = (IF Runtime <= Len(phases) THEN "insert" ELSE "done")
      /\ stats = {} /\ stats' = csv /\ idx > Len(phases) /\ idx \in 1 .. Len(phases) + 1
      /\ UNCHANGED <<phases, listed, series, world, csv, warnings, baseline, idx>>
  BY DEF Store, RowsOK, BuiltOK, measured, imported, built
<1>2. /\ DOMAIN phases = 1 .. Len(phases) /\ Len(phases) \in Nat /\ Runtime \in Nat
      /\ ~ Flow(Runtime) /\ \A p : Flow(p) => p \in Nat /\ p > Runtime
  BY NumbersOfPhases DEF SeriesOK
<1>3. \A p, c : PhaseRows(p, c)' = PhaseRows(p, c)
  BY <1>1, PhaseRowsStay
<1>4. /\ Runtime' = Runtime
      /\ \A p : Flow(p)' <=> Flow(p)
  BY <1>1, PlanStays
<1>5. \A r \in csv : r.phase \in DOMAIN phases \ {Runtime}
  BY DEF RowsOK
<1>6. ASSUME NEW p \in DOMAIN phases \ {Runtime} PROVE MadeOf(stats, p)'
  <2>1. p < idx
    BY <1>1, <1>2
  <2>2. PICK c \in Fraction : RowsOf(csv, p) = PhaseRows(p, c)
    BY <1>1, <2>1 DEF RowsOK, MadeOf
  <2>3. RowsOf(stats, p)' = PhaseRows(p, c)'
    BY <1>1, <1>3, <2>2 DEF RowsOf
  <2> QED BY <2>3 DEF MadeOf
<1>7. RowsOf(stats, Runtime)' = {}
  BY <1>1, <1>4, <1>5 DEF RowsOf
<1>8. pc' = "done" => {RuntimeRow(r) : r \in SubPhases}' = {}
  <2> SUFFICES ASSUME pc' = "done" PROVE SubPhases' = {}
    OBVIOUS
  <2>1. ~ Runtime <= Len(phases)
    BY <1>1
  <2>2. \A r \in csv : ~ Flow(r.phase)
    BY <1>2, <1>5, <2>1
  <2> QED BY <1>1, <1>4, <2>2 DEF SubPhases
<1>9. listed' \subseteq DOMAIN series' \/ csv' = {}
  BY <1>1 DEF RowsOK
<1>10. pc' \notin Early \cup {"co2", "build", "update"}
  BY <1>1 DEF Early, Measuring
<1> QED BY <1>1, <1>4, <1>5, <1>6, <1>7, <1>8, <1>9, <1>10 DEF RowsOK

-----------------------------------------------------------------------------
(* The first statement adds rows of [RUNTIME] only.                        *)
LEMMA RowsInInsert ==
  ASSUME PhasesTyped, SeriesOK, BuiltOK, RowsOK, InsertRuntime,
         Runtime \in DOMAIN phases \/ SubPhases = {}
  PROVE  RowsOK'
<1> DEFINE new(r) == [phase |-> Runtime, kind |-> r.kind, of |-> r.of, type |-> r.type,
                      value |-> SumOfValues({s \in SubPhases : SameMetric(r, s)}),
                      hidden |-> FALSE]
           added == {new(r) : r \in SubPhases}
<1>1. /\ pc = "insert" /\ pc' = "update" /\ stats' = stats \cup added
      /\ UNCHANGED <<phases, listed, series, world, csv, warnings, baseline, idx>>
  BY DEF InsertRuntime, measured, imported, built
<1>2. /\ DOMAIN phases = 1 .. Len(phases) /\ Len(phases) \in Nat /\ Runtime \in Nat
      /\ ~ Flow(Runtime)
  BY NumbersOfPhases DEF SeriesOK
<1>3. \A p, c : PhaseRows(p, c)' = PhaseRows(p, c)
  BY <1>1, PhaseRowsStay
<1>4. /\ Runtime' = Runtime
      /\ \A p : Flow(p)' <=> Flow(p)
  BY <1>1, PlanStays
<1>5. ASSUME NEW r \in added PROVE r.phase = Runtime
  <2>1. PICK s \in SubPhases : r = new(s)
    BY <1>5
  <2>2. new(s).phase = Runtime
    OBVIOUS
  <2> HIDE DEF new
  <2> QED BY <2>1, <2>2
<1>6. IsFiniteSet(added)
  <2> DEFINE f == [r \in SubPhases |-> new(r)]
  <2>1. added = {f[r] : r \in SubPhases}
    OBVIOUS
  <2>2. IsFiniteSet(SubPhases)
    <3>1. SubPhases \subseteq stats
      BY DEF SubPhases
    <3> QED BY <3>1, FS_Subset DEF RowsOK
  <2> HIDE DEF f, added
  <2> QED BY <2>1, <2>2, ImageIsFinite
<1> HIDE DEF added
<1>7. SubPhases' = SubPhases
  BY <1>1, <1>2, <1>4, <1>5 DEF SubPhases
<1>8. ASSUME NEW p \in DOMAIN phases \ {Runtime}, stats' # {} PROVE MadeOf(stats, p)'
  <2>1. stats # {}
    BY <1>1, <1>8 DEF added, SubPhases
  <2>2. PICK c \in Fraction : RowsOf(stats, p) = PhaseRows(p, c)
    BY <2>1 DEF RowsOK, MadeOf
  <2>3. {r \in stats' : r.phase = p} = {r \in stats : r.phase = p}
    BY <1>1, <1>5
  <2>4. RowsOf(stats, p)' = PhaseRows(p, c)'
    BY <1>3, <2>2, <2>3 DEF RowsOf
  <2> QED BY <2>4 DEF MadeOf
<1>9. RowsOf(stats, Runtime)' = added
  <2>1. \A r \in stats : r.phase # Runtime
    BY <1>1 DEF RowsOK, RowsOf
  <2> QED BY <1>1, <1>4, <1>5, <2>1 DEF RowsOf
<1>10. {RuntimeRow(r) : r \in SubPhases}' = added
  BY <1>1, <1>4, <1>7 DEF RuntimeRow, added, SameMetric
<1>11. \A r \in stats' : r.phase \in DOMAIN phases
  <2>1. added # {} => Runtime \in DOMAIN phases
    BY DEF added
  <2> QED BY <1>1, <1>5, <2>1 DEF RowsOK
<1>12. csv' # {} \/ stats' # {} => listed \subseteq DOMAIN series
  BY <1>1 DEF RowsOK, added, SubPhases
<1>13. IsFiniteSet(stats')
  BY <1>1, <1>6, FS_Union DEF RowsOK
<1>14. pc' \notin Early \cup {"co2", "build"}
  BY <1>1 DEF Early, Measuring
<1>15. ASSUME NEW p \in DOMAIN phases \ {Runtime}, p < idx PROVE MadeOf(csv, p)'
  <2>1. PICK c \in Fraction : RowsOf(csv, p) = PhaseRows(p, c)
    BY <1>15 DEF RowsOK, MadeOf
  <2>2. RowsOf(csv, p)' = PhaseRows(p, c)'
    BY <1>1, <1>3, <2>1 DEF RowsOf
  <2> QED BY <2>2 DEF MadeOf
<1> QED BY <1>1, <1>4, <1>8, <1>9, <1>10, <1>11, <1>12, <1>13, <1>14, <1>15 DEF RowsOK

(* The second one gives new values to some of them.                        *)
LEMMA RowsInUpdate ==
  ASSUME PhasesTyped, SeriesOK, BuiltOK, RowsOK, UpdateRuntime
  PROVE  RowsOK'
<1> DEFINE new(r) == IF r.phase = Runtime /\ r.type = "MEAN"
                     THEN [r EXCEPT !.value = WeightedMean(r)] ELSE r
<1>1. /\ pc = "update" /\ pc' = "done" /\ stats' = {new(r) : r \in stats}
      /\ UNCHANGED <<phases, listed, series, world, csv, warnings, baseline, idx>>
  BY DEF UpdateRuntime, measured, imported, built
<1>2. /\ DOMAIN phases = 1 .. Len(phases) /\ Len(phases) \in Nat /\ Runtime \in Nat
      /\ ~ Flow(Runtime)
  BY NumbersOfPhases DEF SeriesOK
<1>3. \A p, c : PhaseRows(p, c)' = PhaseRows(p, c)
  BY <1>1, PhaseRowsStay
<1>4. /\ Runtime' = Runtime
      /\ \A p : Flow(p)' <=> Flow(p)
  BY <1>1, PlanStays
<1>5. RowsOf(stats, Runtime) = {RuntimeRow(r) : r \in SubPhases}
  BY <1>1 DEF RowsOK
<1>6. \A r \in stats : r.phase # Runtime => new(r) = r
  OBVIOUS
<1>7. ASSUME NEW r \in stats, r.phase = Runtime
      PROVE  /\ new(r).phase = Runtime /\ new(r).kind = r.kind
             /\ r.type # "MEAN" => new(r) = r
  <2>1. PICK s \in SubPhases : r = RuntimeRow(s)
    BY <1>5, <1>7 DEF RowsOf
  <2> QED BY <2>1 DEF RuntimeRow
<1> HIDE DEF new
<1>8. {r \in stats' : r.phase # Runtime} = {r \in stats : r.phase # Runtime}
  BY <1>1, <1>6, <1>7
<1>9. SubPhases' = SubPhases
  <2>1. \A r \in stats' : r.phase # Runtime => r \in stats
    BY <1>8
  <2>2. \A r \in stats : r.phase # Runtime => r \in stats'
    BY <1>8
  <2> QED BY <1>2, <1>4, <2>1, <2>2 DEF SubPhases
<1>10. \A p : {r \in stats' : r.phase = p /\ r.kind = "time"}
                = {r \in stats : r.phase = p /\ r.kind = "time"}
  <2>1. ASSUME NEW r \in stats, r.phase = Runtime, r.kind = "time" PROVE new(r) = r
    <3>1. PICK s \in SubPhases : r = RuntimeRow(s)
      BY <1>5, <2>1 DEF RowsOf
    <3>2. s.kind = "time" /\ r.type = s.type /\ s \in stats /\ s.phase # Runtime
      BY <1>2, <2>1, <3>1 DEF RuntimeRow, SubPhases
    <3>3. PICK c \in Fraction : RowsOf(stats, s.phase) = PhaseRows(s.phase, c)
      BY <3>2 DEF RowsOK, MadeOf
    <3>4. s \in PhaseRows(s.phase, c)
      BY <3>2, <3>3 DEF RowsOf
    <3>5. s = TimeRow(s.phase)
      BY <3>2, <3>4, RowsByKind
    <3>6. s.type = "TOTAL"
      BY <3>5, RowHas DEF TimeRow
    <3> QED BY <1>7, <2>1, <3>2, <3>6
  <2>2. \A p : p # Runtime => {r \in stats' : r.phase = p /\ r.kind = "time"}
                                = {r \in stats : r.phase = p /\ r.kind = "time"}
    BY <1>8
  <2>3. {r \in stats' : r.phase = Runtime /\ r.kind = "time"}
          = {r \in stats : r.phase = Runtime /\ r.kind = "time"}
    BY <1>1, <1>6, <1>7, <2>1
  <2> QED BY <2>2, <2>3
<1>11. \A p : TimeOf(p)' = TimeOf(p)
  BY <1>10 DEF TimeOf
<1>12. \A r : WeightedMean(r)' = WeightedMean(r)
  <2> SUFFICES ASSUME NEW r PROVE WeightedMean(r)' = WeightedMean(r)
    OBVIOUS
  <2> DEFINE rows == {s \in SubPhases : SameMetric(r, s)}
  <2>1. rows' = rows
    BY <1>9 DEF SameMetric
  <2>2. [s \in rows |-> s.value * TimeOf(s.phase)]' = [s \in rows |-> s.value * TimeOf(s.phase)]
    BY <1>11, <2>1
  <2>3. TimeOf(Runtime)' = TimeOf(Runtime)
    BY <1>10, <1>4 DEF TimeOf
  <2> QED BY <2>1, <2>2, <2>3 DEF WeightedMean
<1>13. RowsOf(stats, Runtime)' = {RuntimeRow(r) : r \in SubPhases}'
  <2>1. RowsOf(stats, Runtime)' = {new(r) : r \in RowsOf(stats, Runtime)}
    BY <1>1, <1>4, <1>6, <1>7 DEF RowsOf
  <2>2. ASSUME NEW s \in SubPhases PROVE new(RuntimeRow(s)) = RuntimeRow(s)'
    <3>1. \A x : SameMetric(RuntimeRow(s), x) <=> SameMetric(s, x)
      BY DEF SameMetric, RuntimeRow
    <3>2. WeightedMean(RuntimeRow(s)) = WeightedMean(s)
      BY <3>1 DEF WeightedMean
    <3>3. WeightedMean(s)' = WeightedMean(s)
      BY <1>12
    <3>4. SumOfValues({x \in SubPhases : SameMetric(s, x)})'
            = SumOfValues({x \in SubPhases : SameMetric(s, x)})
      BY <1>9 DEF SameMetric
    <3> QED BY <1>1, <1>4, <3>2, <3>3, <3>4 DEF RuntimeRow, new
  <2>3. {RuntimeRow(r) : r \in SubPhases}' = {new(RuntimeRow(s)) : s \in SubPhases}
    BY <1>9, <2>2
  <2> QED BY <1>5, <2>1, <2>3
<1>14. ASSUME NEW p \in DOMAIN phases \ {Runtime}, stats' # {} PROVE MadeOf(stats, p)'
  <2>1. stats # {}
    BY <1>1, <1>14
  <2>2. PICK c \in Fraction : RowsOf(stats, p) = PhaseRows(p, c)
    BY <2>1 DEF RowsOK, MadeOf
  <2>3. {r \in stats' : r.phase = p} = {r \in stats : r.phase = p}
    BY <1>8
  <2>4. RowsOf(stats, p)' = PhaseRows(p, c)'
    BY <1>3, <2>2, <2>3 DEF RowsOf
  <2> QED BY <2>4 DEF MadeOf
<1>15. IsFiniteSet(stats')
  <2> DEFINE f == [r \in stats |-> new(r)]
  <2>1. stats' = {f[r] : r \in stats}
    BY <1>1
  <2> HIDE DEF f
  <2> QED BY <2>1, ImageIsFinite DEF RowsOK
<1>16. \A r \in stats' : r.phase \in DOMAIN phases
  BY <1>1, <1>6, <1>7 DEF RowsOK
<1>17. stats' # {} => stats # {}
  BY <1>1
<1>18. pc' \notin Early \cup {"co2", "build"}
  BY <1>1 DEF Early, Measuring
<1>19. ASSUME NEW p \in DOMAIN phases \ {Runtime}, p < idx PROVE MadeOf(csv, p)'
  <2>1. PICK c \in Fraction : RowsOf(csv, p) = PhaseRows(p, c)
    BY <1>19 DEF RowsOK, MadeOf
  <2>2. RowsOf(csv, p)' = PhaseRows(p, c)'
    BY <1>1, <1>3, <2>1 DEF RowsOf
  <2> QED BY <2>2 DEF MadeOf
<1> QED BY <1>1, <1>4, <1>13, <1>14, <1>15, <1>16, <1>17, <1>18, <1>19 DEF RowsOK

(* All steps keep rows what they are.                                      *)
LEMMA RowsStay ==
  ASSUME IInv, IInv', SamplesOK, RowsOK, [Next]_vars
  PROVE  RowsOK'
<1>0. PhasesTyped /\ PhasesInOrder /\ SeriesOK /\ BuiltOK /\ PhasesTyped'
  BY DEF IInv
<1>1. CASE \/ Tick \/ StartPhase \/ EndLast \/ EndRuntime \/ Complete \/ Fail
           \/ PatchPhases \/ StopProviders \/ CalculateCo2
  <2>1. /\ pc \in Early \cup {"co2"} /\ pc' \in Early \cup {"co2", "build", "done"}
        /\ UNCHANGED <<built, stats>>
    BY <1>1 DEF Tick, StartPhase, EndLast, EndRuntime, EndPhase, Complete, Fail, Leave,
       PatchPhases, StopProviders, CalculateCo2, Measuring, Early
  <2> QED BY <1>0, <2>1, RowsBefore
<1>2. CASE InsertRuntime
  <2>1. Runtime \in DOMAIN phases \/ SubPhases = {}
    <3> SUFFICES ASSUME NEW r \in SubPhases PROVE Runtime \in DOMAIN phases
      OBVIOUS
    <3>1. r.phase \in DOMAIN phases /\ Flow(r.phase)
      BY DEF RowsOK, SubPhases
    <3>2. /\ DOMAIN phases = 1 .. Len(phases) /\ Len(phases) \in Nat /\ Runtime \in Nat
          /\ r.phase \in Nat /\ r.phase > Runtime
      BY <1>0, <3>1, NumbersOfPhases DEF SeriesOK
    <3>3. Runtime > 1
      BY <1>0, PlanIsSeq DEF SeriesOK
    <3> QED BY <3>1, <3>2, <3>3
  <2> QED BY <1>0, <1>2, <2>1, RowsInInsert
<1>3. ASSUME UNCHANGED <<phases, listed, series, world, csv, stats, warnings, baseline, idx>>,
             pc' = pc \/ (pc = "build" /\ pc' = "crashed")
      PROVE  RowsOK'
  <2>1. \A p, c : PhaseRows(p, c)' = PhaseRows(p, c)
    BY <1>3, PhaseRowsStay
  <2>2. /\ Runtime' = Runtime
        /\ \A p : Flow(p)' <=> Flow(p)
    BY <1>3, PlanStays
  <2>3. \A p : (MadeOf(csv, p)' <=> MadeOf(csv, p)) /\ (MadeOf(stats, p)' <=> MadeOf(stats, p))
    BY <1>3, <2>1 DEF MadeOf, RowsOf
  <2>4. SubPhases' = SubPhases
    BY <1>3, <2>2 DEF SubPhases
  <2>5. \A r : WeightedMean(r)' = WeightedMean(r)
    BY <1>3, <2>2, <2>4 DEF WeightedMean, TimeOf, SameMetric
  <2>6. pc' = pc => {RuntimeRow(r) : r \in SubPhases}' = {RuntimeRow(r) : r \in SubPhases}
    BY <2>2, <2>4, <2>5 DEF RuntimeRow, SameMetric
  <2>7. RowsOf(stats, Runtime)' = RowsOf(stats, Runtime)
    BY <1>3, <2>2 DEF RowsOf
  <2>8. CASE pc' = pc
    BY <1>3, <2>2, <2>3, <2>6, <2>7, <2>8 DEF RowsOK
  <2>9. CASE pc = "build" /\ pc' = "crashed"
    BY <1>3, <2>2, <2>3, <2>7, <2>9 DEF RowsOK, Early, Measuring
  <2> QED BY <1>3, <2>8, <2>9
<1>4. CASE BuildCrashes
  BY <1>3, <1>4 DEF BuildCrashes, measured, imported, built
<1>5. CASE UNCHANGED vars
  BY <1>3, <1>5 DEF vars, measured, imported, built
<1> QED BY <1>0, <1>1, <1>2, <1>4, <1>5, RowsInBuild, RowsInSkip, RowsInStore, RowsInUpdate DEF Next

-----------------------------------------------------------------------------
(* The visible flows of a run.                                             *)
Visible == {p \in DOMAIN phases : Flow(p) /\ ~Hidden(p)}

(* All that the values of rows rest on.                                    *)
Strong == IInv /\ PlanOK /\ BordersOK /\ SamplesOK /\ RowsOK

(* It is an invariant.                                                     *)
THEOREM StrongHolds == Spec => []Strong
<1>1. Init => Strong
  <2> SUFFICES ASSUME Init PROVE Strong
    OBVIOUS
  <2>1. /\ world \in Worlds /\ now = 0 /\ meter = 0 /\ rest = 0 /\ phases = <<>>
        /\ pc = "measuring" /\ listed = {} /\ series = [m \in {Energy} |-> <<>>]
        /\ idx = 1 /\ baseline = Zero /\ csv = {} /\ stats = {} /\ warnings = {}
    BY DEF Init
  <2>2. DOMAIN phases = {} /\ Len(phases) = 0
    BY <2>1
  <2>3. PlanOK
    <3>1. rest \in 0 .. MaxTime + Padding
      BY <2>1, TimeAssumption
    <3>2. Len(Plan) = Runtime + Len(world.hidden) + 1 /\ Runtime \in Nat /\ Len(world.hidden) \in Nat
      BY <2>1, PlanIsSeq
    <3>3. Len(phases) <= Len(Plan)
      BY <2>2, <3>2
    <3> QED BY <2>2, <3>1, <3>3 DEF PlanOK
  <2>4. BordersOK
    BY <2>2 DEF BordersOK
  <2>5. SamplesOK
    <3>1. DOMAIN series = {Energy} /\ DOMAIN series[Energy] = {}
      BY <2>1
    <3>2. LastSample = 0
      BY <3>1 DEF LastSample
    <3>3. Used(0, 0) = 0
      BY <2>1, UsedInTick
    <3>4. Gapless(series[Energy]) /\ Energy.kind # "carbon"
      BY <3>1 DEF Gapless, Energy, Metric
    <3>5. MaxGap \in Nat \ {0}
      BY MaxGapIsMax
    <3>6. \A t \in DOMAIN series[Energy] : series[Energy][t] \in Nat
      BY <3>1
    <3>7. now - LastSample < MaxGap
      BY <2>1, <3>2, <3>5
    <3> QED BY <2>1, <3>1, <3>2, <3>3, <3>4, <3>6, <3>7 DEF SamplesOK, Early, Measuring
  <2>6. RowsOK
    <3>1. IsFiniteSet({})
      BY FS_EmptySet
    <3>2. Zero \in Fraction
      BY DEF Zero, Q, Fraction
    <3>3. RowsOf(stats, Runtime) = {}
      BY <2>1 DEF RowsOf
    <3> QED BY <2>1, <2>2, <3>1, <3>2, <3>3 DEF RowsOK
  <2> QED BY <2>3, <2>4, <2>5, <2>6, InitHolds DEF Strong
<1>2. Strong /\ [Next]_vars => Strong'
  <2> SUFFICES ASSUME Strong, [Next]_vars PROVE Strong'
    OBVIOUS
  <2>1. PhasesTyped /\ PhasesInOrder /\ SeriesOK /\ BuiltOK /\ SamplesOK /\ RowsOK
        /\ PlanOK /\ BordersOK /\ IInv
    BY DEF Strong, IInv
  <2>2. IInv'
    BY <2>1, PhasesStay, SeriesStay, BuiltStays DEF IInv
  <2>3. PlanOK' /\ BordersOK'
    BY <2>1, BordersStay
  <2>4. SamplesOK'
    BY <2>1, SamplesStay
  <2>5. RowsOK'
    BY <2>1, <2>2, RowsStay
  <2> QED BY <2>2, <2>3, <2>4, <2>5 DEF Strong
<1> QED BY <1>1, <1>2, PTL DEF Spec

(* Statistics are there only when they could be evaluated.                 *)
LEMMA StoredIsEvaluable ==
  ASSUME Strong, csv # {} \/ stats # {}
  PROVE  Evaluable /\ pc \notin Early \cup {"co2"}
<1>1. listed \subseteq DOMAIN series
  BY DEF Strong, RowsOK
<1>2. pc \notin Early \cup {"co2"}
  BY DEF Strong, RowsOK, IInv, BuiltOK, Early
<1> QED BY <1>1, <1>2 DEF Evaluable, Strong, IInv, Early

(* What a stored row of a phase is made of.                                *)
LEMMA StoredIsMade ==
  ASSUME Strong, NEW r \in stats, r.phase # Runtime
  PROVE  /\ r.phase \in DOMAIN phases \ {Runtime} /\ Evaluable
         /\ \E b \in Fraction : r \in PhaseRows(r.phase, b) /\ RowsOf(stats, r.phase) = PhaseRows(r.phase, b)
<1>1. r.phase \in DOMAIN phases \ {Runtime} /\ stats # {}
  BY DEF Strong, RowsOK
<1>2. PICK b \in Fraction : RowsOf(stats, r.phase) = PhaseRows(r.phase, b)
  BY <1>1 DEF Strong, RowsOK, MadeOf
<1>3. r \in PhaseRows(r.phase, b)
  BY <1>2 DEF RowsOf
<1> QED BY <1>1, <1>2, <1>3, StoredIsEvaluable

(* The time of a phase is its duration.                                    *)
LEMMA TimeOfPhase ==
  ASSUME Strong, stats # {}, NEW p \in DOMAIN phases \ {Runtime}
  PROVE  TimeOf(p) = Duration(p) /\ Duration(p) \in Nat \ {0} /\ TimeRow(p) \in stats
         /\ TimeRow(p).value = Duration(p) /\ TimeRow(p).phase = p
         /\ {r \in stats : r.phase = p /\ r.kind = "time"} = {TimeRow(p)}
<1>1. Evaluable
  BY StoredIsEvaluable
<1>2. Duration(p) \in Nat \ {0}
  BY <1>1, PhaseTakesTime DEF Evaluable
<1>3. PICK b \in Fraction : RowsOf(stats, p) = PhaseRows(p, b)
  BY DEF Strong, RowsOK, MadeOf
<1>4. TimeRow(p) \in PhaseRows(p, b) /\ TimeRow(p).kind = "time" /\ TimeRow(p).phase = p
      /\ TimeRow(p).value = Round(Q(Duration(p), 1))
  BY RowHas DEF PhaseRows, TimeRow
<1>5. TimeRow(p).value = Duration(p)
  BY <1>2, <1>4, RoundingIsMonotone
<1>6. TimeRow(p) \in stats
  BY <1>3, <1>4 DEF RowsOf
<1>7. {r \in stats : r.phase = p /\ r.kind = "time"} = {TimeRow(p)}
  <2>1. ASSUME NEW r \in stats, r.phase = p, r.kind = "time" PROVE r = TimeRow(p)
    <3>1. r \in PhaseRows(p, b)
      BY <1>3, <2>1 DEF RowsOf
    <3> QED BY <2>1, <3>1, RowsByKind
  <2> QED BY <1>4, <1>6, <2>1
<1>8. TimeOf(p) = Duration(p)
  <2> DEFINE f == [r \in {TimeRow(p)} |-> r.value]
  <2>1. TimeOf(p) = Sum(f, {TimeRow(p)})
    BY <1>7 DEF TimeOf, SumOfValues
  <2>2. f[TimeRow(p)] = Duration(p) /\ f[TimeRow(p)] \in Nat
    BY <1>2, <1>5
  <2> HIDE DEF f
  <2> QED BY <2>1, <2>2, SumOfOne
<1> QED BY <1>2, <1>4, <1>5, <1>6, <1>7, <1>8

(* A row of a visible flow.                                                *)
LEMMA FlowRows ==
  ASSUME Strong, NEW r
  PROVE  /\ r \in SubPhases => r \in stats /\ r.phase \in Visible /\ r.phase # Runtime
         /\ r \in stats /\ r.phase \in Visible => r \in SubPhases
<1>0. ~ Flow(Runtime)
  BY NumbersOfPhases DEF Strong, IInv, SeriesOK
<1>1. ASSUME r \in stats, r.phase # Runtime PROVE r.phase \in DOMAIN phases /\ r.hidden = Hidden(r.phase)
  <2>1. PICK b \in Fraction : r \in PhaseRows(r.phase, b)
    BY <1>1, StoredIsMade
  <2>2. r.hidden = phases[r.phase].hidden /\ r.phase \in DOMAIN phases
    BY <1>1, <2>1, RowsByKind, StoredIsMade
  <2> QED BY <2>2 DEF Strong, PlanOK
<1> QED BY <1>0, <1>1 DEF SubPhases, Visible

(* [RUNTIME] lasts as long as the visible flows did together.              *)
LEMMA TimeOfRuntime ==
  ASSUME Strong, pc \in {"update", "done"}, SubPhases # {}
  PROVE  /\ TimeOf(Runtime) = Sum([p \in Visible |-> Duration(p)], Visible)
         /\ TimeOf(Runtime) \in Nat \ {0}
         /\ IsFiniteSet(Visible) /\ Visible # {}
         /\ \A p \in Visible : Duration(p) \in Nat \ {0} /\ TimeOf(p) = Duration(p)
         /\ \A r \in stats : r.phase = Runtime /\ r.kind = "time" => r.value = TimeOf(Runtime)
<1> DEFINE T == {s \in SubPhases : s.kind = "time"}
           g == [p \in Visible |-> Duration(p)]
           h == [p \in Visible |-> TimeRow(p)]
           f == [r \in T |-> r.value]
<1>1. stats # {} /\ Visible \subseteq DOMAIN phases \ {Runtime}
  <2>1. ~ Flow(Runtime)
    BY NumbersOfPhases DEF Strong, IInv, SeriesOK
  <2> QED BY <2>1 DEF SubPhases, Visible
<1>2. \A p \in Visible : /\ Duration(p) \in Nat \ {0} /\ TimeOf(p) = Duration(p)
                         /\ TimeRow(p) \in stats /\ TimeRow(p).value = Duration(p)
                         /\ TimeRow(p).phase = p /\ TimeRow(p).kind = "time"
                         /\ TimeRow(p).of = "machine" /\ TimeRow(p).type = "TOTAL"
  BY <1>1, TimeOfPhase, RowHas DEF TimeRow
<1>3. T = {h[p] : p \in Visible}
  <2>1. ASSUME NEW r \in T PROVE r.phase \in Visible /\ r = TimeRow(r.phase)
    <3>1. r \in stats /\ r.phase \in Visible /\ r.kind = "time"
      BY FlowRows
    <3> QED BY <1>1, <3>1, TimeOfPhase
  <2>2. ASSUME NEW p \in Visible PROVE TimeRow(p) \in T
    BY <1>2, FlowRows
  <2> HIDE DEF T
  <2> QED BY <2>1, <2>2
<1>4. IsFiniteSet(Visible)
  <2>1. DOMAIN phases = 1 .. Len(phases) /\ Len(phases) \in Nat
    BY DEF Strong, IInv, PhasesTyped
  <2>2. IsFiniteSet(1 .. Len(phases)) /\ Visible \subseteq 1 .. Len(phases)
    BY <2>1, FS_Interval DEF Visible
  <2> QED BY <2>2, FS_Subset
<1>5. Visible # {}
  BY FlowRows
<1>6. SumOfValues(T) = Sum(g, Visible)
  <2>1. \A x, y \in Visible : h[x] = h[y] => x = y
    <3>1. \A x \in Visible : h[x].phase = x
      BY <1>2
    <3> HIDE DEF h
    <3> QED BY <3>1
  <2>2. \A x \in Visible : g[x] \in Nat /\ f[h[x]] = g[x]
    <3>1. \A x \in Visible : h[x] \in T
      BY <1>3
    <3> QED BY <1>2, <3>1
  <2>3. SumOfValues(T) = Sum(f, T)
    BY DEF SumOfValues
  <2> HIDE DEF f, g, h, T
  <2> QED BY <1>3, <1>4, <2>1, <2>2, <2>3, SumOfImage
<1>7. Sum(g, Visible) \in Nat \ {0}
  <2>1. \A x \in Visible : g[x] \in Nat /\ g[x] # 0
    BY <1>2
  <2> HIDE DEF g
  <2>2. PICK x \in Visible : TRUE
    BY <1>5
  <2>3. g[x] <= Sum(g, Visible) /\ Sum(g, Visible) \in Nat
    BY <1>4, <2>1, <2>2, SumOfLess
  <2> QED BY <2>1, <2>2, <2>3
<1> DEFINE row == [phase |-> Runtime, kind |-> "time", of |-> "machine", type |-> "TOTAL",
                   value |-> SumOfValues(T), hidden |-> FALSE]
<1>8. {r \in stats : r.phase = Runtime /\ r.kind = "time"} = {row}
  <2>1. RowsOf(stats, Runtime) = {RuntimeRow(r) : r \in SubPhases}
    BY DEF Strong, RowsOK
  <2>2. ASSUME NEW s \in T PROVE RuntimeRow(s) = row
    <3>1. s.kind = "time" /\ s.of = "machine" /\ s.type = "TOTAL"
      BY <1>2, <1>3
    <3>2. {x \in SubPhases : SameMetric(s, x)} = T
      <4>1. \A x \in T : x.kind = "time" /\ x.of = "machine" /\ x.type = "TOTAL"
        BY <1>2, <1>3
      <4> QED BY <3>1, <4>1 DEF SameMetric
    <3> HIDE DEF T
    <3> QED BY <3>1, <3>2 DEF RuntimeRow
  <2>3. \A s \in SubPhases : RuntimeRow(s).kind = s.kind
    BY DEF RuntimeRow
  <2>4. \A r \in stats : r.phase = Runtime /\ r.kind = "time" => r = row
    <3> SUFFICES ASSUME NEW r \in stats, r.phase = Runtime, r.kind = "time" PROVE r = row
      OBVIOUS
    <3>1. PICK s \in SubPhases : r = RuntimeRow(s)
      BY <2>1 DEF RowsOf
    <3>2. s \in T
      BY <2>3, <3>1
    <3> QED BY <2>2, <3>1, <3>2
  <2>5. row \in stats /\ row.phase = Runtime /\ row.kind = "time"
    <3>1. PICK s \in T : TRUE
      BY <1>3, <1>5
    <3>2. row \in RowsOf(stats, Runtime)
      BY <2>1, <2>2, <3>1
    <3> QED BY <3>2 DEF RowsOf
  <2> HIDE DEF row
  <2> QED BY <2>4, <2>5
<1>9. TimeOf(Runtime) = SumOfValues(T)
  <2> DEFINE v == [r \in {row} |-> r.value]
  <2>1. TimeOf(Runtime) = Sum(v, {row})
    BY <1>8 DEF TimeOf, SumOfValues
  <2>2. v[row] = SumOfValues(T)
    OBVIOUS
  <2> HIDE DEF v, row, T
  <2> QED BY <1>6, <1>7, <2>1, <2>2, SumOfOne
<1>10. \A r \in stats : r.phase = Runtime /\ r.kind = "time" => r.value = SumOfValues(T)
  BY <1>8
<1> QED BY <1>2, <1>4, <1>5, <1>6, <1>7, <1>9, <1>10

-----------------------------------------------------------------------------
(* A row of a phase of the run is a row.                                   *)
LEMMA RowsAtAreRows ==
  ASSUME Strong, NEW p \in DOMAIN phases
  PROVE  RowsAt(p) \subseteq RowType /\ p \in 1 .. Len(Plan)
<1>1. phases[p].hidden = Hidden(p) /\ Len(phases) <= Len(Plan) /\ world \in Worlds
      /\ p \in 1 .. Len(phases) /\ Len(phases) \in Nat
  BY DEF Strong, PlanOK, IInv, PhasesTyped, SeriesOK
<1>2. Hidden(p) \in BOOLEAN /\ Len(Plan) \in Nat
  BY <1>1, PlanIsSeq
<1>3. p \in 1 .. Len(Plan)
  BY <1>1, <1>2
<1> QED BY <1>1, <1>2, <1>3 DEF RowsAt, RowType

(* What is stored of a phase is typed.                                     *)
LEMMA StoredRowTypes ==
  ASSUME Strong, NEW r \in stats, r.phase # Runtime
  PROVE  r \in RowType /\ r.value \in Int
<1>1. r.phase \in DOMAIN phases /\ Evaluable
  BY StoredIsMade
<1>2. PICK b \in Fraction : r \in PhaseRows(r.phase, b)
  BY StoredIsMade
<1>3. r \in RowsAt(r.phase)
  BY <1>1, <1>2, PhaseRowTypes
<1>4. r \in RowType
  BY <1>1, <1>3, RowsAtAreRows
<1> QED BY <1>4 DEF RowType

(* And so is what is made of it for [RUNTIME].                             *)
LEMMA RuntimeRowTypes ==
  ASSUME Strong, NEW s \in SubPhases, pc \in {"update", "done"}, Runtime \in DOMAIN phases
  PROVE  RuntimeRow(s) \in RowType
<1>1. s \in stats /\ s.phase # Runtime
  BY FlowRows
<1>2. s \in RowType
  BY <1>1, StoredRowTypes
<1> DEFINE rows == {x \in SubPhases : SameMetric(s, x)}
           f == [r \in rows |-> r.value]
           g == [r \in rows |-> r.value * TimeOf(r.phase)]
<1>3. IsFiniteSet(rows)
  <2>1. rows \subseteq stats
    BY DEF SubPhases
  <2> HIDE DEF rows
  <2> QED BY <2>1, FS_Subset DEF Strong, RowsOK
<1>4. ASSUME NEW r \in rows
      PROVE  r.value \in Int /\ TimeOf(r.phase) \in Nat
  <2>1. r \in SubPhases
    OBVIOUS
  <2>2. r \in stats /\ r.phase \in Visible /\ r.phase # Runtime
    BY <2>1, FlowRows
  <2>3. r.value \in Int
    BY <2>2, StoredRowTypes
  <2>4. r.phase \in DOMAIN phases \ {Runtime}
    BY <2>2 DEF Visible
  <2> HIDE DEF rows
  <2>5. TimeOf(r.phase) \in Nat
    BY <2>2, <2>4, TimeOfPhase
  <2> QED BY <2>3, <2>5
<1>5. SumOfValues(rows) \in Int
  <2>1. \A r \in rows : f[r] \in Int
    BY <1>4
  <2>2. SumOfValues(rows) = Sum(f, rows)
    BY DEF SumOfValues
  <2> HIDE DEF f, rows
  <2> QED BY <1>3, <2>1, <2>2, SumIsInt
<1>6. WeightedMean(s) \in Int
  <2>1. \A r \in rows : g[r] \in Int
    <3>1. \A a \in Int, b \in Nat : a * b \in Int
      OBVIOUS
    <3> QED BY <1>4, <3>1
  <2>2. WeightedMean(s) = Round(Q(Sum(g, rows), TimeOf(Runtime)))
    BY DEF WeightedMean
  <2>3. TimeOf(Runtime) \in Nat \ {0}
    <3>1. SubPhases # {}
      OBVIOUS
    <3> HIDE DEF rows, g
    <3> QED BY <3>1, TimeOfRuntime
  <2> HIDE DEF g, rows
  <2>4. Sum(g, rows) \in Int
    BY <1>3, <2>1, SumIsInt
  <2>5. Q(Sum(g, rows), TimeOf(Runtime)) \in Signed
    BY <2>3, <2>4, FractionTypes
  <2> QED BY <2>2, <2>5, RoundTypes
<1>7. Runtime \in 1 .. Len(Plan)
  BY RowsAtAreRows
<1>8. s.kind \in Kinds /\ s.of \in Details /\ s.type \in {"TOTAL", "MEAN"}
  BY <1>2 DEF RowType
<1> HIDE DEF rows
<1> DEFINE v == IF pc = "done" /\ s.type = "MEAN" THEN WeightedMean(s) ELSE SumOfValues(rows)
<1>9. v \in Int
  BY <1>5, <1>6
<1>10. RuntimeRow(s) = [phase |-> Runtime, kind |-> s.kind, of |-> s.of, type |-> s.type,
                        value |-> v, hidden |-> FALSE]
  BY DEF RuntimeRow, rows
<1> HIDE DEF v
<1> QED BY <1>7, <1>8, <1>9, <1>10 DEF RowType

(* Phases are those of the plan, and closed when statistics are built;     *)
(* samples are not from the future; whatever was divided by what, and      *)
(* whichever providers were lost, a row that is built or stored has a      *)
(* number for its value (_compute_metric_phase_stats).                     *)
THEOREM TypesHold == Spec => []TypeOK
<1>1. ASSUME Strong PROVE TypeOK
  <2>1. PhasesTyped /\ PhasesInOrder /\ SeriesOK /\ BuiltOK /\ SamplesOK /\ RowsOK /\ PlanOK
    BY <1>1 DEF Strong, IInv
  <2>2. ASSUME NEW p \in DOMAIN phases
        PROVE  /\ phases[p].name = Plan[p] /\ phases[p].hidden = Hidden(p)
               /\ phases[p].start \in 0 .. now
               /\ Closed(p) => phases[p].end \in phases[p].start + 1 .. now
               /\ Closed(p) \/ pc \in {"measuring", "post"}
    <3>1. phases[p] \in Phase /\ now \in Nat
      BY <2>1 DEF PhasesTyped
    <3>2. phases[p].start \in Nat /\ phases[p].end \in Int
      BY <3>1 DEF Phase
    <3>3. /\ phases[p].start <= now
          /\ Closed(p) => phases[p].start < phases[p].end /\ phases[p].end <= now
          /\ pc \notin Measuring => Closed(p)
      BY <2>1 DEF PhasesInOrder
    <3> QED BY <2>1, <3>1, <3>2, <3>3 DEF PlanOK, Measuring
  <2>3. ASSUME NEW r \in csv PROVE r \in RowType
    <3>1. r.phase \in DOMAIN phases \ {Runtime} /\ r.phase < idx
      BY <2>1 DEF RowsOK
    <3>2. PICK b \in Fraction : RowsOf(csv, r.phase) = PhaseRows(r.phase, b)
      BY <2>1, <3>1 DEF RowsOK, MadeOf
    <3>3. r \in PhaseRows(r.phase, b)
      BY <3>2 DEF RowsOf
    <3>4. r \in RowsAt(r.phase)
      BY <1>1, <3>1, <3>3, StoredIsEvaluable, PhaseRowTypes
    <3> QED BY <1>1, <3>1, <3>4, RowsAtAreRows
  <2>4. ASSUME NEW r \in stats PROVE r \in RowType
    <3>1. CASE r.phase # Runtime
      BY <1>1, <3>1, StoredRowTypes
    <3>2. CASE r.phase = Runtime
      <4>1. r \in RowsOf(stats, Runtime)
        BY <3>2 DEF RowsOf
      <4>2. pc \in {"update", "done"} /\ \E s \in SubPhases : r = RuntimeRow(s)
        BY <2>1, <4>1 DEF RowsOK
      <4>3. Runtime \in DOMAIN phases
        BY <2>1, <3>2 DEF RowsOK
      <4> QED BY <1>1, <4>2, <4>3, RuntimeRowTypes
    <3> QED BY <3>1, <3>2
  <2>5. baseline.n \in Nat /\ baseline.d \in Nat \ {0}
    BY <2>1 DEF RowsOK, Fraction
  <2>6. \A m \in DOMAIN series : DOMAIN series[m] \subseteq 1 .. now
    BY <2>1 DEF SamplesOK
  <2>7. world \in Worlds /\ now \in 0 .. MaxTime /\ meter \in Nat /\ rest \in 0 .. MaxTime + Padding
        /\ Len(phases) <= Len(Plan) /\ listed \subseteq Measured \cup Derived
        /\ idx \in 1 .. Len(phases) + 1
        /\ \A w \in warnings : w.phase \in DOMAIN phases /\ w.metric \in listed
    BY <2>1 DEF SeriesOK, SamplesOK, PlanOK, RowsOK
  <2> QED BY <2>2, <2>3, <2>4, <2>5, <2>6, <2>7 DEF TypeOK
<1> QED BY <1>1, StrongHolds, PTL

-----------------------------------------------------------------------------
(* From the first of some times to the last it is as long as all gaps      *)
(* between them.                                                           *)
LEMMA GapsAddUp ==
  ASSUME NEW S, IsFiniteSet(S), S \subseteq 1 .. MaxTime, S # {}
  PROVE  Sum([t \in Inner(S) |-> t - Before(S, t)], Inner(S)) = Max(S) - Min(S)
<1> DEFINE gap(T) == [t \in Inner(T) |-> t - Before(T, t)]
           Good == {T \in SUBSET S : T = {} \/ Sum(gap(T), Inner(T)) = Max(T) - Min(T)}
<1>1. {} \in Good
  OBVIOUS
<1>2. ASSUME NEW T \in SUBSET S, T # {}, \A x \in T : T \ {x} \in Good PROVE T \in Good
  <2> DEFINE x == Max(T)
             R == T \ {x}
  <2>1. IsFiniteSet(T) /\ T \subseteq 1 .. MaxTime
    BY FS_Subset
  <2>2. /\ Min(T) \in T /\ x \in T /\ Min(T) \in Nat /\ x \in Nat
        /\ \A t \in T : t \in Nat /\ Min(T) <= t /\ t <= x
    BY <1>2, <2>1, ExtremeTimes
  <2>3. CASE R = {}
    <3>1. T = {x} /\ Min(T) = x
      BY <2>2, <2>3
    <3>2. Inner(T) = {}
      BY <3>1 DEF Inner
    <3>3. Sum(gap(T), {}) = 0
      BY FS_EmptySet, SumUnfolds
    <3>4. Sum(gap(T), Inner(T)) = Max(T) - Min(T)
      <4> HIDE DEF gap
      <4>1. Max(T) - Min(T) = 0
        BY <2>2, <3>1
      <4> QED BY <3>2, <3>3, <4>1
    <3> QED BY <3>4
  <2>4. CASE R # {}
    <3>1. R \subseteq 1 .. MaxTime /\ IsFiniteSet(R) /\ R \in SUBSET S
      BY <2>1, FS_Subset
    <3>2. /\ Min(R) \in R /\ Max(R) \in R /\ Min(R) \in Nat /\ Max(R) \in Nat
          /\ \A t \in R : t \in Nat /\ Min(R) <= t /\ t <= Max(R)
      <4> HIDE DEF R
      <4> QED BY <2>4, <3>1, ExtremeTimes
    <3>3. Min(R) = Min(T) /\ Max(R) < x /\ x # Min(T)
      <4>1. \A t \in R : t \in T /\ t # x
        OBVIOUS
      <4>2. Max(R) < x /\ Min(R) < x
        <5>1. Max(R) \in T /\ Max(R) # x /\ Min(R) \in T /\ Min(R) # x
          BY <3>2, <4>1
        <5> HIDE DEF R, x
        <5> QED BY <2>2, <3>2, <5>1
      <4>3. Min(T) # x
        <5>1. Min(R) \in T
          BY <3>2, <4>1
        <5>2. Min(T) <= Min(R)
          BY <2>2, <5>1
        <5> HIDE DEF R, x
        <5> QED BY <2>2, <3>2, <4>2, <5>2
      <4>4. Min(T) \in R
        BY <2>2, <4>3
      <4>5. Min(R) <= Min(T) /\ Min(T) <= Min(R)
        BY <2>2, <3>2, <4>1, <4>4
      <4> HIDE DEF R, x
      <4> QED BY <2>2, <3>2, <4>2, <4>3, <4>5
    <3>4. Inner(T) = Inner(R) \cup {x} /\ x \notin Inner(R) /\ Inner(R) \subseteq R
      BY <2>2, <3>3 DEF Inner
    <3>5. Before(T, x) = Max(R)
      <4>1. {u \in T : u < x} = R
        <5>1. \A u \in T : u < x <=> u # x
          <6> HIDE DEF x
          <6> QED BY <2>2
        <5> QED BY <5>1
      <4> QED BY <4>1 DEF Before
    <3>6. ASSUME NEW t \in Inner(R) PROVE gap(T)[t] = gap(R)[t] /\ gap(R)[t] \in Nat /\ t \in Inner(T)
      <4>1. t \in R /\ t \in Nat /\ t <= Max(R)
        BY <3>2, <3>4
      <4>2. {u \in T : u < t} = {u \in R : u < t}
        <5>1. t < x
          <6> HIDE DEF R, x
          <6> QED BY <2>2, <3>2, <3>3, <4>1
        <5>2. \A u \in T : u < t => u # x
          <6> HIDE DEF x, R
          <6> QED BY <2>2, <4>1, <5>1
        <5> HIDE DEF x
        <5> QED BY <5>2
      <4>3. Before(T, t) = Before(R, t)
        BY <4>2 DEF Before
      <4>4. Before(R, t) \in Nat /\ Before(R, t) < t
        BY <3>1, BeforeIsInner
      <4>5. t \in Inner(T)
        BY <3>4
      <4>6. gap(T)[t] = t - Before(T, t) /\ gap(R)[t] = t - Before(R, t)
        BY <4>5
      <4> HIDE DEF gap, R
      <4> QED BY <4>1, <4>3, <4>4, <4>5, <4>6
    <3>7. gap(T)[x] = x - Max(R) /\ gap(T)[x] \in Nat
      <4>1. x \in Inner(T)
        BY <3>4
      <4>2. gap(T)[x] = x - Before(T, x)
        BY <4>1
      <4> HIDE DEF gap, x, R
      <4> QED BY <2>2, <3>2, <3>3, <3>5, <4>2
    <3>8. Sum(gap(R), Inner(R)) = Max(R) - Min(R)
      <4>1. R \in Good
        BY <1>2, <2>2
      <4> QED BY <2>4, <4>1
    <3>9. IsFiniteSet(Inner(T)) /\ IsFiniteSet(Inner(R))
      <4>1. Inner(T) \subseteq T /\ Inner(R) \subseteq T
        BY DEF Inner
      <4> QED BY <2>1, <4>1, FS_Subset
    <3>10. Sum(gap(T), Inner(T)) = Max(T) - Min(T)
      <4> HIDE DEF gap, x, R
      <4>1. \A t \in Inner(T) : gap(T)[t] \in Nat
        BY <3>4, <3>6, <3>7
      <4>2. Inner(T) \ {x} = Inner(R) /\ x \in Inner(T)
        BY <3>4
      <4>3. Sum(gap(T), Inner(T)) = gap(T)[x] + Sum(gap(T), Inner(R))
        BY <3>9, <4>1, <4>2, SumWithout
      <4>4. Sum(gap(T), Inner(R)) = Sum(gap(R), Inner(R))
        BY <3>6, <3>9, SumIsOfMembers
      <4>5. Sum(gap(T), Inner(T)) = (x - Max(R)) + (Max(R) - Min(R))
        BY <3>7, <3>8, <4>3, <4>4
      <4>6. Sum(gap(T), Inner(T)) = x - Min(T)
        BY <2>2, <3>2, <3>3, <4>5
      <4> QED BY <4>6 DEF x
    <3> QED BY <3>10
  <2> QED BY <2>3, <2>4
<1>3. SUBSET S \subseteq Good
  <2> HIDE DEF Good
  <2> QED BY <1>1, <1>2, AllSubsets
<1>4. S \in Good
  BY <1>3
<1> QED BY <1>4

(* A mean of samples is between bounds of the samples.                     *)
LEMMA AverageIsBetween ==
  ASSUME Evaluable, NEW p \in DOMAIN phases, NEW m \in DOMAIN series, Counted(m, p) # {},
         NEW lo \in Nat, NEW hi \in Nat,
         \A t \in DOMAIN series[m] : lo <= series[m][t] /\ series[m][t] <= hi
  PROVE  lo <= Round(Average(m, p)) /\ Round(Average(m, p)) <= hi
<1> DEFINE S == Counted(m, p)
<1>1. S \subseteq DOMAIN series[m] /\ S \subseteq 1 .. MaxTime /\ IsFiniteSet(S) /\ S # {}
      /\ Total(m, p) \in Nat
      /\ \A t \in DOMAIN series[m] : series[m][t] \in Nat
  BY CountedTypes DEF Evaluable
<1> HIDE DEF S
<1>2. /\ Cardinality(S) \in Nat \ {0} /\ IsFiniteSet(Inner(S))
      /\ ~ Cardinality(S) <= 2 => Min(S) < Max(S)
  BY <1>1, MoreThanTwo
<1>3. Min(S) \in Nat /\ Max(S) \in Nat
  BY <1>1, ExtremeTimes
<1>4. ASSUME NEW n \in Nat, NEW d \in Nat \ {0}, Average(m, p) = Q(n, d), lo * d <= n, n <= hi * d
      PROVE  lo <= Round(Average(m, p)) /\ Round(Average(m, p)) <= hi
  <2>1. n \in Int /\ lo \in Int /\ hi \in Int
    OBVIOUS
  <2>2. Round(Q(n, d)) <= hi
    BY <1>4, <2>1, RoundingIsMonotone
  <2>3. lo <= Round(Q(n, d))
    BY <1>4, <2>1, RoundingIsMonotone
  <2> QED BY <1>4, <2>2, <2>3
<1>5. CASE Cardinality(S) <= 2
  <2> DEFINE f == [t \in S |-> lo]
             g == [t \in S |-> hi]
             v == series[m]
  <2>1. Average(m, p) = Q(Total(m, p), Cardinality(S)) /\ Total(m, p) = Sum(v, S)
    BY <1>5 DEF Average, Total, S
  <2>2. \A t \in S : f[t] = lo /\ g[t] = hi /\ v[t] \in Nat /\ lo <= v[t] /\ v[t] <= hi
    BY <1>1
  <2> HIDE DEF f, g, v
  <2>3. Sum(f, S) = lo * Cardinality(S) /\ Sum(g, S) = hi * Cardinality(S)
    BY <1>1, <2>2, SumOfEquals
  <2>4. Sum(f, S) <= Sum(v, S) /\ Sum(v, S) <= Sum(g, S)
    BY <1>1, <2>2, SumIsMonotone
  <2> QED BY <1>1, <1>2, <1>4, <2>1, <2>3, <2>4
<1>6. CASE ~ Cardinality(S) <= 2
  <2> DEFINE gap == [t \in Inner(S) |-> t - Before(S, t)]
             v == [t \in Inner(S) |-> series[m][t] * gap[t]]
             f == [t \in Inner(S) |-> lo * gap[t]]
             g == [t \in Inner(S) |-> hi * gap[t]]
             d == Max(S) - Min(S)
  <2>1. Average(m, p) = Q(Sum(v, Inner(S)), d)
    BY <1>6 DEF Average, S
  <2>2. ASSUME NEW t \in Inner(S)
        PROVE  gap[t] \in Nat /\ series[m][t] \in Nat /\ lo <= series[m][t] /\ series[m][t] <= hi
    <3>1. t \in S /\ t \in Nat /\ Before(S, t) \in Nat /\ Before(S, t) < t
      BY <1>1, BeforeIsInner
    <3> QED BY <1>1, <3>1
  <2>3. Sum(gap, Inner(S)) = d /\ d \in Nat \ {0}
    <3>1. Sum(gap, Inner(S)) = d
      BY <1>1, GapsAddUp
    <3>2. d \in Nat \ {0}
      BY <1>2, <1>3, <1>6
    <3> QED BY <3>1, <3>2
  <2>4. \A a, b, c \in Nat : a * b \in Nat /\ (a <= c => a * b <= c * b)
    OBVIOUS
  <2>5. \A t \in Inner(S) : /\ f[t] = lo * gap[t] /\ g[t] = hi * gap[t]
                            /\ f[t] = lo * gap[t] + 0 /\ g[t] = hi * gap[t] + 0
                            /\ f[t] \in Nat /\ g[t] \in Nat /\ v[t] \in Nat
                            /\ f[t] <= v[t] /\ v[t] <= g[t] /\ gap[t] \in Nat
    <3> SUFFICES ASSUME NEW t \in Inner(S)
                 PROVE  /\ f[t] = lo * gap[t] /\ g[t] = hi * gap[t]
                        /\ f[t] = lo * gap[t] + 0 /\ g[t] = hi * gap[t] + 0
                        /\ f[t] \in Nat /\ g[t] \in Nat /\ v[t] \in Nat
                        /\ f[t] <= v[t] /\ v[t] <= g[t] /\ gap[t] \in Nat
      OBVIOUS
    <3>1. f[t] = lo * gap[t] /\ g[t] = hi * gap[t] /\ v[t] = series[m][t] * gap[t]
      OBVIOUS
    <3>2. gap[t] \in Nat /\ series[m][t] \in Nat /\ lo <= series[m][t] /\ series[m][t] <= hi
      BY <2>2
    <3> HIDE DEF f, g, v, gap
    <3>3. lo * gap[t] \in Nat /\ hi * gap[t] \in Nat /\ series[m][t] * gap[t] \in Nat
      BY <2>4, <3>2
    <3>4. lo * gap[t] <= series[m][t] * gap[t] /\ series[m][t] * gap[t] <= hi * gap[t]
      BY <2>4, <3>2
    <3> QED BY <3>1, <3>2, <3>3, <3>4
  <2> HIDE DEF f, g, v, gap, d
  <2>6. Sum(f, Inner(S)) = lo * Sum(gap, Inner(S)) + 0 * Cardinality(Inner(S))
        /\ Sum(g, Inner(S)) = hi * Sum(gap, Inner(S)) + 0 * Cardinality(Inner(S))
    BY <1>2, <2>5, SumOfAffine
  <2>7. Cardinality(Inner(S)) \in Nat
    BY <1>2, FS_CardinalityType
  <2>8. Sum(f, Inner(S)) <= Sum(v, Inner(S)) /\ Sum(v, Inner(S)) <= Sum(g, Inner(S))
    BY <1>2, <2>5, SumIsMonotone
  <2>9. Sum(v, Inner(S)) \in Nat
    BY <1>2, <2>5, SumIsNat
  <2>10. lo * d \in Nat /\ hi * d \in Nat
    BY <2>3, <2>4
  <2>11. Sum(f, Inner(S)) = lo * d /\ Sum(g, Inner(S)) = hi * d
    BY <2>3, <2>6, <2>7, <2>10
  <2> QED BY <1>4, <2>1, <2>3, <2>8, <2>9, <2>11
<1> QED BY <1>5, <1>6

-----------------------------------------------------------------------------
(* The samples of a metric are between the smallest and the largest.       *)
LEMMA SamplesAreBetween ==
  ASSUME SeriesOK, SamplesOK, NEW m \in DOMAIN series, DOMAIN series[m] # {},
         NEW V, V = {series[m][t] : t \in DOMAIN series[m]}
  PROVE  /\ Min(V) \in Nat /\ Max(V) \in Nat
         /\ \A t \in DOMAIN series[m] : Min(V) <= series[m][t] /\ series[m][t] <= Max(V)
<1> DEFINE v == series[m]
           n == Sum(v, DOMAIN v)
<1>1. IsFiniteSet(DOMAIN v) /\ \A t \in DOMAIN v : v[t] \in Nat
  BY CountedTypes
<1>2. n \in Nat /\ \A t \in DOMAIN v : v[t] <= n
  <2> HIDE DEF v
  <2> QED BY <1>1, SumOfLess, SumIsNat
<1>3. V \subseteq 0 .. n /\ V # {}
  <2> HIDE DEF n
  <2> QED BY <1>1, <1>2
<1>4. Min(V) \in V /\ Max(V) \in V /\ \A x \in V : Min(V) <= x /\ x <= Max(V)
  <2> HIDE DEF n
  <2> QED BY <1>2, <1>3, Extremes
<1>5. V \subseteq Nat
  BY <1>1
<1> QED BY <1>4, <1>5

(* A mean of a metric that is sampled is an average of its samples.        *)
LEMMA MeanIsAverage ==
  ASSUME Strong, NEW r \in stats, r.phase # Runtime, NEW m \in DOMAIN series,
         r.kind = m.kind, r.of = m.of, r.type = "MEAN"
  PROVE  /\ r = MeanRow(r.phase, m.kind, m.of, Average(m, r.phase)) /\ m \in In(m.kind, r.phase)
         /\ m.kind \in {"intensity", "load", "share"}
<1>1. r.phase \in DOMAIN phases /\ Evaluable
  BY StoredIsMade
<1>2. PICK b \in Fraction : r \in PhaseRows(r.phase, b)
  BY StoredIsMade
<1>3. m \in listed
  BY <1>1, StoredIsEvaluable DEF Evaluable, SeriesOK, Early
<1>4. m \in Measured \cup Derived /\ m = Metric(m.kind, m.of)
  BY <1>1, <1>3, MetricTypes DEF Evaluable, SamplesOK
<1>5. m.kind \in {"energy", "load", "intensity", "share", "bytes", "custom", "carbon"}
  BY <1>4 DEF Measured, Derived, Energy, Load, Metric
<1>6. m.kind \notin {"bytes", "energy", "carbon", "custom"}
  <2> SUFFICES ASSUME m.kind \in {"bytes", "energy", "carbon", "custom"} PROVE FALSE
    OBVIOUS
  <2>1. PICK n \in In(r.kind, r.phase) :
          r = TotalRow(r.phase, n.kind, n.of, Q(Total(n, r.phase), 1))
    BY <1>2, RowsByKind
  <2>2. r.type = "TOTAL"
    BY <2>1, RowHas
  <2> QED BY <2>2
<1>7. PICK n \in In(r.kind, r.phase) : r = MeanRow(r.phase, n.kind, n.of, Average(n, r.phase))
  BY <1>2, <1>5, <1>6, RowsByKind
<1>8. n \in listed /\ r.kind = n.kind /\ r.of = n.of
  BY <1>7, RowHas DEF In
<1>9. n = m
  BY <1>1, <1>4, <1>8, MetricTypes DEF Evaluable
<1> QED BY <1>5, <1>6, <1>7, <1>9

(* The means of the visible flows, weighted with their durations, are      *)
(* between bounds of the flows' means. Where all have one.                 *)
LEMMA WeightedIsBetween ==
  ASSUME Strong, pc = "done", NEW s \in SubPhases, NEW lo \in Nat, NEW hi \in Nat,
         NEW rows, rows = {x \in SubPhases : SameMetric(s, x)},
         \A x \in rows : x.value \in Nat /\ lo <= x.value /\ x.value <= hi,
         \A x, y \in rows : x.phase = y.phase => x = y
  PROVE  /\ WeightedMean(s) <= hi
         /\ (\A p \in Visible : \E x \in rows : x.phase = p) => lo <= WeightedMean(s)
<1> DEFINE total == TimeOf(Runtime)
           D == [p \in Visible |-> Duration(p)]
           h == [x \in rows |-> x.phase]
           w == [x \in rows |-> Duration(x.phase)]
           f == [x \in rows |-> x.value * TimeOf(x.phase)]
           a == [x \in rows |-> lo * w[x]]
           b == [x \in rows |-> hi * w[x]]
           W == {h[x] : x \in rows}
<1>1. /\ total = Sum(D, Visible) /\ total \in Nat \ {0}
      /\ IsFiniteSet(Visible) /\ Visible # {}
      /\ \A p \in Visible : Duration(p) \in Nat \ {0} /\ TimeOf(p) = Duration(p)
  BY TimeOfRuntime
<1>2. IsFiniteSet(rows) /\ rows \subseteq SubPhases
  <2>1. rows \subseteq stats
    BY DEF SubPhases
  <2> QED BY <2>1, FS_Subset DEF Strong, RowsOK
<1>3. \A x \in rows : x.phase \in Visible
  BY <1>2, FlowRows
<1>4. WeightedMean(s) = Round(Q(Sum(f, rows), total))
  BY DEF WeightedMean
<1>5. \A x \in rows : /\ w[x] \in Nat /\ a[x] = lo * w[x] + 0 /\ b[x] = hi * w[x] + 0
                      /\ a[x] \in Nat /\ b[x] \in Nat /\ f[x] \in Nat
                      /\ a[x] <= f[x] /\ f[x] <= b[x]
                      /\ D[h[x]] = w[x]
  <2> SUFFICES ASSUME NEW x \in rows
               PROVE  /\ w[x] \in Nat /\ a[x] = lo * w[x] + 0 /\ b[x] = hi * w[x] + 0
                      /\ a[x] \in Nat /\ b[x] \in Nat /\ f[x] \in Nat
                      /\ a[x] <= f[x] /\ f[x] <= b[x]
                      /\ D[h[x]] = w[x]
    OBVIOUS
  <2>1. w[x] = Duration(x.phase) /\ w[x] \in Nat /\ f[x] = x.value * w[x] /\ D[h[x]] = w[x]
        /\ a[x] = lo * w[x] /\ b[x] = hi * w[x]
    BY <1>1, <1>3
  <2>2. \A i, j, k \in Nat : i * j \in Nat /\ (i <= k => i * j <= k * j)
    OBVIOUS
  <2>3. x.value \in Nat /\ lo <= x.value /\ x.value <= hi
    OBVIOUS
  <2> HIDE DEF w, f, D, h, a, b
  <2>4. lo * w[x] \in Nat /\ hi * w[x] \in Nat /\ x.value * w[x] \in Nat
        /\ lo * w[x] <= x.value * w[x] /\ x.value * w[x] <= hi * w[x]
    BY <2>1, <2>2, <2>3
  <2> QED BY <2>1, <2>4
<1>6. Sum(D, W) = Sum(w, rows)
  <2>1. \A x, y \in rows : h[x] = h[y] => x = y
    OBVIOUS
  <2> HIDE DEF D, h, w
  <2> QED BY <1>2, <1>5, <2>1, SumOfImage
<1>7. W \subseteq Visible /\ \A p \in Visible : D[p] \in Nat
  BY <1>1, <1>3
<1>8. Sum(D, W) <= total /\ Sum(D, W) \in Nat
  <2> HIDE DEF D, W, total
  <2> QED BY <1>1, <1>7, SumOfLess
<1>9. (\A p \in Visible : \E x \in rows : x.phase = p) => W = Visible
  BY <1>7
<1> HIDE DEF total, D, h, w, f, a, b, W
<1>10. Sum(a, rows) = lo * Sum(w, rows) + 0 * Cardinality(rows)
       /\ Sum(b, rows) = hi * Sum(w, rows) + 0 * Cardinality(rows)
  BY <1>2, <1>5, SumOfAffine
<1>11. Sum(a, rows) <= Sum(f, rows) /\ Sum(f, rows) <= Sum(b, rows)
  BY <1>2, <1>5, SumIsMonotone
<1>12. Sum(f, rows) \in Nat /\ Cardinality(rows) \in Nat
  BY <1>2, <1>5, SumIsNat, FS_CardinalityType
<1>13. PICK u \in Nat : u = Sum(w, rows) /\ u <= total
  BY <1>6, <1>8
<1>14. lo * u \in Nat /\ hi * u \in Nat /\ hi * u <= hi * total /\ hi * total \in Nat
  <2>1. \A i, j, k \in Nat : i * j \in Nat /\ (j <= k => i * j <= i * k)
    OBVIOUS
  <2> QED BY <1>1, <1>13, <2>1
<1>15. Sum(f, rows) <= hi * total /\ lo * u <= Sum(f, rows)
  <2>1. Sum(a, rows) = lo * u /\ Sum(b, rows) = hi * u
    BY <1>10, <1>12, <1>13, <1>14
  <2> QED BY <1>11, <1>12, <1>14, <2>1
<1>16. PICK n \in Nat : n = Sum(f, rows)
  BY <1>12
<1>17. n \in Int /\ lo \in Int /\ hi \in Int /\ total \in Nat \ {0}
  BY <1>1
<1>18. n <= hi * total => Round(Q(n, total)) <= hi
  BY <1>17, RoundingIsMonotone
<1>19. lo * total <= n => lo <= Round(Q(n, total))
  BY <1>17, RoundingIsMonotone
<1>20. (\A p \in Visible : \E x \in rows : x.phase = p) => u = total
  BY <1>1, <1>6, <1>9, <1>13
<1> QED BY <1>4, <1>15, <1>16, <1>18, <1>19, <1>20

(* Means are between the smallest and the largest sample, also that of     *)
(* [RUNTIME] (_compute_metric_phase_stats, reconstruct_runtime_phase).     *)
THEOREM MeansStayMeans == Spec => []MeansAreMeans
<1>1. ASSUME Strong, pc = "done", NEW r \in stats, NEW m \in DOMAIN series,
             r.kind = m.kind, r.of = m.of, r.type = "MEAN",
             NEW V, V = {series[m][t] : t \in DOMAIN series[m]}
      PROVE  /\ r.value <= Max(V)
             /\ r.phase # Runtime \/ (\A p \in DOMAIN phases : Flow(p) /\ ~Hidden(p) => Has(p, m))
                  => r.value >= Min(V)
  <2>1. Evaluable /\ pc \notin Early \cup {"co2"}
    BY <1>1, StoredIsEvaluable
  <2>2. /\ Min(V) \in Nat /\ Max(V) \in Nat
        /\ \A t \in DOMAIN series[m] : Min(V) <= series[m][t] /\ series[m][t] <= Max(V)
    BY <1>1, <2>1, SamplesAreBetween DEF Evaluable, SamplesOK
  <2>3. ASSUME NEW x \in stats, x.phase # Runtime, x.kind = m.kind, x.of = m.of, x.type = "MEAN"
        PROVE  /\ x.value \in Nat /\ Min(V) <= x.value /\ x.value <= Max(V)
               /\ x = MeanRow(x.phase, m.kind, m.of, Average(m, x.phase))
    <3>1. x = MeanRow(x.phase, m.kind, m.of, Average(m, x.phase)) /\ m \in In(m.kind, x.phase)
          /\ x.phase \in DOMAIN phases
      BY <1>1, <2>3, MeanIsAverage, StoredIsMade
    <3>2. x.value = Round(Average(m, x.phase))
      BY <3>1, RowHas
    <3>3. Average(m, x.phase) \in Fraction /\ Counted(m, x.phase) # {}
      BY <2>1, <3>1, InTypes
    <3>4. x.value \in Nat
      BY <3>2, <3>3, RoundTypes
    <3>5. Min(V) <= Round(Average(m, x.phase)) /\ Round(Average(m, x.phase)) <= Max(V)
      BY <1>1, <2>1, <2>2, <3>1, <3>3, AverageIsBetween
    <3> QED BY <3>1, <3>2, <3>4, <3>5
  <2>4. CASE r.phase # Runtime
    BY <1>1, <2>2, <2>3, <2>4
  <2>5. CASE r.phase = Runtime
    <3>1. r \in RowsOf(stats, Runtime)
      BY <2>5 DEF RowsOf
    <3>2. PICK s \in SubPhases : r = RuntimeRow(s)
      BY <1>1, <3>1 DEF Strong, RowsOK
    <3>3. s.kind = m.kind /\ s.of = m.of /\ s.type = "MEAN" /\ r.value = WeightedMean(s)
      BY <1>1, <3>2 DEF RuntimeRow
    <3> DEFINE rows == {x \in SubPhases : SameMetric(s, x)}
    <3>4. ASSUME NEW x \in rows
          PROVE  /\ x.value \in Nat /\ Min(V) <= x.value /\ x.value <= Max(V)
                 /\ x = MeanRow(x.phase, m.kind, m.of, Average(m, x.phase))
      <4>1. x \in SubPhases /\ x.kind = m.kind /\ x.of = m.of /\ x.type = "MEAN"
        BY <3>3 DEF SameMetric
      <4>2. x \in stats /\ x.phase # Runtime
        BY <1>1, <4>1, FlowRows
      <4> QED BY <2>3, <4>1, <4>2
    <3>5. \A x, y \in rows : x.phase = y.phase => x = y
      <4> HIDE DEF rows
      <4> QED BY <3>4
    <3>6. /\ WeightedMean(s) <= Max(V)
          /\ (\A p \in Visible : \E x \in rows : x.phase = p) => Min(V) <= WeightedMean(s)
      <4>1. PICK R : R = {x \in SubPhases : SameMetric(s, x)}
        OBVIOUS
      <4>2. PICK lo \in Nat, hi \in Nat : lo = Min(V) /\ hi = Max(V)
        BY <2>2
      <4>3. /\ \A x \in R : x.value \in Nat /\ lo <= x.value /\ x.value <= hi
            /\ \A x, y \in R : x.phase = y.phase => x = y
        BY <3>4, <3>5, <4>1, <4>2
      <4>4. /\ WeightedMean(s) <= hi
            /\ (\A p \in Visible : \E x \in R : x.phase = p) => lo <= WeightedMean(s)
        BY <1>1, <4>1, <4>3, WeightedIsBetween
      <4> QED BY <4>1, <4>2, <4>4
    <3>7. ASSUME \A p \in DOMAIN phases : Flow(p) /\ ~Hidden(p) => Has(p, m), NEW p \in Visible
          PROVE  \E x \in rows : x.phase = p
      <4>1. PICK x \in stats : x.phase = p /\ x.kind = m.kind /\ x.of = m.of
        BY <3>7 DEF Visible, Has
      <4>2. x \in SubPhases
        BY <1>1, <3>7, <4>1, FlowRows
      <4>3. x.phase # Runtime /\ x.type = "MEAN"
        <5>1. x.phase # Runtime /\ s \in stats /\ s.phase # Runtime
          BY <1>1, <4>2, FlowRows
        <5>2. PICK b \in Fraction : x \in PhaseRows(x.phase, b)
          BY <1>1, <5>1, StoredIsMade
        <5>3. m.kind \in {"intensity", "load", "share"}
          BY <1>1, <3>3, <5>1, MeanIsAverage
        <5>4. \E n \in In(x.kind, x.phase) : x = MeanRow(x.phase, n.kind, n.of, Average(n, x.phase))
          BY <4>1, <5>2, <5>3, RowsByKind
        <5> QED BY <5>1, <5>4, RowHas
      <4>4. x \in rows
        BY <3>3, <4>1, <4>2, <4>3 DEF SameMetric
      <4> QED BY <4>1, <4>4
    <3> QED BY <2>2, <3>3, <3>6, <3>7, <2>5
  <2> QED BY <2>4, <2>5
<1>2. Strong => MeansAreMeans
  BY <1>1 DEF MeansAreMeans
<1> QED BY <1>2, StrongHolds, PTL

-----------------------------------------------------------------------------
-----------------------------------------------------------------------------
(* Samples add up to no more than what was used since the sample before    *)
(* the first of them.                                                      *)
LEMMA SamplesAddUpTo ==
  ASSUME world \in Worlds, NEW f, DOMAIN f \subseteq 1 .. MaxTime, Gapless(f),
         \A t \in DOMAIN f : f[t] \in Nat,
         NEW S, S \subseteq DOMAIN f, NEW a \in Int, NEW b \in Int,
         \A t \in S : a <= Since(f, t) /\ t <= b
  PROVE  Sum(f, S) <= Used(a, b)
<1> DEFINE Good == {T \in SUBSET S : \A c \in Int : (\A t \in T : t <= c) => Sum(f, T) <= Used(a, c)}
<1>0. IsFiniteSet(S) /\ S \subseteq 1 .. MaxTime /\ MaxTime \in Nat
  <2>1. IsFiniteSet(1 .. MaxTime) /\ MaxTime \in Nat
    BY TimeAssumption, FS_Interval
  <2> QED BY <2>1, FS_Subset
<1>1. {} \in Good
  <2>1. Sum(f, {}) = 0
    BY FS_EmptySet, SumUnfolds
  <2>2. \A c \in Int : Used(a, c) \in Nat
    BY UsedGrows
  <2> QED BY <2>1, <2>2
<1>2. ASSUME NEW T \in SUBSET S, T # {}, \A x \in T : T \ {x} \in Good PROVE T \in Good
  <2> SUFFICES ASSUME NEW c \in Int, \A t \in T : t <= c PROVE Sum(f, T) <= Used(a, c)
    OBVIOUS
  <2>1. IsFiniteSet(T) /\ T \subseteq 1 .. MaxTime
    BY <1>0, FS_Subset
  <2>2. PICK x \in T : x = Max(T) /\ x \in Nat \ {0} /\ \A t \in T : t \in Nat /\ t <= x
    <3>1. Max(T) \in T /\ Max(T) \in Nat /\ \A t \in T : t \in Nat /\ t <= Max(T)
      BY <1>2, <2>1, ExtremeTimes
    <3>2. \A t \in T : t # 0
      BY <2>1
    <3> QED BY <3>1, <3>2
  <2>3. PICK u \in Nat : u = Since(f, x) /\ u < x /\ \A t \in DOMAIN f : t < x => t <= u
    BY <2>2, SinceIsBefore
  <2>4. f[x] = Used(u, x) /\ a <= u /\ x <= c
    BY <2>2, <2>3 DEF Gapless
  <2>5. T \ {x} \in Good /\ \A t \in T \ {x} : t <= u
    <3>1. \A t \in T \ {x} : t \in DOMAIN f /\ t < x
      BY <2>2
    <3> QED BY <1>2, <2>2, <2>3, <3>1
  <2>6. Sum(f, T \ {x}) <= Used(a, u)
    BY <2>3, <2>5
  <2>7. Sum(f, T) = f[x] + Sum(f, T \ {x}) /\ Sum(f, T \ {x}) \in Nat
    <3>1. IsFiniteSet(T \ {x})
      BY <2>1, FS_Subset
    <3>2. \A t \in T : f[t] \in Nat
      OBVIOUS
    <3>3. Sum(f, T) = f[x] + Sum(f, T \ {x})
      <4>1. x \in T
        BY <2>2
      <4>2. \A y \in T : Sum(f, T) = f[y] + Sum(f, T \ {y})
        BY <2>1, <3>2, SumWithout
      <4> QED BY <4>1, <4>2
    <3>4. \A t \in T \ {x} : f[t] \in Nat
      BY <3>2
    <3>5. Sum(f, T \ {x}) \in Nat
      BY <3>1, <3>4, SumIsNat
    <3> QED BY <3>3, <3>5
  <2>8. Used(a, x) = Used(a, u) + Used(u, x)
    BY <2>2, <2>3, <2>4, UsedAdds
  <2>9. Used(a, x) <= Used(a, c) /\ Used(a, x) \in Nat /\ Used(a, u) \in Nat /\ Used(u, x) \in Nat
        /\ Used(a, c) \in Nat
    <3>1. x \in Int /\ u \in Int /\ a <= a
      BY <2>2, <2>3
    <3>2. Used(a, x) <= Used(a, c)
      BY <2>4, <3>1, UsedGrows
    <3>3. ASSUME NEW i \in Int, NEW j \in Int PROVE Used(i, j) \in Nat
      <4>1. i <= i /\ j <= j
        OBVIOUS
      <4> QED BY <4>1, UsedGrows
    <3> QED BY <3>1, <3>2, <3>3
  <2> QED BY <2>4, <2>6, <2>7, <2>8, <2>9
<1>3. SUBSET S \subseteq Good
  <2> HIDE DEF Good
  <2> QED BY <1>0, <1>1, <1>2, AllSubsets
<1>4. S \in Good
  BY <1>3
<1> QED BY <1>4

(* All samples from one time up to a sample add up to no less than what    *)
(* was used from then on.                                                  *)
LEMMA SamplesCover ==
  ASSUME world \in Worlds, NEW f, DOMAIN f \subseteq 1 .. MaxTime, Gapless(f),
         \A t \in DOMAIN f : f[t] \in Nat, NEW a \in Nat
  PROVE  \A x \in DOMAIN f : a < x => Used(a, x) <= Sum(f, {t \in DOMAIN f : a < t /\ t <= x})
<1> DEFINE T(x) == {t \in DOMAIN f : a < t /\ t <= x}
           Bad == {x \in DOMAIN f : a < x /\ ~ Used(a, x) <= Sum(f, T(x))}
<1>0. \A x \in DOMAIN f : x \in Nat \ {0}
  BY TimeAssumption
<1>1. \A x : IsFiniteSet(T(x))
  <2>1. IsFiniteSet(1 .. MaxTime)
    BY TimeAssumption, FS_Interval
  <2>2. \A x : T(x) \subseteq 1 .. MaxTime
    OBVIOUS
  <2> QED BY <2>1, <2>2, FS_Subset
<1>2. SUFFICES ASSUME Bad # {} PROVE FALSE
  OBVIOUS
<1>3. PICK x \in Bad : \A y \in Bad : x <= y
  <2>1. Bad \subseteq Nat
    BY <1>0
  <2> HIDE DEF Bad
  <2> QED BY <1>2, <2>1, LeastNatural
<1>4. x \in DOMAIN f /\ x \in Nat \ {0} /\ a < x /\ ~ Used(a, x) <= Sum(f, T(x))
  BY <1>0, <1>3
<1>5. PICK u \in Nat : u = Since(f, x) /\ u < x /\ (\A t \in DOMAIN f : t < x => t <= u)
                       /\ (u \in DOMAIN f \/ u = 0)
  BY <1>4, SinceIsBefore
<1>6. f[x] = Used(u, x) /\ f[x] \in Nat
  BY <1>4, <1>5 DEF Gapless
<1>7. Sum(f, T(x)) = f[x] + Sum(f, T(x) \ {x}) /\ Sum(f, T(x) \ {x}) \in Nat
  <2>1. x \in T(x) /\ \A t \in T(x) : f[t] \in Nat
    BY <1>4
  <2>2. IsFiniteSet(T(x)) /\ IsFiniteSet(T(x) \ {x})
    BY <1>1, FS_Subset
  <2> HIDE DEF T
  <2> QED BY <2>1, <2>2, SumWithout, SumIsNat
<1>8. Used(a, x) \in Nat /\ Used(u, x) \in Nat /\ Used(a, u) \in Nat
  BY <1>4, <1>5, UsedGrows
<1>9. CASE u <= a
  <2>1. Used(a, x) <= Used(u, x)
    <3>1. a \in Int /\ x \in Int /\ u \in Int /\ x <= x
      BY <1>4, <1>5
    <3> QED BY <1>9, <3>1, UsedGrows
  <2> QED BY <1>4, <1>6, <1>7, <1>8, <2>1
<1>10. CASE a < u
  <2>1. u \in DOMAIN f /\ u \notin Bad
    <3>1. u \in DOMAIN f
      BY <1>5, <1>10
    <3>2. ~ x <= u
      BY <1>4, <1>5
    <3> HIDE DEF Bad
    <3> QED BY <1>3, <3>1, <3>2
  <2>2. Used(a, u) <= Sum(f, T(u))
    BY <1>10, <2>1
  <2>3. T(x) \ {x} = T(u)
    <3>1. ASSUME NEW t \in DOMAIN f PROVE t <= x /\ t # x <=> t <= u
      BY <1>0, <1>4, <1>5, <3>1
    <3> QED BY <3>1
  <2>4. Used(a, x) = Used(a, u) + Used(u, x)
    BY <1>4, <1>5, <1>10, UsedAdds
  <2> HIDE DEF T
  <2> QED BY <1>4, <1>6, <1>7, <1>8, <2>2, <2>3, <2>4
<1> QED BY <1>5, <1>9, <1>10

-----------------------------------------------------------------------------
(* A row of energy holds the samples of the machine's energy.              *)
LEMMA EnergyRowIs ==
  ASSUME Strong, NEW r \in stats, r.phase # Runtime, r.kind = "energy"
  PROVE  /\ r = TotalRow(r.phase, "energy", "machine", Q(Total(Energy, r.phase), 1))
         /\ r.value = Total(Energy, r.phase) /\ Total(Energy, r.phase) \in Nat
         /\ Energy \in In("energy", r.phase) /\ Energy \in DOMAIN series
         /\ Counted(Energy, r.phase) # {} /\ r.phase \in DOMAIN phases \ {Runtime}
<1>1. r.phase \in DOMAIN phases \ {Runtime} /\ Evaluable
  BY StoredIsMade
<1>2. PICK b \in Fraction : r \in PhaseRows(r.phase, b)
  BY StoredIsMade
<1>3. PICK m \in In("energy", r.phase) :
        r = TotalRow(r.phase, m.kind, m.of, Q(Total(m, r.phase), 1))
  BY <1>2, RowsByKind
<1>4. m \in listed /\ m.kind = "energy" /\ m \in DOMAIN series /\ Counted(m, r.phase) # {}
      /\ Total(m, r.phase) \in Nat
  BY <1>1, <1>3, InTypes
<1>5. m = Energy /\ m.of = "machine"
  BY <1>1, <1>4, MetricTypes DEF Evaluable, Energy, Metric
<1>6. r.value = Round(Q(Total(m, r.phase), 1))
  BY <1>3, RowHas
<1>7. Round(Q(Total(m, r.phase), 1)) = Total(m, r.phase)
  <2>1. 1 \in Nat \ {0} /\ Total(m, r.phase) \in Int
    BY <1>4
  <2> QED BY <2>1, RoundingIsMonotone
<1> QED BY <1>1, <1>3, <1>4, <1>5, <1>6, <1>7

(* When the samples of a phase were taken.                                 *)
LEMMA WhenCounted ==
  ASSUME Evaluable, Energy \in DOMAIN series, NEW p \in DOMAIN phases,
         NEW t \in Counted(Energy, p)
  PROVE  /\ t \in Nat \ {0} /\ Since(series[Energy], t) \in Nat
         /\ phases[p].start - MaxGap <= Since(series[Energy], t)
         /\ t <= phases[p].end + MaxGap
<1> DEFINE f == series[Energy]
<1>1. DOMAIN f \subseteq 1 .. MaxTime /\ t \in DOMAIN f /\ Counted(Energy, p) \subseteq DOMAIN f
  BY CountedTypes DEF Evaluable
<1>2. phases[p].start \in Nat /\ phases[p].end \in Nat /\ phases[p].start < phases[p].end
  BY PhaseTakesTime DEF Evaluable
<1>3. Gapless(f) /\ MaxGap \in Nat \ {0} /\ MaxTime \in Nat
  BY MaxGapIsMax, TimeAssumption DEF Evaluable, SamplesOK
<1>4. t \in Nat \ {0}
  BY <1>1, <1>3
<1>5. PICK u \in Nat : u = Since(f, t) /\ u < t /\ t - u <= MaxGap
                       /\ (u \in DOMAIN f \/ (u = 0 /\ \A v \in DOMAIN f : v >= t))
  <2> HIDE DEF f
  <2>1. Since(f, t) \in Nat /\ Since(f, t) < t /\ t - Since(f, t) <= MaxGap
        /\ (Since(f, t) \in DOMAIN f \/ (Since(f, t) = 0 /\ \A v \in DOMAIN f : v >= t))
    BY <1>1, <1>3, <1>4, SinceIsBefore DEF Gapless
  <2> QED BY <2>1
<1>6. phases[p].start < t
  BY <1>2, <1>4 DEF Counted, InPhase, Later
<1>7. t <= phases[p].end + MaxGap
  <2>1. CASE t \in InPhase(Energy, p)
    BY <1>2, <1>3, <1>4, <2>1 DEF InPhase
  <2>2. CASE t \notin InPhase(Energy, p)
    <3>1. InPhase(Energy, p) # {} /\ t \in Later(Energy, p) /\ t = Min(Later(Energy, p))
      BY <2>2 DEF Counted
    <3>2. \A v \in Later(Energy, p) : t <= v
      <4>1. Later(Energy, p) \subseteq 1 .. MaxTime
        BY <1>1 DEF Later
      <4> QED BY <3>1, <4>1, ExtremeTimes
    <3>3. u < phases[p].end
      <4>1. u \notin Later(Energy, p)
        BY <1>4, <1>5, <3>2
      <4>2. CASE u \in DOMAIN f
        BY <1>2, <1>5, <4>1, <4>2 DEF Later
      <4>3. CASE u = 0
        BY <1>2, <4>3
      <4> QED BY <1>5, <4>2, <4>3
    <3> QED BY <1>2, <1>3, <1>4, <1>5, <3>3
  <2> QED BY <2>1, <2>2
<1> HIDE DEF f
<1>8. phases[p].start - MaxGap <= u
  BY <1>2, <1>3, <1>4, <1>5, <1>6
<1> QED BY <1>4, <1>5, <1>7, <1>8 DEF f

-----------------------------------------------------------------------------
(* The first sample after a phase counts for it if the provider keeps its  *)
(* rate: it is taken before the padding is over, and thus before the next  *)
(* phase.                                                                  *)
LEMMA PaddingIsEnough ==
  ASSUME PhasesTyped, PhasesInOrder, SeriesOK, SamplesOK, BordersOK, pc \notin Measuring,
         Energy \in DOMAIN series, Regular, NEW p \in DOMAIN phases \ {Runtime},
         InPhase(Energy, p) # {}, Later(Energy, p) # {}
  PROVE  \E z \in DOMAIN series[Energy] :
           /\ phases[p].end <= z
           /\ Counted(Energy, p) = {t \in DOMAIN series[Energy] : phases[p].start < t /\ t <= z}
<1>1. PICK z : z = Min(Later(Energy, p))
  OBVIOUS
<1>2. DOMAIN series[Energy] \subseteq 1 .. MaxTime /\ MaxTime \in Nat /\ Padding \in Nat
  BY CountedTypes, TimeAssumption
<1>3. z \in Later(Energy, p) /\ z \in Nat /\ \A v \in Later(Energy, p) : z <= v
  <2>1. Later(Energy, p) \subseteq 1 .. MaxTime
    BY <1>2 DEF Later
  <2> QED BY <1>1, <2>1, ExtremeTimes
<1>4. PICK a \in Nat, b \in Nat : a = phases[p].start /\ b = phases[p].end /\ a < b
  BY PhaseTakesTime
<1>5. \A v \in DOMAIN series[Energy] : v \in Nat /\ v <= MaxTime /\ (v < z => v < b)
  <2>1. \A v \in DOMAIN series[Energy] : v \in Nat /\ v <= MaxTime
    BY <1>2
  <2>2. ASSUME NEW v \in DOMAIN series[Energy], v < z, ~ v < b PROVE FALSE
    <3>1. v \in Later(Energy, p)
      BY <1>4, <2>1, <2>2 DEF Later
    <3> QED BY <1>3, <2>1, <2>2, <3>1
  <2> QED BY <2>1, <2>2
<1>6. z \in DOMAIN series[Energy] /\ b <= z /\ z <= MaxTime
  BY <1>3, <1>4, <1>5 DEF Later
<1>7. z < b + Padding
  <2>1. CASE z <= Padding
    BY <1>2, <1>3, <1>4, <2>1
  <2>2. CASE DOMAIN series[Energy] \cap (z - Padding .. z - 1) # {}
    <3>1. PICK w \in DOMAIN series[Energy] : w \in z - Padding .. z - 1
      BY <2>2
    <3>2. w \in Nat /\ z <= w + Padding /\ w < z
      BY <1>2, <1>3, <1>5, <3>1
    <3>3. w < b
      BY <1>5, <3>1, <3>2
    <3> QED BY <1>2, <1>3, <1>4, <3>2, <3>3
  <2> QED BY <1>6, <2>1, <2>2 DEF Regular
<1>8. z < NextStart(p)
  <2>1. CASE p < Len(phases)
    <3>1. p + 1 \in DOMAIN phases /\ p < p + 1
      BY <2>1 DEF PhasesTyped
    <3>2. b + Padding <= phases[p + 1].start
      BY <1>4, <3>1 DEF BordersOK
    <3>3. phases[p + 1].start \in Nat
      BY <3>1, PhaseTakesTime
    <3>4. NextStart(p) = phases[p + 1].start
      BY <2>1 DEF NextStart
    <3> QED BY <1>2, <1>3, <1>4, <1>7, <3>2, <3>3, <3>4
  <2>2. CASE ~ p < Len(phases)
    <3>1. NextStart(p) = MaxTime + 1
      BY <2>2 DEF NextStart
    <3> QED BY <1>2, <1>3, <1>6, <3>1
  <2> QED BY <2>1, <2>2
<1>9. Counted(Energy, p) = InPhase(Energy, p) \cup {z}
  BY <1>1, <1>3, <1>8 DEF Counted
<1>10. InPhase(Energy, p) = {t \in DOMAIN series[Energy] : a < t /\ t < b}
  BY <1>4 DEF InPhase
<1>11. \A t \in DOMAIN series[Energy] : a < t /\ t <= z <=> (a < t /\ t < b) \/ t = z
  <2> TAKE t \in DOMAIN series[Energy]
  <2>1. t \in Nat /\ (t < z => t < b)
    BY <1>5
  <2> QED BY <1>3, <1>4, <1>6, <2>1
<1>12. Counted(Energy, p) = {t \in DOMAIN series[Energy] : a < t /\ t <= z}
  BY <1>6, <1>9, <1>10, <1>11
<1> QED BY <1>4, <1>6, <1>12

-----------------------------------------------------------------------------
(* What a phase is given it used, but for a gap on either side, and of     *)
(* what it used it is given everything if the provider kept its rate.      *)
LEMMA EnergyIsUsed == ASSUME Strong PROVE EnergyIsOfThePhase
<1> SUFFICES ASSUME NEW r \in EnergyRows
             PROVE  /\ r.value <= Used(phases[r.phase].start - MaxGap, phases[r.phase].end + MaxGap)
                    /\ Regular /\ (\E t \in DOMAIN series[Energy] : t >= phases[r.phase].end)
                         => r.value >= Used(phases[r.phase].start, phases[r.phase].end)
  BY DEF EnergyIsOfThePhase
<1>1. r \in stats /\ r.phase # Runtime /\ r.kind = "energy"
  BY DEF EnergyRows
<1>2. Evaluable /\ world \in Worlds
  BY <1>1, StoredIsMade DEF Evaluable, SeriesOK
<1>3. PICK p : p = r.phase
  OBVIOUS
<1>4. /\ r.value = Total(Energy, p) /\ Total(Energy, p) \in Nat /\ Energy \in DOMAIN series
      /\ Counted(Energy, p) # {} /\ p \in DOMAIN phases \ {Runtime}
  BY <1>1, <1>3, EnergyRowIs
<1>5. PICK f, S : f = series[Energy] /\ S = Counted(Energy, p)
  OBVIOUS
<1>6. /\ DOMAIN f \subseteq 1 .. MaxTime /\ S \subseteq DOMAIN f /\ Gapless(f)
      /\ \A t \in DOMAIN f : f[t] \in Nat
  BY <1>2, <1>4, <1>5, CountedTypes DEF Evaluable, SamplesOK
<1>7. PICK a \in Nat, b \in Nat : a = phases[p].start /\ b = phases[p].end /\ a < b
  BY <1>2, <1>4, PhaseTakesTime DEF Evaluable
<1>8. r.value = Sum(f, S)
  BY <1>4, <1>5 DEF Total
<1>9. r.value <= Used(a - MaxGap, b + MaxGap)
  <2>1. PICK from \in Int, to \in Int : from = a - MaxGap /\ to = b + MaxGap
    BY <1>7, MaxGapIsMax
  <2>2. \A t \in S : from <= Since(f, t) /\ t <= to
    BY <1>2, <1>4, <1>5, <1>7, <2>1, WhenCounted
  <2>3. Sum(f, S) <= Used(from, to)
    BY <1>2, <1>6, <2>2, SamplesAddUpTo
  <2> QED BY <1>8, <2>1, <2>3
<1>10. ASSUME Regular, NEW e \in DOMAIN series[Energy], e >= phases[p].end
       PROVE  Used(a, b) <= r.value
  <2>1. InPhase(Energy, p) # {} /\ Later(Energy, p) # {}
    BY <1>4, <1>10 DEF Counted, Later
  <2>2. PICK z \in DOMAIN f : b <= z /\ S = {t \in DOMAIN f : a < t /\ t <= z}
    <3>1. BordersOK
      BY DEF Strong
    <3> QED BY <1>2, <1>4, <1>5, <1>7, <1>10, <2>1, <3>1, PaddingIsEnough DEF Evaluable
  <2>3. z \in Nat /\ a < z
    <3>1. z \in Nat
      BY <1>6, <2>2
    <3> QED BY <1>7, <2>2, <3>1
  <2>4. Used(a, z) <= Sum(f, S)
    BY <1>2, <1>6, <1>7, <2>2, <2>3, SamplesCover
  <2>5. Used(a, b) <= Used(a, z)
    <3>1. a \in Int /\ b \in Int /\ z \in Int /\ a <= a
      BY <1>7, <2>3
    <3> QED BY <1>2, <2>2, <3>1, UsedGrows
  <2>6. Used(a, b) \in Int /\ Used(a, z) \in Int /\ Sum(f, S) \in Int
    <3>1. a \in Int /\ b \in Int /\ z \in Int /\ a <= a /\ b <= b /\ z <= z
      BY <1>7, <2>3
    <3>2. Used(a, b) \in Nat
      BY <1>2, <3>1, UsedGrows
    <3>3. Used(a, z) \in Nat
      BY <1>2, <3>1, UsedGrows
    <3> QED BY <1>4, <1>8, <3>2, <3>3
  <2> QED BY <1>8, <2>4, <2>5, <2>6
<1>11. Used(a, b) \in Int /\ r.value \in Int
  <2>1. a \in Int /\ b \in Int /\ a <= a /\ b <= b
    BY <1>7
  <2> QED BY <1>2, <1>4, <2>1, UsedGrows
<1> QED BY <1>3, <1>7, <1>9, <1>10, <1>11

-----------------------------------------------------------------------------
(* A row of [RUNTIME] is made of the rows of a metric in the visible flows.*)
LEMMA RuntimeIsMade ==
  ASSUME Strong, NEW r \in stats, r.phase = Runtime
  PROVE  /\ pc \in {"update", "done"} /\ SubPhases # {} /\ Evaluable
         /\ \E s \in SubPhases : r = RuntimeRow(s)
<1>1. r \in RowsOf(stats, Runtime) /\ Evaluable
  BY StoredIsEvaluable DEF RowsOf
<1>2. pc \in {"update", "done"} /\ r \in {RuntimeRow(s) : s \in SubPhases}
  BY <1>1 DEF Strong, RowsOK
<1> QED BY <1>1, <1>2

(* Visible flows are within [RUNTIME].                                     *)
LEMMA FlowsAreInside ==
  ASSUME Strong, Evaluable, Runtime \in DOMAIN phases, NEW p \in Visible
  PROVE  /\ p \in DOMAIN phases \ {Runtime} /\ Runtime < p /\ Runtime \in Nat
         /\ phases[Runtime].start <= phases[p].start /\ phases[p].end <= phases[Runtime].end
         /\ \A q \in Visible : q < p => phases[q].end <= phases[p].start
<1>1. Runtime \in Nat /\ p \in DOMAIN phases /\ Flow(p)
  BY NumbersOfPhases, PlanIsSeq DEF Visible, Evaluable, SeriesOK
<1>2. Runtime < p
  BY <1>1, PlanIsSeq DEF Flow, Evaluable, SeriesOK
<1>3. Closed(Runtime)
  BY DEF Evaluable, PhasesInOrder
<1>4. phases[p].end <= phases[Runtime].end
  BY <1>1, <1>3 DEF Strong, BordersOK
<1>5. phases[Runtime].start <= phases[p].start
  BY <1>1, <1>2 DEF Evaluable, PhasesInOrder
<1>6. ASSUME NEW q \in Visible, q < p PROVE phases[q].end <= phases[p].start
  <2>1. q \in DOMAIN phases /\ Flow(q)
    BY DEF Visible
  <2>2. q # Runtime
    BY <1>1, <2>1, PlanIsSeq DEF Flow, Evaluable, SeriesOK
  <2> QED BY <1>1, <1>6, <2>1, <2>2 DEF Evaluable, PhasesInOrder
<1> QED BY <1>1, <1>2, <1>4, <1>5, <1>6

(* Together they are no longer than [RUNTIME].                             *)
LEMMA FlowsFit ==
  ASSUME Strong, Evaluable, Runtime \in DOMAIN phases
  PROVE  Sum([p \in Visible |-> Duration(p)], Visible) <= phases[Runtime].end - phases[Runtime].start
<1> DEFINE g == [p \in Visible |-> Duration(p)]
<1>1. PICK s \in Nat, e \in Nat : s = phases[Runtime].start /\ e = phases[Runtime].end /\ s < e
  BY PhaseTakesTime DEF Evaluable
<1> DEFINE Good == {T \in SUBSET Visible :
                      \A c \in Nat : s <= c /\ (\A p \in T : phases[p].end <= c)
                                      => Sum(g, T) <= c - s}
<1>2. PICK n \in Nat : n = Len(phases) /\ DOMAIN phases = 1 .. n
  BY DEF Evaluable, PhasesTyped
<1>3. Visible \subseteq 0 .. n /\ IsFiniteSet(Visible)
  <2>1. Visible \subseteq 0 .. n
    BY <1>2 DEF Visible
  <2>2. IsFiniteSet(0 .. n)
    BY <1>2, FS_Interval
  <2> QED BY <2>1, <2>2, FS_Subset
<1>4. \A p \in Visible : g[p] \in Nat
  BY PhaseTakesTime DEF Evaluable, Visible
<1>5. {} \in Good
  <2>1. Sum(g, {}) = 0
    BY FS_EmptySet, SumUnfolds
  <2> HIDE DEF g
  <2> QED BY <1>1, <2>1
<1>6. ASSUME NEW T \in SUBSET Visible, T # {}, \A x \in T : T \ {x} \in Good PROVE T \in Good
  <2> SUFFICES ASSUME NEW c \in Nat, s <= c, \A p \in T : phases[p].end <= c
               PROVE  Sum(g, T) <= c - s
    OBVIOUS
  <2>1. PICK x \in T : \A y \in T : x >= y
    <3>1. T \subseteq 0 .. n
      BY <1>3
    <3> QED BY <1>2, <1>6, <3>1, GreatestOfNat
  <2>2. x \in Visible /\ x \in Nat /\ x \in DOMAIN phases
    BY <1>3 DEF Visible
  <2>3. PICK a \in Nat, b \in Nat : a = phases[x].start /\ b = phases[x].end /\ g[x] = b - a
    BY <2>2, PhaseTakesTime DEF Evaluable, Duration
  <2>4. s <= a /\ b <= c
    <3>1. b <= c
      BY <2>1, <2>3
    <3>2. phases[Runtime].start <= phases[x].start
      BY <2>2, FlowsAreInside
    <3> QED BY <1>1, <2>3, <3>1, <3>2
  <2>5. \A q \in T \ {x} : phases[q].end <= a
    <3> TAKE q \in T \ {x}
    <3>1. q \in Visible /\ q < x
      BY <1>3, <2>1, <2>2
    <3> QED BY <2>2, <2>3, <3>1, FlowsAreInside
  <2>6. Sum(g, T \ {x}) <= a - s
    BY <1>6, <2>3, <2>4, <2>5
  <2>7. Sum(g, T) = g[x] + Sum(g, T \ {x}) /\ Sum(g, T \ {x}) \in Nat
    <3>1. IsFiniteSet(T) /\ IsFiniteSet(T \ {x})
      BY <1>3, FS_Subset
    <3>2. \A y \in T : g[y] \in Nat
      BY <1>4
    <3> HIDE DEF g
    <3>3. \A y \in T : Sum(g, T) = g[y] + Sum(g, T \ {y})
      BY <3>1, <3>2, SumWithout
    <3>4. Sum(g, T \ {x}) \in Nat
      BY <3>1, <3>2, SumIsNat
    <3> QED BY <3>3, <3>4
  <2> HIDE DEF g
  <2> QED BY <1>1, <2>3, <2>4, <2>6, <2>7
<1>7. Visible \in Good
  <2> HIDE DEF Good
  <2> QED BY <1>3, <1>5, <1>6, AllSubsets
<1>8. \A p \in Visible : phases[p].end <= e
  BY <1>1, FlowsAreInside
<1> HIDE DEF g
<1>9. Sum(g, Visible) <= e - s
  BY <1>1, <1>7, <1>8
<1> QED BY <1>1, <1>9 DEF g

-----------------------------------------------------------------------------
(* The energy of [RUNTIME] is that of samples, each counted once.          *)
LEMMA EnergyOfRuntime ==
  ASSUME Strong, NEW r \in stats, r.phase = Runtime, r.kind = "energy"
  PROVE  \E U \in SUBSET DOMAIN series[Energy] :
           /\ Energy \in DOMAIN series /\ r.value = Sum(series[Energy], U)
           /\ \A t \in U : \E p \in Visible : t \in Counted(Energy, p)
<1>1. Evaluable
  BY RuntimeIsMade
<1>2. PICK s \in SubPhases : r = RuntimeRow(s)
  BY RuntimeIsMade
<1>3. PICK rows : rows = {t \in SubPhases : SameMetric(s, t)}
  OBVIOUS
<1>4. ASSUME NEW t \in rows
      PROVE  /\ t \in stats /\ t.phase \in Visible /\ t.phase \in DOMAIN phases \ {Runtime}
             /\ t = TotalRow(t.phase, "energy", "machine", Q(Total(Energy, t.phase), 1))
             /\ t.value = Total(Energy, t.phase) /\ Energy \in DOMAIN series
  <2>1. t \in SubPhases /\ t.kind = "energy"
    BY <1>2, <1>3 DEF SameMetric, RuntimeRow
  <2>2. t \in stats /\ t.phase \in Visible /\ t.phase # Runtime
    BY <2>1, FlowRows
  <2> QED BY <2>1, <2>2, EnergyRowIs
<1>5. s \in rows /\ IsFiniteSet(rows)
  <2>1. IsFiniteSet(stats) /\ rows \subseteq stats
    BY <1>4 DEF Strong, RowsOK
  <2>2. IsFiniteSet(rows)
    BY <2>1, FS_Subset
  <2> QED BY <1>3, <2>2 DEF SameMetric
<1>6. s.type = "TOTAL" /\ Energy \in DOMAIN series
  BY <1>4, <1>5, RowHas
<1>7. r.value = Sum([t \in rows |-> t.value], rows)
  BY <1>2, <1>3, <1>6 DEF RuntimeRow, SumOfValues
<1>8. PICK f, g, C : /\ f = series[Energy] /\ g = [t \in rows |-> t.value]
                     /\ C = [t \in rows |-> Counted(Energy, t.phase)]
  OBVIOUS
<1>9. \A t \in rows : /\ IsFiniteSet(C[t]) /\ g[t] = Sum(f, C[t])
                      /\ C[t] \subseteq DOMAIN f /\ \A x \in C[t] : f[x] \in Nat
  <2> TAKE t \in rows
  <2>1. g[t] = Sum(f, C[t])
    BY <1>4, <1>8 DEF Total
  <2>2. C[t] = Counted(Energy, t.phase)
    BY <1>8
  <2> QED BY <1>1, <1>6, <1>8, <2>1, <2>2, CountedTypes DEF Evaluable
<1>10. \A x, y \in rows : x # y => C[x] \cap C[y] = {}
  <2> SUFFICES ASSUME NEW x \in rows, NEW y \in rows, x # y PROVE C[x] \cap C[y] = {}
    OBVIOUS
  <2>1. PICK p, q : p = x.phase /\ q = y.phase
    OBVIOUS
  <2>2. p \in DOMAIN phases \ {Runtime} /\ q \in DOMAIN phases \ {Runtime} /\ p # q
    BY <1>4, <2>1
  <2>3. Counted(Energy, p) \cap Counted(Energy, q) = {}
    BY <1>1, <1>6, <2>2, CountedApart DEF Evaluable
  <2> QED BY <1>8, <2>1, <2>3
<1>11. PICK U : U = UNION {C[t] : t \in rows}
  OBVIOUS
<1>12. Sum(f, U) = Sum(g, rows)
  BY <1>5, <1>9, <1>10, <1>11, SumOfUnion
<1>13. U \subseteq DOMAIN f
  BY <1>9, <1>11
<1>14. \A t \in U : \E p \in Visible : t \in Counted(Energy, p)
  BY <1>4, <1>8, <1>11
<1> QED BY <1>6, <1>7, <1>8, <1>12, <1>13, <1>14

(* [RUNTIME] is as long as its visible flows and has the energy of no      *)
(* other time than its own.                                                *)
LEMMA RuntimeIsItsFlows == ASSUME Strong PROVE RuntimeIsVisibleFlows
<1> SUFFICES ASSUME NEW r \in stats, r.phase = Runtime
             PROVE  /\ r.kind = "time" =>
                         /\ r.value = Sum([p \in Visible |-> Duration(p)], Visible)
                         /\ r.value <= phases[Runtime].end - phases[Runtime].start
                    /\ r.kind = "energy" =>
                         r.value <= Used(phases[Runtime].start - MaxGap, phases[Runtime].end + MaxGap)
  BY DEF RuntimeIsVisibleFlows, Visible
<1>1. pc \in {"update", "done"} /\ SubPhases # {} /\ Evaluable /\ world \in Worlds
  BY RuntimeIsMade DEF Evaluable, SeriesOK
<1>2. Runtime \in DOMAIN phases
  BY DEF Strong, RowsOK
<1>3. ASSUME r.kind = "time"
      PROVE  /\ r.value = Sum([p \in Visible |-> Duration(p)], Visible)
             /\ r.value <= phases[Runtime].end - phases[Runtime].start
  BY <1>1, <1>2, <1>3, TimeOfRuntime, FlowsFit
<1>4. ASSUME r.kind = "energy"
      PROVE  r.value <= Used(phases[Runtime].start - MaxGap, phases[Runtime].end + MaxGap)
  <2>1. PICK U \in SUBSET DOMAIN series[Energy] :
           /\ Energy \in DOMAIN series /\ r.value = Sum(series[Energy], U)
           /\ \A t \in U : \E p \in Visible : t \in Counted(Energy, p)
    BY <1>4, EnergyOfRuntime
  <2>2. PICK f : f = series[Energy]
    OBVIOUS
  <2>3. DOMAIN f \subseteq 1 .. MaxTime /\ Gapless(f) /\ \A t \in DOMAIN f : f[t] \in Nat
    BY <1>1, <2>1, <2>2, CountedTypes DEF Evaluable, SamplesOK
  <2>4. PICK s \in Nat, e \in Nat : s = phases[Runtime].start /\ e = phases[Runtime].end
    BY <1>1, <1>2, PhaseTakesTime DEF Evaluable
  <2>5. PICK from \in Int, to \in Int : from = s - MaxGap /\ to = e + MaxGap
    BY <2>4, MaxGapIsMax
  <2>6. \A t \in U : from <= Since(f, t) /\ t <= to
    <3> TAKE t \in U
    <3>1. PICK p \in Visible : t \in Counted(Energy, p)
      BY <2>1
    <3>2. p \in DOMAIN phases
      BY DEF Visible
    <3>3. PICK a \in Nat, b \in Nat : a = phases[p].start /\ b = phases[p].end
      BY <1>1, <3>2, PhaseTakesTime DEF Evaluable
    <3>4. s <= a /\ b <= e
      BY <1>1, <1>2, <2>4, <3>3, FlowsAreInside
    <3>5. t \in Nat /\ Since(f, t) \in Nat /\ a - MaxGap <= Since(f, t) /\ t <= b + MaxGap
      BY <1>1, <2>1, <2>2, <3>1, <3>2, <3>3, WhenCounted
    <3> QED BY <2>4, <2>5, <3>3, <3>4, <3>5, MaxGapIsMax
  <2>7. U \subseteq DOMAIN f
    BY <2>2
  <2>8. Sum(f, U) <= Used(from, to)
    BY <1>1, <2>3, <2>5, <2>6, <2>7, SamplesAddUpTo
  <2> QED BY <2>1, <2>2, <2>4, <2>5, <2>8
<1> QED BY <1>3, <1>4

(* [RUNTIME] is as long as its visible flows were together and has the     *)
(* energy of no other time than its own (reconstruct_runtime_phase).       *)
THEOREM RuntimeIsTheFlows == Spec => []RuntimeIsVisibleFlows
<1> QED BY StrongHolds, RuntimeIsItsFlows, PTL

-----------------------------------------------------------------------------
(* What a part that is a fraction of a whole is rounded to.                *)
LEMMA PartIsRounded ==
  ASSUME NEW E \in Nat, NEW n \in Nat, NEW d \in Nat \ {0}, NEW k \in Nat \ {0}, NEW A \in Nat \ {0},
         NEW v, v = Round(Times(Q(E, 1), Times(Q(n, d), Q(k * d, A))))
  PROVE  /\ v \in Nat
         /\ 2 * (A * v) <= 2 * (E * (k * n)) + A
         /\ 2 * (E * (k * n)) <= 2 * (A * v) + A
<1>1. PICK D \in Nat \ {0} : D = d * A
  <2>1. d * A \in Nat \ {0}
    <3>1. \A x, y \in Nat : x * y \in Nat
      OBVIOUS
    <3>2. \A x, y \in Nat \ {0} : x * y # 0
      OBVIOUS
    <3> QED BY <3>1, <3>2
  <2> QED BY <2>1
<1>2. PICK N \in Nat : N = E * (n * (k * d))
  <2>1. \A x, y \in Nat : x * y \in Nat
    OBVIOUS
  <2>2. k * d \in Nat
    BY <2>1
  <2>3. n * (k * d) \in Nat
    BY <2>1, <2>2
  <2> QED BY <2>1, <2>3
<1>3. v = Round(Q(N, D))
  <2>1. 1 * D = D
    BY <1>1
  <2> QED BY <1>1, <1>2, <2>1 DEF Times, Q
<1>4. v \in Nat
  <2>1. Q(N, D) \in Fraction
    BY FractionTypes
  <2> QED BY <1>3, <2>1, RoundTypes
<1>5. 2 * (D * v) <= 2 * N + D /\ 2 * (D * v) >= 2 * N - D
  <2>1. N \in Int
    OBVIOUS
  <2> QED BY <1>3, <2>1, Rounding
<1>6. PICK x \in Nat, y \in Nat : x = A * v /\ y = E * (k * n)
  <2>1. \A i, j \in Nat : i * j \in Nat
    OBVIOUS
  <2>2. k * n \in Nat
    BY <2>1
  <2>3. A * v \in Nat /\ E * (k * n) \in Nat
    BY <1>4, <2>1, <2>2
  <2> QED BY <2>3
<1>7. D * v = d * x /\ N = d * y
  <2>1. \A i, j, l \in Nat : (i * j) * l = i * (j * l)
    OBVIOUS
  <2>2. D * v = d * x
    BY <1>1, <1>4, <1>6, <2>1
  <2>3. \A i, j, l, m \in Nat : i * (j * (l * m)) = m * (i * (l * j))
    OBVIOUS
  <2> QED BY <1>2, <1>6, <2>2, <2>3
<1>8. d * (2 * x) <= d * (2 * y + A) /\ d * (2 * y) <= d * (2 * x + A)
  <2>1. \A i, j \in Nat : i * (2 * j) = 2 * (i * j) /\ i * j \in Nat
    OBVIOUS
  <2>2. \A i, j, l \in Nat : i * (j + l) = i * j + i * l
    OBVIOUS
  <2>3. 2 * x \in Nat /\ 2 * y \in Nat /\ d \in Nat /\ A \in Nat
    BY <1>6
  <2>4. d * (2 * y + A) = d * (2 * y) + d * A /\ d * (2 * x + A) = d * (2 * x) + d * A
    BY <2>2, <2>3
  <2>5. d * (2 * x) = 2 * (d * x) /\ d * (2 * y) = 2 * (d * y) /\ d * x \in Nat /\ d * y \in Nat
    BY <1>6, <2>1, <2>3
  <2> QED BY <1>1, <1>5, <1>7, <2>4, <2>5
<1>9. 2 * x <= 2 * y + A /\ 2 * y <= 2 * x + A
  <2>1. 2 * x \in Nat /\ 2 * y \in Nat /\ 2 * y + A \in Nat /\ 2 * x + A \in Nat
    BY <1>6
  <2> QED BY <1>8, <2>1, FactorsCancel
<1> QED BY <1>4, <1>6, <1>9

-----------------------------------------------------------------------------
(* The slices of a phase are one per container, for what it had of the     *)
(* machine's energy.                                                       *)
LEMMA SlicesAre ==
  ASSUME Strong, NEW p \in DOMAIN phases \ {Runtime}, SlicesOf(p) # {},
         NEW h, h = [m \in In("share", p) |->
                       TotalRow(p, "slice_energy", m.of, Times(Q(Total(Energy, p), 1), Ratio(p, m)))]
  PROVE  /\ Evaluable /\ In("share", p) # {}
         /\ SlicesOf(p) = {h[m] : m \in In("share", p)}
         /\ \A m, n \in In("share", p) : h[m] = h[n] => m = n
<1>1. stats # {}
  BY DEF SlicesOf
<1>2. Evaluable
  BY <1>1, StoredIsEvaluable
<1>3. PICK b \in Fraction : RowsOf(stats, p) = PhaseRows(p, b)
  BY <1>1 DEF Strong, RowsOK, MadeOf
<1>4. SlicesOf(p) = {r \in PhaseRows(p, b) : r.kind = "slice_energy"}
  BY <1>3 DEF SlicesOf, RowsOf
<1>5. ASSUME NEW r \in SlicesOf(p)
      PROVE  r \in SliceRows(p, b) /\ r.kind = "slice_energy" /\ SliceRows(p, b) # {}
  BY <1>4, RowsByKind
<1>6. Sliced(p, b)
  <2>1. SliceRows(p, b) # {}
    BY <1>5
  <2> QED BY <2>1 DEF SliceRows
<1>7. In("share", p) # {}
  BY <1>6 DEF Sliced
<1>8. \A m \in In("share", p) : h[m] \in SliceRows(p, b) /\ h[m].kind = "slice_energy"
  BY <1>6, RowHas DEF SliceRows
<1>9. \A m \in In("share", p) : h[m] \in SlicesOf(p)
  BY <1>4, <1>8 DEF PhaseRows
<1>10. ASSUME NEW r \in SlicesOf(p) PROVE \E m \in In("share", p) : r = h[m]
  <2>1. r \in SliceRows(p, b) /\ r.kind = "slice_energy"
    BY <1>5
  <2>2. PICK m \in In("share", p) :
          r \in {TotalRow(p, "slice_energy", m.of, Times(Q(Total(Energy, p), 1), Ratio(p, m))),
                 MeanRow(p, "slice_power", m.of, Times(Power(p), Ratio(p, m))),
                 TotalRow(p, "surplus_energy", m.of,
                          Times(Minus(Q(Total(Energy, p), 1), Times(b, Q(Duration(p), Scale))),
                                Ratio(p, m))),
                 MeanRow(p, "surplus_power", m.of, Times(Minus(Power(p), b), Ratio(p, m)))}
    BY <1>6, <2>1 DEF SliceRows
  <2>3. r = h[m]
    BY <2>1, <2>2, RowHas
  <2> QED BY <2>3
<1>11. SlicesOf(p) = {h[m] : m \in In("share", p)}
  BY <1>9, <1>10
<1>12. ASSUME NEW m \in In("share", p), NEW n \in In("share", p), h[m] = h[n] PROVE m = n
  <2>1. h[m].of = m.of /\ h[n].of = n.of
    BY RowHas
  <2>2. m \in listed /\ n \in listed /\ m.kind = "share" /\ n.kind = "share"
    BY DEF In
  <2>3. m = Metric("share", m.of) /\ n = Metric("share", n.of)
    BY <1>2, <2>2, MetricTypes DEF Evaluable
  <2> QED BY <1>12, <2>1, <2>3
<1> QED BY <1>2, <1>7, <1>11, <1>12

(* If the containers did next to nothing, so is what they are charged.     *)
LEMMA NothingIsSliced ==
  ASSUME Evaluable, NEW p \in DOMAIN phases, Shares(p).n < Shares(p).d, NEW E \in Nat, NEW m
  PROVE  Round(Times(Q(E, 1), Ratio(p, m))) = 0
<1>1. Ratio(p, m) = Zero
  BY DEF Ratio
<1>2. Times(Q(E, 1), Zero) = Q(0, 1)
  <2>1. E * 0 = 0 /\ 1 * 1 = 1
    OBVIOUS
  <2> QED BY <2>1 DEF Times, Zero, Q
<1>3. Round(Q(0, 1)) = 0
  <2>1. 0 \in Int /\ 1 \in Nat \ {0}
    OBVIOUS
  <2> QED BY <2>1, RoundingIsMonotone
<1> QED BY <1>1, <1>2, <1>3

(* The slices make up the energy of the machine.                           *)
LEMMA SlicesMakeEnergy == ASSUME Strong PROVE SlicesAddUp
<1> SUFFICES ASSUME NEW r \in EnergyRows
             PROVE  \/ \A s \in SlicesOf(r.phase) : s.value = 0
                    \/ 2 * (SumOfValues(SlicesOf(r.phase)) - r.value)
                         \in -Cardinality(SlicesOf(r.phase)) .. Cardinality(SlicesOf(r.phase))
  BY DEF SlicesAddUp
<1>1. PICK p : p = r.phase
  OBVIOUS
<1>2. PICK E \in Nat : E = Total(Energy, p) /\ r.value = E /\ p \in DOMAIN phases \ {Runtime}
  BY <1>1, EnergyRowIs DEF EnergyRows
<1>3. SUFFICES ASSUME SlicesOf(p) # {}
               PROVE  \/ \A s \in SlicesOf(p) : s.value = 0
                      \/ 2 * (SumOfValues(SlicesOf(p)) - E)
                           \in -Cardinality(SlicesOf(p)) .. Cardinality(SlicesOf(p))
  BY <1>1, <1>2
<1>4. PICK S, h : /\ S = In("share", p)
                  /\ h = [m \in S |-> TotalRow(p, "slice_energy", m.of, Times(Q(E, 1), Ratio(p, m)))]
  OBVIOUS
<1>5. /\ Evaluable /\ S # {} /\ SlicesOf(p) = {h[m] : m \in S}
      /\ \A m, n \in S : h[m] = h[n] => m = n
  BY <1>2, <1>3, <1>4, SlicesAre
<1>6. \A m \in S : h[m].value = Round(Times(Q(E, 1), Ratio(p, m)))
  BY <1>4, RowHas
<1>7. CASE Shares(p).n < Shares(p).d
  <2>1. \A m \in S : h[m].value = 0
    BY <1>2, <1>5, <1>6, <1>7, NothingIsSliced
  <2> QED BY <1>5, <2>1
<1>8. CASE ~ Shares(p).n < Shares(p).d
  <2>1. IsFiniteSet(S)
    BY <1>4, <1>5, ListedIsFinite DEF Evaluable
  <2>2. PICK f : f = [m \in S |-> Average(m, p)]
    OBVIOUS
  <2>3. \A m \in S : f[m] \in Fraction /\ f[m] = Average(m, p)
    BY <1>2, <1>4, <1>5, <2>2, InTypes
  <2>4. Shares(p) = SumQ(f, S)
    BY <1>4, <2>2 DEF Shares
  <2>5. PICK k \in [S -> Nat \ {0}] :
          /\ SumQ(f, S).d \in Nat \ {0}
          /\ \A x \in S : SumQ(f, S).d = k[x] * f[x].d
          /\ SumQ(f, S).n = Sum([x \in S |-> k[x] * f[x].n], S)
    <3>1. \A x \in S : f[x].n \in Nat /\ f[x].d \in Nat \ {0}
      BY <2>3 DEF Fraction
    <3> QED BY <2>1, <3>1, SumOfFractions
  <2>6. PICK A \in Nat \ {0}, D \in Nat \ {0} : A = Shares(p).n /\ D = Shares(p).d
    <3>1. Shares(p) \in Fraction
      BY <1>2, <1>4, <1>5, RatioTypes
    <3>2. Shares(p).n \in Nat \ {0} /\ Shares(p).d \in Nat \ {0}
      BY <1>8, <3>1 DEF Fraction
    <3> QED BY <3>2
  <2>7. PICK v, w : v = [m \in S |-> h[m].value] /\ w = [x \in S |-> k[x] * f[x].n]
    OBVIOUS
  <2>8. Sum(w, S) = A
    BY <2>4, <2>5, <2>6, <2>7
  <2>9. ASSUME NEW x \in S
        PROVE  /\ v[x] \in Nat /\ w[x] \in Nat
               /\ 2 * (A * v[x]) <= 2 * (E * w[x]) + A
               /\ 2 * (E * w[x]) <= 2 * (A * v[x]) + A
    <3>1. PICK n \in Nat, d \in Nat \ {0}, j \in Nat \ {0} : f[x] = Q(n, d) /\ j = k[x]
      BY <2>3 DEF Fraction, Q
    <3>2. D = j * d /\ w[x] = j * n
      BY <2>4, <2>5, <2>6, <2>7, <3>1 DEF Q
    <3>3. Ratio(p, x) = Times(Q(n, d), Q(j * d, A))
      BY <1>8, <2>3, <2>6, <3>1, <3>2 DEF Ratio
    <3>4. v[x] = Round(Times(Q(E, 1), Times(Q(n, d), Q(j * d, A))))
      BY <1>6, <2>7, <3>3
    <3>5. j * n \in Nat
      OBVIOUS
    <3>6. /\ v[x] \in Nat
          /\ 2 * (A * v[x]) <= 2 * (E * (j * n)) + A
          /\ 2 * (E * (j * n)) <= 2 * (A * v[x]) + A
      BY <3>4, PartIsRounded
    <3> QED BY <3>2, <3>5, <3>6
  <2>10. /\ Sum(v, S) \in Nat /\ Cardinality(S) \in Nat
         /\ 2 * Sum(v, S) <= 2 * E + Cardinality(S)
         /\ 2 * E <= 2 * Sum(v, S) + Cardinality(S)
    BY <2>1, <2>8, <2>9, PartsAddUp
  <2>11. /\ SumOfValues(SlicesOf(p)) = Sum(v, S)
         /\ Cardinality(SlicesOf(p)) = Cardinality(S)
    <3>1. PICK rows, values : rows = SlicesOf(p) /\ values = [s \in rows |-> s.value]
      OBVIOUS
    <3>2. rows = {h[m] : m \in S}
      BY <1>5, <3>1
    <3>3. \A m \in S : v[m] \in Nat /\ values[h[m]] = v[m]
      BY <2>7, <2>9, <3>1, <3>2
    <3>4. Cardinality({h[m] : m \in S}) = Cardinality(S) /\ Sum(values, {h[m] : m \in S}) = Sum(v, S)
      BY <1>5, <2>1, <3>3, SumOfImage
    <3> QED BY <3>1, <3>2, <3>4 DEF SumOfValues
  <2>12. PICK V \in Nat, c \in Nat : V = Sum(v, S) /\ c = Cardinality(S)
    BY <2>10
  <2>13. 2 * (V - E) \in -c .. c
    BY <2>10, <2>12
  <2> QED BY <2>11, <2>12, <2>13
<1> QED BY <1>7, <1>8

(* A phase has the energy that was used in it, but for a gap on either     *)
(* side, and all of it if the padding served its purpose; the slices of    *)
(* its containers make it up (_end_phase, build_and_store_phase_stats).    *)
THEOREM EnergyIsKept == Spec => []EnergyAddsUp
<1>1. Strong => EnergyAddsUp
  BY EnergyIsUsed, SlicesMakeEnergy DEF EnergyAddsUp
<1> QED BY <1>1, StrongHolds, PTL

-----------------------------------------------------------------------------
(* A row of carbon is the sum of what the energy of each sample was        *)
(* charged.                                                                *)
LEMMA CarbonRowIs ==
  ASSUME Strong, NEW r \in stats, r.phase # Runtime, r.kind = "carbon"
  PROVE  /\ Evaluable /\ r.phase \in DOMAIN phases \ {Runtime}
         /\ {Energy, Metric("intensity", r.of)} \subseteq DOMAIN series
         /\ DOMAIN series[Metric("intensity", r.of)] # {}
         /\ Counted(Energy, r.phase) # {}
         /\ r.value = Sum(CarbonSeries(r.of), Counted(Energy, r.phase))
<1>1. r.phase \in DOMAIN phases \ {Runtime} /\ Evaluable /\ pc \notin Early
  BY StoredIsMade, StoredIsEvaluable
<1>2. PICK b \in Fraction : r \in PhaseRows(r.phase, b)
  BY StoredIsMade
<1>3. PICK m \in In("carbon", r.phase) :
        r = TotalRow(r.phase, m.kind, m.of, Q(Total(m, r.phase), 1))
  BY <1>2, RowsByKind
<1>4. /\ m \in DOMAIN series /\ m.kind = "carbon" /\ m.of = r.of
      /\ Counted(m, r.phase) # {} /\ Total(m, r.phase) \in Nat
  BY <1>1, <1>3, InTypes, RowHas
<1>5. /\ {Energy, Metric("intensity", r.of)} \subseteq DOMAIN series
      /\ series[m] = CarbonSeries(r.of)
      /\ DOMAIN series[Metric("intensity", r.of)] # {}
  BY <1>1, <1>4 DEF Evaluable, SamplesOK
<1>6. DOMAIN series[m] = DOMAIN series[Energy]
  BY <1>5 DEF CarbonSeries
<1>7. Counted(m, r.phase) = Counted(Energy, r.phase)
  BY <1>6 DEF Counted, InPhase, Later
<1>8. r.value = Round(Q(Total(m, r.phase), 1))
  BY <1>3, RowHas
<1>9. Round(Q(Total(m, r.phase), 1)) = Total(m, r.phase)
  <2>1. 1 \in Nat \ {0} /\ Total(m, r.phase) \in Int
    BY <1>4
  <2> QED BY <2>1, RoundingIsMonotone
<1> QED BY <1>1, <1>4, <1>5, <1>7, <1>8, <1>9 DEF Total

(* The readings that hold in a time: none that is later, unless there is   *)
(* none before, and none that was replaced before.                         *)
Held(R, S) ==
  {R[u] : u \in {v \in DOMAIN R :
     /\ v <= Max(S) \/ v = Min(DOMAIN R)
     /\ ~\E w \in DOMAIN R : v < w /\ w <= Min(S)}}

(* What a sample is charged with is one of those.                          *)
LEMMA ReadingIsHeld ==
  ASSUME NEW R, DOMAIN R \subseteq 1 .. MaxTime, DOMAIN R # {},
         NEW S, S \subseteq 1 .. MaxTime, NEW t \in S
  PROVE  ReadingAt(R, t) \in Held(R, S)
<1>1. t \in Nat /\ Min(S) \in Nat /\ Max(S) \in Nat /\ Min(S) <= t /\ t <= Max(S)
  BY ExtremeTimes
<1>2. \A w \in DOMAIN R : w \in Nat
  BY TimeAssumption
<1>3. PICK u \in DOMAIN R : /\ ReadingAt(R, t) = R[u]
                            /\ u <= t \/ u = Min(DOMAIN R)
                            /\ ~ \E w \in DOMAIN R : u < w /\ w <= t
  BY <1>1, ReadingIsRead
<1>4. u <= Max(S) \/ u = Min(DOMAIN R)
  BY <1>1, <1>2, <1>3
<1>5. ~ \E w \in DOMAIN R : u < w /\ w <= Min(S)
  BY <1>1, <1>2, <1>3
<1> QED BY <1>3, <1>4, <1>5 DEF Held

(* They are between the lowest and the highest of them.                    *)
LEMMA HeldIsBetween ==
  ASSUME NEW R, IsFiniteSet(DOMAIN R), \A u \in DOMAIN R : R[u] \in Nat, NEW S, Held(R, S) # {}
  PROVE  /\ Min(Held(R, S)) \in Nat /\ Max(Held(R, S)) \in Nat
         /\ \A x \in Held(R, S) : x \in Nat /\ Min(Held(R, S)) <= x /\ x <= Max(Held(R, S))
<1>1. PICK n \in Nat : \A u \in DOMAIN R : R[u] <= n
  <2>1. Sum(R, DOMAIN R) \in Nat /\ \A u \in DOMAIN R : R[u] <= Sum(R, DOMAIN R)
    BY SumOfLess, SumIsNat
  <2> QED BY <2>1
<1>2. PICK H : H = Held(R, S)
  OBVIOUS
<1>3. H \subseteq 0 .. n /\ H \subseteq Nat /\ H # {}
  BY <1>1, <1>2 DEF Held
<1>4. Min(H) \in H /\ Max(H) \in H /\ \A x \in H : Min(H) <= x /\ x <= Max(H)
  BY <1>3, Extremes
<1> QED BY <1>2, <1>3, <1>4

-----------------------------------------------------------------------------
(* Carbon follows the energy.                                              *)
LEMMA CarbonIsOfEnergy == ASSUME Strong PROVE CarbonFollowsEnergy
<1> SUFFICES ASSUME NEW r \in stats, r.kind = "carbon", r.phase # Runtime
             PROVE  LET readings == series[Metric("intensity", r.of)]
                        S == Counted(Energy, r.phase)
                        held == {readings[u] : u \in {v \in DOMAIN readings :
                                   /\ v <= Max(S) \/ v = Min(DOMAIN readings)
                                   /\ ~\E w \in DOMAIN readings : v < w /\ w <= Min(S)}}
                        energy == Total(Energy, r.phase)
                        scaled == 2 * CarbonScale * r.value
                        slack == CarbonScale * Cardinality(S)
                    IN /\ scaled <= 2 * energy * Max(held) + slack
                       /\ scaled >= 2 * energy * Min(held) - slack
  BY DEF CarbonFollowsEnergy
<1>1. PICK p, R, f, S, c, i :
        /\ i = r.of /\ p = r.phase /\ R = series[Metric("intensity", i)] /\ f = series[Energy]
        /\ S = Counted(Energy, p) /\ c = CarbonSeries(i)
  OBVIOUS
<1>2. /\ Evaluable /\ p \in DOMAIN phases \ {Runtime} /\ S # {} /\ DOMAIN R # {}
      /\ Energy \in DOMAIN series /\ Metric("intensity", i) \in DOMAIN series
      /\ r.value = Sum(c, S)
  BY <1>1, CarbonRowIs
<1>3. /\ S \subseteq DOMAIN f /\ S \subseteq 1 .. MaxTime /\ IsFiniteSet(S)
      /\ \A t \in DOMAIN f : f[t] \in Nat
  BY <1>1, <1>2, CountedTypes DEF Evaluable
<1>4. /\ DOMAIN R \subseteq 1 .. MaxTime /\ IsFiniteSet(DOMAIN R)
      /\ \A t \in DOMAIN R : R[t] \in Nat
  BY <1>1, <1>2, CountedTypes DEF Evaluable
<1>5. \A t \in S : c[t] = Round(Q(f[t] * ReadingAt(R, t), CarbonScale))
  BY <1>1, <1>3 DEF CarbonSeries
<1>6. \A t \in S : ReadingAt(R, t) \in Held(R, S)
  BY <1>2, <1>3, <1>4, ReadingIsHeld
<1>7. PICK lo \in Nat, hi \in Nat :
        /\ lo = Min(Held(R, S)) /\ hi = Max(Held(R, S))
        /\ \A x \in Held(R, S) : x \in Nat /\ lo <= x /\ x <= hi
  <2>1. Held(R, S) # {}
    BY <1>2, <1>6
  <2> QED BY <1>4, <2>1, HeldIsBetween
<1>8. PICK K \in Nat \ {0} : K = CarbonScale
  BY ScaleAssumption
<1>9. ASSUME NEW t \in S
      PROVE  /\ c[t] \in Nat /\ f[t] \in Nat
             /\ 2 * (K * c[t]) <= 2 * (hi * f[t]) + K
             /\ 2 * (lo * f[t]) <= 2 * (K * c[t]) + K
  <2>1. PICK x \in Nat : x = ReadingAt(R, t) /\ lo <= x /\ x <= hi
    BY <1>6, <1>7
  <2>2. PICK e \in Nat : e = f[t]
    BY <1>3
  <2>3. PICK n \in Nat : n = e * x
    <3>1. \A a, b \in Nat : a * b \in Nat
      OBVIOUS
    <3> QED BY <3>1
  <2>4. c[t] = Round(Q(n, K))
    BY <1>5, <1>8, <2>1, <2>2, <2>3
  <2>5. c[t] \in Nat
    <3>1. Q(n, K) \in Fraction
      BY FractionTypes
    <3> QED BY <2>4, <3>1, RoundTypes
  <2>6. 2 * (K * c[t]) <= 2 * n + K /\ 2 * (K * c[t]) >= 2 * n - K
    <3>1. n \in Int
      OBVIOUS
    <3> QED BY <2>4, <3>1, Rounding
  <2>7. lo * e <= n /\ n <= hi * e
    <3>1. \A a, b, d \in Nat : a <= b => a * d <= b * d
      OBVIOUS
    <3>2. \A a, b \in Nat : a * b = b * a
      OBVIOUS
    <3>3. n = x * e
      BY <2>3, <3>2
    <3> QED BY <2>1, <3>1, <3>3
  <2>8. lo * e \in Nat /\ hi * e \in Nat /\ K * c[t] \in Nat
    <3>1. \A a, b \in Nat : a * b \in Nat
      OBVIOUS
    <3> QED BY <2>5, <3>1
  <2> QED BY <2>2, <2>5, <2>6, <2>7, <2>8
<1>10. /\ Sum(c, S) \in Nat /\ Sum(f, S) \in Nat /\ Cardinality(S) \in Nat
       /\ 2 * (K * Sum(c, S)) <= 2 * (hi * Sum(f, S)) + K * Cardinality(S)
       /\ 2 * (lo * Sum(f, S)) <= 2 * (K * Sum(c, S)) + K * Cardinality(S)
  <2>1. K \in Nat
    OBVIOUS
  <2> QED BY <1>3, <1>9, <2>1, RoundedAddUp
<1>11. PICK C \in Nat, E \in Nat, n \in Nat : C = Sum(c, S) /\ E = Sum(f, S) /\ n = Cardinality(S)
  BY <1>10
<1>12. 2 * K * C <= 2 * E * hi + K * n /\ 2 * K * C >= 2 * E * lo - K * n
  <2>1. \A a, b \in Nat : 2 * a * b = 2 * (a * b) /\ a * b = b * a /\ a * b \in Nat
    OBVIOUS
  <2>2. 2 * K * C = 2 * (K * C) /\ K * C \in Nat /\ K * n \in Nat
    BY <2>1
  <2>3. 2 * E * hi = 2 * (hi * E) /\ hi * E \in Nat
    BY <2>1
  <2>4. 2 * E * lo = 2 * (lo * E) /\ lo * E \in Nat
    BY <2>1
  <2> QED BY <1>10, <1>11, <2>2, <2>3, <2>4
<1>13. Total(Energy, r.phase) = E /\ r.value = C
  BY <1>1, <1>2, <1>11 DEF Total
<1> QED BY <1>1, <1>7, <1>8, <1>11, <1>12, <1>13 DEF Held

-----------------------------------------------------------------------------
(* There is at most one intensity that is chosen.                          *)
LEMMA OneIsChosen == \A i, j \in Chosen : i = j
BY DEF Chosen

(* The SCI charges the energy once.                                        *)
LEMMA SciIsOnce == ASSUME Strong PROVE SciChargesOnce
<1> SUFFICES ASSUME NEW r \in stats, r.kind = "sci", r.phase # Runtime
             PROVE  \E c \in stats, e \in stats, u \in stats :
                      /\ {c.phase, e.phase, u.phase} = {r.phase}
                      /\ c.kind = "carbon" /\ e.kind = "embodied" /\ u.kind = "custom" /\ u.of = r.of
                      /\ 2 * r.value * u.value <= 2 * (c.value + e.value) + u.value
  BY DEF SciChargesOnce
<1>1. PICK p : p = r.phase /\ p \in DOMAIN phases \ {Runtime} /\ Evaluable
  BY StoredIsMade
<1>2. PICK b \in Fraction : r \in PhaseRows(p, b) /\ RowsOf(stats, p) = PhaseRows(p, b)
  BY <1>1, StoredIsMade
<1>3. r \in SciRows(p)
  BY <1>2, RowsByKind
<1>4. PICK carbon, machine :
        /\ carbon = {m \in In("carbon", p) : m.of \in Chosen}
        /\ machine = Q(Sum([m \in carbon |-> Total(m, p)], carbon), 1)
  OBVIOUS
<1>5. /\ {"embodied", "metrics"} \subseteq world.sci /\ carbon # {}
      /\ \E n \in In("custom", p) :
           /\ Total(n, p) # 0
           /\ r = TotalRow(p, "sci", n.of, Times(Plus(machine, Embodied(p)), Q(1, Total(n, p))))
  BY <1>3, <1>4 DEF SciRows
<1>6. PICK n \in In("custom", p) :
        /\ Total(n, p) # 0
        /\ r = TotalRow(p, "sci", n.of, Times(Plus(machine, Embodied(p)), Q(1, Total(n, p))))
  BY <1>5
<1>7. PICK m \in carbon : TRUE
  BY <1>5
<1>8. m \in In("carbon", p) /\ m.kind = "carbon" /\ n.kind = "custom"
  BY <1>4, <1>7 DEF In
<1>9. carbon = {m}
  <2> SUFFICES ASSUME NEW x \in carbon PROVE x = m
    BY <1>7
  <2>1. x \in listed /\ m \in listed /\ x.kind = "carbon" /\ x.of = m.of
    BY <1>4, <1>7, OneIsChosen DEF In
  <2>2. x = Metric("carbon", x.of) /\ m = Metric("carbon", m.of)
    BY <1>1, <1>8, <2>1, MetricTypes DEF Evaluable
  <2> QED BY <2>1, <2>2
<1>10. PICK C \in Nat, T \in Nat \ {0}, D \in Nat \ {0} :
         C = Total(m, p) /\ T = Total(n, p) /\ D = Duration(p)
  <2>1. Total(m, p) \in Nat /\ Total(n, p) \in Nat
    BY <1>1, <1>6, <1>8, InTypes
  <2>2. Duration(p) \in Nat \ {0}
    BY <1>1, PhaseTakesTime DEF Evaluable
  <2> QED BY <1>6, <2>1, <2>2
<1>11. machine = Q(C, 1)
  <2>1. PICK g : g = [x \in carbon |-> Total(x, p)]
    OBVIOUS
  <2>2. g[m] = C
    BY <1>7, <1>10, <2>1
  <2>3. Sum(g, {m}) = C
    BY <2>2, SumOfOne
  <2> QED BY <1>4, <1>9, <2>1, <2>3
<1>12. PICK c, e, u : /\ c = TotalRow(p, "carbon", m.of, Q(C, 1))
                      /\ e = TotalRow(p, "embodied", "machine", Q(D, 1))
                      /\ u = TotalRow(p, "custom", n.of, Q(T, 1))
  OBVIOUS
<1>13. c \in stats /\ e \in stats /\ u \in stats
  <2>1. c \in PhaseRows(p, b)
    <3>1. m \in UNION {In(k, p) : k \in {"bytes", "energy", "carbon", "custom"}}
      BY <1>8
    <3>2. c = TotalRow(p, m.kind, m.of, Q(Total(m, p), 1))
      BY <1>8, <1>10, <1>12
    <3> QED BY <3>1, <3>2 DEF PhaseRows, MetricRows
  <2>2. u \in PhaseRows(p, b)
    <3>1. n \in UNION {In(k, p) : k \in {"bytes", "energy", "carbon", "custom"}}
      OBVIOUS
    <3>2. u = TotalRow(p, n.kind, n.of, Q(Total(n, p), 1))
      BY <1>8, <1>10, <1>12
    <3> QED BY <3>1, <3>2 DEF PhaseRows, MetricRows
  <2>3. e \in PhaseRows(p, b)
    BY <1>5, <1>10, <1>12 DEF PhaseRows, EmbodiedRows, Embodied
  <2> QED BY <1>2, <2>1, <2>2, <2>3 DEF RowsOf
<1>14. /\ {c.phase, e.phase, u.phase} = {p} /\ c.kind = "carbon" /\ e.kind = "embodied"
       /\ u.kind = "custom" /\ u.of = n.of /\ r.of = n.of
       /\ c.value = Round(Q(C, 1)) /\ e.value = Round(Q(D, 1)) /\ u.value = Round(Q(T, 1))
       /\ r.value = Round(Times(Plus(machine, Embodied(p)), Q(1, T)))
  BY <1>6, <1>10, <1>12, RowHas
<1>15. c.value = C /\ e.value = D /\ u.value = T
  <2>1. \A k \in Int : Round(Q(k, 1)) = k
    <3>1. 1 \in Nat \ {0}
      OBVIOUS
    <3> QED BY <3>1, RoundingIsMonotone
  <2> QED BY <1>14, <2>1
<1>16. r.value = Round(Q(C + D, T))
  <2>1. Plus(machine, Embodied(p)) = Q(C + D, 1)
    BY <1>10, <1>11 DEF Plus, Embodied, Q
  <2>2. (C + D) * 1 = C + D /\ 1 * T = T
    OBVIOUS
  <2>3. Times(Q(C + D, 1), Q(1, T)) = Q(C + D, T)
    BY <2>2 DEF Times, Q
  <2> QED BY <1>14, <2>1, <2>3
<1>17. 2 * r.value * T <= 2 * (C + D) + T
  <2>1. C + D \in Int
    OBVIOUS
  <2>2. r.value \in Int /\ 2 * (T * r.value) <= 2 * (C + D) + T
    BY <1>16, <2>1, Rounding
  <2>3. \A x, y \in Int : 2 * x * y = 2 * (y * x)
    OBVIOUS
  <2>4. 2 * r.value * T = 2 * (T * r.value)
    BY <2>2, <2>3
  <2> QED BY <2>2, <2>4
<1> QED BY <1>1, <1>13, <1>14, <1>15, <1>17

(* Carbon is charged for the energy that was used, at the intensity of its *)
(* time, and the SCI charges it once however many providers there are      *)
(* (calculate_co2_intensity, build_and_store_phase_stats).                 *)
THEOREM CarbonIsOfItsEnergy == Spec => []CarbonAddsUp
<1>1. Strong => CarbonAddsUp
  BY CarbonIsOfEnergy, SciIsOnce DEF CarbonAddsUp
<1> QED BY <1>1, StrongHolds, PTL
=============================================================================
