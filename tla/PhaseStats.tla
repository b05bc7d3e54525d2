----------------------------- MODULE PhaseStats ------------------------------
(***************************************************************************)
(* From samples to the numbers of a phase. While a run goes through its    *)
(* phases the metric providers sample on their own; once they are stopped  *)
(* and read, calculate_co2_intensity derives carbon from energy, and       *)
(* build_and_store_phase_stats cuts every series along the phases, derives *)
(* power, slices, network carbon and SCI, stores it all at once and puts   *)
(* [RUNTIME] together from the flows, in two statements. A run may fail in *)
(* any phase, and its statistics are built all the same.                   *)
(***************************************************************************)
EXTENDS Integers, Sequences, FiniteSetsExt, Functions, Sums

CONSTANTS
  Worlds,          \* what is measured and configured, see WorldAssumption
  Lead,            \* the phases before [RUNTIME], the first is [BASELINE]
  ContainersFrom,  \* container providers are started after this many of them
  Intensities,     \* carbon intensity providers, in the order of their names
  Containers,
  Padding,         \* _phase_padding_ms: the longest configured sampling rate
  Gaps,            \* ticks there may be between two samples of energy
  Losses,          \* what can go wrong when the providers are read
  Scale,           \* from energy per tick to power, bytes per tick to a rate
  CarbonScale,     \* 3_600_000: from energy times intensity to carbon
  MaxStay,         \* bound: ticks of a phase
  MaxPause,        \* bound: ticks between phases, beyond the padding
  MaxTime          \* bound: ticks of a run

ASSUME TimeAssumption ==
  /\ Padding \in Nat /\ {MaxStay, MaxTime} \subseteq Nat \ {0} /\ MaxPause \in Nat
  /\ Gaps # {} /\ Gaps \subseteq 1 .. MaxTime
  /\ Lead \in Seq(STRING) /\ Len(Lead) > 0 /\ ContainersFrom \in 1 .. Len(Lead)
ASSUME NamesAssumption ==
  Intensities \in Seq(STRING) /\ IsFiniteSet(Containers)
ASSUME ScaleAssumption == Scale \in Nat \ {0} /\ CarbonScale \in Nat \ {0}

VARIABLES
  world,     \* the run's environment, scenario and configuration
  now,       \* the clock, in ticks
  meter,     \* energy used since the provider's last sample
  phases,    \* self.__phases, then runs.phases
  rest,      \* the end of the padding sleep of the last _end_phase
  pc,        \* measuring, post, patched, co2, build, store, insert, update,
             \* done, crashed
  listed,    \* rows of measurement_metrics
  series,    \* measurement_values: the samples of a metric, by their time
  idx,       \* the phase whose statistics are built next
  baseline,  \* machine_power_baseline
  csv,       \* the rows in csv_buffer
  stats,     \* table phase_stats
  warnings   \* table warnings: phases and metrics with too few samples

measured == <<world, now, meter, phases, rest>>
imported == <<listed, series>>
built == <<idx, baseline, csv, warnings>>
vars == <<measured, pc, imported, built, stats>>

Running == -1   \* the end of a phase that has none yet

(***************************************************************************)
(* Fractions, and round(), which rounds half to even.                      *)
(***************************************************************************)
Q(n, d) == [n |-> n, d |-> d]
Zero == Q(0, 1)
Times(p, q) == Q(p.n * q.n, p.d * q.d)
Plus(p, q) == IF p.d = q.d THEN Q(p.n + q.n, p.d) ELSE Q(p.n * q.d + q.n * p.d, p.d * q.d)
Minus(p, q) == Plus(p, Q(-q.n, q.d))
Round(q) ==
  LET whole == q.n \div q.d  twice == 2 * (q.n % q.d)
  IN IF twice < q.d \/ (twice = q.d /\ whole % 2 = 0) THEN whole ELSE whole + 1

SumQ(f, S) == FoldSet(LAMBDA t, acc : Plus(f[t], acc), Zero, S)

(***************************************************************************)
(* The metrics. Everything that energy is said of holds for the energy     *)
(* metric of the machine, which feeds slices and SCI as well.              *)
(***************************************************************************)
Metric(kind, of) == [kind |-> kind, of |-> of]
Energy == Metric("energy", "machine")
Load == Metric("load", "machine")
Measured ==
  {Energy, Load}
    \cup {Metric("intensity", i) : i \in Range(Intensities)}
    \cup {Metric(kind, c) : kind \in {"share", "bytes", "custom"}, c \in Containers}
Derived == {Metric("carbon", i) : i \in Range(Intensities)}
OfContainers(m) == m.kind \in {"share", "bytes"}

ASSUME WorldAssumption ==
  \A w \in Worlds :
    /\ w.power \in [1 .. MaxTime -> Nat]   \* energy the machine uses per tick
    /\ w.hidden \in Seq(BOOLEAN)          \* the flows, hidden or not
    /\ w.sci \subseteq {"N", "embodied", "metrics"}  \* of sci and sci_metrics
    /\ DOMAIN w.tracks \subseteq Measured \ {Energy}
    /\ \A m \in DOMAIN w.tracks :         \* what the other providers sample
         /\ w.tracks[m] \in [DOMAIN w.tracks[m] -> Nat]
         /\ DOMAIN w.tracks[m] \subseteq 1 .. MaxTime

Plan == Lead \o <<"[RUNTIME]">> \o [f \in 1 .. Len(world.hidden) |-> "flow"]
          \o <<"[REMOVE]">>
Runtime == Len(Lead) + 1
Flow(p) == p \in Runtime + 1 .. Runtime + Len(world.hidden)
Hidden(p) == Flow(p) /\ world.hidden[p - Runtime]

-----------------------------------------------------------------------------
Init ==
  /\ world \in Worlds
  /\ now = 0 /\ meter = 0 /\ rest = 0
  /\ phases = <<>>
  /\ pc = "measuring"
  /\ listed = {}
  /\ series = [m \in {Energy} |-> <<>>]
  /\ idx = 1 /\ baseline = Zero
  /\ csv = {} /\ stats = {} /\ warnings = {}

MaxGap == Max(Gaps)
LastSample == IF DOMAIN series[Energy] = {} THEN 0 ELSE Max(DOMAIN series[Energy])

Closed(p) == phases[p].end # Running
Open == {p \in DOMAIN phases : ~Closed(p) /\ p # Runtime}

(* Time passes, and the provider takes a sample or waits a little longer.  *)
Tick ==
  /\ pc \in {"measuring", "patched"}
  /\ now < MaxTime
  /\ now < IF Open = {} THEN rest + MaxPause ELSE phases[Max(Open)].start + MaxStay
  /\ now' = now + 1
  /\ \E sample \in BOOLEAN :
       LET used == meter + world.power[now + 1]
           taken == [t \in DOMAIN series[Energy] \cup {now + 1} |->
                       IF t = now + 1 THEN used ELSE series[Energy][t]]
       IN /\ sample => now + 1 - LastSample \in Gaps
          /\ now + 1 - LastSample = MaxGap => sample
          /\ meter' = IF sample THEN 0 ELSE used
          /\ series' = IF sample THEN [series EXCEPT ![Energy] = taken] ELSE series
  /\ UNCHANGED <<world, phases, rest, pc, listed, built, stats>>

(* _start_phase: between a phase and the next there is the padding, and    *)
(* the transition time or whatever else the runner does. Flows start       *)
(* within [RUNTIME].                                                       *)
StartPhase ==
  LET next == Len(phases) + 1
  IN /\ pc = "measuring"
     /\ now >= rest /\ now < MaxTime
     /\ next <= Len(Plan)
     /\ \A p \in 1 .. Len(phases) : Closed(p) \/ (p = Runtime /\ Flow(next))
     /\ phases' = Append(phases, [name |-> Plan[next], start |-> now, end |-> Running,
                                  hidden |-> Hidden(next)])
     /\ UNCHANGED <<world, now, meter, rest, pc, imported, built, stats>>

(* Mutant: the runner does not sleep for the padding.                      *)
EndPhaseAtOnce(p) ==
  /\ pc = "measuring"
  /\ ~Closed(p)
  /\ now > phases[p].start
  /\ phases' = [phases EXCEPT ![p].end = now]
  /\ rest' = now
  /\ UNCHANGED <<world, now, meter, pc, imported, built, stats>>

(* _end_phase: the time is taken before the padding sleep.                 *)
EndPhase(p) ==
  /\ pc = "measuring"
  /\ ~Closed(p)
  /\ now > phases[p].start
  /\ phases' = [phases EXCEPT ![p].end = now]
  /\ rest' = now + Padding
  /\ UNCHANGED <<world, now, meter, pc, imported, built, stats>>

EndLast == Len(phases) > 0 /\ Len(phases) # Runtime /\ EndPhase(Len(phases))
EndRuntime ==
  /\ Len(phases) = Runtime + Len(world.hidden)
  /\ Closed(Len(phases)) \/ world.hidden = <<>>
  /\ now >= rest
  /\ EndPhase(Runtime)

(* The run comes to its end, or fails wherever it is.                      *)
Leave ==
  /\ pc = "measuring"
  /\ pc' = "post"
  /\ UNCHANGED <<measured, imported, built, stats>>
Complete ==
  /\ Len(phases) = Len(Plan) /\ Closed(Len(phases)) /\ now >= rest
  /\ Leave
Fail ==
  /\ phases # <<>> => now > phases[Len(phases)].start
  /\ Leave

(* Mutant: only the last phase is given an end.                            *)
PatchLastPhase ==
  /\ pc = "post"
  /\ phases' = [p \in DOMAIN phases |->
                  IF ~Closed(p) /\ p = Len(phases) THEN [phases[p] EXCEPT !.end = now]
                  ELSE phases[p]]
  /\ rest' = now
  /\ pc' = "patched"
  /\ UNCHANGED <<world, now, meter, imported, built, stats>>

(* _patch_phases: the last phase and [RUNTIME] are given an end.           *)
PatchPhases ==
  /\ pc = "post"
  /\ phases' = [p \in DOMAIN phases |->
                  IF ~Closed(p) /\ p \in {Len(phases), Runtime}
                  THEN [phases[p] EXCEPT !.end = now] ELSE phases[p]]
  /\ rest' = now
  /\ pc' = "patched"
  /\ UNCHANGED <<world, now, meter, imported, built, stats>>

(* When a provider of this metric was started: container providers only    *)
(* after [BOOT], if the run got that far.                                  *)
StartOf(m) ==
  IF ~OfContainers(m) THEN 0
  ELSE IF Len(phases) > ContainersFrom THEN phases[ContainersFrom].end ELSE now

(* read_metrics: the samples from the provider's start on, without one     *)
(* that was still being written when it was stopped.                       *)
Read(m, loss) ==
  LET track == IF m = Energy THEN series[Energy] ELSE world.tracks[m]
      last == IF loss.cut THEN now - 1 ELSE now
  IN Restrict(track, {t \in DOMAIN track : StartOf(m) < t /\ t <= last})

(* Providers without samples, or with samples that are refused.            *)
Unread(loss) ==
  {m \in {Energy} \cup DOMAIN world.tracks :
     m \in loss.unread \/ DOMAIN Read(m, loss) = {}}

(* import_measurements: the row in measurement_metrics is inserted before  *)
(* the samples are copied, which may fail.                                 *)
Import(read, loss) ==
  /\ listed' = read
  /\ series' = [m \in read \ loss.broken |-> Read(m, loss)]

(* _stop_metric_providers: every provider is stopped, read and imported.   *)
StopProviders ==
  /\ pc = "patched"
  /\ \E loss \in Losses :
       Import(({Energy} \cup DOMAIN world.tracks) \ Unread(loss), loss)
  /\ pc' = "co2"
  /\ UNCHANGED <<measured, built, stats>>

(* Mutant: the first reading is used for the whole run.                    *)
FirstReadingAt(readings, t) == readings[Min(DOMAIN readings)]

(* The reading that was last when the sample was taken, or the first.      *)
ReadingAt(readings, t) ==
  LET before == {u \in DOMAIN readings : u <= t}
  IN readings[IF before = {} THEN Min(DOMAIN readings) ELSE Max(before)]

(* calculate_co2_intensity: one more metric per intensity provider.        *)
CarbonSeries(i) ==
  [t \in DOMAIN series[Energy] |->
     Round(Q(series[Energy][t] * ReadingAt(series[Metric("intensity", i)], t),
             CarbonScale))]

CalculateCo2 ==
  LET with == {i \in Range(Intensities) :
                 {Metric("intensity", i), Energy} \subseteq DOMAIN series}
      derived == {Metric("carbon", i) : i \in with}
  IN /\ pc = "co2"
     /\ listed' = listed \cup derived
     /\ series' = [m \in DOMAIN series \cup derived |->
                     IF m \in derived THEN CarbonSeries(m.of) ELSE series[m]]
     /\ pc' = IF listed = {} \/ phases = <<>> THEN "done" ELSE "build"
     /\ UNCHANGED <<measured, built, stats>>

-----------------------------------------------------------------------------
(***************************************************************************)
(* _compute_metric_phase_stats                                             *)
(***************************************************************************)
NextStart(p) == IF p < Len(phases) THEN phases[p + 1].start ELSE MaxTime + 1

InPhase(m, p) ==
  {t \in DOMAIN series[m] : phases[p].start < t /\ t < phases[p].end}
Later(m, p) == {t \in DOMAIN series[m] : t >= phases[p].end}

(* Mutant: the sample after the phase may belong to the next one.          *)
CountedTwice(m, p) ==
  InPhase(m, p) \cup
    (IF InPhase(m, p) = {} \/ Later(m, p) = {} THEN {} ELSE {Min(Later(m, p))})

(* The samples that count for a phase: those strictly within it and, if    *)
(* there is any, the first one after it that is before the next phase.     *)
Counted(m, p) ==
  InPhase(m, p) \cup
    (IF InPhase(m, p) = {} THEN {}
     ELSE {t \in Later(m, p) : t = Min(Later(m, p)) /\ t < NextStart(p)})

Duration(p) == phases[p].end - phases[p].start
Before(S, t) == Max({u \in S : u < t})
Inner(S) == S \ {Min(S)}
Total(m, p) == Sum(series[m], Counted(m, p))

Average(m, p) ==
  LET S == Counted(m, p)
      gap == [t \in Inner(S) |-> t - Before(S, t)]
  IN IF Cardinality(S) <= 2 THEN Q(Total(m, p), Cardinality(S))
     ELSE Q(Sum([t \in Inner(S) |-> series[m][t] * gap[t]], Inner(S)),
            Max(S) - Min(S))

Derivative(m, p) ==
  LET S == Counted(m, p)
      slope == [t \in Inner(S) |-> Q(series[m][t], t - Before(S, t))]
  IN IF Cardinality(S) <= 2 THEN Q(Total(m, p), Duration(p))
     ELSE Times(SumQ(slope, Inner(S)), Q(1, Cardinality(Inner(S))))

(* Mutant: a single sample is no reason for a warning.                     *)
UndersampledTwice(m, p) ==
  LET S == Counted(m, p)
  IN Cardinality(S) > 1 /\
       2 * Cardinality(S) * (Max(S) - Min(S)) < Duration(p) * (Cardinality(S) - 1)

(* Fewer than half of the samples that the average gap between two samples *)
(* lets expect, or only one.                                               *)
Undersampled(m, p) ==
  LET S == Counted(m, p)
  IN \/ Cardinality(S) = 1
     \/ 2 * Cardinality(S) * (Max(S) - Min(S)) < Duration(p) * (Cardinality(S) - 1)

-----------------------------------------------------------------------------
(***************************************************************************)
(* The rows of one phase in build_and_store_phase_stats                    *)
(***************************************************************************)
Row(p, kind, of, type, q) ==
  [phase |-> p, kind |-> kind, of |-> of, type |-> type, value |-> Round(q),
   hidden |-> phases[p].hidden]
TotalRow(p, kind, of, q) == Row(p, kind, of, "TOTAL", q)
MeanRow(p, kind, of, q) == Row(p, kind, of, "MEAN", q)

In(kind, p) == {m \in listed : m.kind = kind /\ Counted(m, p) # {}}
Power(p) == Times(Derivative(Energy, p), Q(Scale, 1))

TimeRow(p) == TotalRow(p, "time", "machine", Q(Duration(p), 1))

MetricRows(p) ==
     {MeanRow(p, m.kind, m.of, Average(m, p)) :
        m \in In("intensity", p) \cup In("load", p) \cup In("share", p)}
  \cup {MeanRow(p, "rate", m.of, Times(Derivative(m, p), Q(Scale, 1))) :
        m \in In("bytes", p)}
  \cup {MeanRow(p, "power", m.of, Power(p)) : m \in In("energy", p)}
  \cup {TotalRow(p, m.kind, m.of, Q(Total(m, p), 1)) :
        m \in UNION {In(k, p) : k \in {"bytes", "energy", "carbon", "custom"}}}

(* The first of the intensities the run has is used.                       *)
Chosen == {i \in Range(Intensities) :
             LET has == {k \in DOMAIN Intensities : Metric("intensity", Intensities[k]) \in listed}
             IN has # {} /\ i = Intensities[Min(has)]}

NetworkRows(p) ==
  LET bytes == Q(Sum([m \in In("bytes", p) |-> Total(m, p)], In("bytes", p)), 1)
  IN IF In("bytes", p) = {} \/ "N" \notin world.sci THEN {}
     ELSE {TotalRow(p, "network_energy", "formula", bytes),
           TotalRow(p, "network_power", "formula",
                    Times(bytes, Q(Scale, Duration(p))))}
       \cup {TotalRow(p, "network_carbon", "formula",
                      Times(bytes, Times(Average(m, p), Q(1, CarbonScale)))) :
               m \in {n \in In("intensity", p) : n.of \in Chosen}}

Embodied(p) == Q(Duration(p), 1)
EmbodiedRows(p) ==
  IF "embodied" \in world.sci THEN {TotalRow(p, "embodied", "machine", Embodied(p))}
  ELSE {}

Shares(p) == SumQ([m \in In("share", p) |-> Average(m, p)], In("share", p))

(* splitting_ratio                                                         *)
Ratio(p, m) ==
  IF Shares(p).n < Shares(p).d THEN Zero
  ELSE Times(Average(m, p), Q(Shares(p).d, Shares(p).n))

Sliced(p, base) ==
  /\ In("energy", p) # {} /\ phases[p].name # "[BASELINE]"
  /\ Power(p).n # 0 /\ base.n # 0
  /\ In("load", p) # {} /\ Average(Load, p).n # 0
  /\ In("share", p) # {}

SliceRows(p, base) ==
  IF ~Sliced(p, base) THEN {}
  ELSE LET energy == Q(Total(Energy, p), 1)
           idle == Times(base, Q(Duration(p), Scale))
       IN UNION {{TotalRow(p, "slice_energy", m.of, Times(energy, Ratio(p, m))),
                  MeanRow(p, "slice_power", m.of, Times(Power(p), Ratio(p, m))),
                  TotalRow(p, "surplus_energy", m.of,
                           Times(Minus(energy, idle), Ratio(p, m))),
                  MeanRow(p, "surplus_power", m.of,
                          Times(Minus(Power(p), base), Ratio(p, m)))} :
                   m \in In("share", p)}

SciRows(p) ==
  LET carbon == {m \in In("carbon", p) : m.of \in Chosen}
      machine == Q(Sum([m \in carbon |-> Total(m, p)], carbon), 1)
  IN IF ~({"embodied", "metrics"} \subseteq world.sci) \/ carbon = {} THEN {}
     ELSE {TotalRow(p, "sci", m.of,
                    Times(Plus(machine, Embodied(p)), Q(1, Total(m, p)))) :
             m \in {n \in In("custom", p) : Total(n, p) # 0}}

(* base is what the machine draws when it is idle.                         *)
PhaseRows(p, base) ==
  {TimeRow(p)} \cup MetricRows(p) \cup NetworkRows(p) \cup EmbodiedRows(p)
    \cup SliceRows(p, base) \cup SciRows(p)

(* Custom metrics are not watched. Other warnings are left out.            *)
PhaseWarnings(p) ==
  {[phase |-> p, metric |-> m] :
     m \in {n \in listed : n.kind # "custom" /\ Counted(n, p) # {} /\ Undersampled(n, p)}}

(* A metric without samples lets the whole function crash.                 *)
BuildCrashes ==
  /\ pc = "build"
  /\ idx <= Len(phases) /\ idx # Runtime
  /\ ~(listed \subseteq DOMAIN series)
  /\ pc' = "crashed"
  /\ UNCHANGED <<measured, imported, built, stats>>

(* Mutant: every phase is stored by itself.                                *)
BuildAndStorePhase ==
  /\ pc = "build"
  /\ idx <= Len(phases) /\ idx # Runtime
  /\ listed \subseteq DOMAIN series
  /\ csv' = csv
  /\ stats' = stats \cup PhaseRows(idx, baseline)
  /\ warnings' = warnings \cup PhaseWarnings(idx)
  /\ baseline' = IF phases[idx].name = "[BASELINE]" /\ In("energy", idx) # {}
                 THEN Power(idx) ELSE baseline
  /\ idx' = idx + 1
  /\ UNCHANGED <<measured, pc, imported>>

BuildPhase ==
  /\ pc = "build"
  /\ idx <= Len(phases) /\ idx # Runtime
  /\ listed \subseteq DOMAIN series
  /\ csv' = csv \cup PhaseRows(idx, baseline)
  /\ warnings' = warnings \cup PhaseWarnings(idx)
  /\ baseline' = IF phases[idx].name = "[BASELINE]" /\ In("energy", idx) # {}
                 THEN Power(idx) ELSE baseline
  /\ idx' = idx + 1
  /\ UNCHANGED <<measured, pc, imported, stats>>

SkipRuntime ==
  /\ pc = "build"
  /\ idx = Runtime /\ idx <= Len(phases)
  /\ idx' = idx + 1
  /\ UNCHANGED <<measured, pc, imported, baseline, csv, warnings, stats>>

(* copy_from, of everything at once                                        *)
Store ==
  /\ pc = "build"
  /\ idx > Len(phases)
  /\ stats' = stats \cup csv
  /\ pc' = IF Runtime <= Len(phases) THEN "insert" ELSE "done"
  /\ UNCHANGED <<measured, imported, built>>

-----------------------------------------------------------------------------
(***************************************************************************)
(* reconstruct_runtime_phase                                               *)
(***************************************************************************)
(* Mutant: what is hidden counts as well.                                  *)
AllSubPhases == {r \in stats : Flow(r.phase)}

(* The rows of the visible flows.                                          *)
SubPhases == {r \in stats : Flow(r.phase) /\ ~r.hidden}

SumOfValues(rows) == Sum([r \in rows |-> r.value], rows)
SameMetric(r, s) == r.kind = s.kind /\ r.of = s.of /\ r.type = s.type

(* INSERT: the sums of everything, of MEANs as well.                       *)
InsertRuntime ==
  /\ pc = "insert"
  /\ stats' = stats \cup
       {[phase |-> Runtime, kind |-> r.kind, of |-> r.of, type |-> r.type,
         value |-> SumOfValues({s \in SubPhases : SameMetric(r, s)}),
         hidden |-> FALSE] : r \in SubPhases}
  /\ pc' = "update"
  /\ UNCHANGED <<measured, imported, built>>

TimeOf(p) == SumOfValues({r \in stats : r.phase = p /\ r.kind = "time"})

(* Mutant: the sum of the means stays.                                     *)
MeanOfFlows(r) ==
  LET rows == {s \in SubPhases : SameMetric(r, s)}
  IN Round(Q(SumOfValues(rows), 1))

(* The mean of the flows' means, weighted with their durations.            *)
WeightedMean(r) ==
  LET rows == {s \in SubPhases : SameMetric(r, s)}
  IN Round(Q(Sum([s \in rows |-> s.value * TimeOf(s.phase)], rows), TimeOf(Runtime)))

(* UPDATE: the sums of MEANs are replaced.                                 *)
UpdateRuntime ==
  /\ pc = "update"
  /\ stats' = {IF r.phase = Runtime /\ r.type = "MEAN"
               THEN [r EXCEPT !.value = WeightedMean(r)] ELSE r : r \in stats}
  /\ pc' = "done"
  /\ UNCHANGED <<measured, imported, built>>

Next ==
  \/ Tick \/ StartPhase \/ EndLast \/ EndRuntime \/ Complete \/ Fail
  \/ PatchPhases \/ StopProviders \/ CalculateCo2
  \/ BuildPhase \/ BuildCrashes \/ SkipRuntime \/ Store
  \/ InsertRuntime \/ UpdateRuntime

Spec == Init /\ [][Next]_vars

-----------------------------------------------------------------------------
Used(from, to) ==
  Sum(world.power, (1 .. MaxTime) \cap (from + 1 .. to))

Kinds ==
  {"time", "intensity", "load", "share", "bytes", "rate", "custom", "energy", "power",
   "carbon", "network_energy", "network_power", "network_carbon", "embodied",
   "slice_energy", "slice_power", "surplus_energy", "surplus_power", "sci"}
Details == {"machine", "formula"} \cup Range(Intensities) \cup Containers

RowType ==
  [phase : 1 .. Len(Plan), kind : Kinds, of : Details,
   type : {"TOTAL", "MEAN"}, value : Int, hidden : BOOLEAN]

(* Phases are closed when statistics are built, and at no other time than  *)
(* the clock has been at; samples are not from the future; only what was   *)
(* imported is evaluated.                                                  *)
TypeOK ==
  /\ world \in Worlds
  /\ now \in 0 .. MaxTime /\ meter \in Nat /\ rest \in 0 .. MaxTime + Padding
  /\ Len(phases) <= Len(Plan)
  /\ \A p \in DOMAIN phases :
       /\ phases[p].name = Plan[p] /\ phases[p].hidden = Hidden(p)
       /\ phases[p].start \in 0 .. now
       /\ Closed(p) => phases[p].end \in phases[p].start + 1 .. now
       /\ Closed(p) \/ pc \in {"measuring", "post"}
  /\ \A m \in DOMAIN series : DOMAIN series[m] \subseteq 1 .. now
  /\ listed \subseteq Measured \cup Derived
  /\ idx \in 1 .. Len(phases) + 1
  /\ baseline.n \in Nat /\ baseline.d \in Nat \ {0}
  /\ csv \subseteq RowType /\ stats \subseteq RowType
  /\ \A w \in warnings : w.phase \in DOMAIN phases /\ w.metric \in listed

EnergyRows == {r \in stats : r.kind = "energy" /\ r.phase # Runtime}

(* No sample counts for two phases, however irregular the provider is,     *)
(* wherever a sample falls and however the phases are nested (bisect, the  *)
(* padding sample and next_phase_start).                                   *)
NothingIsCountedTwice ==
  pc = "build" =>
    \A m \in DOMAIN series : \A p, q \in DOMAIN phases \ {Runtime} :
      p < q => Counted(m, p) \cap Counted(m, q) = {}

Regular ==
  \A t \in DOMAIN series[Energy] :
    \/ DOMAIN series[Energy] \cap (t - Padding .. t - 1) # {}
    \/ t <= Padding

(* A phase has at most the energy that the machine used from one gap       *)
(* before it to one gap after it. It has at least what was used in it if   *)
(* the provider keeps its rate and was still there after the phase: this   *)
(* is what the padding sleep of _end_phase is for.                         *)
EnergyIsOfThePhase ==
  \A r \in EnergyRows :
    LET ph == phases[r.phase]
    IN /\ r.value <= Used(ph.start - MaxGap, ph.end + MaxGap)
       /\ Regular /\ (\E t \in DOMAIN series[Energy] : t >= ph.end)
            => r.value >= Used(ph.start, ph.end)

(* [RUNTIME] is what the visible flows were: it lasts as long as they did  *)
(* together, not counting the hidden ones, the pauses and the phases       *)
(* around it, so no longer than from its start to its end, and has no more *)
(* energy than the machine used from one gap before to one gap after it.   *)
RuntimeIsVisibleFlows ==
  \A r \in stats :
    r.phase = Runtime =>
      LET ph == phases[Runtime]
          visible == {p \in DOMAIN phases : Flow(p) /\ ~Hidden(p)}
      IN /\ r.kind = "time" => /\ r.value = Sum([p \in visible |-> Duration(p)], visible)
                               /\ r.value <= ph.end - ph.start
         /\ r.kind = "energy" => r.value <= Used(ph.start - MaxGap, ph.end + MaxGap)

Has(p, m) == \E r \in stats : r.phase = p /\ r.kind = m.kind /\ r.of = m.of

(* When all is done every mean is one: it is not above the largest sample  *)
(* of its metric and not below the smallest. The mean of [RUNTIME] is      *)
(* below it only if a visible flow has no samples, which then counts as 0. *)
MeansAreMeans ==
  pc = "done" =>
    \A r \in stats, m \in DOMAIN series :
      r.kind = m.kind /\ r.of = m.of /\ r.type = "MEAN" =>
        LET values == {series[m][t] : t \in DOMAIN series[m]}
            everywhere == \A p \in DOMAIN phases : Flow(p) /\ ~Hidden(p) => Has(p, m)
        IN /\ r.value <= Max(values)
           /\ r.phase # Runtime \/ everywhere => r.value >= Min(values)

SlicesOf(p) == {r \in stats : r.phase = p /\ r.kind = "slice_energy"}

(* The slices of the containers make up the machine's energy, but for half *)
(* a unit of rounding each, unless the containers did next to nothing.     *)
SlicesAddUp ==
  \A r \in EnergyRows :
    LET slices == SlicesOf(r.phase)
        difference == SumOfValues(slices) - r.value
    IN \/ \A s \in slices : s.value = 0
       \/ 2 * difference \in -Cardinality(slices) .. Cardinality(slices)

(* No energy is made up or lost, neither between the phases nor between    *)
(* the containers.                                                         *)
EnergyAddsUp == EnergyIsOfThePhase /\ SlicesAddUp

(* However many intensity providers there are, the SCI charges the         *)
(* machine's energy once: what it is per unit, times the units, is no more *)
(* than the embodied carbon and the carbon of one of the providers, but    *)
(* for half a unit of rounding per unit.                                   *)
SciChargesOnce ==
  \A r \in stats : r.kind = "sci" /\ r.phase # Runtime =>
    \E c \in stats, e \in stats, u \in stats :
      /\ {c.phase, e.phase, u.phase} = {r.phase}
      /\ c.kind = "carbon" /\ e.kind = "embodied" /\ u.kind = "custom" /\ u.of = r.of
      /\ 2 * r.value * u.value <= 2 * (c.value + e.value) + u.value

(* A phase's carbon is its energy at intensities that held in it: not more *)
(* than at the highest that was read up to the end of the padding and not  *)
(* less than at the lowest, but for half a unit per sample; a reading that *)
(* was replaced before the phase's first sample has no part in it.         *)
CarbonFollowsEnergy ==
  \A r \in stats : r.kind = "carbon" /\ r.phase # Runtime =>
    LET readings == series[Metric("intensity", r.of)]
        S == Counted(Energy, r.phase)
        held == {readings[u] : u \in {v \in DOMAIN readings :
                   /\ v <= Max(S) \/ v = Min(DOMAIN readings)
                   /\ ~\E w \in DOMAIN readings : v < w /\ w <= Min(S)}}
        energy == Total(Energy, r.phase)
        scaled == 2 * CarbonScale * r.value
        slack == CarbonScale * Cardinality(S)
    IN /\ scaled <= 2 * energy * Max(held) + slack
       /\ scaled >= 2 * energy * Min(held) - slack

(* Carbon is charged for the energy that was used, at the right time and   *)
(* once.                                                                   *)
CarbonAddsUp == CarbonFollowsEnergy /\ SciChargesOnce

(* The statistics of a run are there for all of its phases or for none,    *)
(* wherever it failed and whatever could not be imported.                  *)
StatsAreWhole ==
  \/ stats = {}
  \/ \A p \in DOMAIN phases \ {Runtime} : \E r \in stats : r.phase = p /\ r.kind = "time"

(* If the samples of a metric cover less than a quarter of a phase, the    *)
(* user is warned.                                                         *)
SilenceIsWarned ==
  stats # {} =>
    \A p \in DOMAIN phases \ {Runtime}, m \in DOMAIN series :
      /\ m.kind # "custom"
      /\ Counted(m, p) # {}
      /\ 4 * (Max(Counted(m, p)) - Min(Counted(m, p))) < Duration(p)
      => [phase |-> p, metric |-> m] \in warnings
=============================================================================
