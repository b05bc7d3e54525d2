------------------------------ MODULE CarbonDb ------------------------------
(***************************************************************************)
(* From a measurement that arrives through the API to the daily sums of    *)
(* CarbonDB. Three scripts of cron and a tool started by hand work on the  *)
(* same tables without a lock between them: the back-fill of locations     *)
(* and of grid intensities, the copy into carbondb_data_raw with the       *)
(* removal of duplicates, the compression into carbondb_data, and the      *)
(* rebuild. Every statement commits on its own.                            *)
(*                                                                         *)
(* Time is counted in slots of the length of the back-fill's look-back (30 *)
(* minutes in the code); a row of a slot lies strictly inside it.          *)
(***************************************************************************)
EXTENDS Integers, FiniteSets, Sequences

CONSTANTS
  Measurements,    \* what is sent in
  Loads,           \* of which kind each may be
  Forms,           \* what may be sent along with a kind
  Group,           \* type, machine, project, tags and user of each
  Places,          \* latitudes and longitudes
  Place,           \* where each is sent from, by its IP address
  SlotsPerDay,
  BackfillWindow,  \* 30 minutes: rows older than that get no intensity
  LateDays,        \* 30 days: how old a measurement may arrive
  MergeDays,       \* 60 days: how far the scripts look back
  MaxTime,         \* bound: the clock stops here
  MaxDelay,        \* bound: slots from the first to the last fill of a back-fill
  MaxArrival,      \* bound: the last slot in which measurements are sent
  MaxLateness,     \* bound: how many slots before their arrival they were taken
  MaxBatches,      \* bound: starts of the copy script and of the rebuild
  MaxRebuilds      \* bound: starts of the rebuild

Kinds == {"eco", "hog", "run", "custom", "none"}
ASSUME LoadAssumption == Loads \subseteq [Measurements -> Kinds]
ASSUME FormAssumption ==
  Forms \in [Kinds -> SUBSET [geo : BOOLEAN, intensity : BOOLEAN, carbon : BOOLEAN]]
ASSUME PlaceAssumption == Place \in [Measurements -> Places]
ASSUME WindowAssumption ==
  /\ SlotsPerDay \in Nat \ {0} /\ BackfillWindow \in Nat \ {0}
  /\ LateDays \in Nat /\ MergeDays \in Nat
ASSUME BoundAssumption ==
  /\ MaxTime \in Nat /\ MaxDelay \in Nat /\ MaxArrival \in Nat /\ MaxLateness \in Nat
  /\ MaxBatches \in Nat /\ MaxRebuilds \in Nat

VARIABLES
  now,
  kind,       \* of the measurements: eco, hog, run, custom, or none, never sent
  taken,      \* the time a measurement is about, once it has arrived
  row,        \* its row in the table it arrived in, and those in carbondb_data_raw
  counted,    \* how many rows the day's sum in carbondb_data holds of it
  readings,   \* of the grid intensity, in carbon_intensity
  geo,        \* backfill_geo.py: where it is, and the rows it has fetched
  intensity,  \* backfill_carbon_intensity.py: so too, and its cache of readings
  copier,     \* carbondb_copy_over_and_remove_duplicates.py, with its number
  rebuild,    \* rebuild_carbondb.py, with its number
  batches,    \* starts of the latter two
  rebuilds,   \* starts of the last one
  blind,      \* history: copied before its carbon was known
  again       \* history: copied anew since duplicates were last removed

scripts == <<geo, intensity, copier, rebuild, batches, rebuilds>>
world == <<kind, taken>>
history == <<blind, again>>
vars == <<now, world, row, counted, readings, scripts, history>>

(* A row is known by its measurement and the number of the copy; Source is *)
(* the row of ci_measurements, hog_simplified_measurements or runs. What   *)
(* users add to CarbonDB themselves is in carbondb_data_raw from the start.*)
Source == -1
Added == 0
Keys == Measurements \X (Source .. MaxBatches)
RawKeys == Measurements \X (Added .. MaxBatches)

Table(key) == IF key[2] = Source THEN kind[key[1]] ELSE "raw"

(* Grid intensity of a row: not known, sent along, or read for a place in  *)
(* a slot.                                                                 *)
Readings == [place : Places, at : 0 .. MaxTime]
Unknown == [place |-> "none", at |-> -1]
Sent == [place |-> "none", at |-> -2]
Intensities == {Unknown, Sent} \cup Readings

(* Carbon of a row: not known, sent along or measured, the COALESCE of a   *)
(* run without statistics, or computed from an intensity: in micrograms as *)
(* a bigint (source) or in kilograms as a double (raw).                    *)
Carbons == [by : {"none", "sent", "zero", "source", "raw"}, of : Intensities]
Carbon(by) == [by |-> by, of |-> Unknown]
NoCarbon == Carbon("none")

Row == [created : -1 .. MaxTime, geo : BOOLEAN, intensity : Intensities, carbon : Carbons]
NoRow == [created |-> -1, geo |-> FALSE, intensity |-> Unknown, carbon |-> NoCarbon]

Exists(key) == row[key] # NoRow
Arrived(m) == Exists(<<m, Source>>) \/ (kind[m] = "custom" /\ Exists(<<m, Added>>))
Day(slot) == slot \div SlotsPerDay

(* A script that is not running.                                           *)
Off == [at |-> "off", number |-> 0]

(* Midnight cuts of the copy, of the removal and of the compression.       *)
Recent(slot) == Day(slot) >= Day(now) - MergeDays

-----------------------------------------------------------------------------
Init ==
  /\ now = 0
  /\ kind \in Loads
  /\ taken = [m \in Measurements |-> 0]
  /\ row = [key \in Keys |-> NoRow]
  /\ counted = [m \in Measurements |-> 0]
  /\ readings = {}
  /\ geo = [at |-> "off", todo |-> {}]
  /\ intensity = [at |-> "off", todo |-> {}, since |-> 0, cache |-> {}]
  /\ copier = Off /\ rebuild = Off
  /\ batches = 0 /\ rebuilds = 0
  /\ blind = {} /\ again = {}

(* The tables the back-fill of intensities fetches rows from, in turn.     *)
IntensityTables == {"eco", "hog", "raw"}

(* Readings that are too old for every row and for the cache (its time to  *)
(* live is an hour) are dropped.                                           *)
Fresh(r, t) == t - r.at < 2 * BackfillWindow

Tick ==
  /\ intensity.at \in IntensityTables => now < intensity.since + MaxDelay
  /\ now < MaxTime /\ now' = now + 1
  /\ readings' = {r \in readings : Fresh(r, now + 1)}
  /\ intensity' = [intensity EXCEPT !.cache = {r \in @ : Fresh(r, now + 1)}]
  /\ UNCHANGED <<world, row, counted, geo, copier, rebuild, batches, rebuilds, history>>

(* Neither older than 30 days nor in the future.                           *)
Timely(t) == t <= now /\ t >= now - LateDays * SlotsPerDay

Insert(key, t, located, given, carbon) ==
  /\ now <= MaxArrival
  /\ row' = [row EXCEPT ![key] =
       [created |-> now, geo |-> located, intensity |-> given, carbon |-> carbon]]
  /\ taken' = [taken EXCEPT ![key[1]] = t]
  /\ UNCHANGED <<now, kind, counted, readings, scripts, history>>

Given(form) == IF form.intensity THEN Sent ELSE Unknown

(* POST /v3/ci/measurement/add: place, intensity and carbon are optional.  *)
EcoArrives(m) ==
  /\ kind[m] = "eco" /\ ~ Arrived(m)
  /\ \E form \in Forms["eco"] :
       Insert(<<m, Source>>, now, form.geo, Given(form),
              IF form.carbon THEN Carbon("sent") ELSE NoCarbon)

(* POST /v2/hog/add: the place is never sent, carbon that is missing is 0. *)
HogArrives(m) ==
  /\ kind[m] = "hog" /\ ~ Arrived(m)
  /\ \E t \in (now - MaxLateness) .. now, form \in Forms["hog"] :
       Timely(t) /\ Insert(<<m, Source>>, t, FALSE, Given(form), Carbon("sent"))

(* POST /v2/carbondb/add: carbon is computed if an intensity came along.   *)
CustomArrives(m) ==
  /\ kind[m] = "custom" /\ ~ Arrived(m)
  /\ \E t \in (now - MaxLateness) .. now, form \in Forms["custom"] :
       /\ Timely(t)
       /\ Insert(<<m, Added>>, t, FALSE, Given(form),
                 IF form.intensity THEN Carbon("sent") ELSE NoCarbon)

(* The row of a run is inserted when it starts, its statistics at its end. *)
RunStarts(m) ==
  /\ kind[m] = "run" /\ ~ Arrived(m)
  /\ Insert(<<m, Source>>, now, FALSE, Unknown, NoCarbon)

RunEnds(m) ==
  /\ kind[m] = "run" /\ Arrived(m) /\ row[<<m, Source>>].carbon = NoCarbon
  /\ row' = [row EXCEPT ![<<m, Source>>].carbon = Carbon("sent")]
  /\ UNCHANGED <<now, world, counted, readings, scripts, history>>

-----------------------------------------------------------------------------
(* backfill_geo.py                                                         *)

GeoMissing(table) ==
  {key \in Keys :
     /\ Exists(key) /\ Table(key) = table
     /\ ~ row[key].geo /\ row[key].intensity = Unknown
     /\ kind[key[1]] # "run"                         \* has no IP address
     /\ now - row[key].created < LateDays * SlotsPerDay}

(* The order of the scripts' statements on the tables.                     *)
GeoOrder == <<"eco", "hog", "raw">>
Position(order, at) == IF at = "off" THEN 0 ELSE CHOOSE i \in DOMAIN order : order[i] = at
Behind(order, at) == {order[i] : i \in (Position(order, at) + 1) .. Len(order)}

(* The file lock admits one instance: it starts when it is off. A table is *)
(* left when every row fetched from it has got a location, and tables      *)
(* without such a row are passed over.                                     *)
GeoTable ==
  /\ geo.todo = {}
  /\ \E table \in Behind(GeoOrder, geo.at) :
       GeoMissing(table) # {} /\ geo' = [at |-> table, todo |-> GeoMissing(table)]
  /\ UNCHANGED <<now, world, row, counted, readings, intensity, copier, rebuild, batches,
                 rebuilds, history>>

(* From ip_data or from one of three services. A row that was deleted      *)
(* meanwhile is not found.                                                 *)
GeoFill(key) ==
  /\ key \in geo.todo
  /\ geo' = [geo EXCEPT !.todo = @ \ {key}]
  /\ row' = IF Exists(key) THEN [row EXCEPT ![key].geo = TRUE] ELSE row
  /\ UNCHANGED <<now, world, counted, readings, intensity, copier, rebuild, batches,
                 rebuilds, history>>

(* The script is through; or no service knows the address, or the process  *)
(* dies, and the rest of the rows and tables wait for the next start.      *)
GeoEnds ==
  /\ geo.at # "off" /\ geo' = [at |-> "off", todo |-> {}]
  /\ UNCHANGED <<now, world, row, counted, readings, intensity, copier, rebuild, batches,
                 rebuilds, history>>

-----------------------------------------------------------------------------
(* backfill_carbon_intensity.py                                            *)

(* Mutant: rows of any age are filled with the latest reading.             *)
MissingAtAnyAge(table) ==
  {key \in Keys :
     /\ Exists(key) /\ Table(key) = table
     /\ row[key].geo /\ row[key].intensity = Unknown}

IntensityMissing(table) ==
  {key \in Keys :
     /\ Exists(key) /\ Table(key) = table
     /\ row[key].geo /\ row[key].intensity = Unknown
     /\ now - row[key].created < BackfillWindow}

(* Readings in the database from a row's place and around its creation.    *)
Distance(s, t) == IF s < t THEN t - s ELSE s - t
Near(key) ==
  {r \in readings :
     r.place = Place[key[1]] /\ Distance(r.at, row[key].created) < BackfillWindow}
Nearest(key) ==
  CHOOSE r \in Near(key) : \A s \in Near(key) :
    Distance(r.at, row[key].created) <= Distance(s.at, row[key].created)

IntensityOrder == <<"eco", "hog", "raw", "carbonEco", "carbonHog", "carbonRaw">>

(* Fetch the rows of a table and fill those a reading is at hand for.      *)
IntensityTable ==
  \E table \in Behind(IntensityOrder, intensity.at) \cap IntensityTables :
    LET missing == IntensityMissing(table) IN
    LET known == {key \in missing : Near(key) # {}} IN
    /\ intensity.todo = {} /\ missing # {}
    /\ intensity' = [intensity EXCEPT !.at = table, !.todo = missing \ known,
                                      !.since = IF intensity.at = "off" THEN now ELSE @]
    /\ row' = [key \in Keys |->
         IF key \in known THEN [row[key] EXCEPT !.intensity = Nearest(key)] ELSE row[key]]
    /\ UNCHANGED <<now, world, counted, readings, geo, copier, rebuild, batches, rebuilds,
                   history>>

(* get_carbon_intensity: what the process has asked for this place, or the *)
(* latest reading, which is kept.                                          *)
Cached(key) == {r \in intensity.cache : r.place = Place[key[1]]}
Latest(key) == [place |-> Place[key[1]], at |-> now]

IntensityFill(key) ==
  /\ key \in intensity.todo
  /\ \E r \in IF Cached(key) # {} THEN Cached(key) ELSE {Latest(key)} :
       /\ readings' = readings \cup {r}
       /\ intensity' = [intensity EXCEPT !.todo = @ \ {key}, !.cache = @ \cup {r}]
       /\ row' = IF Exists(key) THEN [row EXCEPT ![key].intensity = r] ELSE row
  /\ UNCHANGED <<now, world, counted, geo, copier, rebuild, batches, rebuilds, history>>

ToCompute(key) == row[key].carbon = NoCarbon /\ row[key].intensity # Unknown

Computed(key) ==
  [by |-> IF Table(key) = "raw" THEN "raw" ELSE "source", of |-> row[key].intensity]

(* update_eco_ci_carbon, update_power_hog_carbon and                       *)
(* update_carbondb_data_raw_carbon, one after the other; the cache is not  *)
(* asked any more.                                                         *)
CarbonTable(step) ==
  CASE step = "carbonEco" -> "eco" [] step = "carbonHog" -> "hog"
    [] step = "carbonRaw" -> "raw" [] OTHER -> "none"

UpdateCarbon ==
  \E step \in Behind(IntensityOrder, intensity.at) \cap {"carbonEco", "carbonHog", "carbonRaw"} :
    LET fill == {key \in Keys :
          Exists(key) /\ Table(key) = CarbonTable(step) /\ ToCompute(key)} IN
    /\ intensity.todo = {} /\ fill # {}
    /\ intensity' = [at |-> step, todo |-> {}, since |-> 0, cache |-> {}]
    /\ row' = [key \in Keys |->
         IF key \in fill THEN [row[key] EXCEPT !.carbon = Computed(key)] ELSE row[key]]
    /\ UNCHANGED <<now, world, counted, readings, geo, copier, rebuild, batches, rebuilds,
                   history>>

(* The script is through; or the service has no reading or refuses, and it *)
(* leaves the table and everything behind it.                              *)
IntensityEnds ==
  /\ intensity.at # "off"
  /\ intensity' = [at |-> "off", todo |-> {}, since |-> 0, cache |-> {}]
  /\ UNCHANGED <<now, world, row, counted, readings, geo, copier, rebuild, batches,
                 rebuilds, history>>

-----------------------------------------------------------------------------
(* The copy, the removal of duplicates and the compression                 *)

ToCopy(of, all) ==
  {m \in Measurements :
     /\ kind[m] = of /\ Exists(<<m, Source>>)
     /\ all \/ Recent(row[<<m, Source>>].created)}

(* The sum over no statistics is taken for 0.                              *)
Copied(m) ==
  IF kind[m] = "run" /\ row[<<m, Source>>].carbon = NoCarbon
    THEN [row[<<m, Source>>] EXCEPT !.created = now, !.carbon = Carbon("zero")]
    ELSE [row[<<m, Source>>] EXCEPT !.created = now]

(* The rows of a measurement in carbondb_data_raw.                         *)
Copies(m) == {key \in RawKeys : key[1] = m /\ Exists(key)}

(* INSERT INTO carbondb_data_raw ... SELECT, of one kind.                  *)
CopyOver(of, number, all) ==
  /\ row' = [key \in Keys |->
       IF key[2] = number /\ key[1] \in ToCopy(of, all) THEN Copied(key[1]) ELSE row[key]]
  /\ blind' = blind \cup {m \in ToCopy(of, all) : row[<<m, Source>>].carbon = NoCarbon}
  /\ again' = again \cup {m \in ToCopy(of, all) : Copies(m) # {}}
  /\ UNCHANGED <<now, world, counted, readings>>

(* Mutant: the time of the copy is compared as well.                       *)
SupersededToTheSecond(key) ==
  \E other \in RawKeys :
    /\ other[1] = key[1] /\ key[2] < other[2]
    /\ row[key] = row[other] /\ row[key].carbon # NoCarbon

(* a.ctid < b.ctid: of equal rows the last one stays.                      *)
Superseded(key) ==
  \E other \in RawKeys :
    /\ other[1] = key[1] /\ key[2] < other[2] /\ Exists(other)
    /\ row[key].carbon = row[other].carbon /\ row[key].carbon # NoCarbon

RemoveDuplicates ==
  /\ row' = [key \in Keys |->
       IF key \in RawKeys /\ Recent(taken[key[1]]) /\ Superseded(key)
         THEN NoRow ELSE row[key]]
  /\ again' = {}
  /\ UNCHANGED <<now, world, counted, readings, blind>>

CopySteps == {"run", "hog", "duplicates"}
AfterCopying(step) ==
  CASE step = "run" -> "hog" [] step = "hog" -> "duplicates" [] OTHER -> "off"

StartCopying ==
  /\ copier.at = "off" /\ batches < MaxBatches /\ batches' = batches + 1
  /\ copier' = [at |-> "run", number |-> batches + 1]
  /\ CopyOver("eco", batches + 1, FALSE)
  /\ UNCHANGED <<geo, intensity, rebuild, rebuilds>>

CopyKind ==
  /\ copier.at \in {"run", "hog"}
  /\ copier' = [copier EXCEPT !.at = AfterCopying(@)]
  /\ CopyOver(copier.at, copier.number, FALSE)
  /\ UNCHANGED <<geo, intensity, rebuild, batches, rebuilds>>

(* Mutant: the script goes on to the compression.                          *)
CopierCompresses ==
  /\ copier.at = "duplicates" /\ copier' = [copier EXCEPT !.at = "compress"]
  /\ RemoveDuplicates
  /\ UNCHANGED <<geo, intensity, rebuild, batches, rebuilds>>

(* validate_table_constraints() behind it only raises.                     *)
CopierRemoves ==
  /\ copier.at = "duplicates" /\ copier' = Off
  /\ RemoveDuplicates
  /\ UNCHANGED <<geo, intensity, rebuild, batches, rebuilds>>

(* The script may die before any of its statements.                        *)
CopierDies ==
  /\ copier.at # "off" /\ copier' = Off
  /\ UNCHANGED <<now, world, row, counted, readings, geo, intensity, rebuild, batches,
                 rebuilds, history>>

(* Mutant: the look-back ends at the minute, not at midnight.              *)
CompressedToTheMinute(key) ==
  Exists(key) /\ row[key].carbon # NoCarbon
  /\ taken[key[1]] > now - MergeDays * SlotsPerDay

Compressed(key) ==
  Exists(key) /\ row[key].carbon # NoCarbon /\ Recent(taken[key[1]])

SameSum(m, n) == kind[m] = kind[n] /\ Group[m] = Group[n] /\ Day(taken[m]) = Day(taken[n])

(* The sums of every group and day with a row to compress are replaced.    *)
SumsReplaced == {m \in Measurements : Arrived(m) /\ \E key \in RawKeys :
                   Compressed(key) /\ SameSum(m, key[1])}

CompressRaw ==
  /\ counted' = [m \in Measurements |->
       IF m \in SumsReplaced THEN Cardinality({key \in Copies(m) : Compressed(key)})
       ELSE counted[m]]
  /\ UNCHANGED <<now, world, row, readings, history>>

(* carbondb_compress.py: its statements are sent as one, in a transaction. *)
Compress == CompressRaw /\ UNCHANGED scripts

-----------------------------------------------------------------------------
(* rebuild_carbondb.py                                                     *)

StartRebuild ==
  /\ rebuild.at = "off" /\ batches < MaxBatches /\ rebuilds < MaxRebuilds
  /\ batches' = batches + 1 /\ rebuilds' = rebuilds + 1
  /\ rebuild' = [at |-> "delete", number |-> batches + 1]
  /\ counted' = [m \in Measurements |-> 0]                   \* TRUNCATE carbondb_data
  /\ UNCHANGED <<now, world, row, readings, geo, intensity, copier, history>>

Rebuilt == {m \in Measurements : kind[m] \in {"eco", "run"}}

RebuildDeletes ==
  /\ rebuild.at = "delete" /\ rebuild' = [rebuild EXCEPT !.at = "eco"]
  /\ row' = [key \in Keys |-> IF key \in RawKeys /\ key[1] \in Rebuilt THEN NoRow ELSE row[key]]
  /\ blind' = blind \ Rebuilt /\ again' = again \ Rebuilt
  /\ UNCHANGED <<now, world, counted, readings, geo, intensity, copier, batches, rebuilds>>

RebuildCopies ==
  /\ rebuild.at \in {"eco", "run"}
  /\ rebuild' = [rebuild EXCEPT !.at = IF @ = "eco" THEN "run" ELSE "duplicates"]
  /\ CopyOver(rebuild.at, rebuild.number, TRUE)
  /\ UNCHANGED <<geo, intensity, copier, batches, rebuilds>>

RebuildRemoves ==
  /\ rebuild.at = "duplicates" /\ rebuild' = [rebuild EXCEPT !.at = "compress"]
  /\ RemoveDuplicates
  /\ UNCHANGED <<geo, intensity, copier, batches, rebuilds>>

RebuildCompresses ==
  /\ rebuild.at = "compress" /\ rebuild' = Off
  /\ CompressRaw
  /\ UNCHANGED <<geo, intensity, copier, batches, rebuilds>>

RebuildDies ==
  /\ rebuild.at # "off" /\ rebuild' = Off
  /\ UNCHANGED <<now, world, row, counted, readings, geo, intensity, copier, batches,
                 rebuilds, history>>

-----------------------------------------------------------------------------
Arrives ==
  \E m \in Measurements :
    EcoArrives(m) \/ HogArrives(m) \/ CustomArrives(m) \/ RunStarts(m) \/ RunEnds(m)

Backfill ==
  \/ GeoTable \/ GeoEnds \/ IntensityTable \/ UpdateCarbon \/ IntensityEnds
  \/ \E key \in Keys : GeoFill(key) \/ IntensityFill(key)

Copy == StartCopying \/ CopyKind \/ CopierRemoves \/ CopierDies

Rebuild ==
  \/ StartRebuild \/ RebuildDeletes \/ RebuildCopies \/ RebuildRemoves
  \/ RebuildCompresses \/ RebuildDies

Next == Tick \/ Arrives \/ Backfill \/ Copy \/ Compress \/ Rebuild

Spec == Init /\ [][Next]_vars

-----------------------------------------------------------------------------
(* Properties                                                              *)

(* Types of the tables and of the scripts' positions.                      *)
TypeOK ==
  /\ now \in 0 .. MaxTime
  /\ kind \in Loads /\ taken \in [Measurements -> -MaxLateness .. MaxTime]
  /\ row \in [Keys -> Row]
  /\ counted \in [Measurements -> Nat]
  /\ readings \subseteq Readings
  /\ geo \in [at : {"off", "eco", "hog", "raw"}, todo : SUBSET Keys]
  /\ intensity \in [at : {"off", "eco", "hog", "raw", "carbonEco", "carbonHog", "carbonRaw"},
                    todo : SUBSET Keys, since : 0 .. MaxTime, cache : SUBSET Readings]
  /\ copier \in [at : {"off"} \cup CopySteps, number : 0 .. batches]
  /\ rebuild \in [at : {"off", "delete", "eco", "run", "duplicates", "compress"},
                  number : 0 .. batches]
  /\ batches \in 0 .. MaxBatches /\ rebuilds \in 0 .. MaxRebuilds
  /\ blind \subseteq Measurements /\ again \subseteq Measurements

(* A compression after a completed removal counts every measurement that   *)
(* has reached the raw table once, however often the scripts ran, died or  *)
(* overlapped: unless a copy was taken before its carbon was known, or     *)
(* another one was made since the removal.                                 *)
CountedOnce ==
  [][Compress \/ RebuildCompresses =>
       \A m \in Measurements \ (blind \cup again) :
         (\E key \in Copies(m) : Compressed(key)) => counted'[m] = 1]_vars

(* A row's carbon is computed with an intensity of the measurement's own   *)
(* place and of the time it was taken, but for the delay of its arrival,   *)
(* the back-fill's look-back and its duration. Copies that were made blind *)
(* are taken for new: theirs is of the time of the copy.                   *)
Origin(m) == <<m, IF kind[m] = "custom" THEN Added ELSE Source>>
Lateness(m) == row[Origin(m)].created - taken[m]
Accuracy == BackfillWindow + MaxDelay

CarbonIsOfItsTime ==
  \A key \in Keys :
    LET m == key[1] IN
    LET r == row[key].carbon.of IN
    r \in Readings =>
      /\ r.place = Place[m]
      /\ \/ Distance(r.at, taken[m]) < Accuracy + Lateness(m)
         \/ m \in blind /\ Distance(r.at, row[key].created) < Accuracy

(* A compression replaces a day's sum only by one that still holds what    *)
(* the former held: the sums of days that leave the look-back are whole.   *)
SumsAreKept ==
  [][\A m \in Measurements \ blind :
       counted[m] > 0 /\ counted'[m] = 0 => rebuilds' # rebuilds]_vars

(* What is in carbondb_data_raw with its carbon gets into the sum of every *)
(* compression of the days that lie between the two windows.               *)
LateArrivalsCount ==
  [][Compress =>
       \A key \in RawKeys :
         /\ Exists(key) /\ row[key].carbon # NoCarbon
         /\ \/ key[2] = Added /\ Day(now) - Day(row[key].created) <= MergeDays - LateDays
            \/ Exists(<<key[1], Source>>)
               /\ Day(now) - Day(row[<<key[1], Source>>].created) <= MergeDays - LateDays
         => counted'[key[1]] > 0]_vars

(* The removal of duplicates never takes the last copy of a measurement.   *)
LastCopyStays ==
  [][CopierRemoves \/ RebuildRemoves =>
       \A a \in RawKeys : Exists(a) =>
         \E b \in RawKeys : b[1] = a[1] /\ row'[b] # NoRow /\ row'[b].carbon = row[a].carbon]_vars

(* What reached the raw table is not lost again: the last copy stays, gets *)
(* into the sums, and the sums stay.                                       *)
SumsAreWhole == LastCopyStays /\ LateArrivalsCount /\ SumsAreKept

=============================================================================
