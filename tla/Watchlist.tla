------------------------------ MODULE Watchlist ------------------------------
(***************************************************************************)
(* The watchlist: repositories that are measured again and again, by the   *)
(* calendar or on new commits and tags. cron/watchlist.py makes a pass     *)
(* over the table and inserts jobs, POST /v1/runs/add of                   *)
(* api/scenario_runner.py puts an item on the list and asks for its first  *)
(* runs, PUT /v1/watchlist deletes it.                                     *)
(*                                                                         *)
(* A pass reads the whole table once and then works through what it read,  *)
(* one statement at a time, asking the repository's host for its newest    *)
(* commit or tag on the way. Passes may overlap and may die.               *)
(***************************************************************************)
EXTENDS Integers

CONSTANTS
  Items,        (* rows of the watchlist table, listed at most once each   *)
  ModeOf,       (* schedule_mode of an item                                *)
  OffDefault,   (* items on a branch other than the repository's default   *)
  Seeded,       (* items that are on the list from the start               *)
  Gone,         (* those whose branch or repository was deleted since      *)
  Unchecked,    (* items that are added with no_url_check                  *)
  Passes,       (* processes that run "watchlist.py schedule"              *)
  MaxDay,       (* bound: days                                             *)
  MaxRevision,  (* bound: commits or tags per item                         *)
  MaxCrashes    (* bound: passes and requests that die                     *)

DateModes   == {"daily", "weekly"}
MarkerModes == {"commit", "commit-variance", "tag", "tag-variance"}

ASSUME ItemsAssumption ==
  /\ Items # {}
  /\ ModeOf \in [Items -> DateModes \cup MarkerModes]
  /\ OffDefault \subseteq {i \in Items : ModeOf[i] \in {"commit", "commit-variance"}}
  /\ Seeded \subseteq Items
  /\ Gone \subseteq {i \in Seeded : ModeOf[i] \in MarkerModes}
  /\ Unchecked \subseteq Items

ASSUME BoundsAssumption ==
  MaxDay \in Nat \ {0} /\ MaxRevision \in Nat \ {0} /\ MaxCrashes \in Nat

VARIABLES
  day,       (* the date                                                   *)
  head,      (* the newest commit of the item's branch, or its newest tag  *)
  rows,      (* the watchlist table                                        *)
  adding,    (* the runs/add request of each item                          *)
  pc,        (* where each pass is                                         *)
  snap,      (* the rows it read and has not dealt with yet                *)
  item,      (* the item it is at                                          *)
  found,     (* the revision the host named (last_marker_new)              *)
  left,      (* runs of the item still to be inserted                      *)
  began,     (* history: the day it read the table                         *)
  seen,      (* history: the items it read                                 *)
  asked,     (* history: the item's newest revision at its last INSERT     *)
  added,     (* history: ... when the item was added                       *)
  runs,      (* history: runs inserted by passes, per revision found       *)
  slots,     (* history: days a pass inserted a run for by the calendar    *)
  doubled,   (* history: items that got two such runs for one day          *)
  torn,      (* history: items a pass died over                            *)
  crashes    (* history: deaths so far, for the bound                      *)

vars == <<day, head, rows, adding, pc, snap, item, found, left, began, seen,
          asked, added, runs, slots, doubled, torn, crashes>>

world   == <<day, head>>
request == <<adding, added>>
reading == <<began, seen>>
pass    == <<pc, snap, item, found, left, reading>>
history == <<asked, runs, slots, doubled>>
deaths  == <<torn, crashes>>

None    == 0                  (* no marker; no tag                         *)
Foreign == MaxRevision + 1    (* a commit of another branch                *)

Days      == 1 .. MaxDay
Revisions == 0 .. MaxRevision
Markers   == Revisions \cup {Foreign}

(* last_scheduled is 0 before the first time.                              *)
Row == [state : {"absent", "listed", "removed"}, last : Days \cup {0}, marker : Markers]

Listed(i) == rows[i].state = "listed"

Amount(i) == IF ModeOf[i] \in {"commit-variance", "tag-variance"} THEN 3 ELSE 1

(* Mutant: a daily item waits for a full day in between.                   *)
DueAfterADay(i) == rows[i].last = 0 \/ rows[i].last + 1 < day

(* NOT DATE(last_scheduled) >= DATE(NOW()), or >= DATE(NOW() - 7 days).    *)
DueByDate(i) ==
  \/ rows[i].last = 0
  \/ ModeOf[i] = "daily" /\ rows[i].last < day
  \/ ModeOf[i] = "weekly" /\ rows[i].last + 7 < day

-----------------------------------------------------------------------------
(* The seeded items were inserted with SQL and without a marker.           *)
Init ==
  /\ day = 1
  /\ head = [i \in Items |-> IF ModeOf[i] \in {"tag", "tag-variance"} THEN None ELSE 1]
  /\ rows = [i \in Items |-> [state |-> IF i \in Seeded THEN "listed" ELSE "absent",
                             last |-> 0, marker |-> None]]
  /\ adding = [i \in Items |-> IF i \in Seeded THEN "done" ELSE "no"]
  /\ pc = [p \in Passes |-> "idle"]
  /\ snap = [p \in Passes |-> {}]
  /\ item = [p \in Passes |-> CHOOSE i \in Items : TRUE]
  /\ found = [p \in Passes |-> None]
  /\ left = [p \in Passes |-> 0]
  /\ began = [p \in Passes |-> 1]
  /\ seen = [p \in Passes |-> {}]
  /\ asked = [i \in Items |-> None]
  /\ added = [i \in Items |-> None]
  /\ runs = [i \in Items |-> [r \in Revisions |-> 0]]
  /\ slots = [i \in Items |-> {}]
  /\ doubled = {}
  /\ torn = {}
  /\ crashes = 0

-----------------------------------------------------------------------------
(* Midnight, and a push to where a pass will see it.                       *)
NextDay ==
  /\ day < MaxDay
  /\ day' = day + 1
  /\ UNCHANGED <<head, rows, request, pass, history, deaths>>

Push(i) ==
  /\ ModeOf[i] \in MarkerModes
  /\ i \notin Gone
  /\ head[i] < MaxRevision
  /\ head' = [head EXCEPT ![i] = @ + 1]
  /\ UNCHANGED <<day, rows, request, pass, history, deaths>>

-----------------------------------------------------------------------------
(* POST /v1/runs/add.                                                      *)

(* The newest tag, or the newest commit: of the repository's default       *)
(* branch, since the call names no branch. None with no_url_check or a     *)
(* schedule by the calendar.                                               *)
MarkerOnAdding(i) ==
  CASE i \in Unchecked \/ ModeOf[i] \in DateModes -> None
    [] i \in OffDefault \ Unchecked                -> Foreign
    [] OTHER                                       -> head[i]

(* A host that does not answer refuses the request.                        *)
AddLooksUp(i) ==
  /\ adding[i] = "no"
  /\ adding' = [adding EXCEPT ![i] = "looked"]
  /\ added' = [added EXCEPT ![i] = head[i]]
  /\ rows' = [rows EXCEPT ![i].marker = MarkerOnAdding(i)]
  /\ UNCHANGED <<world, pass, history, deaths>>

AddLists(i) ==
  /\ adding[i] = "looked"
  /\ adding' = [adding EXCEPT ![i] = "listed"]
  /\ rows' = [rows EXCEPT ![i].state = "listed"]
  /\ UNCHANGED <<world, added, pass, history, deaths>>

(* Mutant: items of the watchlist get no run directly.                     *)
AddWithoutRuns(i) ==
  /\ adding[i] = "listed"
  /\ adding' = [adding EXCEPT ![i] = "done"]
  /\ UNCHANGED <<world, rows, added, pass, history, deaths>>

(* "even for Watchlist items we do at least one run directly"              *)
AddAsksForRuns(i) ==
  /\ adding[i] = "listed"
  /\ adding' = [adding EXCEPT ![i] = "done"]
  /\ asked' = [asked EXCEPT ![i] = head[i]]
  /\ UNCHANGED <<world, rows, added, pass, runs, slots, doubled, deaths>>

(* DELETE FROM watchlist                                                   *)
Remove(i) ==
  /\ Listed(i)
  /\ rows' = [rows EXCEPT ![i].state = "removed"]
  /\ UNCHANGED <<world, request, pass, history, deaths>>

-----------------------------------------------------------------------------
(* watchlist.py schedule.                                                  *)

(* One SELECT reads all rows, and what is due by the calendar now.         *)
StartPass(p) ==
  /\ pc[p] = "idle"
  /\ pc' = [pc EXCEPT ![p] = "next"]
  /\ snap' = [snap EXCEPT ![p] =
       {[id |-> i, due |-> DueByDate(i), marker |-> rows[i].marker] : i \in {j \in Items : Listed(j)}}]
  /\ began' = [began EXCEPT ![p] = day]
  /\ seen' = [seen EXCEPT ![p] = {i \in Items : Listed(i)}]
  /\ UNCHANGED <<world, rows, request, item, found, left, history, deaths>>

(* The pass turns to one of the rows it read, and works on it or goes on.  *)
Turn(p, r) ==
  /\ pc[p] = "next"
  /\ r \in snap[p]
  /\ snap' = [snap EXCEPT ![p] = @ \ {r}]

WorkOn(p, i, step) ==
  /\ item' = [item EXCEPT ![p] = i]
  /\ pc' = [pc EXCEPT ![p] = step]

DateItem(p, r) ==
  /\ Turn(p, r)
  /\ ModeOf[r.id] \in DateModes
  /\ IF r.due THEN WorkOn(p, r.id, "touch") ELSE UNCHANGED <<item, pc>>
  /\ UNCHANGED <<world, rows, request, found, left, reading, history, deaths>>

(* UPDATE watchlist SET last_scheduled = NOW(): no row if it was deleted.  *)
(* The day is kept in found, which a calendar item has no other use for.   *)
Touch(p) ==
  /\ pc[p] = "touch"
  /\ pc' = [pc EXCEPT ![p] = "insert"]
  /\ rows' = IF Listed(item[p]) THEN [rows EXCEPT ![item[p]].last = day] ELSE rows
  /\ found' = [found EXCEPT ![p] = day]
  /\ UNCHANGED <<world, request, snap, item, left, reading, history, deaths>>

(* ... and then the INSERT of the run.                                     *)
InsertDated(p) ==
  LET i == item[p] IN
  /\ pc[p] = "insert"
  /\ pc' = [pc EXCEPT ![p] = "next"]
  /\ slots' = [slots EXCEPT ![i] = @ \cup {found[p]}]
  /\ doubled' = IF found[p] \in slots[i] THEN doubled \cup {i} ELSE doubled
  /\ found' = [found EXCEPT ![p] = None]
  /\ UNCHANGED <<world, rows, request, snap, item, left, reading, asked, runs, deaths>>

(* get_repo_last_marker() is called with the marker that was read in mind  *)
(* (found) ...                                                             *)
MarkerItem(p, r) ==
  /\ Turn(p, r)
  /\ ModeOf[r.id] \in MarkerModes
  /\ WorkOn(p, r.id, "look")
  /\ found' = [found EXCEPT ![p] = r.marker]
  /\ UNCHANGED <<world, rows, request, left, reading, history, deaths>>

(* ... and answers, for the item's branch this time: a marker that has not *)
(* changed since the table was read needs no run.                          *)
LookupAnswers(p) ==
  LET new == head[item[p]] IN
  /\ pc[p] = "look"
  /\ item[p] \notin Gone
  /\ IF new = found[p]
       THEN /\ pc' = [pc EXCEPT ![p] = "next"]
            /\ found' = [found EXCEPT ![p] = None]
            /\ UNCHANGED left
       ELSE /\ pc' = [pc EXCEPT ![p] = "run"]
            /\ found' = [found EXCEPT ![p] = new]
            /\ left' = [left EXCEPT ![p] = Amount(item[p])]
  /\ UNCHANGED <<world, rows, request, snap, item, reading, history, deaths>>

(* Mutant: one item that cannot be looked up ends the pass.                *)
LookupEndsPass(p) ==
  /\ pc[p] = "look"
  /\ pc' = [pc EXCEPT ![p] = "idle"]
  /\ snap' = [snap EXCEPT ![p] = {}]
  /\ found' = [found EXCEPT ![p] = None]
  /\ UNCHANGED <<world, rows, request, item, left, reading, history, deaths>>

(* RuntimeError: log, and continue with the next row.                      *)
LookupFails(p) ==
  /\ pc[p] = "look"
  /\ pc' = [pc EXCEPT ![p] = "next"]
  /\ found' = [found EXCEPT ![p] = None]
  /\ UNCHANGED <<world, rows, request, snap, item, left, reading, history, deaths>>

InsertRun(p) ==
  LET i == item[p] IN
  /\ pc[p] = "run"
  /\ pc' = [pc EXCEPT ![p] = "mark"]
  /\ asked' = [asked EXCEPT ![i] = head[i]]
  /\ runs' = [runs EXCEPT ![i][found[p]] = @ + 1]
  /\ UNCHANGED <<world, rows, request, snap, item, found, left, reading, slots,
                 doubled, deaths>>

(* Mutant: the loop ends after the first run.                              *)
MarkAndLeave(p) ==
  LET i == item[p] IN
  /\ pc[p] = "mark"
  /\ rows' = IF Listed(i) THEN [rows EXCEPT ![i].marker = found[p]] ELSE rows
  /\ pc' = [pc EXCEPT ![p] = "next"]
  /\ left' = [left EXCEPT ![p] = 0]
  /\ found' = [found EXCEPT ![p] = None]
  /\ UNCHANGED <<world, request, snap, item, reading, history, deaths>>

(* UPDATE watchlist SET last_marker, after each of the INSERTs.            *)
Mark(p) ==
  LET i == item[p] IN
  /\ pc[p] = "mark"
  /\ rows' = IF Listed(i) THEN [rows EXCEPT ![i].marker = found[p]] ELSE rows
  /\ left' = [left EXCEPT ![p] = @ - 1]
  /\ pc' = [pc EXCEPT ![p] = IF left[p] = 1 THEN "next" ELSE "run"]
  /\ found' = IF left[p] = 1 THEN [found EXCEPT ![p] = None] ELSE found
  /\ UNCHANGED <<world, request, snap, item, reading, history, deaths>>

(* What a pass read is of no interest once it has ended.                   *)
Forget(p) ==
  /\ began' = [began EXCEPT ![p] = 1]
  /\ seen' = [seen EXCEPT ![p] = {}]

Finished(p) == pc[p] = "next" /\ snap[p] = {}

EndPass(p) ==
  /\ Finished(p)
  /\ pc' = [pc EXCEPT ![p] = "idle"]
  /\ Forget(p)
  /\ UNCHANGED <<world, rows, request, snap, item, found, left, history, deaths>>

-----------------------------------------------------------------------------
(* A pass dies or ends early: the database stays away, or the host's       *)
(* answer cannot be parsed, which is no RuntimeError. Between the two      *)
(* statements of a run, and between the runs of a series, this tells.      *)
PassDies(p) ==
  /\ pc[p] # "idle"
  /\ crashes < MaxCrashes
  /\ crashes' = crashes + 1
  /\ torn' = IF \/ pc[p] \in {"insert", "mark"}
                \/ pc[p] = "run" /\ left[p] < Amount(item[p])
               THEN torn \cup {item[p]} ELSE torn
  /\ pc' = [pc EXCEPT ![p] = "idle"]
  /\ snap' = [snap EXCEPT ![p] = {}]
  /\ found' = [found EXCEPT ![p] = None]
  /\ left' = [left EXCEPT ![p] = 0]
  /\ Forget(p)
  /\ UNCHANGED <<world, rows, request, item, history>>

(* The request dies between listing the item and asking for its runs.      *)
RequestDies(i) ==
  /\ adding[i] = "listed"
  /\ crashes < MaxCrashes
  /\ crashes' = crashes + 1
  /\ adding' = [adding EXCEPT ![i] = "died"]
  /\ UNCHANGED <<world, rows, added, pass, history, torn>>

-----------------------------------------------------------------------------
PassStep(p) ==
  \/ StartPass(p)
  \/ \E r \in snap[p] : DateItem(p, r) \/ MarkerItem(p, r)
  \/ LookupAnswers(p) \/ LookupFails(p)
  \/ Touch(p)
  \/ InsertDated(p)
  \/ InsertRun(p)
  \/ Mark(p)
  \/ EndPass(p)

Add(i) == AddLooksUp(i) \/ AddLists(i) \/ AddAsksForRuns(i)

Next ==
  \/ NextDay
  \/ \E i \in Items : Push(i) \/ Add(i) \/ RequestDies(i) \/ Remove(i)
  \/ \E p \in Passes : PassStep(p) \/ PassDies(p)

Spec == Init /\ [][Next]_vars

(* cron starts a pass again and again and a pass goes on to its end; a     *)
(* request that has listed an item ends; the host finds every item that is *)
(* not gone, though not every time.                                        *)
Fairness ==
  /\ \A i \in Items : WF_vars(AddAsksForRuns(i))
  /\ \A p \in Passes :
       /\ WF_vars(PassStep(p))
       /\ \A i \in Items : SF_vars(item[p] = i /\ LookupAnswers(p))

LiveSpec == Spec /\ Fairness

-----------------------------------------------------------------------------
TypeOK ==
  /\ day \in Days
  /\ head \in [Items -> Revisions]
  /\ rows \in [Items -> Row]
  /\ adding \in [Items -> {"no", "looked", "listed", "done", "died"}]
  /\ pc \in [Passes -> {"idle", "next", "touch", "insert", "look", "run", "mark"}]
  /\ snap \in [Passes -> SUBSET [id : Items, due : BOOLEAN, marker : Markers]]
  /\ item \in [Passes -> Items]
  /\ found \in [Passes -> Nat]
  /\ left \in [Passes -> 0 .. 3]
  /\ began \in [Passes -> Days]
  /\ seen \in [Passes -> SUBSET Items]
  /\ asked \in [Items -> Revisions]
  /\ added \in [Items -> Revisions]
  /\ runs \in [Items -> [Revisions -> Nat]]
  /\ slots \in [Items -> SUBSET Days]
  /\ doubled \subseteq Items
  /\ torn \subseteq Items
  /\ crashes \in 0 .. MaxCrashes

(* A revision is marked as seen only if a run was asked for at or after    *)
(* it, so that no commit or tag is lost: through overlapping passes, late  *)
(* passes that set the marker back and passes that die. The one exception  *)
(* is a request that has listed the item and not yet asked for its runs,   *)
(* or died before it could.                                                *)
MarkedIsAsked ==
  \A i \in Items :
    Listed(i) /\ rows[i].marker \in Revisions =>
      \/ rows[i].marker <= asked[i]
      \/ adding[i] \in {"listed", "died"}

(* A pass that does not overlap another gives each revision it finds new   *)
(* its one run or series of three, whole and once, unless it dies in the   *)
(* middle.                                                                 *)
SeriesAreWhole ==
  \A i \in Items, r \in Revisions :
    \/ runs[i][r] \in {0, Amount(i)}
    \/ i \in torn
    \/ \E p \in Passes : pc[p] \in {"run", "mark"} /\ item[p] = i /\ found[p] = r

(* ... and an item that runs by the calendar at most one run per day it is *)
(* scheduled for, deaths and passes across midnight included.              *)
OncePerDay == doubled = {}

(* The item got a run within the last n days, or a pass died between       *)
(* recording the day and inserting the run.                                *)
Served(i, n) ==
  /\ rows[i].last > 0
  /\ day < rows[i].last + n
  /\ rows[i].last \in slots[i] \/ i \in torn

(* A pass that begins and finishes on one day leaves no daily item it read *)
(* without a run for that day, unless a pass died over the item.           *)
PassServes ==
  \A p \in Passes, i \in Items :
    Finished(p) /\ i \in seen[p] /\ Listed(i) /\ ModeOf[i] = "daily" /\ began[p] = day =>
      Served(i, 1)

(* Every commit or tag of a listed item the host can find is followed by a *)
(* run, whatever other items are on the list, and however passes die.      *)
EveryRevisionIsRun ==
  \A i \in Items, r \in Revisions \ {None} :
    Listed(i) /\ ModeOf[i] \in MarkerModes /\ i \notin Gone /\ head[i] = r ~>
      asked[i] >= r \/ ~Listed(i) \/ adding[i] = "died"

-----------------------------------------------------------------------------
(* What the submission form promises and the code does not keep: TLC       *)
(* refutes both, on nine days of a weekly item (WeeklyModes), and on an    *)
(* item off the default branch (BranchModes).                              *)

(* "Once per week"                                                         *)
OncePerWeek ==
  \A p \in Passes, i \in Items :
    Finished(p) /\ i \in seen[p] /\ Listed(i) /\ ModeOf[i] = "weekly" /\ began[p] = day =>
      Served(i, 7)

(* "On every new commit": a pass asks for runs of commits newer than the   *)
(* one the item was added, and run directly, at.                           *)
OnlyNewCommits ==
  \A i \in Items, r \in Revisions :
    runs[i][r] > 0 /\ adding[i] = "done" => r > added[i]

=============================================================================
