----------------------------- MODULE UsersProofs -----------------------------
(***************************************************************************)
(* Proofs about what the server keeps for its users: what they want run,   *)
(* Watchlist, and what they may still use, Accounts.                       *)
(*                                                                         *)
(* Watchlist, for any number of items, passes, days, commits and deaths:   *)
(* passes overlap and write markers they learned long ago, so a marker may *)
(* go back; what keeps a commit from being lost is the order of two        *)
(* INSERTs and UPDATEs, and that the host's newest commit is never older   *)
(* than one it has named before.                                           *)
(***************************************************************************)
EXTENDS Watchlist, Accounts, FiniteSetTheorems, TLAPS

(* A pass in the loop over the runs of an item has one to go, of a commit  *)
(* or tag of the item's.                                                   *)
LoopHasRuns ==
  \A p \in Passes : pc[p] \in {"run", "mark"} => left[p] > 0 /\ found[p] \in Revisions

(* A pass about to insert a run by the calendar knows the day it is for.   *)
DayInHand == \A p \in Passes : pc[p] = "insert" => found[p] \in Days

(* No marker of the item's own branch, no run and no pass is ahead of the  *)
(* host.                                                                   *)
BehindHost ==
  /\ \A i \in Items : asked[i] <= head[i]
  /\ \A i \in Items : rows[i].marker \in Revisions => rows[i].marker <= head[i]
  /\ \A p \in Passes : pc[p] \in {"run", "mark"} => found[p] <= head[item[p]]

(* A pass about to write a marker has asked for a run of it.               *)
FoundIsAsked == \A p \in Passes : pc[p] = "mark" => found[p] <= asked[item[p]]

(* An item is not on the list before its request has put it there.         *)
AddingIsUnlisted ==
  \A i \in Items : adding[i] \in {"no", "looked"} => rows[i].state = "absent"

-----------------------------------------------------------------------------
(* Commits, tags and the markers of other branches are numbers.            *)
LEMMA MarkersAreNaturals ==
  Markers \subseteq Nat /\ Revisions \subseteq Markers /\ None \in Revisions
  BY BoundsAssumption DEF Markers, Revisions, Foreign, None

(* The three UPDATEs of a row.                                             *)
LEMMA UpdateLemma ==
  ASSUME TypeOK, NEW i \in Items
  PROVE  /\ \A s \in {"absent", "listed", "removed"} :
              [rows EXCEPT ![i].state = s] \in [Items -> Row]
         /\ \A d \in Days : [rows EXCEPT ![i].last = d] \in [Items -> Row]
         /\ \A m \in Markers : [rows EXCEPT ![i].marker = m] \in [Items -> Row]
<1>1. rows \in [Items -> Row]
  BY DEF TypeOK
<1>. QED
  BY <1>1 DEF Row

(* What the two UPDATEs of a pass leave alone.                             *)
LEMMA PassUpdateLemma ==
  ASSUME TypeOK, NEW p \in Passes
  PROVE  /\ Touch(p) =>
              \A i \in Items : /\ rows'[i].state = rows[i].state
                              /\ rows'[i].marker = rows[i].marker
         /\ Mark(p) =>
              \A i \in Items : /\ rows'[i].state = rows[i].state
                              /\ rows'[i].last = rows[i].last
                              /\ \/ rows'[i].marker = rows[i].marker
                                 \/ i = item[p] /\ rows'[i].marker = found[p]
<1>1. rows \in [Items -> Row] /\ item[p] \in Items
  BY DEF TypeOK
<1>2. \A i \in Items : rows[i] \in Row
  BY <1>1
<1>3. ASSUME Touch(p)
      PROVE  \A i \in Items : /\ rows'[i].state = rows[i].state
                              /\ rows'[i].marker = rows[i].marker
  <2>1. CASE Listed(item[p])
    BY <1>1, <1>2, <1>3, <2>1 DEF Touch, Row
  <2>2. CASE ~Listed(item[p])
    BY <1>3, <2>2 DEF Touch
  <2>. QED
    BY <2>1, <2>2
<1>4. ASSUME Mark(p)
      PROVE  \A i \in Items : /\ rows'[i].state = rows[i].state
                              /\ rows'[i].last = rows[i].last
                              /\ \/ rows'[i].marker = rows[i].marker
                                 \/ i = item[p] /\ rows'[i].marker = found[p]
  <2>1. CASE Listed(item[p])
    BY <1>1, <1>2, <1>4, <2>1 DEF Mark, Row
  <2>2. CASE ~Listed(item[p])
    BY <1>4, <2>2 DEF Mark
  <2>. QED
    BY <2>1, <2>2
<1>. QED
  BY <1>3, <1>4

(* Every step keeps the types of the list, the passes and the requests.    *)
LEMMA TypeStep == TypeOK /\ LoopHasRuns /\ DayInHand /\ [Next]_vars => TypeOK'
<1>. SUFFICES ASSUME TypeOK, LoopHasRuns, DayInHand, [Next]_vars
              PROVE  TypeOK'
  OBVIOUS
<1>. USE DEF TypeOK, world, request, pass, reading, history, deaths
<1>1. CASE NextDay
  BY <1>1, BoundsAssumption DEF NextDay, Days
<1>2. ASSUME NEW i \in Items, Push(i)
      PROVE  TypeOK'
  <2>1. head[i] + 1 \in Revisions
    BY <1>2, BoundsAssumption DEF Push, Revisions
  <2>. QED
    BY <1>2, <2>1 DEF Push
<1>3. ASSUME NEW i \in Items, Add(i)
      PROVE  TypeOK'
  <2>1. CASE AddLooksUp(i)
    <3>1. MarkerOnAdding(i) \in Markers
      BY BoundsAssumption DEF MarkerOnAdding, Markers, Foreign, None, Revisions
    <3>2. rows' \in [Items -> Row]
      BY <2>1, <3>1, UpdateLemma DEF AddLooksUp
    <3>. QED
      BY <2>1, <3>2 DEF AddLooksUp
  <2>2. CASE AddLists(i)
    <3>1. rows' \in [Items -> Row]
      BY <2>2, UpdateLemma DEF AddLists
    <3>. QED
      BY <2>2, <3>1 DEF AddLists
  <2>3. CASE AddAsksForRuns(i)
    BY <2>3 DEF AddAsksForRuns
  <2>. QED
    BY <1>3, <2>1, <2>2, <2>3 DEF Add
<1>4. ASSUME NEW i \in Items, Remove(i)
      PROVE  TypeOK'
  <2>1. rows' \in [Items -> Row]
    BY <1>4, UpdateLemma DEF Remove
  <2>. QED
    BY <1>4, <2>1 DEF Remove
<1>5. ASSUME NEW i \in Items, RequestDies(i)
      PROVE  TypeOK'
  BY <1>5, BoundsAssumption DEF RequestDies
<1>6. ASSUME NEW p \in Passes, StartPass(p)
      PROVE  TypeOK'
  <2>1. snap'[p] \subseteq [id : Items, due : BOOLEAN, marker : Markers]
    <3>1. \A i \in Items : DueByDate(i) \in BOOLEAN
      BY DEF DueByDate
    <3>2. \A i \in Items : rows[i].marker \in Markers
      BY DEF Row
    <3>. QED
      BY <1>6, <3>1, <3>2 DEF StartPass
  <2>. QED
    BY <1>6, <2>1 DEF StartPass
<1>7. ASSUME NEW p \in Passes, NEW r \in snap[p], DateItem(p, r) \/ MarkerItem(p, r)
      PROVE  TypeOK'
  <2>1. r \in [id : Items, due : BOOLEAN, marker : Markers]
    OBVIOUS
  <2>2. r.marker \in Nat
    BY <2>1, MarkersAreNaturals
  <2>3. snap' \in [Passes -> SUBSET [id : Items, due : BOOLEAN, marker : Markers]]
    <3>1. snap' = [snap EXCEPT ![p] = @ \ {r}]
      BY <1>7 DEF DateItem, MarkerItem, Turn
    <3>. QED
      BY <3>1
  <2>4. CASE DateItem(p, r)
    BY <2>1, <2>3, <2>4 DEF DateItem, Turn, WorkOn
  <2>5. CASE MarkerItem(p, r)
    BY <2>1, <2>2, <2>3, <2>5, SMTT(30) DEF MarkerItem, Turn, WorkOn
  <2>. QED
    BY <1>7, <2>4, <2>5
<1>8. ASSUME NEW p \in Passes, LookupAnswers(p) \/ LookupFails(p)
      PROVE  TypeOK'
  <2>1. Amount(item[p]) \in 0 .. 3
    BY DEF Amount
  <2>2. head[item[p]] \in Nat /\ None \in Nat
    BY MarkersAreNaturals
  <2>3. CASE LookupAnswers(p)
    BY <2>1, <2>2, <2>3, ZenonT(30) DEF LookupAnswers
  <2>4. CASE LookupFails(p)
    BY <2>2, <2>4 DEF LookupFails
  <2>. QED
    BY <1>8, <2>3, <2>4
<1>9. ASSUME NEW p \in Passes, Touch(p)
      PROVE  TypeOK'
  <2>1. rows' \in [Items -> Row]
    BY <1>9, UpdateLemma DEF Touch
  <2>. QED
    BY <1>9, <2>1 DEF Touch, Days
<1>10. ASSUME NEW p \in Passes, InsertDated(p)
       PROVE  TypeOK'
  <2>1. found[p] \in Days
    BY <1>10 DEF InsertDated, DayInHand
  <2>. QED
    BY <1>10, <2>1 DEF InsertDated, None
<1>11. ASSUME NEW p \in Passes, InsertRun(p)
       PROVE  TypeOK'
  BY <1>11 DEF InsertRun, LoopHasRuns
<1>12. ASSUME NEW p \in Passes, Mark(p)
       PROVE  TypeOK'
  <2>1. rows' \in [Items -> Row]
    BY <1>12, UpdateLemma, MarkersAreNaturals DEF Mark, LoopHasRuns
  <2>2. left' \in [Passes -> 0 .. 3]
    BY <1>12 DEF Mark, LoopHasRuns
  <2>. QED
    BY <1>12, <2>1, <2>2 DEF Mark, None
<1>13. ASSUME NEW p \in Passes, EndPass(p) \/ PassDies(p)
       PROVE  TypeOK'
  <2>1. 1 \in Days /\ None \in Nat
    BY BoundsAssumption DEF Days, None
  <2>2. CASE EndPass(p)
    BY <2>1, <2>2 DEF EndPass, Forget
  <2>3. CASE PassDies(p)
    <3>1. crashes' \in 0 .. MaxCrashes
      BY <2>3, BoundsAssumption DEF PassDies
    <3>2. torn' \subseteq Items
      BY <2>3 DEF PassDies
    <3>. QED
      BY <2>1, <2>3, <3>1, <3>2 DEF PassDies, Forget
  <2>. QED
    BY <1>13, <2>2, <2>3
<1>14. CASE UNCHANGED vars
  BY <1>14 DEF vars
<1>. QED
  BY <1>1, <1>2, <1>3, <1>4, <1>5, <1>6, <1>7, <1>8, <1>9, <1>10, <1>11,
     <1>12, <1>13, <1>14 DEF Next, PassStep

(* What goes on outside of passes leaves them alone.                       *)
LEMMA OutsideStep ==
  ASSUME NextDay \/ \E i \in Items : Push(i) \/ Add(i) \/ RequestDies(i) \/ Remove(i)
  PROVE  UNCHANGED pass
  BY DEF NextDay, Push, Add, AddLooksUp, AddLists, AddAsksForRuns, RequestDies, Remove

(* A pass leaves the loop over an item's runs with the last of them.       *)
LEMMA LoopStep == TypeOK /\ LoopHasRuns /\ [Next]_vars => LoopHasRuns'
<1>. SUFFICES ASSUME TypeOK, LoopHasRuns, [Next]_vars
              PROVE  LoopHasRuns'
  OBVIOUS
<1>. USE DEF LoopHasRuns, TypeOK
<1>1. CASE UNCHANGED pass
  BY <1>1 DEF pass
<1>2. ASSUME NEW p \in Passes, StartPass(p) \/ Touch(p) \/ InsertDated(p) \/ LookupFails(p)
                             \/ EndPass(p) \/ PassDies(p)
      PROVE  LoopHasRuns'
  BY <1>2 DEF StartPass, Touch, InsertDated, LookupFails, EndPass, PassDies
<1>3. ASSUME NEW p \in Passes, NEW r \in snap[p], DateItem(p, r) \/ MarkerItem(p, r)
      PROVE  LoopHasRuns'
  BY <1>3 DEF DateItem, MarkerItem, Turn, WorkOn
<1>4. ASSUME NEW p \in Passes, LookupAnswers(p)
      PROVE  LoopHasRuns'
  <2>1. Amount(item[p]) \in 1 .. 3
    BY DEF Amount
  <2>. SUFFICES ASSUME NEW q \in Passes, pc'[q] \in {"run", "mark"}
               PROVE  left'[q] > 0 /\ found'[q] \in Revisions
    OBVIOUS
  <2>2. CASE q = p
    BY <1>4, <2>1, <2>2 DEF LookupAnswers
  <2>3. CASE q # p
    BY <1>4, <2>3 DEF LookupAnswers
  <2>. QED
    BY <2>2, <2>3
<1>5. ASSUME NEW p \in Passes, InsertRun(p)
      PROVE  LoopHasRuns'
  BY <1>5 DEF InsertRun
<1>6. ASSUME NEW p \in Passes, Mark(p)
      PROVE  LoopHasRuns'
  <2>. SUFFICES ASSUME NEW q \in Passes, pc'[q] \in {"run", "mark"}
               PROVE  left'[q] > 0 /\ found'[q] \in Revisions
    OBVIOUS
  <2>1. CASE q = p
    <3>0. pc[p] = "mark" /\ left[p] \in 0 .. 3
      BY <1>6 DEF Mark
    <3>1. left[p] > 0 /\ left[p] \in Int /\ found[p] \in Revisions
      BY <3>0
    <3>2. left[p] # 1 /\ found'[p] = found[p] /\ left'[p] = left[p] - 1
      BY <1>6, <2>1 DEF Mark
    <3>. QED
      BY <3>1, <3>2, <2>1
  <2>2. CASE q # p
    BY <1>6, <2>2 DEF Mark
  <2>. QED
    BY <2>1, <2>2
<1>7. CASE UNCHANGED vars
  BY <1>7 DEF vars
<1>. QED
  BY <1>1, <1>2, <1>3, <1>4, <1>5, <1>6, <1>7, OutsideStep DEF Next, PassStep

(* A pass inserts a run for the day it read with the item.                 *)
LEMMA DayStep == TypeOK /\ DayInHand /\ [Next]_vars => DayInHand'
<1>. SUFFICES ASSUME TypeOK, DayInHand, [Next]_vars
              PROVE  DayInHand'
  OBVIOUS
<1>. USE DEF DayInHand, TypeOK
<1>1. CASE UNCHANGED pass
  BY <1>1 DEF pass
<1>2. ASSUME NEW p \in Passes, PassStep(p) \/ PassDies(p)
      PROVE  DayInHand'
  <2>1. CASE Touch(p)
    BY <2>1 DEF Touch
  <2>2. CASE \E r \in snap[p] : DateItem(p, r) \/ MarkerItem(p, r)
    BY <2>2 DEF DateItem, MarkerItem, Turn, WorkOn
  <2>3. CASE LookupAnswers(p) \/ LookupFails(p) \/ InsertRun(p) \/ Mark(p)
    BY <2>3 DEF LookupAnswers, LookupFails, InsertRun, Mark
  <2>4. CASE StartPass(p) \/ InsertDated(p) \/ EndPass(p) \/ PassDies(p)
    BY <2>4 DEF StartPass, InsertDated, EndPass, PassDies
  <2>. QED
    BY <1>2, <2>1, <2>2, <2>3, <2>4 DEF PassStep
<1>3. CASE UNCHANGED vars
  BY <1>3 DEF vars
<1>. QED
  BY <1>1, <1>2, <1>3, OutsideStep DEF Next

(* The empty list has its types.                                           *)
LEMMA InitLemma == Init => TypeOK /\ LoopHasRuns /\ DayInHand
<1>. SUFFICES ASSUME Init
              PROVE  TypeOK /\ LoopHasRuns /\ DayInHand
  OBVIOUS
<1>1. 1 \in Days /\ 1 \in Revisions /\ None \in Revisions
  BY BoundsAssumption DEF Days, Revisions, None
<1>2. rows \in [Items -> Row]
  BY <1>1, MarkersAreNaturals DEF Init, Row
<1>3. item \in [Passes -> Items]
  BY ItemsAssumption DEF Init
<1>4. /\ head \in [Items -> Revisions]
      /\ asked \in [Items -> Revisions]
      /\ added \in [Items -> Revisions]
      /\ runs \in [Items -> [Revisions -> Nat]]
  BY <1>1 DEF Init
<1>5. /\ found \in [Passes -> Nat]
      /\ left \in [Passes -> 0 .. 3]
      /\ crashes \in 0 .. MaxCrashes
  BY BoundsAssumption DEF Init, None
<1>6. TypeOK
  BY <1>1, <1>2, <1>3, <1>4, <1>5 DEF Init, TypeOK
<1>. QED
  BY <1>6 DEF Init, LoopHasRuns, DayInHand

(* The table, the requests and the passes have their types in every        *)
(* reachable state, and no pass counts the runs of a series below zero.    *)
THEOREM TypeCorrect == Spec => []TypeOK
<1>1. TypeOK /\ LoopHasRuns /\ DayInHand /\ [Next]_vars
        => (TypeOK /\ LoopHasRuns /\ DayInHand)'
  BY TypeStep, LoopStep, DayStep
<1>. QED
  BY <1>1, InitLemma, PTL DEF Spec

-----------------------------------------------------------------------------
(* No commit is lost.                                                      *)

(* Only the last part of a request puts an item on the list.               *)
LEMMA AddingStep == TypeOK /\ AddingIsUnlisted /\ [Next]_vars => AddingIsUnlisted'
<1>. SUFFICES ASSUME TypeOK, AddingIsUnlisted, [Next]_vars
              PROVE  AddingIsUnlisted'
  OBVIOUS
<1>. USE DEF TypeOK, AddingIsUnlisted
<1>1. CASE NextDay \/ \E i \in Items : Push(i)
  BY <1>1 DEF NextDay, Push, request
<1>2. ASSUME NEW i \in Items, Add(i) \/ RequestDies(i) \/ Remove(i)
      PROVE  AddingIsUnlisted'
  <2>1. CASE Remove(i)
    BY <2>1 DEF Remove, Listed, Row, request
  <2>2. CASE AddLooksUp(i)
    BY <2>2 DEF AddLooksUp, Row
  <2>3. CASE AddLists(i)
    BY <2>3 DEF AddLists, Row
  <2>4. CASE AddAsksForRuns(i) \/ RequestDies(i)
    BY <2>4 DEF AddAsksForRuns, RequestDies
  <2>. QED
    BY <1>2, <2>1, <2>2, <2>3, <2>4 DEF Add
<1>3. ASSUME NEW p \in Passes, PassStep(p) \/ PassDies(p)
      PROVE  AddingIsUnlisted'
  <2>1. CASE Touch(p) \/ Mark(p)
    <3>1. \A i \in Items : rows'[i].state = rows[i].state
      BY <2>1, PassUpdateLemma
    <3>. QED
      BY <2>1, <3>1 DEF Touch, Mark, request
  <2>2. CASE ~(Touch(p) \/ Mark(p))
    BY <1>3, <2>2
    DEF PassStep, StartPass, DateItem, MarkerItem, LookupAnswers, LookupFails, InsertDated,
        InsertRun, EndPass, PassDies, request
  <2>. QED
    BY <2>1, <2>2
<1>4. CASE UNCHANGED vars
  BY <1>4 DEF vars
<1>. QED
  BY <1>1, <1>2, <1>3, <1>4 DEF Next

(* What a request and a deletion do to the markers.                        *)
LEMMA RequestLemma ==
  ASSUME TypeOK, NEW i \in Items
  PROVE  /\ AddLooksUp(i) =>
              \A j \in Items : rows'[j].marker = IF j = i THEN MarkerOnAdding(i) ELSE rows[j].marker
         /\ AddLists(i) \/ Remove(i) =>
              \A j \in Items : rows'[j].marker = rows[j].marker
<1>. /\ rows \in [Items -> Row]
     /\ \A j \in Items : rows[j] \in Row
  BY DEF TypeOK
<1>1. ASSUME AddLooksUp(i)
      PROVE  \A j \in Items : rows'[j].marker = IF j = i THEN MarkerOnAdding(i) ELSE rows[j].marker
  BY <1>1 DEF AddLooksUp, Row
<1>2. ASSUME AddLists(i) \/ Remove(i)
      PROVE  \A j \in Items : rows'[j].marker = rows[j].marker
  BY <1>2 DEF AddLists, Remove, Row
<1>. QED
  BY <1>1, <1>2

(* The host's newest commit only grows, and all else was learned from it.  *)
LEMMA BehindStep == TypeOK /\ LoopHasRuns /\ BehindHost /\ [Next]_vars => BehindHost'
<1>. SUFFICES ASSUME TypeOK, LoopHasRuns, BehindHost, [Next]_vars
              PROVE  BehindHost'
  OBVIOUS
<1>. USE DEF BehindHost
<1>a. /\ head \in [Items -> Revisions] /\ asked \in [Items -> Revisions]
      /\ item \in [Passes -> Items] /\ found \in [Passes -> Nat]
      /\ pc \in [Passes -> {"idle", "next", "touch", "insert", "look", "run", "mark"}]
  BY DEF TypeOK
<1>b. Revisions \subseteq Nat /\ Foreign \notin Revisions /\ None \in Revisions
      /\ \A r \in Revisions : None <= r
  BY BoundsAssumption DEF Revisions, Foreign, None
<1>c. /\ \A i \in Items : head[i] \in Nat /\ asked[i] \in Nat
      /\ \A p \in Passes : item[p] \in Items /\ found[p] \in Nat
  BY <1>a, <1>b
<1>1. CASE NextDay
  BY <1>1 DEF NextDay, pass, history
<1>2. ASSUME NEW i \in Items, Push(i)
      PROVE  BehindHost'
  <2>1. \A j \in Items : head'[j] = IF j = i THEN head[j] + 1 ELSE head[j]
    BY <1>2, <1>a DEF Push
  <2>2. UNCHANGED <<asked, rows, pc, found, item>>
    BY <1>2 DEF Push, pass, history
  <2>3. \A n \in Nat, j \in Items : n <= head[j] => n <= head'[j]
    BY <2>1, <1>c
  <2>4. \A r \in Revisions : r \in Nat
    BY <1>b
  <2>. QED
    BY <2>2, <2>3, <2>4, <1>c
<1>3. ASSUME NEW i \in Items, Add(i) \/ RequestDies(i) \/ Remove(i)
      PROVE  BehindHost'
  <2>1. CASE AddLooksUp(i)
    <3>1. MarkerOnAdding(i) \in {None, Foreign, head[i]}
      BY DEF MarkerOnAdding
    <3>2. \A j \in Items : rows'[j].marker \in Revisions => rows'[j].marker <= head[j]
      <4>1. \A j \in Items : rows'[j].marker = IF j = i THEN MarkerOnAdding(i) ELSE rows[j].marker
        BY <2>1, RequestLemma
      <4>2. MarkerOnAdding(i) \in Revisions => MarkerOnAdding(i) <= head[i]
        BY <3>1, <1>a, <1>b, <1>c
      <4>. QED
        BY <4>1, <4>2
    <3>. QED
      BY <2>1, <3>2 DEF AddLooksUp, world, pass, history
  <2>2. CASE AddLists(i) \/ Remove(i)
    <3>1. \A j \in Items : rows'[j].marker = rows[j].marker
      BY <2>2, RequestLemma
    <3>. QED
      BY <2>2, <3>1 DEF AddLists, Remove, world, pass, history
  <2>3. CASE AddAsksForRuns(i)
    <3>1. \A j \in Items : asked'[j] \in {asked[j], head[j]}
      BY <2>3, <1>a DEF AddAsksForRuns
    <3>2. UNCHANGED <<head, rows, pc, found, item>>
      BY <2>3 DEF AddAsksForRuns, world, pass
    <3>. QED
      BY <3>1, <3>2, <1>c
  <2>4. CASE RequestDies(i)
    BY <2>4 DEF RequestDies, world, pass, history
  <2>. QED
    BY <1>3, <2>1, <2>2, <2>3, <2>4 DEF Add
<1>4. ASSUME NEW p \in Passes, PassStep(p) \/ PassDies(p)
      PROVE  BehindHost'
  <2>1. CASE Touch(p)
    <3>1. \A j \in Items : rows'[j].marker = rows[j].marker
      BY <2>1, PassUpdateLemma
    <3>2. UNCHANGED <<head, asked, item>>
      BY <2>1 DEF Touch, world, history
    <3>3. \A q \in Passes : pc'[q] \in {"run", "mark"} =>
            pc[q] \in {"run", "mark"} /\ found'[q] = found[q]
      BY <2>1, <1>a DEF Touch
    <3>. QED
      BY <3>1, <3>2, <3>3
  <2>2. CASE Mark(p)
    <3>1. pc[p] = "mark"
      BY <2>2 DEF Mark
    <3>2. \A j \in Items : rows'[j].marker \in Revisions => rows'[j].marker <= head[j]
      BY <2>2, <3>1, PassUpdateLemma
    <3>3. UNCHANGED <<head, asked, item>>
      BY <2>2 DEF Mark, world, history
    <3>4. \A q \in Passes : pc'[q] \in {"run", "mark"} =>
            pc[q] \in {"run", "mark"} /\ found'[q] = found[q]
      BY <2>2, <1>a DEF Mark
    <3>. QED
      BY <3>2, <3>3, <3>4
  <2>3. CASE InsertRun(p)
    <3>1. \A j \in Items : asked'[j] \in {asked[j], head[j]}
      BY <2>3, <1>a DEF InsertRun
    <3>2. UNCHANGED <<head, rows, found, item>>
      BY <2>3 DEF InsertRun, world
    <3>3. \A q \in Passes : pc'[q] \in {"run", "mark"} => pc[q] \in {"run", "mark"}
      BY <2>3, <1>a DEF InsertRun
    <3>. QED
      BY <3>1, <3>2, <3>3, <1>c
  <2>4. CASE LookupAnswers(p)
    <3>1. \A q \in Passes : pc'[q] \in {"run", "mark"} =>
            \/ pc[q] \in {"run", "mark"} /\ found'[q] = found[q]
            \/ q = p /\ found'[q] = head[item[p]]
      BY <2>4, <1>a DEF LookupAnswers
    <3>2. UNCHANGED <<head, rows, asked, item>>
      BY <2>4 DEF LookupAnswers, world, history
    <3>. QED
      BY <3>1, <3>2, <1>c
  <2>5. CASE \/ StartPass(p) \/ LookupFails(p) \/ InsertDated(p) \/ EndPass(p) \/ PassDies(p)
             \/ \E r \in snap[p] : DateItem(p, r) \/ MarkerItem(p, r)
    <3>1. \A q \in Passes : pc'[q] \in {"run", "mark"} =>
            pc[q] \in {"run", "mark"} /\ found'[q] = found[q] /\ item'[q] = item[q]
      BY <2>5, <1>a
      DEF StartPass, LookupFails, InsertDated, EndPass, PassDies, DateItem, MarkerItem, Turn, WorkOn
    <3>2. UNCHANGED <<head, rows, asked>>
      BY <2>5
      DEF StartPass, LookupFails, InsertDated, EndPass, PassDies, DateItem, MarkerItem, world, history
    <3>. QED
      BY <3>1, <3>2
  <2>. QED
    BY <1>4, <2>1, <2>2, <2>3, <2>4, <2>5 DEF PassStep
<1>5. CASE UNCHANGED vars
  BY <1>5 DEF vars
<1>. QED
  BY <1>1, <1>2, <1>3, <1>4, <1>5 DEF Next

(* A step that asks for a run of an item asks at its newest revision, and  *)
(* no other step changes what was asked for.                               *)
LEMMA AskedLemma ==
  ASSUME TypeOK, BehindHost, [Next]_vars
  PROVE  \A i \in Items : asked[i] \in Nat /\ asked'[i] \in Nat /\ asked[i] <= asked'[i]
<1>1. \A i \in Items : asked[i] \in Nat /\ head[i] \in Nat /\ asked[i] <= head[i]
  BY BoundsAssumption DEF TypeOK, Revisions, BehindHost
<1>. DEFINE AtHead == \A i \in Items : asked'[i] \in {asked[i], head[i]}
<1>2. AtHead
  <2>1. ASSUME NEW i \in Items, Push(i) \/ Add(i) \/ RequestDies(i) \/ Remove(i)
        PROVE  AtHead
    BY <2>1
    DEF Push, Add, AddLooksUp, AddLists, AddAsksForRuns, RequestDies, Remove, history, TypeOK
  <2>2. ASSUME NEW p \in Passes, PassStep(p) \/ PassDies(p)
        PROVE  AtHead
    BY <2>2
    DEF PassStep, StartPass, DateItem, MarkerItem, LookupAnswers, LookupFails, Touch, InsertDated,
        InsertRun, Mark, EndPass, PassDies, history, TypeOK
  <2>. QED
    BY <2>1, <2>2 DEF Next, NextDay, history, vars
<1>. QED
  BY <1>1, <1>2

(* A pass asks for the first run before it writes the marker.              *)
LEMMA FoundStep ==
  TypeOK /\ LoopHasRuns /\ BehindHost /\ FoundIsAsked /\ [Next]_vars => FoundIsAsked'
<1>. SUFFICES ASSUME TypeOK, LoopHasRuns, BehindHost, FoundIsAsked, [Next]_vars,
                     NEW q \in Passes, pc'[q] = "mark"
              PROVE  found'[q] <= asked'[item'[q]]
  BY DEF FoundIsAsked
<1>1. /\ item[q] \in Items /\ found[q] \in Nat
      /\ asked[item[q]] \in Nat /\ asked'[item[q]] \in Nat /\ asked[item[q]] <= asked'[item[q]]
  BY AskedLemma DEF TypeOK
<1>. DEFINE Kept == pc[q] = "mark" /\ found'[q] = found[q] /\ item'[q] = item[q]
<1>2. SUFFICES Kept \/ InsertRun(q)
  <2>1. CASE Kept
    BY <1>1, <2>1 DEF FoundIsAsked
  <2>2. CASE InsertRun(q)
    <3>1. found[q] <= head[item[q]]
      BY <2>2 DEF BehindHost, InsertRun
    <3>2. asked'[item[q]] = head[item[q]] /\ item'[q] = item[q] /\ found'[q] = found[q]
      BY <1>1, <2>2 DEF InsertRun, TypeOK
    <3>. QED
      BY <3>1, <3>2
  <2>. QED
    BY <1>2, <2>1, <2>2
<1>. USE DEF TypeOK
<1>3. CASE UNCHANGED pass
  BY <1>3 DEF pass
<1>4. ASSUME NEW p \in Passes, PassStep(p) \/ PassDies(p)
      PROVE  Kept \/ InsertRun(q)
  <2>1. CASE InsertRun(p)
    BY <2>1 DEF InsertRun
  <2>2. CASE \E r \in snap[p] : DateItem(p, r) \/ MarkerItem(p, r)
    BY <2>2 DEF DateItem, MarkerItem, Turn, WorkOn
  <2>3. CASE LookupAnswers(p) \/ Mark(p)
    BY <2>3 DEF LookupAnswers, Mark
  <2>4. CASE StartPass(p) \/ LookupFails(p) \/ Touch(p) \/ InsertDated(p) \/ EndPass(p) \/ PassDies(p)
    BY <2>4 DEF StartPass, LookupFails, Touch, InsertDated, EndPass, PassDies
  <2>. QED
    BY <1>4, <2>1, <2>2, <2>3, <2>4 DEF PassStep
<1>5. CASE UNCHANGED vars
  BY <1>5 DEF vars
<1>. QED
  BY <1>3, <1>4, <1>5, OutsideStep DEF Next

(* A marker is written after a run was asked for, or with the request that *)
(* asks for the first one; the marker of an overlapping pass is older.     *)
LEMMA MarkedStep ==
  /\ TypeOK /\ LoopHasRuns /\ BehindHost /\ FoundIsAsked /\ AddingIsUnlisted /\ MarkedIsAsked
  /\ [Next]_vars
  => MarkedIsAsked'
<1>. SUFFICES ASSUME TypeOK, LoopHasRuns, BehindHost, FoundIsAsked, AddingIsUnlisted,
                     MarkedIsAsked, [Next]_vars
              PROVE  MarkedIsAsked'
  OBVIOUS
<1>a. \A i \in Items : asked[i] \in Nat /\ asked'[i] \in Nat /\ asked[i] <= asked'[i]
  BY AskedLemma
<1>b. \A r \in Revisions : r \in Nat
  BY BoundsAssumption DEF Revisions
(* Only a step that lists the item, marks it or ends its request matters.  *)
<1>c. SUFFICES ASSUME NEW i \in Items, rows'[i].state = "listed", rows'[i].marker \in Revisions,
                      ~(/\ rows[i].state = "listed" /\ rows'[i].marker = rows[i].marker
                        /\ adding'[i] = adding[i])
               PROVE  rows'[i].marker <= asked'[i] \/ adding'[i] \in {"listed", "died"}
  BY <1>a, <1>b DEF MarkedIsAsked, Listed
<1>1. CASE NextDay \/ \E j \in Items : Push(j)
  BY <1>1, <1>c DEF NextDay, Push, request
<1>2. ASSUME NEW j \in Items, AddLooksUp(j) \/ AddLists(j) \/ Remove(j)
      PROVE  rows'[i].marker <= asked'[i] \/ adding'[i] \in {"listed", "died"}
  <2>. /\ rows \in [Items -> Row] /\ adding \in [Items -> {"no", "looked", "listed", "done", "died"}]
       /\ rows[i] \in Row /\ rows[j] \in Row
    BY DEF TypeOK
  <2>1. CASE AddLooksUp(j)
    <3>1. rows'[j].state = "absent" /\ (i # j => rows'[i] = rows[i] /\ adding'[i] = adding[i])
      BY <2>1 DEF AddLooksUp, AddingIsUnlisted, Row
    <3>. QED
      BY <2>1, <3>1, <1>c DEF AddLooksUp
  <2>2. CASE AddLists(j)
    <3>1. i # j => rows'[i] = rows[i] /\ adding'[i] = adding[i]
      BY <2>2 DEF AddLists
    <3>2. adding'[j] = "listed"
      BY <2>2 DEF AddLists
    <3>. QED
      BY <2>2, <3>1, <3>2, <1>c DEF AddLists
  <2>3. CASE Remove(j)
    <3>1. rows'[j].state = "removed" /\ (i # j => rows'[i] = rows[i])
      BY <2>3 DEF Remove, Row
    <3>. QED
      BY <2>3, <3>1, <1>c DEF Remove, request
  <2>. QED
    BY <1>2, <2>1, <2>2, <2>3
<1>3. ASSUME NEW j \in Items, AddAsksForRuns(j)
      PROVE  rows'[i].marker <= asked'[i]
  <2>1. rows' = rows /\ (i # j => adding'[i] = adding[i])
    BY <1>3 DEF AddAsksForRuns, TypeOK
  <2>2. i = j /\ rows[i].marker <= head[i]
    BY <2>1, <1>c DEF BehindHost
  <2>3. asked'[i] = head[i]
    BY <1>3, <2>2 DEF AddAsksForRuns, TypeOK
  <2>. QED
    BY <2>1, <2>2, <2>3
<1>4. ASSUME NEW j \in Items, RequestDies(j)
      PROVE  adding'[i] = "died"
  BY <1>4, <1>c DEF RequestDies, TypeOK
<1>5. ASSUME NEW p \in Passes, Mark(p)
      PROVE  rows'[i].marker <= asked'[i]
  <2>1. adding' = adding /\ asked' = asked /\ pc[p] = "mark"
    BY <1>5 DEF Mark, request, history
  <2>2. i = item[p] /\ rows'[i].marker = found[p]
    BY <1>5, <2>1, <1>c, PassUpdateLemma
  <2>. QED
    BY <2>1, <2>2 DEF FoundIsAsked
<1>6. ASSUME NEW p \in Passes, PassStep(p) \/ PassDies(p), ~Mark(p)
      PROVE  FALSE
  <2>1. adding' = adding
    BY <1>6
    DEF PassStep, StartPass, DateItem, MarkerItem, LookupAnswers, LookupFails, Touch, InsertDated,
        InsertRun, EndPass, PassDies, request
  <2>2. CASE Touch(p)
    BY <2>1, <2>2, <1>c, PassUpdateLemma
  <2>3. CASE ~Touch(p)
    <3>1. rows' = rows
      BY <1>6, <2>3
      DEF PassStep, StartPass, DateItem, MarkerItem, LookupAnswers, LookupFails, InsertDated,
          InsertRun, EndPass, PassDies
    <3>. QED
      BY <2>1, <3>1, <1>c
  <2>. QED
    BY <2>2, <2>3
<1>7. CASE UNCHANGED vars
  BY <1>7, <1>c DEF vars
<1>. QED
  BY <1>1, <1>2, <1>3, <1>4, <1>5, <1>6, <1>7 DEF Next, Add

(* Every commit or tag the table marks as seen was followed by a run: any  *)
(* number of passes may overlap, set markers back and die at any point.    *)
THEOREM MarkedRevisionsAreAsked == Spec => []MarkedIsAsked
<1>. DEFINE IInv == /\ TypeOK /\ LoopHasRuns /\ DayInHand /\ BehindHost
                    /\ FoundIsAsked /\ AddingIsUnlisted /\ MarkedIsAsked
<1>1. Init => IInv
  <2>. SUFFICES ASSUME Init
                PROVE  BehindHost /\ FoundIsAsked /\ AddingIsUnlisted /\ MarkedIsAsked
    BY InitLemma
  <2>1. \A i \in Items : head[i] \in Nat /\ asked[i] = 0 /\ rows[i].marker = 0
    BY DEF Init, None
  <2>. QED
    BY <2>1 DEF Init, BehindHost, FoundIsAsked, AddingIsUnlisted, MarkedIsAsked
<1>2. IInv /\ [Next]_vars => IInv'
  BY TypeStep, LoopStep, DayStep, BehindStep, FoundStep, AddingStep, MarkedStep
<1>. QED
  BY <1>1, <1>2, PTL DEF Spec

-----------------------------------------------------------------------------
(* No day is run twice. The reason is not in the statement that inserts    *)
(* the run: the pass decides on what it read at its start, a day or more   *)
(* may go by until it acts, and the item may be deleted meanwhile.         *)

(* What a pass read or works on, and what was run, has been on the list.   *)
HandledIsKnown ==
  /\ \A p \in Passes : \A r \in snap[p] : rows[r.id].state # "absent"
  /\ \A p \in Passes : pc[p] \in {"touch", "insert"} => rows[item[p]].state # "absent"
  /\ \A i \in Items : slots[i] # {} => rows[i].state # "absent"

(* last_scheduled has caught up with the days an item was run for.         *)
SlotsAreRecorded ==
  /\ \A i \in Items : rows[i].last <= day
  /\ \A i \in Items : Listed(i) => \A d \in slots[i] : d <= rows[i].last
  /\ \A p \in Passes : pc[p] = "insert" /\ Listed(item[p]) => found[p] <= rows[item[p]].last

(* A pass meets each item once.                                            *)
RowsDiffer ==
  \A p \in Passes :
    /\ \A r, s \in snap[p] : r.id = s.id => r = s
    /\ pc[p] \in {"touch", "insert"} => \A r \in snap[p] : r.id # item[p]

(* What the pass holds to be due has not been run today, ...               *)
DueIsUnserved ==
  \A p \in Passes :
    /\ \A r \in snap[p] : r.due => \A d \in slots[r.id] : d < day
    /\ pc[p] = "touch" => \A d \in slots[item[p]] : d < day
    /\ pc[p] = "insert" => found[p] \notin slots[item[p]]

(* ... as long as passes do not overlap.                                   *)
OneAtATime == \A p, q \in Passes : p = q

(* A row is listed once and never again, and only Touch sets its date.     *)
LEMMA RowStep ==
  ASSUME TypeOK, AddingIsUnlisted, [Next]_vars, NEW i \in Items
  PROVE  /\ rows[i].state # "absent" => rows'[i].state # "absent"
         /\ rows'[i].state = "listed" => rows[i].state \in {"listed", "absent"}
         /\ \/ rows'[i].last = rows[i].last
            \/ \E p \in Passes : Touch(p) /\ item[p] = i /\ Listed(i) /\ rows'[i].last = day
<1>. DEFINE Kept == rows'[i].state = rows[i].state /\ rows'[i].last = rows[i].last
<1>. /\ rows \in [Items -> Row]
     /\ \A j \in Items : rows[j] \in Row
     /\ \A j \in Items : adding[j] \in {"no", "looked"} => rows[j].state = "absent"
  BY DEF TypeOK, AddingIsUnlisted
<1>1. CASE Kept
  BY <1>1
<1>2. ASSUME NEW j \in Items, AddLooksUp(j)
      PROVE  Kept
  BY <1>2 DEF AddLooksUp, Row
<1>3. ASSUME NEW j \in Items, AddLists(j)
      PROVE  Kept \/ (rows'[i].last = rows[i].last /\ rows[i].state = "absent"
                       /\ rows'[i].state = "listed")
  BY <1>3 DEF AddLists, Row
<1>4. ASSUME NEW j \in Items, Remove(j)
      PROVE  Kept \/ (rows'[i].last = rows[i].last /\ rows[i].state = "listed"
                       /\ rows'[i].state = "removed")
  BY <1>4 DEF Remove, Listed, Row
<1>5. ASSUME NEW p \in Passes, Touch(p)
      PROVE  Kept \/ (item[p] = i /\ Listed(i) /\ rows'[i].last = day
                       /\ rows'[i].state = rows[i].state)
  <2>1. CASE Listed(item[p])
    BY <1>5, <2>1 DEF Touch, Row
  <2>2. CASE ~Listed(item[p])
    BY <1>5, <2>2 DEF Touch
  <2>. QED
    BY <2>1, <2>2
<1>6. ASSUME NEW p \in Passes, Mark(p)
      PROVE  Kept
  BY <1>6, PassUpdateLemma
<1>7. CASE UNCHANGED rows
  BY <1>7
<1>8. ASSUME NEW p \in Passes, PassStep(p) \/ PassDies(p)
      PROVE  Touch(p) \/ Mark(p) \/ UNCHANGED rows
  BY <1>8
  DEF PassStep, StartPass, DateItem, MarkerItem, LookupAnswers, LookupFails, InsertDated,
      InsertRun, EndPass, PassDies
<1>9. ASSUME NEW j \in Items, Push(j) \/ Add(j) \/ RequestDies(j)
      PROVE  AddLooksUp(j) \/ AddLists(j) \/ UNCHANGED rows
  BY <1>9 DEF Push, Add, AddAsksForRuns, RequestDies
<1>10. NextDay \/ UNCHANGED vars => UNCHANGED rows
  BY DEF NextDay, vars
<1>11. CASE \E j \in Items : AddLists(j)
  BY <1>3, <1>11
<1>12. CASE \E j \in Items : Remove(j)
  BY <1>4, <1>12
<1>13. CASE \E p \in Passes : Touch(p)
  BY <1>5, <1>13 DEF Listed
<1>. QED
  BY <1>1, <1>2, <1>6, <1>7, <1>8, <1>9, <1>10, <1>11, <1>12, <1>13 DEF Next

(* How a pass comes to have rows to deal with and an item in hand, and     *)
(* what is left alone by everything else.                                  *)
LEMMA HandLemma ==
  ASSUME TypeOK, [Next]_vars, NEW q \in Passes
  PROVE  /\ snap'[q] \subseteq snap[q] \/ StartPass(q)
         /\ pc'[q] = "touch" =>
              \/ pc[q] = "touch" /\ item'[q] = item[q]
              \/ \E r \in snap[q] : r.due /\ item'[q] = r.id /\ snap'[q] = snap[q] \ {r}
         /\ pc'[q] = "insert" =>
              /\ item'[q] = item[q]
              /\ \/ pc[q] = "insert" /\ found'[q] = found[q]
                 \/ Touch(q)
<1>. USE DEF TypeOK
<1>1. CASE UNCHANGED pass
  BY <1>1 DEF pass
<1>2. ASSUME NEW p \in Passes, NEW r \in snap[p], DateItem(p, r)
      PROVE  /\ snap'[q] \subseteq snap[q]
             /\ pc'[q] = "touch" =>
                  \/ pc[q] = "touch" /\ item'[q] = item[q]
                  \/ r.due /\ item'[q] = r.id /\ snap'[q] = snap[q] \ {r} /\ p = q
             /\ pc'[q] = "insert" => item'[q] = item[q] /\ pc[q] = "insert" /\ found'[q] = found[q]
            
  <2>1. snap' = [snap EXCEPT ![p] = @ \ {r}] /\ UNCHANGED found /\ pc[p] = "next"
    BY <1>2 DEF DateItem, Turn, history
  <2>2. CASE r.due
    BY <1>2, <2>1, <2>2 DEF DateItem, WorkOn
  <2>3. CASE ~r.due
    BY <1>2, <2>1, <2>3 DEF DateItem
  <2>. QED
    BY <2>2, <2>3
<1>3. ASSUME NEW p \in Passes, NEW r \in snap[p], MarkerItem(p, r)
      PROVE  /\ snap'[q] \subseteq snap[q]
             /\ pc'[q] # "touch" \/ (pc[q] = "touch" /\ item'[q] = item[q])
             /\ pc'[q] = "insert" => item'[q] = item[q] /\ pc[q] = "insert" /\ found'[q] = found[q]
            
  BY <1>3 DEF MarkerItem, Turn, WorkOn, history
<1>4. ASSUME NEW p \in Passes, Touch(p)
      PROVE  /\ snap' = snap /\ item' = item
             /\ pc'[q] = "touch" => pc[q] = "touch"
             /\ pc'[q] = "insert" => (pc[q] = "insert" /\ found'[q] = found[q]) \/ Touch(q)
  BY <1>4 DEF Touch, history
<1>5. ASSUME NEW p \in Passes, InsertDated(p) \/ LookupAnswers(p) \/ LookupFails(p)
                                \/ InsertRun(p) \/ Mark(p)
      PROVE  /\ snap' = snap /\ item' = item
             /\ pc'[q] = "touch" => pc[q] = "touch"
             /\ pc'[q] = "insert" => pc[q] = "insert" /\ found'[q] = found[q]
  BY <1>5 DEF InsertDated, LookupAnswers, LookupFails, InsertRun, Mark, history
<1>6. ASSUME NEW p \in Passes, StartPass(p) \/ EndPass(p) \/ PassDies(p)
      PROVE  /\ snap'[q] \subseteq snap[q] \/ StartPass(q)
             /\ item' = item
             /\ pc'[q] = "touch" => pc[q] = "touch"
             /\ pc'[q] = "insert" => pc[q] = "insert" /\ found'[q] = found[q]
  BY <1>6 DEF StartPass, EndPass, PassDies, Finished, history
<1>7. NextDay \/ (\E i \in Items : Push(i) \/ Add(i) \/ RequestDies(i) \/ Remove(i)) \/ UNCHANGED vars
        => UNCHANGED pass
  BY OutsideStep
  DEF NextDay, Push, Add, AddLooksUp, AddLists, AddAsksForRuns, RequestDies, Remove, pass, reading,
      history, vars
<1>8. CASE \E p \in Passes : \E r \in snap[p] : DateItem(p, r)
  BY <1>2, <1>8
<1>9. CASE \E p \in Passes : \E r \in snap[p] : MarkerItem(p, r)
  BY <1>3, <1>9
<1>10. CASE \E p \in Passes : Touch(p)
  BY <1>4, <1>10
<1>11. CASE \E p \in Passes : InsertDated(p) \/ LookupAnswers(p) \/ LookupFails(p)
                               \/ InsertRun(p) \/ Mark(p)
  BY <1>5, <1>11
<1>12. CASE \E p \in Passes : StartPass(p) \/ EndPass(p) \/ PassDies(p)
  BY <1>6, <1>12
<1>. QED
  BY <1>1, <1>7, <1>8, <1>9, <1>10, <1>11, <1>12 DEF Next, PassStep

(* The INSERT adds the day in hand to the item in hand.                    *)
LEMMA SlotLemma ==
  ASSUME TypeOK, NEW p \in Passes, InsertDated(p)
  PROVE  /\ pc[p] = "insert" /\ pc'[p] = "next"
         /\ \A i \in Items : \A d \in slots'[i] : d \in slots[i] \/ (i = item[p] /\ d = found[p])
         /\ UNCHANGED <<day, rows, snap, item>>
  BY DEF TypeOK, InsertDated, world

(* Days are served by the runs of passes only.                             *)
LEMMA OnlyInsertLemma ==
  ASSUME [Next]_vars
  PROVE  UNCHANGED <<slots, doubled>> \/ \E p \in Passes : InsertDated(p)
  BY DEF Next, NextDay, Push, Add, AddLooksUp, AddLists, AddAsksForRuns, RequestDies, Remove,
         PassStep, StartPass, DateItem, MarkerItem, LookupAnswers, LookupFails, Touch,
         InsertRun, Mark, EndPass, PassDies, history, vars

(* The calendar goes on by a day at a time.                                *)
LEMMA DayLemma ==
  ASSUME TypeOK, [Next]_vars
  PROVE  day \in Int /\ (day' = day \/ day' = day + 1)
<1>1. day \in Int
  BY DEF TypeOK, Days
<1>2. CASE NextDay
  BY <1>1, <1>2 DEF NextDay
<1>3. CASE UNCHANGED day
  BY <1>1, <1>3
<1>4. NextDay \/ UNCHANGED day
  BY DEF Next, Push, Add, AddLooksUp, AddLists, AddAsksForRuns, RequestDies, Remove, PassStep,
         StartPass, DateItem, MarkerItem, LookupAnswers, LookupFails, Touch, InsertDated,
         InsertRun, Mark, EndPass, PassDies, world, vars
<1>. QED
  BY <1>2, <1>3, <1>4

(* A pass has in hand what it found on the list when it began.             *)
LEMMA KnownStep ==
  TypeOK /\ AddingIsUnlisted /\ HandledIsKnown /\ [Next]_vars => HandledIsKnown'
<1>. SUFFICES ASSUME TypeOK, AddingIsUnlisted, HandledIsKnown, [Next]_vars
              PROVE  HandledIsKnown'
  OBVIOUS
<1>1. \A i \in Items : rows[i].state # "absent" => rows'[i].state # "absent"
  BY RowStep
<1>2. /\ \A p \in Passes : item[p] \in Items
      /\ \A p \in Passes : \A r \in snap[p] : r.id \in Items
  BY DEF TypeOK
<1>3. ASSUME NEW p \in Passes, NEW r \in snap'[p]
      PROVE  rows'[r.id].state # "absent"
  <2>1. CASE r \in snap[p]
    BY <1>1, <1>2, <2>1 DEF HandledIsKnown
  <2>2. CASE StartPass(p)
    BY <2>2 DEF StartPass, Listed, TypeOK
  <2>. QED
    BY <2>1, <2>2, HandLemma
<1>4. ASSUME NEW p \in Passes, pc'[p] \in {"touch", "insert"}
      PROVE  rows'[item'[p]].state # "absent"
  <2>1. \/ pc[p] \in {"touch", "insert"} /\ item'[p] = item[p]
        \/ \E r \in snap[p] : item'[p] = r.id
    BY <1>4, HandLemma DEF Touch
  <2>. QED
    BY <1>1, <1>2, <2>1 DEF HandledIsKnown
<1>5. ASSUME NEW i \in Items, slots'[i] # {}
      PROVE  rows'[i].state # "absent"
  <2>1. CASE UNCHANGED slots
    BY <1>1, <1>5, <2>1 DEF HandledIsKnown
  <2>2. ASSUME NEW p \in Passes, InsertDated(p)
        PROVE  rows'[i].state # "absent"
    <3>1. i # item[p] => slots'[i] = slots[i]
      BY <2>2 DEF InsertDated, TypeOK
    <3>2. pc[p] = "insert"
      BY <2>2 DEF InsertDated
    <3>. QED
      BY <1>1, <1>5, <3>1, <3>2 DEF HandledIsKnown
  <2>. QED
    BY <2>1, <2>2, OnlyInsertLemma
<1>. QED
  BY <1>3, <1>4, <1>5 DEF HandledIsKnown

(* The days and revisions on record are numbers.                           *)
LEMMA NumbersLemma ==
  ASSUME TypeOK
  PROVE  /\ \A i \in Items : rows[i].last \in Int
         /\ \A i \in Items : \A d \in slots[i] : d \in Int
         /\ \A p \in Passes : item[p] \in Items /\ found[p] \in Int
<1>1. Days \subseteq Int
  BY DEF Days
<1>2. ASSUME NEW i \in Items
      PROVE  rows[i].last \in Int
  <2>1. rows[i] \in Row
    BY <1>2 DEF TypeOK
  <2>2. rows[i].last \in Days \cup {0}
    BY <2>1 DEF Row
  <2>3. CASE rows[i].last \in Days
    BY <2>3, <1>1
  <2>4. CASE rows[i].last = 0
    BY <2>4
  <2>. QED
    BY <2>2, <2>3, <2>4
<1>3. ASSUME NEW i \in Items, NEW d \in slots[i]
      PROVE  d \in Int
  <2>1. slots[i] \subseteq Days
    BY <1>3 DEF TypeOK
  <2>. QED
    BY <1>1, <1>3, <2>1
<1>4. ASSUME NEW p \in Passes
      PROVE  item[p] \in Items /\ found[p] \in Int
  <2>1. item[p] \in Items /\ found[p] \in Nat
    BY <1>4 DEF TypeOK
  <2>. QED
    BY <2>1
<1>. QED
  BY <1>2, <1>3, <1>4

(* A day that has been served is recorded in the row, or the row was       *)
(* removed.                                                                *)
LEMMA RecordedStep ==
  /\ TypeOK /\ AddingIsUnlisted /\ HandledIsKnown /\ SlotsAreRecorded
  /\ [Next]_vars
  => SlotsAreRecorded'
<1>. SUFFICES ASSUME TypeOK, AddingIsUnlisted, HandledIsKnown, SlotsAreRecorded, [Next]_vars
              PROVE  SlotsAreRecorded'
  OBVIOUS
<1>1. /\ day \in Int /\ day' \in Int /\ day <= day'
      /\ \A i \in Items : rows[i].last \in Int
      /\ \A i \in Items : \A d \in slots[i] : d \in Int
      /\ \A p \in Passes : item[p] \in Items /\ found[p] \in Int
  <2>1. day \in Int /\ (day' = day \/ day' = day + 1)
    BY DayLemma
  <2>2. day' \in Int /\ day <= day'
    BY <2>1
  <2>. QED
    BY <2>1, <2>2, NumbersLemma
<1>2. \A i \in Items : rows[i].last <= rows'[i].last /\ rows'[i].last <= day' /\ rows'[i].last \in Int
  BY <1>1, RowStep DEF SlotsAreRecorded
<1>3. ASSUME NEW i \in Items, Listed(i)', NEW d \in slots'[i]
      PROVE  d <= rows'[i].last
  <2>1. CASE d \in slots[i]
    <3>1. rows[i].state = "listed"
      BY <1>3, <2>1, RowStep DEF HandledIsKnown, Listed
    <3>. QED
      BY <1>1, <1>2, <2>1, <3>1 DEF SlotsAreRecorded, Listed
  <2>2. ASSUME NEW p \in Passes, InsertDated(p), i = item[p], d = found[p]
        PROVE  d <= rows'[i].last
    BY <1>3, <2>2, SlotLemma DEF SlotsAreRecorded, Listed
  <2>. QED
    <3>1. d \notin slots[i] => \E p \in Passes : InsertDated(p)
      BY <1>3, OnlyInsertLemma
    <3>2. ASSUME NEW p \in Passes, InsertDated(p), d \notin slots[i]
          PROVE  i = item[p] /\ d = found[p]
      BY <1>3, <3>2, SlotLemma
    <3>. QED
      BY <2>1, <2>2, <3>1, <3>2
<1>4. ASSUME NEW p \in Passes, pc'[p] = "insert", Listed(item[p])'
      PROVE  found'[p] <= rows'[item'[p]].last
  <2>1. item'[p] = item[p] /\ rows'[item[p]].state = "listed"
    BY <1>4, HandLemma DEF Listed
  <2>2. CASE pc[p] = "insert" /\ found'[p] = found[p]
    <3>1. rows[item[p]].state = "listed"
      BY <1>1, <2>1, <2>2, RowStep DEF HandledIsKnown
    <3>. QED
      BY <1>1, <1>2, <2>1, <2>2, <3>1 DEF SlotsAreRecorded, Listed
  <2>3. CASE Touch(p)
    <3>1. pc[p] = "touch" /\ found'[p] = day
      BY <2>3 DEF Touch, TypeOK
    <3>2. rows[item[p]].state = "listed"
      BY <1>1, <2>1, <3>1, RowStep DEF HandledIsKnown
    <3>3. rows'[item[p]].last = day
      BY <1>1, <2>3, <3>2 DEF Touch, Listed, TypeOK, Row
    <3>. QED
      BY <1>1, <2>1, <3>1, <3>3
  <2>. QED
    BY <1>4, <2>2, <2>3, HandLemma
<1>. QED
  BY <1>2, <1>3, <1>4 DEF SlotsAreRecorded

(* What a pass has still to do differs from what it has in hand.           *)
LEMMA DifferStep == TypeOK /\ RowsDiffer /\ [Next]_vars => RowsDiffer'
<1>. SUFFICES ASSUME TypeOK, RowsDiffer, [Next]_vars, NEW p \in Passes
              PROVE  /\ \A r, s \in snap'[p] : r.id = s.id => r = s
                     /\ pc'[p] \in {"touch", "insert"} => \A r \in snap'[p] : r.id # item'[p]
  BY DEF RowsDiffer
<1>1. CASE StartPass(p)
  BY <1>1 DEF StartPass, TypeOK
<1>2. CASE snap'[p] \subseteq snap[p]
  <2>1. \/ pc'[p] \notin {"touch", "insert"}
        \/ pc[p] \in {"touch", "insert"} /\ item'[p] = item[p]
        \/ \E r \in snap[p] : item'[p] = r.id /\ snap'[p] = snap[p] \ {r}
    BY HandLemma DEF Touch
  <2>. QED
    BY <1>2, <2>1 DEF RowsDiffer
<1>. QED
  BY <1>1, <1>2, HandLemma

(* If passes do not overlap, a day that is due has not been served.        *)
LEMMA UnservedStep ==
  /\ TypeOK /\ AddingIsUnlisted /\ HandledIsKnown /\ SlotsAreRecorded /\ RowsDiffer /\ DueIsUnserved
  /\ OneAtATime /\ [Next]_vars
  => DueIsUnserved'
<1>. SUFFICES ASSUME TypeOK, AddingIsUnlisted, HandledIsKnown, SlotsAreRecorded, RowsDiffer,
                     DueIsUnserved, OneAtATime, [Next]_vars, NEW p \in Passes
              PROVE  /\ \A r \in snap'[p] : r.due => \A d \in slots'[r.id] : d < day'
                     /\ pc'[p] = "touch" => \A d \in slots'[item'[p]] : d < day'
                     /\ pc'[p] = "insert" => found'[p] \notin slots'[item'[p]]
  BY DEF DueIsUnserved
<1>. /\ item[p] \in Items /\ \A r \in snap[p] : r.id \in Items
  BY DEF TypeOK
<1>1. CASE InsertDated(p)
  <2>1. \A r \in snap[p] : slots'[r.id] \subseteq slots[r.id]
    BY <1>1, SlotLemma DEF RowsDiffer
  <2>. QED
    BY <1>1, <2>1, SlotLemma DEF DueIsUnserved
<1>2. CASE UNCHANGED slots
  <2>1. \A n \in Int : n < day => n < day'
    <3>1. day \in Int /\ (day' = day \/ day' = day + 1)
      BY DayLemma
    <3>. QED
      BY <3>1
  <2>2. \A i \in Items : \A d \in slots[i] : d \in Int
    BY DEF TypeOK, Days
  <2>3. \A r \in snap'[p] : r.due => \A d \in slots[r.id] : d < day'
    <3>1. CASE snap'[p] \subseteq snap[p]
      BY <2>1, <2>2, <3>1 DEF DueIsUnserved
    <3>2. CASE StartPass(p)
      <4>. SUFFICES ASSUME NEW i \in Items, Listed(i), DueByDate(i), NEW d \in slots[i]
                    PROVE  d < day
        BY <3>2 DEF StartPass, TypeOK, world
      <4>1. d <= rows[i].last /\ rows[i].last \in Int /\ d \in Days
        BY <2>2 DEF SlotsAreRecorded, TypeOK, Row, Days
      <4>2. rows[i].last = 0 \/ rows[i].last < day
        BY <4>1 DEF DueByDate, TypeOK, Days
      <4>. QED
        BY <4>1, <4>2 DEF Days, TypeOK
    <3>. QED
      BY <3>1, <3>2, HandLemma
  <2>4. pc'[p] = "touch" => \A d \in slots[item'[p]] : d < day'
    BY <2>1, <2>2, HandLemma DEF DueIsUnserved
  <2>5. pc'[p] = "insert" => found'[p] \notin slots[item'[p]]
    <3>1. Touch(p) => pc[p] = "touch" /\ found'[p] = day
      BY DEF Touch, TypeOK
    <3>2. day \in Int /\ ~(day < day)
      BY DEF TypeOK, Days
    <3>. QED
      BY <3>1, <3>2, HandLemma DEF DueIsUnserved
  <2>. QED
    BY <1>2, <2>3, <2>4, <2>5
<1>. QED
  BY <1>1, <1>2, OnlyInsertLemma DEF OneAtATime

(* An item that runs by the calendar is run once for a day at most, as     *)
(* long as no two passes overlap: whatever a pass has read and however     *)
(* late it acts on it, through deletions and deaths.                       *)
THEOREM DaysAreRunOnce ==
  ASSUME OneAtATime
  PROVE  Spec => []OncePerDay
<1>. DEFINE IInv == /\ TypeOK /\ LoopHasRuns /\ DayInHand /\ AddingIsUnlisted /\ HandledIsKnown
                    /\ SlotsAreRecorded /\ RowsDiffer /\ DueIsUnserved /\ OncePerDay
<1>1. Init => IInv
  <2>. SUFFICES ASSUME Init
                PROVE  /\ AddingIsUnlisted /\ HandledIsKnown /\ SlotsAreRecorded /\ RowsDiffer
                       /\ DueIsUnserved /\ OncePerDay
    BY InitLemma
  <2>1. \A i \in Items : rows[i].last = 0 /\ slots[i] = {}
    BY DEF Init
  <2>2. \A p \in Passes : pc[p] = "idle" /\ snap[p] = {}
    BY DEF Init
  <2>3. AddingIsUnlisted
    BY DEF Init, AddingIsUnlisted
  <2>. QED
    BY <2>1, <2>2, <2>3
    DEF Init, HandledIsKnown, SlotsAreRecorded, RowsDiffer, DueIsUnserved, OncePerDay
<1>2. IInv /\ [Next]_vars => OncePerDay'
  <2>. SUFFICES ASSUME IInv, [Next]_vars
                PROVE  doubled' = {}
    BY DEF OncePerDay
  <2>1. doubled = {}
    BY DEF OncePerDay
  <2>2. ASSUME NEW p \in Passes, InsertDated(p)
        PROVE  doubled' = {}
    BY <2>1, <2>2 DEF InsertDated, DueIsUnserved
  <2>3. CASE UNCHANGED doubled
    BY <2>1, <2>3
  <2>. QED
    BY <2>2, <2>3, OnlyInsertLemma
<1>3. IInv /\ [Next]_vars => IInv'
  BY <1>2, TypeStep, LoopStep, DayStep, AddingStep, KnownStep, RecordedStep, DifferStep, UnservedStep
<1>. QED
  BY <1>1, <1>3, PTL DEF Spec

-----------------------------------------------------------------------------
(* Series are whole. A pass decides on the marker it read at its start; if *)
(* no other pass writes markers meanwhile, that is the item's marker still *)
(* when the host answers, and a marker on an item whose last series was    *)
(* finished is as new as any run of it. The host never names an older      *)
(* revision again, so a revision other than the marker has had no run.     *)

Working  == {"run", "mark"}
Handling == {"look", "run", "mark"}

Known(i) == rows[i].state # "absent"

(* The marker has caught up with the runs of the item.                     *)
Settled(i) ==
  \/ i \in torn
  \/ \A r \in Revisions : runs[i][r] > 0 => rows[i].marker \in Revisions /\ r <= rows[i].marker

(* Only items that have been on the list get runs.                         *)
RunsAreKnown == \A i \in Items, r \in Revisions : runs[i][r] > 0 => Known(i)

(* An item on the list is settled, or a pass is at its runs.               *)
RunsAreMarked ==
  \A i \in Items : Listed(i) => Settled(i) \/ \E p \in Passes : pc[p] \in Working /\ item[p] = i

(* The markers a pass has read are those in the table, of settled items.   *)
StillToDo(p) == \A r \in snap[p] : r.marker = rows[r.id].marker /\ Settled(r.id)

AtLookup(p) == pc[p] = "look" => found[p] = rows[item[p]].marker /\ Settled(item[p])

(* The item in hand has been on the list and is not met again.             *)
AtItem(p) == pc[p] \in Handling => Known(item[p]) /\ \A r \in snap[p] : r.id # item[p]

(* The revision in hand is the newest with runs; those and the runs still  *)
(* to be inserted are a series.                                            *)
InSeries(p) ==
  pc[p] \in Working /\ item[p] \notin torn =>
    /\ \A r \in Revisions : runs[item[p]][r] > 0 => r <= found[p]
    /\ left[p] <= Amount(item[p])
    /\ runs[item[p]][found[p]] = Amount(item[p]) - left[p] + (IF pc[p] = "mark" THEN 1 ELSE 0)
    /\ pc[p] = "run" /\ left[p] = Amount(item[p]) => Settled(item[p])

SeriesInv ==
  /\ RunsAreKnown
  /\ RunsAreMarked
  /\ \A p \in Passes : StillToDo(p) /\ AtLookup(p) /\ AtItem(p) /\ InSeries(p)
  /\ SeriesAreWhole

(* A step that neither inserts a run nor writes a marker, reads no rows    *)
(* and begins no lookup.                                                   *)
Quiet(p) ==
  /\ UNCHANGED <<runs, torn>>
  /\ \A i \in Items : Known(i) => rows'[i].state # "absent" /\ rows'[i].marker = rows[i].marker
  /\ \A i \in Items : rows'[i].state = "listed" /\ Known(i) => Listed(i)
  /\ snap'[p] \subseteq snap[p]
  /\ pc[p] \in Working => pc'[p] = pc[p]
  /\ pc'[p] \in Handling => /\ pc'[p] = pc[p] /\ found'[p] = found[p]
                            /\ left'[p] = left[p] /\ item'[p] = item[p]

(* Such a step of the one pass there is disturbs no series.                *)
LEMMA QuietLemma ==
  ASSUME TypeOK, HandledIsKnown, SeriesInv, NEW p \in Passes, OneAtATime, Quiet(p)
  PROVE  SeriesInv'
<1>. USE DEF Quiet, OneAtATime
<1>1. /\ item[p] \in Items
      /\ \A r \in snap[p] : r.id \in Items /\ Known(r.id)
  BY DEF TypeOK, HandledIsKnown, Known
<1>2. ASSUME NEW i \in Items, Known(i), Settled(i)
      PROVE  Settled(i)'
  BY <1>2 DEF Settled
<1>3. RunsAreKnown'
  BY DEF SeriesInv, RunsAreKnown, Known
<1>4. RunsAreMarked'
  <2>. SUFFICES ASSUME NEW i \in Items, rows'[i].state = "listed"
               PROVE  Settled(i)' \/ \E q \in Passes : pc'[q] \in Working /\ item'[q] = i
    BY DEF RunsAreMarked, Listed
  <2>1. CASE Known(i)
    <3>1. Settled(i) \/ (pc[p] \in Working /\ item[p] = i)
      BY <2>1 DEF SeriesInv, RunsAreMarked
    <3>. QED
      BY <2>1, <3>1, <1>2 DEF Working, Handling
  <2>2. CASE ~Known(i)
    BY <2>2 DEF SeriesInv, RunsAreKnown, Settled
  <2>. QED
    BY <2>1, <2>2
<1>5. StillToDo(p)'
  BY <1>1, <1>2 DEF SeriesInv, StillToDo
<1>6. AtLookup(p)' /\ AtItem(p)'
  BY <1>1, <1>2 DEF SeriesInv, AtLookup, AtItem, Known, Handling
<1>7. InSeries(p)'
  <2>1. pc'[p] \in Working => item'[p] = item[p] /\ found'[p] = found[p] /\ left'[p] = left[p]
                             /\ pc'[p] = pc[p] /\ Known(item[p])
    BY DEF SeriesInv, AtItem, Working, Handling
  <2>. QED
    BY <1>1, <1>2, <2>1 DEF SeriesInv, InSeries
<1>8. SeriesAreWhole'
  BY DEF SeriesInv, SeriesAreWhole, Working, Handling
<1>. QED
  BY <1>3, <1>4, <1>5, <1>6, <1>7, <1>8 DEF SeriesInv

(* What is known of an item's row when the step is not that of a pass.     *)
LEMMA OutsideRowLemma ==
  ASSUME TypeOK, AddingIsUnlisted,
         NextDay \/ (\E i \in Items : Push(i) \/ Add(i) \/ RequestDies(i) \/ Remove(i)) \/ UNCHANGED vars
  PROVE  /\ UNCHANGED <<pass, runs, slots, torn>>
         /\ \A i \in Items : Known(i) => rows'[i].marker = rows[i].marker
<1>. USE DEF request, world, history, deaths
<1>1. CASE NextDay \/ UNCHANGED vars
  BY <1>1 DEF NextDay, vars, pass, reading
<1>2. ASSUME NEW i \in Items, Push(i) \/ AddAsksForRuns(i) \/ RequestDies(i)
      PROVE  UNCHANGED <<pass, runs, slots, torn, rows>>
  BY <1>2 DEF Push, AddAsksForRuns, RequestDies
<1>3. ASSUME NEW i \in Items, AddLooksUp(i)
      PROVE  /\ UNCHANGED <<pass, runs, slots, torn>>
             /\ \A j \in Items : Known(j) => rows'[j].marker = rows[j].marker
  <2>1. ~Known(i)
    BY <1>3 DEF AddLooksUp, AddingIsUnlisted, Known
  <2>. QED
    BY <1>3, <2>1, RequestLemma DEF AddLooksUp
<1>4. ASSUME NEW i \in Items, AddLists(i) \/ Remove(i)
      PROVE  /\ UNCHANGED <<pass, runs, slots, torn>>
             /\ \A j \in Items : rows'[j].marker = rows[j].marker
  BY <1>4, RequestLemma DEF AddLists, Remove
<1>. QED
  BY <1>1, <1>2, <1>3, <1>4 DEF Add

(* Pushes, midnights and requests touch no series.                         *)
LEMMA SeriesOutside ==
  ASSUME TypeOK, AddingIsUnlisted, HandledIsKnown, SeriesInv, NEW p \in Passes, OneAtATime, [Next]_vars,
         NextDay \/ (\E i \in Items : Push(i) \/ Add(i) \/ RequestDies(i) \/ Remove(i)) \/ UNCHANGED vars
  PROVE  SeriesInv'
<1>1. \A i \in Items : /\ Known(i) => rows'[i].state # "absent" /\ rows'[i].marker = rows[i].marker
                       /\ rows'[i].state = "listed" /\ Known(i) => Listed(i)
  BY RowStep, OutsideRowLemma DEF Known, Listed
<1>2. UNCHANGED <<runs, torn>>
  BY OutsideRowLemma
<1>3. /\ snap'[p] \subseteq snap[p] /\ pc'[p] = pc[p]
      /\ found'[p] = found[p] /\ left'[p] = left[p] /\ item'[p] = item[p]
  BY OutsideRowLemma DEF pass
<1>4. Quiet(p)
  BY <1>1, <1>2, <1>3 DEF Quiet
<1>. QED
  BY <1>4, QuietLemma

(* Nor does a pass that works by the calendar, fails to look an item up or *)
(* ends.                                                                   *)
LEMMA SeriesQuiet ==
  ASSUME TypeOK, AddingIsUnlisted, HandledIsKnown, SeriesInv, NEW p \in Passes, OneAtATime, [Next]_vars,
         \/ Touch(p) \/ InsertDated(p) \/ LookupFails(p) \/ EndPass(p)
         \/ \E r \in snap[p] : DateItem(p, r)
  PROVE  SeriesInv'
<1>1. \A i \in Items : /\ Known(i) => rows'[i].state # "absent"
                       /\ rows'[i].state = "listed" /\ Known(i) => Listed(i)
  BY RowStep DEF Known, Listed
<1>2. \A i \in Items : rows'[i].marker = rows[i].marker
  <2>1. CASE Touch(p)
    BY <2>1, PassUpdateLemma
  <2>. QED
    BY <2>1 DEF InsertDated, LookupFails, EndPass, DateItem
<1>3. UNCHANGED <<runs, torn>>
  BY DEF Touch, InsertDated, LookupFails, EndPass, DateItem, history, deaths
<1>4. /\ snap'[p] \subseteq snap[p]
      /\ pc[p] \in Working => pc'[p] = pc[p]
      /\ pc'[p] \in Handling => /\ pc'[p] = pc[p] /\ found'[p] = found[p]
                               /\ left'[p] = left[p] /\ item'[p] = item[p]
  <2>. USE DEF TypeOK, Working, Handling
  <2>1. CASE Touch(p) \/ InsertDated(p) \/ LookupFails(p) \/ EndPass(p)
    BY <2>1 DEF Touch, InsertDated, LookupFails, EndPass, Finished
  <2>2. ASSUME NEW r \in snap[p], DateItem(p, r)
        PROVE  /\ snap'[p] \subseteq snap[p]
               /\ pc[p] \notin Working
               /\ pc'[p] \notin Handling
    BY <2>2 DEF DateItem, Turn, WorkOn
  <2>. QED
    BY <2>1, <2>2
<1>5. Quiet(p)
  BY <1>1, <1>2, <1>3, <1>4 DEF Quiet
<1>. QED
  BY <1>5, QuietLemma

(* A pass that begins reads markers of settled items, as no pass is at an  *)
(* item's runs.                                                            *)
LEMMA SeriesStart ==
  ASSUME TypeOK, SeriesInv, NEW p \in Passes, OneAtATime, StartPass(p)
  PROVE  SeriesInv'
<1>. USE DEF OneAtATime, Working, Handling
<1>1. /\ UNCHANGED <<rows, runs, torn, item, found, left>>
      /\ pc[p] = "idle" /\ pc'[p] = "next"
      /\ snap'[p] = {[id |-> i, due |-> DueByDate(i), marker |-> rows[i].marker] :
                      i \in {j \in Items : Listed(j)}}
  BY DEF StartPass, TypeOK, history, deaths
<1>2. \A i \in Items : Listed(i) => Settled(i)
  BY <1>1 DEF SeriesInv, RunsAreMarked
<1>3. \A i \in Items : Settled(i) => Settled(i)'
  BY <1>1 DEF Settled
<1>4. RunsAreKnown' /\ RunsAreMarked' /\ SeriesAreWhole'
  BY <1>1, <1>2, <1>3
  DEF SeriesInv, RunsAreKnown, Known, RunsAreMarked, Listed, SeriesAreWhole
<1>5. StillToDo(p)'
  <2>. SUFFICES ASSUME NEW r \in snap'[p]
               PROVE  r.marker = rows[r.id].marker /\ Settled(r.id)'
    BY <1>1 DEF StillToDo
  <2>1. PICK i \in Items : Listed(i) /\ r.id = i /\ r.marker = rows[i].marker
    BY <1>1
  <2>. QED
    BY <2>1, <1>2, <1>3
<1>6. AtLookup(p)' /\ AtItem(p)' /\ InSeries(p)'
  BY <1>1 DEF AtLookup, AtItem, InSeries
<1>. QED
  BY <1>4, <1>5, <1>6 DEF SeriesInv

(* The marker the host's answer is compared with is the item's.            *)
LEMMA SeriesTurn ==
  ASSUME TypeOK, HandledIsKnown, RowsDiffer, SeriesInv, NEW p \in Passes, OneAtATime,
         NEW r \in snap[p], MarkerItem(p, r)
  PROVE  SeriesInv'
<1>. USE DEF OneAtATime, Working, Handling
<1>1. /\ UNCHANGED <<rows, runs, torn, left>>
      /\ pc[p] = "next" /\ pc'[p] = "look" /\ item'[p] = r.id /\ found'[p] = r.marker
      /\ snap'[p] = snap[p] \ {r}
  BY DEF MarkerItem, Turn, WorkOn, TypeOK, history, deaths
<1>2. \A i : Settled(i) => Settled(i)'
  BY <1>1 DEF Settled
<1>3. RunsAreKnown' /\ RunsAreMarked' /\ SeriesAreWhole'
  BY <1>1, <1>2
  DEF SeriesInv, RunsAreKnown, Known, RunsAreMarked, Listed, SeriesAreWhole
<1>4. StillToDo(p)' /\ AtLookup(p)'
  BY <1>1, <1>2 DEF SeriesInv, StillToDo, AtLookup
<1>5. AtItem(p)'
  BY <1>1 DEF AtItem, HandledIsKnown, Known, RowsDiffer
<1>6. InSeries(p)'
  BY <1>1 DEF InSeries
<1>. QED
  BY <1>3, <1>4, <1>5, <1>6 DEF SeriesInv

(* A revision that differs from the item's marker has had no run.          *)
LEMMA SeriesLook ==
  ASSUME TypeOK, BehindHost, SeriesInv, NEW p \in Passes, OneAtATime, LookupAnswers(p)
  PROVE  SeriesInv'
<1>. USE DEF OneAtATime, Working, Handling
<1>. DEFINE i == item[p]
            new == head[i]
<1>1. /\ UNCHANGED <<rows, runs, torn, snap, item>> /\ pc[p] = "look"
      /\ i \in Items /\ new \in Revisions /\ new \in Nat
      /\ Known(i) /\ found[p] = rows[i].marker /\ Settled(i)
      /\ \A r \in snap[p] : r.id # i
  BY BoundsAssumption
  DEF LookupAnswers, TypeOK, Revisions, history, deaths, SeriesInv, AtItem, AtLookup
<1>2. \A j : Settled(j) => Settled(j)'
  BY <1>1 DEF Settled
<1>3. /\ StillToDo(p)' /\ AtLookup(p)' /\ RunsAreKnown'
      /\ \A j \in Items : Listed(j) => Settled(j)
  BY <1>1, <1>2
  DEF SeriesInv, StillToDo, RunsAreKnown, RunsAreMarked, Known, AtLookup, LookupAnswers, TypeOK
<1>4. RunsAreMarked'
  BY <1>1, <1>2, <1>3 DEF RunsAreMarked, Listed
<1>5. AtItem(p)'
  BY <1>1 DEF AtItem, Known, LookupAnswers, TypeOK
<1>6. SeriesAreWhole'
  BY <1>1 DEF SeriesInv, SeriesAreWhole
<1>7. InSeries(p)'
  <2>. SUFFICES ASSUME new # found[p], i \notin torn
               PROVE  /\ \A r \in Revisions : runs[i][r] > 0 => r <= new
                      /\ runs[i][new] = 0
    <3>1. CASE new = found[p]
      BY <1>1, <3>1 DEF InSeries, LookupAnswers, TypeOK
    <3>2. CASE new # found[p]
      <4>1. pc'[p] = "run" /\ found'[p] = new /\ left'[p] = Amount(i)
        BY <3>2 DEF LookupAnswers, TypeOK
      <4>2. Amount(i) \in Nat /\ Amount(i) <= Amount(i) /\ 0 = Amount(i) - Amount(i) + 0
        BY DEF Amount
      <4>. QED
        BY <1>1, <1>2, <3>2, <4>1, <4>2 DEF InSeries
    <3>. QED
      BY <3>1, <3>2
  <2>1. \A r \in Revisions : r \in Nat /\ runs[i][r] \in Nat
    BY <1>1, BoundsAssumption DEF TypeOK, Revisions
  <2>2. rows[i].marker \in Revisions => rows[i].marker <= new
    BY <1>1 DEF BehindHost
  <2>3. \A r \in Revisions : runs[i][r] > 0 => rows[i].marker \in Revisions /\ r <= rows[i].marker
    BY <1>1 DEF Settled
  <2>4. \A r \in Revisions : runs[i][r] > 0 => r <= new
    BY <1>1, <2>1, <2>2, <2>3
  <2>5. runs[i][new] = 0
    <3>1. ~(runs[i][new] > 0)
      BY <1>1, <2>1, <2>2, <2>3
    <3>. QED
      BY <1>1, <2>1, <3>1
  <2>. QED
    BY <2>4, <2>5
<1>. QED
  BY <1>3, <1>4, <1>5, <1>6, <1>7 DEF SeriesInv

(* One more run of the revision in hand, whose marker is not written yet.  *)
LEMMA SeriesRun ==
  ASSUME TypeOK, LoopHasRuns, SeriesInv, NEW p \in Passes, OneAtATime, InsertRun(p)
  PROVE  SeriesInv'
<1>. USE DEF OneAtATime, Working, Handling
<1>. DEFINE i == item[p]
            f == found[p]
<1>1. /\ UNCHANGED <<rows, torn, snap, item, found, left>> /\ pc[p] = "run" /\ pc'[p] = "mark"
      /\ i \in Items /\ f \in Revisions
      /\ Known(i)
      /\ \A r \in snap[p] : r.id # i
  BY DEF InsertRun, TypeOK, LoopHasRuns, deaths, SeriesInv, AtItem
<1>2. /\ \A j \in Items, r \in Revisions : runs[j][r] \in Nat
      /\ \A j \in Items, r \in Revisions :
           runs'[j][r] = IF j = i /\ r = f THEN runs[j][r] + 1 ELSE runs[j][r]
  BY <1>1 DEF InsertRun, TypeOK
<1>3. \A j \in Items : j # i /\ Settled(j) => Settled(j)'
  BY <1>1, <1>2 DEF Settled
<1>4. RunsAreKnown'
  BY <1>1, <1>2 DEF SeriesInv, RunsAreKnown, Known
<1>5. RunsAreMarked'
  BY <1>1, <1>3 DEF SeriesInv, RunsAreMarked, Listed
<1>6. StillToDo(p)' /\ AtLookup(p)' /\ AtItem(p)'
  BY <1>1, <1>3 DEF SeriesInv, StillToDo, AtLookup, AtItem, Known, TypeOK
<1>7. SeriesAreWhole'
  BY <1>1, <1>2 DEF SeriesInv, SeriesAreWhole
<1>8. InSeries(p)'
  <2>. SUFFICES ASSUME i \notin torn
               PROVE  /\ \A r \in Revisions : runs'[i][r] > 0 => r <= f
                      /\ left[p] <= Amount(i)
                      /\ runs'[i][f] = Amount(i) - left[p] + 1
    BY <1>1 DEF InSeries
  <2>1. /\ \A r \in Revisions : runs[i][r] > 0 => r <= f
        /\ left[p] <= Amount(i)
        /\ runs[i][f] = Amount(i) - left[p] + 0
    BY <1>1 DEF SeriesInv, InSeries
  <2>2. f \in Int /\ left[p] \in Int /\ f <= f
    <3>1. f \in Int
      BY <1>1, BoundsAssumption DEF Revisions
    <3>2. left[p] \in 0 .. 3
      BY DEF TypeOK
    <3>. QED
      BY <3>1, <3>2
  <2>3. Amount(i) \in Int
    BY DEF Amount
  <2>4. runs'[i][f] = runs[i][f] + 1
    BY <1>1, <1>2
  <2>5. \A r \in Revisions : r # f => runs'[i][r] = runs[i][r]
    BY <1>1, <1>2
  <2>6. Amount(i) - left[p] + 0 + 1 = Amount(i) - left[p] + 1
    BY <2>2, <2>3
  <2>. QED
    BY <2>1, <2>2, <2>4, <2>5, <2>6
<1>. QED
  BY <1>4, <1>5, <1>6, <1>7, <1>8 DEF SeriesInv

(* The marker catches up; after the last run of the series it is whole.    *)
LEMMA SeriesMark ==
  ASSUME TypeOK, LoopHasRuns, SeriesInv, NEW p \in Passes, OneAtATime, Mark(p)
  PROVE  SeriesInv'
<1>. USE DEF OneAtATime, Working, Handling
<1>. DEFINE i == item[p]
            f == found[p]
<1>1. /\ UNCHANGED <<runs, torn, snap, item>> /\ pc[p] = "mark"
      /\ i \in Items /\ f \in Revisions
      /\ Known(i)
      /\ \A r \in snap[p] : r.id # i
  BY DEF Mark, TypeOK, LoopHasRuns, history, deaths, SeriesInv, AtItem
<1>a. left[p] \in Int /\ left[p] > 0
  <2>1. left[p] \in 0 .. 3
    BY DEF TypeOK
  <2>. QED
    BY <1>1, <2>1 DEF LoopHasRuns
<1>2. /\ \A j \in Items : rows'[j].state = rows[j].state
      /\ \A j \in Items : j # i => rows'[j].marker = rows[j].marker
      /\ rows[i].state = "listed" => rows'[i].marker = f
  <2>1. \A j \in Items : rows[j] \in Row
    BY DEF TypeOK
  <2>2. rows[i].state = "listed" => rows'[i].marker = f
    BY <1>1, <2>1 DEF Mark, Listed, TypeOK, Row
  <2>. QED
    BY <2>2, <1>1, PassUpdateLemma
<1>3. \A j \in Items : j # i /\ Settled(j) => Settled(j)'
  BY <1>1, <1>2 DEF Settled
<1>4. i \in torn \/ (/\ \A r \in Revisions : runs[i][r] > 0 => r <= f
                     /\ left[p] <= Amount(i)
                     /\ runs[i][f] = Amount(i) - left[p] + 1)
  BY <1>1 DEF SeriesInv, InSeries
<1>5. rows[i].state = "listed" => Settled(i)'
  BY <1>1, <1>2, <1>4 DEF Settled
<1>6. RunsAreKnown'
  BY <1>1, <1>2 DEF SeriesInv, RunsAreKnown, Known
<1>7. RunsAreMarked'
  <2>1. \A j \in Items : rows[j].state = "listed" => Settled(j)'
    BY <1>1, <1>3, <1>5 DEF SeriesInv, RunsAreMarked, Listed
  <2>. QED
    BY <1>2, <2>1 DEF RunsAreMarked, Listed
<1>8. /\ StillToDo(p)'
      /\ pc'[p] # "look"
      /\ pc'[p] \in {"next", "run"}
  <2>1. pc'[p] \in {"next", "run"}
    BY DEF Mark, TypeOK
  <2>. QED
    BY <1>1, <1>2, <1>3, <2>1 DEF SeriesInv, StillToDo, TypeOK
<1>9. AtLookup(p)' /\ AtItem(p)'
  BY <1>1, <1>2, <1>8 DEF AtLookup, AtItem, Known
<1>10. Amount(i) \in Int
  BY DEF Amount
<1>11. CASE left[p] = 1
  <2>1. pc'[p] = "next"
    BY <1>11 DEF Mark, TypeOK
  <2>2. i \in torn \/ runs[i][f] = Amount(i)
    BY <1>a, <1>4, <1>10, <1>11
  <2>3. SeriesAreWhole'
    BY <1>1, <2>2 DEF SeriesInv, SeriesAreWhole
  <2>4. InSeries(p)'
    BY <2>1 DEF InSeries
  <2>. QED
    BY <1>6, <1>7, <1>8, <1>9, <2>3, <2>4 DEF SeriesInv
<1>12. CASE left[p] # 1
  <2>1. pc'[p] = "run" /\ found'[p] = f /\ left'[p] = left[p] - 1
    BY <1>12 DEF Mark, TypeOK
  <2>2. SeriesAreWhole'
    BY <1>1, <2>1 DEF SeriesInv, SeriesAreWhole
  <2>3. i \in torn \/ (/\ left[p] - 1 <= Amount(i) /\ left[p] - 1 # Amount(i)
                       /\ runs[i][f] = Amount(i) - (left[p] - 1) + 0)
    BY <1>a, <1>4, <1>10
  <2>4. InSeries(p)'
    BY <1>1, <1>4, <2>1, <2>3 DEF InSeries
  <2>. QED
    BY <1>6, <1>7, <1>8, <1>9, <2>2, <2>4 DEF SeriesInv
<1>. QED
  BY <1>11, <1>12

(* A series a pass dies in is not whole, and one that it has not begun is  *)
(* left for the next pass.                                                 *)
LEMMA SeriesDies ==
  ASSUME TypeOK, LoopHasRuns, SeriesInv, NEW p \in Passes, OneAtATime, PassDies(p)
  PROVE  SeriesInv'
<1>. USE DEF OneAtATime, Working, Handling
<1>. DEFINE i == item[p]
            f == found[p]
<1>1. /\ UNCHANGED <<rows, runs, item>> /\ pc'[p] = "idle" /\ snap'[p] = {}
      /\ torn \subseteq torn'
      /\ i \in Items /\ left[p] \in Int
  <2>1. i \in Items /\ left[p] \in Int
    <3>1. item \in [Passes -> Items] /\ left \in [Passes -> 0 .. 3]
      BY DEF TypeOK
    <3>2. 0 .. 3 \subseteq Int
      OBVIOUS
    <3>. QED
      BY <3>1, <3>2
  <2>2. p \in DOMAIN pc /\ p \in DOMAIN snap
    BY DEF TypeOK
  <2>3. UNCHANGED <<rows, runs, item>> /\ torn \subseteq torn'
    BY DEF PassDies, history
  <2>4. pc'[p] = "idle" /\ snap'[p] = {}
    BY <2>2 DEF PassDies
  <2>. QED
    BY <2>1, <2>3, <2>4
<1>2. \A j \in Items : Settled(j) => Settled(j)'
  BY <1>1 DEF Settled
<1>3. Amount(i) \in Int
  BY DEF Amount
<1>4. pc[p] \in Working =>
        \/ i \in torn'
        \/ pc[p] = "run" /\ left[p] = Amount(i) /\ Settled(i) /\ runs[i][f] = 0
  <2>. SUFFICES ASSUME pc[p] \in Working, i \notin torn'
               PROVE  pc[p] = "run" /\ left[p] = Amount(i) /\ Settled(i) /\ runs[i][f] = 0
    OBVIOUS
  <2>1. pc[p] = "run" /\ ~(left[p] < Amount(i))
    BY <1>1 DEF PassDies
  <2>2. i \notin torn
    BY <1>1
  <2>3. /\ left[p] <= Amount(i) /\ runs[i][f] = Amount(i) - left[p] + 0
        /\ left[p] = Amount(i) => Settled(i)
    BY <2>1, <2>2 DEF SeriesInv, InSeries
  <2>4. left[p] = Amount(i) /\ Amount(i) - left[p] + 0 = 0
    BY <1>1, <1>3, <2>1, <2>3
  <2>. QED
    BY <2>1, <2>3, <2>4
<1>5. RunsAreKnown'
  BY <1>1 DEF SeriesInv, RunsAreKnown, Known
<1>6. RunsAreMarked'
  <2>1. \A j \in Items : Listed(j) => Settled(j)'
    <3>. SUFFICES ASSUME NEW j \in Items, Listed(j)
                 PROVE  Settled(j)'
      OBVIOUS
    <3>1. Settled(j) \/ (pc[p] \in Working /\ i = j)
      BY DEF SeriesInv, RunsAreMarked
    <3>2. i \in torn' => Settled(i)'
      BY <1>1 DEF Settled
    <3>. QED
      BY <3>1, <3>2, <1>1, <1>2, <1>4
  <2>. QED
    BY <1>1, <2>1 DEF RunsAreMarked, Listed
<1>7. StillToDo(p)' /\ AtLookup(p)' /\ AtItem(p)' /\ InSeries(p)'
  BY <1>1 DEF StillToDo, AtLookup, AtItem, InSeries
<1>8. SeriesAreWhole'
  <2>. SUFFICES ASSUME NEW j \in Items, NEW r \in Revisions
               PROVE  runs[j][r] \in {0, Amount(j)} \/ j \in torn'
    BY <1>1 DEF SeriesAreWhole
  <2>1. \/ runs[j][r] \in {0, Amount(j)} \/ j \in torn
        \/ pc[p] \in Working /\ i = j /\ f = r
    BY DEF SeriesInv, SeriesAreWhole
  <2>. QED
    BY <1>1, <1>4, <2>1
<1>. QED
  BY <1>5, <1>6, <1>7, <1>8 DEF SeriesInv

(* What one pass at a time knows of the runs it inserts is kept.           *)
LEMMA SeriesStep ==
  /\ TypeOK /\ LoopHasRuns /\ AddingIsUnlisted /\ HandledIsKnown /\ RowsDiffer /\ BehindHost /\ SeriesInv
  /\ OneAtATime /\ [Next]_vars
  => SeriesInv'
<1>. SUFFICES ASSUME TypeOK, LoopHasRuns, AddingIsUnlisted, HandledIsKnown, RowsDiffer, BehindHost,
                     SeriesInv, OneAtATime, [Next]_vars
              PROVE  SeriesInv'
  OBVIOUS
<1>1. ASSUME NEW p \in Passes, PassStep(p) \/ PassDies(p)
      PROVE  SeriesInv'
  <2>1. CASE \/ Touch(p) \/ InsertDated(p) \/ LookupFails(p) \/ EndPass(p)
             \/ \E r \in snap[p] : DateItem(p, r)
    BY <2>1, SeriesQuiet
  <2>2. CASE \E r \in snap[p] : MarkerItem(p, r)
    BY <2>2, SeriesTurn
  <2>3. CASE StartPass(p)
    BY <2>3, SeriesStart
  <2>4. CASE LookupAnswers(p)
    BY <2>4, SeriesLook
  <2>5. CASE InsertRun(p)
    BY <2>5, SeriesRun
  <2>6. CASE Mark(p)
    BY <2>6, SeriesMark
  <2>7. CASE PassDies(p)
    BY <2>7, SeriesDies
  <2>. QED
    BY <1>1, <2>1, <2>2, <2>3, <2>4, <2>5, <2>6, <2>7 DEF PassStep
<1>2. CASE NextDay \/ (\E i \in Items : Push(i) \/ Add(i) \/ RequestDies(i) \/ Remove(i)) \/ UNCHANGED vars
  <2>1. ASSUME NEW p \in Passes
        PROVE  SeriesInv'
    BY <1>2, SeriesOutside
  <2>2. CASE Passes = {}
    <3>1. UNCHANGED <<runs, torn>>
      BY <1>2, OutsideRowLemma
    <3>2. \A i \in Items : Known(i) => rows'[i].state # "absent" /\ rows'[i].marker = rows[i].marker
      BY <1>2, OutsideRowLemma, RowStep DEF Known
    <3>3. \A i \in Items, r \in Revisions : runs[i][r] \in {0, Amount(i)} \/ i \in torn
      BY <2>2 DEF SeriesInv, SeriesAreWhole
    <3>4. SeriesAreWhole'
      BY <3>1, <3>3 DEF SeriesAreWhole
    <3>5. RunsAreKnown'
      BY <3>1, <3>2 DEF SeriesInv, RunsAreKnown, Known
    <3>6. RunsAreMarked'
      <4>. SUFFICES ASSUME NEW i \in Items, rows'[i].state = "listed"
                   PROVE  Settled(i)'
        BY DEF RunsAreMarked, Listed
      <4>1. CASE Known(i)
        <5>1. Settled(i)
          BY <2>2, <4>1, RowStep DEF SeriesInv, RunsAreMarked, Known, Listed
        <5>. QED
          BY <3>1, <3>2, <4>1, <5>1 DEF Settled
      <4>2. CASE ~Known(i)
        BY <3>1, <4>2 DEF SeriesInv, RunsAreKnown, Settled
      <4>. QED
        BY <4>1, <4>2
    <3>. QED
      BY <2>2, <3>4, <3>5, <3>6 DEF SeriesInv
  <2>. QED
    BY <2>1, <2>2
<1>. QED
  BY <1>1, <1>2 DEF Next

(* Each revision a pass finds new gets its one run, or its three, no more  *)
(* and no fewer, unless a pass died over the item: provided that no two    *)
(* passes overlap, and whatever is pushed, added, removed or fails to      *)
(* answer meanwhile.                                                       *)
THEOREM SeriesAreRunWhole ==
  ASSUME OneAtATime
  PROVE  Spec => []SeriesAreWhole
<1>. DEFINE IInv == /\ TypeOK /\ LoopHasRuns /\ DayInHand /\ AddingIsUnlisted /\ HandledIsKnown
                    /\ RowsDiffer /\ BehindHost /\ SeriesInv
<1>1. Init => IInv
  <2>. SUFFICES ASSUME Init
                PROVE  /\ AddingIsUnlisted /\ HandledIsKnown /\ RowsDiffer /\ BehindHost /\ SeriesInv
    BY InitLemma
  <2>1. /\ \A i \in Items : head[i] \in Nat /\ asked[i] = 0 /\ rows[i].marker = 0 /\ slots[i] = {}
        /\ \A i \in Items, r \in Revisions : runs[i][r] = 0
    BY DEF Init, None
  <2>2. \A p \in Passes : pc[p] = "idle" /\ snap[p] = {}
    BY DEF Init
  <2>3. AddingIsUnlisted /\ HandledIsKnown /\ RowsDiffer /\ BehindHost
    BY <2>1, <2>2 DEF Init, AddingIsUnlisted, HandledIsKnown, RowsDiffer, BehindHost
  <2>4. RunsAreKnown /\ RunsAreMarked /\ SeriesAreWhole
    BY <2>1 DEF RunsAreKnown, RunsAreMarked, Settled, SeriesAreWhole
  <2>5. \A p \in Passes : StillToDo(p) /\ AtLookup(p) /\ AtItem(p) /\ InSeries(p)
    BY <2>2 DEF StillToDo, AtLookup, AtItem, InSeries, Working, Handling
  <2>. QED
    BY <2>3, <2>4, <2>5 DEF SeriesInv
<1>2. IInv /\ [Next]_vars => IInv'
  BY TypeStep, LoopStep, DayStep, AddingStep, KnownStep, DifferStep, BehindStep, SeriesStep
<1>3. IInv => SeriesAreWhole
  BY DEF SeriesInv
<1>. QED
  BY <1>1, <1>2, <1>3, PTL DEF Spec

-----------------------------------------------------------------------------
(* A pass leaves no daily item unserved. It learns at its start what is    *)
(* due; an item that is not due then has the day on record, and a day on   *)
(* record was served, or a pass is about to, or has died trying.           *)

(* What was read has been on the list.                                     *)
SeenIsKnown == \A p \in Passes : \A i \in seen[p] : Known(i)

(* No pass began in the future.                                            *)
BeganBefore == \A p \in Passes : began[p] <= day

AtInsert(p, i, d) == pc[p] = "insert" /\ item[p] = i /\ found[p] = d

(* The day on record is served or about to be.                             *)
LastIsServed ==
  \A i \in Items : rows[i].last # 0 =>
    \/ rows[i].last \in slots[i]
    \/ i \in torn
    \/ \E p \in Passes : AtInsert(p, i, rows[i].last)

(* Of the daily items a pass read today, those without their run are still *)
(* before it or in its hands.                                              *)
DueIsServed ==
  \A p \in Passes : \A i \in seen[p] :
    Listed(i) /\ ModeOf[i] = "daily" /\ began[p] = day =>
      \/ Served(i, 1)
      \/ pc[p] = "touch" /\ item[p] = i
      \/ AtInsert(p, i, day) /\ rows[i].last = day
      \/ \E r \in snap[p] : r.id = i /\ r.due

(* A pass reads the list at its start and forgets it at its end.           *)
LEMMA ReadLemma ==
  ASSUME TypeOK, [Next]_vars, NEW p \in Passes
  PROVE  \/ seen'[p] = seen[p] /\ began'[p] = began[p]
         \/ seen'[p] = {} /\ began'[p] = 1
         \/ StartPass(p)
<1>. USE DEF TypeOK
<1>1. ASSUME NEW q \in Passes, StartPass(q)
      PROVE  StartPass(p) \/ (seen'[p] = seen[p] /\ began'[p] = began[p])
  BY <1>1 DEF StartPass
<1>2. ASSUME NEW q \in Passes, EndPass(q) \/ PassDies(q)
      PROVE  \/ seen'[p] = seen[p] /\ began'[p] = began[p]
             \/ seen'[p] = {} /\ began'[p] = 1
  BY <1>2 DEF EndPass, PassDies, Forget
<1>3. ASSUME NEW q \in Passes, PassStep(q), ~StartPass(q), ~EndPass(q)
      PROVE  UNCHANGED reading
  BY <1>3
  DEF PassStep, DateItem, MarkerItem, LookupAnswers, LookupFails, Touch, InsertDated, InsertRun, Mark
<1>4. CASE UNCHANGED reading
  BY <1>4 DEF reading
<1>5. NextDay \/ (\E i \in Items : Push(i) \/ Add(i) \/ RequestDies(i) \/ Remove(i)) \/ UNCHANGED vars
        => UNCHANGED reading
  BY OutsideStep DEF pass, vars, reading
<1>. QED
  BY <1>1, <1>2, <1>3, <1>4, <1>5 DEF Next

(* What the list looked like is remembered of known items, of days gone    *)
(* by.                                                                     *)
LEMMA ReadStep ==
  TypeOK /\ AddingIsUnlisted /\ SeenIsKnown /\ BeganBefore /\ [Next]_vars
    => SeenIsKnown' /\ BeganBefore'
<1>. SUFFICES ASSUME TypeOK, AddingIsUnlisted, SeenIsKnown, BeganBefore, [Next]_vars, NEW p \in Passes
              PROVE  (\A i \in seen'[p] : rows'[i].state # "absent") /\ began'[p] <= day'
  BY DEF SeenIsKnown, BeganBefore, Known
<1>1. \A i \in Items : rows[i].state # "absent" => rows'[i].state # "absent"
  BY RowStep
<1>2. seen[p] \subseteq Items /\ began[p] \in Int /\ day \in Int /\ day' \in Int /\ day <= day' /\ 1 <= day'
  <2>1. day \in Days /\ began[p] \in Days /\ (day' = day \/ day' = day + 1)
    BY DayLemma DEF TypeOK
  <2>. QED
    BY <2>1 DEF Days, TypeOK
<1>3. CASE seen'[p] = seen[p] /\ began'[p] = began[p]
  BY <1>1, <1>2, <1>3 DEF SeenIsKnown, BeganBefore, Known
<1>4. CASE seen'[p] = {} /\ began'[p] = 1
  BY <1>2, <1>4
<1>5. CASE StartPass(p)
  <2>1. seen'[p] = {i \in Items : Listed(i)} /\ began'[p] = day
    BY <1>5 DEF StartPass, TypeOK
  <2>. QED
    BY <1>1, <1>2, <2>1 DEF Listed
<1>. QED
  BY <1>3, <1>4, <1>5, ReadLemma

(* How a pass lets go of a row and of an item that runs by the calendar.   *)
LEMMA LeaveLemma ==
  ASSUME TypeOK, [Next]_vars, NEW p \in Passes
  PROVE  /\ pc[p] = "touch" =>
              (pc'[p] = "touch" /\ item'[p] = item[p]) \/ Touch(p) \/ PassDies(p)
         /\ pc[p] = "insert" =>
              \/ pc'[p] = "insert" /\ item'[p] = item[p] /\ found'[p] = found[p]
              \/ InsertDated(p) \/ PassDies(p)
         /\ \A r \in snap[p] :
              r \in snap'[p] \/ DateItem(p, r) \/ MarkerItem(p, r) \/ StartPass(p) \/ PassDies(p)
<1>. USE DEF TypeOK
<1>1. CASE UNCHANGED pass
  BY <1>1 DEF pass
<1>2. ASSUME NEW q \in Passes, PassStep(q) \/ PassDies(q), q # p
      PROVE  snap'[p] = snap[p] /\ pc'[p] = pc[p] /\ item'[p] = item[p] /\ found'[p] = found[p]
  <2>1. CASE \E r \in snap[q] : DateItem(q, r) \/ MarkerItem(q, r)
    BY <1>2, <2>1 DEF DateItem, MarkerItem, Turn, WorkOn
  <2>2. CASE StartPass(q) \/ LookupAnswers(q) \/ LookupFails(q) \/ Touch(q) \/ InsertDated(q)
    BY <1>2, <2>2 DEF StartPass, LookupAnswers, LookupFails, Touch, InsertDated
  <2>3. CASE InsertRun(q) \/ Mark(q) \/ EndPass(q) \/ PassDies(q)
    BY <1>2, <2>3 DEF InsertRun, Mark, EndPass, PassDies
  <2>. QED
    BY <1>2, <2>1, <2>2, <2>3 DEF PassStep
<1>3. ASSUME NEW r \in snap[p], DateItem(p, r) \/ MarkerItem(p, r)
      PROVE  pc[p] = "next" /\ snap'[p] = snap[p] \ {r}
  BY <1>3 DEF DateItem, MarkerItem, Turn
<1>4. ASSUME LookupAnswers(p) \/ LookupFails(p) \/ InsertRun(p) \/ Mark(p) \/ EndPass(p)
      PROVE  pc[p] \notin {"touch", "insert"} /\ snap'[p] = snap[p]
  BY <1>4 DEF LookupAnswers, LookupFails, InsertRun, Mark, EndPass, Finished
<1>5. Touch(p) => pc[p] = "touch" /\ snap'[p] = snap[p]
  BY DEF Touch
<1>6. InsertDated(p) => pc[p] = "insert" /\ snap'[p] = snap[p]
  BY DEF InsertDated
<1>7. StartPass(p) => pc[p] = "idle"
  BY DEF StartPass
<1>8. UNCHANGED vars => UNCHANGED pass
  BY DEF vars, pass, reading
<1>9. ASSUME PassStep(p)
      PROVE  /\ pc[p] = "touch" => Touch(p)
             /\ pc[p] = "insert" => InsertDated(p)
             /\ \A r \in snap[p] : r \in snap'[p] \/ DateItem(p, r) \/ MarkerItem(p, r) \/ StartPass(p)
  BY <1>3, <1>4, <1>5, <1>6, <1>7, <1>9 DEF PassStep
<1>10. CASE PassStep(p) \/ PassDies(p)
  BY <1>9, <1>10
<1>11. CASE \E q \in Passes : q # p /\ (PassStep(q) \/ PassDies(q))
  BY <1>2, <1>11
<1>. QED
  BY <1>1, <1>8, <1>10, <1>11, OutsideStep DEF Next

(* Runs and deaths are not undone.                                         *)
LEMMA ServedLemma ==
  ASSUME TypeOK, [Next]_vars
  PROVE  torn \subseteq torn' /\ \A i \in Items : slots[i] \subseteq slots'[i]
<1>1. \A i \in Items : slots[i] \subseteq slots'[i]
  <2>1. ASSUME NEW p \in Passes, InsertDated(p)
        PROVE  \A i \in Items : slots[i] \subseteq slots'[i]
    BY <2>1 DEF InsertDated, TypeOK
  <2>. QED
    BY <2>1, OnlyInsertLemma
<1>2. torn \subseteq torn'
  <2>1. \A p \in Passes : PassDies(p) => torn \subseteq torn'
    BY DEF PassDies
  <2>2. UNCHANGED torn \/ \E p \in Passes : PassDies(p)
    BY DEF Next, NextDay, Push, Add, AddLooksUp, AddLists, AddAsksForRuns, RequestDies, Remove,
           PassStep, StartPass, DateItem, MarkerItem, LookupAnswers, LookupFails, Touch,
           InsertDated, InsertRun, Mark, EndPass, deaths, vars
  <2>. QED
    BY <2>1, <2>2
<1>. QED
  BY <1>1, <1>2

(* The day is put on record by a pass that will insert the run, or dies.   *)
LEMMA LastStep ==
  TypeOK /\ AddingIsUnlisted /\ LastIsServed /\ [Next]_vars => LastIsServed'
<1>. SUFFICES ASSUME TypeOK, AddingIsUnlisted, LastIsServed, [Next]_vars,
                     NEW i \in Items, rows'[i].last # 0
              PROVE  \/ rows'[i].last \in slots'[i]
                     \/ i \in torn'
                     \/ \E p \in Passes : pc'[p] = "insert" /\ item'[p] = i /\ found'[p] = rows'[i].last
  BY DEF LastIsServed, AtInsert
<1>1. ASSUME NEW p \in Passes, Touch(p), item[p] = i, rows'[i].last = day
      PROVE  pc'[p] = "insert" /\ item'[p] = i /\ found'[p] = day
  BY <1>1 DEF Touch, TypeOK
<1>2. CASE rows'[i].last = rows[i].last
  <2>1. CASE rows[i].last \in slots[i] \/ i \in torn
    BY <1>2, <2>1, ServedLemma
  <2>2. ASSUME NEW p \in Passes, pc[p] = "insert", item[p] = i, found[p] = rows[i].last
        PROVE  \/ rows[i].last \in slots'[i]
               \/ i \in torn'
               \/ pc'[p] = "insert" /\ item'[p] = i /\ found'[p] = rows[i].last
    <3>1. CASE InsertDated(p)
      BY <2>2, <3>1 DEF InsertDated, TypeOK
    <3>2. CASE PassDies(p)
      BY <2>2, <3>2 DEF PassDies
    <3>. QED
      BY <2>2, <3>1, <3>2, LeaveLemma
  <2>. QED
    BY <1>2, <2>1, <2>2 DEF LastIsServed, AtInsert
<1>. QED
  BY <1>1, <1>2, RowStep

(* What is due stays before the pass or in its hands until it is served;   *)
(* what is not due was served.                                             *)
LEMMA DueStep ==
  /\ TypeOK /\ AddingIsUnlisted /\ SlotsAreRecorded /\ SeenIsKnown /\ BeganBefore /\ LastIsServed
  /\ DueIsServed /\ OneAtATime /\ [Next]_vars
  => DueIsServed'
<1>. SUFFICES ASSUME TypeOK, AddingIsUnlisted, SlotsAreRecorded, SeenIsKnown, BeganBefore, LastIsServed,
                     DueIsServed, OneAtATime, [Next]_vars, NEW p \in Passes, NEW i \in seen'[p],
                     rows'[i].state = "listed", ModeOf[i] = "daily", began'[p] = day'
              PROVE  \/ Served(i, 1)'
                     \/ pc'[p] = "touch" /\ item'[p] = i
                     \/ AtInsert(p, i, day)' /\ rows'[i].last = day'
                     \/ \E r \in snap'[p] : r.id = i /\ r.due
  BY DEF DueIsServed, Listed
<1>1. day \in Int /\ day' \in Int /\ day > 0 /\ (day' = day \/ day' = day + 1)
  BY DayLemma DEF TypeOK, Days
<1>2. CASE StartPass(p)
  <2>1. /\ UNCHANGED <<rows, slots, torn, day>> /\ pc[p] = "idle"
        /\ i \in Items /\ Listed(i)
    BY <1>2 DEF StartPass, TypeOK, history, deaths, world
  <2>2. CASE DueByDate(i)
    <3>1. [id |-> i, due |-> TRUE, marker |-> rows[i].marker] \in snap'[p]
      BY <1>2, <2>1, <2>2 DEF StartPass, TypeOK
    <3>. QED
      BY <3>1
  <2>3. CASE ~DueByDate(i)
    <3>1. rows[i].last # 0 /\ ~(rows[i].last < day) /\ rows[i].last \in Int /\ rows[i].last <= day
      BY <2>1, <2>3, NumbersLemma DEF DueByDate, SlotsAreRecorded
    <3>2. rows[i].last = day /\ day < day + 1
      BY <3>1, <1>1
    <3>3. rows[i].last \in slots[i] \/ i \in torn
      BY <2>1, <3>1 DEF LastIsServed, OneAtATime, AtInsert
    <3>. QED
      BY <1>1, <2>1, <3>2, <3>3 DEF Served
  <2>. QED
    BY <2>2, <2>3
<1>3. CASE seen'[p] = seen[p] /\ began'[p] = began[p] /\ ~StartPass(p) /\ ~PassDies(p)
  <2>1. day' = day /\ began[p] = day
    <3>1. began[p] <= day
      BY DEF BeganBefore
    <3>. QED
      BY <1>1, <1>3, <3>1
  <2>2. i \in Items /\ i \in seen[p] /\ Listed(i)
    <3>1. i \in Items /\ i \in seen[p]
      BY <1>3 DEF TypeOK
    <3>. QED
      BY <3>1, RowStep DEF SeenIsKnown, Known, Listed
  <2>3. rows[i].last \in Int
    BY <2>2, NumbersLemma
  <2>4. CASE Touch(p) /\ item[p] = i
    <3>1. /\ pc'[p] = "insert" /\ item'[p] = i /\ found'[p] = day
          /\ rows'[i].last = day
      BY <2>2, <2>4 DEF Touch, TypeOK, Row
    <3>. QED
      BY <2>1, <3>1 DEF AtInsert
  <2>5. CASE ~(Touch(p) /\ item[p] = i)
    <3>1. rows'[i].last = rows[i].last
      BY <2>2, <2>5, RowStep DEF OneAtATime
    <3>2. CASE Served(i, 1)
      BY <2>1, <2>2, <3>1, <3>2, ServedLemma DEF Served
    <3>3. CASE pc[p] = "touch" /\ item[p] = i
      BY <1>3, <2>5, <3>3, LeaveLemma
    <3>4. CASE AtInsert(p, i, day) /\ rows[i].last = day
      <4>1. CASE InsertDated(p)
        <5>1. day \in slots'[i]
          BY <2>2, <3>4, <4>1 DEF InsertDated, AtInsert, TypeOK
        <5>. QED
          BY <1>1, <2>1, <3>1, <3>4, <5>1 DEF Served
      <4>2. CASE ~InsertDated(p)
        BY <1>3, <2>1, <3>1, <3>4, <4>2, LeaveLemma DEF AtInsert
      <4>. QED
        BY <4>1, <4>2
    <3>5. ASSUME NEW r \in snap[p], r.id = i, r.due
          PROVE  (pc'[p] = "touch" /\ item'[p] = i) \/ r \in snap'[p]
      <4>1. ~MarkerItem(p, r)
        BY <3>5 DEF MarkerItem, MarkerModes
      <4>2. DateItem(p, r) => pc'[p] = "touch" /\ item'[p] = i
        BY <3>5 DEF DateItem, WorkOn, TypeOK
      <4>. QED
        BY <1>3, <4>1, <4>2, LeaveLemma
    <3>. QED
      BY <2>1, <2>2, <3>2, <3>3, <3>4, <3>5 DEF DueIsServed
  <2>. QED
    BY <2>4, <2>5
<1>4. CASE PassDies(p)
  BY <1>4 DEF PassDies, Forget, TypeOK
<1>. QED
  BY <1>2, <1>3, <1>4, ReadLemma

(* A pass that begins and ends on the same day leaves no daily item it     *)
(* read without a run for that day, unless a pass died over the item:      *)
(* provided that no two passes overlap.                                    *)
THEOREM DailyItemsAreServed ==
  ASSUME OneAtATime
  PROVE  Spec => []PassServes
<1>. DEFINE IInv == /\ TypeOK /\ LoopHasRuns /\ DayInHand /\ AddingIsUnlisted /\ HandledIsKnown
                    /\ SlotsAreRecorded /\ SeenIsKnown /\ BeganBefore /\ LastIsServed /\ DueIsServed
<1>1. Init => IInv
  <2>. SUFFICES ASSUME Init
                PROVE  /\ AddingIsUnlisted /\ HandledIsKnown /\ SlotsAreRecorded /\ SeenIsKnown
                       /\ BeganBefore /\ LastIsServed /\ DueIsServed
    BY InitLemma
  <2>1. \A i \in Items : rows[i].last = 0 /\ slots[i] = {}
    BY DEF Init
  <2>2. \A p \in Passes : pc[p] = "idle" /\ snap[p] = {} /\ seen[p] = {} /\ began[p] <= day
    BY DEF Init
  <2>3. AddingIsUnlisted /\ HandledIsKnown /\ SlotsAreRecorded
    BY <2>1, <2>2 DEF Init, AddingIsUnlisted, HandledIsKnown, SlotsAreRecorded
  <2>4. SeenIsKnown /\ BeganBefore /\ LastIsServed /\ DueIsServed
    BY <2>1, <2>2 DEF SeenIsKnown, BeganBefore, LastIsServed, DueIsServed
  <2>. QED
    BY <2>3, <2>4
<1>2. IInv /\ [Next]_vars => IInv'
  BY TypeStep, LoopStep, DayStep, AddingStep, KnownStep, RecordedStep, ReadStep, LastStep, DueStep
<1>3. IInv => PassServes
  BY DEF DueIsServed, PassServes, Finished, AtInsert
<1>. QED
  BY <1>1, <1>2, <1>3, PTL DEF Spec

-----------------------------------------------------------------------------
(***************************************************************************)
(* Accounts, for every number of requests, jobs and machines, every quota  *)
(* and any number of lost answers. What a write does to the row depends on *)
(* the copy it writes, so the invariant says of every process how its copy *)
(* differs from the document it last saw: a request by the one unit it has *)
(* taken and the setting it was given, a job by the seconds it has         *)
(* measured, and not at all once it was written.                           *)
(***************************************************************************)

(* The values of program counters.                                         *)
Labels == {"idle", "deduct", "handle", "save", "saveKey", "measure", "pay", "done",
           "refused", "dead"}

(* No copy is overdrawn, and a job starts with seconds to spare.           *)
InBounds(d) ==
  d.api >= 0 /\ \A m \in Machines : d.machines[m] > 0 - MaxDuration
CopiesInBounds ==
  /\ InBounds(document)
  /\ \A p \in Processes : InBounds(user[p].capabilities)
  /\ \A j \in Jobs : at[j] = "measure" =>
       user[j].capabilities.machines[MachineOf[j]] > 0

(* How a copy differs from the document its process last saw.              *)
Same(c, d) == c.api = d.api /\ c.machines = d.machines /\ c.setting = d.setting
RequestOK(r) ==
  LET c == user[r].capabilities  b == base[r]
  IN /\ at[r] = "idle" => r \notin deducted
     /\ at[r] \in {"idle", "deduct", "handle"} => r \notin stored
     /\ at[r] = "deduct" /\ r \notin deducted =>
          c.api = b.api - 1 /\ c.machines = b.machines /\ c.setting = b.setting
     /\ at[r] = "deduct" /\ r \in deducted => Same(c, b)
     /\ at[r] = "handle" => Same(c, b)
     /\ at[r] = "save" => c.api = b.api /\ c.machines = b.machines
     /\ at[r] = "save" /\ r \in stored => c.setting = b.setting
JobOK(j) ==
  LET c == user[j].capabilities  b == base[j]
  IN /\ at[j] = "measure" => Same(c, b)
     /\ at[j] = "pay" =>
          /\ c.api = b.api /\ c.setting = b.setting
          /\ \A m \in Machines \ {MachineOf[j]} : c.machines[m] = b.machines[m]
CopiesAreTrue == (\A r \in Requests : RequestOK(r)) /\ (\A j \in Jobs : JobOK(j))

IInv == AccountTypes /\ CopiesInBounds /\ CopiesAreTrue /\ BooksBalance /\ KeyIsLast

-----------------------------------------------------------------------------
(* Types of a write and of what it writes.                                 *)
LEMMA TypesOfWriting ==
  ASSUME AccountTypes, NEW p \in Processes, NEW from \in Labels, NEW to \in Labels,
         Written(p, from, to)
  PROVE  at' \in [Processes -> Labels] /\ breaks' \in 0 .. MaxBreaks
BY BoundAssumption DEF AccountTypes, Written, Go, Labels

(* Types of the row after a write.                                         *)
LEMMA TypesOfUpdate ==
  ASSUME AccountTypes, NEW p \in Processes, Update(p)
  PROVE  document' \in Document /\ base' \in [Processes -> Document] /\ stale' \in BOOLEAN
BY DEF AccountTypes, Update, User

(* Types of what requests do before they are handled.                      *)
LEMMA TypesOfDeduction ==
  ASSUME AccountTypes, NEW r \in Requests, Authenticate(r) \/ QuotaExceeded(r) \/ Deduct(r)
  PROVE  AccountTypes'
<1> USE BoundAssumption DEF AccountTypes, Processes, Document, User, Go, columns, known
<1>1. CASE Authenticate(r)
  <2>1. [document EXCEPT !.api = @ - 1] \in Document
    OBVIOUS
  <2>2. /\ user' \in [Processes -> User] /\ base' \in [Processes -> Document]
    BY <1>1, <2>1 DEF Authenticate, Read
  <2> QED BY <1>1, <2>2 DEF Authenticate
<1>2. CASE QuotaExceeded(r)
  BY <1>2 DEF QuotaExceeded
<1>3. CASE Deduct(r)
  <2>1. at' \in [Processes -> Labels] /\ breaks' \in 0 .. MaxBreaks
    BY <1>3, TypesOfWriting DEF Deduct, Labels
  <2>2. document' \in Document /\ base' \in [Processes -> Document] /\ stale' \in BOOLEAN
    BY <1>3, TypesOfUpdate DEF Deduct
  <2> QED BY <1>3, <2>1, <2>2 DEF Deduct, Labels
<1> QED BY <1>1, <1>2, <1>3

(* Types of what routes do.                                                *)
LEMMA TypesOfRoutes ==
  ASSUME AccountTypes, NEW r \in Requests,
         HandlesOther(r) \/ ChangeSetting(r) \/ Save(r) \/ ChangeKey(r) \/ SaveKey(r)
  PROVE  AccountTypes'
<1> USE BoundAssumption DEF AccountTypes, Processes, Document, User, Go, columns, known
<1>1. CASE HandlesOther(r)
  BY <1>1 DEF HandlesOther
<1>2. CASE ChangeSetting(r)
  <2>1. user' \in [Processes -> User]
    BY <1>2 DEF ChangeSetting, Changes
  <2> QED BY <1>2, <2>1 DEF ChangeSetting, Changes
<1>3. CASE Save(r)
  <2>1. at' \in [Processes -> Labels] /\ breaks' \in 0 .. MaxBreaks
    BY <1>3, TypesOfWriting DEF Save, Labels
  <2>2. document' \in Document /\ base' \in [Processes -> Document] /\ stale' \in BOOLEAN
    BY <1>3, TypesOfUpdate DEF Save
  <2>3. last' \in [setting : Values, key : Values] /\ stored' \subseteq Requests
    BY <1>3 DEF Save
  <2> QED BY <1>3, <2>1, <2>2, <2>3 DEF Save, Labels
<1>4. CASE ChangeKey(r)
  <2>1. user' \in [Processes -> User]
    BY <1>4 DEF ChangeKey
  <2> QED BY <1>4, <2>1 DEF ChangeKey
<1>5. CASE SaveKey(r)
  <2>1. at' \in [Processes -> Labels] /\ breaks' \in 0 .. MaxBreaks
    BY <1>5, TypesOfWriting DEF SaveKey, Labels
  <2>2. /\ last' \in [setting : Values, key : Values] /\ stored' \subseteq Requests
        /\ key' \in Values
    BY <1>5 DEF SaveKey
  <2>3. repeated' \in BOOLEAN
    BY <1>5 DEF SaveKey
  <2> QED BY <1>5, <2>1, <2>2, <2>3 DEF SaveKey, Labels
<1> QED BY <1>1, <1>2, <1>3, <1>4, <1>5

(* What a job has measured is a number of seconds.                         *)
LEMMA SecondsAreWhole ==
  ASSUME AccountTypes, NEW j \in Jobs PROVE Seconds(j) \in Int
BY MachineAssumption DEF AccountTypes, Seconds, Processes, Document, User

(* A balance from which something is taken is a balance.                   *)
LEMMA BalanceIsWhole ==
  ASSUME NEW f \in [Machines -> Int], NEW m \in Machines, NEW s \in Int
  PROVE  [f EXCEPT ![m] = @ - s] \in [Machines -> Int]
OBVIOUS

(* A document with other balances is a document.                          *)
LEMMA DocumentIsWhole ==
  ASSUME NEW d \in Document, NEW f \in [Machines -> Int]
  PROVE  [d EXCEPT !.machines = f] \in Document
BY DEF Document

(* And the copies stay copies.                                             *)
LEMMA CopiesAreCopies ==
  ASSUME NEW us \in [Processes -> User], NEW p \in Processes, NEW d \in Document
  PROVE  [us EXCEPT ![p] = [@ EXCEPT !.capabilities = d]] \in [Processes -> User]
BY DEF User

(* What Measured does to the copies, with the record laid open.            *)
LEMMA CopiesMeasured ==
  ASSUME AccountTypes, NEW j \in Jobs, Measured(j)
  PROVE  user' \in [Processes -> User]
<1> DEFINE was == user[j].capabilities
<1>1. PICK seconds \in 0 .. MaxDuration :
        user' = [user EXCEPT ![j].capabilities.machines[MachineOf[j]] = @ - seconds]
  BY DEF Measured
<1>2. user \in [Processes -> User] /\ j \in Processes
  BY DEF AccountTypes, Processes
<1>3. was \in Document /\ was.machines \in [Machines -> Int]
  BY <1>2 DEF User, Document
<1>4. MachineOf[j] \in Machines /\ seconds \in Int
  BY MachineAssumption, BoundAssumption
<1> DEFINE remains == [was.machines EXCEPT ![MachineOf[j]] = @ - seconds]
           copy == [was EXCEPT !.machines = remains]
<1>5. remains \in [Machines -> Int]
  BY <1>3, <1>4, BalanceIsWhole
<1>6. copy \in Document
  <2> HIDE DEF remains
  <2> QED BY <1>3, <1>5, DocumentIsWhole
<1>7. user' = [user EXCEPT ![j] = [@ EXCEPT !.capabilities = copy]]
  BY <1>1, <1>2
<1>8. [user EXCEPT ![j] = [@ EXCEPT !.capabilities = copy]] \in [Processes -> User]
  <2> HIDE DEF copy
  <2> QED BY <1>2, <1>6, CopiesAreCopies
<1> QED BY <1>7, <1>8

(* Types of what jobs do.                                                  *)
LEMMA TypesOfJobs ==
  ASSUME AccountTypes, NEW j \in Jobs, Job(j) PROVE AccountTypes'
<1> USE BoundAssumption, MachineAssumption
    DEF AccountTypes, Processes, Document, User, Go, columns, known
<1>1. CASE StartJob(j)
  BY <1>1 DEF StartJob, Read
<1>2. CASE RefuseJob(j)
  BY <1>2 DEF RefuseJob
<1>3. CASE Measured(j)
  <2>2. user' \in [Processes -> User]
    BY <1>3, CopiesMeasured
  <2> QED BY <1>3, <2>2 DEF Measured
<1>4. CASE Pay(j)
  <2>1. at' \in [Processes -> Labels] /\ breaks' \in 0 .. MaxBreaks
    BY <1>4, TypesOfWriting DEF Pay, Labels
  <2>2. document' \in Document /\ base' \in [Processes -> Document] /\ stale' \in BOOLEAN
    BY <1>4, TypesOfUpdate DEF Pay
  <2>3. paid' \in [Machines -> Int]
    BY <1>4, SecondsAreWhole DEF Pay
  <2> QED BY <1>4, <2>1, <2>2, <2>3 DEF Pay, Labels
<1> QED BY <1>1, <1>2, <1>3, <1>4 DEF Job

(* A process that dies, or nothing, changes no type.                       *)
LEMMA TypesOfTheRest ==
  ASSUME AccountTypes, (\E p \in Processes : Die(p)) \/ AllOver \/ UNCHANGED accountVars
  PROVE  AccountTypes'
BY DEF AccountTypes, Die, AllOver, accountVars, columns, known

(* Every step keeps the types.                                             *)
LEMMA TypesStay == ASSUME AccountTypes, [AccountNext]_accountVars PROVE AccountTypes'
BY TypesOfDeduction, TypesOfRoutes, TypesOfJobs, TypesOfTheRest DEF AccountNext, Request

-----------------------------------------------------------------------------
(* A copy that is in bounds leaves the row in bounds.                      *)
LEMMA BoundsOfUpdate ==
  ASSUME AccountTypes, CopiesInBounds, NEW p \in Processes, Update(p), UNCHANGED user,
         \A j \in Jobs : at'[j] = "measure" => at[j] = "measure"
  PROVE  CopiesInBounds'
BY DEF CopiesInBounds, InBounds, Update, AccountTypes

(* Only Authenticate takes from a request's copy, and it looks first.      *)
LEMMA BoundsOfRequests ==
  ASSUME AccountTypes, CopiesInBounds, NEW r \in Requests, Request(r)
  PROVE  CopiesInBounds'
<1> r \in Processes
  BY DEF Processes
<1>1. CASE Authenticate(r)
  <2>1. \A p \in Processes : user'[p].capabilities =
          IF p = r THEN [document EXCEPT !.api = @ - 1] ELSE user[p].capabilities
    BY <1>1 DEF Authenticate, Read, AccountTypes
  <2>2. InBounds([document EXCEPT !.api = @ - 1])
    BY <1>1 DEF Authenticate, CopiesInBounds, InBounds, AccountTypes, Document
  <2>3. \A j \in Jobs : at'[j] = "measure" => at[j] = "measure" /\ j # r
    BY <1>1 DEF Authenticate, Go, AccountTypes, Processes
  <2> QED
    BY <1>1, <2>1, <2>2, <2>3 DEF CopiesInBounds, Authenticate, Processes, columns, InBounds
<1>2. CASE QuotaExceeded(r) \/ HandlesOther(r) \/ SaveKey(r)
  <2>1. \A j \in Jobs : at'[j] = "measure" => at[j] = "measure"
    BY <1>2 DEF QuotaExceeded, HandlesOther, SaveKey, Written, Go, AccountTypes, Processes
  <2> QED
    BY <1>2, <2>1 DEF CopiesInBounds, InBounds, QuotaExceeded, HandlesOther, SaveKey, columns
<1>3. CASE Deduct(r) \/ Save(r)
  <2>1. \A j \in Jobs : at'[j] = "measure" => at[j] = "measure"
    BY <1>3 DEF Deduct, Save, Written, Go, AccountTypes, Processes
  <2> QED BY <1>3, <2>1, BoundsOfUpdate DEF Deduct, Save
<1>4. CASE ChangeSetting(r) \/ ChangeKey(r)
  <2>1. \A j \in Jobs : at'[j] = "measure" => at[j] = "measure"
    BY <1>4 DEF ChangeSetting, Changes, ChangeKey, Go, AccountTypes, Processes
  <2>2. document' = document
    BY <1>4 DEF ChangeSetting, Changes, ChangeKey, columns
  <2>3. \A p \in Processes :
          /\ user'[p].capabilities.api = user[p].capabilities.api
          /\ user'[p].capabilities.machines = user[p].capabilities.machines
    <3>1. CASE ChangeSetting(r)
      BY <3>1 DEF ChangeSetting, Changes, AccountTypes, User, Document
    <3>2. CASE ChangeKey(r)
      BY <3>2 DEF ChangeKey, AccountTypes, User
    <3> QED BY <1>4, <3>1, <3>2
  <2> QED BY <2>1, <2>2, <2>3 DEF CopiesInBounds, InBounds, Processes
<1> QED BY <1>1, <1>2, <1>3, <1>4 DEF Request

(* What Measured does to the copies, number by number.                     *)
LEMMA MeasuredTakes ==
  ASSUME AccountTypes, NEW j \in Jobs, Measured(j)
  PROVE  \E seconds \in 0 .. MaxDuration :
           \A p \in Processes :
             /\ user'[p].capabilities.api = user[p].capabilities.api
             /\ user'[p].capabilities.setting = user[p].capabilities.setting
             /\ \A m \in Machines :
                  user'[p].capabilities.machines[m] =
                    IF p = j /\ m = MachineOf[j]
                    THEN user[p].capabilities.machines[m] - seconds
                    ELSE user[p].capabilities.machines[m]
<1>1. PICK seconds \in 0 .. MaxDuration :
        user' = [user EXCEPT ![j].capabilities.machines[MachineOf[j]] = @ - seconds]
  BY DEF Measured
<1>2. user \in [Processes -> User] /\ j \in Processes
  BY DEF AccountTypes, Processes
<1>3. user[j].capabilities \in Document /\ user[j] \in User
  BY <1>2 DEF User
<1> DEFINE remains == [user[j].capabilities.machines EXCEPT ![MachineOf[j]] = @ - seconds]
           copy == [user[j].capabilities EXCEPT !.machines = remains]
<1>4. user' = [user EXCEPT ![j] = [@ EXCEPT !.capabilities = copy]]
  BY <1>1, <1>2
<1>5. /\ copy.api = user[j].capabilities.api /\ copy.setting = user[j].capabilities.setting
      /\ copy.machines = remains
  BY <1>3 DEF Document
<1>6. \A m \in Machines :
        remains[m] = IF m = MachineOf[j] THEN user[j].capabilities.machines[m] - seconds
                  ELSE user[j].capabilities.machines[m]
  BY <1>3 DEF Document
<1>7. user'[j].capabilities = copy
  <2> HIDE DEF copy
  <2> QED BY <1>2, <1>3, <1>4 DEF User
<1>8. \A p \in Processes : p # j => user'[p] = user[p]
  <2> HIDE DEF copy
  <2> QED BY <1>2, <1>4
<1> HIDE DEF remains, copy
<1> WITNESS seconds \in 0 .. MaxDuration
<1> TAKE p \in Processes
<1>9. CASE p = j
  BY <1>9, <1>5, <1>6, <1>7
<1>10. CASE p # j
  BY <1>10, <1>8
<1> QED BY <1>9, <1>10

(* A job starts with seconds to spare and takes MaxDuration at most.       *)
LEMMA BoundsOfJobs ==
  ASSUME AccountTypes, CopiesInBounds, NEW j \in Jobs, Job(j)
  PROVE  CopiesInBounds'
<1> USE BoundAssumption, MachineAssumption
<1>0. j \in Processes
  BY DEF Processes
<1>1. CASE StartJob(j)
  <2>1. \A p \in Processes : user'[p].capabilities =
          IF p = j THEN document ELSE user[p].capabilities
    BY <1>1 DEF StartJob, Read, AccountTypes
  <2>2. document.machines[MachineOf[j]] > 0 /\ document' = document
    BY <1>1 DEF StartJob, columns
  <2>3. \A i \in Jobs \ {j} : at'[i] = "measure" => at[i] = "measure"
    BY <1>1 DEF StartJob, Go, AccountTypes, Processes
  <2> QED BY <2>1, <2>2, <2>3 DEF CopiesInBounds, Processes, InBounds
<1>2. CASE RefuseJob(j)
  <2>1. \A i \in Jobs : at'[i] = "measure" => at[i] = "measure"
    BY <1>2 DEF RefuseJob, Go, AccountTypes, Processes
  <2> QED BY <1>2, <2>1 DEF CopiesInBounds, InBounds, RefuseJob, columns
<1>3. CASE Measured(j)
  <2>1. at[j] = "measure" /\ document' = document
    BY <1>3 DEF Measured, Go, columns
  <2>2. \A i \in Jobs : at'[i] = "measure" => i # j /\ at[i] = "measure"
    BY <1>3 DEF Measured, Go, AccountTypes, Processes
  <2>3. PICK seconds \in 0 .. MaxDuration :
           \A p \in Processes :
             /\ user'[p].capabilities.api = user[p].capabilities.api
             /\ \A m \in Machines :
                  user'[p].capabilities.machines[m] =
                    IF p = j /\ m = MachineOf[j]
                    THEN user[p].capabilities.machines[m] - seconds
                    ELSE user[p].capabilities.machines[m]
    BY <1>3, MeasuredTakes
  <2>4. InBounds(document)'
    BY <2>1 DEF CopiesInBounds, InBounds
  <2>5. ASSUME NEW p \in Processes PROVE InBounds(user[p].capabilities)'
    <3>1. user'[p].capabilities.api >= 0
      BY <2>3 DEF CopiesInBounds, InBounds
    <3>2. ASSUME NEW m \in Machines
          PROVE  user'[p].capabilities.machines[m] > 0 - MaxDuration
      <4>1. user[p].capabilities.machines[m] \in Int
        BY DEF AccountTypes, User, Document
      <4>2. user[p].capabilities.machines[m] > 0 - MaxDuration
        BY DEF CopiesInBounds, InBounds
      <4>3. p = j /\ m = MachineOf[j] => user[p].capabilities.machines[m] > 0
        BY <2>1 DEF CopiesInBounds
      <4> QED BY <2>3, <4>1, <4>2, <4>3
    <3> QED BY <3>1, <3>2 DEF InBounds
  <2>6. \A i \in Jobs : at'[i] = "measure" =>
          user'[i].capabilities.machines[MachineOf[i]] > 0
    BY <2>2, <2>3 DEF CopiesInBounds, Processes
  <2> QED BY <2>4, <2>5, <2>6 DEF CopiesInBounds
<1>4. CASE Pay(j)
  <2>1. \A i \in Jobs : at'[i] = "measure" => at[i] = "measure"
    BY <1>4 DEF Pay, Written, Go, AccountTypes, Processes
  <2> QED BY <1>0, <1>4, <2>1, BoundsOfUpdate DEF Pay
<1> QED BY <1>1, <1>2, <1>3, <1>4 DEF Job

(* So all of them keep the bounds.                                         *)
LEMMA BoundsStay == ASSUME AccountTypes, CopiesInBounds, [AccountNext]_accountVars PROVE CopiesInBounds'
<1>1. ASSUME NEW p \in Processes, Die(p) PROVE CopiesInBounds'
  <2>1. \A i \in Jobs : at'[i] = "measure" => at[i] = "measure"
    BY <1>1 DEF Die, AccountTypes, Processes
  <2> QED BY <1>1, <2>1 DEF Die, CopiesInBounds, InBounds, columns
<1>2. ASSUME UNCHANGED accountVars PROVE CopiesInBounds'
  BY <1>2 DEF accountVars, columns, CopiesInBounds, InBounds
<1> QED BY <1>1, <1>2, BoundsOfRequests, BoundsOfJobs DEF AccountNext, AllOver

-----------------------------------------------------------------------------
(* What a step of one process leaves alone for the others.                 *)
LEMMA OthersStayTrue ==
  ASSUME NEW q, at'[q] = at[q], user'[q].capabilities = user[q].capabilities,
         base'[q] = base[q], q \in deducted' <=> q \in deducted, q \in stored' <=> q \in stored
  PROVE  (RequestOK(q) => RequestOK(q)') /\ (JobOK(q) => JobOK(q)')
BY DEF RequestOK, JobOK, Same

(* A request knows how its copy differs from what it has seen.             *)
LEMMA TruthOfRequests ==
  ASSUME AccountTypes, CopiesAreTrue, NEW r \in Requests, Request(r)
  PROVE  CopiesAreTrue'
<1>0. r \in Processes /\ r \notin Jobs /\ RequestOK(r)
  BY ProcessAssumption DEF Processes, CopiesAreTrue
<1>1. ASSUME NEW q \in Processes, q # r
      PROVE  (RequestOK(q) => RequestOK(q)') /\ (JobOK(q) => JobOK(q)')
  <2>1. at'[q] = at[q]
    BY <1>1 DEF AccountTypes, Request, Authenticate, QuotaExceeded, Deduct, HandlesOther,
       ChangeSetting, Changes, Save, ChangeKey, SaveKey, Written, Go
  <2>2. user'[q] = user[q]
    BY <1>1 DEF AccountTypes, Request, Authenticate, QuotaExceeded, Deduct, HandlesOther,
       ChangeSetting, Changes, Save, ChangeKey, SaveKey, Read
  <2>3. base'[q] = base[q]
    BY <1>1 DEF AccountTypes, Request, Authenticate, QuotaExceeded, Deduct, HandlesOther,
       ChangeSetting, Changes, Save, ChangeKey, SaveKey, Read, Update, known
  <2>4. (q \in deducted' <=> q \in deducted) /\ (q \in stored' <=> q \in stored)
    BY <1>1 DEF Request, Authenticate, QuotaExceeded, Deduct, HandlesOther,
       ChangeSetting, Changes, Save, ChangeKey, SaveKey, known
  <2> QED BY <2>1, <2>2, <2>3, <2>4, OthersStayTrue
<1>2. RequestOK(r)'
  <2>1. CASE Authenticate(r)
    <3>1. /\ user'[r].capabilities = [document EXCEPT !.api = @ - 1]
          /\ base'[r] = document /\ at[r] = "idle" /\ at'[r] = "deduct"
          /\ deducted' = deducted /\ stored' = stored
      BY <1>0, <2>1 DEF Authenticate, Read, Go, AccountTypes
    <3> QED BY <1>0, <3>1 DEF RequestOK, AccountTypes, Document
  <2>2. CASE QuotaExceeded(r) \/ HandlesOther(r)
    <3>1. at'[r] \in {"refused", "done"}
      BY <1>0, <2>2 DEF QuotaExceeded, HandlesOther, Go, AccountTypes
    <3> QED BY <3>1 DEF RequestOK
  <2>3. CASE Deduct(r)
    <3>1. /\ base'[r] = user[r].capabilities /\ user' = user
          /\ at[r] = "deduct" /\ at'[r] \in {"deduct", "handle"}
          /\ deducted' = deducted \cup {r} /\ stored' = stored
      BY <1>0, <2>3 DEF Deduct, Update, Written, Go, AccountTypes
    <3> QED BY <1>0, <3>1 DEF RequestOK, Same
  <2>4. CASE ChangeSetting(r)
    <3>1. /\ user'[r].capabilities.api = user[r].capabilities.api
          /\ user'[r].capabilities.machines = user[r].capabilities.machines
      BY <1>0, <2>4 DEF ChangeSetting, Changes, AccountTypes, User, Document
    <3>2. /\ base' = base /\ at[r] = "handle" /\ at'[r] = "save"
          /\ deducted' = deducted /\ stored' = stored
      BY <1>0, <2>4 DEF ChangeSetting, Changes, Go, AccountTypes, known
    <3> QED BY <1>0, <3>1, <3>2 DEF RequestOK, Same
  <2>5. CASE Save(r)
    <3>1. /\ base'[r] = user[r].capabilities /\ user' = user
          /\ at[r] = "save" /\ at'[r] \in {"save", "done"}
      BY <1>0, <2>5 DEF Save, Update, Written, Go, AccountTypes
    <3> QED BY <3>1 DEF RequestOK, Same
  <2>6. CASE ChangeKey(r)
    <3>1. at'[r] = "saveKey"
      BY <1>0, <2>6 DEF ChangeKey, Go, AccountTypes
    <3> QED BY <3>1 DEF RequestOK
  <2>7. CASE SaveKey(r)
    <3>1. at'[r] \in {"saveKey", "done"}
      BY <1>0, <2>7 DEF SaveKey, Written, Go, AccountTypes
    <3> QED BY <3>1 DEF RequestOK
  <2> QED BY <2>1, <2>2, <2>3, <2>4, <2>5, <2>6, <2>7 DEF Request
<1> QED BY <1>0, <1>1, <1>2 DEF CopiesAreTrue, Processes

(* So does a job.                                                          *)
LEMMA TruthOfJobs ==
  ASSUME AccountTypes, CopiesAreTrue, NEW j \in Jobs, Job(j)
  PROVE  CopiesAreTrue'
<1>0. j \in Processes /\ j \notin Requests /\ JobOK(j)
  BY ProcessAssumption DEF Processes, CopiesAreTrue
<1>1. ASSUME NEW q \in Processes, q # j
      PROVE  (RequestOK(q) => RequestOK(q)') /\ (JobOK(q) => JobOK(q)')
  <2>1. at'[q] = at[q] /\ deducted' = deducted /\ stored' = stored
    BY <1>1 DEF AccountTypes, Job, StartJob, RefuseJob, Measured, Pay, Written, Go, known
  <2>2. user'[q].capabilities = user[q].capabilities
    BY <1>1 DEF AccountTypes, Job, StartJob, RefuseJob, Measured, Pay, Read
  <2>3. base'[q] = base[q]
    BY <1>1 DEF AccountTypes, Job, StartJob, RefuseJob, Measured, Pay, Read, Update, known
  <2> QED BY <2>1, <2>2, <2>3, OthersStayTrue
<1>2. JobOK(j)'
  <2>1. CASE StartJob(j)
    <3>1. user'[j].capabilities = document /\ base'[j] = document /\ at'[j] = "measure"
      BY <1>0, <2>1 DEF StartJob, Read, Go, AccountTypes
    <3> QED BY <3>1 DEF JobOK, Same
  <2>2. CASE RefuseJob(j)
    <3>1. at'[j] = "refused"
      BY <1>0, <2>2 DEF RefuseJob, Go, AccountTypes
    <3> QED BY <3>1 DEF JobOK
  <2>3. CASE Measured(j)
    <3>1. base' = base /\ at[j] = "measure" /\ at'[j] = "pay"
      BY <1>0, <2>3 DEF Measured, Go, AccountTypes, known
    <3>2. /\ user'[j].capabilities.api = user[j].capabilities.api
          /\ user'[j].capabilities.setting = user[j].capabilities.setting
          /\ \A m \in Machines \ {MachineOf[j]} :
               user'[j].capabilities.machines[m] = user[j].capabilities.machines[m]
      BY <1>0, <2>3, MeasuredTakes
    <3> QED BY <1>0, <3>1, <3>2 DEF JobOK, Same
  <2>4. CASE Pay(j)
    <3>1. /\ base'[j] = user[j].capabilities /\ user' = user
          /\ at'[j] \in {"pay", "done"}
      BY <1>0, <2>4 DEF Pay, Update, Written, Go, AccountTypes
    <3> QED BY <3>1 DEF JobOK
  <2> QED BY <2>1, <2>2, <2>3, <2>4 DEF Job
<1> QED BY <1>0, <1>1, <1>2 DEF CopiesAreTrue, Processes

(* A dead process writes no more.                                          *)
LEMMA TruthStays == ASSUME AccountTypes, CopiesAreTrue, [AccountNext]_accountVars PROVE CopiesAreTrue'
<1>1. ASSUME NEW p \in Processes, Die(p) PROVE CopiesAreTrue'
  <2>1. ASSUME NEW q \in Processes, q # p
        PROVE  (RequestOK(q) => RequestOK(q)') /\ (JobOK(q) => JobOK(q)')
    <3>1. at'[q] = at[q]
      BY <1>1, <2>1 DEF Die, AccountTypes
    <3> QED BY <1>1, <3>1, OthersStayTrue DEF Die, known
  <2>2. at'[p] = "dead"
    BY <1>1 DEF Die, AccountTypes
  <2>3. RequestOK(p)' /\ JobOK(p)'
    BY <2>2 DEF RequestOK, JobOK
  <2> QED BY <2>1, <2>3 DEF CopiesAreTrue, Processes
<1>2. ASSUME UNCHANGED accountVars PROVE CopiesAreTrue'
  BY <1>2 DEF accountVars, columns, known, CopiesAreTrue, RequestOK, JobOK, Same
<1> QED BY <1>1, <1>2, TruthOfRequests, TruthOfJobs DEF AccountNext, AllOver

-----------------------------------------------------------------------------
(* A unit is taken from the account for each request that is deducted, and *)
(* a second time for none.                                                 *)
LEMMA BooksOfDeduct ==
  ASSUME AccountTypes, CopiesAreTrue, BooksBalance, NEW r \in Requests, Deduct(r)
  PROVE  BooksBalance'
<1> SUFFICES ASSUME ~ stale' PROVE BooksBalance'
  BY DEF BooksBalance
<1>1. /\ ~ stale /\ document = base[r] /\ document' = user[r].capabilities
      /\ at[r] = "deduct" /\ deducted' = deducted \cup {r} /\ paid' = paid /\ last' = last
  BY DEF Deduct, Update, Written, Go
<1>2. IsFiniteSet(deducted) /\ Cardinality(deducted) \in Nat
  BY ProcessAssumption, FS_Subset, FS_CardinalityType DEF AccountTypes
<1>3. CASE r \in deducted
  <2>1. deducted' = deducted /\ Same(document', document)
    BY <1>1, <1>3 DEF CopiesAreTrue, RequestOK
  <2> QED BY <1>1, <2>1 DEF BooksBalance, Same
<1>4. CASE r \notin deducted
  <2>1. Cardinality(deducted') = Cardinality(deducted) + 1
    BY <1>1, <1>2, <1>4, FS_AddElement
  <2>2. /\ document'.api = document.api - 1 /\ document'.machines = document.machines
        /\ document'.setting = document.setting
    BY <1>1, <1>4 DEF CopiesAreTrue, RequestOK
  <2>3. document'.api = ApiQuota - Cardinality(deducted')
    BY <1>1, <1>2, <2>1, <2>2, BoundAssumption DEF BooksBalance
  <2> QED BY <1>1, <2>2, <2>3 DEF BooksBalance
<1> QED BY <1>3, <1>4

(* A setting that is saved is the last one.                                *)
LEMMA BooksOfSave ==
  ASSUME AccountTypes, CopiesAreTrue, BooksBalance, NEW r \in Requests, Save(r)
  PROVE  BooksBalance'
<1> SUFFICES ASSUME ~ stale' PROVE BooksBalance'
  BY DEF BooksBalance
<1>1. /\ ~ stale /\ document = base[r] /\ document' = user[r].capabilities
      /\ at[r] = "save" /\ deducted' = deducted /\ paid' = paid
  BY DEF Save, Update, Written, Go
<1>2. document'.api = document.api /\ document'.machines = document.machines
  BY <1>1 DEF CopiesAreTrue, RequestOK
<1>3. document'.setting = last'.setting
  <2>1. CASE r \in stored
    BY <1>1, <2>1 DEF Save, CopiesAreTrue, RequestOK, BooksBalance
  <2>2. CASE r \notin stored
    BY <1>1, <2>2 DEF Save, AccountTypes
  <2> QED BY <2>1, <2>2
<1> QED BY <1>1, <1>2, <1>3 DEF BooksBalance

(* The seconds that are taken are the seconds that are paid.               *)
LEMMA BooksOfPay ==
  ASSUME AccountTypes, CopiesAreTrue, BooksBalance, NEW j \in Jobs, Pay(j)
  PROVE  BooksBalance'
<1> SUFFICES ASSUME ~ stale' PROVE BooksBalance'
  BY DEF BooksBalance
<1>1. /\ ~ stale /\ document = base[j] /\ document' = user[j].capabilities
      /\ at[j] = "pay" /\ deducted' = deducted /\ last' = last
  BY DEF Pay, Update, Written, Go
<1>2. document'.api = document.api /\ document'.setting = document.setting
  BY <1>1 DEF CopiesAreTrue, JobOK
<1>3. ASSUME NEW m \in Machines
      PROVE  document'.machines[m] = MachineQuota - paid'[m]
  <2>0. /\ paid[m] \in Int /\ document.machines[m] \in Int /\ document'.machines[m] \in Int
        /\ document.machines[m] = MachineQuota - paid[m] /\ MachineQuota \in Int
    BY <1>1, BoundAssumption DEF AccountTypes, Document, User, Processes, BooksBalance
  <2>1. CASE m = MachineOf[j]
    <3>1. Seconds(j) = document.machines[m] - document'.machines[m]
      BY <1>1, <2>1 DEF Seconds
    <3>2. paid'[m] = paid[m] + Seconds(j)
      BY <2>1 DEF Pay, AccountTypes
    <3> QED BY <2>0, <3>1, <3>2
  <2>2. CASE m # MachineOf[j]
    <3>1. paid'[m] = paid[m]
      BY <2>2 DEF Pay, AccountTypes
    <3>2. document'.machines[m] = document.machines[m]
      BY <1>1, <2>2 DEF CopiesAreTrue, JobOK
    <3> QED BY <2>0, <3>1, <3>2
  <2> QED BY <2>1, <2>2
<1> QED BY <1>1, <1>2, <1>3 DEF BooksBalance

(* Nothing else touches the account.                                       *)
LEMMA BooksStay ==
  ASSUME AccountTypes, CopiesAreTrue, BooksBalance, [AccountNext]_accountVars PROVE BooksBalance'
<1>1. ASSUME UNCHANGED <<document, deducted, paid, stale>>, last'.setting = last.setting
      PROVE  BooksBalance'
  BY <1>1 DEF BooksBalance
<1>2. ASSUME NEW r \in Requests,
             \/ Authenticate(r) \/ QuotaExceeded(r) \/ HandlesOther(r)
             \/ ChangeSetting(r) \/ ChangeKey(r)
      PROVE  BooksBalance'
  BY <1>1, <1>2 DEF Authenticate, QuotaExceeded, HandlesOther, ChangeSetting, Changes,
     ChangeKey, columns, known
<1>3. ASSUME NEW r \in Requests, SaveKey(r) PROVE BooksBalance'
  BY <1>1, <1>3 DEF SaveKey, AccountTypes
<1>4. ASSUME NEW j \in Jobs, StartJob(j) \/ RefuseJob(j) \/ Measured(j)
      PROVE  BooksBalance'
  BY <1>1, <1>4 DEF StartJob, RefuseJob, Measured, columns, known
<1>5. ASSUME NEW p \in Processes, Die(p) PROVE BooksBalance'
  BY <1>1, <1>5 DEF Die, columns, known
<1>6. ASSUME UNCHANGED accountVars PROVE BooksBalance'
  BY <1>1, <1>6 DEF accountVars, columns, known
<1> QED
  BY <1>2, <1>3, <1>4, <1>5, <1>6, BooksOfDeduct, BooksOfSave, BooksOfPay
     DEF AccountNext, Request, Job, AllOver

(* Only SaveKey writes the key, and knows which one it is.                 *)
LEMMA KeyStays == ASSUME AccountTypes, KeyIsLast, [AccountNext]_accountVars PROVE KeyIsLast'
<1>1. ASSUME NEW r \in Requests, SaveKey(r) PROVE KeyIsLast'
  BY <1>1 DEF SaveKey, KeyIsLast, AccountTypes
<1>2. ASSUME UNCHANGED <<key, repeated>>, last'.key = last.key PROVE KeyIsLast'
  BY <1>2 DEF KeyIsLast
<1>3. ASSUME NEW r \in Requests, Save(r) PROVE KeyIsLast'
  BY <1>2, <1>3 DEF Save, AccountTypes
<1>4. ASSUME NEW r \in Requests,
             \/ Authenticate(r) \/ QuotaExceeded(r) \/ HandlesOther(r) \/ Deduct(r)
             \/ ChangeSetting(r) \/ ChangeKey(r)
      PROVE  KeyIsLast'
  BY <1>2, <1>4 DEF Authenticate, QuotaExceeded, HandlesOther, Deduct, ChangeSetting,
     Changes, ChangeKey, columns, known
<1>5. ASSUME NEW j \in Jobs, Job(j) PROVE KeyIsLast'
  BY <1>2, <1>5 DEF Job, StartJob, RefuseJob, Measured, Pay, columns, known
<1>6. ASSUME NEW p \in Processes, Die(p) PROVE KeyIsLast'
  BY <1>2, <1>6 DEF Die, columns, known
<1>7. ASSUME UNCHANGED accountVars PROVE KeyIsLast'
  BY <1>2, <1>7 DEF accountVars, columns, known
<1> QED BY <1>1, <1>3, <1>4, <1>5, <1>6, <1>7 DEF AccountNext, Request, AllOver

-----------------------------------------------------------------------------
(* The invariant holds at the start.                                       *)
LEMMA InitHolds == ASSUME AccountInit PROVE IInv
<1>1. PICK s \in Values, k \in Values :
        /\ document = [api |-> ApiQuota, machines |-> [m \in Machines |-> MachineQuota],
                       setting |-> s]
        /\ key = k /\ last = [setting |-> s, key |-> k]
  BY DEF AccountInit
<1> USE BoundAssumption
<1>2. document \in Document
  BY <1>1 DEF Document
<1>3. AccountTypes
  <2>1. user \in [Processes -> User] /\ base \in [Processes -> Document]
    BY <1>1, <1>2 DEF AccountInit, User
  <2>2. /\ key \in Values /\ last \in [setting : Values, key : Values]
        /\ breaks \in 0 .. MaxBreaks
    BY <1>1 DEF AccountInit
  <2>3. at \in [Processes -> Labels] /\ paid \in [Machines -> Int]
    BY DEF AccountInit, Labels
  <2>4. /\ deducted \subseteq Requests /\ stored \subseteq Requests
        /\ stale \in BOOLEAN /\ repeated \in BOOLEAN
    BY DEF AccountInit
  <2> QED BY <1>2, <2>1, <2>2, <2>3, <2>4 DEF AccountTypes, Labels
<1>4. CopiesInBounds
  BY <1>1, <1>3 DEF AccountInit, CopiesInBounds, InBounds, Processes
<1>5. CopiesAreTrue
  BY <1>3 DEF AccountInit, CopiesAreTrue, RequestOK, JobOK, Same, Processes
<1>6. BooksBalance /\ KeyIsLast
  BY <1>1, FS_EmptySet DEF AccountInit, BooksBalance, KeyIsLast
<1> QED BY <1>3, <1>4, <1>5, <1>6 DEF IInv

(* The invariant that all results of this module rest on: what every copy  *)
(* may be, given where its process is.                                     *)
THEOREM Invariant == AccountSpec => []IInv
<1>1. IInv /\ [AccountNext]_accountVars => IInv'
  BY TypesStay, BoundsStay, TruthStays, BooksStay, KeyStays DEF IInv
<1> QED BY <1>1, InitHolds, PTL DEF AccountSpec

(* The row, the processes and their copies keep their types.               *)
THEOREM TypesAreKept == AccountSpec => []AccountTypes
BY Invariant, PTL DEF IInv

(* However many requests and measurements share the account and however    *)
(* old the documents they write back are, no quota is overdrawn by more    *)
(* than the measurement that used it up.                                   *)
THEOREM OverdraftsAreBounded == AccountSpec => []OverdraftIsBounded
<1>1. IInv => OverdraftIsBounded
  BY DEF IInv, CopiesInBounds, InBounds, OverdraftIsBounded
<1> QED BY <1>1, Invariant, PTL

(* As long as no document goes over one its writer has not seen, the       *)
(* account says what has been used, lost answers or not.                   *)
THEOREM BooksAreBalanced == AccountSpec => []BooksBalance
BY Invariant, PTL DEF IInv

(* The key is the last one stored, whatever happens to the document.       *)
THEOREM KeysAreLast == AccountSpec => []KeyIsLast
BY Invariant, PTL DEF IInv

=============================================================================
