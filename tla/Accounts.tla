------------------------------ MODULE Accounts ------------------------------
(***************************************************************************)
(* The account of one user: quotas, settings and keys in a row of users,   *)
(* lib/user.py. The requests of the user, in the threads of several API    *)
(* processes, and the measurements of his jobs, on several machines, each  *)
(* read the document "capabilities" once, change their copy of it, and     *)
(* write the copy back as a whole; a write whose answer is lost is written *)
(* again (lib/db.py). Nothing tells them of each other.                    *)
(***************************************************************************)
EXTENDS Integers, FiniteSets

CONSTANTS
  Requests,       \* requests to a route with a quota
  Jobs,           \* run jobs of the user
  Machines,
  MachineOf,      \* where each of them is measured
  Values,         \* of the setting, and of the key
  Invalid,        \* a value that is neither
  ApiQuota,       \* requests
  MachineQuota,   \* seconds per machine
  MaxDuration,    \* bound: seconds of a measurement
  MaxBreaks       \* bound: answers that are lost

ASSUME MachineAssumption == MachineOf \in [Jobs -> Machines]
ASSUME BoundAssumption ==
  /\ ApiQuota \in Nat /\ MachineQuota \in Nat
  /\ MaxDuration \in Nat \ {0} /\ MaxBreaks \in Nat
ASSUME ProcessAssumption == Requests \cap Jobs = {} /\ IsFiniteSet(Requests)
ASSUME ValueAssumption == Invalid \notin Values

VARIABLES
  document,  \* the column capabilities
  key,       \* the column ssh_private_key; docker_credentials is its like
  at,        \* where requests and jobs are
  user,      \* their User object
  breaks,
  base,      \* history: the document as each last saw it in the database
  deducted,  \* history: requests that have been deducted
  stored,    \* history: requests whose setting or key has been stored
  paid,      \* history: seconds that have been deducted per machine
  last,      \* history: the setting and the key that were stored last
  stale,     \* history: a write went over a document its writer had not seen
  repeated   \* history: a key was written once more, over another one

columns == <<document, key>>
known == <<base, deducted, stored, paid, last, stale, repeated>>
accountVars == <<columns, at, user, breaks, known>>

Processes == Requests \cup Jobs
Document == [api : Int, machines : [Machines -> Int], setting : Values]
User == [capabilities : Document, key : Values]

AccountInit ==
  /\ \E s, k \in Values :
       /\ document = [api |-> ApiQuota, machines |-> [m \in Machines |-> MachineQuota],
                      setting |-> s]
       /\ key = k /\ last = [setting |-> s, key |-> k]
  /\ at = [p \in Processes |-> "idle"]
  /\ user = [p \in Processes |-> [capabilities |-> document, key |-> key]]
  /\ base = [p \in Processes |-> document]
  /\ breaks = 0 /\ deducted = {} /\ stored = {} /\ paid = [m \in Machines |-> 0]
  /\ stale = FALSE /\ repeated = FALSE

Go(p, from, to) == at[p] = from /\ at' = [at EXCEPT ![p] = to]

(* User(): SELECT ... FROM users; what follows works on this copy.         *)
Read(p, capabilities) ==
  /\ user' = [user EXCEPT ![p] = [capabilities |-> capabilities, key |-> key]]
  /\ base' = [base EXCEPT ![p] = document]

(* User.update(): UPDATE users SET capabilities = the whole copy.          *)
Update(p) ==
  /\ document' = user[p].capabilities
  /\ base' = [base EXCEPT ![p] = user[p].capabilities]
  /\ stale' = (stale \/ document # base[p])

(* A write is answered; or the answer is lost, and it is written again.    *)
Written(p, from, to) ==
  \/ Go(p, from, to) /\ breaks' = breaks
  \/ Go(p, from, from) /\ breaks < MaxBreaks /\ breaks' = breaks + 1

-----------------------------------------------------------------------------
(* A request: authenticate(), and what the route does with the User.       *)

(* Mutant: the last unit of the quota is used twice.                       *)
AuthenticateAtZero(r) ==
  /\ document.api >= 0
  /\ Go(r, "idle", "deduct")
  /\ Read(r, [document EXCEPT !.api = @ - 1])
  /\ UNCHANGED <<columns, breaks, deducted, stored, paid, last, stale, repeated>>

(* has_api_quota() and the subtraction of deduct_api_quota().              *)
Authenticate(r) ==
  /\ document.api > 0
  /\ Go(r, "idle", "deduct")
  /\ Read(r, [document EXCEPT !.api = @ - 1])
  /\ UNCHANGED <<columns, breaks, deducted, stored, paid, last, stale, repeated>>

QuotaExceeded(r) ==
  /\ document.api <= 0
  /\ Go(r, "idle", "refused")
  /\ UNCHANGED <<columns, user, breaks, known>>

(* Mutant: the subtraction is repeated, not the value it led to.           *)
DeductAgain(r) ==
  /\ Written(r, "deduct", "handle")
  /\ document' = [user[r].capabilities EXCEPT !.api = document.api - 1]
  /\ base' = [base EXCEPT ![r] = document']
  /\ user' = [user EXCEPT ![r].capabilities = document']
  /\ stale' = (stale \/ document # base[r])
  /\ deducted' = deducted \cup {r}
  /\ UNCHANGED <<key, stored, paid, last, repeated>>

Deduct(r) ==
  /\ Written(r, "deduct", "handle")
  /\ Update(r)
  /\ deducted' = deducted \cup {r}
  /\ UNCHANGED <<key, user, stored, paid, last, repeated>>

(* Another route, or PUT /v1/user/setting with a value that is refused.    *)
HandlesOther(r) ==
  /\ Go(r, "handle", "done")
  /\ UNCHANGED <<columns, user, breaks, known>>

Changes(r, setting) ==
  /\ Go(r, "handle", "save")
  /\ user' = [user EXCEPT ![r].capabilities.setting = setting]
  /\ UNCHANGED <<columns, breaks, known>>

ChangeSetting(r) == \E value \in Values : Changes(r, value)

Save(r) ==
  /\ Written(r, "save", "done")
  /\ Update(r)
  /\ stored' = stored \cup {r}
  /\ last' = IF r \in stored THEN last
             ELSE [last EXCEPT !.setting = user[r].capabilities.setting]
  /\ UNCHANGED <<key, user, deducted, paid, repeated>>

ChangeKey(r) ==
  /\ Go(r, "handle", "saveKey")
  /\ \E value \in Values : user' = [user EXCEPT ![r].key = value]
  /\ UNCHANGED <<columns, breaks, known>>

(* The keys have columns of their own.                                     *)
SaveKey(r) ==
  /\ Written(r, "saveKey", "done")
  /\ key' = user[r].key
  /\ stored' = stored \cup {r}
  /\ last' = IF r \in stored THEN last ELSE [last EXCEPT !.key = user[r].key]
  /\ repeated' = (repeated \/ (r \in stored /\ key # user[r].key))
  /\ UNCHANGED <<document, user, base, deducted, paid, stale>>

-----------------------------------------------------------------------------
(* A job: RunJob._process(). A machine measures one job at a time.         *)

Measuring == {"measure", "pay"}
MachineFree(j) ==
  \A other \in Jobs : MachineOf[other] = MachineOf[j] => at[other] \notin Measuring

StartJob(j) ==
  /\ MachineFree(j) /\ document.machines[MachineOf[j]] > 0
  /\ Go(j, "idle", "measure")
  /\ Read(j, document)
  /\ UNCHANGED <<columns, breaks, deducted, stored, paid, last, stale, repeated>>

RefuseJob(j) ==
  /\ MachineFree(j) /\ document.machines[MachineOf[j]] <= 0
  /\ Go(j, "idle", "refused")
  /\ UNCHANGED <<columns, user, breaks, known>>

(* The finally clause: whole seconds of what was measured, nothing if the  *)
(* run broke off before, are deducted from what was read at the start.     *)
Measured(j) ==
  /\ Go(j, "measure", "pay")
  /\ \E seconds \in 0 .. MaxDuration :
       user' = [user EXCEPT ![j].capabilities.machines[MachineOf[j]] = @ - seconds]
  /\ UNCHANGED <<columns, breaks, known>>

Seconds(j) ==
  base[j].machines[MachineOf[j]] - user[j].capabilities.machines[MachineOf[j]]

Pay(j) ==
  /\ Written(j, "pay", "done")
  /\ paid' = [paid EXCEPT ![MachineOf[j]] = @ + Seconds(j)]
  /\ Update(j)
  /\ UNCHANGED <<key, user, deducted, stored, last, repeated>>

(* A killed process; or emptying the folder fails before the deduction.    *)
Die(p) ==
  /\ at[p] \notin {"idle", "done", "refused", "dead"}
  /\ at' = [at EXCEPT ![p] = "dead"]
  /\ UNCHANGED <<columns, user, breaks, known>>

-----------------------------------------------------------------------------
Request(r) ==
  \/ Authenticate(r) \/ QuotaExceeded(r) \/ Deduct(r)
  \/ HandlesOther(r) \/ ChangeSetting(r) \/ Save(r) \/ ChangeKey(r) \/ SaveKey(r)

Job(j) == StartJob(j) \/ RefuseJob(j) \/ Measured(j) \/ Pay(j)

AllOver ==
  /\ \A p \in Processes : at[p] \in {"done", "refused", "dead"}
  /\ UNCHANGED accountVars

AccountNext ==
  \/ \E r \in Requests : Request(r)
  \/ \E j \in Jobs : Job(j)
  \/ \E p \in Processes : Die(p)
  \/ AllOver

AccountSpec == AccountInit /\ [][AccountNext]_accountVars

-----------------------------------------------------------------------------
(* Properties                                                              *)

(* Types of the row, of the processes and of the copies they hold.         *)
AccountTypes ==
  /\ document \in Document /\ key \in Values
  /\ at \in [Processes -> {"idle", "deduct", "handle", "save", "saveKey", "measure", "pay", "done",
                           "refused", "dead"}]
  /\ user \in [Processes -> User] /\ base \in [Processes -> Document]
  /\ breaks \in 0 .. MaxBreaks
  /\ deducted \subseteq Requests /\ stored \subseteq Requests
  /\ paid \in [Machines -> Int] /\ last \in [setting : Values, key : Values]
  /\ stale \in BOOLEAN /\ repeated \in BOOLEAN

(* No quota is overdrawn by more than the one measurement that used it up, *)
(* however old the documents are that are written back.                    *)
OverdraftIsBounded ==
  /\ document.api >= 0
  /\ \A m \in Machines : document.machines[m] > 0 - MaxDuration

(* The accounts add up, answers lost or not, and the setting that was      *)
(* stored last is there, until a process writes back a document that was   *)
(* written by another process after it had read it.                        *)
BooksBalance ==
  ~ stale =>
    /\ document.api = ApiQuota - Cardinality(deducted)
    /\ \A m \in Machines : document.machines[m] = MachineQuota - paid[m]
    /\ document.setting = last.setting

(* Documents that are written back do no harm to the keys: the one stored  *)
(* last is there, unless another one was written again for a lost answer.  *)
KeyIsLast == ~ repeated => key = last.key

=============================================================================
