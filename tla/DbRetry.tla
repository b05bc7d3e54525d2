------------------------------ MODULE DbRetry -------------------------------
(***************************************************************************)
(* lib/db.py: the threads of one process call the database through one     *)
(* pool of connections. A call whose connection breaks is repeated until   *)
(* 300 seconds have passed, after the pool was closed and made anew; which *)
(* of the attempts the server has committed nobody knows. The API is such  *)
(* a process: authenticate() runs in a pool of threads, the routes in the  *)
(* event loop. The cluster client has one thread.                          *)
(***************************************************************************)
EXTENDS Integers, FiniteSets

CONSTANTS
  Callers,    \* calls, each in a thread of its own
  Kind,       \* what each of them does
  MaxBreaks   \* bound: how many connections break

CallKinds == {"insert", "update", "copy", "transaction"}
ASSUME KindAssumption == Kind \in [Callers -> CallKinds]
ASSUME BreaksAssumption == MaxBreaks \in Nat

VARIABLES
  pool,     \* the attribute _pool: none, or an open or a closed one
  pc,       \* of each call
  unread,   \* copy_from: calls whose file has not been read
  written,  \* rows the open transaction of a call has written
  rows,     \* rows of a call that are committed
  late,     \* calls for which retry_timeout is over
  breaks,
  indoubt,  \* history: calls that were committed and did not learn of it
  lost      \* history: a pool was let go of without being closed

callVars == <<pool, pc, unread, written, rows, late, breaks, indoubt, lost>>

(* A hog measurement and its processes, the lines of a CSV file.           *)
Rows(c) == IF Kind[c] \in {"copy", "transaction"} THEN 2 ELSE 1

Ended == {"ok", "refused", "givenUp", "rolledBack", "noPool"}
Attempting == {"execute", "commit", "answer"}
Recovering == {"caught", "check", "close", "del", "create", "sleep"}

CallInit ==
  /\ pool = "none"
  /\ pc = [c \in Callers |-> "idle"]
  /\ unread = Callers
  /\ written = [c \in Callers |-> 0] /\ rows = [c \in Callers |-> 0]
  /\ late = {} /\ breaks = 0 /\ indoubt = {} /\ lost = FALSE

Go(c, from, to) == pc[c] = from /\ pc' = [pc EXCEPT ![c] = to]

(* A pool that is open and no longer the attribute is never closed.        *)
SetPool(value) == pool' = value /\ lost' = (lost \/ pool = "open")

-----------------------------------------------------------------------------
(* DB(): __init__ makes the pool unless there is one.                      *)
Call(c) ==
  /\ Go(c, "idle", IF pool = "none" THEN "construct" ELSE "loop")
  /\ UNCHANGED <<pool, unread, written, rows, late, breaks, indoubt, lost>>

Construct(c) ==
  /\ Go(c, "construct", "loop") /\ SetPool("open")
  /\ UNCHANGED <<unread, written, rows, late, breaks, indoubt>>

(* The head of the loop of with_db_retry, and self._pool.connection(). No  *)
(* attribute _pool is an AttributeError, which nothing catches; a closed   *)
(* pool is an OperationalError. transaction_cursor() has no loop.          *)
Attempt(c) ==
  /\ c \notin late
  /\ pc[c] \in {"loop", "again"}
  /\ Go(c, pc[c], CASE pool = "none" -> "noPool"
                    [] pool = "closed" /\ Kind[c] = "transaction" -> "rolledBack"
                    [] pool = "closed" /\ Kind[c] # "transaction" -> "caught"
                    [] OTHER -> "execute")
  /\ written' = [written EXCEPT ![c] = 0]
  /\ UNCHANGED <<pool, unread, rows, late, breaks, indoubt, lost>>

Exhausted(c) ==
  /\ c \in late /\ Go(c, "again", "givenUp")
  /\ UNCHANGED <<pool, unread, written, rows, late, breaks, indoubt, lost>>

(* COPY has been opened; now file.read() takes what is left of the file,   *)
(* which is nothing if an attempt before this one has read it.             *)
CopyWrites(c) ==
  /\ Kind[c] = "copy" /\ Go(c, "execute", "commit")
  /\ written' = [written EXCEPT ![c] = IF c \in unread THEN Rows(c) ELSE 0]
  /\ unread' = unread \ {c}
  /\ UNCHANGED <<pool, rows, late, breaks, indoubt, lost>>

(* An INSERT or an UPDATE, or one of several dependent INSERTs.            *)
Execute(c) ==
  /\ Kind[c] # "copy"
  /\ written' = [written EXCEPT ![c] = @ + 1]
  /\ Go(c, "execute", IF written[c] + 1 = Rows(c) THEN "commit" ELSE "execute")
  /\ UNCHANGED <<pool, unread, rows, late, breaks, indoubt, lost>>

(* What was set stays what it is when it is set once more.                 *)
Commit(c) ==
  /\ Go(c, "commit", "answer")
  /\ rows' = [rows EXCEPT ![c] = IF Kind[c] = "update" THEN Rows(c) ELSE @ + written[c]]
  /\ UNCHANGED <<pool, unread, written, late, breaks, indoubt, lost>>

Answer(c) ==
  /\ Go(c, "answer", "ok")
  /\ UNCHANGED <<pool, unread, written, rows, late, breaks, indoubt, lost>>

(* The server refuses a statement, or the handler of a transaction raises: *)
(* the error reaches the caller, unless its text holds one of the words by *)
(* which broken connections are told ("network" is in network_intercepts). *)
Refuse(c) ==
  /\ \/ Kind[c] = "transaction" /\ Go(c, "execute", "rolledBack")
     \/ Kind[c] # "transaction" /\ \E to \in {"refused", "caught"} : Go(c, "execute", to)
  /\ unread' \in {unread, IF Kind[c] = "copy" THEN unread \ {c} ELSE unread}
  /\ UNCHANGED <<pool, written, rows, late, breaks, indoubt, lost>>

(* Mutant: a transaction is repeated like everything else.                 *)
BreakRepeated(c) ==
  /\ pc[c] \in Attempting /\ breaks < MaxBreaks
  /\ Go(c, pc[c], "caught")
  /\ unread' \in {unread, IF pc[c] = "execute" /\ Kind[c] = "copy" THEN unread \ {c} ELSE unread}
  /\ breaks' = breaks + 1
  /\ indoubt' = IF pc[c] = "answer" THEN indoubt \cup {c} ELSE indoubt
  /\ UNCHANGED <<pool, written, rows, late, lost>>

(* The connection breaks: before or after the file was read, before or     *)
(* after the server has committed. What is not committed is rolled back.   *)
Break(c) ==
  /\ pc[c] \in Attempting /\ breaks < MaxBreaks
  /\ Go(c, pc[c], IF Kind[c] = "transaction" THEN "rolledBack" ELSE "caught")
  /\ unread' \in {unread, IF pc[c] = "execute" /\ Kind[c] = "copy" THEN unread \ {c} ELSE unread}
  /\ breaks' = breaks + 1
  /\ indoubt' = IF pc[c] = "answer" THEN indoubt \cup {c} ELSE indoubt
  /\ UNCHANGED <<pool, written, rows, late, lost>>

-----------------------------------------------------------------------------
(* The except clause of with_db_retry. An AttributeError ends the attempt  *)
(* to make the pool anew.                                                  *)

Expire(c) ==
  /\ pc[c] \in Attempting \cup Recovering \cup {"again"}
  /\ c \notin late /\ late' = late \cup {c}
  /\ UNCHANGED <<pool, pc, unread, written, rows, breaks, indoubt, lost>>

Catch(c) ==
  /\ Go(c, "caught", IF c \in late THEN "givenUp" ELSE "check")
  /\ UNCHANGED <<pool, unread, written, rows, late, breaks, indoubt, lost>>

Check(c) ==
  /\ Go(c, "check", IF pool = "none" THEN "create" ELSE "close")
  /\ UNCHANGED <<pool, unread, written, rows, late, breaks, indoubt, lost>>

Close(c) ==
  /\ Go(c, "close", IF pool = "none" THEN "sleep" ELSE "del")
  /\ pool' = IF pool = "open" THEN "closed" ELSE pool
  /\ UNCHANGED <<unread, written, rows, late, breaks, indoubt, lost>>

Del(c) ==
  /\ Go(c, "del", IF pool = "none" THEN "sleep" ELSE "create") /\ SetPool("none")
  /\ UNCHANGED <<unread, written, rows, late, breaks, indoubt>>

Create(c) ==
  /\ Go(c, "create", "sleep") /\ SetPool("open")
  /\ UNCHANGED <<unread, written, rows, late, breaks, indoubt>>

(* Mutant: the time spent is counted from the last attempt.                *)
WakeRenewed(c) ==
  /\ Go(c, "sleep", "again") /\ late' = late \ {c}
  /\ UNCHANGED <<pool, unread, written, rows, breaks, indoubt, lost>>

Wake(c) ==
  /\ Go(c, "sleep", "again")
  /\ UNCHANGED <<pool, unread, written, rows, late, breaks, indoubt, lost>>

-----------------------------------------------------------------------------
Statement(c) == CopyWrites(c) \/ Execute(c) \/ Commit(c) \/ Answer(c)
Recover(c) == Catch(c) \/ Check(c) \/ Close(c) \/ Del(c) \/ Create(c) \/ Wake(c)
Step(c) == Call(c) \/ Construct(c) \/ Attempt(c) \/ Exhausted(c) \/ Statement(c) \/ Recover(c)
Fault(c) == Break(c) \/ Refuse(c) \/ Expire(c)

AllEnded == (\A c \in Callers : pc[c] \in Ended) /\ UNCHANGED callVars

CallNext == (\E c \in Callers : Step(c) \/ Fault(c)) \/ AllEnded

(* Threads go on, and the clock does.                                      *)
Fairness == \A c \in Callers : WF_callVars(Step(c)) /\ WF_callVars(Expire(c))

CallSpec == CallInit /\ [][CallNext]_callVars
FairSpec == CallSpec /\ Fairness

-----------------------------------------------------------------------------
(* Properties                                                              *)

(* Types of the pool, of the calls and of what they leave.                 *)
CallTypes ==
  /\ pool \in {"none", "open", "closed"}
  /\ pc \in [Callers ->
       {"idle", "construct", "loop", "again"} \cup Attempting \cup Recovering \cup Ended]
  /\ unread \subseteq Callers /\ late \subseteq Callers /\ indoubt \subseteq Callers
  /\ written \in [Callers -> 0 .. 2] /\ rows \in [Callers -> Nat]
  /\ breaks \in 0 .. MaxBreaks /\ lost \in BOOLEAN

(* What a call reports as done is in the database, whatever broke on the   *)
(* way; but for copy_from, whose file may be read already.                 *)
AnsweredIsStored ==
  \A c \in Callers : pc[c] = "ok" /\ Kind[c] # "copy" => rows[c] >= Rows(c)

(* Rows are doubled only by an INSERT that was committed without the       *)
(* caller being told. A copy is never doubled, nor is a transaction.       *)
DoubledOnlyInDoubt ==
  \A c \in Callers : rows[c] > Rows(c) => Kind[c] = "insert" /\ c \in indoubt

(* All the rows of a transaction or none, at every moment; none if it is   *)
(* reported as failed, unless its commit is in doubt.                      *)
TransactionsAreWhole ==
  \A c \in Callers : Kind[c] = "transaction" =>
    /\ rows[c] \in {0, Rows(c)}
    /\ pc[c] = "rolledBack" /\ rows[c] > 0 => c \in indoubt

(* What the database holds agrees with what the callers were told, however *)
(* often a statement was tried.                                            *)
RowsAreTrue == AnsweredIsStored /\ DoubledOnlyInDoubt /\ TransactionsAreWhole

(* While there is no pool somebody is about to make one: a call that fails *)
(* for want of it ran into the recovery of another call.                   *)
PoolIsComing ==
  pool = "none" =>
    \/ \E c \in Callers : pc[c] \in {"construct", "create"}
    \/ \A c \in Callers : pc[c] = "idle"

(* Every call returns or raises, for all the threads do to each other.     *)
EveryCallEnds == \A c \in Callers : pc[c] # "idle" ~> pc[c] \in Ended

(* "the retry mechanism should recover it": a copy that is reported as     *)
(* done has been stored.                                                   *)
CopiesAreStored ==
  \A c \in Callers : pc[c] = "ok" /\ Kind[c] = "copy" => rows[c] >= Rows(c)

=============================================================================
