--------------------------- MODULE DatabaseProofs ---------------------------
(***************************************************************************)
(* Proofs about the two models of what happens to rows: of DbRetry, which  *)
(* repeats the statements of a thread, and of CarbonDb, where scripts work *)
(* on the same tables.                                                     *)
(*                                                                         *)
(* DbRetry is proved for any number of threads, of any kinds of calls,     *)
(* and of broken connections. What a call has committed does not follow    *)
(* from its last step: it rests on how far its attempts have come, on      *)
(* whether one of them was committed without an answer and, for a copy, on *)
(* whether the file was read. CallOK says how these belong together.       *)
(***************************************************************************)
EXTENDS DbRetry, CarbonDb, FiniteSetTheorems, WellFoundedInduction, TLAPS

States == {"idle", "construct", "loop", "again"} \cup Attempting \cup Recovering \cup Ended
Committed == {"answer", "ok"}

(* A transaction is never repeated, and its rows are there as a whole as   *)
(* soon as it is committed.                                                *)
TransactionOK(c) ==
  Kind[c] = "transaction" =>
    /\ pc[c] \notin Recovering \cup {"again", "refused", "givenUp"}
    /\ pc[c] \in Committed => rows[c] = 2
    /\ pc[c] \notin Committed /\ c \notin indoubt => rows[c] = 0
    /\ pc[c] \in {"idle", "construct", "loop", "execute", "commit"} => c \notin indoubt
    /\ rows[c] \in {0, 2}
    /\ pc[c] # "rolledBack" => c \notin indoubt

(* An INSERT is there once, unless the caller was not told of it.          *)
InsertOK(c) ==
  Kind[c] = "insert" =>
    /\ c \notin indoubt /\ pc[c] \notin Committed => rows[c] = 0
    /\ c \notin indoubt /\ pc[c] \in Committed => rows[c] = 1
    /\ pc[c] \in Committed => rows[c] >= 1

UpdateOK(c) ==
  Kind[c] = "update" =>
    /\ rows[c] \in {0, 1}
    /\ pc[c] \in Committed => rows[c] = 1

(* A file is read once, so its rows are written once.                      *)
CopyOK(c) ==
  Kind[c] = "copy" =>
    /\ c \in unread => rows[c] = 0 /\ pc[c] \notin {"commit"}
    /\ pc[c] = "commit" => rows[c] + written[c] <= 2
    /\ rows[c] <= 2

(* What the open transaction has written.                                  *)
WrittenOK(c) ==
  Kind[c] # "copy" =>
    /\ pc[c] = "execute" => written[c] < Rows(c)
    /\ pc[c] = "commit" => written[c] = Rows(c)

CallOK(c) ==
  TransactionOK(c) /\ InsertOK(c) /\ UpdateOK(c) /\ CopyOK(c) /\ WrittenOK(c)

CallsOK == \A c \in Callers : CallOK(c)
IInv == CallTypes /\ CallsOK

-----------------------------------------------------------------------------
(* What a step of one call leaves alone for the others.                    *)
LEMMA OthersStay ==
  ASSUME NEW c \in Callers, NEW d \in Callers, CallOK(d),
         pc'[d] = pc[d], written'[d] = written[d], rows'[d] = rows[d],
         d \in unread' <=> d \in unread, d \in indoubt' <=> d \in indoubt
  PROVE  CallOK(d)'
<1>1. TransactionOK(d)'
  BY DEF CallOK, TransactionOK
<1>2. InsertOK(d)' /\ UpdateOK(d)'
  BY DEF CallOK, InsertOK, UpdateOK
<1>3. CopyOK(d)' /\ WrittenOK(d)'
  BY DEF CallOK, CopyOK, WrittenOK, Rows
<1>. QED
  BY <1>1, <1>2, <1>3 DEF CallOK

(* DB() keeps the invariant.                                               *)
LEMMA CallKeeps == ASSUME NEW c \in Callers, IInv, Call(c) PROVE IInv'
<1>. USE KindAssumption, BreaksAssumption DEF CallKinds
<1>1. CallTypes'
  BY DEF IInv, CallTypes, CallsOK, CallOK, WrittenOK, Rows, Call, Go, SetPool, Attempting,
       Recovering, Ended
<1>2. ASSUME NEW d \in Callers, d # c PROVE CallOK(d)'
  BY <1>2, OthersStay DEF IInv, CallTypes, CallsOK, Call, Go, SetPool
<1>3. CallOK(c)'
  <2>. USE DEF IInv, CallTypes, CallsOK, CallOK, Call, Go, SetPool, Attempting, Recovering,
       Ended, Committed, Rows
  <2>1. TransactionOK(c)'
    BY DEF TransactionOK, WrittenOK
  <2>2. InsertOK(c)'
    BY DEF InsertOK, WrittenOK
  <2>3. UpdateOK(c)'
    BY DEF UpdateOK
  <2>4. CopyOK(c)'
    BY DEF CopyOK
  <2>5. WrittenOK(c)'
    BY DEF WrittenOK
  <2>. QED
    BY <2>1, <2>2, <2>3, <2>4, <2>5
<1>. QED
  BY <1>1, <1>2, <1>3 DEF IInv, CallsOK

(* Making the pool keeps it.                                               *)
LEMMA ConstructKeeps == ASSUME NEW c \in Callers, IInv, Construct(c) PROVE IInv'
<1>. USE KindAssumption, BreaksAssumption DEF CallKinds
<1>1. CallTypes'
  BY DEF IInv, CallTypes, CallsOK, CallOK, WrittenOK, Rows, Construct, Go, SetPool, Attempting,
       Recovering, Ended
<1>2. ASSUME NEW d \in Callers, d # c PROVE CallOK(d)'
  BY <1>2, OthersStay DEF IInv, CallTypes, CallsOK, Construct, Go, SetPool
<1>3. CallOK(c)'
  <2>. USE DEF IInv, CallTypes, CallsOK, CallOK, Construct, Go, SetPool, Attempting,
       Recovering, Ended, Committed, Rows
  <2>1. TransactionOK(c)'
    BY DEF TransactionOK, WrittenOK
  <2>2. InsertOK(c)'
    BY DEF InsertOK, WrittenOK
  <2>3. UpdateOK(c)'
    BY DEF UpdateOK
  <2>4. CopyOK(c)'
    BY DEF CopyOK
  <2>5. WrittenOK(c)'
    BY DEF WrittenOK
  <2>. QED
    BY <2>1, <2>2, <2>3, <2>4, <2>5
<1>. QED
  BY <1>1, <1>2, <1>3 DEF IInv, CallsOK

(* The head of the loop keeps it.                                          *)
LEMMA AttemptKeeps == ASSUME NEW c \in Callers, IInv, Attempt(c) PROVE IInv'
<1>. USE KindAssumption, BreaksAssumption DEF CallKinds
<1>1. CallTypes'
  <2>. DEFINE to == CASE pool = "none" -> "noPool"
                      [] pool = "closed" /\ Kind[c] = "transaction" -> "rolledBack"
                      [] pool = "closed" /\ Kind[c] # "transaction" -> "caught"
                      [] OTHER -> "execute"
  <2>1. to \in {"noPool", "rolledBack", "caught", "execute"}
    OBVIOUS
  <2>2. pc' = [pc EXCEPT ![c] = to]
    BY DEF Attempt, Go
  <2>. HIDE DEF to
  <2>3. pc' \in [Callers -> States]
    BY <2>1, <2>2 DEF IInv, CallTypes, States, Attempting, Recovering, Ended
  <2>4. written' \in [Callers -> 0 .. 2]
    BY DEF IInv, CallTypes, Attempt
  <2>. QED
    BY <2>3, <2>4 DEF IInv, CallTypes, Attempt, States
<1>2. ASSUME NEW d \in Callers, d # c PROVE CallOK(d)'
  BY <1>2, OthersStay DEF IInv, CallTypes, CallsOK, Attempt, Go, SetPool
<1>3. CallOK(c)'
  <2>. USE DEF IInv, CallTypes, CallsOK, CallOK, Attempt, Go, SetPool, Attempting, Recovering,
       Ended, Committed, Rows
  <2>1. TransactionOK(c)'
    <3>1. pc'[c] \in {"noPool", "rolledBack", "caught", "execute"}
      OBVIOUS
    <3>2. Kind[c] = "transaction" => pc'[c] # "caught"
      OBVIOUS
    <3>3. rows' = rows /\ indoubt' = indoubt /\ pc[c] \in {"loop", "again"}
      OBVIOUS
    <3>. QED
      BY <3>1, <3>2, <3>3 DEF TransactionOK
  <2>2. InsertOK(c)'
    BY DEF InsertOK, WrittenOK
  <2>3. UpdateOK(c)'
    BY DEF UpdateOK
  <2>4. CopyOK(c)'
    BY DEF CopyOK
  <2>5. WrittenOK(c)'
    BY DEF WrittenOK
  <2>. QED
    BY <2>1, <2>2, <2>3, <2>4, <2>5
<1>. QED
  BY <1>1, <1>2, <1>3 DEF IInv, CallsOK

(* Giving up keeps it.                                                     *)
LEMMA ExhaustedKeeps == ASSUME NEW c \in Callers, IInv, Exhausted(c) PROVE IInv'
<1>. USE KindAssumption, BreaksAssumption DEF CallKinds
<1>1. CallTypes'
  BY DEF IInv, CallTypes, CallsOK, CallOK, WrittenOK, Rows, Exhausted, Go, SetPool, Attempting,
       Recovering, Ended
<1>2. ASSUME NEW d \in Callers, d # c PROVE CallOK(d)'
  BY <1>2, OthersStay DEF IInv, CallTypes, CallsOK, Exhausted, Go, SetPool
<1>3. CallOK(c)'
  <2>. USE DEF IInv, CallTypes, CallsOK, CallOK, Exhausted, Go, SetPool, Attempting,
       Recovering, Ended, Committed, Rows
  <2>1. TransactionOK(c)'
    BY DEF TransactionOK, WrittenOK
  <2>2. InsertOK(c)'
    BY DEF InsertOK, WrittenOK
  <2>3. UpdateOK(c)'
    BY DEF UpdateOK
  <2>4. CopyOK(c)'
    BY DEF CopyOK
  <2>5. WrittenOK(c)'
    BY DEF WrittenOK
  <2>. QED
    BY <2>1, <2>2, <2>3, <2>4, <2>5
<1>. QED
  BY <1>1, <1>2, <1>3 DEF IInv, CallsOK

(* The reading of the file keeps it.                                       *)
LEMMA CopyWritesKeeps == ASSUME NEW c \in Callers, IInv, CopyWrites(c) PROVE IInv'
<1>. USE KindAssumption, BreaksAssumption DEF CallKinds
<1>1. CallTypes'
  BY DEF IInv, CallTypes, CallsOK, CallOK, WrittenOK, Rows, CopyWrites, Go, SetPool,
       Attempting, Recovering, Ended
<1>2. ASSUME NEW d \in Callers, d # c PROVE CallOK(d)'
  BY <1>2, OthersStay DEF IInv, CallTypes, CallsOK, CopyWrites, Go, SetPool
<1>3. CallOK(c)'
  <2>. USE DEF IInv, CallTypes, CallsOK, CallOK, CopyWrites, Go, SetPool, Attempting,
       Recovering, Ended, Committed, Rows
  <2>1. TransactionOK(c)'
    BY DEF TransactionOK, WrittenOK
  <2>2. InsertOK(c)'
    BY DEF InsertOK, WrittenOK
  <2>3. UpdateOK(c)'
    BY DEF UpdateOK
  <2>4. CopyOK(c)'
    BY DEF CopyOK
  <2>5. WrittenOK(c)'
    BY DEF WrittenOK
  <2>. QED
    BY <2>1, <2>2, <2>3, <2>4, <2>5
<1>. QED
  BY <1>1, <1>2, <1>3 DEF IInv, CallsOK

(* A statement keeps it.                                                   *)
LEMMA ExecuteKeeps == ASSUME NEW c \in Callers, IInv, Execute(c) PROVE IInv'
<1>. USE KindAssumption, BreaksAssumption DEF CallKinds
<1>1. CallTypes'
  BY DEF IInv, CallTypes, CallsOK, CallOK, WrittenOK, Rows, Execute, Go, SetPool, Attempting,
       Recovering, Ended
<1>2. ASSUME NEW d \in Callers, d # c PROVE CallOK(d)'
  BY <1>2, OthersStay DEF IInv, CallTypes, CallsOK, Execute, Go, SetPool
<1>3. CallOK(c)'
  <2>. USE DEF IInv, CallTypes, CallsOK, CallOK, Execute, Go, SetPool, Attempting, Recovering,
       Ended, Committed, Rows
  <2>1. TransactionOK(c)'
    BY DEF TransactionOK, WrittenOK
  <2>2. InsertOK(c)'
    BY DEF InsertOK, WrittenOK
  <2>3. UpdateOK(c)'
    BY DEF UpdateOK
  <2>4. CopyOK(c)'
    BY DEF CopyOK
  <2>5. WrittenOK(c)'
    BY DEF WrittenOK
  <2>. QED
    BY <2>1, <2>2, <2>3, <2>4, <2>5
<1>. QED
  BY <1>1, <1>2, <1>3 DEF IInv, CallsOK

(* The server's commit keeps it.                                           *)
LEMMA CommitKeeps == ASSUME NEW c \in Callers, IInv, Commit(c) PROVE IInv'
<1>. USE KindAssumption, BreaksAssumption DEF CallKinds
<1>1. CallTypes'
  BY DEF IInv, CallTypes, CallsOK, CallOK, WrittenOK, Rows, Commit, Go, SetPool, Attempting,
       Recovering, Ended
<1>2. ASSUME NEW d \in Callers, d # c PROVE CallOK(d)'
  BY <1>2, OthersStay DEF IInv, CallTypes, CallsOK, Commit, Go, SetPool
<1>3. CallOK(c)'
  <2>. USE DEF IInv, CallTypes, CallsOK, CallOK, Commit, Go, SetPool, Attempting, Recovering,
       Ended, Committed, Rows
  <2>1. TransactionOK(c)'
    BY DEF TransactionOK, WrittenOK
  <2>2. InsertOK(c)'
    BY DEF InsertOK, WrittenOK
  <2>3. UpdateOK(c)'
    BY DEF UpdateOK
  <2>4. CopyOK(c)'
    BY DEF CopyOK
  <2>5. WrittenOK(c)'
    BY DEF WrittenOK
  <2>. QED
    BY <2>1, <2>2, <2>3, <2>4, <2>5
<1>. QED
  BY <1>1, <1>2, <1>3 DEF IInv, CallsOK

(* The answer keeps it.                                                    *)
LEMMA AnswerKeeps == ASSUME NEW c \in Callers, IInv, Answer(c) PROVE IInv'
<1>. USE KindAssumption, BreaksAssumption DEF CallKinds
<1>1. CallTypes'
  BY DEF IInv, CallTypes, CallsOK, CallOK, WrittenOK, Rows, Answer, Go, SetPool, Attempting,
       Recovering, Ended
<1>2. ASSUME NEW d \in Callers, d # c PROVE CallOK(d)'
  BY <1>2, OthersStay DEF IInv, CallTypes, CallsOK, Answer, Go, SetPool
<1>3. CallOK(c)'
  <2>. USE DEF IInv, CallTypes, CallsOK, CallOK, Answer, Go, SetPool, Attempting, Recovering,
       Ended, Committed, Rows
  <2>1. TransactionOK(c)'
    BY DEF TransactionOK, WrittenOK
  <2>2. InsertOK(c)'
    BY DEF InsertOK, WrittenOK
  <2>3. UpdateOK(c)'
    BY DEF UpdateOK
  <2>4. CopyOK(c)'
    BY DEF CopyOK
  <2>5. WrittenOK(c)'
    BY DEF WrittenOK
  <2>. QED
    BY <2>1, <2>2, <2>3, <2>4, <2>5
<1>. QED
  BY <1>1, <1>2, <1>3 DEF IInv, CallsOK

(* The except clause keeps it.                                             *)
LEMMA CatchKeeps == ASSUME NEW c \in Callers, IInv, Catch(c) PROVE IInv'
<1>. USE KindAssumption, BreaksAssumption DEF CallKinds
<1>1. CallTypes'
  BY DEF IInv, CallTypes, CallsOK, CallOK, WrittenOK, Rows, Catch, Go, SetPool, Attempting,
       Recovering, Ended
<1>2. ASSUME NEW d \in Callers, d # c PROVE CallOK(d)'
  BY <1>2, OthersStay DEF IInv, CallTypes, CallsOK, Catch, Go, SetPool
<1>3. CallOK(c)'
  <2>. USE DEF IInv, CallTypes, CallsOK, CallOK, Catch, Go, SetPool, Attempting, Recovering,
       Ended, Committed, Rows
  <2>1. TransactionOK(c)'
    BY DEF TransactionOK, WrittenOK
  <2>2. InsertOK(c)'
    BY DEF InsertOK, WrittenOK
  <2>3. UpdateOK(c)'
    BY DEF UpdateOK
  <2>4. CopyOK(c)'
    BY DEF CopyOK
  <2>5. WrittenOK(c)'
    BY DEF WrittenOK
  <2>. QED
    BY <2>1, <2>2, <2>3, <2>4, <2>5
<1>. QED
  BY <1>1, <1>2, <1>3 DEF IInv, CallsOK

(* The look for a pool keeps it.                                           *)
LEMMA CheckKeeps == ASSUME NEW c \in Callers, IInv, Check(c) PROVE IInv'
<1>. USE KindAssumption, BreaksAssumption DEF CallKinds
<1>1. CallTypes'
  BY DEF IInv, CallTypes, CallsOK, CallOK, WrittenOK, Rows, Check, Go, SetPool, Attempting,
       Recovering, Ended
<1>2. ASSUME NEW d \in Callers, d # c PROVE CallOK(d)'
  BY <1>2, OthersStay DEF IInv, CallTypes, CallsOK, Check, Go, SetPool
<1>3. CallOK(c)'
  <2>. USE DEF IInv, CallTypes, CallsOK, CallOK, Check, Go, SetPool, Attempting, Recovering,
       Ended, Committed, Rows
  <2>1. TransactionOK(c)'
    BY DEF TransactionOK, WrittenOK
  <2>2. InsertOK(c)'
    BY DEF InsertOK, WrittenOK
  <2>3. UpdateOK(c)'
    BY DEF UpdateOK
  <2>4. CopyOK(c)'
    BY DEF CopyOK
  <2>5. WrittenOK(c)'
    BY DEF WrittenOK
  <2>. QED
    BY <2>1, <2>2, <2>3, <2>4, <2>5
<1>. QED
  BY <1>1, <1>2, <1>3 DEF IInv, CallsOK

(* Closing the pool keeps it.                                              *)
LEMMA CloseKeeps == ASSUME NEW c \in Callers, IInv, Close(c) PROVE IInv'
<1>. USE KindAssumption, BreaksAssumption DEF CallKinds
<1>1. CallTypes'
  BY DEF IInv, CallTypes, CallsOK, CallOK, WrittenOK, Rows, Close, Go, SetPool, Attempting,
       Recovering, Ended
<1>2. ASSUME NEW d \in Callers, d # c PROVE CallOK(d)'
  BY <1>2, OthersStay DEF IInv, CallTypes, CallsOK, Close, Go, SetPool
<1>3. CallOK(c)'
  <2>. USE DEF IInv, CallTypes, CallsOK, CallOK, Close, Go, SetPool, Attempting, Recovering,
       Ended, Committed, Rows
  <2>1. TransactionOK(c)'
    BY DEF TransactionOK, WrittenOK
  <2>2. InsertOK(c)'
    BY DEF InsertOK, WrittenOK
  <2>3. UpdateOK(c)'
    BY DEF UpdateOK
  <2>4. CopyOK(c)'
    BY DEF CopyOK
  <2>5. WrittenOK(c)'
    BY DEF WrittenOK
  <2>. QED
    BY <2>1, <2>2, <2>3, <2>4, <2>5
<1>. QED
  BY <1>1, <1>2, <1>3 DEF IInv, CallsOK

(* Deleting the attribute keeps it.                                        *)
LEMMA DelKeeps == ASSUME NEW c \in Callers, IInv, Del(c) PROVE IInv'
<1>. USE KindAssumption, BreaksAssumption DEF CallKinds
<1>1. CallTypes'
  BY DEF IInv, CallTypes, CallsOK, CallOK, WrittenOK, Rows, Del, Go, SetPool, Attempting,
       Recovering, Ended
<1>2. ASSUME NEW d \in Callers, d # c PROVE CallOK(d)'
  BY <1>2, OthersStay DEF IInv, CallTypes, CallsOK, Del, Go, SetPool
<1>3. CallOK(c)'
  <2>. USE DEF IInv, CallTypes, CallsOK, CallOK, Del, Go, SetPool, Attempting, Recovering,
       Ended, Committed, Rows
  <2>1. TransactionOK(c)'
    BY DEF TransactionOK, WrittenOK
  <2>2. InsertOK(c)'
    BY DEF InsertOK, WrittenOK
  <2>3. UpdateOK(c)'
    BY DEF UpdateOK
  <2>4. CopyOK(c)'
    BY DEF CopyOK
  <2>5. WrittenOK(c)'
    BY DEF WrittenOK
  <2>. QED
    BY <2>1, <2>2, <2>3, <2>4, <2>5
<1>. QED
  BY <1>1, <1>2, <1>3 DEF IInv, CallsOK

(* A new pool keeps it.                                                    *)
LEMMA CreateKeeps == ASSUME NEW c \in Callers, IInv, Create(c) PROVE IInv'
<1>. USE KindAssumption, BreaksAssumption DEF CallKinds
<1>1. CallTypes'
  BY DEF IInv, CallTypes, CallsOK, CallOK, WrittenOK, Rows, Create, Go, SetPool, Attempting,
       Recovering, Ended
<1>2. ASSUME NEW d \in Callers, d # c PROVE CallOK(d)'
  BY <1>2, OthersStay DEF IInv, CallTypes, CallsOK, Create, Go, SetPool
<1>3. CallOK(c)'
  <2>. USE DEF IInv, CallTypes, CallsOK, CallOK, Create, Go, SetPool, Attempting, Recovering,
       Ended, Committed, Rows
  <2>1. TransactionOK(c)'
    BY DEF TransactionOK, WrittenOK
  <2>2. InsertOK(c)'
    BY DEF InsertOK, WrittenOK
  <2>3. UpdateOK(c)'
    BY DEF UpdateOK
  <2>4. CopyOK(c)'
    BY DEF CopyOK
  <2>5. WrittenOK(c)'
    BY DEF WrittenOK
  <2>. QED
    BY <2>1, <2>2, <2>3, <2>4, <2>5
<1>. QED
  BY <1>1, <1>2, <1>3 DEF IInv, CallsOK

(* The end of the sleep keeps it.                                          *)
LEMMA WakeKeeps == ASSUME NEW c \in Callers, IInv, Wake(c) PROVE IInv'
<1>. USE KindAssumption, BreaksAssumption DEF CallKinds
<1>1. CallTypes'
  BY DEF IInv, CallTypes, CallsOK, CallOK, WrittenOK, Rows, Wake, Go, SetPool, Attempting,
       Recovering, Ended
<1>2. ASSUME NEW d \in Callers, d # c PROVE CallOK(d)'
  BY <1>2, OthersStay DEF IInv, CallTypes, CallsOK, Wake, Go, SetPool
<1>3. CallOK(c)'
  <2>. USE DEF IInv, CallTypes, CallsOK, CallOK, Wake, Go, SetPool, Attempting, Recovering,
       Ended, Committed, Rows
  <2>1. TransactionOK(c)'
    BY DEF TransactionOK, WrittenOK
  <2>2. InsertOK(c)'
    BY DEF InsertOK, WrittenOK
  <2>3. UpdateOK(c)'
    BY DEF UpdateOK
  <2>4. CopyOK(c)'
    BY DEF CopyOK
  <2>5. WrittenOK(c)'
    BY DEF WrittenOK
  <2>. QED
    BY <2>1, <2>2, <2>3, <2>4, <2>5
<1>. QED
  BY <1>1, <1>2, <1>3 DEF IInv, CallsOK

(* A broken connection keeps it.                                           *)
LEMMA BreakKeeps == ASSUME NEW c \in Callers, IInv, Break(c) PROVE IInv'
<1>. USE KindAssumption, BreaksAssumption DEF CallKinds
<1>1. CallTypes'
  BY DEF IInv, CallTypes, CallsOK, CallOK, WrittenOK, Rows, Break, Go, SetPool, Attempting,
       Recovering, Ended
<1>2. ASSUME NEW d \in Callers, d # c PROVE CallOK(d)'
  BY <1>2, OthersStay DEF IInv, CallTypes, CallsOK, Break, Go, SetPool
<1>3. CallOK(c)'
  <2>. USE DEF IInv, CallTypes, CallsOK, CallOK, Break, Go, SetPool, Attempting, Recovering,
       Ended, Committed, Rows
  <2>1. TransactionOK(c)'
    BY DEF TransactionOK, WrittenOK
  <2>2. InsertOK(c)'
    BY DEF InsertOK, WrittenOK
  <2>3. UpdateOK(c)'
    BY DEF UpdateOK
  <2>4. CopyOK(c)'
    BY DEF CopyOK
  <2>5. WrittenOK(c)'
    BY DEF WrittenOK
  <2>. QED
    BY <2>1, <2>2, <2>3, <2>4, <2>5
<1>. QED
  BY <1>1, <1>2, <1>3 DEF IInv, CallsOK

(* A refused statement keeps it.                                           *)
LEMMA RefuseKeeps == ASSUME NEW c \in Callers, IInv, Refuse(c) PROVE IInv'
<1>. USE KindAssumption, BreaksAssumption DEF CallKinds
<1>1. CallTypes'
  BY DEF IInv, CallTypes, CallsOK, CallOK, WrittenOK, Rows, Refuse, Go, SetPool, Attempting,
       Recovering, Ended
<1>2. ASSUME NEW d \in Callers, d # c PROVE CallOK(d)'
  BY <1>2, OthersStay DEF IInv, CallTypes, CallsOK, Refuse, Go, SetPool
<1>3. CallOK(c)'
  <2>. USE DEF IInv, CallTypes, CallsOK, CallOK, Refuse, Go, SetPool, Attempting, Recovering,
       Ended, Committed, Rows
  <2>1. TransactionOK(c)'
    BY DEF TransactionOK, WrittenOK
  <2>2. InsertOK(c)'
    BY DEF InsertOK, WrittenOK
  <2>3. UpdateOK(c)'
    BY DEF UpdateOK
  <2>4. CopyOK(c)'
    BY DEF CopyOK
  <2>5. WrittenOK(c)'
    BY DEF WrittenOK
  <2>. QED
    BY <2>1, <2>2, <2>3, <2>4, <2>5
<1>. QED
  BY <1>1, <1>2, <1>3 DEF IInv, CallsOK

(* The end of retry_timeout keeps it.                                      *)
LEMMA ExpireKeeps == ASSUME NEW c \in Callers, IInv, Expire(c) PROVE IInv'
<1>. USE KindAssumption, BreaksAssumption DEF CallKinds
<1>1. CallTypes'
  BY DEF IInv, CallTypes, CallsOK, CallOK, WrittenOK, Rows, Expire, Go, SetPool, Attempting,
       Recovering, Ended
<1>2. ASSUME NEW d \in Callers, d # c PROVE CallOK(d)'
  BY <1>2, OthersStay DEF IInv, CallTypes, CallsOK, Expire, Go, SetPool
<1>3. CallOK(c)'
  <2>. USE DEF IInv, CallTypes, CallsOK, CallOK, Expire, Go, SetPool, Attempting, Recovering,
       Ended, Committed, Rows
  <2>1. TransactionOK(c)'
    BY DEF TransactionOK, WrittenOK
  <2>2. InsertOK(c)'
    BY DEF InsertOK, WrittenOK
  <2>3. UpdateOK(c)'
    BY DEF UpdateOK
  <2>4. CopyOK(c)'
    BY DEF CopyOK
  <2>5. WrittenOK(c)'
    BY DEF WrittenOK
  <2>. QED
    BY <2>1, <2>2, <2>3, <2>4, <2>5
<1>. QED
  BY <1>1, <1>2, <1>3 DEF IInv, CallsOK

-----------------------------------------------------------------------------
(* It holds when nobody has called yet.                                    *)
LEMMA Initially == CallInit => IInv
<1>. USE KindAssumption, BreaksAssumption DEF CallKinds
<1>. SUFFICES ASSUME CallInit PROVE IInv
  OBVIOUS
<1>1. CallTypes
  <2>1. breaks \in 0 .. MaxBreaks
    BY DEF CallInit
  <2>2. lost \in BOOLEAN /\ pool \in {"none", "open", "closed"}
    BY DEF CallInit
  <2>3. unread \subseteq Callers /\ late \subseteq Callers /\ indoubt \subseteq Callers
    BY DEF CallInit
  <2>4. written \in [Callers -> 0 .. 2] /\ rows \in [Callers -> Nat]
    BY DEF CallInit
  <2>5. pc \in [Callers -> States]
    BY DEF CallInit, States
  <2>. QED
    BY <2>1, <2>2, <2>3, <2>4, <2>5 DEF CallTypes, States
<1>2. ASSUME NEW c \in Callers PROVE CallOK(c)
  BY DEF CallInit, CallOK, TransactionOK, InsertOK, UpdateOK, CopyOK, WrittenOK,
      Recovering, Committed
<1>. QED
  BY <1>1, <1>2 DEF IInv, CallsOK

(* A step that changes nothing keeps it.                                   *)
LEMMA StutteringKeeps == IInv /\ UNCHANGED callVars => IInv'
<1>. SUFFICES ASSUME IInv, UNCHANGED callVars PROVE IInv'
  OBVIOUS
<1>1. CallTypes'
  BY DEF IInv, CallTypes, callVars
<1>2. ASSUME NEW d \in Callers PROVE CallOK(d)'
  BY <1>2, OthersStay DEF IInv, CallsOK, callVars
<1>. QED
  BY <1>1, <1>2 DEF IInv, CallsOK

(* Every step keeps the invariant.                                         *)
LEMMA Inductive == IInv /\ [CallNext]_callVars => IInv'
<1>. SUFFICES ASSUME IInv, [CallNext]_callVars PROVE IInv'
  OBVIOUS
<1>1. ASSUME NEW c \in Callers, Statement(c) PROVE IInv'
  BY <1>1, CopyWritesKeeps, ExecuteKeeps, CommitKeeps, AnswerKeeps DEF Statement
<1>2. ASSUME NEW c \in Callers, Recover(c) PROVE IInv'
  BY <1>2, CatchKeeps, CheckKeeps, CloseKeeps, DelKeeps, CreateKeeps, WakeKeeps DEF Recover
<1>3. ASSUME NEW c \in Callers, Fault(c) PROVE IInv'
  BY <1>3, BreakKeeps, RefuseKeeps, ExpireKeeps DEF Fault
<1>4. ASSUME NEW c \in Callers, Call(c) \/ Construct(c) \/ Attempt(c) \/ Exhausted(c)
      PROVE  IInv'
  BY <1>4, CallKeeps, ConstructKeeps, AttemptKeeps, ExhaustedKeeps
<1>5. ASSUME NEW c \in Callers, Step(c) PROVE IInv'
  BY <1>1, <1>2, <1>4, <1>5 DEF Step
<1>. QED
  BY <1>3, <1>5, StutteringKeeps DEF CallNext, AllEnded

(* Whatever threads, the server and the clock do, the invariant holds.     *)
THEOREM Invariant == CallSpec => []IInv
<1>. QED
  BY Initially, Inductive, PTL DEF CallSpec

-----------------------------------------------------------------------------
(* Types of the pool, of the calls and of what they leave.                 *)
THEOREM TypesAreKept == CallSpec => []CallTypes
<1>1. IInv => CallTypes
  BY DEF IInv
<1>. QED
  BY Invariant, <1>1, PTL

(* What a call reports as done is in the database, whatever broke on the   *)
(* way; but for copy_from.                                                 *)
THEOREM AnswersHold == CallSpec => []AnsweredIsStored
<1>1. IInv => AnsweredIsStored
  BY KindAssumption DEF IInv, CallsOK, CallOK, AnsweredIsStored, CallTypes, TransactionOK,
       InsertOK, UpdateOK, Rows, Committed, CallKinds
<1>. QED
  BY Invariant, <1>1, PTL

(* Rows are doubled only by an INSERT whose caller was not told that it    *)
(* had been committed.                                                     *)
THEOREM DoublesAreInDoubt == CallSpec => []DoubledOnlyInDoubt
<1>1. IInv => DoubledOnlyInDoubt
  BY KindAssumption DEF IInv, CallsOK, CallOK, DoubledOnlyInDoubt, CallTypes, TransactionOK,
       InsertOK, UpdateOK, CopyOK, Rows, Committed, CallKinds
<1>. QED
  BY Invariant, <1>1, PTL

(* All the rows of a transaction are there or none, at every moment.       *)
THEOREM TransactionsHold == CallSpec => []TransactionsAreWhole
<1>1. IInv => TransactionsAreWhole
  BY KindAssumption DEF IInv, CallsOK, CallOK, TransactionsAreWhole, CallTypes, TransactionOK,
       Rows, Committed, CallKinds
<1>. QED
  BY Invariant, <1>1, PTL

(* While there is no pool somebody is about to make one. The invariant is  *)
(* inductive: whoever deletes the pool is the one that makes the next, and *)
(* whoever finds none does not wait for the others.                        *)
THEOREM PoolsCome == CallSpec => []PoolIsComing
<1>1. CallInit => PoolIsComing
  BY DEF CallInit, PoolIsComing
<1>2. ASSUME IInv, PoolIsComing, [CallNext]_callVars PROVE PoolIsComing'
  <2>1. CASE UNCHANGED callVars
    BY <2>1, <1>2 DEF PoolIsComing, callVars
  <2>2. ASSUME NEW c \in Callers, Construct(c) \/ Create(c) PROVE PoolIsComing'
    BY <2>2 DEF Construct, Create, SetPool, PoolIsComing
  <2>3. ASSUME NEW c \in Callers, Call(c) PROVE PoolIsComing'
    BY <2>3, <1>2 DEF Call, Go, PoolIsComing, IInv, CallTypes
  <2>4. ASSUME NEW c \in Callers, Del(c) PROVE PoolIsComing'
    BY <2>4, <1>2 DEF Del, Go, SetPool, PoolIsComing, IInv, CallTypes
  <2>5. ASSUME NEW c \in Callers, Attempt(c) \/ Exhausted(c) PROVE PoolIsComing'
    BY <2>5, <1>2 DEF Attempt, Exhausted, Go, PoolIsComing, IInv, CallTypes
  <2>6. ASSUME NEW c \in Callers, Statement(c) PROVE PoolIsComing'
    BY <2>6, <1>2 DEF Statement, CopyWrites, Execute, Commit, Answer, Go,
        PoolIsComing, IInv, CallTypes
  <2>7. ASSUME NEW c \in Callers, Catch(c) \/ Check(c) \/ Close(c) \/ Wake(c)
        PROVE  PoolIsComing'
    BY <2>7, <1>2 DEF Catch, Check, Close, Wake, Go, PoolIsComing, IInv, CallTypes
  <2>8. ASSUME NEW c \in Callers, Fault(c) PROVE PoolIsComing'
    BY <2>8, <1>2 DEF Fault, Break, Refuse, Expire, Go, PoolIsComing, IInv, CallTypes,
        Attempting
  <2>9. ASSUME NEW c \in Callers, Step(c) PROVE PoolIsComing'
    BY <2>2, <2>3, <2>4, <2>5, <2>6, <2>7, <2>9 DEF Step, Recover
  <2>. QED
    BY <1>2, <2>1, <2>8, <2>9 DEF CallNext, AllEnded
<1>. QED
  BY Invariant, <1>1, <1>2, PTL DEF CallSpec

(* The rows in the database agree with what the callers were told.         *)
THEOREM RowsHold == CallSpec => []RowsAreTrue
<1>1. AnsweredIsStored /\ DoubledOnlyInDoubt /\ TransactionsAreWhole => RowsAreTrue
  BY DEF RowsAreTrue
<1> QED BY <1>1, AnswersHold, DoublesAreInDoubt, TransactionsHold, PTL

-----------------------------------------------------------------------------
(***************************************************************************)
(* CarbonDb, for any number of measurements of any kinds, any windows and  *)
(* any number of starts of the scripts.                                    *)
(***************************************************************************)
(* What the module assumes of its parameters.                              *)
Parameters ==
  LoadAssumption /\ FormAssumption /\ PlaceAssumption /\ WindowAssumption /\ BoundAssumption

(* And what they are.                                                      *)
LEMMA ParametersFit == Parameters
BY LoadAssumption, FormAssumption, PlaceAssumption, WindowAssumption, BoundAssumption
   DEF Parameters

(* Rows are not from the future.                                           *)
TimesOK == \A key \in Keys : Exists(key) => row[key].created \in 0 .. now

(* A script that is running has a number.                                  *)
NumbersOK ==
  /\ copier.at # "off" => copier.number > 0
  /\ rebuild.at # "off" => rebuild.number > 0

(* Where the rows of a measurement come from.                              *)
OriginsOK ==
  \A m \in Measurements :
    /\ Exists(<<m, -1>>) => kind[m] \in {"eco", "hog", "run"}
    /\ Exists(<<m, 0>>) => kind[m] = "custom"
    /\ \A n \in 1 .. MaxBatches : Exists(<<m, n>>) => Exists(<<m, -1>>)

(* The copies of a measurement that was never copied blindly are equal to  *)
(* their source.                                                           *)
CopiesAgree ==
  \A m \in Measurements \ blind : \A n \in 1 .. MaxBatches :
    Exists(<<m, n>>) =>
      /\ row[<<m, -1>>].carbon # NoCarbon
      /\ row[<<m, n>>].carbon = row[<<m, -1>>].carbon

(* The back-fill lasts no longer than it may. The rows it is to fill were  *)
(* young when it started, or have come since; it has read what it knows    *)
(* since then.                                                             *)
FetchedOK ==
  /\ intensity.at \in IntensityTables =>
       intensity.since <= now /\ now <= intensity.since + MaxDelay
  /\ intensity.at \notin IntensityTables => intensity.todo = {} /\ intensity.cache = {}
  /\ \A key \in intensity.todo :
       Exists(key) => row[key].created > intensity.since - BackfillWindow
  /\ \A r \in intensity.cache : r.at >= intensity.since /\ r.at <= now

(* A reading r suits the row of a key that was created at own, a copy also *)
(* if it suits the source, from which it comes unless the copy was blind.  *)
Suits(key, r, own, source, blinds) ==
  r \in Readings =>
    /\ r.place = Place[key[1]]
    /\ \/ key[2] > 0 /\ Distance(r.at, source) < Accuracy
       \/ (key[2] > 0 => key[1] \in blinds) /\ Distance(r.at, own) < Accuracy

(* So does every reading that carbon was computed with, or will be.        *)
SuitedOK ==
  \A key \in Keys :
    /\ Suits(key, row[key].carbon.of, row[key].created, row[<<key[1], -1>>].created, blind)
    /\ row[key].carbon = NoCarbon =>
         Suits(key, row[key].intensity, row[key].created, row[<<key[1], -1>>].created, blind)

(* There is one copy of what was not copied again since the last removal.  *)
OnceOK ==
  \A m \in Measurements \ (blind \cup again) :
    Recent(taken[m]) => \A a, b \in 0 .. MaxBatches :
      Exists(<<m, a>>) /\ Exists(<<m, b>>) => a = b

CarbonInv ==
  /\ Parameters
  /\ TypeOK
  /\ TimesOK /\ NumbersOK /\ OriginsOK /\ CopiesAgree
  /\ FetchedOK /\ SuitedOK /\ OnceOK

-----------------------------------------------------------------------------
(* A set of naturals has a least member.                                   *)
LEMMA LeastNatural ==
  ASSUME NEW S, S \subseteq Nat, S # {}
  PROVE  \E s \in S : \A t \in S : s <= t
<1>1. PICK s \in S : \A t \in S : ~ <<t, s>> \in OpToRel(<, Nat)
  BY NatLessThanWellFounded, WFMin
<1>2. \A t \in S : ~ (t < s)
  BY <1>1 DEF OpToRel
<1>. QED
  BY <1>2

(* Keys are pairs.                                                         *)
LEMMA KeyParts ==
  ASSUME NEW key \in Keys
  PROVE  /\ key[1] \in Measurements /\ key[2] \in -1 .. MaxBatches
         /\ key = <<key[1], key[2]>>
BY DEF Keys, Source

(* The reading taken for a row is one from around its creation.            *)
LEMMA NearestIsNear ==
  ASSUME TypeOK, TimesOK, Parameters, NEW key \in Keys, Exists(key), Near(key) # {}
  PROVE  Nearest(key) \in Near(key)
<1>. DEFINE c == row[key].created
            D == {Distance(r.at, c) : r \in Near(key)}
<1>1. c \in Nat /\ \A r \in Near(key) : r.at \in Nat
  <2>1. MaxTime \in Nat /\ now \in 0 .. MaxTime /\ readings \subseteq Readings
    BY DEF TypeOK, Parameters, BoundAssumption
  <2>2. c \in 0 .. now
    BY DEF TimesOK
  <2>3. c \in Nat /\ \A r \in readings : r.at \in Nat
    BY <2>1, <2>2 DEF Readings
  <2>4. Near(key) \subseteq readings
    BY DEF Near
  <2>. QED
    BY <2>3, <2>4
<1>2. D \subseteq Nat /\ D # {}
  BY <1>1 DEF Distance
<1>3. PICK d \in D : \A e \in D : d <= e
  BY <1>2, LeastNatural
<1>4. PICK r \in Near(key) : d = Distance(r.at, c)
  BY <1>3
<1>5. \A s \in Near(key) : Distance(r.at, c) <= Distance(s.at, c)
  BY <1>3, <1>4
<1>. QED
  BY <1>4, <1>5 DEF Nearest

-----------------------------------------------------------------------------
(* Types                                                                   *)

(* The bounds are numbers.                                                 *)
LEMMA BoundsAreNumbers ==
  ASSUME Parameters
  PROVE  /\ MaxTime \in Nat /\ MaxArrival \in Nat /\ MaxLateness \in Nat
         /\ MaxBatches \in Nat /\ MaxRebuilds \in Nat /\ BackfillWindow \in Nat \ {0}
         /\ MaxDelay \in Nat
         /\ LateDays \in Nat /\ MergeDays \in Nat /\ SlotsPerDay \in Nat \ {0}
BY DEF Parameters, BoundAssumption, WindowAssumption

(* What rows are put together from.                                        *)
LEMMA RowTypes ==
  ASSUME Parameters, TypeOK
  PROVE  /\ NoRow \in Row /\ now \in 0 .. MaxTime
         /\ NoCarbon \in Carbons /\ Carbon("sent") \in Carbons
         /\ Carbon("zero") \in Carbons
         /\ \A key \in Keys : row[key] \in Row
         /\ Unknown \in Intensities /\ Sent \in Intensities
         /\ Readings \subseteq Intensities
<1>1. /\ Unknown \in Intensities /\ Sent \in Intensities
      /\ Readings \subseteq Intensities
  BY DEF Intensities, Unknown, Sent
<1>2. /\ NoCarbon \in Carbons /\ Carbon("sent") \in Carbons
      /\ Carbon("zero") \in Carbons
  BY <1>1 DEF Carbons, NoCarbon, Carbon
<1>3. MaxTime \in Nat
  BY BoundsAreNumbers
<1>4. NoRow \in Row
  BY <1>1, <1>2, <1>3 DEF Row, NoRow
<1>5. now \in 0 .. MaxTime /\ \A key \in Keys : row[key] \in Row
  BY DEF TypeOK
<1>. QED
  BY <1>1, <1>2, <1>4, <1>5

(* A row that comes in is one.                                             *)
LEMMA InsertType ==
  ASSUME Parameters, TypeOK, NEW key \in Keys, NEW t \in -MaxLateness .. now,
         NEW located \in BOOLEAN, NEW given \in Intensities, NEW carbon \in Carbons,
         Insert(key, t, located, given, carbon)
  PROVE  TypeOK'
<1>1. [created |-> now, geo |-> located, intensity |-> given, carbon |-> carbon] \in Row
  BY RowTypes, BoundsAreNumbers DEF Row
<1>2. row' \in [Keys -> Row]
  BY <1>1 DEF Insert, TypeOK
<1>3. taken' \in [Measurements -> -MaxLateness .. MaxTime]
  <2>1. t \in -MaxLateness .. MaxTime
    BY RowTypes, BoundsAreNumbers
  <2>. QED
    BY <2>1, KeyParts DEF Insert, TypeOK
<1>. QED
  BY <1>2, <1>3 DEF Insert, TypeOK, scripts, history

(* So is every row after a statement that touches each of them alone.      *)
LEMMA RowsType ==
  ASSUME TypeOK, row' \in [Keys -> Row], UNCHANGED <<now, kind, taken, counted>>,
         readings' \subseteq Readings, blind' \subseteq Measurements,
         UNCHANGED <<again, geo, intensity, copier, rebuild, batches, rebuilds>>
  PROVE  TypeOK'
BY DEF TypeOK

(* A copy is a row.                                                        *)
LEMMA CopyOverType ==
  ASSUME Parameters, TypeOK, NEW of, NEW number, NEW all, CopyOver(of, number, all)
  PROVE  /\ row' \in [Keys -> Row]
         /\ blind' \subseteq Measurements /\ again' \subseteq Measurements
         /\ UNCHANGED <<now, kind, taken, counted, readings>>
<1>1. ASSUME NEW m \in Measurements PROVE Copied(m) \in Row
  <2>1. row[<<m, Source>>] \in Row
    BY RowTypes, BoundsAreNumbers DEF Keys, Source
  <2>2. now \in -1 .. MaxTime
    BY RowTypes, BoundsAreNumbers
  <2>. QED
    BY <2>1, <2>2, RowTypes DEF Copied, Row
<1>2. row' \in [Keys -> Row]
  BY <1>1, RowTypes, KeyParts DEF CopyOver
<1>. QED
  BY <1>2 DEF CopyOver, world, ToCopy, TypeOK

(* What is left after the removal are rows.                                *)
LEMMA RemoveType ==
  ASSUME Parameters, TypeOK, RemoveDuplicates
  PROVE  /\ row' \in [Keys -> Row] /\ again' = {}
         /\ UNCHANGED <<now, kind, taken, counted, readings, blind>>
BY RowTypes DEF RemoveDuplicates, world, history

(* The copies of a measurement can be counted.                             *)
LEMMA CopiesAreFinite ==
  ASSUME Parameters, NEW m \in Measurements, NEW S,
         S \subseteq {key \in RawKeys : key[1] = m}
  PROVE  IsFiniteSet(S) /\ Cardinality(S) \in Nat
<1>1. IsFiniteSet({m}) /\ IsFiniteSet(0 .. MaxBatches)
  <2>1. IsFiniteSet({m})
    BY FS_Singleton
  <2>2. 0 \in Int /\ MaxBatches \in Int
    BY BoundsAreNumbers
  <2>. QED
    BY <2>1, <2>2, FS_Interval
<1>2. IsFiniteSet({m} \X (0 .. MaxBatches))
  BY <1>1, FS_Product
<1>3. S \subseteq {m} \X (0 .. MaxBatches)
  BY DEF RawKeys, Added
<1>. QED
  BY <1>2, <1>3, FS_Subset, FS_CardinalityType

(* Sums are numbers.                                                       *)
LEMMA CompressType ==
  ASSUME Parameters, TypeOK, CompressRaw
  PROVE  /\ counted' \in [Measurements -> Nat]
         /\ UNCHANGED <<now, kind, taken, row, readings, blind, again>>
<1>. DEFINE Sum(m) == Cardinality({key \in Copies(m) : Compressed(key)})
<1>1. ASSUME NEW m \in Measurements PROVE Sum(m) \in Nat
  BY CopiesAreFinite DEF Copies
<1>2. counted' \in [Measurements -> Nat]
  <2>1. counted' = [m \in Measurements |-> IF m \in SumsReplaced THEN Sum(m) ELSE counted[m]]
    BY DEF CompressRaw
  <2>2. counted \in [Measurements -> Nat]
    BY DEF TypeOK
  <2>. HIDE DEF Sum
  <2>. QED
    BY <1>1, <2>1, <2>2
<1>. QED
  BY <1>2 DEF CompressRaw, world, history

(* The scripts go from table to table.                                     *)
LEMMA TablesInOrder ==
  \A at \in {"off", "eco", "hog", "raw"} :
    Behind(GeoOrder, at) \subseteq {"eco", "hog", "raw"}
BY DEF Behind, GeoOrder, Position

(* A row is filled with what was read for its place since the back-fill    *)
(* started.                                                                *)
LEMMA FilledOnes ==
  ASSUME Parameters, TypeOK, NEW key \in Keys, IntensityFill(key)
  PROVE  \E r \in Readings :
           /\ readings' = readings \cup {r}
           /\ intensity' = [intensity EXCEPT !.todo = @ \ {key}, !.cache = @ \cup {r}]
           /\ row' = IF Exists(key) THEN [row EXCEPT ![key].intensity = r] ELSE row
           /\ r.place = Place[key[1]]
           /\ r \in intensity.cache \/ r.at = now
<1>1. PICK r \in IF Cached(key) # {} THEN Cached(key) ELSE {Latest(key)} :
        /\ readings' = readings \cup {r}
        /\ intensity' = [intensity EXCEPT !.todo = @ \ {key}, !.cache = @ \cup {r}]
        /\ row' = IF Exists(key) THEN [row EXCEPT ![key].intensity = r] ELSE row
  BY DEF IntensityFill
<1>2. CASE r \in Cached(key)
  BY <1>1, <1>2 DEF Cached, TypeOK
<1>3. CASE r = Latest(key)
  <2>1. Place[key[1]] \in Places /\ now \in 0 .. MaxTime
    BY KeyParts DEF Parameters, PlaceAssumption, TypeOK
  <2>2. r \in Readings
    BY <1>3, <2>1 DEF Latest, Readings
  <2>. QED
    BY <1>1, <1>3, <2>2 DEF Latest
<1>. QED
  BY <1>1, <1>2, <1>3

(* Every action keeps the types: arrivals.                                 *)
LEMMA ArrivesType == ASSUME Parameters, TypeOK, Arrives PROVE TypeOK'
<1>1. ASSUME NEW m \in Measurements, EcoArrives(m) PROVE TypeOK'
  <2>1. PICK form \in Forms["eco"] :
          Insert(<<m, Source>>, now, form.geo, Given(form),
                   IF form.carbon THEN Carbon("sent") ELSE NoCarbon)
    BY <1>1 DEF EcoArrives
  <2>2. form.geo \in BOOLEAN /\ Given(form) \in Intensities
    BY RowTypes DEF Parameters, FormAssumption, Kinds, Given
  <2>3. <<m, Source>> \in Keys /\ now \in -MaxLateness .. now
    BY RowTypes, BoundsAreNumbers DEF Keys, Source
  <2>4. (IF form.carbon THEN Carbon("sent") ELSE NoCarbon) \in Carbons
    BY RowTypes
  <2>. QED
    BY <2>1, <2>2, <2>3, <2>4, InsertType
<1>2. ASSUME NEW m \in Measurements, HogArrives(m) PROVE TypeOK'
  <2>1. PICK t \in (now - MaxLateness) .. now, form \in Forms["hog"] :
          Insert(<<m, Source>>, t, FALSE, Given(form), Carbon("sent"))
    BY <1>2 DEF HogArrives
  <2>2. Given(form) \in Intensities
    BY RowTypes DEF Given
  <2>3. <<m, Source>> \in Keys /\ t \in -MaxLateness .. now
    BY RowTypes, BoundsAreNumbers DEF Keys, Source
  <2>. QED
    BY <2>1, <2>2, <2>3, RowTypes, InsertType
<1>3. ASSUME NEW m \in Measurements, CustomArrives(m) PROVE TypeOK'
  <2>1. PICK t \in (now - MaxLateness) .. now, form \in Forms["custom"] :
          Insert(<<m, Added>>, t, FALSE, Given(form),
                   IF form.intensity THEN Carbon("sent") ELSE NoCarbon)
    BY <1>3 DEF CustomArrives
  <2>2. Given(form) \in Intensities
    BY RowTypes DEF Given
  <2>3. <<m, Added>> \in Keys /\ t \in -MaxLateness .. now
    BY RowTypes, BoundsAreNumbers DEF Keys, Added, Source
  <2>4. (IF form.intensity THEN Carbon("sent") ELSE NoCarbon) \in Carbons
    BY RowTypes
  <2>. QED
    BY <2>1, <2>2, <2>3, <2>4, InsertType
<1>4. ASSUME NEW m \in Measurements, RunStarts(m) PROVE TypeOK'
  <2>1. Insert(<<m, Source>>, now, FALSE, Unknown, NoCarbon)
    BY <1>4 DEF RunStarts
  <2>2. <<m, Source>> \in Keys /\ now \in -MaxLateness .. now
    BY RowTypes, BoundsAreNumbers DEF Keys, Source
  <2>. QED
    BY <2>1, <2>2, RowTypes, InsertType
<1>5. ASSUME NEW m \in Measurements, RunEnds(m) PROVE TypeOK'
  <2>1. <<m, Source>> \in Keys
    BY BoundsAreNumbers DEF Keys, Source
  <2>2. [row[<<m, Source>>] EXCEPT !.carbon = Carbon("sent")] \in Row
    BY <2>1, RowTypes DEF Row
  <2>3. row' \in [Keys -> Row]
    BY <1>5, <2>2 DEF RunEnds, TypeOK
  <2>. QED
    BY <1>5, <2>3, RowsType DEF RunEnds, world, scripts, history, TypeOK
<1>. QED
  BY <1>1, <1>2, <1>3, <1>4, <1>5 DEF Arrives

(* The back-fill of locations and of intensities.                          *)
LEMMA BackfillType == ASSUME Parameters, TypeOK, TimesOK, Backfill PROVE TypeOK'
<1>1. CASE GeoTable
  BY <1>1, TablesInOrder DEF GeoTable, GeoMissing, TypeOK, world, history
<1>2. CASE GeoEnds
  BY <1>2 DEF GeoEnds, TypeOK, world, history
<1>3. ASSUME NEW key \in Keys, GeoFill(key) PROVE TypeOK'
  <2>1. [row[key] EXCEPT !.geo = TRUE] \in Row
    BY RowTypes DEF Row
  <2>2. row' \in [Keys -> Row]
    BY <1>3, <2>1 DEF GeoFill, TypeOK
  <2>. QED
    BY <1>3, <2>2 DEF GeoFill, TypeOK, world, history
<1>4. CASE IntensityTable
  <2>1. PICK table \in Behind(IntensityOrder, intensity.at) \cap IntensityTables :
          LET missing == IntensityMissing(table) IN
          LET known == {key \in missing : Near(key) # {}} IN
          /\ intensity' = [intensity EXCEPT !.at = table, !.todo = missing \ known,
                              !.since = IF intensity.at = "off" THEN now ELSE @]
          /\ row' = [key \in Keys |->
               IF key \in known THEN [row[key] EXCEPT !.intensity = Nearest(key)]
               ELSE row[key]]
          /\ UNCHANGED <<now, world, counted, readings, geo, copier, rebuild, batches,
                         rebuilds, history>>
    BY <1>4 DEF IntensityTable
  <2>2. ASSUME NEW key \in IntensityMissing(table), Near(key) # {}
        PROVE  [row[key] EXCEPT !.intensity = Nearest(key)] \in Row
    <3>1. key \in Keys /\ Exists(key)
      BY DEF IntensityMissing
    <3>2. Nearest(key) \in readings
      BY <2>2, <3>1, NearestIsNear DEF Near
    <3>3. Nearest(key) \in Intensities
      BY <3>2, RowTypes DEF TypeOK
    <3>. QED
      BY <3>1, <3>3, RowTypes DEF Row
  <2>3. row' \in [Keys -> Row]
    BY <2>1, <2>2, RowTypes
  <2>4. intensity' \in [at : {"off", "eco", "hog", "raw", "carbonEco", "carbonHog",
                              "carbonRaw"},
                       todo : SUBSET Keys, since : 0 .. MaxTime, cache : SUBSET Readings]
    BY <2>1, RowTypes DEF IntensityMissing, IntensityTables, TypeOK
  <2>. QED
    BY <2>1, <2>3, <2>4 DEF TypeOK, world, history
<1>5. ASSUME NEW key \in Keys, IntensityFill(key) PROVE TypeOK'
  <2>1. PICK r \in Readings :
          /\ readings' = readings \cup {r}
          /\ intensity' = [intensity EXCEPT !.todo = @ \ {key}, !.cache = @ \cup {r}]
          /\ row' = IF Exists(key) THEN [row EXCEPT ![key].intensity = r] ELSE row
    BY <1>5, FilledOnes
  <2>2. [row[key] EXCEPT !.intensity = r] \in Row
    BY <2>1, RowTypes DEF Row
  <2>3. row' \in [Keys -> Row]
    BY <2>1, <2>2 DEF TypeOK
  <2>4. readings' \subseteq Readings
    BY <2>1 DEF TypeOK
  <2>5. intensity' \in [at : {"off", "eco", "hog", "raw", "carbonEco", "carbonHog",
                              "carbonRaw"},
                       todo : SUBSET Keys, since : 0 .. MaxTime, cache : SUBSET Readings]
    BY <2>1 DEF TypeOK
  <2>. QED
    BY <1>5, <2>3, <2>4, <2>5 DEF IntensityFill, TypeOK, world, history
<1>6. CASE UpdateCarbon
  <2>1. PICK step \in {"carbonEco", "carbonHog", "carbonRaw"} :
          /\ intensity' = [at |-> step, todo |-> {}, since |-> 0, cache |-> {}]
          /\ row' = [key \in Keys |->
               IF key \in {k \in Keys :
                    Exists(k) /\ Table(k) = CarbonTable(step) /\ ToCompute(k)}
               THEN [row[key] EXCEPT !.carbon = Computed(key)] ELSE row[key]]
          /\ UNCHANGED <<now, world, counted, readings, geo, copier, rebuild, batches,
                         rebuilds, history>>
    BY <1>6 DEF UpdateCarbon
  <2>2. ASSUME NEW key \in Keys
        PROVE  [row[key] EXCEPT !.carbon = Computed(key)] \in Row
    <3>1. row[key] \in Row
      BY RowTypes
    <3>2. Computed(key) \in Carbons
      BY <3>1 DEF Computed, Carbons, Row
    <3>. QED
      BY <3>1, <3>2 DEF Row
  <2>3. row' \in [Keys -> Row]
    BY <2>1, <2>2, RowTypes
  <2>4. 0 \in 0 .. MaxTime
    BY BoundsAreNumbers
  <2>. QED
    BY <2>1, <2>3, <2>4 DEF TypeOK, world, history
<1>7. CASE IntensityEnds
  <2>1. 0 \in 0 .. MaxTime
    BY BoundsAreNumbers
  <2>. QED
    BY <1>7, <2>1 DEF IntensityEnds, TypeOK, world, history
<1>. QED
  BY <1>1, <1>2, <1>3, <1>4, <1>5, <1>6, <1>7 DEF Backfill

(* A script that is not running is at no place.                            *)
LEMMA OffType ==
  ASSUME TypeOK, Parameters
  PROVE  /\ Off \in [at : {"off"} \cup CopySteps, number : 0 .. batches]
         /\ Off \in [at : {"off", "delete", "eco", "run", "duplicates", "compress"},
                      number : 0 .. batches]
<1>1. 0 \in 0 .. batches
  BY BoundsAreNumbers DEF TypeOK
<1>. QED
  BY <1>1 DEF Off

(* The copy.                                                               *)
LEMMA CopyType == ASSUME Parameters, TypeOK, Copy PROVE TypeOK'
<1>1. CASE StartCopying
  <2>1. /\ row' \in [Keys -> Row]
        /\ blind' \subseteq Measurements /\ again' \subseteq Measurements
        /\ UNCHANGED <<now, kind, taken, counted, readings>>
    BY <1>1, CopyOverType DEF StartCopying
  <2>2. /\ batches \in 0 .. MaxBatches /\ batches < MaxBatches /\ batches' = batches + 1
        /\ copier' = [at |-> "run", number |-> batches + 1]
        /\ UNCHANGED <<geo, intensity, rebuild, rebuilds>>
    BY <1>1 DEF StartCopying, TypeOK
  <2>3. 0 .. batches \subseteq 0 .. batches' /\ batches' \in 0 .. MaxBatches
    BY <2>2, BoundsAreNumbers
  <2>4. copier' \in [at : {"off"} \cup CopySteps, number : 0 .. batches']
    BY <2>2, BoundsAreNumbers DEF CopySteps
  <2>. QED
    BY <2>1, <2>2, <2>3, <2>4 DEF TypeOK
<1>2. CASE CopyKind
  BY <1>2, CopyOverType DEF CopyKind, AfterCopying, TypeOK, CopySteps
<1>3. CASE CopierRemoves
  BY <1>3, RemoveType, OffType DEF CopierRemoves, TypeOK
<1>4. CASE CopierDies
  BY <1>4, OffType DEF CopierDies, TypeOK, world, history
<1>. QED
  BY <1>1, <1>2, <1>3, <1>4 DEF Copy

(* The rebuild.                                                            *)
LEMMA RebuildType == ASSUME Parameters, TypeOK, Rebuild PROVE TypeOK'
<1>1. CASE StartRebuild
  BY <1>1, BoundsAreNumbers DEF StartRebuild, TypeOK, world, history
<1>2. CASE RebuildDeletes
  <2>1. row' \in [Keys -> Row]
    BY <1>2, RowTypes DEF RebuildDeletes
  <2>. QED
    BY <1>2, <2>1 DEF RebuildDeletes, TypeOK, world
<1>3. CASE RebuildCopies
  BY <1>3, CopyOverType DEF RebuildCopies, TypeOK
<1>4. CASE RebuildRemoves
  BY <1>4, RemoveType DEF RebuildRemoves, TypeOK
<1>5. CASE RebuildCompresses
  BY <1>5, CompressType, OffType DEF RebuildCompresses, TypeOK
<1>6. CASE RebuildDies
  BY <1>6, OffType DEF RebuildDies, TypeOK, world, history
<1>. QED
  BY <1>1, <1>2, <1>3, <1>4, <1>5, <1>6 DEF Rebuild

(* So does every step.                                                     *)
LEMMA CarbonTypes == ASSUME Parameters, TypeOK, TimesOK, [Next]_vars PROVE TypeOK'
<1>1. CASE Tick
  <2>1. now' \in 0 .. MaxTime
    BY <1>1, RowTypes, BoundsAreNumbers DEF Tick
  <2>2. readings' \subseteq Readings
    BY <1>1 DEF Tick, TypeOK
  <2>3. intensity' \in [at : {"off", "eco", "hog", "raw", "carbonEco", "carbonHog",
                              "carbonRaw"},
                       todo : SUBSET Keys, since : 0 .. MaxTime, cache : SUBSET Readings]
    BY <1>1 DEF Tick, TypeOK
  <2>. QED
    BY <1>1, <2>1, <2>2, <2>3 DEF Tick, TypeOK, world, history
<1>2. CASE Compress
  BY <1>2, CompressType DEF Compress, TypeOK, scripts
<1>3. CASE UNCHANGED vars
  BY <1>3 DEF vars, TypeOK, world, scripts, history
<1>. QED
  BY <1>1, <1>2, <1>3, ArrivesType, BackfillType, CopyType, RebuildType DEF Next

-----------------------------------------------------------------------------
(* Rows and their copies                                                   *)

RowsOK == TimesOK /\ OriginsOK /\ CopiesAgree

(* Rows stay, and carbon that is known does.                               *)
Steady ==
  \A key \in Keys :
    /\ row'[key].created = row[key].created
    /\ row'[key] = NoRow <=> row[key] = NoRow
    /\ row[key].carbon # NoCarbon => row'[key].carbon = row[key].carbon

(* Some rows of the raw table are gone, the others are as they were.       *)
Thinned ==
  \A key \in Keys : row'[key] # row[key] => key[2] # -1 /\ row'[key] = NoRow

(* Where the rows of a measurement are.                                    *)
LEMMA KeysOf ==
  ASSUME Parameters, NEW m \in Measurements
  PROVE  /\ <<m, -1>> \in Keys /\ <<m, 0>> \in Keys
         /\ \A n \in 1 .. MaxBatches : <<m, n>> \in Keys
BY BoundsAreNumbers DEF Keys, Source

(* Filling in is no harm to the rows.                                      *)
LEMMA SteadyRows ==
  ASSUME Parameters, RowsOK, Steady, kind' = kind, blind' = blind, now' = now
  PROVE  RowsOK'
<1>1. TimesOK'
  BY DEF TimesOK, RowsOK, Steady, Exists
<1>2. OriginsOK'
  BY KeysOf, ZenonT(30) DEF OriginsOK, RowsOK, Steady, Exists
<1>3. CopiesAgree'
  BY KeysOf, ZenonT(30) DEF CopiesAgree, RowsOK, Steady, Exists
<1>. QED
  BY <1>1, <1>2, <1>3 DEF RowsOK

(* Nor is taking some of the raw rows away, if the measurements that are   *)
(* no longer blind have none left.                                         *)
LEMMA ThinnedRows ==
  ASSUME Parameters, RowsOK, Thinned, kind' = kind, now' = now,
         \A m \in Measurements : m \notin blind' /\ m \in blind =>
           \A n \in 1 .. MaxBatches : row'[<<m, n>>] = NoRow
  PROVE  RowsOK'
<1>1. TimesOK'
  BY DEF TimesOK, RowsOK, Thinned, Exists
<1>2. \A m \in Measurements : row'[<<m, -1>>] = row[<<m, -1>>]
  BY KeysOf DEF Thinned
<1>3. \A m \in Measurements : \A n \in 1 .. MaxBatches :
        row'[<<m, n>>] = row[<<m, n>>] \/ row'[<<m, n>>] = NoRow
  BY KeysOf DEF Thinned
<1>4. \A m \in Measurements : row'[<<m, 0>>] = row[<<m, 0>>] \/ row'[<<m, 0>>] = NoRow
  BY KeysOf DEF Thinned
<1>5. OriginsOK'
  BY <1>2, <1>3, <1>4 DEF OriginsOK, RowsOK, Exists
<1>6. CopiesAgree'
  BY <1>2, <1>3 DEF CopiesAgree, RowsOK, Exists
<1>. QED
  BY <1>1, <1>5, <1>6 DEF RowsOK

(* A row that comes in has no copies yet.                                  *)
LEMMA InsertRows ==
  ASSUME Parameters, TypeOK, RowsOK, NEW m \in Measurements, NEW n \in {-1, 0},
         ~ Arrived(m), kind[m] \in IF n = 0 THEN {"custom"} ELSE {"eco", "hog", "run"},
         NEW t, NEW located, NEW given, NEW carbon,
         Insert(<<m, n>>, t, located, given, carbon)
  PROVE  RowsOK'
<1>. DEFINE new == [created |-> now, geo |-> located, intensity |-> given, carbon |-> carbon]
<1>1. /\ row' = [row EXCEPT ![<<m, n>>] = new] /\ <<m, n>> \in Keys
      /\ UNCHANGED <<now, kind, blind>>
  BY KeysOf DEF Insert, history
<1>2. row \in [Keys -> Row] /\ now \in Nat
  BY RowTypes, BoundsAreNumbers DEF TypeOK
<1>3. new # NoRow /\ new.created = now
  BY <1>2 DEF NoRow
<1>4. \A key \in Keys : row'[key] = IF key = <<m, n>> THEN new ELSE row[key]
  BY <1>1, <1>2
<1>. HIDE DEF new
<1>5. TimesOK'
  BY <1>1, <1>2, <1>3, <1>4 DEF TimesOK, RowsOK, Exists
<1>6. /\ n = -1 => ~ Exists(<<m, -1>>)
      /\ \A l \in Measurements : \A k \in 1 .. MaxBatches :
           row'[<<l, k>>] = row[<<l, k>>] /\ (l = m => n = 0 \/ row[<<l, k>>] = NoRow)
  <2>1. n = -1 => ~ Exists(<<m, -1>>)
    BY DEF Arrived, Source
  <2>2. ASSUME NEW l \in Measurements, NEW k \in 1 .. MaxBatches
        PROVE  row'[<<l, k>>] = row[<<l, k>>]
    <3>0. k # n
      BY BoundsAreNumbers
    <3>1. <<l, k>> \in Keys
      BY KeysOf
    <3>2. <<l, k>> # <<m, n>>
      BY <3>0
    <3>. QED
      BY <1>4, <3>1, <3>2
  <2>. QED
    BY <2>1, <2>2 DEF OriginsOK, RowsOK, Exists
<1>7. \A l \in Measurements :
        /\ row'[<<l, -1>>] = IF l = m /\ n = -1 THEN new ELSE row[<<l, -1>>]
        /\ row'[<<l, 0>>] = IF l = m /\ n = 0 THEN new ELSE row[<<l, 0>>]
  BY <1>4, KeysOf
<1>8. OriginsOK'
  <2>. SUFFICES ASSUME NEW l \in Measurements
                PROVE  /\ row'[<<l, -1>>] # NoRow => kind[l] \in {"eco", "hog", "run"}
                       /\ row'[<<l, 0>>] # NoRow => kind[l] = "custom"
                       /\ \A k \in 1 .. MaxBatches :
                            row'[<<l, k>>] # NoRow => row'[<<l, -1>>] # NoRow
    BY <1>1 DEF OriginsOK, Exists
  <2>. QED
    BY <1>3, <1>6, <1>7 DEF OriginsOK, RowsOK, Exists
<1>9. CopiesAgree'
  <2>. SUFFICES ASSUME NEW l \in Measurements \ blind, NEW k \in 1 .. MaxBatches,
                       row'[<<l, k>>] # NoRow
                PROVE  /\ row'[<<l, -1>>].carbon # NoCarbon
                       /\ row'[<<l, k>>].carbon = row'[<<l, -1>>].carbon
    BY <1>1 DEF CopiesAgree, Exists
  <2>1. row'[<<l, k>>] = row[<<l, k>>] /\ ~ (l = m /\ n = -1)
    BY <1>6
  <2>2. row'[<<l, -1>>] = row[<<l, -1>>]
    BY <1>7, <2>1
  <2>. QED
    BY <2>1, <2>2 DEF CopiesAgree, RowsOK, Exists
<1>. QED
  BY <1>5, <1>8, <1>9 DEF RowsOK

(* A copy is equal to its source, or taken blindly.                        *)
LEMMA CopyOverRows ==
  ASSUME Parameters, TypeOK, RowsOK, NEW of \in {"eco", "hog", "run"},
         NEW number \in 1 .. MaxBatches, NEW all \in BOOLEAN, CopyOver(of, number, all)
  PROVE  RowsOK'
<1>. DEFINE New == ToCopy(of, all)
<1>1. /\ UNCHANGED <<now, kind>> /\ blind \subseteq blind'
      /\ New \subseteq Measurements
      /\ \A m \in New : Exists(<<m, -1>>)
                        /\ (row[<<m, -1>>].carbon = NoCarbon => m \in blind')
  BY DEF CopyOver, ToCopy, world, Source
<1>2. \A key \in Keys :
        row'[key] = IF key[2] = number /\ key[1] \in New THEN Copied(key[1]) ELSE row[key]
  BY DEF CopyOver
<1>3. now \in Nat /\ \A m \in Measurements : row[<<m, -1>>] \in Row
  <2>1. now \in Nat
    BY RowTypes, BoundsAreNumbers
  <2>. QED
    BY <2>1, RowTypes, KeysOf
<1>4. \A m \in New :
        /\ Copied(m).created = now
        /\ row[<<m, -1>>].carbon # NoCarbon =>
             Copied(m).carbon = row[<<m, -1>>].carbon
  BY <1>1, <1>3 DEF Copied, Row, Source
<1>. HIDE DEF New
<1>5. TimesOK'
  <2>. SUFFICES ASSUME NEW key \in Keys, row'[key] # NoRow
                PROVE  row'[key].created \in 0 .. now
    BY <1>1 DEF TimesOK, Exists
  <2>1. CASE key[2] = number /\ key[1] \in New
    <3>1. row'[key].created = now
      BY <1>2, <1>4, <2>1
    <3>. QED
      BY <1>3, <3>1
  <2>2. CASE ~ (key[2] = number /\ key[1] \in New)
    BY <1>2, <2>2 DEF TimesOK, RowsOK, Exists
  <2>. QED
    BY <2>1, <2>2
<1>6. \A m \in Measurements :
        row'[<<m, -1>>] = row[<<m, -1>>] /\ row'[<<m, 0>>] = row[<<m, 0>>]
  <2>1. number # -1 /\ number # 0
    BY BoundsAreNumbers
  <2>. QED
    BY <1>2, <2>1, KeysOf
<1>7. \A m \in Measurements : \A n \in 1 .. MaxBatches :
        row'[<<m, n>>] = IF n = number /\ m \in New THEN Copied(m) ELSE row[<<m, n>>]
  BY <1>2, KeysOf
<1>8. OriginsOK'
  BY <1>1, <1>6, <1>7 DEF OriginsOK, RowsOK, Exists
<1>9. CopiesAgree'
  <2>. SUFFICES ASSUME NEW m \in Measurements \ blind', NEW n \in 1 .. MaxBatches,
                       row'[<<m, n>>] # NoRow
                PROVE  /\ row'[<<m, -1>>].carbon # NoCarbon
                       /\ row'[<<m, n>>].carbon = row'[<<m, -1>>].carbon
    BY DEF CopiesAgree, Exists
  <2>1. CASE n = number /\ m \in New
    BY <1>1, <1>4, <1>6, <1>7, <2>1
  <2>2. CASE ~ (n = number /\ m \in New)
    BY <1>1, <1>6, <1>7, <2>2 DEF CopiesAgree, RowsOK, Exists
  <2>. QED
    BY <2>1, <2>2
<1>. QED
  BY <1>5, <1>8, <1>9 DEF RowsOK

(* Duplicates are raw rows.                                                *)
LEMMA RemoveRows == ASSUME Parameters, RowsOK, RemoveDuplicates PROVE RowsOK'
<1>1. Thinned
  BY DEF RemoveDuplicates, Thinned, RawKeys, Added
<1>. QED
  BY <1>1, ThinnedRows DEF RemoveDuplicates, world

(* The back-fill fills in, and the end of a run too.                       *)
LEMMA BackfillIsSteady ==
  ASSUME Parameters, TypeOK, TimesOK, Backfill
  PROVE  Steady /\ UNCHANGED <<kind, taken, counted, now, blind, again>>
<1>0. row \in [Keys -> Row] /\ \A key \in Keys : row[key] \in Row
  BY DEF TypeOK
<1>1. UNCHANGED <<kind, taken, counted, now, blind, again>>
  BY DEF Backfill, GeoTable, GeoEnds, GeoFill, IntensityTable, IntensityFill,
     UpdateCarbon, IntensityEnds, world, history
<1>2. CASE GeoTable \/ GeoEnds \/ IntensityEnds
  <2>1. row' = row
    BY <1>2 DEF GeoTable, GeoEnds, IntensityEnds
  <2>. QED
    BY <1>1, <2>1 DEF Steady
<1>3. ASSUME NEW key \in Keys, GeoFill(key) \/ IntensityFill(key) PROVE Steady
  <2>1. CASE ~ Exists(key)
    BY <1>3, <2>1 DEF Steady, GeoFill, IntensityFill
  <2>2. CASE Exists(key)
    <3>1. row[key].created # -1
      BY <2>2, RowTypes, BoundsAreNumbers DEF TimesOK
    <3>2. \/ row' = [row EXCEPT ![key].geo = TRUE]
          \/ \E r : row' = [row EXCEPT ![key].intensity = r]
      BY <1>3, <2>2 DEF GeoFill, IntensityFill
    <3>3. /\ \A k \in Keys : k # key => row'[k] = row[k]
          /\ \/ row'[key] = [row[key] EXCEPT !.geo = TRUE]
             \/ \E r : row'[key] = [row[key] EXCEPT !.intensity = r]
      BY <1>0, <3>2
    <3>4. /\ row'[key].created = row[key].created /\ row'[key].carbon = row[key].carbon
          /\ row'[key] # NoRow
      <4>1. row[key] \in Row
        BY <1>0
      <4>2. row'[key].created = row[key].created /\ row'[key].carbon = row[key].carbon
        <5>1. CASE row'[key] = [row[key] EXCEPT !.geo = TRUE]
          BY <4>1, <5>1 DEF Row
        <5>2. ASSUME NEW r, row'[key] = [row[key] EXCEPT !.intensity = r]
              PROVE  row'[key].created = row[key].created
                     /\ row'[key].carbon = row[key].carbon
          BY <4>1, <5>2 DEF Row
        <5>. QED
          BY <3>3, <5>1, <5>2
      <4>3. NoRow.created = -1
        BY DEF NoRow
      <4>. QED
        BY <3>1, <4>2, <4>3
    <3>. QED
      BY <2>2, <3>3, <3>4 DEF Steady, Exists
  <2>. QED
    BY <2>1, <2>2
<1>4. ASSUME NEW S, S \subseteq Keys, \A key \in S : Exists(key),
             \A key \in Keys : key \notin S => row'[key] = row[key],
             \A key \in S :
               /\ row'[key].created = row[key].created
               /\ row[key].carbon = NoCarbon \/ row'[key].carbon = row[key].carbon
      PROVE  Steady
  <2>1. \A key \in S : row[key].created # -1
    BY <1>4, RowTypes, BoundsAreNumbers DEF TimesOK
  <2>2. \A key \in S : row'[key] # NoRow
    BY <1>4, <2>1 DEF NoRow
  <2>. QED
    BY <1>4, <2>2 DEF Steady, Exists
<1>5. CASE IntensityTable
  <2>1. PICK table \in Behind(IntensityOrder, intensity.at) \cap IntensityTables :
          row' = [key \in Keys |->
            IF key \in {k \in IntensityMissing(table) : Near(k) # {}}
            THEN [row[key] EXCEPT !.intensity = Nearest(key)] ELSE row[key]]
    BY <1>5 DEF IntensityTable
  <2>. DEFINE S == {k \in IntensityMissing(table) : Near(k) # {}}
  <2>2. S \subseteq Keys /\ \A key \in S : Exists(key)
    BY DEF IntensityMissing
  <2>. HIDE DEF S
  <2>3. \A key \in S : row'[key].created = row[key].created
                       /\ row'[key].carbon = row[key].carbon
    BY <1>0, <2>1, <2>2 DEF Row, S
  <2>4. \A key \in Keys : key \notin S => row'[key] = row[key]
    BY <2>1 DEF S
  <2>. QED
    BY <1>1, <1>4, <2>2, <2>3, <2>4
<1>6. CASE UpdateCarbon
  <2>1. PICK step \in {"carbonEco", "carbonHog", "carbonRaw"} :
          row' = [key \in Keys |->
            IF key \in {k \in Keys :
                 Exists(k) /\ Table(k) = CarbonTable(step) /\ ToCompute(k)}
            THEN [row[key] EXCEPT !.carbon = Computed(key)] ELSE row[key]]
    BY <1>6 DEF UpdateCarbon
  <2>. DEFINE S == {k \in Keys :
                 Exists(k) /\ Table(k) = CarbonTable(step) /\ ToCompute(k)}
  <2>2. /\ S \subseteq Keys
        /\ \A key \in S : Exists(key) /\ row[key].carbon = NoCarbon
    BY DEF ToCompute
  <2>. HIDE DEF S
  <2>3. \A key \in S : row'[key].created = row[key].created
    BY <1>0, <2>1, <2>2 DEF Row, S
  <2>4. \A key \in Keys : key \notin S => row'[key] = row[key]
    BY <2>1 DEF S
  <2>. QED
    BY <1>1, <1>4, <2>2, <2>3, <2>4
<1>. QED
  BY <1>1, <1>2, <1>3, <1>5, <1>6 DEF Backfill

(* So does the end of a run.                                               *)
LEMMA RunEndIsSteady ==
  ASSUME Parameters, TypeOK, TimesOK, NEW m \in Measurements, RunEnds(m)
  PROVE  Steady /\ UNCHANGED <<kind, taken, counted, now, blind, again>>
<1>1. /\ Exists(<<m, -1>>) \/ kind[m] = "custom"
      /\ kind[m] = "run" /\ row[<<m, -1>>].carbon = NoCarbon
      /\ row' = [row EXCEPT ![<<m, -1>>].carbon = Carbon("sent")]
      /\ UNCHANGED <<kind, taken, counted, now, blind, again>>
  BY DEF RunEnds, Arrived, Source, world, history
<1>2. Exists(<<m, -1>>) /\ <<m, -1>> \in Keys /\ row \in [Keys -> Row]
  BY <1>1, KeysOf DEF TypeOK
<1>3. row[<<m, -1>>].created # -1
  BY <1>2, RowTypes, BoundsAreNumbers DEF TimesOK
<1>4. \A key \in Keys :
        /\ key # <<m, -1>> => row'[key] = row[key]
        /\ key = <<m, -1>> => row'[key] = [row[key] EXCEPT !.carbon = Carbon("sent")]
  BY <1>1, <1>2
<1>5. row'[<<m, -1>>].created = row[<<m, -1>>].created
  BY <1>2, <1>4 DEF Row
<1>6. row'[<<m, -1>>] # NoRow
  BY <1>3, <1>5 DEF NoRow
<1>7. Steady
  BY <1>1, <1>2, <1>4, <1>5, <1>6 DEF Steady, Exists
<1>. QED
  BY <1>1, <1>7

(* Arrivals and the end of a run.                                          *)
LEMMA ArrivesRows == ASSUME Parameters, TypeOK, RowsOK, Arrives PROVE RowsOK'
<1>0. ASSUME NEW m \in Measurements, ~ Arrived(m), kind[m] \in {"eco", "hog", "run"},
             NEW t, NEW located, NEW given, NEW carbon,
             Insert(<<m, -1>>, t, located, given, carbon)
      PROVE  RowsOK'
  <2>1. -1 \in {-1, 0} /\ -1 # 0
    OBVIOUS
  <2>. QED
    BY <1>0, <2>1, InsertRows
<1>1. ASSUME NEW m \in Measurements, EcoArrives(m) PROVE RowsOK'
  BY <1>0, <1>1 DEF EcoArrives, Source
<1>2. ASSUME NEW m \in Measurements, HogArrives(m) PROVE RowsOK'
  BY <1>0, <1>2 DEF HogArrives, Source
<1>3. ASSUME NEW m \in Measurements, CustomArrives(m) PROVE RowsOK'
  BY <1>3, InsertRows DEF CustomArrives, Added
<1>4. ASSUME NEW m \in Measurements, RunStarts(m) PROVE RowsOK'
  BY <1>0, <1>4 DEF RunStarts, Source
<1>5. ASSUME NEW m \in Measurements, RunEnds(m) PROVE RowsOK'
  BY <1>5, RunEndIsSteady, SteadyRows DEF RowsOK
<1>. QED
  BY <1>1, <1>2, <1>3, <1>4, <1>5 DEF Arrives

(* The scripts that copy.                                                  *)
LEMMA CopyRows ==
  ASSUME Parameters, TypeOK, RowsOK, NumbersOK, Copy \/ Rebuild
  PROVE  RowsOK'
<1>0. batches \in 0 .. MaxBatches /\ MaxBatches \in Nat
  BY BoundsAreNumbers DEF TypeOK
<1>1. CASE StartCopying
  <2>1. batches + 1 \in 1 .. MaxBatches
    BY <1>0, <1>1 DEF StartCopying
  <2>. QED
    BY <1>1, <2>1, CopyOverRows DEF StartCopying
<1>2. CASE CopyKind
  <2>1. copier.number \in 0 .. batches /\ copier.number > 0
    BY <1>2 DEF CopyKind, NumbersOK, TypeOK
  <2>2. copier.number \in 1 .. MaxBatches
    BY <1>0, <2>1
  <2>. QED
    BY <1>2, <2>2, CopyOverRows DEF CopyKind
<1>3. CASE RebuildCopies
  <2>1. rebuild.number \in 0 .. batches /\ rebuild.number > 0
    BY <1>3 DEF RebuildCopies, NumbersOK, TypeOK
  <2>2. rebuild.number \in 1 .. MaxBatches
    BY <1>0, <2>1
  <2>. QED
    BY <1>3, <2>2, CopyOverRows DEF RebuildCopies
<1>4. CASE CopierRemoves \/ RebuildRemoves
  BY <1>4, RemoveRows DEF CopierRemoves, RebuildRemoves
<1>5. CASE RebuildDeletes
  <2>1. Thinned /\ UNCHANGED <<kind, now>>
    BY <1>5 DEF RebuildDeletes, Thinned, RawKeys, Added, world
  <2>2. ASSUME NEW m \in Measurements, m \notin blind', m \in blind, NEW n \in 1 .. MaxBatches
        PROVE  row'[<<m, n>>] = NoRow
    <3>1. m \in Rebuilt
      BY <1>5, <2>2 DEF RebuildDeletes
    <3>2. <<m, n>> \in RawKeys
      BY <1>0 DEF RawKeys, Added
    <3>3. <<m, n>> \in Keys
      BY KeysOf
    <3>. QED
      BY <1>5, <3>1, <3>2, <3>3 DEF RebuildDeletes
  <2>. QED
    BY <2>1, <2>2, ThinnedRows
<1>6. CASE CopierDies \/ StartRebuild \/ RebuildCompresses \/ RebuildDies
  <2>1. UNCHANGED <<row, kind, now, blind>>
    BY <1>6 DEF CopierDies, StartRebuild, RebuildCompresses, RebuildDies,
         CompressRaw, world, history
  <2>. QED
    BY <2>1, SteadyRows DEF Steady
<1>. QED
  BY <1>1, <1>2, <1>3, <1>4, <1>5, <1>6 DEF Copy, Rebuild

(* Every step keeps the rows in order.                                     *)
LEMMA CarbonRows ==
  ASSUME Parameters, TypeOK, RowsOK, NumbersOK, [Next]_vars
  PROVE  RowsOK'
<1>1. CASE Tick
  <2>1. now' = now + 1 /\ now \in Nat
    BY <1>1, RowTypes, BoundsAreNumbers DEF Tick
  <2>2. UNCHANGED <<row, kind, blind>>
    BY <1>1 DEF Tick, world, history
  <2>3. TimesOK'
    BY <2>1, <2>2 DEF RowsOK, TimesOK, Exists
  <2>. QED
    BY <2>2, <2>3 DEF RowsOK, OriginsOK, CopiesAgree, Exists
<1>2. CASE Compress \/ UNCHANGED vars
  <2>1. UNCHANGED <<row, kind, now, blind>>
    BY <1>2 DEF Compress, CompressRaw, vars, world, history
  <2>. QED
    BY <2>1, SteadyRows DEF Steady
<1>3. CASE Backfill
  <2>1. Steady /\ UNCHANGED <<kind, blind, now>>
    BY <1>3, BackfillIsSteady DEF RowsOK
  <2>. QED
    BY <2>1, SteadyRows
<1>. QED
  BY <1>1, <1>2, <1>3, ArrivesRows, CopyRows DEF Next

(* Scripts get their number when they start.                               *)
LEMMA CarbonNumbers ==
  ASSUME Parameters, TypeOK, NumbersOK, [Next]_vars
  PROVE  NumbersOK'
<1>0. batches \in Nat /\ copier.number \in Int /\ rebuild.number \in Int
  BY BoundsAreNumbers DEF TypeOK
<1>1. CASE Arrives \/ Backfill \/ Tick \/ Compress \/ UNCHANGED vars
  <2>1. UNCHANGED <<copier, rebuild>>
    BY <1>1 DEF Arrives, EcoArrives, HogArrives, CustomArrives, RunStarts, RunEnds,
         Insert, Backfill, GeoTable, GeoEnds, GeoFill, IntensityTable,
         UpdateCarbon, IntensityEnds, IntensityFill, Tick, Compress, vars, scripts
  <2>. QED
    BY <2>1 DEF NumbersOK
<1>2. CASE Copy
  <2>1. rebuild' = rebuild
    BY <1>2 DEF Copy, StartCopying, CopyKind, CopierRemoves, CopierDies
  <2>2. \/ copier' = [at |-> "run", number |-> batches + 1]
        \/ copier.at # "off" /\ \E to : copier' = [copier EXCEPT !.at = to]
        \/ copier' = Off
    BY <1>2 DEF Copy, StartCopying, CopyKind, CopierRemoves, CopierDies
  <2>3. copier'.at # "off" => copier'.number > 0
    BY <1>0, <2>2 DEF NumbersOK, TypeOK, Off
  <2>. QED
    BY <2>1, <2>3 DEF NumbersOK
<1>3. CASE Rebuild
  <2>1. copier' = copier
    BY <1>3 DEF Rebuild, StartRebuild, RebuildDeletes, RebuildCopies, RebuildRemoves,
         RebuildCompresses, RebuildDies
  <2>2. \/ rebuild' = [at |-> "delete", number |-> batches + 1]
        \/ rebuild.at # "off" /\ \E to : rebuild' = [rebuild EXCEPT !.at = to]
        \/ rebuild' = Off
    BY <1>3 DEF Rebuild, StartRebuild, RebuildDeletes, RebuildCopies, RebuildRemoves,
         RebuildCompresses, RebuildDies
  <2>3. rebuild'.at # "off" => rebuild'.number > 0
    BY <1>0, <2>2 DEF NumbersOK, TypeOK, Off
  <2>. QED
    BY <2>1, <2>3 DEF NumbersOK
<1>. QED
  BY <1>1, <1>2, <1>3 DEF Next

-----------------------------------------------------------------------------
(* Intensities                                                             *)

(* What was not read is no reading.                                        *)
LEMMA NoReadings ==
  /\ Unknown \notin Readings /\ Sent \notin Readings
  /\ NoRow.intensity = Unknown /\ NoRow.carbon = NoCarbon
  /\ \A by : Carbon(by).of = Unknown
  /\ NoCarbon.of = Unknown
BY DEF Unknown, Sent, Readings, NoRow, NoCarbon, Carbon

(* Carbon that is taken over from an intensity, or was not computed, is    *)
(* of a reading that suits the row.                                        *)
SuitedAt(key) ==
  /\ Suits(key, row[key].carbon.of, row[key].created, row[<<key[1], -1>>].created, blind)
  /\ row[key].carbon = NoCarbon =>
       Suits(key, row[key].intensity, row[key].created, row[<<key[1], -1>>].created, blind)

(* What suits the row suits it while the row stays as it is.               *)
LEMMA StaysSuited ==
  ASSUME NEW key \in Keys, SuitedAt(key), row'[key] = row[key],
         key[2] > 0 => row'[<<key[1], -1>>].created = row[<<key[1], -1>>].created,
         key[2] > 0 /\ key[1] \in blind => key[1] \in blind'
  PROVE  SuitedAt(key)'
BY DEF SuitedAt, Suits

(* Rows that are not there have no reading.                                *)
LEMMA NoneSuits ==
  ASSUME NEW key \in Keys, row'[key] = NoRow
  PROVE  SuitedAt(key)'
BY NoReadings DEF SuitedAt, Suits

(* Nor have rows that were filled with something else.                     *)
LEMMA OthersSuit ==
  ASSUME NEW key \in Keys, row'[key].carbon.of \notin Readings,
         row'[key].intensity \notin Readings
  PROVE  SuitedAt(key)'
BY DEF SuitedAt, Suits

(* The rows to be filled stay young; those that come are.                  *)
LEMMA FetchedStays ==
  ASSUME Parameters, TypeOK, TimesOK, FetchedOK, now' = now, intensity' = intensity,
         \A key \in Keys : row'[key] # NoRow =>
           \/ row'[key].created = now
           \/ Exists(key) /\ row'[key].created = row[key].created
  PROVE  FetchedOK'
<1>1. /\ now \in Nat /\ BackfillWindow \in Nat \ {0} /\ intensity.since \in Nat
      /\ intensity.todo \subseteq Keys
  BY RowTypes, BoundsAreNumbers DEF TypeOK
<1>2. ASSUME NEW key \in intensity.todo, row'[key] # NoRow
      PROVE  row'[key].created > intensity.since - BackfillWindow
  <2>1. intensity.since <= now
    BY DEF FetchedOK
  <2>2. CASE row'[key].created = now
    BY <1>1, <2>1, <2>2
  <2>3. CASE Exists(key) /\ row'[key].created = row[key].created
    BY <2>3 DEF FetchedOK
  <2>. QED
    BY <1>1, <1>2, <2>2, <2>3
<1>. QED
  BY <1>2 DEF FetchedOK, Exists

IntensityOK == FetchedOK /\ \A key \in Keys : SuitedAt(key)

(* Rows that stay but for their place stay suited.                         *)
LEMMA SameIntensity ==
  ASSUME Parameters, TypeOK, TimesOK, IntensityOK, now' = now, intensity' = intensity,
         row' = row, blind' = blind
  PROVE  IntensityOK'
<1>1. FetchedOK'
  BY FetchedStays DEF IntensityOK, Exists
<1>2. \A key \in Keys : SuitedAt(key)'
  BY DEF IntensityOK, SuitedAt
<1>. QED
  BY <1>1, <1>2 DEF IntensityOK

(* A row that comes in has no reading, and its measurement no copies.      *)
LEMMA InsertIntensity ==
  ASSUME Parameters, TypeOK, TimesOK, OriginsOK, IntensityOK, NEW m \in Measurements,
         NEW n \in {-1, 0}, ~ Arrived(m),
         kind[m] \in IF n = 0 THEN {"custom"} ELSE {"eco", "hog", "run"},
         NEW t, NEW located, NEW given \in {Unknown, Sent}, NEW carbon,
         carbon.of = Unknown, Insert(<<m, n>>, t, located, given, carbon)
  PROVE  IntensityOK'
<1>. DEFINE new == [created |-> now, geo |-> located, intensity |-> given, carbon |-> carbon]
<1>1. /\ row' = [row EXCEPT ![<<m, n>>] = new] /\ row \in [Keys -> Row]
      /\ <<m, n>> \in Keys /\ UNCHANGED <<now, intensity, blind>>
  BY KeysOf DEF Insert, TypeOK, scripts, history
<1>2. new.intensity \notin Readings /\ new.carbon.of \notin Readings /\ new.created = now
  BY NoReadings
<1>. HIDE DEF new
<1>3. \A key \in Keys : row'[key] = IF key = <<m, n>> THEN new ELSE row[key]
  BY <1>1
<1>4. FetchedOK'
  BY <1>1, <1>2, <1>3, FetchedStays DEF IntensityOK, Exists
<1>5. ASSUME NEW key \in Keys, key[1] = m PROVE key = <<m, n>> \/ row[key] = NoRow
  <2>1. key = <<m, key[2]>> /\ key[2] \in -1 .. MaxBatches
    BY <1>5, KeyParts
  <2>2. ~ Exists(<<m, -1>>) /\ (kind[m] = "custom" => ~ Exists(<<m, 0>>))
    BY DEF Arrived, Source, Added
  <2>3. \A k \in 1 .. MaxBatches : ~ Exists(<<m, k>>)
    BY <2>2 DEF OriginsOK
  <2>4. ~ Exists(<<m, 0>>)
    BY <2>2 DEF OriginsOK
  <2>5. key[2] = -1 \/ key[2] = 0 \/ key[2] \in 1 .. MaxBatches
    BY <2>1, BoundsAreNumbers
  <2>. QED
    BY <2>1, <2>2, <2>3, <2>4, <2>5 DEF Exists
<1>6. ASSUME NEW key \in Keys PROVE SuitedAt(key)'
  <2>1. CASE key = <<m, n>>
    BY <1>2, <1>3, <2>1, OthersSuit
  <2>2. CASE key # <<m, n>> /\ key[1] = m
    BY <1>3, <1>5, <2>2, NoneSuits
  <2>3. CASE key[1] # m
    <3>1. <<key[1], -1>> \in Keys /\ <<key[1], -1>> # <<m, n>> /\ key # <<m, n>>
      BY <2>3, KeyParts, KeysOf
    <3>2. row'[<<key[1], -1>>] = row[<<key[1], -1>>] /\ row'[key] = row[key]
      BY <1>3, <3>1
    <3>. QED
      BY <1>1, <3>2, StaysSuited DEF IntensityOK
  <2>. QED
    BY <2>1, <2>2, <2>3
<1>. QED
  BY <1>4, <1>6 DEF IntensityOK

(* Arrivals.                                                               *)
LEMMA ArrivesIntensity ==
  ASSUME Parameters, TypeOK, TimesOK, OriginsOK, IntensityOK, Arrives PROVE IntensityOK'
<1>0. /\ \A form : Given(form) \in {Unknown, Sent}
      /\ Carbon("sent").of = Unknown /\ NoCarbon.of = Unknown
      /\ -1 \in {-1, 0} /\ 0 \in {-1, 0} /\ 0 # -1 /\ Unknown \in {Unknown, Sent}
  BY NoReadings DEF Given
<1>00. ASSUME NEW m \in Measurements, ~ Arrived(m), kind[m] \in {"eco", "hog", "run"},
              NEW t, NEW located, NEW given \in {Unknown, Sent}, NEW carbon,
              carbon.of = Unknown, Insert(<<m, -1>>, t, located, given, carbon)
       PROVE  IntensityOK'
  <2>1. kind[m] \in IF -1 = 0 THEN {"custom"} ELSE {"eco", "hog", "run"}
    BY <1>0, <1>00
  <2>. QED
    BY <1>0, <1>00, <2>1, InsertIntensity
<1>1. ASSUME NEW m \in Measurements, EcoArrives(m) PROVE IntensityOK'
  <2>1. PICK form \in Forms["eco"] :
          Insert(<<m, -1>>, now, form.geo, Given(form),
                   IF form.carbon THEN Carbon("sent") ELSE NoCarbon)
    BY <1>1 DEF EcoArrives, Source
  <2>2. PICK carbon : Insert(<<m, -1>>, now, form.geo, Given(form), carbon)
                      /\ carbon.of = Unknown
    BY <1>0, <2>1
  <2>3. ~ Arrived(m) /\ kind[m] = "eco"
    BY <1>1 DEF EcoArrives
  <2>. QED
    BY <1>0, <1>00, <2>2, <2>3
<1>2. ASSUME NEW m \in Measurements, HogArrives(m) PROVE IntensityOK'
  <2>1. PICK t \in (now - MaxLateness) .. now, form \in Forms["hog"] :
          Insert(<<m, -1>>, t, FALSE, Given(form), Carbon("sent"))
    BY <1>2 DEF HogArrives, Source
  <2>2. ~ Arrived(m) /\ kind[m] = "hog"
    BY <1>2 DEF HogArrives
  <2>. QED
    BY <1>0, <1>00, <2>1, <2>2
<1>3. ASSUME NEW m \in Measurements, CustomArrives(m) PROVE IntensityOK'
  <2>1. PICK t \in (now - MaxLateness) .. now, form \in Forms["custom"] :
          Insert(<<m, 0>>, t, FALSE, Given(form),
                   IF form.intensity THEN Carbon("sent") ELSE NoCarbon)
    BY <1>3 DEF CustomArrives, Added
  <2>2. PICK carbon : Insert(<<m, 0>>, t, FALSE, Given(form), carbon)
                      /\ carbon.of = Unknown
    BY <1>0, <2>1
  <2>3. ~ Arrived(m) /\ kind[m] = "custom"
    BY <1>3 DEF CustomArrives
  <2>. QED
    BY <1>0, <2>2, <2>3, InsertIntensity
<1>4. ASSUME NEW m \in Measurements, RunStarts(m) PROVE IntensityOK'
  <2>1. Insert(<<m, -1>>, now, FALSE, Unknown, NoCarbon)
    BY <1>4 DEF RunStarts, Source
  <2>2. ~ Arrived(m) /\ kind[m] = "run"
    BY <1>4 DEF RunStarts
  <2>. QED
    BY <1>0, <1>00, <2>1, <2>2
<1>5. ASSUME NEW m \in Measurements, RunEnds(m) PROVE IntensityOK'
  <2>1. /\ row' = [row EXCEPT ![<<m, -1>>].carbon = Carbon("sent")]
        /\ row \in [Keys -> Row] /\ <<m, -1>> \in Keys
        /\ UNCHANGED <<now, intensity, blind>>
    BY <1>5, KeysOf DEF RunEnds, Source, world, scripts, history, TypeOK
  <2>2. /\ \A key \in Keys : key # <<m, -1>> => row'[key] = row[key]
        /\ row'[<<m, -1>>] = [row[<<m, -1>>] EXCEPT !.carbon = Carbon("sent")]
    BY <2>1
  <2>3. /\ row'[<<m, -1>>].created = row[<<m, -1>>].created
        /\ row'[<<m, -1>>].carbon = Carbon("sent")
    BY <2>1, <2>2 DEF Row
  <2>4. Steady
    BY <1>5, RunEndIsSteady
  <2>5. FetchedOK'
    BY <2>1, <2>4, FetchedStays DEF IntensityOK, Steady, Exists
  <2>6. ASSUME NEW key \in Keys PROVE SuitedAt(key)'
    <3>1. row'[<<key[1], -1>>].created = row[<<key[1], -1>>].created
      BY <2>4, KeyParts, KeysOf DEF Steady
    <3>2. CASE key # <<m, -1>>
      BY <2>1, <2>2, <3>1, <3>2, StaysSuited DEF IntensityOK
    <3>3. CASE key = <<m, -1>>
      <4>1. Carbon("sent") # NoCarbon
        BY DEF NoCarbon, Carbon
      <4>. QED
        BY <1>0, <2>3, <3>3, <4>1, NoReadings DEF SuitedAt, Suits
    <3>. QED
      BY <3>2, <3>3
  <2>. QED
    BY <2>5, <2>6 DEF IntensityOK
<1>. QED
  BY <1>1, <1>2, <1>3, <1>4, <1>5 DEF Arrives

(* A row is filled with a reading of its place and of around its creation. *)
LEMMA FilledSuits ==
  ASSUME Parameters, TypeOK, CopiesAgree, IntensityOK, Steady, blind' = blind,
         NEW key \in Keys, Exists(key), NEW r \in Readings,
         row'[key] = [row[key] EXCEPT !.intensity = r],
         r.place = Place[key[1]], Distance(r.at, row[key].created) < Accuracy
  PROVE  SuitedAt(key)'
<1>1. /\ key = <<key[1], key[2]>> /\ key[1] \in Measurements /\ key[2] \in -1 .. MaxBatches
      /\ <<key[1], -1>> \in Keys
  BY KeyParts, KeysOf
<1>2. /\ row'[key].carbon = row[key].carbon /\ row'[key].intensity = r
      /\ row'[key].created = row[key].created
      /\ row'[<<key[1], -1>>].created = row[<<key[1], -1>>].created
  <2>1. row[key] \in Row
    BY RowTypes
  <2>. QED
    BY <1>1, <2>1 DEF Row, Steady
<1>3. ASSUME row[key].carbon = NoCarbon, key[2] > 0 PROVE key[1] \in blind
  <2>1. key[2] \in 1 .. MaxBatches
    BY <1>1, <1>3, BoundsAreNumbers
  <2>2. Exists(<<key[1], key[2]>>) /\ row[<<key[1], key[2]>>].carbon = NoCarbon
    BY <1>1, <1>3
  <2>. QED
    BY <1>1, <2>1, <2>2 DEF CopiesAgree
<1>4. SuitedAt(key)
  BY DEF IntensityOK
<1>. QED
  BY <1>2, <1>3, <1>4 DEF SuitedAt, Suits

(* Behind the tables no more rows are fetched.                             *)
LEMMA NoTableBehind ==
  ASSUME NEW at \in {"carbonEco", "carbonHog", "carbonRaw"}
  PROVE  Behind(IntensityOrder, at) \cap IntensityTables = {}
<1>1. DOMAIN IntensityOrder = 1 .. 6
  BY DEF IntensityOrder
<1>2. /\ IntensityOrder[1] = "eco" /\ IntensityOrder[2] = "hog" /\ IntensityOrder[3] = "raw"
      /\ IntensityOrder[4] = "carbonEco" /\ IntensityOrder[5] = "carbonHog"
      /\ IntensityOrder[6] = "carbonRaw" /\ Len(IntensityOrder) = 6
  BY DEF IntensityOrder
<1>3. \A i \in 1 .. 6 : i \in {1, 2, 3, 4, 5, 6}
  OBVIOUS
<1>4. \E i \in DOMAIN IntensityOrder : IntensityOrder[i] = at
  <2>1. 4 \in 1 .. 6 /\ 5 \in 1 .. 6 /\ 6 \in 1 .. 6
    OBVIOUS
  <2>. QED
    BY <1>1, <1>2, <2>1
<1>. DEFINE p == CHOOSE i \in DOMAIN IntensityOrder : IntensityOrder[i] = at
<1>5. p \in DOMAIN IntensityOrder /\ IntensityOrder[p] = at
  BY <1>4
<1>6. Position(IntensityOrder, at) = p
  BY DEF Position
<1>. HIDE DEF p
<1>7. p >= 4 /\ p \in Nat
  <2>1. p \in {1, 2, 3, 4, 5, 6}
    BY <1>1, <1>3, <1>5
  <2>2. p # 1 /\ p # 2 /\ p # 3
    BY <1>2, <1>5
  <2>. QED
    BY <2>1, <2>2
<1>8. ASSUME NEW i \in (p + 1) .. 6 PROVE IntensityOrder[i] \notin IntensityTables
  <2>1. i = 5 \/ i = 6
    BY <1>7
  <2>. QED
    BY <1>2, <2>1 DEF IntensityTables
<1>. QED
  BY <1>2, <1>6, <1>8 DEF Behind

(* The back-fill: readings from around the creation of a row, or read      *)
(* since it started.                                                       *)
LEMMA BackfillIntensity ==
  ASSUME Parameters, TypeOK, TimesOK, CopiesAgree, IntensityOK, Backfill
  PROVE  IntensityOK'
<1>0. /\ row \in [Keys -> Row] /\ \A key \in Keys : row[key] \in Row
      /\ intensity.todo \subseteq Keys
      /\ Steady /\ UNCHANGED <<now, blind>>
  BY BackfillIsSteady DEF TypeOK
<1>00. /\ now \in Nat /\ BackfillWindow \in Nat \ {0} /\ MaxDelay \in Nat
       /\ intensity.since \in Nat /\ intensity.cache \subseteq Readings
       /\ \A r \in Readings : r.at \in Nat
       /\ \A key \in Keys : Exists(key) => row[key].created \in 0 .. now
  BY RowTypes, BoundsAreNumbers DEF TypeOK, TimesOK, Readings
<1>000. \A key \in Keys :
          row'[<<key[1], -1>>].created = row[<<key[1], -1>>].created
  BY <1>0, KeyParts, KeysOf DEF Steady
<1>1. CASE GeoTable \/ GeoEnds
  <2>1. UNCHANGED <<row, now, intensity, blind>>
    BY <1>1 DEF GeoTable, GeoEnds, history
  <2>. QED
    BY <2>1, SameIntensity
<1>2. ASSUME NEW key \in Keys, GeoFill(key) PROVE IntensityOK'
  <2>1. UNCHANGED <<now, intensity, blind>>
    BY <1>2 DEF GeoFill, history
  <2>2. FetchedOK'
    BY <1>0, <2>1, FetchedStays DEF IntensityOK, Steady, Exists
  <2>3. ASSUME NEW k \in Keys PROVE SuitedAt(k)'
    <3>1. CASE row'[k] = row[k]
      BY <1>000, <2>1, <3>1, StaysSuited DEF IntensityOK
    <3>2. CASE row'[k] # row[k]
      <4>1. row'[k] = [row[k] EXCEPT !.geo = TRUE]
        BY <1>0, <1>2, <3>2 DEF GeoFill
      <4>2. /\ row'[k].created = row[k].created /\ row'[k].carbon = row[k].carbon
            /\ row'[k].intensity = row[k].intensity
        BY <1>0, <4>1 DEF Row
      <4>3. SuitedAt(k)
        BY DEF IntensityOK
      <4>. QED
        BY <1>000, <2>1, <4>2, <4>3 DEF SuitedAt
    <3>. QED
      BY <3>1, <3>2
  <2>. QED
    BY <2>2, <2>3 DEF IntensityOK
<1>3. CASE IntensityTable
  <2>1. PICK table \in Behind(IntensityOrder, intensity.at) \cap IntensityTables :
          /\ intensity' = [intensity EXCEPT !.at = table,
                !.todo = IntensityMissing(table) \ {k \in IntensityMissing(table) : Near(k) # {}},
                !.since = IF intensity.at = "off" THEN now ELSE @]
          /\ row' = [key \in Keys |->
               IF key \in {k \in IntensityMissing(table) : Near(k) # {}}
               THEN [row[key] EXCEPT !.intensity = Nearest(key)] ELSE row[key]]
    BY <1>3 DEF IntensityTable
  <2>. DEFINE S == {k \in IntensityMissing(table) : Near(k) # {}}
  <2>2. S \subseteq Keys /\ \A key \in S : Exists(key) /\ Near(key) # {}
    BY DEF IntensityMissing
  <2>3. /\ intensity'.todo \subseteq IntensityMissing(table)
        /\ intensity'.at = table /\ intensity'.cache = intensity.cache
        /\ intensity'.since = IF intensity.at = "off" THEN now ELSE intensity.since
    BY <2>1 DEF TypeOK
  <2>4. \A key \in Keys : row'[key] = IF key \in S
          THEN [row[key] EXCEPT !.intensity = Nearest(key)] ELSE row[key]
    BY <2>1
  <2>. HIDE DEF S
  <2>5. intensity.at = "off" \/ intensity.at \in IntensityTables
    <3>1. intensity.at \notin {"carbonEco", "carbonHog", "carbonRaw"}
      BY <2>1, NoTableBehind
    <3>. QED
      BY <3>1 DEF TypeOK, IntensityTables
  <2>6. /\ intensity'.since <= now /\ now <= intensity'.since + MaxDelay
        /\ intensity'.since \in Nat
        /\ \A r \in intensity.cache : r.at >= intensity'.since /\ r.at <= now
    <3>1. CASE intensity.at = "off"
      <4>1. intensity.cache = {} /\ intensity'.since = now
        BY <2>3, <3>1 DEF IntensityOK, FetchedOK, IntensityTables
      <4>. QED
        BY <1>00, <4>1
    <3>2. CASE intensity.at \in IntensityTables
      <4>1. intensity'.since = intensity.since
        BY <2>3, <3>2 DEF IntensityTables
      <4>. QED
        BY <1>00, <3>2, <4>1 DEF IntensityOK, FetchedOK
    <3>. QED
      BY <2>5, <3>1, <3>2
  <2>7. FetchedOK'
    <3>1. ASSUME NEW key \in intensity'.todo
          PROVE  row'[key].created > intensity'.since - BackfillWindow
      <4>1. key \in Keys /\ Exists(key) /\ now - row[key].created < BackfillWindow
        BY <2>3 DEF IntensityMissing
      <4>2. row'[key].created = row[key].created /\ row[key].created \in Nat
        BY <1>0, <1>00, <4>1 DEF Steady
      <4>. QED
        BY <1>00, <2>6, <4>1, <4>2
    <3>. QED
      BY <1>0, <2>1, <2>3, <2>6, <3>1 DEF FetchedOK
  <2>8. ASSUME NEW key \in Keys PROVE SuitedAt(key)'
    <3>1. CASE key \in S
      <4>1. Nearest(key) \in Near(key)
        BY <2>2, <3>1, NearestIsNear
      <4>2. /\ Nearest(key) \in Readings /\ Nearest(key).place = Place[key[1]]
            /\ Distance(Nearest(key).at, row[key].created) < BackfillWindow
        BY <4>1 DEF Near, TypeOK
      <4>3. row[key].created \in Nat /\ Nearest(key).at \in Nat
        BY <1>00, <2>2, <3>1, <4>2
      <4>4. Distance(Nearest(key).at, row[key].created) < Accuracy
        BY <1>00, <4>2, <4>3 DEF Distance, Accuracy
      <4>5. row'[key] = [row[key] EXCEPT !.intensity = Nearest(key)] /\ Exists(key)
        BY <2>2, <2>4, <3>1
      <4>. QED
        BY <1>0, <4>2, <4>4, <4>5, FilledSuits
    <3>2. CASE key \notin S
      BY <1>0, <1>000, <2>4, <3>2, StaysSuited DEF IntensityOK
    <3>. QED
      BY <3>1, <3>2
  <2>. QED
    BY <2>7, <2>8 DEF IntensityOK
<1>4. ASSUME NEW key \in Keys, IntensityFill(key) PROVE IntensityOK'
  <2>1. PICK r \in Readings :
          /\ intensity' = [intensity EXCEPT !.todo = @ \ {key}, !.cache = @ \cup {r}]
          /\ row' = IF Exists(key) THEN [row EXCEPT ![key].intensity = r] ELSE row
          /\ r.place = Place[key[1]]
          /\ r \in intensity.cache \/ r.at = now
    BY <1>4, FilledOnes
  <2>2. /\ intensity'.todo = intensity.todo \ {key} /\ intensity'.at = intensity.at
        /\ intensity'.since = intensity.since /\ intensity'.cache = intensity.cache \cup {r}
    BY <2>1 DEF TypeOK
  <2>3. intensity.at \in IntensityTables
    BY <1>4 DEF IntensityFill, IntensityOK, FetchedOK
  <2>4. /\ intensity.since <= now /\ now <= intensity.since + MaxDelay
        /\ r.at >= intensity.since /\ r.at <= now
    BY <1>00, <2>1, <2>3 DEF IntensityOK, FetchedOK
  <2>5. FetchedOK'
    <3>1. ASSUME NEW k \in intensity.todo, row'[k] # NoRow
          PROVE  row'[k].created > intensity.since - BackfillWindow
      <4>1. k \in Keys
        BY <1>0
      <4>2. Exists(k) /\ row'[k].created = row[k].created
        BY <1>0, <3>1, <4>1 DEF Steady, Exists
      <4>. QED
        BY <4>2 DEF IntensityOK, FetchedOK
    <3>2. \A k \in intensity'.todo : row'[k] # NoRow =>
            row'[k].created > intensity'.since - BackfillWindow
      BY <2>2, <3>1
    <3>3. \A q \in intensity'.cache : q.at >= intensity'.since /\ q.at <= now
      BY <2>2, <2>4 DEF IntensityOK, FetchedOK
    <3>. QED
      BY <1>0, <2>2, <2>3, <2>4, <3>2, <3>3 DEF FetchedOK, Exists
  <2>6. ASSUME NEW k \in Keys PROVE SuitedAt(k)'
    <3>1. CASE row'[k] = row[k]
      BY <1>0, <1>000, <3>1, StaysSuited DEF IntensityOK
    <3>2. CASE row'[k] # row[k]
      <4>1. k = key /\ Exists(key) /\ row'[key] = [row[key] EXCEPT !.intensity = r]
        BY <1>0, <2>1, <3>2
      <4>2. row[key].created > intensity.since - BackfillWindow
        BY <1>4, <4>1 DEF IntensityFill, IntensityOK, FetchedOK
      <4>3. row[key].created \in 0 .. now /\ r.at \in Nat
        BY <1>00, <4>1
      <4>4. Distance(r.at, row[key].created) < Accuracy
        BY <1>00, <2>4, <4>2, <4>3 DEF Distance, Accuracy
      <4>. QED
        BY <1>0, <2>1, <4>1, <4>4, FilledSuits
    <3>. QED
      BY <3>1, <3>2
  <2>. QED
    BY <2>5, <2>6 DEF IntensityOK
<1>5. CASE UpdateCarbon
  <2>1. PICK step \in {"carbonEco", "carbonHog", "carbonRaw"} :
          /\ intensity' = [at |-> step, todo |-> {}, since |-> 0, cache |-> {}]
          /\ row' = [key \in Keys |->
               IF key \in {k \in Keys :
                    Exists(k) /\ Table(k) = CarbonTable(step) /\ ToCompute(k)}
               THEN [row[key] EXCEPT !.carbon = Computed(key)] ELSE row[key]]
    BY <1>5 DEF UpdateCarbon
  <2>2. FetchedOK'
    <3>1. /\ intensity'.at \notin IntensityTables /\ intensity'.todo = {}
          /\ intensity'.cache = {}
      BY <2>1 DEF IntensityTables
    <3>. QED
      BY <3>1 DEF FetchedOK
  <2>3. ASSUME NEW k \in Keys PROVE SuitedAt(k)'
    <3>1. CASE row'[k] = row[k]
      BY <1>0, <1>000, <3>1, StaysSuited DEF IntensityOK
    <3>2. CASE row'[k] # row[k]
      <4>1. row'[k] = [row[k] EXCEPT !.carbon = Computed(k)] /\ ToCompute(k)
        BY <2>1, <3>2
      <4>2. /\ row'[k].created = row[k].created /\ row'[k].carbon = Computed(k)
        BY <1>0, <4>1 DEF Row
      <4>3. Computed(k).of = row[k].intensity /\ Computed(k) # NoCarbon
        BY DEF Computed, NoCarbon, Carbon
      <4>4. SuitedAt(k) /\ row[k].carbon = NoCarbon
        BY <4>1 DEF IntensityOK, ToCompute
      <4>. QED
        BY <1>0, <1>000, <4>2, <4>3, <4>4 DEF SuitedAt
    <3>. QED
      BY <3>1, <3>2
  <2>. QED
    BY <2>2, <2>3 DEF IntensityOK
<1>6. CASE IntensityEnds
  <2>1. /\ row' = row
        /\ intensity' = [at |-> "off", todo |-> {}, since |-> 0, cache |-> {}]
    BY <1>6 DEF IntensityEnds
  <2>2. FetchedOK'
    <3>1. /\ intensity'.at \notin IntensityTables /\ intensity'.todo = {}
          /\ intensity'.cache = {}
      BY <2>1 DEF IntensityTables
    <3>. QED
      BY <3>1 DEF FetchedOK
  <2>3. \A key \in Keys : SuitedAt(key)'
    BY <1>0, <2>1 DEF IntensityOK, SuitedAt
  <2>. QED
    BY <2>2, <2>3 DEF IntensityOK
<1>. QED
  BY <1>1, <1>2, <1>3, <1>4, <1>5, <1>6 DEF Backfill

(* A copy's carbon is its source's, so its reading suits the source.       *)
LEMMA CopyOverIntensity ==
  ASSUME Parameters, TypeOK, TimesOK, IntensityOK, NEW of \in {"eco", "hog", "run"},
         NEW number \in 1 .. MaxBatches, NEW all \in BOOLEAN, CopyOver(of, number, all),
         intensity' = intensity
  PROVE  IntensityOK'
<1>. DEFINE New == ToCopy(of, all)
<1>1. now' = now /\ blind \subseteq blind' /\ New \subseteq Measurements
  BY DEF CopyOver, ToCopy
<1>2. \A key \in Keys :
        row'[key] = IF key[2] = number /\ key[1] \in New THEN Copied(key[1]) ELSE row[key]
  BY DEF CopyOver
<1>3. number \in Nat /\ number > 0 /\ number # -1
  BY BoundsAreNumbers
<1>4. ASSUME NEW m \in New
      PROVE  /\ Copied(m).created = now
             /\ \/ Copied(m).carbon = Carbon("zero")
                \/ /\ Copied(m).carbon = row[<<m, -1>>].carbon
                   /\ Copied(m).intensity = row[<<m, -1>>].intensity
  <2>1. row[<<m, -1>>] \in Row
    BY <1>1, RowTypes, KeysOf
  <2>. QED
    BY <2>1 DEF Copied, Row, Source
<1>. HIDE DEF New
<1>5. FetchedOK'
  BY <1>1, <1>2, <1>4, FetchedStays DEF IntensityOK, Exists
<1>6. \A m \in Measurements : row'[<<m, -1>>] = row[<<m, -1>>]
  BY <1>2, <1>3, KeysOf
<1>7. ASSUME NEW key \in Keys PROVE SuitedAt(key)'
  <2>1. key[1] \in Measurements /\ row'[<<key[1], -1>>] = row[<<key[1], -1>>]
    BY <1>6, KeyParts
  <2>2. CASE key[2] = number /\ key[1] \in New
    <3>1. row'[key] = Copied(key[1]) /\ key[2] > 0
      BY <1>2, <1>3, <2>2
    <3>2. CASE Copied(key[1]).carbon = Carbon("zero")
      <4>1. Carbon("zero") # NoCarbon /\ Carbon("zero").of \notin Readings
        BY NoReadings DEF Carbon, NoCarbon
      <4>. QED
        BY <3>1, <3>2, <4>1 DEF SuitedAt, Suits
    <3>3. CASE /\ Copied(key[1]).carbon = row[<<key[1], -1>>].carbon
               /\ Copied(key[1]).intensity = row[<<key[1], -1>>].intensity
      <4>1. SuitedAt(<<key[1], -1>>)
        BY <2>1, KeysOf DEF IntensityOK
      <4>. DEFINE c == row[<<key[1], -1>>].created
      <4>2. \A r : Suits(<<key[1], -1>>, r, c, c, blind) => Suits(key, r, row'[key].created, c, blind')
        BY <3>1 DEF Suits
      <4>3. row'[key].carbon = row[<<key[1], -1>>].carbon
            /\ row'[key].intensity = row[<<key[1], -1>>].intensity
        BY <3>1, <3>3
      <4>4. row'[<<key[1], -1>>].created = c
        BY <2>1
      <4>5. /\ Suits(<<key[1], -1>>, row[<<key[1], -1>>].carbon.of, c, c, blind)
            /\ row[<<key[1], -1>>].carbon = NoCarbon =>
                 Suits(<<key[1], -1>>, row[<<key[1], -1>>].intensity, c, c, blind)
        BY <4>1 DEF SuitedAt
      <4>. HIDE DEF c
      <4>. QED
        BY <4>2, <4>3, <4>4, <4>5 DEF SuitedAt
    <3>. QED
      BY <1>4, <2>2, <3>2, <3>3
  <2>3. CASE ~ (key[2] = number /\ key[1] \in New)
    <3>1. row'[key] = row[key]
      BY <1>2, <2>3
    <3>. QED
      BY <1>1, <2>1, <3>1, StaysSuited DEF IntensityOK
  <2>. QED
    BY <2>2, <2>3
<1>. QED
  BY <1>5, <1>7 DEF IntensityOK

(* Where rows are taken away the others stay suited.                       *)
LEMMA ThinnedIntensity ==
  ASSUME Parameters, TypeOK, TimesOK, IntensityOK, Thinned, now' = now,
         intensity' = intensity,
         \A m \in Measurements : m \notin blind' /\ m \in blind =>
           \A n \in 1 .. MaxBatches : row'[<<m, n>>] = NoRow
  PROVE  IntensityOK'
<1>1. FetchedOK'
  BY FetchedStays DEF IntensityOK, Thinned, Exists
<1>2. ASSUME NEW key \in Keys PROVE SuitedAt(key)'
  <2>1. CASE row'[key] = NoRow
    BY <2>1, NoneSuits
  <2>2. CASE row'[key] # NoRow
    <3>1. row'[key] = row[key]
      BY <2>2 DEF Thinned
    <3>2. /\ key = <<key[1], key[2]>> /\ key[1] \in Measurements
          /\ key[2] \in -1 .. MaxBatches /\ <<key[1], -1>> \in Keys
      BY KeyParts, KeysOf
    <3>3. row'[<<key[1], -1>>] = row[<<key[1], -1>>]
      BY <3>2 DEF Thinned
    <3>4. ASSUME key[2] > 0, key[1] \in blind PROVE key[1] \in blind'
      <4>1. key[2] \in 1 .. MaxBatches
        BY <3>2, <3>4, BoundsAreNumbers
      <4>2. row'[<<key[1], key[2]>>] # NoRow
        BY <2>2, <3>2
      <4>. QED
        BY <3>2, <3>4, <4>1, <4>2
    <3>. QED
      BY <3>1, <3>3, <3>4, StaysSuited DEF IntensityOK
  <2>. QED
    BY <2>1, <2>2
<1>. QED
  BY <1>1, <1>2 DEF IntensityOK

(* The scripts that copy and sum.                                          *)
LEMMA CopyIntensity ==
  ASSUME Parameters, TypeOK, TimesOK, NumbersOK, IntensityOK, Copy \/ Rebuild
  PROVE  IntensityOK'
<1>0. batches \in 0 .. MaxBatches /\ MaxBatches \in Nat
  BY BoundsAreNumbers DEF TypeOK
<1>1. CASE StartCopying
  <2>1. batches + 1 \in 1 .. MaxBatches
    BY <1>0, <1>1 DEF StartCopying
  <2>. QED
    BY <1>1, <2>1, CopyOverIntensity DEF StartCopying
<1>2. CASE CopyKind
  <2>1. copier.number \in 0 .. batches /\ copier.number > 0
    BY <1>2 DEF CopyKind, NumbersOK, TypeOK
  <2>2. copier.number \in 1 .. MaxBatches
    BY <1>0, <2>1
  <2>. QED
    BY <1>2, <2>2, CopyOverIntensity DEF CopyKind
<1>3. CASE RebuildCopies
  <2>1. rebuild.number \in 0 .. batches /\ rebuild.number > 0
    BY <1>3 DEF RebuildCopies, NumbersOK, TypeOK
  <2>2. rebuild.number \in 1 .. MaxBatches
    BY <1>0, <2>1
  <2>. QED
    BY <1>3, <2>2, CopyOverIntensity DEF RebuildCopies
<1>4. CASE CopierRemoves \/ RebuildRemoves
  <2>1. Thinned /\ UNCHANGED <<now, intensity, blind>>
    BY <1>4 DEF CopierRemoves, RebuildRemoves, RemoveDuplicates, Thinned, RawKeys, Added
  <2>. QED
    BY <2>1, ThinnedIntensity
<1>5. CASE RebuildDeletes
  <2>1. Thinned /\ UNCHANGED <<now, intensity>>
    BY <1>5 DEF RebuildDeletes, Thinned, RawKeys, Added
  <2>2. ASSUME NEW m \in Measurements, m \notin blind', m \in blind, NEW n \in 1 .. MaxBatches
        PROVE  row'[<<m, n>>] = NoRow
    <3>1. m \in Rebuilt
      BY <1>5, <2>2 DEF RebuildDeletes
    <3>2. <<m, n>> \in RawKeys
      BY <1>0 DEF RawKeys, Added
    <3>3. <<m, n>> \in Keys
      BY KeysOf
    <3>. QED
      BY <1>5, <3>1, <3>2, <3>3 DEF RebuildDeletes
  <2>. QED
    BY <2>1, <2>2, ThinnedIntensity
<1>6. CASE CopierDies \/ StartRebuild \/ RebuildCompresses \/ RebuildDies
  <2>1. UNCHANGED <<row, now, blind, intensity>>
    BY <1>6 DEF CopierDies, StartRebuild, RebuildCompresses, RebuildDies,
         CompressRaw, history
  <2>. QED
    BY <2>1, SameIntensity
<1>. QED
  BY <1>1, <1>2, <1>3, <1>4, <1>5, <1>6 DEF Copy, Rebuild

(* Every step leaves readings that suit.                                   *)
LEMMA CarbonIntensity ==
  ASSUME Parameters, TypeOK, RowsOK, NumbersOK, IntensityOK, [Next]_vars
  PROVE  IntensityOK'
<1>0. TimesOK /\ OriginsOK /\ CopiesAgree
  BY DEF RowsOK
<1>1. CASE Tick
  <2>1. /\ UNCHANGED <<row, blind>> /\ now' = now + 1 /\ now \in Nat
        /\ intensity.since \in Nat /\ MaxDelay \in Nat
    BY <1>1, RowTypes, BoundsAreNumbers DEF Tick, history, TypeOK
  <2>2. /\ intensity'.at = intensity.at /\ intensity'.todo = intensity.todo
        /\ intensity'.since = intensity.since /\ intensity'.cache \subseteq intensity.cache
    BY <1>1 DEF Tick, TypeOK
  <2>3. intensity.at \in IntensityTables => now < intensity.since + MaxDelay
    BY <1>1 DEF Tick
  <2>4. \A r \in intensity'.cache : r.at \in Nat
    BY <2>2 DEF TypeOK, Readings
  <2>5. \A r \in intensity'.cache : r.at >= intensity'.since /\ r.at <= now'
    BY <2>1, <2>2, <2>4 DEF IntensityOK, FetchedOK
  <2>6. intensity'.at \in IntensityTables =>
          intensity'.since <= now' /\ now' <= intensity'.since + MaxDelay
    BY <2>1, <2>2, <2>3 DEF IntensityOK, FetchedOK
  <2>7. FetchedOK'
    BY <2>1, <2>2, <2>5, <2>6 DEF IntensityOK, FetchedOK, Exists
  <2>8. \A key \in Keys : SuitedAt(key)'
    BY <2>1 DEF IntensityOK, SuitedAt
  <2>. QED
    BY <2>7, <2>8 DEF IntensityOK
<1>2. CASE Compress \/ UNCHANGED vars
  <2>1. UNCHANGED <<row, now, blind, intensity>>
    BY <1>2 DEF Compress, CompressRaw, vars, scripts, history
  <2>. QED
    BY <1>0, <2>1, SameIntensity
<1>. QED
  BY <1>0, <1>1, <1>2, ArrivesIntensity, BackfillIntensity, CopyIntensity DEF Next

-----------------------------------------------------------------------------
(* Sums                                                                    *)

(* A measurement has no second copy where nothing is done to its copies.   *)
LEMMA SteadyOnce ==
  ASSUME Parameters, OnceOK, Steady, UNCHANGED <<now, taken, blind, again>>
  PROVE  OnceOK'
<1>1. \A m \in Measurements : \A n \in 0 .. MaxBatches : <<m, n>> \in Keys
  BY BoundsAreNumbers DEF Keys, Source
<1>2. \A m \in Measurements : \A n \in 0 .. MaxBatches :
        Exists(<<m, n>>)' <=> Exists(<<m, n>>)
  BY <1>1 DEF Steady, Exists
<1>3. \A t : Recent(t)' <=> Recent(t)
  BY DEF Recent, Day
<1>. QED
  BY <1>2, <1>3 DEF OnceOK

(* What comes in has one row at most.                                      *)
LEMMA InsertOnce ==
  ASSUME Parameters, TypeOK, OriginsOK, OnceOK, NEW m \in Measurements, NEW n \in {-1, 0},
         ~ Arrived(m), kind[m] \in IF n = 0 THEN {"custom"} ELSE {"eco", "hog", "run"},
         NEW t, NEW located, NEW given, NEW carbon,
         Insert(<<m, n>>, t, located, given, carbon)
  PROVE  OnceOK'
<1>1. /\ \A key \in Keys : key # <<m, n>> => row'[key] = row[key]
      /\ \A l \in Measurements : l # m => taken'[l] = taken[l]
      /\ UNCHANGED <<now, blind, again>>
  BY DEF Insert, history, TypeOK
<1>2. \A k \in 0 .. MaxBatches : k = 0 \/ k \in 1 .. MaxBatches
  BY BoundsAreNumbers
<1>3. \A l \in Measurements : \A k \in 0 .. MaxBatches : <<l, k>> \in Keys
  BY BoundsAreNumbers DEF Keys, Source
<1>4. ASSUME NEW l \in Measurements \ (blind \cup again), l # m, Recent(taken[l]),
             NEW a \in 0 .. MaxBatches, NEW b \in 0 .. MaxBatches,
             Exists(<<l, a>>)', Exists(<<l, b>>)'
      PROVE  a = b
  <2>1. row'[<<l, a>>] = row[<<l, a>>] /\ row'[<<l, b>>] = row[<<l, b>>]
    BY <1>1, <1>3, <1>4
  <2>. QED
    BY <1>4, <2>1 DEF OnceOK, Exists
<1>5. ASSUME NEW a \in 0 .. MaxBatches, Exists(<<m, a>>)' PROVE a = 0
  <2>1. CASE a \in 1 .. MaxBatches
    <3>1. a # n
      BY <2>1, BoundsAreNumbers
    <3>2. row'[<<m, a>>] = row[<<m, a>>]
      BY <1>1, <1>3, <3>1
    <3>3. Exists(<<m, -1>>)
      BY <1>5, <2>1, <3>2 DEF OriginsOK, Exists
    <3>. QED
      BY <3>3 DEF Arrived, Source
  <2>. QED
    BY <1>2, <2>1
<1>6. \A l \in Measurements : l # m => (Recent(taken[l])' <=> Recent(taken[l]))
  BY <1>1 DEF Recent, Day
<1>. QED
  BY <1>1, <1>4, <1>5, <1>6 DEF OnceOK

(* A copy is the first, or one more.                                       *)
LEMMA CopyOverOnce ==
  ASSUME Parameters, TypeOK, OnceOK, NEW of, NEW number \in 1 .. MaxBatches, NEW all,
         CopyOver(of, number, all)
  PROVE  OnceOK'
<1>. DEFINE New == ToCopy(of, all)
<1>1. /\ UNCHANGED <<now, taken>> /\ blind \subseteq blind'
      /\ again' = again \cup {m \in New : Copies(m) # {}}
  BY DEF CopyOver, world
<1>2. \A m \in Measurements : \A k \in 0 .. MaxBatches :
        row'[<<m, k>>] = IF k = number /\ m \in New THEN Copied(m) ELSE row[<<m, k>>]
  BY DEF CopyOver, Keys, Source
<1>. HIDE DEF New
<1>3. ASSUME NEW m \in Measurements \ (blind' \cup again'), Recent(taken[m]),
             NEW a \in 0 .. MaxBatches, NEW b \in 0 .. MaxBatches,
             Exists(<<m, a>>)', Exists(<<m, b>>)'
      PROVE  a = b
  <2>1. CASE m \in New
    <3>1. Copies(m) = {}
      BY <1>1, <1>3, <2>1
    <3>2. ~ Exists(<<m, a>>) /\ ~ Exists(<<m, b>>)
      BY <3>1 DEF Copies, RawKeys, Added
    <3>. QED
      BY <1>2, <1>3, <3>2 DEF Exists
  <2>2. CASE m \notin New
    <3>1. Exists(<<m, a>>) /\ Exists(<<m, b>>)
      BY <1>2, <1>3, <2>2 DEF Exists
    <3>2. m \notin blind /\ m \notin again
      BY <1>1, <1>3
    <3>. QED
      BY <1>3, <3>1, <3>2 DEF OnceOK
  <2>. QED
    BY <2>1, <2>2
<1>4. \A m \in Measurements : Recent(taken[m])' <=> Recent(taken[m])
  BY <1>1 DEF Recent, Day
<1>. QED
  BY <1>3, <1>4 DEF OnceOK

(* Of equal copies the removal leaves one: those that were not copied      *)
(* blindly are equal.                                                      *)
LEMMA RemoveOnce ==
  ASSUME Parameters, TypeOK, RowsOK, RemoveDuplicates
  PROVE  OnceOK'
<1>1. UNCHANGED <<now, taken, blind>>
  BY DEF RemoveDuplicates, world
<1>2. ASSUME NEW m \in Measurements \ blind, Recent(taken[m]),
             NEW a \in 0 .. MaxBatches, NEW b \in 0 .. MaxBatches, a < b,
             Exists(<<m, a>>)', Exists(<<m, b>>)'
      PROVE  FALSE
  <2>1. <<m, a>> \in RawKeys /\ <<m, b>> \in RawKeys
    BY DEF RawKeys, Added
  <2>2. RawKeys \subseteq Keys
    BY BoundsAreNumbers DEF RawKeys, Keys, Source, Added
  <2>3. Exists(<<m, a>>) /\ Exists(<<m, b>>)
    BY <1>2, <2>1, <2>2 DEF RemoveDuplicates, Exists
  <2>4. b \in 1 .. MaxBatches /\ a # 0
    <3>1. b \in 1 .. MaxBatches
      BY <1>2, BoundsAreNumbers
    <3>2. kind[m] # "custom"
      BY <2>3, <3>1 DEF RowsOK, OriginsOK
    <3>. QED
      BY <2>3, <3>1, <3>2 DEF RowsOK, OriginsOK
  <2>5. a \in 1 .. MaxBatches
    BY <2>4, BoundsAreNumbers
  <2>6. /\ row[<<m, a>>].carbon = row[<<m, b>>].carbon
        /\ row[<<m, a>>].carbon # NoCarbon
    BY <2>3, <2>4, <2>5 DEF RowsOK, CopiesAgree
  <2>7. Superseded(<<m, a>>)
    BY <1>2, <2>1, <2>3, <2>6 DEF Superseded
  <2>8. row'[<<m, a>>] = NoRow
    BY <1>2, <2>1, <2>2, <2>7 DEF RemoveDuplicates
  <2>. QED
    BY <1>2, <2>8 DEF Exists
<1>3. ASSUME NEW m \in Measurements \ blind, Recent(taken[m]),
             NEW a \in 0 .. MaxBatches, NEW b \in 0 .. MaxBatches,
             Exists(<<m, a>>)', Exists(<<m, b>>)'
      PROVE  a = b
  <2>1. a < b \/ b < a \/ a = b
    BY BoundsAreNumbers
  <2>. QED
    BY <1>2, <1>3, <2>1
<1>4. \A m \in Measurements : Recent(taken[m])' <=> Recent(taken[m])
  BY <1>1 DEF Recent, Day
<1>. QED
  BY <1>1, <1>3, <1>4 DEF OnceOK

(* The rebuild leaves none of those it copies.                             *)
LEMMA DeleteOnce ==
  ASSUME Parameters, TypeOK, OnceOK, RebuildDeletes
  PROVE  OnceOK'
<1>1. /\ UNCHANGED <<now, taken>>
      /\ blind' = blind \ Rebuilt /\ again' = again \ Rebuilt
  BY DEF RebuildDeletes, world
<1>2. \A m \in Measurements : \A k \in 0 .. MaxBatches :
        row'[<<m, k>>] = IF m \in Rebuilt THEN NoRow ELSE row[<<m, k>>]
  BY BoundsAreNumbers DEF RebuildDeletes, Keys, RawKeys, Source, Added
<1>3. \A m \in Measurements : Recent(taken[m])' <=> Recent(taken[m])
  BY <1>1 DEF Recent, Day
<1>. QED
  BY <1>1, <1>2, <1>3 DEF OnceOK, Exists

(* What is not older than some days lies not more than these days back.    *)
LEMMA DaysOfLateness ==
  ASSUME NEW s \in Nat \ {0}, NEW l \in Nat, NEW t \in Int, NEW c \in Int, t >= c - l * s
  PROVE  t \div s >= (c \div s) - l
<1>. DEFINE p == c \div s
            q == t \div s
<1>1. /\ p \in Int /\ q \in Int
      /\ s * p <= c /\ t < s * q + s
  OBVIOUS
<1>. HIDE DEF p, q
<1>2. CASE q < p - l
  <2>1. p - l - q - 1 \in Nat
    BY <1>1, <1>2
  <2>2. s * (p - l - q - 1) >= 0
    BY <2>1
  <2>3. s * (p - l - q - 1) = s * p - s * l - s * q - s /\ l * s = s * l
    BY <1>1
  <2>. QED
    BY <1>1, <2>2, <2>3
<1>. QED
  BY <1>1, <1>2 DEF p, q

(* What has left the look-back does not come back into it.                 *)
LEMMA TickOnce ==
  ASSUME Parameters, TypeOK, OnceOK, Tick
  PROVE  OnceOK'
<1>1. UNCHANGED <<row, taken, blind, again>> /\ now' = now + 1
  BY DEF Tick, world, history
<1>2. now \in Nat /\ SlotsPerDay \in Nat \ {0} /\ MergeDays \in Nat
  BY RowTypes, BoundsAreNumbers
<1>3. Day(now) <= Day(now + 1) /\ Day(now) \in Int /\ Day(now + 1) \in Int
  <2>1. now \in Int /\ now + 1 \in Int /\ 0 \in Nat /\ now + 1 >= now - 0 * SlotsPerDay
    BY <1>2
  <2>2. (now + 1) \div SlotsPerDay >= (now \div SlotsPerDay) - 0
    BY <1>2, <2>1, DaysOfLateness
  <2>3. now \div SlotsPerDay \in Int /\ (now + 1) \div SlotsPerDay \in Int
    BY <1>2
  <2>. QED
    BY <2>2, <2>3 DEF Day
<1>4. ASSUME NEW m \in Measurements, Recent(taken[m])' PROVE Recent(taken[m])
  <2>1. taken[m] \in Int
    BY BoundsAreNumbers DEF TypeOK
  <2>2. Day(taken[m]) \in Int
    BY <1>2, <2>1 DEF Day
  <2>3. Day(taken[m]) >= Day(now + 1) - MergeDays
    BY <1>1, <1>4 DEF Recent, Day
  <2>. QED
    BY <1>2, <1>3, <2>2, <2>3 DEF Recent
<1>. QED
  BY <1>1, <1>4 DEF OnceOK, Exists

(* Every step keeps it so.                                                 *)
LEMMA CarbonOnce ==
  ASSUME Parameters, TypeOK, RowsOK, NumbersOK, OnceOK, [Next]_vars
  PROVE  OnceOK'
<1>0. batches \in 0 .. MaxBatches /\ MaxBatches \in Nat
  BY BoundsAreNumbers DEF TypeOK
<1>00. TimesOK /\ OriginsOK
  BY DEF RowsOK
<1>1. CASE Compress \/ CopierDies \/ StartRebuild \/ RebuildCompresses \/ RebuildDies
           \/ UNCHANGED vars
  <2>1. UNCHANGED <<row, now, taken, blind, again>>
    BY <1>1 DEF Compress, CompressRaw, CopierDies, StartRebuild, RebuildCompresses,
         RebuildDies, vars, world, history
  <2>2. Steady
    BY <2>1 DEF Steady
  <2>. QED
    BY <2>1, <2>2, SteadyOnce
<1>2. CASE Backfill
  BY <1>00, <1>2, BackfillIsSteady, SteadyOnce
<1>3. ASSUME NEW m \in Measurements,
             EcoArrives(m) \/ HogArrives(m) \/ CustomArrives(m) \/ RunStarts(m)
      PROVE  OnceOK'
  <2>1. PICK n \in {-1, 0} :
          /\ ~ Arrived(m) /\ kind[m] \in IF n = 0 THEN {"custom"} ELSE {"eco", "hog", "run"}
          /\ \E t, located, given, carbon : Insert(<<m, n>>, t, located, given, carbon)
    <3>1. CASE CustomArrives(m)
      BY <3>1 DEF CustomArrives, Added
    <3>2. CASE EcoArrives(m) \/ HogArrives(m) \/ RunStarts(m)
      <4>1. -1 \in {-1, 0} /\ -1 # 0
        OBVIOUS
      <4>2. /\ ~ Arrived(m) /\ kind[m] \in {"eco", "hog", "run"}
            /\ \E t, located, given, carbon : Insert(<<m, -1>>, t, located, given, carbon)
        BY <3>2 DEF EcoArrives, HogArrives, RunStarts, Source
      <4>. QED
        BY <4>1, <4>2
    <3>. QED
      BY <1>3, <3>1, <3>2
  <2>. QED
    BY <1>00, <2>1, InsertOnce
<1>4. ASSUME NEW m \in Measurements, RunEnds(m) PROVE OnceOK'
  BY <1>00, <1>4, RunEndIsSteady, SteadyOnce
<1>5. CASE Arrives
  BY <1>3, <1>4, <1>5 DEF Arrives
<1>6. CASE StartCopying
  <2>1. batches + 1 \in 1 .. MaxBatches
    BY <1>0, <1>6 DEF StartCopying
  <2>. QED
    BY <1>6, <2>1, CopyOverOnce DEF StartCopying
<1>7. CASE CopyKind
  <2>1. copier.number \in 0 .. batches /\ copier.number > 0
    BY <1>7 DEF CopyKind, NumbersOK, TypeOK
  <2>2. copier.number \in 1 .. MaxBatches
    BY <1>0, <2>1
  <2>. QED
    BY <1>7, <2>2, CopyOverOnce DEF CopyKind
<1>8. CASE RebuildCopies
  <2>1. rebuild.number \in 0 .. batches /\ rebuild.number > 0
    BY <1>8 DEF RebuildCopies, NumbersOK, TypeOK
  <2>2. rebuild.number \in 1 .. MaxBatches
    BY <1>0, <2>1
  <2>. QED
    BY <1>8, <2>2, CopyOverOnce DEF RebuildCopies
<1>9. CASE CopierRemoves \/ RebuildRemoves
  BY <1>9, RemoveOnce DEF CopierRemoves, RebuildRemoves
<1>10. CASE RebuildDeletes
  BY <1>10, DeleteOnce
<1>11. CASE Tick
  BY <1>11, TickOnce
<1>. QED
  BY <1>1, <1>2, <1>5, <1>6, <1>7, <1>8, <1>9, <1>10, <1>11 DEF Next, Copy, Rebuild

(* So a compression counts one.                                            *)
LEMMA CompressCounts ==
  ASSUME CarbonInv, CompressRaw, NEW m \in Measurements \ (blind \cup again),
         NEW key \in Copies(m), Compressed(key)
  PROVE  counted'[m] = 1
<1>. DEFINE S == {k \in Copies(m) : Compressed(k)}
<1>1. /\ Parameters /\ TypeOK /\ OriginsOK /\ OnceOK
      /\ \A k \in Copies(m) : k = <<m, k[2]>> /\ k[2] \in 0 .. MaxBatches /\ Exists(k)
  BY DEF CarbonInv, Copies, RawKeys, Added
<1>2. Recent(taken[m])
  BY <1>1 DEF Compressed
<1>3. S = {key}
  <2>1. \A k \in Copies(m) : k[2] = key[2]
    BY <1>1, <1>2 DEF OnceOK
  <2>. QED
    BY <1>1, <2>1
<1>4. m \in SumsReplaced
  <2>1. key[2] = 0 \/ key[2] \in 1 .. MaxBatches
    BY <1>1, BoundsAreNumbers
  <2>2. Arrived(m)
    BY <1>1, <2>1 DEF OriginsOK, Arrived, Source, Added
  <2>3. key \in RawKeys /\ SameSum(m, key[1])
    BY <1>1 DEF Copies, SameSum
  <2>. QED
    BY <2>2, <2>3 DEF SumsReplaced
<1>5. counted'[m] = Cardinality(S)
  BY <1>4 DEF CompressRaw
<1>. HIDE DEF S
<1>. QED
  BY <1>3, <1>5, FS_Singleton

-----------------------------------------------------------------------------
(* At the start there is nothing.                                          *)
LEMMA CarbonStarts == ASSUME Parameters, Init PROVE CarbonInv
<1>1. TypeOK
  <2>1. 0 \in 0 .. MaxTime /\ 0 \in -MaxLateness .. MaxTime /\ -1 \in -1 .. MaxTime
    BY BoundsAreNumbers
  <2>2. NoRow \in Row
    BY <2>1 DEF NoRow, Row, Unknown, Intensities, NoCarbon, Carbon, Carbons
  <2>3. row \in [Keys -> Row]
    BY <2>2 DEF Init
  <2>4. taken \in [Measurements -> -MaxLateness .. MaxTime] /\ counted \in [Measurements -> Nat]
    BY <2>1 DEF Init
  <2>5. /\ batches \in 0 .. MaxBatches /\ rebuilds \in 0 .. MaxRebuilds
        /\ 0 \in 0 .. batches /\ now \in 0 .. MaxTime
    BY BoundsAreNumbers DEF Init
  <2>6. 0 \in 0 .. MaxTime
    BY BoundsAreNumbers
  <2>. QED
    BY <2>3, <2>4, <2>5, <2>6 DEF Init, TypeOK, Off
<1>2. \A key \in Keys : row[key] = NoRow
  BY DEF Init
<1>3. TimesOK
  BY <1>2 DEF TimesOK, Exists
<1>4. OriginsOK /\ CopiesAgree
  BY <1>2, KeysOf DEF OriginsOK, CopiesAgree, Exists
<1>5. NumbersOK /\ FetchedOK
  BY DEF Init, NumbersOK, FetchedOK, Off, IntensityTables
<1>6. SuitedOK
  <2>1. \A key \in Keys : /\ row[key].carbon.of \notin Readings
                         /\ row[key].intensity \notin Readings
    BY <1>2, NoReadings
  <2>. QED
    BY <2>1 DEF SuitedOK, Suits
<1>7. OnceOK
  <2>1. \A m \in Measurements : \A n \in 0 .. MaxBatches : <<m, n>> \in Keys
    BY BoundsAreNumbers DEF Keys, Source
  <2>. QED
    BY <1>2, <2>1 DEF OnceOK, Exists
<1>. QED
  BY <1>1, <1>3, <1>4, <1>5, <1>6, <1>7 DEF CarbonInv

(* And every step keeps the invariant.                                     *)
LEMMA CarbonStep == ASSUME CarbonInv, [Next]_vars PROVE CarbonInv'
<1>1. TypeOK' /\ NumbersOK'
  BY CarbonTypes, CarbonNumbers DEF CarbonInv
<1>2. TimesOK' /\ OriginsOK' /\ CopiesAgree'
  BY CarbonRows DEF CarbonInv, RowsOK
<1>3. FetchedOK' /\ SuitedOK'
  <2>1. IntensityOK
    BY DEF CarbonInv, IntensityOK, SuitedOK, SuitedAt
  <2>2. IntensityOK'
    BY <2>1, CarbonIntensity DEF CarbonInv, RowsOK
  <2>. QED
    BY <2>2 DEF IntensityOK, SuitedOK, SuitedAt
<1>4. OnceOK'
  BY CarbonOnce DEF CarbonInv, RowsOK
<1>5. Parameters'
  BY DEF CarbonInv, Parameters
<1>. QED
  BY <1>1, <1>2, <1>3, <1>4, <1>5 DEF CarbonInv

(* The strengthened invariant of CarbonDb.                                 *)
THEOREM CarbonInvariant == Spec => []CarbonInv
<1>1. Init => CarbonInv
  BY CarbonStarts, ParametersFit
<1>2. CarbonInv /\ [Next]_vars => CarbonInv'
  BY CarbonStep
<1>. QED
  BY <1>1, <1>2, PTL DEF Spec

-----------------------------------------------------------------------------
(* What reached the sums stays there                                       *)

(* A measurement was taken when its row was created, or not more than the  *)
(* days before that it may be late.                                        *)
TakenOK ==
  \A m \in Measurements : \A n \in {-1, 0} :
    Exists(<<m, n>>) =>
      /\ taken[m] <= row[<<m, n>>].created
      /\ taken[m] >= row[<<m, n>>].created - LateDays * SlotsPerDay
      /\ n = -1 /\ kind[m] \in {"eco", "run"} => taken[m] = row[<<m, n>>].created

(* It has a row to compress.                                               *)
Kept(m) ==
  \E n \in 0 .. MaxBatches : Exists(<<m, n>>) /\ row[<<m, n>>].carbon # NoCarbon

(* The rebuild has deleted its rows and those it shares a sum with: the    *)
(* next copy brings all of them back.                                      *)
Deleted(m) ==
  /\ kind[m] \in {"eco", "run"}
  /\ \A l \in Measurements : SameSum(m, l) =>
       \A n \in 0 .. MaxBatches : ~ Exists(<<l, n>>)

(* What is in a sum has a row to compress, or shares its sum with nothing  *)
(* that has one, unless it was copied blindly.                             *)
HeldOK ==
  \A m \in Measurements : counted[m] > 0 =>
    Arrived(m) /\ (m \in blind \/ Kept(m) \/ Deleted(m))

SumsOK == TakenOK /\ HeldOK

(* A set of numbers up to some has a greatest member.                      *)
LEMMA GreatestNumber ==
  ASSUME NEW n \in Nat, NEW S, S \subseteq 0 .. n, S # {}
  PROVE  \E s \in S : \A t \in S : t <= s
<1>. DEFINE T == {n - s : s \in S}
<1>1. \A s \in S : s \in Nat /\ n - s \in Nat
  <2>1. \A s \in 0 .. n : s \in Nat /\ n - s \in Nat
    OBVIOUS
  <2>. QED
    BY <2>1
<1>2. T \subseteq Nat /\ T # {}
  BY <1>1
<1>3. PICK t \in T : \A u \in T : t <= u
  BY <1>2, LeastNatural
<1>4. PICK s \in S : t = n - s
  BY <1>3
<1>5. \A u \in S : n - s <= n - u
  BY <1>3, <1>4
<1>. HIDE DEF T
<1>6. \A u \in S : u <= s
  <2>1. \A u \in Nat : n - s <= n - u /\ s \in Nat => u <= s
    OBVIOUS
  <2>. QED
    BY <1>1, <1>5, <2>1
<1>. QED
  BY <1>6

(* The last of equal copies is not removed.                                *)
LEMMA LastStays ==
  ASSUME Parameters, TypeOK, RemoveDuplicates, NEW m \in Measurements,
         NEW n \in 0 .. MaxBatches, Exists(<<m, n>>)
  PROVE  \E k \in 0 .. MaxBatches :
           /\ row'[<<m, k>>] = row[<<m, k>>] /\ Exists(<<m, k>>)
           /\ row[<<m, k>>].carbon = row[<<m, n>>].carbon
<1>. DEFINE S == {k \in 0 .. MaxBatches :
                    Exists(<<m, k>>) /\ row[<<m, k>>].carbon = row[<<m, n>>].carbon}
<1>0. MaxBatches \in Nat
  BY BoundsAreNumbers
<1>1. PICK k \in S : \A j \in S : j <= k
  <2>1. S \subseteq 0 .. MaxBatches /\ n \in S
    OBVIOUS
  <2>. QED
    BY <1>0, <2>1, GreatestNumber
<1>2. <<m, k>> \in Keys
  BY <1>0 DEF Keys, Source
<1>3. ~ Superseded(<<m, k>>)
  <2>. SUFFICES ASSUME NEW other \in RawKeys, other[1] = m, k < other[2], Exists(other),
                       row[<<m, k>>].carbon = row[other].carbon
                PROVE  FALSE
    BY DEF Superseded
  <2>1. other = <<m, other[2]>> /\ other[2] \in 0 .. MaxBatches
    BY DEF RawKeys, Added
  <2>2. other[2] \in S
    BY <2>1
  <2>3. other[2] <= k
    BY <1>1, <2>2
  <2>. QED
    BY <1>0, <2>1, <2>3
<1>4. row'[<<m, k>>] = row[<<m, k>>]
  BY <1>2, <1>3 DEF RemoveDuplicates
<1>. QED
  BY <1>4

(* Filling in keeps what the sums are made of.                             *)
LEMMA SteadySums ==
  ASSUME Parameters, SumsOK, Steady, UNCHANGED <<kind, taken, counted, blind>>
  PROVE  SumsOK'
<1>1. \A m \in Measurements : \A n \in -1 .. MaxBatches : <<m, n>> \in Keys
  BY DEF Keys, Source
<1>2. {-1, 0} \subseteq -1 .. MaxBatches /\ 0 .. MaxBatches \subseteq -1 .. MaxBatches
  BY BoundsAreNumbers
<1>3. \A m \in Measurements : \A n \in -1 .. MaxBatches :
        /\ row'[<<m, n>>].created = row[<<m, n>>].created
        /\ row'[<<m, n>>] = NoRow <=> row[<<m, n>>] = NoRow
        /\ row[<<m, n>>].carbon # NoCarbon => row'[<<m, n>>].carbon = row[<<m, n>>].carbon
  BY <1>1 DEF Steady
<1>4. TakenOK'
  BY <1>2, <1>3 DEF SumsOK, TakenOK, Exists
<1>5. \A m \in Measurements : Arrived(m) => Arrived(m)'
  BY <1>2, <1>3 DEF Arrived, Exists, Source, Added
<1>6. \A m \in Measurements : Kept(m) => Kept(m)'
  BY <1>2, <1>3 DEF Kept, Exists
<1>7. \A m \in Measurements : Deleted(m) => Deleted(m)'
  BY <1>2, <1>3 DEF Deleted, Exists, SameSum, Day
<1>. QED
  BY <1>4, <1>5, <1>6, <1>7 DEF SumsOK, HeldOK

(* A row that comes in was not summed before, and has no copies.           *)
LEMMA InsertSums ==
  ASSUME Parameters, TypeOK, OriginsOK, SumsOK, NEW m \in Measurements, NEW n \in {-1, 0},
         ~ Arrived(m), kind[m] \in IF n = 0 THEN {"custom"} ELSE {"eco", "hog", "run"},
         NEW t \in Int, t <= now, t >= now - LateDays * SlotsPerDay,
         kind[m] \in {"eco", "run"} => t = now,
         NEW located, NEW given, NEW carbon, Insert(<<m, n>>, t, located, given, carbon)
  PROVE  SumsOK'
<1>. DEFINE new == [created |-> now, geo |-> located, intensity |-> given, carbon |-> carbon]
<1>1. /\ row' = [row EXCEPT ![<<m, n>>] = new] /\ <<m, n>> \in Keys
      /\ taken' = [taken EXCEPT ![m] = t]
      /\ UNCHANGED <<kind, counted, blind>>
  BY KeysOf DEF Insert, history
<1>2. row \in [Keys -> Row] /\ DOMAIN taken = Measurements
  BY DEF TypeOK
<1>3. new.created = now /\ new # NoRow
  <2>1. now # -1
    BY RowTypes, BoundsAreNumbers
  <2>. QED
    BY <2>1 DEF NoRow
<1>4. \A l \in Measurements : \A k \in -1 .. MaxBatches :
        row'[<<l, k>>] = IF l = m /\ k = n THEN new ELSE row[<<l, k>>]
  <2>1. \A l \in Measurements : \A k \in -1 .. MaxBatches : <<l, k>> \in Keys
    BY DEF Keys, Source
  <2>. QED
    BY <1>1, <1>2, <2>1
<1>. HIDE DEF new
<1>5. {-1, 0} \subseteq -1 .. MaxBatches /\ 0 .. MaxBatches \subseteq -1 .. MaxBatches
  BY BoundsAreNumbers
<1>6. \A k \in 0 .. MaxBatches : ~ Exists(<<m, k>>)
  <2>1. ~ Exists(<<m, -1>>) /\ (kind[m] = "custom" => ~ Exists(<<m, 0>>))
    BY DEF Arrived, Source, Added
  <2>2. ~ Exists(<<m, 0>>)
    BY <2>1 DEF OriginsOK
  <2>3. \A k \in 1 .. MaxBatches : ~ Exists(<<m, k>>)
    BY <2>1 DEF OriginsOK
  <2>4. \A k \in 0 .. MaxBatches : k = 0 \/ k \in 1 .. MaxBatches
    BY BoundsAreNumbers
  <2>. QED
    BY <2>2, <2>3, <2>4
<1>7. TakenOK'
  <2>. SUFFICES ASSUME NEW l \in Measurements, NEW k \in {-1, 0}, row'[<<l, k>>] # NoRow
                PROVE  /\ taken'[l] <= row'[<<l, k>>].created
                       /\ taken'[l] >= row'[<<l, k>>].created - LateDays * SlotsPerDay
                       /\ k = -1 /\ kind[l] \in {"eco", "run"} =>
                            taken'[l] = row'[<<l, k>>].created
    BY <1>1 DEF TakenOK, Exists
  <2>1. CASE l = m /\ k = n
    <3>1. row'[<<l, k>>].created = now /\ taken'[l] = t
      BY <1>1, <1>2, <1>3, <1>4, <1>5, <2>1
    <3>. QED
      BY <2>1, <3>1
  <2>2. CASE ~ (l = m /\ k = n)
    <3>1. row'[<<l, k>>] = row[<<l, k>>]
      BY <1>4, <1>5, <2>2
    <3>2. l # m
      <4>1. ~ Exists(<<m, -1>>)
        BY DEF Arrived, Source
      <4>2. ~ Exists(<<m, 0>>)
        BY <1>6, BoundsAreNumbers
      <4>. QED
        BY <3>1, <4>1, <4>2 DEF Exists
    <3>3. taken'[l] = taken[l]
      BY <1>1, <1>2, <3>2
    <3>. QED
      BY <3>1, <3>3 DEF SumsOK, TakenOK, Exists
  <2>. QED
    BY <2>1, <2>2
<1>8. HeldOK'
  <2>. SUFFICES ASSUME NEW l \in Measurements, counted[l] > 0
                PROVE  Arrived(l)' /\ (l \in blind \/ Kept(l)' \/ Deleted(l)')
    BY <1>1 DEF HeldOK
  <2>1. Arrived(l) /\ (l \in blind \/ Kept(l) \/ Deleted(l))
    BY DEF SumsOK, HeldOK
  <2>2. l # m
    BY <2>1
  <2>3. \A k \in -1 .. MaxBatches : row'[<<l, k>>] = row[<<l, k>>]
    BY <1>4, <2>2
  <2>4. taken'[l] = taken[l] /\ kind' = kind
    BY <1>1, <1>2, <2>2
  <2>5. Arrived(l)'
    BY <1>5, <2>1, <2>3, <2>4 DEF Arrived, Exists, Source, Added
  <2>6. CASE Kept(l)
    <3>1. Kept(l)'
      BY <1>5, <2>3, <2>6 DEF Kept, Exists
    <3>. QED
      BY <2>5, <3>1
  <2>7. CASE Deleted(l)
    <3>1. ASSUME NEW j \in Measurements, SameSum(l, j)', NEW k \in 0 .. MaxBatches
          PROVE  row'[<<j, k>>] = NoRow
      <4>1. CASE j = m
        <5>1. kind[m] \in {"eco", "run"}
          BY <2>4, <2>7, <3>1, <4>1 DEF Deleted, SameSum
        <5>2. n = -1 /\ k # -1
          BY <5>1, BoundsAreNumbers
        <5>. QED
          BY <1>4, <1>5, <1>6, <4>1, <5>2 DEF Exists
      <4>2. CASE j # m
        <5>1. taken'[j] = taken[j]
          BY <1>1, <1>2, <4>2
        <5>2. SameSum(l, j)
          BY <2>4, <3>1, <5>1 DEF SameSum, Day
        <5>3. row[<<j, k>>] = NoRow
          BY <2>7, <5>2 DEF Deleted, Exists
        <5>. QED
          BY <1>4, <1>5, <4>2, <5>3
      <4>. QED
        BY <4>1, <4>2
    <3>2. Deleted(l)'
      BY <2>4, <2>7, <3>1 DEF Deleted, Exists
    <3>. QED
      BY <2>5, <3>2
  <2>. QED
    BY <2>1, <2>5, <2>6, <2>7
<1>. QED
  BY <1>7, <1>8 DEF SumsOK

(* Arrivals.                                                               *)
LEMMA ArrivesSums ==
  ASSUME Parameters, TypeOK, TimesOK, OriginsOK, SumsOK, Arrives PROVE SumsOK'
<1>0. /\ now \in Nat /\ LateDays * SlotsPerDay \in Nat /\ MaxLateness \in Nat
      /\ now <= now /\ now >= now - LateDays * SlotsPerDay
  <2>1. now \in Nat /\ LateDays \in Nat /\ SlotsPerDay \in Nat /\ MaxLateness \in Nat
    BY RowTypes, BoundsAreNumbers
  <2>2. LateDays * SlotsPerDay \in Nat
    BY <2>1
  <2>. QED
    BY <2>1, <2>2
<1>00. ASSUME NEW m \in Measurements, ~ Arrived(m), kind[m] \in {"eco", "run"},
              NEW located, NEW given, NEW carbon,
              Insert(<<m, -1>>, now, located, given, carbon)
       PROVE  SumsOK'
  <2>1. -1 \in {-1, 0} /\ -1 # 0 /\ now \in Int /\ kind[m] \in {"eco", "hog", "run"}
    BY <1>0, <1>00
  <2>2. kind[m] \in IF -1 = 0 THEN {"custom"} ELSE {"eco", "hog", "run"}
    BY <2>1
  <2>. QED
    BY <1>0, <1>00, <2>1, <2>2, InsertSums
<1>1. ASSUME NEW m \in Measurements, EcoArrives(m) PROVE SumsOK'
  <2>1. PICK form \in Forms["eco"] :
          Insert(<<m, -1>>, now, form.geo, Given(form),
                   IF form.carbon THEN Carbon("sent") ELSE NoCarbon)
    BY <1>1 DEF EcoArrives, Source
  <2>2. PICK carbon : Insert(<<m, -1>>, now, form.geo, Given(form), carbon)
    BY <2>1
  <2>3. ~ Arrived(m) /\ kind[m] = "eco" /\ -1 # 0
    BY <1>1 DEF EcoArrives
  <2>. QED
    BY <1>00, <2>2, <2>3
<1>2. ASSUME NEW m \in Measurements, HogArrives(m) PROVE SumsOK'
  <2>1. PICK t \in (now - MaxLateness) .. now, form \in Forms["hog"] :
          Timely(t) /\ Insert(<<m, -1>>, t, FALSE, Given(form), Carbon("sent"))
    BY <1>2 DEF HogArrives, Source
  <2>2. t \in Int /\ t <= now /\ t >= now - LateDays * SlotsPerDay
    BY <1>0, <2>1 DEF Timely
  <2>3. ~ Arrived(m) /\ kind[m] = "hog" /\ -1 # 0
    BY <1>2 DEF HogArrives
  <2>. QED
    BY <2>1, <2>2, <2>3, InsertSums
<1>3. ASSUME NEW m \in Measurements, CustomArrives(m) PROVE SumsOK'
  <2>1. PICK t \in (now - MaxLateness) .. now, form \in Forms["custom"] :
          Timely(t) /\ Insert(<<m, 0>>, t, FALSE, Given(form),
                                  IF form.intensity THEN Carbon("sent") ELSE NoCarbon)
    BY <1>3 DEF CustomArrives, Added
  <2>2. PICK carbon : Insert(<<m, 0>>, t, FALSE, Given(form), carbon)
    BY <2>1
  <2>3. t \in Int /\ t <= now /\ t >= now - LateDays * SlotsPerDay
    BY <1>0, <2>1 DEF Timely
  <2>4. ~ Arrived(m) /\ kind[m] = "custom"
    BY <1>3 DEF CustomArrives
  <2>. QED
    BY <2>2, <2>3, <2>4, InsertSums
<1>4. ASSUME NEW m \in Measurements, RunStarts(m) PROVE SumsOK'
  <2>1. Insert(<<m, -1>>, now, FALSE, Unknown, NoCarbon)
    BY <1>4 DEF RunStarts, Source
  <2>2. ~ Arrived(m) /\ kind[m] = "run" /\ -1 # 0
    BY <1>4 DEF RunStarts
  <2>. QED
    BY <1>00, <2>1, <2>2
<1>5. ASSUME NEW m \in Measurements, RunEnds(m) PROVE SumsOK'
  BY <1>5, RunEndIsSteady, SteadySums
<1>. QED
  BY <1>1, <1>2, <1>3, <1>4, <1>5 DEF Arrives

(* Of measurements that share a sum all are copied or none.                *)
LEMMA SharedSums ==
  ASSUME Parameters, TypeOK, SumsOK, NEW m \in Measurements, NEW l \in Measurements,
         SameSum(m, l), kind[m] \in {"eco", "run"}, Arrived(m),
         NEW of, NEW all, l \in ToCopy(of, all)
  PROVE  m \in ToCopy(of, all)
<1>1. /\ kind[l] = of /\ kind[m] = of
      /\ Exists(<<m, -1>>) /\ Exists(<<l, -1>>)
  BY DEF ToCopy, SameSum, Arrived, Source
<1>2. taken[m] = row[<<m, -1>>].created /\ taken[l] = row[<<l, -1>>].created
  BY <1>1 DEF SumsOK, TakenOK
<1>3. Day(row[<<m, -1>>].created) = Day(row[<<l, -1>>].created)
  BY <1>2 DEF SameSum
<1>. QED
  BY <1>1, <1>3 DEF ToCopy, Recent, Source

(* A copy only adds to what there is to compress.                          *)
LEMMA CopyOverSums ==
  ASSUME Parameters, TypeOK, SumsOK, NEW of \in {"eco", "hog", "run"},
         NEW number \in 1 .. MaxBatches, NEW all \in BOOLEAN, CopyOver(of, number, all)
  PROVE  SumsOK'
<1>. DEFINE New == ToCopy(of, all)
<1>1. /\ UNCHANGED <<now, kind, taken, counted>> /\ blind \subseteq blind'
      /\ \A m \in New : row[<<m, -1>>].carbon = NoCarbon => m \in blind'
  BY DEF CopyOver, ToCopy, world, Source
<1>2. \A m \in Measurements : \A k \in -1 .. MaxBatches :
        row'[<<m, k>>] = IF k = number /\ m \in New THEN Copied(m) ELSE row[<<m, k>>]
  BY DEF CopyOver, Keys, Source
<1>3. /\ {-1, 0} \subseteq -1 .. MaxBatches /\ 0 .. MaxBatches \subseteq -1 .. MaxBatches
      /\ number \in 0 .. MaxBatches /\ number # -1 /\ number # 0
  BY BoundsAreNumbers
<1>4. \A m \in New :
        /\ Copied(m) # NoRow
        /\ row[<<m, -1>>].carbon # NoCarbon => Copied(m).carbon # NoCarbon
  <2>0. NoRow.created = -1
    BY DEF NoRow
  <2>. SUFFICES ASSUME NEW m \in New
                PROVE  /\ Copied(m).created # -1
                       /\ row[<<m, -1>>].carbon # NoCarbon => Copied(m).carbon # NoCarbon
    BY <2>0
  <2>1. m \in Measurements /\ row[<<m, -1>>] \in Row
    BY RowTypes, KeysOf DEF ToCopy
  <2>2. now # -1
    BY RowTypes, BoundsAreNumbers
  <2>. QED
    BY <2>1, <2>2 DEF Copied, Row, Source
<1>5. TakenOK'
  BY <1>1, <1>2, <1>3 DEF SumsOK, TakenOK, Exists
<1>. HIDE DEF New
<1>6. HeldOK'
  <2>. SUFFICES ASSUME NEW m \in Measurements, counted[m] > 0
                PROVE  Arrived(m)' /\ (m \in blind' \/ Kept(m)' \/ Deleted(m)')
    BY <1>1 DEF HeldOK
  <2>1. Arrived(m) /\ (m \in blind \/ Kept(m) \/ Deleted(m))
    BY DEF SumsOK, HeldOK
  <2>2. Arrived(m)'
    BY <1>1, <1>2, <1>3, <2>1 DEF Arrived, Exists, Source, Added
  <2>3. CASE m \in New /\ m \notin blind'
    <3>1. row'[<<m, number>>] # NoRow /\ row'[<<m, number>>].carbon # NoCarbon
      BY <1>1, <1>2, <1>3, <1>4, <2>3
    <3>2. Kept(m)'
      BY <1>3, <3>1 DEF Kept, Exists
    <3>. QED
      BY <2>2, <3>2
  <2>4. CASE m \notin New /\ Kept(m)
    <3>1. \A k \in 0 .. MaxBatches : row'[<<m, k>>] = row[<<m, k>>]
      BY <1>2, <1>3, <2>4
    <3>2. Kept(m)'
      BY <2>4, <3>1 DEF Kept, Exists
    <3>. QED
      BY <2>2, <3>2
  <2>5. CASE m \notin New /\ Deleted(m)
    <3>1. ASSUME NEW l \in Measurements, SameSum(m, l), NEW k \in 0 .. MaxBatches
          PROVE  row'[<<l, k>>] = NoRow
      <4>1. l \notin New
        BY <2>1, <2>5, <3>1, SharedSums DEF Deleted, New
      <4>. QED
        BY <1>2, <1>3, <2>5, <3>1, <4>1 DEF Deleted, Exists
    <3>2. Deleted(m)'
      BY <1>1, <2>5, <3>1 DEF Deleted, Exists, SameSum, Day
    <3>. QED
      BY <2>2, <3>2
  <2>. QED
    BY <1>1, <2>1, <2>2, <2>3, <2>4, <2>5
<1>. QED
  BY <1>5, <1>6 DEF SumsOK

(* The removal of duplicates leaves something to compress.                 *)
LEMMA RemoveSums ==
  ASSUME Parameters, TypeOK, OriginsOK, SumsOK, RemoveDuplicates
  PROVE  SumsOK'
<1>1. UNCHANGED <<kind, taken, counted, blind>>
  BY DEF RemoveDuplicates, world, history
<1>2. \A m \in Measurements : \A k \in -1 .. MaxBatches :
        row'[<<m, k>>] = row[<<m, k>>] \/ row'[<<m, k>>] = NoRow
  BY DEF RemoveDuplicates, Keys, Source
<1>3. {-1, 0} \subseteq -1 .. MaxBatches /\ 0 .. MaxBatches \subseteq -1 .. MaxBatches
  BY BoundsAreNumbers
<1>4. \A m \in Measurements : row'[<<m, -1>>] = row[<<m, -1>>]
  <2>1. \A m \in Measurements : <<m, -1>> \notin RawKeys
    BY BoundsAreNumbers DEF RawKeys, Added
  <2>. QED
    BY <2>1, KeysOf DEF RemoveDuplicates
<1>5. ASSUME NEW m \in Measurements, Arrived(m) PROVE Arrived(m)'
  <2>1. CASE Exists(<<m, -1>>)
    BY <1>4, <2>1 DEF Arrived, Exists, Source
  <2>2. CASE kind[m] = "custom" /\ Exists(<<m, 0>>)
    <3>1. PICK k \in 0 .. MaxBatches : row'[<<m, k>>] = row[<<m, k>>] /\ Exists(<<m, k>>)
      <4>1. 0 \in 0 .. MaxBatches
        BY BoundsAreNumbers
      <4>. QED
        BY <2>2, <4>1, LastStays
    <3>2. k \notin 1 .. MaxBatches
      BY <2>2, <3>1 DEF OriginsOK
    <3>3. k = 0
      BY <3>1, <3>2, BoundsAreNumbers
    <3>. QED
      BY <1>1, <2>2, <3>1, <3>3 DEF Arrived, Exists, Added
  <2>. QED
    BY <1>5, <2>1, <2>2 DEF Arrived, Source, Added
<1>6. TakenOK'
  BY <1>1, <1>2, <1>3 DEF SumsOK, TakenOK, Exists
<1>7. ASSUME NEW m \in Measurements, Kept(m) PROVE Kept(m)'
  <2>1. PICK n \in 0 .. MaxBatches :
          Exists(<<m, n>>) /\ row[<<m, n>>].carbon # NoCarbon
    BY <1>7 DEF Kept
  <2>2. PICK k \in 0 .. MaxBatches :
          /\ row'[<<m, k>>] = row[<<m, k>>] /\ Exists(<<m, k>>)
          /\ row[<<m, k>>].carbon = row[<<m, n>>].carbon
    BY <2>1, LastStays
  <2>. QED
    BY <2>1, <2>2 DEF Kept, Exists
<1>8. \A m \in Measurements : Deleted(m) => Deleted(m)'
  BY <1>1, <1>2, <1>3 DEF Deleted, Exists, SameSum, Day
<1>9. HeldOK'
  BY <1>1, <1>5, <1>7, <1>8 DEF SumsOK, HeldOK
<1>. QED
  BY <1>6, <1>9 DEF SumsOK

(* A sum that is not 0 has something to compress.                          *)
LEMMA CountedIsKept ==
  ASSUME Parameters, TypeOK, CompressRaw, NEW m \in SumsReplaced
  PROVE  counted'[m] > 0 <=> \E n \in 0 .. MaxBatches : Compressed(<<m, n>>)
<1>. DEFINE S == {key \in Copies(m) : Compressed(key)}
<1>1. m \in Measurements /\ counted'[m] = Cardinality(S)
  BY DEF CompressRaw, SumsReplaced
<1>2. IsFiniteSet(S) /\ Cardinality(S) \in Nat
  BY <1>1, CopiesAreFinite DEF Copies
<1>3. Cardinality(S) = 0 <=> S = {}
  BY <1>2, FS_EmptySet
<1>4. S # {} <=> \E n \in 0 .. MaxBatches : Compressed(<<m, n>>)
  <2>1. ASSUME NEW key \in S PROVE \E n \in 0 .. MaxBatches : Compressed(<<m, n>>)
    <3>1. key = <<m, key[2]>> /\ key[2] \in 0 .. MaxBatches
      BY DEF Copies, RawKeys, Added
    <3>. QED
      BY <3>1
  <2>2. ASSUME NEW n \in 0 .. MaxBatches, Compressed(<<m, n>>) PROVE <<m, n>> \in S
    BY <1>1, <2>2 DEF Copies, Compressed, RawKeys, Added
  <2>. QED
    BY <2>1, <2>2
<1>. QED
  BY <1>1, <1>2, <1>3, <1>4

(* What a compression counts is there.                                     *)
LEMMA CompressSums == ASSUME Parameters, TypeOK, SumsOK, CompressRaw PROVE SumsOK'
<1>1. UNCHANGED <<kind, taken, row, blind>>
  BY DEF CompressRaw, world, history
<1>2. TakenOK'
  BY <1>1 DEF SumsOK, TakenOK, Exists
<1>3. ASSUME NEW m \in Measurements, counted'[m] > 0
      PROVE  Arrived(m) /\ (m \in blind \/ Kept(m) \/ Deleted(m))
  <2>1. CASE m \in SumsReplaced
    <3>1. Kept(m)
      BY <1>3, <2>1, CountedIsKept DEF Kept, Compressed
    <3>. QED
      BY <2>1, <3>1 DEF SumsReplaced
  <2>2. CASE m \notin SumsReplaced
    <3>1. counted'[m] = counted[m]
      BY <2>2 DEF CompressRaw
    <3>. QED
      BY <1>3, <3>1 DEF SumsOK, HeldOK
  <2>. QED
    BY <2>1, <2>2
<1>4. \A m \in Measurements :
        /\ Arrived(m)' <=> Arrived(m)
        /\ Kept(m)' <=> Kept(m)
        /\ Deleted(m)' <=> Deleted(m)
  BY <1>1 DEF Arrived, Exists, Kept, Deleted, SameSum, Day
<1>5. HeldOK'
  BY <1>1, <1>3, <1>4 DEF HeldOK
<1>. QED
  BY <1>2, <1>5 DEF SumsOK

(* The rebuild deletes what it will bring back.                            *)
LEMMA DeleteSums == ASSUME Parameters, TypeOK, SumsOK, RebuildDeletes PROVE SumsOK'
<1>1. UNCHANGED <<kind, taken, counted>> /\ blind' = blind \ Rebuilt
  BY DEF RebuildDeletes, world
<1>2. \A m \in Measurements : \A k \in -1 .. MaxBatches :
        row'[<<m, k>>] = IF k # -1 /\ m \in Rebuilt THEN NoRow ELSE row[<<m, k>>]
  BY DEF RebuildDeletes, Keys, RawKeys, Source, Added
<1>3. {-1, 0} \subseteq -1 .. MaxBatches /\ 0 .. MaxBatches \subseteq -1 .. MaxBatches
  BY BoundsAreNumbers
<1>4. TakenOK'
  BY <1>1, <1>2, <1>3 DEF SumsOK, TakenOK, Exists
<1>5. \A m \in Measurements : Arrived(m) => Arrived(m)'
  BY <1>1, <1>2, <1>3 DEF Arrived, Exists, Source, Added, Rebuilt
<1>6. ASSUME NEW m \in Rebuilt PROVE Deleted(m)'
  <2>1. \A l \in Measurements : SameSum(m, l)' => l \in Rebuilt
    BY <1>1 DEF SameSum, Rebuilt
  <2>2. \A k \in 0 .. MaxBatches : k # -1
    BY BoundsAreNumbers
  <2>. QED
    BY <1>1, <1>2, <1>3, <2>1, <2>2 DEF Deleted, Rebuilt, Exists
<1>7. ASSUME NEW m \in Measurements, m \notin Rebuilt
      PROVE  ~ Deleted(m) /\ (Kept(m) => Kept(m)')
  BY <1>2, <1>3, <1>7 DEF Deleted, Kept, Exists, Rebuilt
<1>8. HeldOK'
  BY <1>1, <1>5, <1>6, <1>7 DEF SumsOK, HeldOK
<1>. QED
  BY <1>4, <1>8 DEF SumsOK

(* Every step keeps what is in the sums.                                   *)
LEMMA SumsStep == ASSUME CarbonInv, SumsOK, [Next]_vars PROVE SumsOK'
<1>0. /\ Parameters /\ TypeOK /\ TimesOK /\ OriginsOK /\ NumbersOK
      /\ batches \in 0 .. MaxBatches /\ MaxBatches \in Nat
  BY BoundsAreNumbers DEF CarbonInv, TypeOK
<1>1. CASE \/ Tick \/ CopierDies \/ RebuildDies \/ UNCHANGED vars
  <2>1. UNCHANGED <<kind, taken, row, counted, blind>>
    BY <1>1 DEF Tick, CopierDies, RebuildDies, vars, world, history
  <2>2. Steady
    BY <2>1 DEF Steady
  <2>. QED
    BY <1>0, <2>1, <2>2, SteadySums
<1>2. CASE Arrives
  BY <1>0, <1>2, ArrivesSums
<1>3. CASE Backfill
  <2>1. Steady /\ UNCHANGED <<kind, taken, counted, blind>>
    BY <1>0, <1>3, BackfillIsSteady
  <2>. QED
    BY <1>0, <2>1, SteadySums
<1>4. CASE StartCopying
  <2>1. batches + 1 \in 1 .. MaxBatches
    BY <1>0, <1>4 DEF StartCopying
  <2>. QED
    BY <1>0, <1>4, <2>1, CopyOverSums DEF StartCopying
<1>5. CASE CopyKind
  <2>1. copier.number \in 0 .. batches /\ copier.number > 0
    BY <1>0, <1>5 DEF CopyKind, NumbersOK, TypeOK
  <2>2. copier.number \in 1 .. MaxBatches
    BY <1>0, <2>1
  <2>. QED
    BY <1>0, <1>5, <2>2, CopyOverSums DEF CopyKind
<1>6. CASE RebuildCopies
  <2>1. rebuild.number \in 0 .. batches /\ rebuild.number > 0
    BY <1>0, <1>6 DEF RebuildCopies, NumbersOK, TypeOK
  <2>2. rebuild.number \in 1 .. MaxBatches
    BY <1>0, <2>1
  <2>. QED
    BY <1>0, <1>6, <2>2, CopyOverSums DEF RebuildCopies
<1>7. CASE CopierRemoves \/ RebuildRemoves
  BY <1>0, <1>7, RemoveSums DEF CopierRemoves, RebuildRemoves
<1>8. CASE Compress \/ RebuildCompresses
  BY <1>0, <1>8, CompressSums DEF Compress, RebuildCompresses
<1>9. CASE StartRebuild
  <2>1. UNCHANGED <<kind, taken, row>> /\ \A m \in Measurements : counted'[m] = 0
    BY <1>9 DEF StartRebuild, world
  <2>. QED
    BY <2>1 DEF SumsOK, TakenOK, HeldOK, Exists
<1>10. CASE RebuildDeletes
  BY <1>0, <1>10, DeleteSums
<1>. QED
  BY <1>1, <1>2, <1>3, <1>4, <1>5, <1>6, <1>7, <1>8, <1>9, <1>10 DEF Next, Copy, Rebuild

-----------------------------------------------------------------------------
(* Tables and scripts keep their types.                                    *)
THEOREM CarbonTypesHold == Spec => []TypeOK
<1>1. CarbonInv => TypeOK
  BY DEF CarbonInv
<1>. QED
  BY <1>1, CarbonInvariant, PTL

(* A compression after a completed removal counts a measurement whose      *)
(* copies were not taken blind once, however the scripts overlap, repeat   *)
(* or die.                                                                 *)
THEOREM MeasurementsCountOnce == Spec => CountedOnce
<1>1. CarbonInv => (Compress \/ RebuildCompresses =>
        \A m \in Measurements \ (blind \cup again) :
          (\E key \in Copies(m) : Compressed(key)) => counted'[m] = 1)
  BY CompressCounts DEF Compress, RebuildCompresses
<1>. QED
  BY <1>1, CarbonInvariant, PTL DEF CountedOnce

-----------------------------------------------------------------------------
(* The removal leaves the last copy.                                       *)
LEMMA RemovalsLeaveOne ==
  ASSUME CarbonInv, CopierRemoves \/ RebuildRemoves, NEW a \in RawKeys, Exists(a)
  PROVE  \E b \in RawKeys :
           b[1] = a[1] /\ row'[b] # NoRow /\ row'[b].carbon = row[a].carbon
<1>1. a = <<a[1], a[2]>> /\ a[1] \in Measurements /\ a[2] \in 0 .. MaxBatches
  BY DEF RawKeys, Added
<1>2. Parameters /\ TypeOK /\ RemoveDuplicates
  BY DEF CarbonInv, CopierRemoves, RebuildRemoves
<1>3. PICK k \in 0 .. MaxBatches :
        /\ row'[<<a[1], k>>] = row[<<a[1], k>>] /\ Exists(<<a[1], k>>)
        /\ row[<<a[1], k>>].carbon = row[<<a[1], a[2]>>].carbon
  BY <1>1, <1>2, LastStays
<1>4. <<a[1], k>> \in RawKeys
  BY <1>1 DEF RawKeys, Added
<1>. QED
  BY <1>1, <1>3, <1>4 DEF Exists

(* A row is summed that is in the raw table and lies in both windows.      *)
LEMMA LateOnesCount ==
  ASSUME CarbonInv, SumsOK, Compress, NEW key \in RawKeys, Exists(key),
         row[key].carbon # NoCarbon,
         \/ key[2] = Added /\ Day(now) - Day(row[key].created) <= MergeDays - LateDays
         \/ /\ Exists(<<key[1], Source>>)
            /\ Day(now) - Day(row[<<key[1], Source>>].created) <= MergeDays - LateDays
  PROVE  counted'[key[1]] > 0
<1>. DEFINE m == key[1]
<1>1. key = <<m, key[2]>> /\ m \in Measurements /\ key[2] \in 0 .. MaxBatches
  BY DEF RawKeys, Added
<1>2. Parameters /\ TypeOK /\ OriginsOK /\ CompressRaw
  BY DEF CarbonInv, Compress
<1>3. PICK n \in {-1, 0} :
        /\ Exists(<<m, n>>) /\ Day(now) - Day(row[<<m, n>>].created) <= MergeDays - LateDays
        /\ n = 0 => kind[m] = "custom"
  BY <1>1, <1>2 DEF Added, Source, OriginsOK
<1>4. Arrived(m)
  BY <1>3 DEF Arrived, Source, Added
<1>5. Recent(taken[m])
  <2>. DEFINE c == row[<<m, n>>].created
  <2>1. c \in Int /\ taken[m] \in Int /\ now \in Int
    <3>1. MaxTime \in Nat /\ MaxLateness \in Nat
      BY <1>2, BoundsAreNumbers
    <3>2. row[<<m, n>>] \in Row
      BY <1>1, <1>2, <1>3, RowTypes, KeysOf
    <3>3. c \in -1 .. MaxTime /\ taken[m] \in -MaxLateness .. MaxTime /\ now \in 0 .. MaxTime
      BY <1>1, <1>2, <3>2 DEF TypeOK, Row
    <3>. QED
      BY <3>1, <3>3
  <2>2. taken[m] >= c - LateDays * SlotsPerDay
    BY <1>1, <1>3 DEF SumsOK, TakenOK
  <2>3. LateDays \in Nat /\ SlotsPerDay \in Nat \ {0} /\ MergeDays \in Nat
    BY <1>2, BoundsAreNumbers
  <2>. HIDE DEF c
  <2>4. (taken[m] \div SlotsPerDay) >= (c \div SlotsPerDay) - LateDays
    BY <2>1, <2>2, <2>3, DaysOfLateness
  <2>5. (now \div SlotsPerDay) - (c \div SlotsPerDay) <= MergeDays - LateDays
    BY <1>3 DEF Day, c
  <2>6. /\ now \div SlotsPerDay \in Int /\ c \div SlotsPerDay \in Int
        /\ taken[m] \div SlotsPerDay \in Int
    BY <2>1, <2>3
  <2>7. (taken[m] \div SlotsPerDay) >= (now \div SlotsPerDay) - MergeDays
    BY <2>3, <2>4, <2>5, <2>6
  <2>. QED
    BY <2>7 DEF Recent, Day
<1>6. Compressed(key)
  BY <1>5 DEF Compressed
<1>7. m \in SumsReplaced
  BY <1>1, <1>4, <1>6 DEF SumsReplaced, SameSum
<1>. QED
  BY <1>1, <1>2, <1>6, <1>7, CountedIsKept

(* A sum that is replaced still holds what it held.                        *)
LEMMA SumsHoldOn ==
  ASSUME CarbonInv, SumsOK, [Next]_vars, NEW m \in Measurements \ blind,
         counted[m] > 0, counted'[m] = 0
  PROVE  rebuilds' # rebuilds
<1>1. Parameters /\ TypeOK
  BY DEF CarbonInv
<1>2. ASSUME CompressRaw PROVE FALSE
  <2>1. m \in SumsReplaced
    BY <1>2 DEF CompressRaw
  <2>2. PICK key \in RawKeys : Compressed(key) /\ SameSum(m, key[1])
    BY <2>1 DEF SumsReplaced
  <2>3. key = <<key[1], key[2]>> /\ key[1] \in Measurements /\ key[2] \in 0 .. MaxBatches
    BY DEF RawKeys, Added
  <2>4. ~ Deleted(m)
    BY <2>2, <2>3 DEF Deleted, Compressed
  <2>5. Kept(m)
    BY <2>4 DEF SumsOK, HeldOK
  <2>6. Recent(taken[m])
    BY <2>2 DEF Compressed, SameSum, Recent
  <2>7. \E n \in 0 .. MaxBatches : Compressed(<<m, n>>)
    BY <2>5, <2>6 DEF Kept, Compressed
  <2>8. counted'[m] > 0
    BY <1>1, <1>2, <2>1, <2>7, CountedIsKept
  <2>. QED
    BY <2>8
<1>3. CASE StartRebuild
  <2>1. rebuilds' = rebuilds + 1 /\ rebuilds \in Nat
    BY <1>1, <1>3, BoundsAreNumbers DEF StartRebuild, TypeOK
  <2>. QED
    BY <2>1
<1>4. CASE Compress \/ RebuildCompresses
  BY <1>2, <1>4 DEF Compress, RebuildCompresses
<1>5. CASE \/ Tick \/ Arrives \/ Backfill \/ Copy \/ RebuildDeletes
           \/ RebuildCopies \/ RebuildRemoves \/ RebuildDies \/ UNCHANGED vars
  <2>1. counted' = counted
    BY <1>5 DEF Tick, Arrives, EcoArrives, HogArrives, CustomArrives, RunStarts,
         RunEnds, Insert, Backfill, GeoTable, GeoEnds, GeoFill, IntensityTable,
         IntensityFill, UpdateCarbon, IntensityEnds, Copy, StartCopying, CopyKind,
         CopierRemoves, CopierDies, RebuildDeletes, RebuildCopies, RebuildRemoves,
         RebuildDies, CopyOver, RemoveDuplicates, vars
  <2>. QED
    BY <2>1
<1>. QED
  BY <1>3, <1>4, <1>5 DEF Next, Rebuild

(* The sums' part of the invariant.                                        *)
LEMMA SumsInvariant == Spec => [](CarbonInv /\ SumsOK)
<1>1. Init => SumsOK
  <2>1. ASSUME Init, NEW m \in Measurements, NEW n \in {-1, 0} PROVE ~ Exists(<<m, n>>)
    <3>1. <<m, n>> \in Keys
      BY KeysOf, ParametersFit
    <3>2. row[<<m, n>>] = NoRow
      BY <2>1, <3>1 DEF Init
    <3>. QED
      BY <3>2 DEF Exists
  <2>2. Init => \A m \in Measurements : counted[m] = 0
    BY DEF Init
  <2>. QED
    BY <2>1, <2>2 DEF SumsOK, TakenOK, HeldOK
<1>2. CarbonInv /\ SumsOK /\ [Next]_vars => SumsOK'
  BY SumsStep
<1>. QED
  BY <1>1, <1>2, CarbonInvariant, PTL DEF Spec

(* What suits a row is of its measurement's time: the row from which it    *)
(* comes was created when the measurement arrived, or it is a blind copy.  *)
LEMMA SuitedFits ==
  ASSUME CarbonInv, SumsOK, NEW key \in Keys, row[key].carbon.of \in Readings
  PROVE  LET m == key[1] IN
         LET r == row[key].carbon.of IN
         /\ r.place = Place[m]
         /\ \/ Distance(r.at, taken[m]) < Accuracy + Lateness(m)
            \/ m \in blind /\ Distance(r.at, row[key].created) < Accuracy
<1>. DEFINE m == key[1]
            r == row[key].carbon.of
<1>1. /\ Parameters /\ TypeOK /\ TimesOK /\ OriginsOK /\ SuitedOK /\ TakenOK
      /\ key = <<m, key[2]>> /\ m \in Measurements /\ key[2] \in -1 .. MaxBatches
  BY KeyParts DEF CarbonInv, SumsOK
<1>2. Exists(key)
  BY NoReadings DEF Exists
<1>3. Suits(key, r, row[key].created, row[<<m, -1>>].created, blind)
  BY <1>1 DEF SuitedOK
<1>4. /\ now \in Nat /\ MaxLateness \in Nat /\ MaxTime \in Nat
      /\ BackfillWindow \in Nat /\ MaxDelay \in Nat
  BY <1>1, RowTypes, BoundsAreNumbers
<1>5. taken[m] \in Int /\ r.at \in Nat
  BY <1>1, <1>4 DEF TypeOK, Readings
<1>6. Accuracy \in Nat
  BY <1>4 DEF Accuracy
<1>7. ASSUME NEW n \in {-1, 0}, Exists(<<m, n>>), Origin(m) = <<m, n>>,
             Distance(r.at, row[<<m, n>>].created) < Accuracy
      PROVE  Distance(r.at, taken[m]) < Accuracy + Lateness(m)
  <2>. DEFINE c == row[<<m, n>>].created
  <2>1. c \in 0 .. now
    BY <1>1, <1>7, KeysOf DEF TimesOK
  <2>2. taken[m] <= c
    BY <1>1, <1>7 DEF TakenOK
  <2>3. Lateness(m) = c - taken[m]
    BY <1>7 DEF Lateness
  <2>4. Distance(r.at, c) < Accuracy
    BY <1>7
  <2>. HIDE DEF c, r, m
  <2>. QED
    BY <1>4, <1>5, <1>6, <2>1, <2>2, <2>3, <2>4 DEF Distance
<1>8. CASE key[2] = -1
  <2>1. Exists(<<m, -1>>) /\ kind[m] # "custom" /\ key = <<m, -1>>
    BY <1>1, <1>2, <1>8 DEF OriginsOK
  <2>2. Origin(m) = <<m, -1>>
    BY <2>1 DEF Origin, Source
  <2>3. Distance(r.at, row[<<m, -1>>].created) < Accuracy
    BY <1>3, <1>8, <2>1 DEF Suits
  <2>. QED
    BY <1>3, <1>7, <2>1, <2>2, <2>3 DEF Suits
<1>9. CASE key[2] = 0
  <2>1. Exists(<<m, 0>>) /\ kind[m] = "custom" /\ key = <<m, 0>>
    BY <1>1, <1>2, <1>9 DEF OriginsOK
  <2>2. Origin(m) = <<m, 0>>
    BY <2>1 DEF Origin, Added
  <2>3. Distance(r.at, row[<<m, 0>>].created) < Accuracy
    BY <1>3, <1>9, <2>1 DEF Suits
  <2>. QED
    BY <1>3, <1>7, <2>1, <2>2, <2>3 DEF Suits
<1>10. CASE key[2] \in 1 .. MaxBatches
  <2>1. Exists(<<m, -1>>) /\ kind[m] # "custom"
    BY <1>1, <1>2, <1>10 DEF OriginsOK
  <2>2. Origin(m) = <<m, -1>>
    BY <2>1 DEF Origin, Source
  <2>3. CASE Distance(r.at, row[<<m, -1>>].created) < Accuracy
    BY <1>3, <1>7, <2>1, <2>2, <2>3 DEF Suits
  <2>4. CASE m \in blind /\ Distance(r.at, row[key].created) < Accuracy
    BY <1>3, <2>4 DEF Suits
  <2>5. key[2] > 0
    BY <1>10
  <2>. QED
    BY <1>3, <2>3, <2>4, <2>5 DEF Suits
<1>11. key[2] = -1 \/ key[2] = 0 \/ key[2] \in 1 .. MaxBatches
  BY <1>1, BoundsAreNumbers
<1>. QED
  BY <1>8, <1>9, <1>10, <1>11

(* Carbon is computed with an intensity of the place and of the time at    *)
(* which a measurement was taken, but for the delay of its arrival, the    *)
(* look-back and the duration of the back-fill; copies that were made      *)
(* blind may get that of the time of the copy.                             *)
THEOREM IntensitiesFit == Spec => []CarbonIsOfItsTime
<1>1. CarbonInv /\ SumsOK => CarbonIsOfItsTime
  BY SuitedFits DEF CarbonIsOfItsTime
<1>. QED
  BY <1>1, SumsInvariant, PTL

(* What reached the raw table is not lost again, whatever scripts overlap  *)
(* or die: the removal leaves the last copy, a compression counts what     *)
(* came in late, and takes nothing out of a sum that was in it.            *)
THEOREM SumsHold == Spec => SumsAreWhole
<1>1. CarbonInv => (CopierRemoves \/ RebuildRemoves =>
        \A a \in RawKeys : Exists(a) =>
          \E b \in RawKeys : b[1] = a[1] /\ row'[b] # NoRow /\ row'[b].carbon = row[a].carbon)
  BY RemovalsLeaveOne
<1>2. CarbonInv /\ SumsOK => (Compress =>
        \A key \in RawKeys :
          /\ Exists(key) /\ row[key].carbon # NoCarbon
          /\ \/ key[2] = Added /\ Day(now) - Day(row[key].created) <= MergeDays - LateDays
             \/ Exists(<<key[1], Source>>)
                /\ Day(now) - Day(row[<<key[1], Source>>].created) <= MergeDays - LateDays
          => counted'[key[1]] > 0)
  BY LateOnesCount
<1>3. CarbonInv /\ SumsOK /\ [Next]_vars =>
        \A m \in Measurements \ blind :
          counted[m] > 0 /\ counted'[m] = 0 => rebuilds' # rebuilds
  BY SumsHoldOn
<1>4. Spec => LastCopyStays
  BY <1>1, CarbonInvariant, PTL DEF LastCopyStays, Spec
<1>5. Spec => LateArrivalsCount
  BY <1>2, SumsInvariant, PTL DEF LateArrivalsCount, Spec
<1>6. Spec => SumsAreKept
  BY <1>3, SumsInvariant, PTL DEF SumsAreKept, Spec
<1>. QED
  BY <1>4, <1>5, <1>6 DEF SumsAreWhole

=============================================================================
