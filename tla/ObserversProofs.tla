--------------------------- MODULE ObserversProofs ---------------------------
(***************************************************************************)
(* Proofs about systems of Stores whose files outlive what wrote them: the *)
(* engagement collector, the observation lineage and the checkpoint        *)
(* migration, each as in StoresProofs: the inductive invariant of one      *)
(* system, the lemmas of its steps, and the theorems of the sum.           *)
(***************************************************************************)
EXTENDS Stores, SequenceFacts

-----------------------------------------------------------------------------
(* The engagement collector.  It renames over the history what it read     *)
(* some steps before, and says that its row is durable some steps after.   *)
(* The invariant says what holds in between: the lock is its own, what it  *)
(* read is still the history, and from the directory fsync on its row is   *)
(* in every content a power loss may leave, whoever commits next.          *)

ECEarly == {"idle", "startup", "result", "join", "decode", "before", "lock",
          "read", "write", "replace", "failing"}
ECLate == {"sync", "preview", "report", "done", "dead"}
ECLocked == {"read", "write", "replace", "sync"}
ECStates == {"PRE_COMMIT", "DEDUPED", "COMMITTED", "DURABLE"}
ECTxn == [state : ECStates, preview : {"NOT_ATTEMPTED", "UPDATED", "FAILED"},
        error : {None, "TOTAL_DEADLINE_EXCEEDED"}, warning : BOOLEAN]

ECTypeOK ==
    /\ ecPc \in [Process -> ECEarly \cup ECLate]
    /\ ecRow \in [Process -> Text \cup {None}]
    /\ ecTxn \in [Process -> ECTxn]
    /\ DOMAIN ecView = Process /\ DOMAIN ecAnswer = Process
    /\ ecHistory \in ecKept

\* From the lock to the directory fsync.
ECHeldLock == \A c \in Process : ecPc[c] \in ECLocked => ecLock = c

\* What was read under the lock is still the history.
ECFreshView == \A c \in Process : ecPc[c] \in {"write", "replace"} => ecView[c] = ecHistory.rows

\* The state of the commit at each place, and that nothing is answered before.
ECStateInv ==
    \A c \in Process :
        /\ ecPc[c] \in ECEarly => ecTxn[c].state = "PRE_COMMIT"
        /\ ecPc[c] = "sync" => ecTxn[c].state = "COMMITTED" /\ ecRow[c] \in ecHistory.rows
        /\ ecAnswer[c] # None => ecPc[c] = "done"

\* A row with a durable state is in whatever a power loss may leave.
ECDurableRows ==
    \A c \in Process : ecTxn[c].state = "DURABLE" => \A h \in ecKept : ecRow[c] \in h.rows

\* What was answered as durable has that state.
ECAnswerInv ==
    \A c \in Process :
        ecAnswer[c] # None /\ ~ecAnswer[c].found /\ (ecAnswer[c].well \/ ecAnswer[c].state = "DURABLE")
            => ecTxn[c].state = "DURABLE"

\* Who renamed its row into place is the one whose commit's state says so, and
\* that is what was answered.
ECToldInv ==
    /\ \A c \in Process : c \in ecWrote <=> ecTxn[c].state \in {"COMMITTED", "DURABLE"}
    /\ \A c \in Process : ecAnswer[c] # None =>
          /\ ecAnswer[c].state = "PRE_COMMIT" <=> ecTxn[c].state = "PRE_COMMIT"
          /\ ecAnswer[c].found <=> ecTxn[c].state = "DEDUPED"

\* A worker that was reaped was released with that, and its collector is past
\* the place where it would own it.
ECWorkerInv ==
    /\ DOMAIN ecWorker = Process /\ DOMAIN ecOwner = Process
    /\ \A c \in Process : ecWorker[c] = "reaped" =>
          ecOwner[c] = "RELEASED" /\ ecPc[c] \notin {"idle", "startup"}
    /\ ~ecSignalled

ECIInv ==
    /\ ECTypeOK /\ ECHeldLock /\ ECFreshView /\ ECStateInv /\ ECDurableRows /\ ECAnswerInv
    /\ ECToldInv /\ ECWorkerInv

\* The commit's state is one field of the transaction.
LEMMA ECSetState ==
    ASSUME ECTypeOK, NEW c \in Process, NEW s \in ECStates, ecTxn' = [ecTxn EXCEPT ![c].state = s]
    PROVE  /\ ecTxn' \in [Process -> ECTxn]
           /\ ecTxn'[c].state = s
           /\ \A d \in Process : d # c => ecTxn'[d] = ecTxn[d]
<1>1. [ecTxn[c] EXCEPT !.state = s] \in ECTxn /\ [ecTxn[c] EXCEPT !.state = s].state = s
  BY DEF ECTypeOK, ECTxn
<1>2. QED BY <1>1 DEF ECTypeOK

\* A sync makes the state durable, or leaves it and warns.
LEMMA ECSyncTxn ==
    ASSUME ECTypeOK, NEW c \in Process, EC!Sync(c)
    PROVE  /\ ecTxn' \in [Process -> ECTxn]
           /\ \A d \in Process : d # c => ecTxn'[d] = ecTxn[d]
           /\ \/ ecKept' = {ecHistory} /\ ecTxn'[c].state = "DURABLE"
              \/ ecKept' = ecKept /\ ecTxn'[c].state = ecTxn[c].state
<1>1. CASE ecKept' = {ecHistory} /\ ecTxn' = [ecTxn EXCEPT ![c].state = "DURABLE"]
  BY <1>1, ECSetState DEF ECStates
<1>2. CASE ecKept' = ecKept /\ ecTxn' = [ecTxn EXCEPT ![c].warning = TRUE]
  <2>1. /\ [ecTxn[c] EXCEPT !.warning = TRUE] \in ECTxn
        /\ [ecTxn[c] EXCEPT !.warning = TRUE].state = ecTxn[c].state
    BY DEF ECTypeOK, ECTxn
  <2>2. QED BY <1>2, <2>1 DEF ECTypeOK
<1>3. QED BY <1>1, <1>2 DEF EC!Sync

\* The previews change nothing of the state.
LEMMA ECPreviewTxn ==
    ASSUME ECTypeOK, NEW c \in Process, EC!Preview(c)
    PROVE  /\ ecTxn' \in [Process -> ECTxn]
           /\ \A d \in Process : ecTxn'[d].state = ecTxn[d].state
<1>1. PICK p \in {"UPDATED", "FAILED", "NOT_ATTEMPTED"}, e \in {None, "TOTAL_DEADLINE_EXCEEDED"} :
         ecTxn' = [ecTxn EXCEPT ![c].preview = p, ![c].error = e]
  BY DEF EC!Preview
<1>2. /\ [ecTxn[c] EXCEPT !.preview = p, !.error = e] \in ECTxn
      /\ [ecTxn[c] EXCEPT !.preview = p, !.error = e].state = ecTxn[c].state
  BY DEF ECTypeOK, ECTxn
<1>3. QED BY <1>1, <1>2 DEF ECTypeOK

\* Every step keeps the types, and what is shown may be left by a power
\* loss.
LEMMA ECTypeStep == ASSUME ECIInv, [EC!Next]_ecVars PROVE ECTypeOK'
<1> USE DEF ECIInv, ECTypeOK, EC!file, ECEarly, ECLate, ECStates
<1>1. ASSUME NEW c \in Process, EC!Start(c) PROVE ECTypeOK'
  BY <1>1 DEF EC!Start, EC!Goes, EC!Answers
<1>2. ASSUME NEW c \in Process, EC!Read(c) PROVE ECTypeOK'
  BY <1>2, ECSetState DEF EC!Read, EC!Goes
<1>3. ASSUME NEW c \in Process, EC!Replace(c) PROVE ECTypeOK'
  BY <1>3, ECSetState DEF EC!Replace, EC!Goes
<1>4. ASSUME NEW c \in Process, EC!Sync(c) PROVE ECTypeOK'
  BY <1>4, ECSyncTxn DEF EC!Sync, EC!Goes
<1>5. ASSUME NEW c \in Process, EC!Preview(c) PROVE ECTypeOK'
  BY <1>5, ECPreviewTxn DEF EC!Preview, EC!Goes
<1>6. ASSUME NEW c \in Process, EC!Report(c) PROVE ECTypeOK'
  BY <1>6 DEF EC!Report, EC!Goes, EC!Answers, EC!Counted
<1>7. ASSUME NEW c \in Process,
             \/ EC!WorkerExits(c) \/ EC!Ready(c) \/ EC!Result(c) \/ EC!Join(c) \/ EC!Decode(c)
             \/ EC!Fail(c) \/ EC!Raises(c) \/ EC!Before(c) \/ EC!Lock(c) \/ EC!Write(c)
             \/ EC!Dies(c)
      PROVE  ECTypeOK'
  BY <1>7 DEF EC!WorkerExits, EC!Ready, EC!Result, EC!Join, EC!Decode, EC!Fail, EC!Raises,
     EC!Before, EC!Lock, EC!Write, EC!Dies, EC!Goes, EC!Answers, EC!Reaps
<1>8. CASE EC!PowerLoss \/ UNCHANGED ecVars
  BY <1>8 DEF EC!PowerLoss, ecVars
<1>9. QED BY <1>1, <1>2, <1>3, <1>4, <1>5, <1>6, <1>7, <1>8 DEF EC!Next

\* The lock is waited for, and given up on every way out.
LEMMA ECLockStep == ASSUME ECIInv, None \notin Process, [EC!Next]_ecVars PROVE ECHeldLock'
<1> USE DEF ECIInv, ECTypeOK, EC!file, ECHeldLock, ECLocked, ECEarly, ECLate
<1>1. ASSUME NEW c \in Process, EC!Raises(c) PROVE ECHeldLock'
  BY <1>1 DEF EC!Raises, EC!Goes
<1>2. ASSUME NEW c \in Process, EC!Lock(c) PROVE ECHeldLock'
  BY <1>2 DEF EC!Lock, EC!Goes
<1>3. ASSUME NEW c \in Process, EC!Read(c) PROVE ECHeldLock'
  BY <1>3, ECSetState DEF EC!Read, EC!Goes
<1>4. ASSUME NEW c \in Process, EC!Sync(c) PROVE ECHeldLock'
  BY <1>4, ECSyncTxn DEF EC!Sync, EC!Goes
<1>5. ASSUME NEW c \in Process, EC!Dies(c) PROVE ECHeldLock'
  BY <1>5 DEF EC!Dies, EC!Goes
<1>6. ASSUME NEW c \in Process,
             \/ EC!Start(c) \/ EC!WorkerExits(c) \/ EC!Ready(c) \/ EC!Result(c) \/ EC!Join(c)
             \/ EC!Decode(c) \/ EC!Fail(c) \/ EC!Before(c) \/ EC!Write(c) \/ EC!Replace(c)
             \/ EC!Preview(c) \/ EC!Report(c)
      PROVE  ECHeldLock'
  BY <1>6 DEF EC!Start, EC!WorkerExits, EC!Ready, EC!Result, EC!Join, EC!Decode, EC!Fail, EC!Before,
     EC!Write, EC!Replace, EC!Preview, EC!Report, EC!Goes, EC!Answers, EC!Counted, EC!Reaps
<1>7. CASE EC!PowerLoss \/ UNCHANGED ecVars
  BY <1>7 DEF EC!PowerLoss, ecVars
<1>8. QED BY <1>1, <1>2, <1>3, <1>4, <1>5, <1>6, <1>7 DEF EC!Next

\* Only the holder of the lock changes the history.
LEMMA ECViewStep == ASSUME ECIInv, None \notin Process, [EC!Next]_ecVars PROVE ECFreshView'
<1> USE DEF ECIInv, ECTypeOK, EC!file, ECHeldLock, ECFreshView, ECLocked
<1>1. ASSUME NEW c \in Process, EC!Read(c) PROVE ECFreshView'
  BY <1>1, ECSetState DEF EC!Read, EC!Goes
<1>2. ASSUME NEW c \in Process, EC!Write(c) PROVE ECFreshView'
  BY <1>2 DEF EC!Write, EC!Goes
<1>3. ASSUME NEW c \in Process, EC!Replace(c) PROVE ECFreshView'
  BY <1>3, ECSetState DEF EC!Replace, EC!Goes
<1>4. ASSUME NEW c \in Process, EC!Sync(c) PROVE ECFreshView'
  BY <1>4, ECSyncTxn DEF EC!Sync, EC!Goes
<1>5. ASSUME NEW c \in Process,
             \/ EC!Start(c) \/ EC!WorkerExits(c) \/ EC!Ready(c) \/ EC!Result(c) \/ EC!Join(c)
             \/ EC!Decode(c) \/ EC!Fail(c) \/ EC!Raises(c) \/ EC!Before(c) \/ EC!Lock(c)
             \/ EC!Preview(c) \/ EC!Report(c) \/ EC!Dies(c)
      PROVE  ECFreshView'
  BY <1>5 DEF EC!Start, EC!WorkerExits, EC!Ready, EC!Result, EC!Join, EC!Decode, EC!Fail, EC!Raises,
     EC!Before, EC!Lock, EC!Preview, EC!Report, EC!Dies, EC!Goes, EC!Answers, EC!Counted, EC!Reaps
<1>6. CASE EC!PowerLoss \/ UNCHANGED ecVars
  BY <1>6 DEF EC!PowerLoss, ecVars
<1>7. QED BY <1>1, <1>2, <1>3, <1>4, <1>5, <1>6 DEF EC!Next

\* The commit's state follows the place.
LEMMA ECStateStep == ASSUME ECIInv, None \notin Process, [EC!Next]_ecVars PROVE ECStateInv'
<1> USE DEF ECIInv, ECTypeOK, EC!file, ECHeldLock, ECFreshView, ECStateInv, ECLocked,
           ECEarly, ECLate, ECStates
<1>1. ASSUME NEW c \in Process, EC!Start(c) PROVE ECStateInv'
  BY <1>1 DEF EC!Start, EC!Goes, EC!Answers
<1>2. ASSUME NEW c \in Process, EC!Decode(c) PROVE ECStateInv'
  BY <1>2 DEF EC!Decode, EC!Goes
<1>3. ASSUME NEW c \in Process, EC!Fail(c) PROVE ECStateInv'
  BY <1>3 DEF EC!Fail, EC!Goes, EC!Answers, EC!Reaps
<1>4. ASSUME NEW c \in Process, EC!Read(c) PROVE ECStateInv'
  BY <1>4, ECSetState DEF EC!Read, EC!Goes
<1>5. ASSUME NEW c \in Process, EC!Replace(c) PROVE ECStateInv'
  BY <1>5, ECSetState DEF EC!Replace, EC!Goes
<1>6. ASSUME NEW c \in Process, EC!Sync(c) PROVE ECStateInv'
  BY <1>6, ECSyncTxn DEF EC!Sync, EC!Goes
<1>7. ASSUME NEW c \in Process, EC!Preview(c) PROVE ECStateInv'
  BY <1>7, ECPreviewTxn DEF EC!Preview, EC!Goes
<1>8. ASSUME NEW c \in Process, EC!Report(c) PROVE ECStateInv'
  BY <1>8 DEF EC!Report, EC!Goes, EC!Answers, EC!Counted
<1>9. ASSUME NEW c \in Process,
             \/ EC!WorkerExits(c) \/ EC!Ready(c) \/ EC!Result(c) \/ EC!Join(c) \/ EC!Raises(c)
             \/ EC!Before(c) \/ EC!Lock(c) \/ EC!Write(c) \/ EC!Dies(c)
      PROVE  ECStateInv'
  BY <1>9 DEF EC!WorkerExits, EC!Ready, EC!Result, EC!Join, EC!Raises, EC!Before, EC!Lock, EC!Write,
     EC!Dies, EC!Goes, EC!Reaps
<1>10. CASE EC!PowerLoss \/ UNCHANGED ecVars
  BY <1>10 DEF EC!PowerLoss, ecVars
<1>11. QED BY <1>1, <1>2, <1>3, <1>4, <1>5, <1>6, <1>7, <1>8, <1>9, <1>10 DEF EC!Next

\* What is added to the history keeps its rows, and a sync leaves it alone.
LEMMA ECDurableStep == ASSUME ECIInv, None \notin Process, [EC!Next]_ecVars PROVE ECDurableRows'
<1> USE DEF ECIInv, ECTypeOK, EC!file, ECHeldLock, ECFreshView, ECStateInv, ECDurableRows,
           ECLocked, ECEarly, ECStates
<1>1. ASSUME NEW c \in Process, EC!Decode(c) PROVE ECDurableRows'
  BY <1>1 DEF EC!Decode, EC!Goes
<1>2. ASSUME NEW c \in Process, EC!Read(c) PROVE ECDurableRows'
  BY <1>2, ECSetState DEF EC!Read, EC!Goes
<1>3. ASSUME NEW c \in Process, EC!Replace(c) PROVE ECDurableRows'
  BY <1>3, ECSetState DEF EC!Replace, EC!Goes
<1>4. ASSUME NEW c \in Process, EC!Sync(c) PROVE ECDurableRows'
  BY <1>4, ECSyncTxn DEF EC!Sync, EC!Goes
<1>5. ASSUME NEW c \in Process, EC!Preview(c) PROVE ECDurableRows'
  BY <1>5, ECPreviewTxn DEF EC!Preview, EC!Goes
<1>6. ASSUME NEW c \in Process,
             \/ EC!Start(c) \/ EC!WorkerExits(c) \/ EC!Ready(c) \/ EC!Result(c) \/ EC!Join(c)
             \/ EC!Fail(c) \/ EC!Raises(c) \/ EC!Before(c) \/ EC!Lock(c) \/ EC!Write(c)
             \/ EC!Report(c) \/ EC!Dies(c)
      PROVE  ECDurableRows'
  BY <1>6 DEF EC!Start, EC!WorkerExits, EC!Ready, EC!Result, EC!Join, EC!Fail, EC!Raises, EC!Before,
     EC!Lock, EC!Write, EC!Report, EC!Dies, EC!Goes, EC!Answers, EC!Counted, EC!Reaps
<1>7. CASE EC!PowerLoss \/ UNCHANGED ecVars
  BY <1>7 DEF EC!PowerLoss, ecVars
<1>8. QED BY <1>1, <1>2, <1>3, <1>4, <1>5, <1>6, <1>7 DEF EC!Next

\* The answer is made of the state, after which nothing changes it.
LEMMA ECAnswerStep == ASSUME ECIInv, [EC!Next]_ecVars PROVE ECAnswerInv'
<1> USE DEF ECIInv, ECTypeOK, EC!file, ECStateInv, ECAnswerInv, ECEarly, ECStates
<1>1. ASSUME NEW c \in Process, EC!Start(c) PROVE ECAnswerInv'
  BY <1>1 DEF EC!Start, EC!Goes, EC!Answers
<1>2. ASSUME NEW c \in Process, EC!Fail(c) PROVE ECAnswerInv'
  BY <1>2 DEF EC!Fail, EC!Goes, EC!Answers, EC!Reaps
<1>3. ASSUME NEW c \in Process, EC!Read(c) PROVE ECAnswerInv'
  BY <1>3, ECSetState DEF EC!Read, EC!Goes
<1>4. ASSUME NEW c \in Process, EC!Replace(c) PROVE ECAnswerInv'
  BY <1>4, ECSetState DEF EC!Replace, EC!Goes
<1>5. ASSUME NEW c \in Process, EC!Sync(c) PROVE ECAnswerInv'
  BY <1>5, ECSyncTxn DEF EC!Sync, EC!Goes
<1>6. ASSUME NEW c \in Process, EC!Preview(c) PROVE ECAnswerInv'
  BY <1>6, ECPreviewTxn DEF EC!Preview, EC!Goes
<1>7. ASSUME NEW c \in Process, EC!Report(c) PROVE ECAnswerInv'
  <2>1. PICK closed \in BOOLEAN :
           EC!Answers(c, EC!Counted(ecTxn[c]),
                   closed /\ ecTxn[c].error = None /\ ecTxn[c].preview = "UPDATED"
                          /\ ~ecTxn[c].warning /\ EC!Counted(ecTxn[c]) = "DURABLE")
    BY <1>7 DEF EC!Report
  <2>2. /\ ecAnswer'[c].found = (ecTxn[c].state = "DEDUPED")
        /\ ecAnswer'[c].state = EC!Counted(ecTxn[c])
        /\ ecAnswer'[c].well => EC!Counted(ecTxn[c]) = "DURABLE"
        /\ \A d \in Process : d # c => ecAnswer'[d] = ecAnswer[d]
    BY <2>1 DEF EC!Answers
  <2>3. ecTxn' = ecTxn
    BY <1>7 DEF EC!Report
  <2>4. QED BY <2>2, <2>3 DEF EC!Counted
<1>8. ASSUME NEW c \in Process,
             \/ EC!WorkerExits(c) \/ EC!Ready(c) \/ EC!Result(c) \/ EC!Join(c) \/ EC!Decode(c)
             \/ EC!Raises(c) \/ EC!Before(c) \/ EC!Lock(c) \/ EC!Write(c) \/ EC!Dies(c)
      PROVE  ECAnswerInv'
  BY <1>8 DEF EC!WorkerExits, EC!Ready, EC!Result, EC!Join, EC!Decode, EC!Raises, EC!Before,
     EC!Lock, EC!Write, EC!Dies, EC!Goes, EC!Reaps
<1>9. CASE EC!PowerLoss \/ UNCHANGED ecVars
  BY <1>9 DEF EC!PowerLoss, ecVars
<1>10. QED BY <1>1, <1>2, <1>3, <1>4, <1>5, <1>6, <1>7, <1>8, <1>9 DEF EC!Next

\* The rename and the commit's state are one step.
LEMMA ECToldStep == ASSUME ECIInv, [EC!Next]_ecVars PROVE ECToldInv'
<1> USE DEF ECIInv, ECTypeOK, EC!file, ECStateInv, ECToldInv, ECEarly, ECStates
<1>1. ASSUME NEW c \in Process, EC!Start(c) PROVE ECToldInv'
  <2>1. ecTxn[c].state = "PRE_COMMIT" /\ UNCHANGED <<ecTxn, ecWrote>>
    BY <1>1 DEF EC!Start
  <2>2. CASE ecAnswer' = ecAnswer
    BY <2>1, <2>2
  <2>3. CASE EC!Answers(c, "PRE_COMMIT", FALSE)
    <3>1. /\ \A d \in Process : d # c => ecAnswer'[d] = ecAnswer[d]
          /\ ecAnswer'[c].state = "PRE_COMMIT" /\ ecAnswer'[c].found = FALSE
      BY <2>1, <2>3 DEF EC!Answers
    <3>2. QED BY <2>1, <3>1
  <2>4. QED BY <1>1, <2>2, <2>3 DEF EC!Start
<1>2. ASSUME NEW c \in Process, EC!Fail(c) PROVE ECToldInv'
  <2>1. /\ ecTxn[c].state = "PRE_COMMIT" /\ UNCHANGED <<ecTxn, ecWrote>>
        /\ \A d \in Process : d # c => ecAnswer'[d] = ecAnswer[d]
        /\ ecAnswer'[c].state = "PRE_COMMIT" /\ ecAnswer'[c].found = FALSE
    BY <1>2 DEF EC!Fail, EC!Answers
  <2>2. QED BY <2>1
<1>3. ASSUME NEW c \in Process, EC!Read(c) PROVE ECToldInv'
  BY <1>3, ECSetState DEF EC!Read, EC!Goes
<1>4. ASSUME NEW c \in Process, EC!Replace(c) PROVE ECToldInv'
  BY <1>4, ECSetState DEF EC!Replace, EC!Goes
<1>5. ASSUME NEW c \in Process, EC!Sync(c) PROVE ECToldInv'
  BY <1>5, ECSyncTxn DEF EC!Sync, EC!Goes
<1>6. ASSUME NEW c \in Process, EC!Preview(c) PROVE ECToldInv'
  BY <1>6, ECPreviewTxn DEF EC!Preview, EC!Goes
<1>7. ASSUME NEW c \in Process, EC!Report(c) PROVE ECToldInv'
  <2>1. /\ ecAnswer'[c].found = (ecTxn[c].state = "DEDUPED")
        /\ ecAnswer'[c].state = EC!Counted(ecTxn[c])
        /\ \A d \in Process : d # c => ecAnswer'[d] = ecAnswer[d]
    BY <1>7 DEF EC!Report, EC!Answers
  <2>2. UNCHANGED <<ecTxn, ecWrote>>
    BY <1>7 DEF EC!Report
  <2>3. QED BY <2>1, <2>2 DEF EC!Counted
<1>8. ASSUME NEW c \in Process,
             \/ EC!WorkerExits(c) \/ EC!Ready(c) \/ EC!Result(c) \/ EC!Join(c) \/ EC!Decode(c)
             \/ EC!Raises(c) \/ EC!Before(c) \/ EC!Lock(c) \/ EC!Write(c) \/ EC!Dies(c)
      PROVE  ECToldInv'
  BY <1>8 DEF EC!WorkerExits, EC!Ready, EC!Result, EC!Join, EC!Decode, EC!Raises, EC!Before,
     EC!Lock, EC!Write, EC!Dies, EC!Goes, EC!Reaps
<1>9. CASE EC!PowerLoss \/ UNCHANGED ecVars
  BY <1>9 DEF EC!PowerLoss, ecVars
<1>10. QED BY <1>1, <1>2, <1>3, <1>4, <1>5, <1>6, <1>7, <1>8, <1>9 DEF EC!Next

\* A worker is reaped and released in one step, after the place where it is owned.
LEMMA ECWorkerStep == ASSUME ECIInv, [EC!Next]_ecVars PROVE ECWorkerInv'
<1> USE DEF ECIInv, ECTypeOK, EC!file, ECWorkerInv
<1>1. ASSUME NEW c \in Process, EC!Start(c) \/ EC!WorkerExits(c) \/ EC!Ready(c) \/ EC!Join(c) \/ EC!Fail(c)
      PROVE  ECWorkerInv'
  <2>1. CASE EC!Start(c)
    BY <2>1 DEF EC!Start, EC!Goes
  <2>2. CASE EC!WorkerExits(c)
    BY <2>2 DEF EC!WorkerExits
  <2>3. CASE EC!Ready(c)
    BY <2>3 DEF EC!Ready, EC!Goes
  <2>4. CASE EC!Join(c)
    BY <2>4 DEF EC!Join, EC!Reaps, EC!Goes
  <2>5. CASE EC!Fail(c)
    BY <2>5 DEF EC!Fail, EC!Released, EC!Reaps, EC!Goes
  <2>6. QED BY <1>1, <2>1, <2>2, <2>3, <2>4, <2>5
<1>2. ASSUME NEW c \in Process,
             \/ EC!Result(c) \/ EC!Decode(c) \/ EC!Raises(c) \/ EC!Before(c) \/ EC!Lock(c) \/ EC!Read(c)
             \/ EC!Write(c) \/ EC!Replace(c) \/ EC!Sync(c) \/ EC!Preview(c) \/ EC!Report(c) \/ EC!Dies(c)
      PROVE  ECWorkerInv'
  BY <1>2 DEF EC!Result, EC!Decode, EC!Raises, EC!Before, EC!Lock, EC!Read, EC!Write, EC!Replace, EC!Sync, EC!Preview,
     EC!Report, EC!Dies, EC!Goes
<1>3. CASE EC!PowerLoss \/ UNCHANGED ecVars
  BY <1>3 DEF EC!PowerLoss, ecVars
<1>4. QED BY <1>1, <1>2, <1>3 DEF EC!Next

\* Nothing was collected; the history may have been left torn or corrupt.
LEMMA ECInitIInv == EC!Init => ECIInv
<1> SUFFICES ASSUME EC!Init PROVE ECIInv
  OBVIOUS
<1>1. EC!PreCommit \in ECTxn /\ EC!PreCommit.state = "PRE_COMMIT"
  BY DEF EC!PreCommit, ECTxn, ECStates
<1>2. QED
  BY <1>1 DEF EC!Init, ECIInv, ECTypeOK, ECHeldLock, ECFreshView, ECStateInv, ECDurableRows,
     ECAnswerInv, ECToldInv, ECWorkerInv, ECEarly, ECLate, ECLocked

LEMMA ECStepIInv == ASSUME ECIInv, None \notin Process, [EC!Next]_ecVars PROVE ECIInv'
  BY ECTypeStep, ECLockStep, ECViewStep, ECStateStep, ECDurableStep, ECAnswerStep, ECToldStep, ECWorkerStep
  DEF ECIInv

LEMMA ECCollectorFacts ==
    ASSUME ECIInv PROVE EC!DurableSurvives /\ EC!ResultTellsCommit /\ EC!SignalsOwnWorker
<1>1. EC!DurableSurvives
  BY DEF ECIInv, ECAnswerInv, ECDurableRows, EC!DurableSurvives
<1>2. EC!ResultTellsCommit
  BY DEF ECIInv, ECTypeOK, ECTxn, ECStates, ECToldInv, EC!ResultTellsCommit
<1>3. QED BY <1>1, <1>2 DEF ECIInv, ECWorkerInv, EC!SignalsOwnWorker

\* Only a replace changes the history, by what was read under the lock.
LEMMA ECRowStep == ASSUME ECIInv, EC!Next PROVE EC!RowsAreKept
<1> SUFFICES ASSUME ~EC!PowerLoss PROVE ecHistory.rows \subseteq ecHistory'.rows
  BY DEF EC!RowsAreKept
<1>1. ASSUME NEW c \in Process, EC!Replace(c) PROVE ecHistory.rows \subseteq ecHistory'.rows
  BY <1>1 DEF EC!Replace, ECIInv, ECFreshView
<1>2. (\E c \in Process : EC!Replace(c)) \/ ecHistory' = ecHistory
  BY DEF EC!Next, EC!file, EC!Start, EC!WorkerExits, EC!Ready, EC!Result, EC!Join, EC!Decode,
     EC!Fail, EC!Raises, EC!Before, EC!Lock, EC!Read, EC!Write, EC!Sync, EC!Preview, EC!Report, EC!Dies
<1>3. QED BY <1>1, <1>2

\* A collector that holds the lock reads the history it will replace, and the row
\* it put in and called durable is durable (engagement_history.py).
THEOREM ECInvariance == Spec => [](machine = "EngagementCollector" => ECIInv)
<1>1. Init => (machine = "EngagementCollector" => ECIInv)
  BY ECInitIInv DEF Init
<1>2. (machine = "EngagementCollector" => ECIInv) /\ [Next]_vars
         => (machine = "EngagementCollector" => ECIInv)'
  BY NoneAssumption, ECStepIInv DEF Next, vars
<1>3. QED BY <1>1, <1>2, PTL DEF Spec

\* A row that a collector put in itself and calls durable survives every power
\* loss and every collector that comes after it; a row that it merely found, which
\* append reports as durable without a sync, is not covered.  Its answer says
\* committed exactly when it put its row in or found it, and only its own worker
\* is signalled (collect_engagement.py; engagement_history.py, append).
THEOREM DurableIsDurable == Spec => []DurableSurvives
<1>1. (machine = "EngagementCollector" => ECIInv) => DurableSurvives
  BY ECCollectorFacts DEF DurableSurvives
<1>2. QED BY <1>1, ECInvariance, PTL

\* Short of a power loss no collector takes the row of another one out, though
\* it replaces the whole file by what it read (engagement_history.py, append).
THEOREM NoRowIsLost == Spec => RowsAreKept
<1>1. (machine = "EngagementCollector" => ECIInv) /\ [Next]_vars
         => [machine = "EngagementCollector" => EC!RowsAreKept]_vars
  BY ECRowStep DEF Next, vars
<1>2. QED BY <1>1, ECInvariance, PTL DEF Spec, RowsAreKept

-----------------------------------------------------------------------------
(* The observation lineage.  The mode of a start is decided when its       *)
(* capability is loaded, and the lineage is saved much later, by the       *)
(* session's thread.  Between the two nobody else may save: from the lock  *)
(* on, the process is the owner; only a process that watches has a         *)
(* response in its hands; and a lineage bears the name of a process that   *)
(* came at least as far.                                                   *)

OLPlaces == {"idle", "inspecting", "prepare", "locked", "capable", "built",
           "running", "orphan", "refused", "done", "dead"}

OLTypeOK ==
    /\ olOwner \in Process \cup {None}
    /\ olSaved \in Process \cup {None}
    /\ olPc \in [Process -> OLPlaces]
    /\ olMode \in [Process -> {None, "NEW", "RESUMING"}]
    /\ olConn \in [Process -> {"none", "opening", "opened", "reading", "cut"}]
    /\ olStopping \in [Process -> {"no", "closing", "closed"}]

\* From the moment it has the session lock until it gives it up or dies.
OLOwnersHoldTheLock ==
    \A p \in Process :
        olPc[p] \in {"inspecting", "locked", "capable", "built", "running", "orphan"}
            => olOwner = p

\* A response belongs to a session that runs.
OLReadersWatch == \A p \in Process : olConn[p] # "none" => olPc[p] \in {"running", "orphan"}

\* A lineage is saved by a session that runs or has run.
OLSavedByWatcher ==
    \A p \in Process : olSaved = p => olPc[p] \in {"running", "orphan", "done", "dead"}

OLIInv ==
    /\ OLTypeOK
    /\ OLOwnersHoldTheLock
    /\ OLReadersWatch
    /\ OLSavedByWatcher
    /\ OL!OneLineage
    /\ OL!StoppedReadsEnd

\* Every step keeps the types.
LEMMA OLTypeStep == ASSUME OLIInv, [OL!Next]_olVars PROVE OLTypeOK'
<1> USE DEF OLIInv, OLTypeOK, OLPlaces, OL!dirVars, OL!lockVars, OL!startVars, OL!readVars
<1>1. ASSUME NEW p \in Process, OL!Inspect(p) PROVE OLTypeOK'
  BY <1>1 DEF OL!Inspect
<1>2. ASSUME NEW p \in Process, OL!Lock(p) PROVE OLTypeOK'
  BY <1>2 DEF OL!Lock
<1>3. ASSUME NEW p \in Process, OL!Load(p) PROVE OLTypeOK'
  BY <1>3 DEF OL!Load, OL!Released
<1>4. ASSUME NEW p \in Process, OL!Read(p) PROVE OLTypeOK'
  BY <1>4 DEF OL!Read
<1>5. ASSUME NEW p \in Process, OL!Crash(p) PROVE OLTypeOK'
  BY <1>5 DEF OL!Crash, OL!Released, OL!Live
<1>6. ASSUME NEW p \in Process,
             \/ OL!ValidateRestart(p) \/ OL!InspectionEnds(p) \/ OL!Begin(p) \/ OL!OpenChild(p)
             \/ OL!LoadFails(p) \/ OL!StartFails(p) \/ OL!Build(p) \/ OL!BuildFails(p)
             \/ OL!StartSession(p) \/ OL!Open(p) \/ OL!Answer(p) \/ OL!Register(p)
             \/ OL!ReadFails(p) \/ OL!Stop(p) \/ OL!CloseTaken(p) \/ OL!EndSession(p)
      PROVE  OLTypeOK'
  BY <1>6 DEF OL!ValidateRestart, OL!InspectionEnds, OL!Begin, OL!OpenChild, OL!LoadFails,
           OL!StartFails, OL!Build, OL!BuildFails, OL!StartSession, OL!Open, OL!Answer,
           OL!Register, OL!ReadFails, OL!Stop, OL!CloseTaken, OL!EndSession, OL!Released, OL!Go,
           OL!Watching
<1>7. CASE OL!Look \/ OL!Make \/ OL!Made \/ OL!Unmake \/ OL!PowerLoss \/ UNCHANGED olVars
  BY <1>7 DEF OL!Look, OL!Make, OL!Made, OL!Unmake, OL!PowerLoss, OL!Live, olVars
<1>8. QED BY <1>1, <1>2, <1>3, <1>4, <1>5, <1>6, <1>7 DEF OL!Next

\* The lock is taken only when nobody has it, and given up with the place.
LEMMA OLLockStep == ASSUME OLIInv, None \notin Process, [OL!Next]_olVars PROVE OLOwnersHoldTheLock'
<1> USE DEF OLIInv, OLTypeOK, OLOwnersHoldTheLock, OL!dirVars, OL!lockVars, OL!startVars,
           OL!readVars
<1>1. ASSUME NEW p \in Process, OL!Inspect(p) PROVE OLOwnersHoldTheLock'
  BY <1>1 DEF OL!Inspect
<1>2. ASSUME NEW p \in Process, OL!ValidateRestart(p) PROVE OLOwnersHoldTheLock'
  BY <1>2 DEF OL!ValidateRestart
<1>3. ASSUME NEW p \in Process, OL!Lock(p) PROVE OLOwnersHoldTheLock'
  BY <1>3 DEF OL!Lock
<1>4. ASSUME NEW p \in Process, OL!Load(p) PROVE OLOwnersHoldTheLock'
  BY <1>4 DEF OL!Load, OL!Released
<1>5. ASSUME NEW p \in Process, OL!Crash(p) PROVE OLOwnersHoldTheLock'
  BY <1>5 DEF OL!Crash, OL!Released, OL!Live
<1>6. ASSUME NEW p \in Process,
             \/ OL!InspectionEnds(p) \/ OL!Begin(p) \/ OL!OpenChild(p) \/ OL!LoadFails(p)
             \/ OL!StartFails(p) \/ OL!Build(p) \/ OL!BuildFails(p) \/ OL!StartSession(p)
             \/ OL!Open(p) \/ OL!Answer(p) \/ OL!Register(p) \/ OL!Read(p)
             \/ OL!ReadFails(p) \/ OL!Stop(p) \/ OL!CloseTaken(p) \/ OL!EndSession(p)
      PROVE  OLOwnersHoldTheLock'
  BY <1>6 DEF OL!InspectionEnds, OL!Begin, OL!OpenChild, OL!LoadFails, OL!StartFails,
           OL!Build, OL!BuildFails, OL!StartSession, OL!Open, OL!Answer, OL!Register, OL!Read,
           OL!ReadFails, OL!Stop, OL!CloseTaken, OL!EndSession, OL!Released, OL!Go, OL!Watching
<1>7. CASE OL!Look \/ OL!Make \/ OL!Made \/ OL!Unmake \/ OL!PowerLoss \/ UNCHANGED olVars
  BY <1>7 DEF OL!Look, OL!Make, OL!Made, OL!Unmake, OL!PowerLoss, OL!Live, olVars
<1>8. QED BY <1>1, <1>2, <1>3, <1>4, <1>5, <1>6, <1>7 DEF OL!Next

\* A session ends between two reads, or takes its response with it.
LEMMA OLReadStep == ASSUME OLIInv, [OL!Next]_olVars PROVE OLReadersWatch'
<1> USE DEF OLIInv, OLTypeOK, OLReadersWatch, OL!dirVars, OL!lockVars, OL!startVars,
           OL!readVars
<1>1. ASSUME NEW p \in Process, OL!Open(p) PROVE OLReadersWatch'
  BY <1>1 DEF OL!Open, OL!Watching
<1>2. ASSUME NEW p \in Process, OL!Answer(p) PROVE OLReadersWatch'
  BY <1>2 DEF OL!Answer
<1>3. ASSUME NEW p \in Process, OL!Register(p) PROVE OLReadersWatch'
  BY <1>3 DEF OL!Register
<1>4. ASSUME NEW p \in Process, OL!EndSession(p) PROVE OLReadersWatch'
  BY <1>4 DEF OL!EndSession, OL!Released, OL!Watching
<1>5. ASSUME NEW p \in Process, OL!Crash(p) PROVE OLReadersWatch'
  BY <1>5 DEF OL!Crash, OL!Released, OL!Live
<1>6. ASSUME NEW p \in Process,
             \/ OL!Inspect(p) \/ OL!ValidateRestart(p) \/ OL!InspectionEnds(p) \/ OL!Begin(p)
             \/ OL!OpenChild(p) \/ OL!Lock(p) \/ OL!Load(p) \/ OL!LoadFails(p)
             \/ OL!StartFails(p) \/ OL!Build(p) \/ OL!BuildFails(p) \/ OL!StartSession(p)
             \/ OL!Read(p) \/ OL!ReadFails(p) \/ OL!Stop(p) \/ OL!CloseTaken(p)
      PROVE  OLReadersWatch'
  BY <1>6 DEF OL!Inspect, OL!ValidateRestart, OL!InspectionEnds, OL!Begin, OL!OpenChild,
           OL!Lock, OL!Load, OL!LoadFails, OL!StartFails, OL!Build, OL!BuildFails,
           OL!StartSession, OL!Read, OL!ReadFails, OL!Stop, OL!CloseTaken, OL!Released, OL!Go
<1>7. CASE OL!Look \/ OL!Make \/ OL!Made \/ OL!Unmake \/ OL!PowerLoss \/ UNCHANGED olVars
  BY <1>7 DEF OL!Look, OL!Make, OL!Made, OL!Unmake, OL!PowerLoss, OL!Live, olVars
<1>8. QED BY <1>1, <1>2, <1>3, <1>4, <1>5, <1>6, <1>7 DEF OL!Next

\* Read saves the name of a process that watches, and nobody goes back.
LEMMA OLSaveStep == ASSUME OLIInv, None \notin Process, [OL!Next]_olVars PROVE OLSavedByWatcher'
<1> USE DEF OLIInv, OLTypeOK, OLPlaces, OLReadersWatch, OLSavedByWatcher, OL!dirVars,
           OL!lockVars, OL!startVars, OL!readVars
<1>1. ASSUME NEW p \in Process, OL!Read(p) PROVE OLSavedByWatcher'
  BY <1>1 DEF OL!Read
<1>2. ASSUME NEW p \in Process, OL!StartSession(p) PROVE OLSavedByWatcher'
  BY <1>2 DEF OL!StartSession
<1>3. ASSUME NEW p \in Process, OL!EndSession(p) PROVE OLSavedByWatcher'
  BY <1>3 DEF OL!EndSession, OL!Released, OL!Watching
<1>4. ASSUME NEW p \in Process, OL!Crash(p) PROVE OLSavedByWatcher'
  BY <1>4 DEF OL!Crash, OL!Released, OL!Live
<1>5. ASSUME NEW p \in Process,
             \/ OL!Inspect(p) \/ OL!ValidateRestart(p) \/ OL!InspectionEnds(p) \/ OL!Begin(p)
             \/ OL!OpenChild(p) \/ OL!Lock(p) \/ OL!Load(p) \/ OL!LoadFails(p)
             \/ OL!StartFails(p) \/ OL!Build(p) \/ OL!BuildFails(p) \/ OL!Open(p)
             \/ OL!Answer(p) \/ OL!Register(p) \/ OL!ReadFails(p) \/ OL!Stop(p)
             \/ OL!CloseTaken(p)
      PROVE  OLSavedByWatcher'
  BY <1>5 DEF OL!Inspect, OL!ValidateRestart, OL!InspectionEnds, OL!Begin, OL!OpenChild,
           OL!Lock, OL!Load, OL!LoadFails, OL!StartFails, OL!Build, OL!BuildFails, OL!Open,
           OL!Answer, OL!Register, OL!ReadFails, OL!Stop, OL!CloseTaken, OL!Released, OL!Go,
           OL!Watching
<1>6. CASE OL!Look \/ OL!Make \/ OL!Made \/ OL!Unmake \/ OL!PowerLoss \/ UNCHANGED olVars
  BY <1>6 DEF OL!Look, OL!Make, OL!Made, OL!Unmake, OL!PowerLoss, OL!Live, olVars
<1>7. QED BY <1>1, <1>2, <1>3, <1>4, <1>5, <1>6 DEF OL!Next

\* Load decides under the lock, and Read is the owner's.
LEMMA OLLineageStep == ASSUME OLIInv, None \notin Process, [OL!Next]_olVars PROVE OL!OneLineage'
<1> USE DEF OLIInv, OLTypeOK, OLOwnersHoldTheLock, OLReadersWatch, OLSavedByWatcher,
           OL!OneLineage, OL!dirVars, OL!lockVars, OL!startVars, OL!readVars
<1>1. ASSUME NEW p \in Process, OL!Lock(p) PROVE OL!OneLineage'
  BY <1>1 DEF OL!Lock
<1>2. ASSUME NEW p \in Process, OL!Load(p) PROVE OL!OneLineage'
  BY <1>2 DEF OL!Load, OL!Released
<1>3. ASSUME NEW p \in Process, OL!Build(p) PROVE OL!OneLineage'
  BY <1>3 DEF OL!Build, OL!Go
<1>4. ASSUME NEW p \in Process, OL!Read(p) PROVE OL!OneLineage'
  BY <1>4 DEF OL!Read
<1>5. ASSUME NEW p \in Process, OL!Crash(p) PROVE OL!OneLineage'
  BY <1>5 DEF OL!Crash, OL!Released, OL!Live
<1>6. ASSUME NEW p \in Process,
             \/ OL!Inspect(p) \/ OL!ValidateRestart(p) \/ OL!InspectionEnds(p) \/ OL!Begin(p)
             \/ OL!OpenChild(p) \/ OL!LoadFails(p) \/ OL!StartFails(p) \/ OL!BuildFails(p)
             \/ OL!StartSession(p) \/ OL!Open(p) \/ OL!Answer(p) \/ OL!Register(p)
             \/ OL!ReadFails(p) \/ OL!Stop(p) \/ OL!CloseTaken(p) \/ OL!EndSession(p)
      PROVE  OL!OneLineage'
  BY <1>6 DEF OL!Inspect, OL!ValidateRestart, OL!InspectionEnds, OL!Begin, OL!OpenChild,
           OL!LoadFails, OL!StartFails, OL!BuildFails, OL!StartSession, OL!Open, OL!Answer,
           OL!Register, OL!ReadFails, OL!Stop, OL!CloseTaken, OL!EndSession, OL!Released, OL!Go,
           OL!Watching
<1>7. CASE OL!Look \/ OL!Make \/ OL!Made \/ OL!Unmake \/ OL!PowerLoss \/ UNCHANGED olVars
  BY <1>7 DEF OL!Look, OL!Make, OL!Made, OL!Unmake, OL!PowerLoss, OL!Live, olVars
<1>8. QED BY <1>1, <1>2, <1>3, <1>4, <1>5, <1>6, <1>7 DEF OL!Next

\* Register looks at the transport again, CloseTaken cuts what is read.
LEMMA OLStopStep == ASSUME OLIInv, [OL!Next]_olVars PROVE OL!StoppedReadsEnd'
<1> USE DEF OLIInv, OLTypeOK, OL!StoppedReadsEnd, OL!dirVars, OL!lockVars, OL!startVars,
           OL!readVars
<1>1. ASSUME NEW p \in Process, OL!Register(p) PROVE OL!StoppedReadsEnd'
  BY <1>1 DEF OL!Register
<1>2. ASSUME NEW p \in Process, OL!Stop(p) PROVE OL!StoppedReadsEnd'
  BY <1>2 DEF OL!Stop
<1>3. ASSUME NEW p \in Process, OL!CloseTaken(p) PROVE OL!StoppedReadsEnd'
  BY <1>3 DEF OL!CloseTaken
<1>4. ASSUME NEW p \in Process,
             \/ OL!Inspect(p) \/ OL!ValidateRestart(p) \/ OL!InspectionEnds(p) \/ OL!Begin(p)
             \/ OL!OpenChild(p) \/ OL!Lock(p) \/ OL!Load(p) \/ OL!LoadFails(p)
             \/ OL!StartFails(p) \/ OL!Build(p) \/ OL!BuildFails(p) \/ OL!StartSession(p)
             \/ OL!Open(p) \/ OL!Answer(p) \/ OL!Read(p) \/ OL!ReadFails(p)
             \/ OL!EndSession(p) \/ OL!Crash(p)
      PROVE  OL!StoppedReadsEnd'
  BY <1>4 DEF OL!Inspect, OL!ValidateRestart, OL!InspectionEnds, OL!Begin, OL!OpenChild,
           OL!Lock, OL!Load, OL!LoadFails, OL!StartFails, OL!Build, OL!BuildFails,
           OL!StartSession, OL!Open, OL!Answer, OL!Read, OL!ReadFails, OL!EndSession, OL!Crash,
           OL!Released, OL!Go, OL!Watching, OL!Live
<1>5. CASE OL!Look \/ OL!Make \/ OL!Made \/ OL!Unmake \/ OL!PowerLoss \/ UNCHANGED olVars
  BY <1>5 DEF OL!Look, OL!Make, OL!Made, OL!Unmake, OL!PowerLoss, OL!Live, olVars
<1>6. QED BY <1>1, <1>2, <1>3, <1>4, <1>5 DEF OL!Next

\* Nobody has started: there is no owner, no lineage and no response.
LEMMA OLInitIInv == ASSUME None \notin Process PROVE OL!Init => OLIInv
  BY DEF OL!Init, OLIInv, OLTypeOK, OLPlaces, OLOwnersHoldTheLock, OLReadersWatch,
         OLSavedByWatcher, OL!OneLineage, OL!StoppedReadsEnd

LEMMA OLStepIInv == ASSUME OLIInv, None \notin Process, [OL!Next]_olVars PROVE OLIInv'
  BY OLTypeStep, OLLockStep, OLReadStep, OLSaveStep, OLLineageStep, OLStopStep DEF OLIInv

\* Who owns a child, who watches and which lineage it has read fit together at
\* every moment (sonnet_receipt_observer.py, the start and stop of a session).
THEOREM OLInvariance == Spec => [](machine = "ObservationLineage" => OLIInv)
<1>1. Init => (machine = "ObservationLineage" => OLIInv)
  BY NoneAssumption, OLInitIInv DEF Init
<1>2. (machine = "ObservationLineage" => OLIInv) /\ [Next]_vars
         => (machine = "ObservationLineage" => OLIInv)'
  BY NoneAssumption, OLStepIInv DEF Next, vars
<1>3. QED BY <1>1, <1>2, PTL DEF Spec

\* Two observations of one child never have two beginnings, and whoever
\* watches holds the session lock (prepare and the restart capability of
\* sonnet_receipt_observer.py).
THEOREM Lineage == Spec => []OneLineage
<1>1. (machine = "ObservationLineage" => OLIInv) => OneLineage
  BY DEF OLIInv, OneLineage
<1>2. QED BY <1>1, OLInvariance, PTL

\* Once stop has returned no response goes on being read
\* (FixedReadonlyTransport._get and close).
THEOREM StopIsHonoured == Spec => []StoppedReadsEnd
<1>1. (machine = "ObservationLineage" => OLIInv) => StoppedReadsEnd
  BY DEF OLIInv, StoppedReadsEnd
<1>2. QED BY <1>1, OLInvariance, PTL

-----------------------------------------------------------------------------
(* The checkpoint migration: what the directory holds after every call and *)
(* every power loss.                                                       *)

CMEarly == {"off", "prepared", "loaded"}
CMWriting == {"create", "write", "sync", "sync names"}
CMReplacing == {"rename", "rename progress", "sync switch"}
CMReplaced == {"unmark", "sync marker", "unreview", "sync review", "final"}
CMSwitching == CMReplacing \cup CMReplaced

\* A power loss leaves the name as it is, and the content of the file too.
CMNamed(f) == cmDisk[f] = cmNow[f] /\ f \notin UNION cmPending
CMDurable(f) == CMNamed(f) /\ (f \in cmUnsynced => cmNow[f] = CM!Absent)

CMIsTarget(t) == t = {} \/ \E k \in t : t = {k} /\ k \in Nat
CMIsCursor(c) ==
  \/ c = CM!Absent
  \/ c = <<c[1], c[2]>> /\ c[1] \in {"v1", "v2"} /\ c[2] \in Nat
CMNew(t) == IF t = {} THEN CM!Absent ELSE <<"v2", CM!Max(t)>>

CMShapes ==
  /\ cmNow = [f \in CM!Name |-> cmNow[f]] /\ cmDisk = [f \in CM!Name |-> cmDisk[f]]
  /\ cmProc = [p \in Process |-> cmProc[p]]
  /\ \A p \in Process :
        /\ cmProc[p] = [pc |-> cmProc[p].pc, target |-> cmProc[p].target, files |-> cmProc[p].files]
        /\ cmProc[p].pc \in CMEarly \cup CMWriting \cup {"unlink"} \cup CMSwitching

CMLockInv == \A p \in Process : cmProc[p].pc \notin CMEarly => cmLock = {p}

\* The files of the observer are whole, and the legacy ones durable.
CMFilesInv ==
  /\ {cmNow["checkpoint v1"], cmDisk["checkpoint v1"]} \subseteq {CM!Absent, <<"v1">>}
  /\ {cmNow["checkpoint v2"], cmDisk["checkpoint v2"]} \subseteq {CM!Absent, <<"v2">>}
  /\ CMIsCursor(cmNow["progress"]) /\ CMIsCursor(cmDisk["progress"])
  /\ CM!Lineage \cap cmUnsynced = {}
  /\ cmNow["checkpoint v1"] # CM!Absent => CMNamed("checkpoint v1") /\ CMNamed("progress")

\* What a call has written so far is durable.
CMDone(p) ==
  LET files == CM!Written(cmProc[p].target) IN
  {files[j] : j \in 1 .. Len(files) - Len(cmProc[p].files)}
CMSuffix(s, t) ==
  /\ s \in Seq(CM!Name) /\ Len(s) <= Len(t)
  /\ \A i \in 1 .. Len(s) : s[i] = t[Len(t) - Len(s) + i]
CMApplies(p) ==
  LET t == cmProc[p].target
      files == cmProc[p].files
  IN
  /\ CMIsTarget(t) /\ CMSuffix(files, CM!Written(t))
  /\ cmNow["progress"] = CM!Progress(t) /\ cmNow["review"] = CM!Review(t)
  /\ cmProc[p].pc = "unlink" <=> files = <<>>
  /\ \A f \in CMDone(p) : cmNow[f] = CM!Content(f, t) /\ CMDurable(f)
  /\ t = {} => cmNow["archived progress"] = CM!Absent
  /\ t = {} /\ CMDone(p) # {} => CMDurable("archived progress")
  /\ "marker" \in CMDone(p) => CMNamed("review")
  /\ cmProc[p].pc = "write" => cmNow[Head(files)] = CM!Torn
  /\ cmProc[p].pc \in {"sync", "sync names"} => cmNow[Head(files)] = CM!Content(Head(files), t)
  /\ cmProc[p].pc = "sync names" => Head(files) \notin cmUnsynced
CMWritingInv ==
  \A p \in Process : cmProc[p].pc \in CMWriting \cup {"unlink"} =>
    /\ cmNow["checkpoint v1"] # CM!Absent
    /\ (cmProc[p].files = <<"review">> /\ cmProc[p].pc # "unlink") \/ CMApplies(p)

\* Once the legacy checkpoint is gone, the archive stands, and until the new
\* files are durable the marker and the review record are.
CMArchived(t) ==
  /\ \A f \in CM!Archive : CMDurable(f)
  /\ cmNow["archived checkpoint"] = <<"v1">> /\ cmNow["manifest"] = CM!Review(t)
  /\ cmNow["archived progress"] = CM!Progress(t)
CMMarked == \A f \in {"marker", "review"} : CMNamed(f) /\ cmNow[f] # CM!Absent
CMSwitched(t) ==
  /\ cmNow["checkpoint v2"] = <<"v2">> /\ cmNow["progress"] = CMNew(t)
  /\ \A f \in CM!Lineage : CMNamed(f)
CMSwitches(p, t) ==
  /\ cmProc[p].target = t
  /\ cmProc[p].pc \in CMReplacing => CMMarked
  /\ cmProc[p].pc \in CMReplaced => CMSwitched(t)
  /\ cmProc[p].pc = "rename" => cmNow["staged checkpoint"] = <<"v2">>
  /\ cmProc[p].pc \in {"rename", "rename progress"} /\ t # {} => cmNow["staged progress"] = CMNew(t)
  /\ cmProc[p].pc = "rename progress" => t # {}
  /\ cmProc[p].pc \in {"rename progress", "sync switch"} => cmNow["checkpoint v2"] = <<"v2">>
  /\ cmProc[p].pc = "sync switch" => cmNow["progress"] = CMNew(t)
  /\ cmProc[p].pc = "final" => \A f \in CM!Name \ CM!Archive : CMNamed(f)
CMReviewed == cmNow["manifest"][2]
CMReplacedInv ==
  cmNow["checkpoint v1"] = CM!Absent =>
    /\ CMIsTarget(CMReviewed) /\ CMArchived(CMReviewed)
    /\ {cmNow["progress"], cmDisk["progress"]} \subseteq {CM!Progress(CMReviewed), CMNew(CMReviewed)}
    /\ CMMarked \/ CMSwitched(CMReviewed)
    /\ \A p \in Process : cmProc[p].pc \in CMSwitching => CMSwitches(p, CMReviewed)
CMSwitchingInv ==
  \A p \in Process : cmProc[p].pc \in CMSwitching => cmNow["checkpoint v1"] = CM!Absent

CMAppliedInv ==
  cmApplied =>
    /\ cmNow["checkpoint v1"] = CM!Absent /\ CM!Loaded.mode = "resumed"
    /\ \A f \in CM!Name \ CM!Archive : CMNamed(f)
    /\ \A p \in Process : cmProc[p].pc \in CMEarly

CMIInv ==
  /\ CMShapes /\ CMLockInv /\ CMFilesInv /\ CMWritingInv /\ CMReplacedInv /\ CMSwitchingInv /\ CMAppliedInv

LEMMA CMInitIInv == ASSUME MaxCursor \in Nat, CM!Init PROVE CMIInv
<1>1. PICK c \in {{}} \cup {{k} : k \in 0..MaxCursor} :
        cmNow = [f \in CM!Name |-> IF f = "checkpoint v1" THEN <<"v1">>
                              ELSE IF f = "progress" THEN CM!Progress(c) ELSE CM!Absent]
  BY DEF CM!Init
<1>2. /\ cmDisk = cmNow /\ cmPending = {} /\ cmUnsynced = {} /\ cmApplied = FALSE
      /\ cmProc = [p \in Process |-> CM!Off]
  BY DEF CM!Init
<1>3. /\ cmNow["checkpoint v1"] = <<"v1">> /\ cmNow["checkpoint v2"] = CM!Absent
      /\ cmNow["progress"] = CM!Progress(c) /\ <<"v1">> # CM!Absent
  BY <1>1 DEF CM!Name, CM!Lineage, CM!Absent
<1>4. CMIsCursor(CM!Progress(c))
  <2>1. CASE c = {}
    BY <2>1 DEF CM!Progress, CMIsCursor
  <2>2. CASE \E k \in Nat : c = {k}
    <3>1. PICK k \in Nat : c = {k}
      BY <2>2
    <3>2. CM!Max(c) = k
      BY <3>1 DEF CM!Max
    <3>3. CM!Progress(c) = <<"v1", k>>
      BY <3>1, <3>2 DEF CM!Progress
    <3>4. QED BY <3>3 DEF CMIsCursor
  <2>3. QED BY <2>1, <2>2
<1>5. \A p \in Process : cmProc[p] = CM!Off /\ cmProc[p].pc = "off"
  BY <1>2 DEF CM!Off
<1>6. CMShapes
  BY <1>1, <1>2, <1>5 DEF CMShapes, CMEarly, CM!Off
<1>7. CMFilesInv
  BY <1>2, <1>3, <1>4 DEF CMFilesInv, CMNamed
<1>8. CMLockInv /\ CMWritingInv /\ CMSwitchingInv /\ CMAppliedInv
  BY <1>2, <1>5 DEF CMLockInv, CMWritingInv, CMSwitchingInv, CMAppliedInv, CMEarly, CMWriting, CMSwitching,
     CMReplacing, CMReplaced
<1>9. CMReplacedInv
  BY <1>3 DEF CMReplacedInv
<1>10. QED BY <1>6, <1>7, <1>8, <1>9 DEF CMIInv

\* The prefix of a call: it looks, is refused, ends or dies, and changes no file.
LEMMA CMEarlyStep ==
  ASSUME CMIInv, NEW p \in Process, NEW r, cmProc' = [cmProc EXCEPT ![p] = r],
         r = [pc |-> r.pc, target |-> r.target, files |-> r.files], r.pc \in CMEarly,
         CM!Quiet, cmApplied' = cmApplied,
         cmLock' = cmLock \/ cmLock' = cmLock \ {p}
  PROVE  CMIInv'
<1>1. UNCHANGED <<cmNow, cmDisk, cmPending, cmUnsynced>>
  BY DEF CM!Quiet
<1>2. cmProc = [q \in Process |-> cmProc[q]]
  BY DEF CMIInv, CMShapes
<1>3. cmProc' = [q \in Process |-> IF q = p THEN r ELSE cmProc[q]]
  BY <1>2
<1>4. cmProc'[p] = r /\ \A q \in Process \ {p} : cmProc'[q] = cmProc[q]
  BY <1>3
<1>5. CMShapes'
  BY <1>1, <1>3, <1>4 DEF CMIInv, CMShapes
<1>6. CMLockInv'
  <2>1. \A q \in Process \ {p} : cmProc[q].pc \notin CMEarly => cmLock = {q} /\ cmLock \ {p} = {q}
    BY DEF CMIInv, CMLockInv
  <2>2. QED BY <1>4, <2>1 DEF CMLockInv
<1>7. CMFilesInv'
  BY <1>1 DEF CMIInv, CMFilesInv, CMNamed
<1>8. CMWritingInv'
  <2>1. \A q \in Process \ {p} : CMApplies(q) <=> CMApplies(q)'
    BY <1>1, <1>4 DEF CMApplies, CMDone, CMDurable, CMNamed
  <2>2. CMEarly \cap (CMWriting \cup {"unlink"}) = {}
    BY DEF CMEarly, CMWriting
  <2>3. QED BY <1>1, <1>4, <2>1, <2>2 DEF CMIInv, CMWritingInv
<1>9. CMEarly \cap CMSwitching = {}
  BY DEF CMEarly, CMSwitching, CMReplacing, CMReplaced
<1>10. CMReplacedInv'
  <2>1. \A t :
               /\ CMArchived(t) <=> CMArchived(t)'
               /\ CMSwitched(t) <=> CMSwitched(t)'
    BY <1>1 DEF CMArchived, CMDurable, CMNamed, CMSwitched
  <2>2. (CMMarked <=> CMMarked') /\ CMReviewed' = CMReviewed
    BY <1>1 DEF CMMarked, CMNamed, CMReviewed
  <2>3. ASSUME NEW q \in Process \ {p}, NEW t PROVE CMSwitches(q, t) <=> CMSwitches(q, t)'
    <3>1. cmProc'[q] = cmProc[q]
      BY <1>4
    <3>2. \A f : CMNamed(f) <=> CMNamed(f)'
      BY <1>1 DEF CMNamed
    <3>3. QED BY <1>1, <2>1, <2>2, <3>1, <3>2 DEF CMSwitches
  <2>4. QED BY <1>1, <1>4, <1>9, <2>1, <2>2, <2>3 DEF CMIInv, CMReplacedInv
<1>11. CMSwitchingInv'
  BY <1>1, <1>4, <1>9 DEF CMIInv, CMSwitchingInv
<1>12. CMAppliedInv'
  BY <1>1, <1>4 DEF CMIInv, CMAppliedInv, CM!Loaded, CM!Present, CM!Cursor, CMNamed
<1>13. QED BY <1>5, <1>6, <1>7, <1>8, <1>10, <1>11, <1>12 DEF CMIInv

LEMMA CMLooksIInv ==
  ASSUME CMIInv, NEW p \in Process, CM!Prepare(p) \/ CM!LoadSealed(p) \/ CM!Ends(p)
  PROVE  CMIInv'
<1>1. CASE CM!Ends(p)
  <2>1. CM!Off = [pc |-> CM!Off.pc, target |-> CM!Off.target, files |-> CM!Off.files] /\ CM!Off.pc \in CMEarly
    BY DEF CM!Off, CMEarly
  <2>2. cmProc' = [cmProc EXCEPT ![p] = CM!Off] /\ cmLock' = cmLock \ {p} /\ CM!Quiet /\ cmApplied' = cmApplied
    BY <1>1 DEF CM!Ends
  <2>3. QED BY <2>1, <2>2, CMEarlyStep
<1>2. CASE \E pc \in CMEarly : CM!Looks(p, pc)
  <2>1. PICK pc \in CMEarly : CM!Looks(p, pc)
    BY <1>2
  <2> DEFINE r == [pc |-> pc, target |-> CM!Cursor, files |-> <<>>]
  <2>2. [CM!Off EXCEPT !.pc = pc, !.target = CM!Cursor] = r
    <3> DEFINE m == [CM!Off EXCEPT !.pc = pc]
    <3>4. PICK o : o = CM!Off /\ o = [pc |-> "off", target |-> {}, files |-> <<>>]
      BY DEF CM!Off
    <3>5. [o EXCEPT !.pc = pc] = [pc |-> pc, target |-> {}, files |-> <<>>]
      BY <3>4
    <3>1. m = [pc |-> pc, target |-> {}, files |-> <<>>]
      BY <3>4, <3>5
    <3>2. [CM!Off EXCEPT !.pc = pc, !.target = CM!Cursor] = [m EXCEPT !.target = CM!Cursor]
      BY DEF CM!Off
    <3> HIDE DEF m
    <3>3. QED BY <3>1, <3>2
  <2>3. cmProc' = [cmProc EXCEPT ![p] = r] /\ cmLock' = cmLock /\ CM!Quiet /\ cmApplied' = cmApplied
    BY <2>1, <2>2 DEF CM!Looks
  <2>4. r = [pc |-> r.pc, target |-> r.target, files |-> r.files] /\ r.pc \in CMEarly
    OBVIOUS
  <2> HIDE DEF r
  <2>5. QED BY <2>3, <2>4, CMEarlyStep
<1>3. "prepared" \in CMEarly /\ "loaded" \in CMEarly
  BY DEF CMEarly
<1>4. QED BY <1>1, <1>2, <1>3 DEF CM!Prepare, CM!LoadSealed

\* Only the holder of the lock does anything.
LEMMA CMAlone ==
  ASSUME CMIInv, NEW p \in Process, cmLock = {} \/ cmProc[p].pc \notin CMEarly
  PROVE  \A q \in Process \ {p} : cmProc[q].pc \in CMEarly
BY DEF CMIInv, CMLockInv

LEMMA CMMoves ==
  ASSUME CMIInv, NEW p \in Process, cmLock = {} \/ cmProc[p].pc \notin CMEarly,
         NEW r, cmProc' = [cmProc EXCEPT ![p] = r],
         r = [pc |-> r.pc, target |-> r.target, files |-> r.files],
         r.pc \in CMEarly \cup CMWriting \cup {"unlink"} \cup CMSwitching,
         cmLock' = {p} \/ (r.pc \in CMEarly /\ cmLock' = {}),
         cmNow' = [f \in CM!Name |-> cmNow'[f]], cmDisk' = [f \in CM!Name |-> cmDisk'[f]]
  PROVE  /\ CMShapes' /\ CMLockInv' /\ cmProc'[p] = r
         /\ \A q \in Process \ {p} : cmProc'[q] = cmProc[q] /\ cmProc'[q].pc \in CMEarly
<1>1. cmProc = [q \in Process |-> cmProc[q]]
  BY DEF CMIInv, CMShapes
<1>2. cmProc' = [q \in Process |-> IF q = p THEN r ELSE cmProc[q]]
  BY <1>1
<1>3. cmProc'[p] = r /\ \A q \in Process \ {p} : cmProc'[q] = cmProc[q]
  BY <1>2
<1>4. \A q \in Process \ {p} : cmProc[q].pc \in CMEarly
  BY CMAlone
<1>5. CMShapes'
  BY <1>2, <1>3 DEF CMIInv, CMShapes
<1>6. CMLockInv'
  BY <1>3, <1>4 DEF CMLockInv
<1>7. QED BY <1>3, <1>4, <1>5, <1>6

\* While the legacy checkpoint stands, a call writes beside the lineage.
LEMMA CMWritingOn ==
  ASSUME CMIInv, NEW p \in Process, cmLock = {} \/ cmProc[p].pc \notin CMEarly,
         cmNow["checkpoint v1"] # CM!Absent,
         NEW r, cmProc' = [cmProc EXCEPT ![p] = r],
         r = [pc |-> r.pc, target |-> r.target, files |-> r.files],
         r.pc \in {"off", "unlink"} \cup CMWriting,
         cmLock' = {p} \/ (r.pc = "off" /\ cmLock' = {}), cmApplied' = cmApplied,
         cmNow' = [f \in CM!Name |-> cmNow'[f]], cmDisk' = [f \in CM!Name |-> cmDisk'[f]],
         \A f \in CM!Lineage :
                            /\ cmNow'[f] = cmNow[f] /\ cmDisk'[f] \in {cmDisk[f], cmNow[f]}
                            /\ (CMNamed(f) => CMNamed(f)') /\ f \notin cmUnsynced',
         r.pc # "off" => (r.files = <<"review">> /\ r.pc # "unlink") \/ CMApplies(p)'
  PROVE  CMIInv'
<1>1. /\ CMShapes' /\ CMLockInv' /\ cmProc'[p] = r
      /\ \A q \in Process \ {p} : cmProc'[q].pc \in CMEarly
  <2>1. r.pc \in CMEarly \cup CMWriting \cup {"unlink"} \cup CMSwitching
    BY DEF CMEarly
  <2>2. r.pc = "off" => r.pc \in CMEarly
    BY DEF CMEarly
  <2>3. QED BY <2>1, <2>2, CMMoves
<1>2. cmNow'["checkpoint v1"] # CM!Absent
  BY DEF CM!Lineage
<1>3. CMFilesInv'
  <2>1. /\ {cmNow["checkpoint v1"], cmDisk["checkpoint v1"]} \subseteq {CM!Absent, <<"v1">>}
        /\ {cmNow["checkpoint v2"], cmDisk["checkpoint v2"]} \subseteq {CM!Absent, <<"v2">>}
        /\ CMIsCursor(cmNow["progress"]) /\ CMIsCursor(cmDisk["progress"])
        /\ CMNamed("checkpoint v1") /\ CMNamed("progress")
    BY DEF CMIInv, CMFilesInv
  <2>2. {"checkpoint v1", "checkpoint v2", "progress"} = CM!Lineage
    BY DEF CM!Lineage
  <2>3. CMIsCursor(cmNow'["progress"]) /\ CMIsCursor(cmDisk'["progress"])
    <3>1. cmNow'["progress"] = cmNow["progress"] /\ cmDisk'["progress"] \in {cmDisk["progress"], cmNow["progress"]}
      BY <2>2
    <3>2. QED BY <2>1, <3>1
  <2>4. CMIsCursor(cmNow["progress"])' /\ CMIsCursor(cmDisk["progress"])'
    BY <2>3 DEF CMIsCursor
  <2>5. QED BY <2>1, <2>2, <2>4 DEF CMFilesInv
<1>4. CMWritingInv'
  <2>1. \A q \in Process : cmProc'[q].pc \in CMWriting \cup {"unlink"} => q = p
    BY <1>1 DEF CMEarly, CMWriting
  <2>2. "off" \notin CMWriting \cup {"unlink"}
    BY DEF CMWriting
  <2>3. QED BY <1>1, <1>2, <2>1, <2>2 DEF CMWritingInv
<1>5. CMReplacedInv'
  BY <1>2 DEF CMReplacedInv
<1>6. CMSwitchingInv'
  <2>1. \A q \in Process : cmProc'[q].pc \notin CMSwitching
    BY <1>1 DEF CMEarly, CMWriting, CMSwitching, CMReplacing, CMReplaced
  <2>2. QED BY <2>1 DEF CMSwitchingInv
<1>7. CMAppliedInv'
  BY DEF CMIInv, CMAppliedInv
<1>8. QED BY <1>1, <1>3, <1>4, <1>5, <1>6, <1>7 DEF CMIInv

\* The cursor of a progress file is what its content says.
LEMMA CMCursorOf ==
  ASSUME CMIsCursor(cmNow["progress"])
  PROVE  /\ CMIsTarget(CM!Cursor)
         /\ cmNow["progress"] = CM!Absent => CM!Cursor = {} /\ cmNow["progress"] = CM!Progress(CM!Cursor)
         /\ cmNow["progress"] # CM!Absent /\ cmNow["progress"][1] = "v1"
              => cmNow["progress"] = CM!Progress(CM!Cursor)
         /\ \A t : CMIsTarget(t) /\ cmNow["progress"] \in {CM!Progress(t), CMNew(t)} => CM!Cursor = t
<1>1. CASE cmNow["progress"] = CM!Absent
  <2>1. CM!Cursor = {} /\ CMIsTarget({}) /\ CM!Progress({}) = CM!Absent
    BY <1>1 DEF CM!Cursor, CMIsTarget, CM!Progress
  <2>2. ASSUME NEW t, CMIsTarget(t), cmNow["progress"] \in {CM!Progress(t), CMNew(t)} PROVE t = {}
    <3>1. \A x : <<"v1", x>> # CM!Absent /\ <<"v2", x>> # CM!Absent
      BY DEF CM!Absent
    <3>2. QED BY <1>1, <2>2, <3>1 DEF CM!Progress, CMNew
  <2>3. QED BY <1>1, <2>1, <2>2
<1>2. CASE cmNow["progress"] # CM!Absent
  <2>1. PICK v \in {"v1", "v2"}, k \in Nat : cmNow["progress"] = <<v, k>>
    BY <1>2 DEF CMIsCursor
  <2>2. cmNow["progress"][1] = v /\ cmNow["progress"][2] = k
    BY <2>1
  <2>3. CM!Cursor = {k}
    BY <1>2, <2>2 DEF CM!Cursor
  <2>4. CM!Max({k}) = k
    BY DEF CM!Max
  <2>5. CMIsTarget(CM!Cursor)
    BY <2>3 DEF CMIsTarget
  <2>6. CM!Progress({k}) = <<"v1", k>>
    BY <2>4 DEF CM!Progress
  <2>7. ASSUME NEW t, CMIsTarget(t), cmNow["progress"] \in {CM!Progress(t), CMNew(t)} PROVE CM!Cursor = t
    <3>1. t # {}
      BY <1>2, <2>7 DEF CM!Progress, CMNew
    <3>2. PICK m \in Nat : t = {m}
      BY <2>7, <3>1 DEF CMIsTarget
    <3>3. CM!Max(t) = m
      BY <3>2 DEF CM!Max
    <3>4. <<v, k>> = <<"v1", m>> \/ <<v, k>> = <<"v2", m>>
      BY <2>1, <2>7, <3>1, <3>3 DEF CM!Progress, CMNew
    <3>5. QED BY <2>3, <3>2, <3>4
  <2>8. QED BY <1>2, <2>1, <2>2, <2>3, <2>5, <2>6, <2>7
<1>3. QED BY <1>1, <1>2

LEMMA CMWrittenFacts ==
  ASSUME NEW t
  PROVE  /\ CM!Written(t) \in Seq(CM!Name) /\ Len(CM!Written(t)) \in Nat \ {0}
         /\ \A i \in 1 .. Len(CM!Written(t)) :
               /\ CM!Written(t)[i] \in CM!Archive \cup (CM!Temporary \ {"review"})
               /\ t = {} => CM!Written(t)[i] \notin {"archived progress", "staged progress"}
         /\ {"archived checkpoint", "manifest", "marker", "staged checkpoint"}
              \subseteq {CM!Written(t)[i] : i \in 1 .. Len(CM!Written(t))}
         /\ t # {} => {"archived progress", "staged progress"}
              \subseteq {CM!Written(t)[i] : i \in 1 .. Len(CM!Written(t))}
         /\ CM!Written(t)[1] = "archived checkpoint"
<1>1. CASE t = {}
  <2> DEFINE w == <<"archived checkpoint", "manifest",
                    "marker", "staged checkpoint">>
             all == {"archived checkpoint", "manifest",
                     "marker", "staged checkpoint"}
  <2>1. CM!Written(t) = w
    BY <1>1 DEF CM!Written
  <2>2. Len(w) = 4 /\ w \in Seq(CM!Name)
    BY DEF CM!Name, CM!Archive, CM!Temporary, CM!Lineage
  <2>3. w[1] = "archived checkpoint" /\ w[2] = "manifest"
        /\ w[3] = "marker" /\ w[4] = "staged checkpoint"
    OBVIOUS
  <2> HIDE DEF w
  <2>4. \A i \in 1 .. 4 : w[i] \in all
    <3>1. TAKE i \in 1 .. 4
    <3>2. i = 1 \/ i = 2 \/ i = 3 \/ i = 4
      OBVIOUS
    <3>3. QED BY <2>3, <3>2
  <2>5. all \subseteq {w[i] : i \in 1 .. 4}
    <3>1. 1 \in 1 .. 4 /\ 2 \in 1 .. 4 /\ 3 \in 1 .. 4 /\ 4 \in 1 .. 4
      OBVIOUS
    <3>2. \A i \in 1 .. 4 : w[i] \in {w[j] : j \in 1 .. 4}
      OBVIOUS
    <3>3. QED BY <2>3, <3>1, <3>2
  <2>6. \A x \in all :
                       /\ x \in CM!Archive \cup (CM!Temporary \ {"review"})
                       /\ t = {} => x \notin {"archived progress", "staged progress"}
    BY DEF CM!Archive, CM!Temporary
  <2>7. /\ CM!Written(t) \in Seq(CM!Name) /\ Len(CM!Written(t)) = 4 /\ CM!Written(t)[1] = "archived checkpoint"
    BY <2>1, <2>2, <2>3
  <2>8. all \subseteq {CM!Written(t)[i] : i \in 1 .. Len(CM!Written(t))}
    BY <2>1, <2>2, <2>5
  <2>9. \A i \in 1 .. Len(CM!Written(t)) : CM!Written(t)[i] \in all
    BY <2>1, <2>2, <2>4
  <2>10. {"archived checkpoint", "manifest", "marker", "staged checkpoint"} \subseteq all
         /\ (t # {} => {"archived progress", "staged progress"} \subseteq all)
    BY <1>1
  <2> HIDE DEF all
  <2>11. \A i \in 1 .. Len(CM!Written(t)) :
           /\ CM!Written(t)[i] \in CM!Archive \cup (CM!Temporary \ {"review"})
           /\ t = {} => CM!Written(t)[i] \notin {"archived progress", "staged progress"}
    BY <2>6, <2>9
  <2>12. {"archived checkpoint", "manifest", "marker", "staged checkpoint"}
           \subseteq {CM!Written(t)[i] : i \in 1 .. Len(CM!Written(t))}
    BY <2>8, <2>10
  <2>13. t # {} => {"archived progress", "staged progress"}
           \subseteq {CM!Written(t)[i] : i \in 1 .. Len(CM!Written(t))}
    BY <2>8, <2>10
  <2>14. Len(CM!Written(t)) \in Nat \ {0}
    <3>1. 4 \in Nat \ {0}
      OBVIOUS
    <3>2. Len(CM!Written(t)) = 4
      BY <2>7
    <3>3. QED BY <3>1, <3>2
  <2>15. QED BY <2>7, <2>11, <2>12, <2>13, <2>14
<1>2. CASE t # {}
  <2> DEFINE w == <<"archived checkpoint", "archived progress", "manifest",
                    "marker", "staged checkpoint", "staged progress">>
             all == {"archived checkpoint", "archived progress", "manifest",
                     "marker", "staged checkpoint", "staged progress"}
  <2>1. CM!Written(t) = w
    BY <1>2 DEF CM!Written
  <2>2. Len(w) = 6 /\ w \in Seq(CM!Name)
    BY DEF CM!Name, CM!Archive, CM!Temporary, CM!Lineage
  <2>3. w[1] = "archived checkpoint" /\ w[2] = "archived progress" /\ w[3] = "manifest"
        /\ w[4] = "marker" /\ w[5] = "staged checkpoint" /\ w[6] = "staged progress"
    OBVIOUS
  <2> HIDE DEF w
  <2>4. \A i \in 1 .. 6 : w[i] \in all
    <3>1. TAKE i \in 1 .. 6
    <3>2. i = 1 \/ i = 2 \/ i = 3 \/ i = 4 \/ i = 5 \/ i = 6
      OBVIOUS
    <3>3. QED BY <2>3, <3>2
  <2>5. all \subseteq {w[i] : i \in 1 .. 6}
    <3>1. 1 \in 1 .. 6 /\ 2 \in 1 .. 6 /\ 3 \in 1 .. 6 /\ 4 \in 1 .. 6 /\ 5 \in 1 .. 6 /\ 6 \in 1 .. 6
      OBVIOUS
    <3>2. \A i \in 1 .. 6 : w[i] \in {w[j] : j \in 1 .. 6}
      OBVIOUS
    <3>3. QED BY <2>3, <3>1, <3>2
  <2>6. \A x \in all :
                       /\ x \in CM!Archive \cup (CM!Temporary \ {"review"})
                       /\ t = {} => x \notin {"archived progress", "staged progress"}
    BY <1>2 DEF CM!Archive, CM!Temporary
  <2>7. /\ CM!Written(t) \in Seq(CM!Name) /\ Len(CM!Written(t)) = 6 /\ CM!Written(t)[1] = "archived checkpoint"
    BY <2>1, <2>2, <2>3
  <2>8. all \subseteq {CM!Written(t)[i] : i \in 1 .. Len(CM!Written(t))}
    BY <2>1, <2>2, <2>5
  <2>9. \A i \in 1 .. Len(CM!Written(t)) : CM!Written(t)[i] \in all
    BY <2>1, <2>2, <2>4
  <2>10. {"archived checkpoint", "manifest", "marker", "staged checkpoint"} \subseteq all
         /\ (t # {} => {"archived progress", "staged progress"} \subseteq all)
    BY <1>2
  <2> HIDE DEF all
  <2>11. \A i \in 1 .. Len(CM!Written(t)) :
           /\ CM!Written(t)[i] \in CM!Archive \cup (CM!Temporary \ {"review"})
           /\ t = {} => CM!Written(t)[i] \notin {"archived progress", "staged progress"}
    BY <2>6, <2>9
  <2>12. {"archived checkpoint", "manifest", "marker", "staged checkpoint"}
           \subseteq {CM!Written(t)[i] : i \in 1 .. Len(CM!Written(t))}
    BY <2>8, <2>10
  <2>13. t # {} => {"archived progress", "staged progress"}
           \subseteq {CM!Written(t)[i] : i \in 1 .. Len(CM!Written(t))}
    BY <2>8, <2>10
  <2>14. Len(CM!Written(t)) \in Nat \ {0}
    <3>1. 6 \in Nat \ {0}
      OBVIOUS
    <3>2. Len(CM!Written(t)) = 6
      BY <2>7
    <3>3. QED BY <3>1, <3>2
  <2>15. QED BY <2>7, <2>11, <2>12, <2>13, <2>14
<1>3. QED BY <1>1, <1>2

\* A call takes the lock and begins to write.
LEMMA CMAcquireIInv ==
  ASSUME CMIInv, NEW p \in Process, CM!Seal(p) \/ CM!Apply(p)
  PROVE  CMIInv'
<1>1. PICK files :
        /\ CM!Acquires(p, files)
        /\ files = <<"review">> \/ (files = CM!Written(CM!Cursor) /\ cmNow["review"] = CM!Review(CM!Cursor)
                                     /\ CM!LegacyInventory({"review"}))
        /\ \E allowed : CM!LegacyInventory(allowed)
  <2>1. CASE CM!Seal(p)
    BY <2>1 DEF CM!Seal
  <2>2. CASE CM!Apply(p)
    BY <2>2 DEF CM!Apply
  <2>3. QED BY <2>1, <2>2
<1>2. cmNow["checkpoint v1"] # CM!Absent
  BY <1>1 DEF CM!LegacyInventory, CM!Present
<1> DEFINE r == [pc |-> "create", target |-> CM!Cursor, files |-> files]
<1>3. /\ cmLock = {} /\ cmLock' = {p} /\ cmProc' = [cmProc EXCEPT ![p] = r]
      /\ UNCHANGED <<cmNow, cmDisk, cmPending, cmUnsynced, cmApplied>>
      /\ CM!Present(CM!Archive) = {}
  BY <1>1 DEF CM!Acquires, CM!Quiet
<1>4. r = [pc |-> r.pc, target |-> r.target, files |-> r.files] /\ r.pc = "create"
      /\ r.target = CM!Cursor /\ r.files = files
  OBVIOUS
<1> HIDE DEF r
<1>5. "create" \in {"off", "unlink"} \cup CMWriting
  BY DEF CMWriting
<1>6. cmProc'[p] = r
  BY <1>3 DEF CMIInv, CMShapes
<1>7. ASSUME files = CM!Written(CM!Cursor), cmNow["review"] = CM!Review(CM!Cursor),
             CM!LegacyInventory({"review"})
      PROVE  CMApplies(p)'
  <2> DEFINE t == CM!Cursor
  <2>1. /\ CMIsTarget(t) /\ cmNow["progress"] = CM!Progress(t)
    BY <1>7, CMCursorOf DEF CMIInv, CMFilesInv, CM!LegacyInventory
  <2>2. cmProc'[p].pc = "create" /\ cmProc'[p].target = t /\ cmProc'[p].files = CM!Written(t)
    BY <1>4, <1>6, <1>7
  <2> HIDE DEF t
  <2>3. CM!Written(t) \in Seq(CM!Name) /\ CM!Written(t) # <<>> /\ Len(CM!Written(t)) \in Nat
    BY CMWrittenFacts
  <2>4. CMSuffix(CM!Written(t), CM!Written(t))
    BY <2>3 DEF CMSuffix
  <2>5. CMDone(p)' = {}
    BY <2>2, <2>3 DEF CMDone
  <2>6. cmNow["archived progress"] = CM!Absent
    BY <1>3 DEF CM!Present, CM!Archive
  <2>7. cmNow["review"] = CM!Review(t)
    BY <1>7 DEF t
  <2>8. QED BY <1>3, <2>1, <2>2, <2>3, <2>4, <2>5, <2>6, <2>7 DEF CMApplies
<1>8. \A f \in CM!Lineage :
                         /\ cmNow'[f] = cmNow[f] /\ cmDisk'[f] \in {cmDisk[f], cmNow[f]}
                         /\ (CMNamed(f) => CMNamed(f)') /\ f \notin cmUnsynced'
  BY <1>3 DEF CMIInv, CMFilesInv, CMNamed
<1>9. cmNow' = [f \in CM!Name |-> cmNow'[f]] /\ cmDisk' = [f \in CM!Name |-> cmDisk'[f]]
  BY <1>3 DEF CMIInv, CMShapes
<1>10. r.pc # "off" => (r.files = <<"review">> /\ r.pc # "unlink") \/ CMApplies(p)'
  BY <1>1, <1>4, <1>7
<1>11. QED BY <1>2, <1>3, <1>4, <1>5, <1>8, <1>9, <1>10, CMWritingOn

LEMMA CMGoesTo ==
  ASSUME CMIInv, NEW p \in Process, NEW q, CM!Goes(p, q)
  PROVE  \E r :
                /\ cmProc' = [cmProc EXCEPT ![p] = r]
                /\ r = [pc |-> q, target |-> cmProc[p].target, files |-> cmProc[p].files]
                /\ r = [pc |-> r.pc, target |-> r.target, files |-> r.files]
                /\ r.pc = q /\ r.target = cmProc[p].target /\ r.files = cmProc[p].files
                /\ cmProc'[p] = r
<1> DEFINE r == [pc |-> q, target |-> cmProc[p].target, files |-> cmProc[p].files]
<1>1. cmProc[p] = [pc |-> cmProc[p].pc, target |-> cmProc[p].target, files |-> cmProc[p].files]
      /\ cmProc = [x \in Process |-> cmProc[x]]
  BY DEF CMIInv, CMShapes
<1>2. [cmProc[p] EXCEPT !.pc = q] = r
  BY <1>1
<1>3. cmProc' = [cmProc EXCEPT ![p] = [cmProc[p] EXCEPT !.pc = q]]
  BY DEF CM!Goes
<1>4. /\ r = [pc |-> r.pc, target |-> r.target, files |-> r.files]
      /\ r.pc = q /\ r.target = cmProc[p].target /\ r.files = cmProc[p].files
  OBVIOUS
<1>5. cmProc' = [cmProc EXCEPT ![p] = r]
  BY <1>2, <1>3
<1> HIDE DEF r
<1>6. cmProc'[p] = r
  BY <1>1, <1>5
<1>7. r = [pc |-> q, target |-> cmProc[p].target, files |-> cmProc[p].files]
  BY DEF r
<1>8. QED BY <1>4, <1>5, <1>6, <1>7

LEMMA CMGoesIs ==
  ASSUME CMIInv, NEW p \in Process, NEW q, CM!Goes(p, q)
  PROVE  /\ cmProc' = [cmProc EXCEPT ![p] = cmProc'[p]]
         /\ cmProc'[p] = [pc |-> cmProc'[p].pc, target |-> cmProc'[p].target, files |-> cmProc'[p].files]
         /\ cmProc'[p].pc = q /\ cmProc'[p].target = cmProc[p].target
         /\ cmProc'[p].files = cmProc[p].files
<1>1. PICK r : /\ cmProc' = [cmProc EXCEPT ![p] = r]
                /\ r = [pc |-> q, target |-> cmProc[p].target, files |-> cmProc[p].files]
                /\ r = [pc |-> r.pc, target |-> r.target, files |-> r.files]
                /\ r.pc = q /\ r.target = cmProc[p].target /\ r.files = cmProc[p].files
                /\ cmProc'[p] = r
  BY CMGoesTo
<1>2. QED BY <1>1

LEMMA CMContentFacts ==
  ASSUME NEW t, NEW f \in CM!Archive \cup (CM!Temporary \ {"review"}), CMIsTarget(t),
         t = {} => f \notin {"archived progress", "staged progress"}
  PROVE  CM!Content(f, t) \notin {CM!Absent, CM!Torn}
<1>1. \A x : <<"target", x>> \notin {<<"absent">>, <<"torn">>}
  OBVIOUS
<1>2. \A x : <<"v1", x>> \notin {<<"absent">>, <<"torn">>} /\ <<"v2", x>> \notin {<<"absent">>, <<"torn">>}
  OBVIOUS
<1>3. <<"v1">> \notin {<<"absent">>, <<"torn">>} /\ <<"v2">> \notin {<<"absent">>, <<"torn">>}
  OBVIOUS
<1>4. /\ CM!Content("archived checkpoint", t) = <<"v1">> /\ CM!Content("staged checkpoint", t) = <<"v2">>
      /\ CM!Content("archived progress", t) = CM!Progress(t)
      /\ CM!Content("staged progress", t) = <<"v2", CM!Max(t)>>
      /\ CM!Content("manifest", t) = <<"target", t>> /\ CM!Content("marker", t) = <<"target", t>>
  BY DEF CM!Content, CM!Review
<1>5. t # {} => CM!Progress(t) = <<"v1", CM!Max(t)>>
  BY DEF CM!Progress
<1>6. f \in {"archived checkpoint", "archived progress", "manifest", "marker",
             "staged checkpoint", "staged progress"}
  BY DEF CM!Archive, CM!Temporary
<1>7. QED BY <1>1, <1>2, <1>3, <1>4, <1>5, <1>6 DEF CM!Absent, CM!Torn

\* The file a call is at.
LEMMA CMAtFile ==
  ASSUME CMIInv, NEW p \in Process, cmProc[p].pc \in CMWriting
  PROVE  /\ cmNow["checkpoint v1"] # CM!Absent /\ cmProc[p].pc \notin CMEarly
         /\ cmLock = {p}
         /\ Head(cmProc[p].files) \in CM!Archive \cup CM!Temporary
         /\ cmProc[p].files = <<"review">> => Head(cmProc[p].files) = "review"
         /\ CMApplies(p) =>
              /\ Head(cmProc[p].files) \in CM!Archive \cup (CM!Temporary \ {"review"})
              /\ cmProc[p].target = {}
                   => Head(cmProc[p].files) \notin {"archived progress", "staged progress"}
              /\ CM!Content(Head(cmProc[p].files), cmProc[p].target) \notin {CM!Absent, CM!Torn}
              /\ \A g \in CMDone(p) :
                    /\ g \in CM!Archive \cup (CM!Temporary \ {"review"})
                    /\ cmNow[g] \notin {CM!Absent, CM!Torn}
              /\ Len(cmProc[p].files) \in Nat \ {0}
              /\ CMDone(p) = {} => Head(cmProc[p].files) = "archived checkpoint"
<1> DEFINE files == cmProc[p].files
           t == cmProc[p].target
           w == CM!Written(t)
<1>1. cmNow["checkpoint v1"] # CM!Absent /\ (files = <<"review">> \/ CMApplies(p))
  BY DEF CMIInv, CMWritingInv
<1>2. cmProc[p].pc \notin CMEarly /\ cmProc[p].pc # "unlink"
  BY DEF CMWriting, CMEarly
<1>3. cmLock = {p}
  BY <1>2 DEF CMIInv, CMLockInv
<1>4. files = <<"review">> => Head(files) = "review" /\ "review" \in CM!Archive \cup CM!Temporary
  BY DEF CM!Temporary
<1>5. ASSUME CMApplies(p)
      PROVE  /\ Head(files) \in CM!Archive \cup (CM!Temporary \ {"review"})
             /\ t = {} => Head(files) \notin {"archived progress", "staged progress"}
             /\ CM!Content(Head(files), t) \notin {CM!Absent, CM!Torn}
             /\ \A g \in CMDone(p) :
                    /\ g \in CM!Archive \cup (CM!Temporary \ {"review"})
                    /\ cmNow[g] \notin {CM!Absent, CM!Torn}
             /\ Len(files) \in Nat \ {0}
             /\ CMDone(p) = {} => Head(files) = "archived checkpoint"
  <2>1. CMIsTarget(t) /\ CMSuffix(files, w) /\ files # <<>>
    BY <1>2, <1>5 DEF CMApplies
  <2>2. /\ w \in Seq(CM!Name) /\ Len(w) \in Nat \ {0} /\ w[1] = "archived checkpoint"
        /\ \A i \in 1 .. Len(w) :
              /\ w[i] \in CM!Archive \cup (CM!Temporary \ {"review"})
              /\ t = {} => w[i] \notin {"archived progress", "staged progress"}
    BY CMWrittenFacts
  <2>3. files \in Seq(CM!Name) /\ Len(files) \in Nat \ {0} /\ Len(files) <= Len(w)
        /\ files[1] = w[Len(w) - Len(files) + 1] /\ Head(files) = files[1]
    <3>1. files \in Seq(CM!Name) /\ Len(files) <= Len(w)
          /\ \A i \in 1 .. Len(files) : files[i] = w[Len(w) - Len(files) + i]
      BY <2>1 DEF CMSuffix
    <3>2. Len(files) \in Nat \ {0} /\ Head(files) = files[1]
      BY <2>1, <3>1
    <3>3. 1 \in 1 .. Len(files)
      BY <3>2
    <3>4. QED BY <3>1, <3>2, <3>3
  <2> DEFINE d == Len(w) - Len(files)
  <2>4. d \in Nat /\ d + 1 \in 1 .. Len(w) /\ 1 .. d \subseteq 1 .. Len(w)
    <3>1. ASSUME NEW a \in Nat \ {0}, NEW b \in Nat \ {0}, b <= a
          PROVE  a - b \in Nat /\ (a - b) + 1 \in 1 .. a /\ 1 .. (a - b) \subseteq 1 .. a
      BY <3>1
    <3>2. Len(w) \in Nat \ {0} /\ Len(files) \in Nat \ {0} /\ Len(files) <= Len(w)
      BY <2>2, <2>3
    <3> HIDE DEF w, files
    <3>3. QED BY <3>1, <3>2
  <2>5. CMDone(p) = {w[j] : j \in 1 .. d}
    BY DEF CMDone
  <2>6. Head(files) = w[d + 1]
    BY <2>3
  <2>7. CMDone(p) = {} => d = 0
    <3>1. d # 0 => 1 \in 1 .. d
      BY <2>4
    <3>2. QED BY <2>5, <3>1
  <2>8. \A g \in CMDone(p) : cmNow[g] = CM!Content(g, t)
    BY <1>5 DEF CMApplies
  <2> HIDE DEF w, d
  <2>9. /\ Head(files) \in CM!Archive \cup (CM!Temporary \ {"review"})
        /\ t = {} => Head(files) \notin {"archived progress", "staged progress"}
    BY <2>2, <2>4, <2>6
  <2>10. CMDone(p) = {} => Head(files) = "archived checkpoint"
    <3>1. d = 0 => d + 1 = 1
      OBVIOUS
    <3>2. QED BY <2>2, <2>6, <2>7, <3>1
  <2>11. \A g \in CMDone(p) :
           /\ g \in CM!Archive \cup (CM!Temporary \ {"review"})
           /\ t = {} => g \notin {"archived progress", "staged progress"}
    BY <2>2, <2>4, <2>5
  <2>12. \A g \in CMDone(p) : CM!Content(g, t) \notin {CM!Absent, CM!Torn}
    BY <2>1, <2>11, CMContentFacts
  <2>13. CM!Content(Head(files), t) \notin {CM!Absent, CM!Torn}
    BY <2>1, <2>9, CMContentFacts
  <2>14. QED BY <2>3, <2>8, <2>9, <2>10, <2>11, <2>12, <2>13
<1>6. QED BY <1>1, <1>2, <1>3, <1>4, <1>5

\* What is done stays done while the call is at one file.
LEMMA CMSameDone ==
  ASSUME CMIInv, NEW p \in Process, NEW r, cmProc'[p] = r,
         r.target = cmProc[p].target, r.files = cmProc[p].files
  PROVE  CMDone(p)' = CMDone(p)
BY DEF CMDone

LEMMA CMWriteFileIInv ==
  ASSUME CMIInv, NEW p \in Process, CM!Create(p) \/ CM!Write(p) \/ CM!SyncFile(p)
  PROVE  CMIInv'
<1> DEFINE f == Head(cmProc[p].files)
           t == cmProc[p].target
<1>1. /\ cmProc[p].pc \in CMWriting /\ UNCHANGED <<cmDisk, cmLock, cmApplied>>
      /\ \E q \in CMWriting : CM!Goes(p, q)
  BY DEF CM!Create, CM!Write, CM!SyncFile, CMWriting
<1>2. PICK q, r :
        /\ q \in CMWriting /\ CM!Goes(p, q)
        /\ cmProc' = [cmProc EXCEPT ![p] = r]
        /\ r = [pc |-> r.pc, target |-> r.target, files |-> r.files]
        /\ r.pc = q /\ r.target = t /\ r.files = cmProc[p].files
        /\ cmProc'[p] = r
  <2>1. PICK q \in CMWriting : CM!Goes(p, q)
    BY <1>1
  <2>2. QED BY <2>1, CMGoesTo
<1>3. /\ cmNow["checkpoint v1"] # CM!Absent /\ cmProc[p].pc \notin CMEarly /\ cmLock = {p}
      /\ f \in CM!Archive \cup CM!Temporary
      /\ CMApplies(p) =>
           /\ f \in CM!Archive \cup (CM!Temporary \ {"review"})
           /\ t = {} => f \notin {"archived progress", "staged progress"}
           /\ \A g \in CMDone(p) : cmNow[g] \notin {CM!Absent, CM!Torn}
  BY <1>1, CMAtFile
<1>4. f \notin CM!Lineage /\ f \in CM!Name
  BY <1>3 DEF CM!Name, CM!Archive, CM!Temporary, CM!Lineage
<1>5. cmNow = [g \in CM!Name |-> cmNow[g]] /\ cmDisk = [g \in CM!Name |-> cmDisk[g]]
  BY DEF CMIInv, CMShapes
<1>6. /\ cmNow' = cmNow \/ \E v : cmNow' = [cmNow EXCEPT ![f] = v]
      /\ cmPending' \in {cmPending, cmPending \cup {{f}}}
      /\ cmUnsynced' \in {cmUnsynced, cmUnsynced \cup {f}, cmUnsynced \ {f}}
  BY DEF CM!Create, CM!Write, CM!SyncFile
<1>7. \A g \in CM!Name \ {f} : cmNow'[g] = cmNow[g]
  BY <1>5, <1>6
<1>8. \A g \in CM!Name \ {f} :
                            /\ CMNamed(g) => CMNamed(g)'
                            /\ g \in cmUnsynced' <=> g \in cmUnsynced
  <2>1. \A g : g # f => (g \in UNION cmPending' <=> g \in UNION cmPending)
    BY <1>6
  <2>2. QED BY <1>1, <1>6, <1>7, <2>1 DEF CMNamed
<1>9. \A g \in CM!Name \ {f} : CMDurable(g) => CMDurable(g)'
  BY <1>7, <1>8 DEF CMDurable
<1>10. \A g \in CM!Lineage :
                          /\ cmNow'[g] = cmNow[g] /\ cmDisk'[g] \in {cmDisk[g], cmNow[g]}
                          /\ (CMNamed(g) => CMNamed(g)') /\ g \notin cmUnsynced'
  <2>1. CM!Lineage \subseteq CM!Name \ {f}
    BY <1>4 DEF CM!Name
  <2>2. QED BY <1>1, <1>7, <1>8, <2>1 DEF CMIInv, CMFilesInv
<1>11. cmNow' = [g \in CM!Name |-> cmNow'[g]] /\ cmDisk' = [g \in CM!Name |-> cmDisk'[g]]
  BY <1>1, <1>5, <1>6
<1>12. ASSUME CMApplies(p) PROVE CMApplies(p)'
  <2>1. /\ CMIsTarget(t) /\ CMSuffix(cmProc[p].files, CM!Written(t))
        /\ cmNow["progress"] = CM!Progress(t) /\ cmNow["review"] = CM!Review(t)
        /\ \A g \in CMDone(p) : cmNow[g] = CM!Content(g, t) /\ CMDurable(g)
        /\ t = {} => cmNow["archived progress"] = CM!Absent
        /\ t = {} /\ CMDone(p) # {} => CMDurable("archived progress")
        /\ "marker" \in CMDone(p) => CMNamed("review")
    BY <1>12 DEF CMApplies
  <2>2. cmProc[p].files # <<>>
    BY <1>1, <1>12 DEF CMApplies, CMWriting
  <2>3. CMDone(p)' = CMDone(p)
    BY <1>2, CMSameDone
  <2>4. /\ f # "review" /\ f # "progress" /\ (t = {} => f # "archived progress")
        /\ "review" \in CM!Name /\ "progress" \in CM!Name /\ "archived progress" \in CM!Name
    BY <1>3, <1>12 DEF CM!Archive, CM!Temporary, CM!Lineage, CM!Name
  <2>5. CMDone(p) \subseteq CM!Name
    BY <1>1, <1>12, CMAtFile DEF CM!Name
  <2>6. cmNow'["progress"] = cmNow["progress"] /\ cmNow'["review"] = cmNow["review"]
        /\ (CMNamed("review") => CMNamed("review")')
        /\ (t = {} => cmNow'["archived progress"] = cmNow["archived progress"]
                      /\ (CMDurable("archived progress") => CMDurable("archived progress")'))
    BY <1>7, <1>8, <1>9, <2>4
  <2>7. CASE CM!Create(p)
    <3>1. cmNow[f] = CM!Absent /\ cmNow' = [cmNow EXCEPT ![f] = CM!Torn] /\ CM!Goes(p, "write")
      BY <2>7 DEF CM!Create
    <3>2. f \notin CMDone(p)
      BY <1>3, <1>12, <3>1
    <3>6. cmProc'[p].pc = "write"
      BY <3>1, CMGoesTo
    <3>3. r.pc = "write" /\ cmNow'[f] = CM!Torn
      BY <1>2, <1>4, <1>5, <3>1, <3>6
    <3>4. \A g \in CMDone(p) : cmNow'[g] = CM!Content(g, t) /\ CMDurable(g)'
      BY <1>7, <1>9, <2>1, <2>5, <3>2
    <3>5. QED BY <1>2, <2>1, <2>2, <2>3, <2>6, <3>3, <3>4 DEF CMApplies
  <2>8. CASE CM!Write(p)
    <3>1. cmNow[f] = CM!Torn /\ cmNow' = [cmNow EXCEPT ![f] = CM!Content(f, t)] /\ CM!Goes(p, "sync")
      BY <1>12, <2>8 DEF CM!Write, CMApplies
    <3>2. f \notin CMDone(p)
      BY <1>3, <1>12, <3>1
    <3>6. cmProc'[p].pc = "sync"
      BY <3>1, CMGoesTo
    <3>3. r.pc = "sync" /\ cmNow'[f] = CM!Content(f, t)
      BY <1>2, <1>4, <1>5, <3>1, <3>6
    <3>4. \A g \in CMDone(p) : cmNow'[g] = CM!Content(g, t) /\ CMDurable(g)'
      BY <1>7, <1>9, <2>1, <2>5, <3>2
    <3>5. QED BY <1>2, <2>1, <2>2, <2>3, <2>6, <3>3, <3>4 DEF CMApplies
  <2>9. CASE CM!SyncFile(p)
    <3>1. /\ cmProc[p].pc = "sync" /\ cmUnsynced' = cmUnsynced \ {f} /\ UNCHANGED <<cmNow, cmPending, cmDisk>>
          /\ CM!Goes(p, "sync names")
      BY <2>9 DEF CM!SyncFile
    <3>5. CM!Goes(p, "sync names")
      BY <2>9 DEF CM!SyncFile
    <3>6. cmProc'[p].pc = "sync names"
      <4>1. \A where : CM!Goes(p, where) => cmProc'[p].pc = where
        BY CMGoesTo
      <4>2. QED BY <3>5, <4>1
    <3>2. r.pc = "sync names" /\ f \notin cmUnsynced'
      BY <1>2, <3>1, <3>6
    <3>3. cmNow'[f] = CM!Content(f, t)
      BY <1>12, <3>1 DEF CMApplies
    <3>4. \A g \in CMDone(p) : cmNow'[g] = CM!Content(g, t) /\ CMDurable(g)'
      BY <2>1, <3>1 DEF CMDurable, CMNamed
    <3>7. QED BY <1>2, <2>1, <2>2, <2>3, <2>6, <3>2, <3>3, <3>4 DEF CMApplies
  <2>10. QED BY <2>7, <2>8, <2>9
<1>13. r.pc # "off" => (r.files = <<"review">> /\ r.pc # "unlink") \/ CMApplies(p)'
  <2>1. cmProc[p].files = <<"review">> \/ CMApplies(p)
    BY <1>1 DEF CMIInv, CMWritingInv
  <2>2. r.pc # "unlink"
    BY <1>2 DEF CMWriting
  <2>3. QED BY <1>2, <1>12, <2>1, <2>2
<1>14. cmLock' = {p} /\ r.pc \in {"off", "unlink"} \cup CMWriting /\ cmApplied' = cmApplied
  BY <1>1, <1>2, <1>3
<1>15. QED BY <1>2, <1>3, <1>10, <1>11, <1>13, <1>14, CMWritingOn

LEMMA CMSyncedDir ==
  ASSUME CMIInv, NEW dir \in SUBSET CM!Name, CM!SyncNames(dir), cmNow' = cmNow
  PROVE  /\ cmDisk' = [f \in CM!Name |-> cmDisk'[f]]
         /\ \A f \in dir : CMNamed(f)'
         /\ \A f \in CM!Name : CMNamed(f) => CMNamed(f)'
         /\ \A f \in CM!Name : cmDisk'[f] \in {cmDisk[f], cmNow[f]}
<1>1. /\ cmDisk' = [f \in CM!Name |-> IF f \in dir THEN cmNow[f] ELSE cmDisk[f]]
      /\ cmPending' = {fs \in cmPending : fs \cap dir = {}}
  BY DEF CM!SyncNames
<1>2. \A f \in dir : f \notin UNION cmPending'
  BY <1>1
<1>3. \A f : f \notin UNION cmPending => f \notin UNION cmPending'
  BY <1>1
<1>4. QED BY <1>1, <1>2, <1>3 DEF CMNamed

\* One index more.
LEMMA CMIndices ==
  ASSUME NEW x \in Nat \ {0}, NEW y \in Nat \ {0}, y <= x
  PROVE  /\ 1 \in 1 .. y /\ y - 1 <= x /\ (y - 1 = 0 <=> y = 1)
         /\ \A i \in 1 .. y - 1 : i + 1 \in 1 .. y
                                   /\ (x - y) + (i + 1) = (x - (y - 1)) + i
         /\ \A j \in 1 .. x - (y - 1) : j \in 1 .. x - y \/ j = (x - y) + 1
OBVIOUS

LEMMA CMFirstOf ==
  ASSUME NEW S, NEW s \in Seq(S), s # <<>>
  PROVE  Head(s) = s[1] /\ Len(s) \in Nat \ {0}
OBVIOUS

\* One file more is durable.
LEMMA CMOneMore ==
  ASSUME CMIInv, NEW p \in Process, CMApplies(p), cmProc[p].pc = "sync names",
         NEW r, cmProc'[p] = r, r.target = cmProc[p].target, r.files = Tail(cmProc[p].files)
  PROVE  /\ CMDone(p)' \subseteq CMDone(p) \cup {Head(cmProc[p].files)}
         /\ CMSuffix(r.files, CM!Written(r.target))
         /\ (r.files = <<>>) <=> Len(cmProc[p].files) = 1
<1> DEFINE files == cmProc[p].files
           w == CM!Written(cmProc[p].target)
           d == Len(w) - Len(files)
<1>1. files \in Seq(CM!Name) /\ files # <<>> /\ Len(files) <= Len(w)
      /\ \A i \in 1 .. Len(files) : files[i] = w[d + i]
  <2>1. cmProc[p].pc # "unlink"
    OBVIOUS
  <2>2. QED BY <2>1 DEF CMApplies, CMSuffix
<1>2. w \in Seq(CM!Name) /\ Len(w) \in Nat \ {0}
  BY CMWrittenFacts
<1>3. /\ Tail(files) \in Seq(CM!Name) /\ Len(files) \in Nat \ {0}
      /\ Len(Tail(files)) = Len(files) - 1 /\ Head(files) = files[1]
      /\ \A i \in 1 .. Len(Tail(files)) : Tail(files)[i] = files[i + 1]
  <2> HIDE DEF files, w
  <2>1. /\ Tail(files) \in Seq(CM!Name) /\ Len(Tail(files)) = Len(files) - 1
        /\ \A i \in 1 .. Len(Tail(files)) : Tail(files)[i] = files[i + 1]
    BY <1>1, HeadTailProperties
  <2>2. Len(files) \in Nat \ {0} /\ Head(files) = files[1]
    BY <1>1, CMFirstOf
  <2>3. QED BY <2>1, <2>2
<1> DEFINE a == Len(w)
           b == Len(files)
<1>4. a \in Nat \ {0} /\ b \in Nat \ {0} /\ b <= a
  BY <1>1, <1>2, <1>3
<1>5. CMDone(p) = {w[j] : j \in 1 .. a - b} /\ CMDone(p)' = {w[j] : j \in 1 .. a - (b - 1)}
  BY <1>3 DEF CMDone
<1>6. files[1] = w[(a - b) + 1]
  <2>1. 1 \in 1 .. b
    <3> HIDE DEF a, b
    <3>1. QED BY <1>4, CMIndices
  <2>2. QED BY <1>1, <2>1
<1>7. \A i \in 1 .. b - 1 : Tail(files)[i] = w[(a - (b - 1)) + i]
  <2>1. TAKE i \in 1 .. b - 1
  <2>2. i + 1 \in 1 .. b /\ (a - b) + (i + 1) = (a - (b - 1)) + i
    <3> HIDE DEF a, b
    <3>1. QED BY <1>4, CMIndices
  <2>3. Tail(files)[i] = files[i + 1]
    BY <1>3
  <2>4. QED BY <1>1, <2>2, <2>3
<1> HIDE DEF a, b
<1>8. /\ \A j \in 1 .. a - (b - 1) : j \in 1 .. a - b \/ j = (a - b) + 1
      /\ b - 1 <= a /\ (b - 1 = 0 <=> b = 1)
  BY <1>4, CMIndices
<1>9. CMDone(p)' \subseteq CMDone(p) \cup {Head(files)}
  BY <1>3, <1>5, <1>6, <1>8
<1>10. Len(Tail(files)) = b - 1
  BY <1>3 DEF b
<1>12. CMSuffix(r.files, CM!Written(r.target))
  BY <1>3, <1>7, <1>8, <1>10 DEF CMSuffix, a
<1>13. (Tail(files) = <<>>) <=> b = 1
  <2>1. (Tail(files) = <<>>) <=> Len(Tail(files)) = 0
    BY <1>3, EmptySeq
  <2>2. QED BY <1>8, <1>10, <2>1
<1>14. QED BY <1>9, <1>12, <1>13 DEF b

LEMMA CMSyncedNamesIInv ==
  ASSUME CMIInv, NEW p \in Process, CM!SyncedNames(p)
  PROVE  CMIInv'
<1> DEFINE t == cmProc[p].target
<1>0. PICK f : f = Head(cmProc[p].files)
  OBVIOUS
<1> DEFINE dir == CM!Beside(f)
<1>1. /\ cmProc[p].pc = "sync names" /\ cmProc[p].pc \in CMWriting
      /\ CM!Continues(p) /\ CM!SyncNames(dir) /\ UNCHANGED <<cmNow, cmUnsynced, cmApplied>>
  BY <1>0 DEF CM!SyncedNames, CM!Continues, CMWriting
<1>2. /\ cmNow["checkpoint v1"] # CM!Absent /\ cmProc[p].pc \notin CMEarly /\ cmLock = {p}
      /\ cmProc[p].files = <<"review">> => f = "review"
      /\ CMApplies(p) =>
           /\ f \in CM!Archive \cup (CM!Temporary \ {"review"})
           /\ \A g \in CMDone(p) : g \in CM!Archive \cup (CM!Temporary \ {"review"})
           /\ Len(cmProc[p].files) \in Nat \ {0}
           /\ CMDone(p) = {} => f = "archived checkpoint"
  BY <1>0, <1>1, CMAtFile
<1>3. dir \in SUBSET CM!Name
  BY DEF CM!Beside, CM!Name
<1>4. cmNow = [g \in CM!Name |-> cmNow[g]]
  BY DEF CMIInv, CMShapes
<1>5. /\ cmDisk' = [g \in CM!Name |-> cmDisk'[g]]
      /\ \A g \in dir : CMNamed(g)'
      /\ \A g \in CM!Name : CMNamed(g) => CMNamed(g)'
      /\ \A g \in CM!Name : cmDisk'[g] \in {cmDisk[g], cmNow[g]}
  BY <1>1, <1>3, CMSyncedDir
<1>6. \A g \in CM!Lineage :
                         /\ cmNow'[g] = cmNow[g] /\ cmDisk'[g] \in {cmDisk[g], cmNow[g]}
                         /\ (CMNamed(g) => CMNamed(g)') /\ g \notin cmUnsynced'
  BY <1>1, <1>5 DEF CMIInv, CMFilesInv, CM!Name
<1>7. cmNow' = [g \in CM!Name |-> cmNow'[g]]
  BY <1>1, <1>4
<1>8. cmProc[p].files = <<"review">> \/ CMApplies(p)
  BY <1>1 DEF CMIInv, CMWritingInv
<1>9. CASE f = "review"
  <2>1. cmProc' = [cmProc EXCEPT ![p] = CM!Off] /\ cmLock' = {}
    BY <1>0, <1>1, <1>9 DEF CM!Continues
  <2>2. CM!Off = [pc |-> CM!Off.pc, target |-> CM!Off.target, files |-> CM!Off.files] /\ CM!Off.pc = "off"
    BY DEF CM!Off
  <2>3. QED BY <1>1, <1>2, <1>5, <1>6, <1>7, <2>1, <2>2, CMWritingOn
<1>10. CASE f # "review"
  <2>1. CMApplies(p)
    BY <1>2, <1>8, <1>10
  <2> DEFINE q == IF Len(cmProc[p].files) = 1 THEN "unlink" ELSE "create"
             r == [pc |-> q, target |-> t, files |-> Tail(cmProc[p].files)]
  <2>2. cmProc' = [cmProc EXCEPT ![p].files = Tail(cmProc[p].files), ![p].pc = q] /\ cmLock' = cmLock
    BY <1>0, <1>1, <1>10 DEF CM!Continues
  <2>3. cmProc' = [cmProc EXCEPT ![p] = r]
    <3>1. cmProc[p] = [pc |-> cmProc[p].pc, target |-> t, files |-> cmProc[p].files]
          /\ cmProc = [x \in Process |-> cmProc[x]]
      BY DEF CMIInv, CMShapes
    <3> DEFINE s == [cmProc[p] EXCEPT !.files = Tail(cmProc[p].files)]
               m == [cmProc EXCEPT ![p] = s]
    <3>2. s = [pc |-> cmProc[p].pc, target |-> t, files |-> Tail(cmProc[p].files)]
      <4>1. PICK x, y, z : cmProc[p] = [pc |-> x, target |-> y, files |-> z]
        BY <3>1
      <4>3. cmProc[p].pc = x /\ t = y /\ cmProc[p].files = z
        BY <4>1
      <4> DEFINE tail == Tail(z)
      <4>4. s = [cmProc[p] EXCEPT !.files = tail]
        BY <4>3
      <4> HIDE DEF s, tail
      <4>5. s = [pc |-> x, target |-> y, files |-> tail]
        BY <4>1, <4>4
      <4>6. QED BY <4>3, <4>5 DEF tail
    <3> HIDE DEF q
    <3>3. cmProc' = [m EXCEPT ![p] = [m[p] EXCEPT !.pc = q]]
      BY <2>2, <3>1
    <3> HIDE DEF s
    <3>4. m[p] = s /\ m = [x \in Process |-> IF x = p THEN s ELSE cmProc[x]]
      BY <3>1
    <3>5. [s EXCEPT !.pc = q] = r
      <4> DEFINE y == Tail(cmProc[p].files)
      <4>1. s = [pc |-> cmProc[p].pc, target |-> t, files |-> y]
        BY <3>2
      <4> HIDE DEF t, y
      <4>2. [s EXCEPT !.pc = q] = [pc |-> q, target |-> t, files |-> y]
        BY <4>1
      <4>3. QED BY <4>2 DEF y
    <3> HIDE DEF m, r
    <3>6. cmProc' = [x \in Process |-> IF x = p THEN r ELSE cmProc[x]]
      BY <3>3, <3>4, <3>5
    <3>7. QED BY <3>1, <3>6
  <2>4. /\ r = [pc |-> r.pc, target |-> r.target, files |-> r.files]
        /\ r.pc = q /\ r.target = t /\ r.files = Tail(cmProc[p].files)
        /\ q \in {"unlink", "create"} /\ (q = "unlink" <=> Len(cmProc[p].files) = 1)
    OBVIOUS
  <2> HIDE DEF q, r
  <2>5. cmProc'[p] = r
    BY <2>3 DEF CMIInv, CMShapes
  <2>6. /\ CMDone(p)' \subseteq CMDone(p) \cup {f}
        /\ CMSuffix(r.files, CM!Written(t))
        /\ (r.files = <<>>) <=> Len(cmProc[p].files) = 1
    BY <1>0, <1>1, <2>1, <2>4, <2>5, CMOneMore
  <2>7. /\ CMIsTarget(t) /\ cmNow["progress"] = CM!Progress(t) /\ cmNow["review"] = CM!Review(t)
        /\ \A g \in CMDone(p) : cmNow[g] = CM!Content(g, t) /\ CMDurable(g)
        /\ t = {} => cmNow["archived progress"] = CM!Absent
        /\ t = {} /\ CMDone(p) # {} => CMDurable("archived progress")
        /\ "marker" \in CMDone(p) => CMNamed("review")
        /\ cmNow[f] = CM!Content(f, t) /\ f \notin cmUnsynced
    BY <1>0, <1>1, <2>1 DEF CMApplies
  <2>8. f \in CM!Name /\ f \in dir /\ CMDone(p) \subseteq CM!Name
    BY <1>2, <2>1 DEF CM!Beside, CM!Name, CM!Archive, CM!Temporary
  <2>9. \A g \in CM!Name : CMDurable(g) => CMDurable(g)'
    BY <1>1, <1>5 DEF CMDurable
  <2>10. \A g \in CMDone(p)' : cmNow'[g] = CM!Content(g, t) /\ CMDurable(g)'
    <3>1. \A g \in CMDone(p) : cmNow'[g] = CM!Content(g, t) /\ CMDurable(g)'
      BY <1>1, <2>7, <2>8, <2>9
    <3>2. cmNow'[f] = CM!Content(f, t) /\ CMDurable(f)'
      BY <1>1, <1>5, <2>7, <2>8 DEF CMDurable
    <3>3. QED BY <2>6, <3>1, <3>2
  <2>11. t = {} => cmNow'["archived progress"] = CM!Absent /\ CMDurable("archived progress")'
    <3>1. SUFFICES ASSUME t = {} PROVE cmNow'["archived progress"] = CM!Absent
                                       /\ CMDurable("archived progress")'
      OBVIOUS
    <3>2. cmNow["archived progress"] = CM!Absent
      BY <2>7, <3>1
    <3>3. "archived progress" \in CM!Archive /\ "archived progress" \in CM!Name
      BY DEF CM!Archive, CM!Name
    <3>4. CASE CMDone(p) # {}
      BY <1>1, <2>7, <2>9, <3>1, <3>2, <3>3, <3>4
    <3>5. CASE CMDone(p) = {}
      <4>1. dir = CM!Archive
        BY <1>2, <2>1, <3>5 DEF CM!Beside, CM!Archive
      <4>2. CMNamed("archived progress")'
        BY <1>5, <3>3, <4>1
      <4>3. QED BY <1>1, <3>2, <4>2 DEF CMDurable
    <3>6. QED BY <3>4, <3>5
  <2>12. "marker" \in CMDone(p)' => CMNamed("review")'
    <3>1. "review" \in CM!Name
      BY DEF CM!Name, CM!Temporary
    <3>2. CASE "marker" \in CMDone(p)
      BY <1>5, <2>7, <3>1, <3>2
    <3>3. CASE f = "marker"
      <4>1. "review" \in dir
        BY <3>3 DEF CM!Beside, CM!Name, CM!Archive, CM!Temporary
      <4>2. QED BY <1>5, <4>1
    <3>4. QED BY <2>6, <3>2, <3>3
  <2>13. r.pc \notin {"write", "sync", "sync names"} /\ (r.pc = "unlink" <=> r.files = <<>>)
    BY <2>4, <2>6
  <2>14. CMApplies(p)'
    BY <1>1, <2>4, <2>5, <2>6, <2>7, <2>10, <2>11, <2>12, <2>13 DEF CMApplies
  <2>15. r.pc \in {"off", "unlink"} \cup CMWriting /\ cmLock' = {p}
    BY <1>2, <2>2, <2>4 DEF CMWriting
  <2>16. QED BY <1>1, <1>2, <1>5, <1>6, <1>7, <2>3, <2>4, <2>14, <2>15, CMWritingOn
<1>11. QED BY <1>9, <1>10

\* The call that switches the new files in.
LEMMA CMSwitchOn ==
  ASSUME CMIInv, NEW p \in Process, cmProc[p].pc \notin CMEarly, NEW q \in CMSwitching, NEW t,
         CM!Goes(p, q), UNCHANGED <<cmLock, cmApplied>>,
         cmNow' = [f \in CM!Name |-> cmNow'[f]], cmDisk' = [f \in CM!Name |-> cmDisk'[f]],
         cmNow'["checkpoint v1"] = CM!Absent, CMFilesInv', CMIsTarget(t), CMReviewed' = t, CMArchived(t)',
         {cmNow'["progress"], cmDisk'["progress"]} \subseteq {CM!Progress(t), CMNew(t)},
         CMMarked' \/ CMSwitched(t)', CMSwitches(p, t)'
  PROVE  CMIInv'
<1> DEFINE r == cmProc'[p]
<1>1. /\ cmProc' = [cmProc EXCEPT ![p] = r]
      /\ r = [pc |-> r.pc, target |-> r.target, files |-> r.files] /\ r.pc = q
  BY CMGoesIs
<1> HIDE DEF r
<1>2. cmLock' = {p}
  BY DEF CMIInv, CMLockInv
<1>3. /\ CMShapes' /\ CMLockInv' /\ cmProc'[p] = r
      /\ \A x \in Process \ {p} : cmProc'[x].pc \in CMEarly
  <2>1. r.pc \in CMEarly \cup CMWriting \cup {"unlink"} \cup CMSwitching
    BY <1>1
  <2>2. QED BY <1>1, <1>2, <2>1, CMMoves
<1>4. CMEarly \cap CMSwitching = {} /\ CMEarly \cap (CMWriting \cup {"unlink"}) = {}
      /\ CMSwitching \cap (CMWriting \cup {"unlink"}) = {}
  BY DEF CMEarly, CMWriting, CMSwitching, CMReplacing, CMReplaced
<1>5. CMWritingInv'
  BY <1>1, <1>3, <1>4 DEF CMWritingInv
<1>6. CMReplacedInv'
  <2>1. \A x \in Process : cmProc'[x].pc \in CMSwitching => x = p
    BY <1>3, <1>4
  <2>2. CMIsTarget(CMReviewed)' /\ CMArchived(CMReviewed)' /\ (CMMarked' \/ CMSwitched(CMReviewed)')
    BY DEF CMIsTarget, CMArchived, CMDurable, CMNamed, CMSwitched
  <2>3. \A x \in Process : cmProc'[x].pc \in CMSwitching => CMSwitches(x, CMReviewed)'
    BY <2>1 DEF CMSwitches, CMSwitched, CMNamed
  <2>4. {cmNow'["progress"], cmDisk'["progress"]} \subseteq {CM!Progress(CMReviewed'), CMNew(CMReviewed')}
    OBVIOUS
  <2>5. QED BY <2>2, <2>3, <2>4 DEF CMReplacedInv, CM!Progress, CMNew
<1>7. CMSwitchingInv'
  BY DEF CMSwitchingInv
<1>8. CMAppliedInv'
  BY DEF CMIInv, CMAppliedInv
<1>9. QED BY <1>3, <1>5, <1>6, <1>7, <1>8 DEF CMIInv

\* Names that are not touched stay as they are.
LEMMA CMTouches ==
  ASSUME CMIInv, NEW D \in SUBSET CM!Name, cmDisk' = cmDisk, cmUnsynced' = cmUnsynced,
         cmPending' = cmPending \cup {D}, \A g \in CM!Name \ D : cmNow'[g] = cmNow[g]
  PROVE  /\ \A g \in CM!Name \ D : (CMNamed(g) => CMNamed(g)') /\ (CMDurable(g) => CMDurable(g)')
         /\ \A t : CMArchived(t) /\ D \cap CM!Archive = {} => CMArchived(t)'
         /\ CMMarked /\ D \cap {"marker", "review"} = {} => CMMarked'
         /\ \A t : CMSwitched(t) /\ D \cap CM!Lineage = {} => CMSwitched(t)'
<1>1. \A g \in CM!Name \ D : g \in UNION cmPending' <=> g \in UNION cmPending
  OBVIOUS
<1>2. \A g \in CM!Name \ D : (CMNamed(g) => CMNamed(g)') /\ (CMDurable(g) => CMDurable(g)')
  BY <1>1 DEF CMNamed, CMDurable
<1>3. ASSUME NEW t, CMArchived(t), D \cap CM!Archive = {} PROVE CMArchived(t)'
  <2>1. CM!Archive \subseteq CM!Name \ D /\ "archived checkpoint" \in CM!Archive
        /\ "archived progress" \in CM!Archive /\ "manifest" \in CM!Archive
    BY <1>3 DEF CM!Name, CM!Archive
  <2>2. QED BY <1>2, <1>3, <2>1 DEF CMArchived
<1>4. ASSUME CMMarked, D \cap {"marker", "review"} = {} PROVE CMMarked'
  <2>1. {"marker", "review"} \subseteq CM!Name \ D
    BY <1>4 DEF CM!Name, CM!Temporary
  <2>2. QED BY <1>2, <1>4, <2>1 DEF CMMarked
<1>5. ASSUME NEW t, CMSwitched(t), D \cap CM!Lineage = {} PROVE CMSwitched(t)'
  <2>1. CM!Lineage \subseteq CM!Name \ D /\ "checkpoint v2" \in CM!Lineage /\ "progress" \in CM!Lineage
    BY <1>5 DEF CM!Name, CM!Lineage
  <2>2. QED BY <1>2, <1>5, <2>1 DEF CMSwitched
<1>6. QED BY <1>2, <1>3, <1>4, <1>5

LEMMA CMReviewedIs ==
  ASSUME NEW t, cmNow["manifest"] = CM!Review(t)
  PROVE  CMReviewed = t
BY DEF CMReviewed, CM!Review

\* The last legacy file goes; all that replaces it is durable.
LEMMA CMUnlinkIInv ==
  ASSUME CMIInv, NEW p \in Process, CM!UnlinkCheckpoint(p)
  PROVE  CMIInv'
<1>0. PICK t : t = cmProc[p].target
  OBVIOUS
<1> DEFINE D == {"checkpoint v1"}
<1>1. /\ cmProc[p].pc = "unlink" /\ cmNow' = [cmNow EXCEPT !["checkpoint v1"] = CM!Absent]
      /\ cmPending' = cmPending \cup {D} /\ CM!Goes(p, "rename")
      /\ UNCHANGED <<cmDisk, cmUnsynced, cmLock, cmApplied>>
  BY DEF CM!UnlinkCheckpoint, CM!Unlink
<1>2. CMApplies(p) /\ cmProc[p].pc \notin CMEarly /\ cmNow["checkpoint v1"] # CM!Absent
  BY <1>1 DEF CMIInv, CMWritingInv, CMEarly
<1>3. /\ CMIsTarget(t) /\ cmProc[p].files = <<>>
      /\ cmNow["progress"] = CM!Progress(t) /\ cmNow["review"] = CM!Review(t)
      /\ \A f \in CMDone(p) : cmNow[f] = CM!Content(f, t) /\ CMDurable(f)
      /\ t = {} => cmNow["archived progress"] = CM!Absent
      /\ t = {} /\ CMDone(p) # {} => CMDurable("archived progress")
      /\ "marker" \in CMDone(p) => CMNamed("review")
  BY <1>0, <1>1, <1>2 DEF CMApplies
<1>4. /\ {"archived checkpoint", "manifest", "marker", "staged checkpoint"} \subseteq CMDone(p)
      /\ t # {} => {"archived progress", "staged progress"} \subseteq CMDone(p)
  <2>1. CMDone(p) = {CM!Written(t)[j] : j \in 1 .. Len(CM!Written(t)) - 0}
    BY <1>0, <1>3 DEF CMDone
  <2>2. Len(CM!Written(t)) \in Nat \ {0}
    BY CMWrittenFacts
  <2>3. Len(CM!Written(t)) - 0 = Len(CM!Written(t))
    BY <2>2
  <2>4. QED BY <2>1, <2>3, CMWrittenFacts
<1>5. cmNow = [g \in CM!Name |-> cmNow[g]] /\ cmDisk = [g \in CM!Name |-> cmDisk[g]]
  BY DEF CMIInv, CMShapes
<1>6. /\ \A g \in CM!Name \ D : cmNow'[g] = cmNow[g]
      /\ cmNow'["checkpoint v1"] = CM!Absent /\ D \in SUBSET CM!Name
      /\ cmNow' = [g \in CM!Name |-> cmNow'[g]] /\ cmDisk' = [g \in CM!Name |-> cmDisk'[g]]
  BY <1>1, <1>5 DEF CM!Name, CM!Lineage
<1>7. \A g \in CM!Name \ D : (CMNamed(g) => CMNamed(g)') /\ (CMDurable(g) => CMDurable(g)')
  BY <1>1, <1>6, CMTouches
<1>8. CM!Archive \cup CM!Temporary \cup {"progress", "checkpoint v2"} \subseteq CM!Name \ D
  BY DEF CM!Name, CM!Archive, CM!Temporary, CM!Lineage
<1>9. CMArchived(t)'
  <2>1. cmNow["archived checkpoint"] = <<"v1">> /\ cmNow["manifest"] = CM!Review(t)
        /\ CMDurable("archived checkpoint") /\ CMDurable("manifest")
    BY <1>3, <1>4 DEF CM!Content
  <2>2. cmNow["archived progress"] = CM!Progress(t) /\ CMDurable("archived progress")
    <3>1. CASE t = {}
      BY <1>3, <1>4, <3>1 DEF CM!Progress
    <3>2. CASE t # {}
      BY <1>3, <1>4, <3>2 DEF CM!Content
    <3>3. QED BY <3>1, <3>2
  <2>3. CM!Archive = {"archived checkpoint", "archived progress", "manifest"}
    BY DEF CM!Archive
  <2>4. \A g \in CM!Archive : g \in CM!Name \ D
    BY <1>8
  <2>5. QED BY <1>6, <1>7, <2>1, <2>2, <2>3, <2>4 DEF CMArchived
<1>10. CMMarked'
  <2>1. cmNow["marker"] = CM!Review(t) /\ cmNow["review"] = CM!Review(t) /\ CMNamed("marker") /\ CMNamed("review")
    BY <1>3, <1>4 DEF CM!Content, CMDurable
  <2>2. CM!Review(t) # CM!Absent
    BY DEF CM!Review, CM!Absent
  <2>3. "marker" \in CM!Name \ D /\ "review" \in CM!Name \ D
    BY <1>8 DEF CM!Temporary
  <2>4. QED BY <1>6, <1>7, <2>1, <2>2, <2>3 DEF CMMarked
<1>11. CMReviewed' = t
  <2>1. cmNow'["manifest"] = CM!Review(t)
    BY <1>9 DEF CMArchived
  <2>2. QED BY <2>1 DEF CMReviewed, CM!Review
<1>12. cmNow'["progress"] = CM!Progress(t) /\ cmDisk'["progress"] = CM!Progress(t)
  BY <1>1, <1>2, <1>3, <1>6, <1>8 DEF CMIInv, CMFilesInv, CMNamed
<1>13. CMFilesInv'
  <2>1. cmNow'["checkpoint v2"] = cmNow["checkpoint v2"] /\ cmNow'["progress"] = cmNow["progress"]
    BY <1>6, <1>8
  <2>2. CMIsCursor(cmNow["progress"])' /\ CMIsCursor(cmDisk["progress"])'
    BY <1>1, <2>1 DEF CMIInv, CMFilesInv, CMIsCursor
  <2>3. QED BY <1>1, <1>6, <2>1, <2>2 DEF CMIInv, CMFilesInv
<1>14. CMSwitches(p, t)'
  <2>1. cmProc'[p].pc = "rename" /\ cmProc'[p].target = t
    BY <1>0, <1>1, CMGoesIs
  <2>2. cmNow["staged checkpoint"] = <<"v2">>
    BY <1>3, <1>4 DEF CM!Content
  <2>3. t # {} => cmNow["staged progress"] = CMNew(t)
    BY <1>3, <1>4 DEF CM!Content, CMNew
  <2>4. cmNow'["staged checkpoint"] = cmNow["staged checkpoint"]
        /\ cmNow'["staged progress"] = cmNow["staged progress"]
    BY <1>6, <1>8 DEF CM!Temporary
  <2>5. "rename" \notin CMReplaced
    BY DEF CMReplaced
  <2>6. QED BY <1>10, <2>1, <2>2, <2>3, <2>4, <2>5 DEF CMSwitches, CMNew
<1>15. "rename" \in CMSwitching
  BY DEF CMSwitching, CMReplacing
<1>16. QED BY <1>1, <1>2, <1>3, <1>6, <1>9, <1>10, <1>11, <1>12, <1>13, <1>14, <1>15, CMSwitchOn

\* What holds of the call that switches the new files in.
LEMMA CMAtSwitch ==
  ASSUME CMIInv, NEW p \in Process, cmProc[p].pc \in CMSwitching
  PROVE  \E t :
                /\ t = cmProc[p].target /\ CMIsTarget(t) /\ CMReviewed = t /\ CMArchived(t)
                /\ {cmNow["progress"], cmDisk["progress"]} \subseteq {CM!Progress(t), CMNew(t)}
                /\ CMMarked \/ CMSwitched(t)
                /\ CMSwitches(p, t)
                /\ cmNow["checkpoint v1"] = CM!Absent /\ cmProc[p].pc \notin CMEarly /\ cmLock = {p}
                /\ cmNow = [g \in CM!Name |-> cmNow[g]] /\ cmDisk = [g \in CM!Name |-> cmDisk[g]]
<1>1. cmNow["checkpoint v1"] = CM!Absent
  BY DEF CMIInv, CMSwitchingInv
<1>2. cmProc[p].pc \notin CMEarly
  BY DEF CMEarly, CMSwitching, CMReplacing, CMReplaced
<1>3. cmLock = {p}
  BY <1>2 DEF CMIInv, CMLockInv
<1>4. CMSwitches(p, CMReviewed) /\ CMReviewed = cmProc[p].target
  BY <1>1 DEF CMIInv, CMReplacedInv, CMSwitches
<1>5. CMIsTarget(CMReviewed) /\ CMArchived(CMReviewed) /\ (CMMarked \/ CMSwitched(CMReviewed))
      /\ {cmNow["progress"], cmDisk["progress"]} \subseteq {CM!Progress(CMReviewed), CMNew(CMReviewed)}
  BY <1>1 DEF CMIInv, CMReplacedInv
<1>6. cmNow = [g \in CM!Name |-> cmNow[g]] /\ cmDisk = [g \in CM!Name |-> cmDisk[g]]
  BY DEF CMIInv, CMShapes
<1>7. QED BY <1>1, <1>2, <1>3, <1>4, <1>5, <1>6

LEMMA CMNewIsCursor ==
  ASSUME NEW t, CMIsTarget(t), t # {}
  PROVE  CMNew(t) = <<"v2", CM!Max(t)>> /\ CMIsCursor(CMNew(t))
<1>1. PICK k \in Nat : t = {k}
  BY DEF CMIsTarget
<1>2. CM!Max(t) = k
  BY <1>1 DEF CM!Max
<1>3. QED BY <1>2 DEF CMNew, CMIsCursor

LEMMA CMRenameIInv ==
  ASSUME CMIInv, NEW p \in Process, CM!RenameCheckpoint(p) \/ CM!RenameProgress(p)
  PROVE  CMIInv'
<1>1. cmProc[p].pc \in CMSwitching /\ cmProc[p].pc \in CMReplacing
      /\ cmProc[p].pc \in {"rename", "rename progress"}
  BY DEF CM!RenameCheckpoint, CM!RenameProgress, CMSwitching, CMReplacing
<1>2. PICK t :
               /\ t = cmProc[p].target /\ CMIsTarget(t) /\ CMReviewed = t /\ CMArchived(t)
               /\ {cmNow["progress"], cmDisk["progress"]} \subseteq {CM!Progress(t), CMNew(t)}
               /\ CMSwitches(p, t)
               /\ cmNow["checkpoint v1"] = CM!Absent /\ cmProc[p].pc \notin CMEarly
               /\ cmNow = [g \in CM!Name |-> cmNow[g]] /\ cmDisk = [g \in CM!Name |-> cmDisk[g]]
  BY <1>1, CMAtSwitch
<1>3. /\ CMMarked
      /\ cmProc[p].pc = "rename" => cmNow["staged checkpoint"] = <<"v2">>
      /\ t # {} => cmNow["staged progress"] = CMNew(t)
      /\ cmProc[p].pc = "rename progress" => t # {} /\ cmNow["checkpoint v2"] = <<"v2">>
  BY <1>1, <1>2 DEF CMSwitches
<1>4. \A q : CM!Goes(p, q) => cmProc'[p].pc = q /\ cmProc'[p].target = t
  BY <1>2, CMGoesIs
<1>5. "rename progress" \in CMSwitching /\ "sync switch" \in CMSwitching
      /\ {"rename progress", "sync switch"} \cap CMReplaced = {}
  BY DEF CMSwitching, CMReplacing, CMReplaced
<1>6. CASE CM!RenameCheckpoint(p)
  <2> DEFINE D == {"staged checkpoint", "checkpoint v2"}
             q == IF t = {} THEN "sync switch" ELSE "rename progress"
  <2>1. /\ cmProc[p].pc = "rename"
        /\ cmNow' = [cmNow EXCEPT !["checkpoint v2"] = cmNow["staged checkpoint"],
                              !["staged checkpoint"] = CM!Absent]
        /\ cmPending' = cmPending \cup {D} /\ CM!Goes(p, q)
        /\ UNCHANGED <<cmDisk, cmUnsynced, cmLock, cmApplied>>
    BY <1>2, <1>6 DEF CM!RenameCheckpoint, CM!Rename
  <2>2. /\ D \in SUBSET CM!Name /\ \A g \in CM!Name \ D : cmNow'[g] = cmNow[g]
        /\ cmNow'["checkpoint v2"] = <<"v2">>
        /\ cmNow' = [g \in CM!Name |-> cmNow'[g]] /\ cmDisk' = [g \in CM!Name |-> cmDisk'[g]]
    BY <1>2, <1>3, <2>1 DEF CM!Name, CM!Lineage, CM!Temporary
  <2>3. /\ CMArchived(t)' /\ CMMarked'
    <3>1. D \cap CM!Archive = {} /\ D \cap {"marker", "review"} = {}
      BY DEF CM!Archive
    <3>2. QED BY <1>2, <1>3, <2>1, <2>2, <3>1, CMTouches
  <2>4. /\ cmNow'["checkpoint v1"] = CM!Absent /\ cmNow'["progress"] = cmNow["progress"]
        /\ cmNow'["staged progress"] = cmNow["staged progress"] /\ cmNow'["manifest"] = cmNow["manifest"]
    BY <1>2, <2>2 DEF CM!Name, CM!Lineage, CM!Temporary, CM!Archive
  <2>5. CMReviewed' = t
    BY <1>2, <2>4 DEF CMReviewed
  <2>6. CMFilesInv'
    <3>1. CMIsCursor(cmNow["progress"])' /\ CMIsCursor(cmDisk["progress"])'
      BY <2>1, <2>4 DEF CMIInv, CMFilesInv, CMIsCursor
    <3>2. QED BY <2>1, <2>2, <2>4, <3>1 DEF CMIInv, CMFilesInv
  <2>7. CMSwitches(p, t)'
    <3>1. cmProc'[p].pc = q /\ cmProc'[p].target = t
      BY <1>4, <2>1
    <3>2. q = "sync switch" \/ (q = "rename progress" /\ t # {})
      OBVIOUS
    <3>3. q = "sync switch" => cmNow'["progress"] = CMNew(t)
      BY <1>2, <2>4 DEF CM!Progress, CMNew
    <3> HIDE DEF q
    <3>4. QED BY <1>3, <1>5, <2>2, <2>3, <2>4, <3>1, <3>2, <3>3 DEF CMSwitches, CMNew
  <2>8. q \in CMSwitching
    BY <1>5
  <2>9. {cmNow'["progress"], cmDisk'["progress"]} \subseteq {CM!Progress(t), CMNew(t)}
    BY <1>2, <2>1, <2>4
  <2> HIDE DEF q
  <2>10. QED BY <1>2, <2>1, <2>2, <2>3, <2>4, <2>5, <2>6, <2>7, <2>8, <2>9, CMSwitchOn
<1>7. CASE CM!RenameProgress(p)
  <2> DEFINE D == {"staged progress", "progress"}
  <2>1. /\ cmProc[p].pc = "rename progress"
        /\ cmNow' = [cmNow EXCEPT !["progress"] = cmNow["staged progress"],
                              !["staged progress"] = CM!Absent]
        /\ cmPending' = cmPending \cup {D} /\ CM!Goes(p, "sync switch")
        /\ UNCHANGED <<cmDisk, cmUnsynced, cmLock, cmApplied>>
    BY <1>7 DEF CM!RenameProgress, CM!Rename
  <2>2. /\ D \in SUBSET CM!Name /\ \A g \in CM!Name \ D : cmNow'[g] = cmNow[g]
        /\ cmNow'["progress"] = CMNew(t)
        /\ cmNow' = [g \in CM!Name |-> cmNow'[g]] /\ cmDisk' = [g \in CM!Name |-> cmDisk'[g]]
    BY <1>2, <1>3, <2>1 DEF CM!Name, CM!Lineage, CM!Temporary
  <2>3. /\ CMArchived(t)' /\ CMMarked'
    <3>1. D \cap CM!Archive = {} /\ D \cap {"marker", "review"} = {}
      BY DEF CM!Archive
    <3>2. QED BY <1>2, <1>3, <2>1, <2>2, <3>1, CMTouches
  <2>4. /\ cmNow'["checkpoint v1"] = CM!Absent /\ cmNow'["checkpoint v2"] = cmNow["checkpoint v2"]
        /\ cmNow'["manifest"] = cmNow["manifest"]
    BY <1>2, <2>2 DEF CM!Name, CM!Lineage, CM!Temporary, CM!Archive
  <2>5. CMReviewed' = t
    BY <1>2, <2>4 DEF CMReviewed
  <2>6. CMFilesInv'
    <3>1. CMIsCursor(CMNew(t))
      BY <1>2, <1>3, <2>1, CMNewIsCursor
    <3>2. CMIsCursor(cmNow["progress"])' /\ CMIsCursor(cmDisk["progress"])'
      BY <2>1, <2>2, <3>1 DEF CMIInv, CMFilesInv, CMIsCursor
    <3>3. QED BY <2>1, <2>4, <3>2 DEF CMIInv, CMFilesInv
  <2>7. CMSwitches(p, t)'
    <3>1. cmProc'[p].pc = "sync switch" /\ cmProc'[p].target = t
      BY <1>4, <2>1
    <3>2. QED BY <1>3, <1>5, <2>1, <2>2, <2>3, <2>4, <3>1 DEF CMSwitches, CMNew
  <2>8. {cmNow'["progress"], cmDisk'["progress"]} \subseteq {CM!Progress(t), CMNew(t)}
    BY <1>2, <2>1, <2>2
  <2>9. "sync switch" \in CMSwitching
    BY <1>5
  <2> DEFINE q == "sync switch"
  <2>10. CM!Goes(p, q) /\ q \in CMSwitching
    BY <2>1, <2>9
  <2> HIDE DEF q
  <2>11. QED BY <1>2, <2>1, <2>2, <2>3, <2>4, <2>5, <2>6, <2>7, <2>8, <2>10, CMSwitchOn
<1>8. QED BY <1>6, <1>7

\* The new files become durable, then marker and review record go.
LEMMA CMSyncLineageIInv ==
  ASSUME CMIInv, NEW p \in Process, CM!SyncSwitch(p) \/ CM!SyncMarker(p) \/ CM!SyncReview(p)
  PROVE  CMIInv'
<1>1. /\ cmProc[p].pc \in {"sync switch", "sync marker", "sync review"}
      /\ CM!SyncNames(CM!Name \ CM!Archive) /\ UNCHANGED <<cmNow, cmUnsynced, cmLock, cmApplied>>
      /\ \E q \in {"unmark", "unreview", "final"} : CM!Goes(p, q)
  BY DEF CM!SyncSwitch, CM!SyncMarker, CM!SyncReview, CM!SyncLineage
<1>2. PICK q \in {"unmark", "unreview", "final"} : CM!Goes(p, q)
  BY <1>1
<1>3. cmProc[p].pc \in CMSwitching
  BY <1>1 DEF CMSwitching, CMReplacing, CMReplaced
<1>4. PICK t :
               /\ t = cmProc[p].target /\ CMIsTarget(t) /\ CMReviewed = t /\ CMArchived(t)
               /\ {cmNow["progress"], cmDisk["progress"]} \subseteq {CM!Progress(t), CMNew(t)}
               /\ CMSwitches(p, t)
               /\ cmNow["checkpoint v1"] = CM!Absent /\ cmProc[p].pc \notin CMEarly
               /\ cmNow = [g \in CM!Name |-> cmNow[g]]
  BY <1>3, CMAtSwitch
<1>5. cmNow["checkpoint v2"] = <<"v2">> /\ cmNow["progress"] = CMNew(t)
  <2>1. cmProc[p].pc = "sync switch" \/ CMSwitched(t)
    BY <1>1, <1>4 DEF CMSwitches, CMReplaced
  <2>2. QED BY <1>4, <2>1 DEF CMSwitches, CMSwitched
<1>6. /\ cmDisk' = [f \in CM!Name |-> cmDisk'[f]]
      /\ \A f \in CM!Name \ CM!Archive : CMNamed(f)'
      /\ \A f \in CM!Name : CMNamed(f) => CMNamed(f)'
      /\ \A f \in CM!Name : cmDisk'[f] \in {cmDisk[f], cmNow[f]}
  <2>1. CM!Name \ CM!Archive \in SUBSET CM!Name /\ cmNow' = cmNow
    BY <1>1
  <2>2. QED BY <1>1, <2>1, CMSyncedDir
<1>7. CM!Lineage \subseteq CM!Name \ CM!Archive /\ CM!Archive \subseteq CM!Name /\ CM!Lineage \subseteq CM!Name
  BY DEF CM!Name, CM!Lineage, CM!Archive
<1>8. CMSwitched(t)'
  BY <1>1, <1>5, <1>6, <1>7 DEF CMSwitched
<1>9. CMArchived(t)'
  BY <1>1, <1>4, <1>6, <1>7 DEF CMArchived, CMDurable
<1>10. CMReviewed' = t /\ cmNow'["checkpoint v1"] = CM!Absent /\ cmNow' = [g \in CM!Name |-> cmNow'[g]]
  BY <1>1, <1>4 DEF CMReviewed
<1>11. cmDisk'["progress"] \in {cmDisk["progress"], cmNow["progress"]} /\ cmNow'["progress"] = cmNow["progress"]
       /\ cmDisk'["checkpoint v1"] \in {cmDisk["checkpoint v1"], cmNow["checkpoint v1"]}
       /\ cmDisk'["checkpoint v2"] \in {cmDisk["checkpoint v2"], cmNow["checkpoint v2"]}
  BY <1>1, <1>6 DEF CM!Name, CM!Lineage
<1>12. CMFilesInv'
  <2>1. CMIsCursor(cmNow["progress"]) /\ CMIsCursor(cmDisk'["progress"])
    BY <1>11 DEF CMIInv, CMFilesInv
  <2>2. CMIsCursor(cmNow["progress"])' /\ CMIsCursor(cmDisk["progress"])'
    BY <1>11, <2>1 DEF CMIsCursor
  <2>3. QED BY <1>1, <1>10, <1>11, <2>2 DEF CMIInv, CMFilesInv
<1>13. CMSwitches(p, t)'
  <2>1. cmProc'[p].pc = q /\ cmProc'[p].target = t
    BY <1>2, <1>4, CMGoesIs
  <2>2. q \notin CMReplacing
    BY DEF CMReplacing
  <2>3. q \notin {"rename", "rename progress", "sync switch"}
    OBVIOUS
  <2>4. QED BY <1>6, <1>8, <2>1, <2>2, <2>3 DEF CMSwitches
<1>14. q \in CMSwitching
  BY DEF CMSwitching, CMReplaced
<1>15. {cmNow'["progress"], cmDisk'["progress"]} \subseteq {CM!Progress(t), CMNew(t)}
  BY <1>4, <1>11
<1>16. QED BY <1>1, <1>2, <1>4, <1>6, <1>8, <1>9, <1>10, <1>12, <1>13, <1>14, <1>15, CMSwitchOn

LEMMA CMRemoveIInv ==
  ASSUME CMIInv, NEW p \in Process, CM!RemoveMarker(p) \/ CM!RemoveReview(p)
  PROVE  CMIInv'
<1>1. PICK f, q :
        /\ f \in {"marker", "review"} /\ q \in {"sync marker", "sync review"}
        /\ cmProc[p].pc \in {"unmark", "unreview"}
        /\ cmNow' = [cmNow EXCEPT ![f] = CM!Absent]
        /\ cmPending' = cmPending \cup {{f}}
        /\ CM!Goes(p, q) /\ UNCHANGED <<cmDisk, cmUnsynced, cmLock, cmApplied>>
  BY DEF CM!RemoveMarker, CM!RemoveReview, CM!Unlink
<1>2. cmProc[p].pc \in CMSwitching /\ cmProc[p].pc \in CMReplaced
  BY <1>1 DEF CMSwitching, CMReplaced
<1>3. PICK t :
               /\ t = cmProc[p].target /\ CMIsTarget(t) /\ CMReviewed = t /\ CMArchived(t)
               /\ {cmNow["progress"], cmDisk["progress"]} \subseteq {CM!Progress(t), CMNew(t)}
               /\ CMSwitches(p, t)
               /\ cmNow["checkpoint v1"] = CM!Absent /\ cmProc[p].pc \notin CMEarly
               /\ cmNow = [g \in CM!Name |-> cmNow[g]] /\ cmDisk = [g \in CM!Name |-> cmDisk[g]]
  BY <1>2, CMAtSwitch
<1>4. CMSwitched(t)
  BY <1>2, <1>3 DEF CMSwitches
<1> DEFINE D == {f}
<1>5. /\ D \in SUBSET CM!Name /\ \A g \in CM!Name \ D : cmNow'[g] = cmNow[g]
      /\ cmNow' = [g \in CM!Name |-> cmNow'[g]] /\ cmDisk' = [g \in CM!Name |-> cmDisk'[g]]
  BY <1>1, <1>3 DEF CM!Name, CM!Temporary
<1>6. CMArchived(t)' /\ CMSwitched(t)'
  <2>1. D \cap CM!Archive = {} /\ D \cap CM!Lineage = {}
    BY <1>1 DEF CM!Archive, CM!Lineage
  <2>2. QED BY <1>1, <1>3, <1>4, <1>5, <2>1, CMTouches
<1>7. /\ cmNow'["checkpoint v1"] = CM!Absent /\ cmNow'["progress"] = cmNow["progress"]
      /\ cmNow'["checkpoint v2"] = cmNow["checkpoint v2"] /\ cmNow'["manifest"] = cmNow["manifest"]
  BY <1>1, <1>3, <1>5 DEF CM!Name, CM!Lineage, CM!Archive
<1>8. CMReviewed' = t
  BY <1>3, <1>7 DEF CMReviewed
<1>9. CMFilesInv'
  <2>1. CMIsCursor(cmNow["progress"])' /\ CMIsCursor(cmDisk["progress"])'
    BY <1>1, <1>7 DEF CMIInv, CMFilesInv, CMIsCursor
  <2>2. QED BY <1>1, <1>7, <2>1 DEF CMIInv, CMFilesInv
<1>10. CMSwitches(p, t)'
  <2>1. cmProc'[p].pc = q /\ cmProc'[p].target = t
    BY <1>1, <1>3, CMGoesIs
  <2>2. q \notin CMReplacing /\ q # "final" /\ q \notin {"rename", "rename progress", "sync switch"}
    BY <1>1 DEF CMReplacing
  <2>3. QED BY <1>6, <2>1, <2>2 DEF CMSwitches
<1>11. q \in CMSwitching /\ {cmNow'["progress"], cmDisk'["progress"]} \subseteq {CM!Progress(t), CMNew(t)}
  BY <1>1, <1>3, <1>7 DEF CMSwitching, CMReplaced
<1>12. QED BY <1>1, <1>3, <1>5, <1>6, <1>7, <1>8, <1>9, <1>10, <1>11, CMSwitchOn

LEMMA CMReportIInv ==
  ASSUME CMIInv, NEW p \in Process, CM!Report(p)
  PROVE  CMIInv'
<1>1. /\ cmProc[p].pc = "final" /\ CM!Loaded.mode = "resumed"
      /\ cmProc' = [cmProc EXCEPT ![p] = CM!Off] /\ cmLock' = {} /\ cmApplied' = TRUE
      /\ UNCHANGED <<cmNow, cmDisk, cmPending, cmUnsynced>>
  BY DEF CM!Report, CM!Quiet
<1>2. cmProc[p].pc \in CMSwitching
  BY <1>1 DEF CMSwitching, CMReplaced
<1>3. PICK t :
               /\ CMSwitches(p, t) /\ cmNow["checkpoint v1"] = CM!Absent /\ cmProc[p].pc \notin CMEarly
               /\ cmNow = [g \in CM!Name |-> cmNow[g]] /\ cmDisk = [g \in CM!Name |-> cmDisk[g]]
  BY <1>2, CMAtSwitch
<1>4. \A f \in CM!Name \ CM!Archive : CMNamed(f)
  BY <1>1, <1>3 DEF CMSwitches
<1>5. CM!Off = [pc |-> CM!Off.pc, target |-> CM!Off.target, files |-> CM!Off.files] /\ CM!Off.pc = "off"
      /\ "off" \in CMEarly
  BY DEF CM!Off, CMEarly
<1>6. /\ CMShapes' /\ CMLockInv' /\ cmProc'[p] = CM!Off
      /\ \A q \in Process \ {p} : cmProc'[q].pc \in CMEarly
  <2> DEFINE r == CM!Off
  <2>1. /\ cmProc' = [cmProc EXCEPT ![p] = r] /\ r.pc \in CMEarly
        /\ r = [pc |-> r.pc, target |-> r.target, files |-> r.files]
    BY <1>1, <1>5
  <2> HIDE DEF r
  <2>2. r.pc \in CMEarly \cup CMWriting \cup {"unlink"} \cup CMSwitching
    BY <2>1
  <2>3. cmNow' = [g \in CM!Name |-> cmNow'[g]] /\ cmDisk' = [g \in CM!Name |-> cmDisk'[g]]
    BY <1>1, <1>3
  <2>4. /\ CMShapes' /\ CMLockInv' /\ cmProc'[p] = r
        /\ \A q \in Process \ {p} : cmProc'[q] = cmProc[q] /\ cmProc'[q].pc \in CMEarly
    BY <1>1, <1>3, <2>1, <2>2, <2>3, CMMoves
  <2>5. QED BY <2>4 DEF r
<1>7. \A q \in Process : cmProc'[q].pc \in CMEarly
  BY <1>5, <1>6
<1>8. CMEarly \cap CMSwitching = {} /\ CMEarly \cap (CMWriting \cup {"unlink"}) = {}
  BY DEF CMEarly, CMWriting, CMSwitching, CMReplacing, CMReplaced
<1>9. CMWritingInv' /\ CMSwitchingInv'
  BY <1>7, <1>8 DEF CMWritingInv, CMSwitchingInv
<1>10. CMFilesInv'
  BY <1>1 DEF CMIInv, CMFilesInv, CMNamed
<1>11. CMReplacedInv'
  <2>1. \A x : (CMArchived(x) <=> CMArchived(x)') /\ (CMSwitched(x) <=> CMSwitched(x)')
    BY <1>1 DEF CMArchived, CMSwitched, CMDurable, CMNamed
  <2>2. (CMMarked <=> CMMarked') /\ CMReviewed' = CMReviewed
    BY <1>1 DEF CMMarked, CMNamed, CMReviewed
  <2>3. \A q \in Process : cmProc'[q].pc \notin CMSwitching
    BY <1>7, <1>8
  <2>4. QED BY <1>1, <2>1, <2>2, <2>3 DEF CMIInv, CMReplacedInv
<1>12. CMAppliedInv'
  <2>1. CM!Loaded' = CM!Loaded
    BY <1>1 DEF CM!Loaded, CM!Present, CM!Cursor
  <2>2. \A f \in CM!Name \ CM!Archive : CMNamed(f)'
    BY <1>1, <1>4 DEF CMNamed
  <2>3. QED BY <1>1, <1>3, <1>7, <2>1, <2>2 DEF CMAppliedInv
<1>13. QED BY <1>6, <1>9, <1>10, <1>11, <1>12 DEF CMIInv

\* What a power loss does to one name.
LEMMA CMSurvives ==
  ASSUME CM!PowerLoss
  PROVE  /\ \A f \in CM!Name : CMNamed(f) => cmNow'[f] = cmNow[f] \/ (cmNow[f] # CM!Absent /\ cmNow'[f] = CM!Torn)
         /\ \A f \in CM!Name : CMDurable(f) => cmNow'[f] = cmNow[f]
         /\ \A f \in CM!Name \ cmUnsynced : cmNow'[f] \in {cmNow[f], cmDisk[f]}
         /\ cmNow' = [f \in CM!Name |-> cmNow'[f]]
<1>1. PICK kept \in SUBSET cmPending, torn \in SUBSET cmUnsynced :
        cmNow' = [f \in CM!Name |->
                    LET left == IF f \in UNION kept THEN cmNow[f] ELSE cmDisk[f] IN
                    IF f \in torn /\ left # CM!Absent THEN CM!Torn ELSE left]
  BY DEF CM!PowerLoss
<1> DEFINE Left(f) == IF f \in UNION kept THEN cmNow[f] ELSE cmDisk[f]
<1>2. \A f \in CM!Name : cmNow'[f] = IF f \in torn /\ Left(f) # CM!Absent THEN CM!Torn ELSE Left(f)
  BY <1>1
<1>3. \A f : CMNamed(f) => Left(f) = cmNow[f]
  BY DEF CMNamed
<1>4. \A f : Left(f) \in {cmNow[f], cmDisk[f]}
  OBVIOUS
<1>5. cmNow' = [f \in CM!Name |-> cmNow'[f]]
  BY <1>1
<1> HIDE DEF Left
<1>6. \A f \in CM!Name : CMNamed(f) => cmNow'[f] = cmNow[f] \/ (cmNow[f] # CM!Absent /\ cmNow'[f] = CM!Torn)
  BY <1>2, <1>3
<1>7. \A f \in CM!Name : CMDurable(f) => cmNow'[f] = cmNow[f]
  BY <1>2, <1>3 DEF CMDurable
<1>8. \A f \in CM!Name \ cmUnsynced : cmNow'[f] \in {cmNow[f], cmDisk[f]}
  BY <1>2, <1>4
<1>9. QED BY <1>5, <1>6, <1>7, <1>8

LEMMA CMPowerLossIInv ==
  ASSUME CMIInv, CM!PowerLoss
  PROVE  CMIInv'
<1>1. /\ cmDisk' = cmNow' /\ cmPending' = {} /\ cmUnsynced' = {} /\ cmLock' = {} /\ cmApplied' = cmApplied
      /\ cmProc' = [p \in Process |-> CM!Off]
  BY DEF CM!PowerLoss
<1>2. \A f : CMNamed(f)' /\ CMDurable(f)'
  BY <1>1 DEF CMNamed, CMDurable
<1>3. \A p \in Process : cmProc'[p] = CM!Off /\ cmProc'[p].pc = "off" /\ cmProc'[p].pc \in CMEarly
  BY <1>1 DEF CM!Off, CMEarly
<1>4. CMEarly \cap CMSwitching = {} /\ CMEarly \cap (CMWriting \cup {"unlink"}) = {}
  BY DEF CMEarly, CMWriting, CMSwitching, CMReplacing, CMReplaced
<1>5. CMShapes'
  <2>1. CM!Off = [pc |-> CM!Off.pc, target |-> CM!Off.target, files |-> CM!Off.files]
    BY DEF CM!Off
  <2>2. QED BY <1>1, <1>3, <2>1, CMSurvives DEF CMShapes
<1>6. CMLockInv' /\ CMWritingInv' /\ CMSwitchingInv'
  BY <1>3, <1>4 DEF CMLockInv, CMWritingInv, CMSwitchingInv
<1>7. CM!Lineage \subseteq CM!Name /\ {"checkpoint v1", "checkpoint v2", "progress"} = CM!Lineage
  BY DEF CM!Name, CM!Lineage
<1>8. \A f \in CM!Lineage : cmNow'[f] \in {cmNow[f], cmDisk[f]} /\ (CMNamed(f) => cmNow'[f] = cmNow[f])
  <2>1. \A f \in CM!Lineage : f \in CM!Name \ cmUnsynced /\ f \notin cmUnsynced
    BY <1>7 DEF CMIInv, CMFilesInv
  <2>2. QED BY <2>1, <1>7, CMSurvives DEF CMDurable
<1>9. CMFilesInv'
  <2>1. cmNow'["progress"] \in {cmNow["progress"], cmDisk["progress"]}
        /\ cmNow'["checkpoint v1"] \in {cmNow["checkpoint v1"], cmDisk["checkpoint v1"]}
        /\ cmNow'["checkpoint v2"] \in {cmNow["checkpoint v2"], cmDisk["checkpoint v2"]}
    BY <1>7, <1>8
  <2>2. CMIsCursor(cmNow'["progress"])
    BY <2>1 DEF CMIInv, CMFilesInv
  <2>3. CMIsCursor(cmNow["progress"])' /\ CMIsCursor(cmDisk["progress"])'
    BY <1>1, <2>2 DEF CMIsCursor
  <2>4. QED BY <1>1, <1>2, <2>1, <2>3 DEF CMIInv, CMFilesInv
<1>10. CMReplacedInv'
  <2> SUFFICES ASSUME cmNow'["checkpoint v1"] = CM!Absent PROVE CMReplacedInv'
    BY DEF CMReplacedInv
  <2>0. PICK t : t = CMReviewed
    OBVIOUS
  <2>1. cmNow["checkpoint v1"] = CM!Absent
    <3>1. CASE cmNow["checkpoint v1"] # CM!Absent
      <4>1. CMNamed("checkpoint v1")
        BY <3>1 DEF CMIInv, CMFilesInv
      <4>2. QED BY <1>7, <1>8, <4>1
    <3>2. QED BY <3>1
  <2>2. /\ CMIsTarget(t) /\ CMArchived(t) /\ (CMMarked \/ CMSwitched(t))
        /\ {cmNow["progress"], cmDisk["progress"]} \subseteq {CM!Progress(t), CMNew(t)}
    BY <2>0, <2>1 DEF CMIInv, CMReplacedInv
  <2>3. \A f \in CM!Archive : cmNow'[f] = cmNow[f]
    <3>1. CM!Archive \subseteq CM!Name
      BY DEF CM!Name
    <3>2. QED BY <2>2, <3>1, CMSurvives DEF CMArchived
  <2>4. "archived checkpoint" \in CM!Archive /\ "archived progress" \in CM!Archive
        /\ "manifest" \in CM!Archive
    BY DEF CM!Archive
  <2>5. CMReviewed' = t
    BY <2>0, <2>3, <2>4 DEF CMReviewed
  <2>6. CMArchived(t)'
    BY <1>2, <2>2, <2>3, <2>4 DEF CMArchived
  <2>7. CMMarked => CMMarked'
    <3>1. SUFFICES ASSUME CMMarked, NEW f \in {"marker", "review"} PROVE cmNow'[f] # CM!Absent
      BY <1>2 DEF CMMarked
    <3>2. f \in CM!Name /\ CMNamed(f) /\ cmNow[f] # CM!Absent
      BY <3>1 DEF CMMarked, CM!Name, CM!Temporary
    <3>3. CM!Torn # CM!Absent
      BY DEF CM!Torn, CM!Absent
    <3>4. QED BY <3>2, <3>3, CMSurvives
  <2>8. CMSwitched(t) => CMSwitched(t)'
    BY <1>2, <1>7, <1>8 DEF CMSwitched
  <2>9. {cmNow'["progress"], cmDisk'["progress"]} \subseteq {CM!Progress(t), CMNew(t)}
    BY <1>1, <1>7, <1>8, <2>2
  <2>10. /\ CMIsTarget(CMReviewed') /\ CMArchived(CMReviewed)' /\ (CMMarked' \/ CMSwitched(CMReviewed)')
    BY <2>2, <2>5, <2>6, <2>7, <2>8 DEF CMArchived, CMSwitched, CMDurable, CMNamed
  <2>11. CMIsTarget(CMReviewed)'
    BY <2>10 DEF CMIsTarget
  <2>12. {cmNow'["progress"], cmDisk'["progress"]} \subseteq {CM!Progress(CMReviewed'), CMNew(CMReviewed')}
    BY <2>5, <2>9
  <2>13. \A p \in Process : cmProc'[p].pc \notin CMSwitching
    BY <1>3, <1>4
  <2>14. QED BY <2>10, <2>11, <2>12, <2>13 DEF CMReplacedInv, CM!Progress, CMNew
<1>11. CMAppliedInv'
  <2> SUFFICES ASSUME cmApplied PROVE CMAppliedInv'
    BY <1>1 DEF CMAppliedInv
  <2>1. /\ cmNow["checkpoint v1"] = CM!Absent /\ CM!Loaded.mode = "resumed"
        /\ \A f \in CM!Name \ CM!Archive : CMNamed(f)
    BY DEF CMIInv, CMAppliedInv
  <2>2. CM!Present(CM!Name \ CM!Archive) \cap CM!Temporary = {}
    BY <2>1 DEF CM!Loaded
  <2>3. \A f \in CM!Name \ CM!Archive : cmNow'[f] = cmNow[f]
    <3>1. TAKE f \in CM!Name \ CM!Archive
    <3>2. CASE f \in CM!Temporary
      <4>1. cmNow[f] = CM!Absent
        BY <2>2, <3>2 DEF CM!Present
      <4>2. QED BY <2>1, <4>1, CMSurvives
    <3>3. CASE f \in CM!Lineage
      BY <1>8, <2>1, <3>3
    <3>4. QED BY <3>2, <3>3 DEF CM!Name
  <2>4. CM!Present(CM!Name \ CM!Archive)' = CM!Present(CM!Name \ CM!Archive)
    BY <2>3 DEF CM!Present
  <2>5. cmNow'["progress"] = cmNow["progress"] /\ cmNow'["checkpoint v2"] = cmNow["checkpoint v2"]
        /\ cmNow'["checkpoint v1"] = cmNow["checkpoint v1"]
    BY <2>3 DEF CM!Name, CM!Archive, CM!Lineage
  <2>6. CM!Cursor' = CM!Cursor
    BY <2>5 DEF CM!Cursor
  <2>7. CM!Loaded' = CM!Loaded
    BY <2>4, <2>5, <2>6 DEF CM!Loaded
  <2>8. QED BY <1>2, <1>3, <2>1, <2>5, <2>7 DEF CMAppliedInv
<1>12. QED BY <1>5, <1>6, <1>9, <1>10, <1>11 DEF CMIInv

LEMMA CMLegacyIInv ==
  ASSUME MaxCursor \in Nat, CMIInv, CM!LegacyAdvances
  PROVE  CMIInv'
<1>1. PICK c \in 0..MaxCursor :
        /\ cmNow' = [cmNow EXCEPT !["progress"] = <<"v1", c>>]
        /\ cmDisk' = [cmDisk EXCEPT !["progress"] = <<"v1", c>>]
  BY DEF CM!LegacyAdvances
<1>2. cmLock = {} /\ cmNow["checkpoint v1"] # CM!Absent
      /\ UNCHANGED <<cmPending, cmUnsynced, cmProc, cmLock, cmApplied>>
  BY DEF CM!LegacyAdvances
<1>3. cmNow = [f \in CM!Name |-> cmNow[f]] /\ cmDisk = [f \in CM!Name |-> cmDisk[f]]
  BY DEF CMIInv, CMShapes
<1>4. /\ cmNow'["progress"] = <<"v1", c>> /\ cmDisk'["progress"] = <<"v1", c>>
      /\ cmNow'["checkpoint v1"] = cmNow["checkpoint v1"] /\ cmDisk'["checkpoint v1"] = cmDisk["checkpoint v1"]
      /\ cmNow'["checkpoint v2"] = cmNow["checkpoint v2"] /\ cmDisk'["checkpoint v2"] = cmDisk["checkpoint v2"]
      /\ cmNow' = [f \in CM!Name |-> cmNow'[f]] /\ cmDisk' = [f \in CM!Name |-> cmDisk'[f]]
  BY <1>1, <1>3 DEF CM!Name, CM!Lineage
<1>5. \A p \in Process : cmProc[p].pc \in CMEarly
  BY <1>2 DEF CMIInv, CMLockInv
<1>6. CMEarly \cap CMSwitching = {} /\ CMEarly \cap (CMWriting \cup {"unlink"}) = {}
  BY DEF CMEarly, CMWriting, CMSwitching, CMReplacing, CMReplaced
<1>7. CMShapes'
  BY <1>2, <1>4 DEF CMIInv, CMShapes
<1>8. CMLockInv' /\ CMWritingInv' /\ CMSwitchingInv'
  BY <1>2, <1>5, <1>6 DEF CMLockInv, CMWritingInv, CMSwitchingInv
<1>9. CMFilesInv'
  <2>1. CMIsCursor(<<"v1", c>>)
    BY DEF CMIsCursor
  <2>2. CMIsCursor(cmNow["progress"])' /\ CMIsCursor(cmDisk["progress"])'
    BY <1>4, <2>1 DEF CMIsCursor
  <2>3. QED BY <1>2, <1>4, <2>2 DEF CMIInv, CMFilesInv, CMNamed
<1>10. CMReplacedInv'
  BY <1>2, <1>4 DEF CMReplacedInv
<1>11. CMAppliedInv'
  BY <1>2 DEF CMIInv, CMAppliedInv
<1>12. QED BY <1>7, <1>8, <1>9, <1>10, <1>11 DEF CMIInv

LEMMA CMStepIInv ==
  ASSUME MaxCursor \in Nat, CMIInv, [CM!Next]_cmVars
  PROVE  CMIInv'
<1>1. CASE UNCHANGED cmVars
  <2>1. UNCHANGED <<cmNow, cmDisk, cmPending, cmUnsynced, cmProc, cmLock, cmApplied>>
    BY <1>1 DEF cmVars
  <2>2. CMShapes' /\ CMLockInv' /\ CMSwitchingInv'
    BY <2>1 DEF CMIInv, CMShapes, CMLockInv, CMSwitchingInv
  <2>6. CMFilesInv'
    BY <2>1 DEF CMIInv, CMFilesInv, CMIsCursor, CMNamed
  <2>7. CMWritingInv'
    <3>1. ASSUME NEW p \in Process, CMApplies(p) PROVE CMApplies(p)'
      <4>1. CMDone(p)' = CMDone(p)
        BY <2>1 DEF CMDone
      <4>2. \A f : (CMNamed(f)' <=> CMNamed(f)) /\ (CMDurable(f)' <=> CMDurable(f))
        BY <2>1 DEF CMNamed, CMDurable
      <4>3. PICK t, files : t = cmProc[p].target /\ files = cmProc[p].files
        OBVIOUS
      <4>4. t = cmProc'[p].target /\ files = cmProc'[p].files /\ cmProc'[p].pc = cmProc[p].pc
        BY <2>1, <4>3
      <4>5. QED BY <2>1, <3>1, <4>1, <4>2, <4>3, <4>4 DEF CMApplies
    <3>2. QED BY <2>1, <3>1 DEF CMIInv, CMWritingInv
  <2>3. CMReplacedInv'
    BY <2>1 DEF CMIInv, CMReplacedInv, CMReviewed, CMIsTarget, CMArchived, CMMarked, CMSwitched, CMSwitches,
       CMNamed, CMDurable
  <2>4. CMAppliedInv'
    BY <2>1 DEF CMIInv, CMAppliedInv, CM!Loaded, CM!Present, CM!Cursor, CMNamed
  <2>5. QED BY <2>2, <2>3, <2>4, <2>6, <2>7 DEF CMIInv
<1>2. CASE \E p \in Process : CM!Call(p)
  BY <1>2, CMLooksIInv, CMAcquireIInv, CMWriteFileIInv, CMSyncedNamesIInv, CMUnlinkIInv, CMRenameIInv,
     CMSyncLineageIInv, CMRemoveIInv, CMReportIInv DEF CM!Call
<1>3. QED BY <1>1, <1>2, CMPowerLossIInv, CMLegacyIInv DEF CM!Next

\* Wherever a start of the observer does not refuse, the new files are in place.
LEMMA CMResumes == CMIInv => CM!ResumesWhereItStopped /\ CM!EvidenceIsKept /\ CM!AppliedIsDurable
<1> SUFFICES ASSUME CMIInv PROVE CM!ResumesWhereItStopped /\ CM!EvidenceIsKept /\ CM!AppliedIsDurable
  OBVIOUS
<1> DEFINE t == CMReviewed
<1>1. ASSUME cmNow["checkpoint v1"] = CM!Absent
      PROVE  /\ CMIsTarget(t) /\ CMArchived(t) /\ (CMMarked \/ CMSwitched(t))
             /\ cmNow["progress"] \in {CM!Progress(t), CMNew(t)}
  BY <1>1 DEF CMIInv, CMReplacedInv
<1> HIDE DEF t
<1>2. CMIsCursor(cmNow["progress"])
  BY DEF CMIInv, CMFilesInv
<1>3. CM!EvidenceIsKept
  <2>1. SUFFICES ASSUME cmNow["checkpoint v1"] # <<"v1">>
                 PROVE  /\ cmNow["archived checkpoint"] = <<"v1">>
                        /\ cmNow["manifest"] = CM!Review(CM!Cursor)
                        /\ cmNow["archived progress"] = CM!Progress(CM!Cursor)
    BY DEF CM!EvidenceIsKept
  <2>2. cmNow["checkpoint v1"] = CM!Absent
    BY <2>1 DEF CMIInv, CMFilesInv
  <2>3. CM!Cursor = t
    BY <1>1, <1>2, <2>2, CMCursorOf
  <2>4. QED BY <1>1, <2>2, <2>3 DEF CMArchived
<1>4. CM!AppliedIsDurable
  BY DEF CMIInv, CMAppliedInv, CM!AppliedIsDurable
<1>5. CM!ResumesWhereItStopped
  <2> SUFFICES ASSUME CM!Loaded.mode # "refused"
               PROVE  /\ CM!Loaded.mode = "resumed"
                      /\ cmNow["archived progress"] =
                           CM!Progress(IF cmNow["progress"] = CM!Absent THEN {} ELSE {CM!Loaded.cursor})
    BY DEF CM!ResumesWhereItStopped
  <2> DEFINE found == CM!Present(CM!Name \ CM!Archive)
  <2>1. /\ found \cap CM!Temporary = {} /\ "checkpoint v1" \notin found
        /\ CM!Loaded = IF found = {} THEN [mode |-> "new", cursor |-> 0]
                    ELSE [mode |-> "resumed", cursor |-> IF CM!Cursor = {} THEN 0 ELSE CM!Max(CM!Cursor)]
    BY DEF CM!Loaded
  <2>2. cmNow["checkpoint v1"] = CM!Absent
    BY <2>1 DEF CM!Present, CM!Name, CM!Lineage, CM!Archive
  <2>3. ~CMMarked
    BY <2>1 DEF CMMarked, CM!Present, CM!Name, CM!Temporary, CM!Archive
  <2>4. CMSwitched(t) /\ CMIsTarget(t) /\ CMArchived(t)
    BY <1>1, <2>2, <2>3
  <2>5. "checkpoint v2" \in found
    <3>1. <<"v2">> # CM!Absent
      BY DEF CM!Absent
    <3>2. "checkpoint v2" \in CM!Name \ CM!Archive
      BY DEF CM!Name, CM!Lineage, CM!Archive
    <3>3. cmNow["checkpoint v2"] # CM!Absent
      BY <2>4, <3>1 DEF CMSwitched
    <3>4. QED BY <3>2, <3>3 DEF CM!Present
  <2>6. CM!Cursor = t
    BY <1>1, <1>2, <2>2, CMCursorOf
  <2>7. CM!Loaded.mode = "resumed" /\ CM!Loaded.cursor = IF t = {} THEN 0 ELSE CM!Max(t)
    BY <2>1, <2>5, <2>6
  <2>8. cmNow["archived progress"] = CM!Progress(t) /\ cmNow["progress"] = CMNew(t)
    BY <2>4 DEF CMArchived, CMSwitched
  <2>9. CASE t = {}
    <3>1. cmNow["progress"] = CM!Absent
      BY <2>8, <2>9 DEF CMNew
    <3>2. QED BY <2>7, <2>8, <2>9, <3>1
  <2>10. CASE t # {}
    <3>1. PICK k \in Nat : t = {k}
      BY <2>4, <2>10 DEF CMIsTarget
    <3>2. CM!Max(t) = k
      BY <3>1 DEF CM!Max
    <3>3. cmNow["progress"] # CM!Absent
      <4>1. \A x : <<"v2", x>> # CM!Absent
        BY DEF CM!Absent
      <4>2. QED BY <2>8, <2>10, <4>1 DEF CMNew
    <3>4. {CM!Loaded.cursor} = t
      BY <2>7, <2>10, <3>1, <3>2
    <3>5. QED BY <2>7, <2>8, <3>3, <3>4
  <2>11. QED BY <2>9, <2>10
<1>6. QED BY <1>3, <1>4, <1>5

\* Only two steps change the legacy checkpoint.
LEMMA CMReviewedStep ==
  ASSUME CMIInv, [CM!Next]_cmVars
  PROVE  CM!OnlyTheReviewed
<1> SUFFICES ASSUME cmNow["checkpoint v1"] # cmNow'["checkpoint v1"]
             PROVE  cmNow["review"] = CM!Review(CM!Cursor) \/ \A p \in Process : cmProc'[p] = CM!Off
  BY DEF CM!OnlyTheReviewed
<1>1. cmNow = [f \in CM!Name |-> cmNow[f]] /\ "checkpoint v1" \in CM!Name
  BY DEF CMIInv, CMShapes, CM!Name, CM!Lineage
<1>2. CASE CM!PowerLoss
  BY <1>2 DEF CM!PowerLoss
<1>3. ASSUME NEW p \in Process, CM!UnlinkCheckpoint(p) PROVE cmNow["review"] = CM!Review(CM!Cursor)
  <2>1. cmProc[p].pc = "unlink"
    BY <1>3 DEF CM!UnlinkCheckpoint
  <2>2. CMApplies(p)
    BY <2>1 DEF CMIInv, CMWritingInv
  <2>3. CMIsTarget(cmProc[p].target) /\ cmNow["progress"] = CM!Progress(cmProc[p].target)
        /\ cmNow["review"] = CM!Review(cmProc[p].target)
    BY <2>2 DEF CMApplies
  <2>4. CM!Cursor = cmProc[p].target
    BY <2>3, CMCursorOf DEF CMIInv, CMFilesInv
  <2>5. QED BY <2>3, <2>4
<1>4. ~CM!LegacyAdvances
  BY <1>1 DEF CM!LegacyAdvances
<1>5. ASSUME NEW p \in Process, CM!Call(p) PROVE CM!UnlinkCheckpoint(p)
  <2>1. cmNow' # cmNow
    OBVIOUS
  <2>2. ~(CM!Create(p) \/ CM!Write(p))
    <3>1. ASSUME CM!Create(p) \/ CM!Write(p) PROVE FALSE
      <4>1. cmProc[p].pc \in CMWriting
        BY <3>1 DEF CM!Create, CM!Write, CMWriting
      <4>2. Head(cmProc[p].files) # "checkpoint v1"
        BY <4>1, CMAtFile DEF CM!Archive, CM!Temporary
      <4>3. QED BY <1>1, <3>1, <4>2 DEF CM!Create, CM!Write
    <3>2. QED BY <3>1
  <2>3. ~(CM!RenameCheckpoint(p) \/ CM!RenameProgress(p) \/ CM!RemoveMarker(p) \/ CM!RemoveReview(p))
    BY <1>1 DEF CM!RenameCheckpoint, CM!RenameProgress, CM!Rename, CM!RemoveMarker, CM!RemoveReview, CM!Unlink
  <2>4. ~(CM!Prepare(p) \/ CM!LoadSealed(p) \/ CM!Seal(p) \/ CM!Apply(p) \/ CM!SyncFile(p) \/ CM!SyncedNames(p)
          \/ CM!SyncSwitch(p) \/ CM!SyncMarker(p) \/ CM!SyncReview(p) \/ CM!Report(p) \/ CM!Ends(p))
    BY <2>1 DEF CM!Prepare, CM!LoadSealed, CM!Looks, CM!Seal, CM!Apply, CM!Acquires, CM!SyncFile, CM!SyncedNames,
       CM!SyncSwitch, CM!SyncMarker, CM!SyncReview, CM!SyncLineage, CM!Report, CM!Ends, CM!Quiet
  <2>5. QED BY <1>5, <2>2, <2>3, <2>4 DEF CM!Call
<1>6. QED BY <1>2, <1>3, <1>4, <1>5 DEF CM!Next, cmVars

\* What stands, what is durable and where a call is fit together after every step
\* and every power loss (sonnet_checkpoint_migration.py).
THEOREM CMInvariance == Spec => [](machine = "CheckpointMigration" => CMIInv)
<1>1. Init => (machine = "CheckpointMigration" => CMIInv)
  BY BoundsAssumption, CMInitIInv DEF Init
<1>2. (machine = "CheckpointMigration" => CMIInv) /\ [Next]_vars
         => (machine = "CheckpointMigration" => CMIInv)'
  BY BoundsAssumption, CMStepIInv DEF Next, vars
<1>3. QED BY <1>1, <1>2, PTL DEF Spec

\* Wherever the migration was interrupted and whatever a power loss left, a
\* start of the observer refuses or resumes at the archived cursor, the legacy
\* bytes are in the archive, and a migration reported as applied stays so
\* (sonnet_checkpoint_migration.py, _apply_migration_core).
THEOREM ResumesAlways == Spec => []ResumesWhereItStopped
<1>1. (machine = "CheckpointMigration" => CMIInv) => ResumesWhereItStopped
  BY CMResumes DEF ResumesWhereItStopped
<1>2. QED BY <1>1, CMInvariance, PTL

\* A call gives the legacy checkpoint up only while the review record that was
\* sealed before names the cursor it finds, however calls and the legacy
\* observer interleave (sonnet_checkpoint_migration.py, _apply_migration_core).
THEOREM ReviewedOnly == Spec => OnlyTheReviewed
<1>1. (machine = "CheckpointMigration" => CMIInv) /\ [Next]_vars
         => [machine = "CheckpointMigration" => CM!OnlyTheReviewed]_vars
  BY CMReviewedStep DEF Next, vars
<1>2. QED BY <1>1, CMInvariance, PTL DEF Spec, OnlyTheReviewed
==============================================================================
