--------------------- MODULE AttendedRegistrationProofs ---------------------
(***************************************************************************)
(* Proofs about AttendedRegistration: its inductive invariant and the      *)
(* safety properties that follow, for every wall time, request timeout and *)
(* minimum, and that an attended run is a one-shot registration.           *)
(***************************************************************************)
EXTENDS AttendedRegistration, FiniteSetTheorems, TLAPS

\* The arithmetic of the deadlines.
LEMMA LaunchInTime ==
  ASSUME ReaderOK, Launch
  PROVE  begun' \in 0..Wall
<1>1. now \in 0..MaxTime  BY DEF ReaderOK
<1>2. Wall - now > Timeout  BY DEF Launch, TimeForRequest
<1>3. now \in 0..Wall  BY <1>1, <1>2, TimeAssumption DEF TimeAssumption
<1> QED  BY <1>3 DEF Launch

LEMMA TickInRange ==
  ASSUME ReaderOK, Tick
  PROVE  now' \in 0..MaxTime /\ (now >= Wall => now' >= Wall)
<1>1. now \in 0..MaxTime  BY DEF ReaderOK
<1>2. now < MaxTime /\ now' = now + 1  BY DEF Tick
<1> QED  BY <1>1, <1>2, TimeAssumption DEF TimeAssumption

LEMMA SessionWallIsLater ==
  ASSUME ReaderOK, SessionTimesOut
  PROVE  now >= Wall
<1>1. now \in 0..MaxTime /\ begun \in 0..Wall  BY DEF ReaderOK
<1>2. now >= begun + Wall  BY DEF SessionTimesOut
<1> QED  BY <1>1, <1>2, TimeAssumption DEF TimeAssumption

\* The main thread keeps its types; PostInv keeps the count of POSTs.
LEMMA MainTypeStep == IInv /\ [Next]_vars => MainOK'
<1> SUFFICES ASSUME IInv, [Next]_vars PROVE MainOK'
  OBVIOUS
<1> USE TimeAssumption DEF IInv, TypeOK, MainOK, PostInv, BeforePost,
       GoTo, main, signals, guarded, session, stopping
<1>1. ASSUME MainStep PROVE MainOK'
  <2>1. CASE Highwater
    BY <2>1 DEF Highwater, TimeForRequest
  <2>2. CASE Export
    BY <2>2 DEF Export, Inspect, Refuses, TimeForRequest
  <2>3. CASE Launch
    BY <2>3 DEF Launch, TimeForRequest
  <2>4. CASE BootstrapFails
    BY <2>4 DEF BootstrapFails
  <2>5. CASE Turn
    BY <2>5 DEF Turn, MainOnly
  <2>6. CASE SeeReady
    BY <2>6 DEF SeeReady, MainOnly, Running
  <2>7. CASE AskApproval
    BY <2>7 DEF AskApproval, MainOnly, Running
  <2>8. CASE Command
    BY <2>8 DEF Command, MainOnly
  <2>9. CASE PollAgain
    BY <2>9 DEF PollAgain, MainOnly
  <2>10. CASE PollTerminal
    BY <2>10 DEF PollTerminal, MainOnly, Show, HandleStatus
  <2>11. CASE PollVerdict
    BY <2>11 DEF PollVerdict, MainOnly, Show, HandleStatus, Reconcile, Recorded
  <2>12. CASE PollFails
    BY <2>12 DEF PollFails, MainOnly, HandleStatus, Reconcile, Recorded,
         ReconcileFails
  <2>13. CASE StopSession
    BY <2>13 DEF StopSession, MainOnly, TellStop
  <2>14. CASE Drain
    BY <2>14 DEF Drain, MainOnly, Show, HandleStatus, Reconcile, Recorded
  <2>15. CASE DrainFails
    BY <2>15 DEF DrainFails, MainOnly, Show, HandleStatus, Reconcile, Recorded,
         ReconcileFails
  <2>16. CASE Gate
    BY <2>16 DEF Gate, MainOnly, Advance, Live, Running
  <2>17. CASE Check
    BY <2>17 DEF Check, MainOnly, Advance, Live, Running
  <2>18. CASE AppendRecord
    BY <2>18 DEF AppendRecord, MainOnly, Advance, NextRecord
  <2>19. CASE AppendFails
    BY <2>19 DEF AppendFails, MainOnly, Abandon, DeferredStop, TellStop, NextRecord
  <2>20. CASE Reserve
    BY <2>20 DEF Reserve, Advance, Live, Running
  <2>21. CASE Confirm
    BY <2>21 DEF Confirm, MainOnly, Advance, Running
  <2>22. CASE ExecuteRefused
    BY <2>22 DEF ExecuteRefused, MainOnly, Abandon, DeferredStop, TellStop, Running
  <2>23. CASE Transport
    BY <2>23 DEF Transport, MainOnly
  <2>24. CASE Outcome
    BY <2>24 DEF Outcome, MainOnly, Advance, OutcomeRecord
  <2>25. CASE OutcomeFails
    BY <2>25 DEF OutcomeFails, MainOnly, Abandon, DeferredStop, TellStop,
         OutcomeRecord
  <2>26. CASE Leave
    BY <2>26 DEF Leave, MainOnly, DeferredStop, TellStop
  <2>27. CASE Unlock
    BY <2>27 DEF Unlock, MainOnly
  <2> QED  BY <1>1, <2>1, <2>2, <2>3, <2>4, <2>5, <2>6, <2>7, <2>8, <2>9, <2>10,
       <2>11, <2>12, <2>13, <2>14, <2>15, <2>16, <2>17, <2>18, <2>19, <2>20, <2>21,
       <2>22, <2>23, <2>24, <2>25, <2>26, <2>27 DEF MainStep
<1>2. ASSUME SessionStep PROVE MainOK'
  <2>1. CASE BeginRead
    BY <2>1 DEF BeginRead, SessionOnly
  <2>2. CASE StopSeen
    BY <2>2 DEF StopSeen, SessionOnly, SessionEnds
  <2>3. CASE SessionTimesOut
    BY <2>3 DEF SessionTimesOut, SessionOnly
  <2>4. CASE SessionGivesUp
    BY <2>4 DEF SessionGivesUp, SessionOnly
  <2>5. CASE ReadFails
    BY <2>5 DEF ReadFails, SessionOnly, SessionEnds
  <2>6. CASE PageArrives
    BY <2>6 DEF PageArrives, SessionOnly, Inspect, Refuses
  <2>7. CASE GapExport
    BY <2>7 DEF GapExport, SessionOnly, Inspect, Refuses
  <2>8. CASE GapExportFails
    BY <2>8 DEF GapExportFails, SessionOnly, SessionEnds
  <2>9. CASE SessionRefused
    BY <2>9 DEF SessionRefused, SessionOnly, SessionEnds
  <2>10. CASE HandleReceipts
    BY <2>10 DEF HandleReceipts, SessionOnly, SessionEnds
  <2>11. CASE NoReceipt
    BY <2>11 DEF NoReceipt, SessionOnly, SessionEnds
  <2>12. CASE GapUnresolved
    BY <2>12 DEF GapUnresolved, SessionOnly, SessionEnds
  <2>13. CASE StoreFails
    BY <2>13 DEF StoreFails, SessionOnly, SessionEnds
  <2> QED  BY <1>2, <2>1, <2>2, <2>3, <2>4, <2>5, <2>6, <2>7, <2>8, <2>9, <2>10,
       <2>11, <2>12, <2>13 DEF SessionStep
<1>3. ASSUME WatchdogStep PROVE MainOK'
  <2>1. CASE WallReached
    BY <2>1 DEF WallReached
  <2>2. CASE WallStops
    BY <2>2 DEF WallStops
  <2>3. CASE WatchdogLeaves
    BY <2>3 DEF WatchdogLeaves
  <2> QED  BY <1>3, <2>1, <2>2, <2>3 DEF WatchdogStep
<1>4. CASE Signal
  BY <1>4 DEF Signal, MainOnly, TellStop, Defer, Bootstrapping, Locked, Finished
<1>5. CASE Dies
  BY <1>5 DEF Dies, Finished
<1>6. CASE Tick
  BY <1>6 DEF Tick, Finished
<1>7. CASE UNCHANGED vars
  BY <1>7 DEF vars
<1> QED  BY <1>1, <1>2, <1>3, <1>4, <1>5, <1>6, <1>7 DEF Next


\* Answers keep their types.
LEMMA AnswersTypeStep == IInv /\ [Next]_vars => AnswersOK'
<1> SUFFICES ASSUME IInv, [Next]_vars PROVE AnswersOK'
  OBVIOUS
<1> USE TimeAssumption DEF IInv, TypeOK, AnswersOK, Receipt, Verdict, Nothing,
       GoTo, main, signals, guarded, session, stopping
<1>1. ASSUME MainStep PROVE AnswersOK'
  <2>1. CASE Highwater
    BY <2>1 DEF Highwater, TimeForRequest
  <2>2. CASE Export
    BY <2>2 DEF Export, Inspect, Refuses, TimeForRequest
  <2>3. CASE Launch
    BY <2>3 DEF Launch, TimeForRequest
  <2>4. CASE BootstrapFails
    BY <2>4 DEF BootstrapFails
  <2>5. CASE Turn
    BY <2>5 DEF Turn, MainOnly
  <2>6. CASE SeeReady
    BY <2>6 DEF SeeReady, MainOnly, Running
  <2>7. CASE AskApproval
    BY <2>7 DEF AskApproval, MainOnly, Running
  <2>8. CASE Command
    BY <2>8 DEF Command, MainOnly
  <2>9. CASE PollAgain
    BY <2>9 DEF PollAgain, MainOnly
  <2>10. CASE PollTerminal
    BY <2>10 DEF PollTerminal, MainOnly, Show, HandleStatus
  <2>11. CASE PollVerdict
    BY <2>11 DEF PollVerdict, MainOnly, Show, HandleStatus, Reconcile, Recorded
  <2>12. CASE PollFails
    BY <2>12 DEF PollFails, MainOnly, HandleStatus, Reconcile, Recorded,
         ReconcileFails
  <2>13. CASE StopSession
    BY <2>13 DEF StopSession, MainOnly, TellStop
  <2>14. CASE Drain
    BY <2>14 DEF Drain, MainOnly, Show, HandleStatus, Reconcile, Recorded
  <2>15. CASE DrainFails
    BY <2>15 DEF DrainFails, MainOnly, Show, HandleStatus, Reconcile, Recorded,
         ReconcileFails
  <2>16. CASE Gate
    BY <2>16 DEF Gate, MainOnly, Advance, Live, Running
  <2>17. CASE Check
    BY <2>17 DEF Check, MainOnly, Advance, Live, Running
  <2>18. CASE AppendRecord
    BY <2>18 DEF AppendRecord, MainOnly, Advance, NextRecord
  <2>19. CASE AppendFails
    BY <2>19 DEF AppendFails, MainOnly, Abandon, DeferredStop, TellStop, NextRecord
  <2>20. CASE Reserve
    BY <2>20 DEF Reserve, Advance, Live, Running
  <2>21. CASE Confirm
    BY <2>21 DEF Confirm, MainOnly, Advance, Running
  <2>22. CASE ExecuteRefused
    BY <2>22 DEF ExecuteRefused, MainOnly, Abandon, DeferredStop, TellStop, Running
  <2>23. CASE Transport
    BY <2>23 DEF Transport, MainOnly
  <2>24. CASE Outcome
    BY <2>24 DEF Outcome, MainOnly, Advance, OutcomeRecord
  <2>25. CASE OutcomeFails
    BY <2>25 DEF OutcomeFails, MainOnly, Abandon, DeferredStop, TellStop,
         OutcomeRecord
  <2>26. CASE Leave
    BY <2>26 DEF Leave, MainOnly, DeferredStop, TellStop
  <2>27. CASE Unlock
    BY <2>27 DEF Unlock, MainOnly
  <2> QED  BY <1>1, <2>1, <2>2, <2>3, <2>4, <2>5, <2>6, <2>7, <2>8, <2>9, <2>10,
       <2>11, <2>12, <2>13, <2>14, <2>15, <2>16, <2>17, <2>18, <2>19, <2>20, <2>21,
       <2>22, <2>23, <2>24, <2>25, <2>26, <2>27 DEF MainStep
<1>2. ASSUME SessionStep PROVE AnswersOK'
  <2>1. CASE BeginRead
    BY <2>1 DEF BeginRead, SessionOnly
  <2>2. CASE StopSeen
    BY <2>2 DEF StopSeen, SessionOnly, SessionEnds
  <2>3. CASE SessionTimesOut
    BY <2>3 DEF SessionTimesOut, SessionOnly
  <2>4. CASE SessionGivesUp
    BY <2>4 DEF SessionGivesUp, SessionOnly
  <2>5. CASE ReadFails
    BY <2>5 DEF ReadFails, SessionOnly, SessionEnds
  <2>6. CASE PageArrives
    BY <2>6 DEF PageArrives, SessionOnly, Inspect, Refuses
  <2>7. CASE GapExport
    BY <2>7 DEF GapExport, SessionOnly, Inspect, Refuses
  <2>8. CASE GapExportFails
    BY <2>8 DEF GapExportFails, SessionOnly, SessionEnds
  <2>9. CASE SessionRefused
    BY <2>9 DEF SessionRefused, SessionOnly, SessionEnds
  <2>10. CASE HandleReceipts
    BY <2>10 DEF HandleReceipts, SessionOnly, SessionEnds
  <2>11. CASE NoReceipt
    BY <2>11 DEF NoReceipt, SessionOnly, SessionEnds
  <2>12. CASE GapUnresolved
    BY <2>12 DEF GapUnresolved, SessionOnly, SessionEnds
  <2>13. CASE StoreFails
    BY <2>13 DEF StoreFails, SessionOnly, SessionEnds
  <2> QED  BY <1>2, <2>1, <2>2, <2>3, <2>4, <2>5, <2>6, <2>7, <2>8, <2>9, <2>10,
       <2>11, <2>12, <2>13 DEF SessionStep
<1>3. ASSUME WatchdogStep PROVE AnswersOK'
  <2>1. CASE WallReached
    BY <2>1 DEF WallReached
  <2>2. CASE WallStops
    BY <2>2 DEF WallStops
  <2>3. CASE WatchdogLeaves
    BY <2>3 DEF WatchdogLeaves
  <2> QED  BY <1>3, <2>1, <2>2, <2>3 DEF WatchdogStep
<1>4. CASE Signal
  BY <1>4 DEF Signal, MainOnly, TellStop, Defer, Bootstrapping, Locked, Finished
<1>5. CASE Dies
  BY <1>5 DEF Dies, Finished
<1>6. CASE Tick
  BY <1>6 DEF Tick, Finished
<1>7. CASE UNCHANGED vars
  BY <1>7 DEF vars
<1> QED  BY <1>1, <1>2, <1>3, <1>4, <1>5, <1>6, <1>7 DEF Next


\* The session, the guard and the watchdog keep their types.
LEMMA ReaderTypeStep == IInv /\ [Next]_vars => ReaderOK'
<1> SUFFICES ASSUME IInv, [Next]_vars PROVE ReaderOK'
  OBVIOUS
<1> USE TimeAssumption DEF IInv, TypeOK, ReaderOK,
       GoTo, main, signals, guarded, session, stopping
<1>1. ASSUME MainStep PROVE ReaderOK'
  <2>1. CASE Highwater
    BY <2>1 DEF Highwater, TimeForRequest
  <2>2. CASE Export
    BY <2>2 DEF Export, Inspect, Refuses, TimeForRequest
  <2>3. CASE Launch
    <3>1. begun' \in 0..Wall /\ now' = now
      BY <2>3, LaunchInTime DEF Launch
    <3> QED  BY <3>1, <2>3 DEF Launch
  <2>4. CASE BootstrapFails
    BY <2>4 DEF BootstrapFails
  <2>5. CASE Turn
    BY <2>5 DEF Turn, MainOnly
  <2>6. CASE SeeReady
    BY <2>6 DEF SeeReady, MainOnly, Running
  <2>7. CASE AskApproval
    BY <2>7 DEF AskApproval, MainOnly, Running
  <2>8. CASE Command
    BY <2>8 DEF Command, MainOnly
  <2>9. CASE PollAgain
    BY <2>9 DEF PollAgain, MainOnly
  <2>10. CASE PollTerminal
    BY <2>10 DEF PollTerminal, MainOnly, Show, HandleStatus
  <2>11. CASE PollVerdict
    BY <2>11 DEF PollVerdict, MainOnly, Show, HandleStatus, Reconcile, Recorded
  <2>12. CASE PollFails
    BY <2>12 DEF PollFails, MainOnly, HandleStatus, Reconcile, Recorded,
         ReconcileFails
  <2>13. CASE StopSession
    BY <2>13 DEF StopSession, MainOnly, TellStop
  <2>14. CASE Drain
    BY <2>14 DEF Drain, MainOnly, Show, HandleStatus, Reconcile, Recorded
  <2>15. CASE DrainFails
    BY <2>15 DEF DrainFails, MainOnly, Show, HandleStatus, Reconcile, Recorded,
         ReconcileFails
  <2>16. CASE Gate
    BY <2>16 DEF Gate, MainOnly, Advance, Live, Running
  <2>17. CASE Check
    BY <2>17 DEF Check, MainOnly, Advance, Live, Running
  <2>18. CASE AppendRecord
    BY <2>18 DEF AppendRecord, MainOnly, Advance, NextRecord
  <2>19. CASE AppendFails
    BY <2>19 DEF AppendFails, MainOnly, Abandon, DeferredStop, TellStop, NextRecord
  <2>20. CASE Reserve
    BY <2>20 DEF Reserve, Advance, Live, Running
  <2>21. CASE Confirm
    BY <2>21 DEF Confirm, MainOnly, Advance, Running
  <2>22. CASE ExecuteRefused
    BY <2>22 DEF ExecuteRefused, MainOnly, Abandon, DeferredStop, TellStop, Running
  <2>23. CASE Transport
    BY <2>23 DEF Transport, MainOnly
  <2>24. CASE Outcome
    BY <2>24 DEF Outcome, MainOnly, Advance, OutcomeRecord
  <2>25. CASE OutcomeFails
    BY <2>25 DEF OutcomeFails, MainOnly, Abandon, DeferredStop, TellStop,
         OutcomeRecord
  <2>26. CASE Leave
    BY <2>26 DEF Leave, MainOnly, DeferredStop, TellStop
  <2>27. CASE Unlock
    BY <2>27 DEF Unlock, MainOnly
  <2> QED  BY <1>1, <2>1, <2>2, <2>3, <2>4, <2>5, <2>6, <2>7, <2>8, <2>9, <2>10,
       <2>11, <2>12, <2>13, <2>14, <2>15, <2>16, <2>17, <2>18, <2>19, <2>20, <2>21,
       <2>22, <2>23, <2>24, <2>25, <2>26, <2>27 DEF MainStep
<1>2. ASSUME SessionStep PROVE ReaderOK'
  <2>1. CASE BeginRead
    BY <2>1 DEF BeginRead, SessionOnly
  <2>2. CASE StopSeen
    BY <2>2 DEF StopSeen, SessionOnly, SessionEnds
  <2>3. CASE SessionTimesOut
    BY <2>3 DEF SessionTimesOut, SessionOnly
  <2>4. CASE SessionGivesUp
    BY <2>4 DEF SessionGivesUp, SessionOnly
  <2>5. CASE ReadFails
    BY <2>5 DEF ReadFails, SessionOnly, SessionEnds
  <2>6. CASE PageArrives
    BY <2>6 DEF PageArrives, SessionOnly, Inspect, Refuses
  <2>7. CASE GapExport
    BY <2>7 DEF GapExport, SessionOnly, Inspect, Refuses
  <2>8. CASE GapExportFails
    BY <2>8 DEF GapExportFails, SessionOnly, SessionEnds
  <2>9. CASE SessionRefused
    BY <2>9 DEF SessionRefused, SessionOnly, SessionEnds
  <2>10. CASE HandleReceipts
    BY <2>10 DEF HandleReceipts, SessionOnly, SessionEnds
  <2>11. CASE NoReceipt
    BY <2>11 DEF NoReceipt, SessionOnly, SessionEnds
  <2>12. CASE GapUnresolved
    BY <2>12 DEF GapUnresolved, SessionOnly, SessionEnds
  <2>13. CASE StoreFails
    BY <2>13 DEF StoreFails, SessionOnly, SessionEnds
  <2> QED  BY <1>2, <2>1, <2>2, <2>3, <2>4, <2>5, <2>6, <2>7, <2>8, <2>9, <2>10,
       <2>11, <2>12, <2>13 DEF SessionStep
<1>3. ASSUME WatchdogStep PROVE ReaderOK'
  <2>1. CASE WallReached
    BY <2>1 DEF WallReached
  <2>2. CASE WallStops
    BY <2>2 DEF WallStops
  <2>3. CASE WatchdogLeaves
    BY <2>3 DEF WatchdogLeaves
  <2> QED  BY <1>3, <2>1, <2>2, <2>3 DEF WatchdogStep
<1>4. CASE Signal
  BY <1>4 DEF Signal, MainOnly, TellStop, Defer, Bootstrapping, Locked, Finished
<1>5. CASE Dies
  BY <1>5 DEF Dies, Finished
<1>6. CASE Tick
  <2>1. now' \in 0..MaxTime
    BY <1>6, TickInRange
  <2> QED  BY <2>1, <1>6 DEF Tick
<1>7. CASE UNCHANGED vars
  BY <1>7 DEF vars
<1> QED  BY <1>1, <1>2, <1>3, <1>4, <1>5, <1>6, <1>7 DEF Next


\* Flags stay Boolean.
LEMMA FlagStep == IInv /\ [Next]_vars => FlagsOK'
<1> SUFFICES ASSUME IInv, [Next]_vars PROVE FlagsOK'
  OBVIOUS
<1> USE DEF IInv, TypeOK, FlagsOK,
       GoTo, main, signals, guarded, session, stopping
<1>1. ASSUME MainStep PROVE FlagsOK'
  <2>1. CASE Highwater
    BY <2>1, Zenon DEF Highwater, TimeForRequest
  <2>2. CASE Export
    BY <2>2, Zenon DEF Export, Inspect, Refuses, TimeForRequest
  <2>3. CASE Launch
    BY <2>3, Zenon DEF Launch, TimeForRequest
  <2>4. CASE BootstrapFails
    BY <2>4, Zenon DEF BootstrapFails
  <2>5. CASE Turn
    BY <2>5, Zenon DEF Turn, MainOnly
  <2>6. CASE SeeReady
    BY <2>6, Zenon DEF SeeReady, MainOnly, Running
  <2>7. CASE AskApproval
    BY <2>7, Zenon DEF AskApproval, MainOnly, Running
  <2>8. CASE Command
    BY <2>8, Zenon DEF Command, MainOnly
  <2>9. CASE PollAgain
    BY <2>9, Zenon DEF PollAgain, MainOnly
  <2>10. CASE PollTerminal
    BY <2>10, Zenon DEF PollTerminal, MainOnly, Show, HandleStatus
  <2>11. CASE PollVerdict
    BY <2>11, Zenon DEF PollVerdict, MainOnly, Show, HandleStatus, Reconcile,
         Recorded
  <2>12. CASE PollFails
    BY <2>12, Zenon DEF PollFails, MainOnly, HandleStatus, Reconcile, Recorded,
         ReconcileFails
  <2>13. CASE StopSession
    BY <2>13, Zenon DEF StopSession, MainOnly, TellStop
  <2>14. CASE Drain
    BY <2>14, Zenon DEF Drain, MainOnly, Show, HandleStatus, Reconcile, Recorded
  <2>15. CASE DrainFails
    BY <2>15, Zenon DEF DrainFails, MainOnly, Show, HandleStatus, Reconcile,
         Recorded, ReconcileFails
  <2>16. CASE Gate
    BY <2>16, Zenon DEF Gate, MainOnly, Advance, Live, Running
  <2>17. CASE Check
    BY <2>17, Zenon DEF Check, MainOnly, Advance, Live, Running
  <2>18. CASE AppendRecord
    BY <2>18, Zenon DEF AppendRecord, MainOnly, Advance, NextRecord
  <2>19. CASE AppendFails
    BY <2>19, Zenon DEF AppendFails, MainOnly, Abandon, DeferredStop, TellStop,
         NextRecord
  <2>20. CASE Reserve
    BY <2>20, Zenon DEF Reserve, Advance, Live, Running
  <2>21. CASE Confirm
    BY <2>21, Zenon DEF Confirm, MainOnly, Advance, Running
  <2>22. CASE ExecuteRefused
    BY <2>22, Zenon DEF ExecuteRefused, MainOnly, Abandon, DeferredStop, TellStop,
         Running
  <2>23. CASE Transport
    BY <2>23, Zenon DEF Transport, MainOnly
  <2>24. CASE Outcome
    BY <2>24, Zenon DEF Outcome, MainOnly, Advance, OutcomeRecord
  <2>25. CASE OutcomeFails
    BY <2>25, Zenon DEF OutcomeFails, MainOnly, Abandon, DeferredStop, TellStop,
         OutcomeRecord
  <2>26. CASE Leave
    BY <2>26, Zenon DEF Leave, MainOnly, DeferredStop, TellStop
  <2>27. CASE Unlock
    BY <2>27, Zenon DEF Unlock, MainOnly
  <2> QED  BY <1>1, <2>1, <2>2, <2>3, <2>4, <2>5, <2>6, <2>7, <2>8, <2>9, <2>10,
       <2>11, <2>12, <2>13, <2>14, <2>15, <2>16, <2>17, <2>18, <2>19, <2>20, <2>21,
       <2>22, <2>23, <2>24, <2>25, <2>26, <2>27 DEF MainStep
<1>2. ASSUME SessionStep PROVE FlagsOK'
  <2>1. CASE BeginRead
    BY <2>1, Zenon DEF BeginRead, SessionOnly
  <2>2. CASE StopSeen
    BY <2>2, Zenon DEF StopSeen, SessionOnly, SessionEnds
  <2>3. CASE SessionTimesOut
    BY <2>3, Zenon DEF SessionTimesOut, SessionOnly
  <2>4. CASE SessionGivesUp
    BY <2>4, Zenon DEF SessionGivesUp, SessionOnly
  <2>5. CASE ReadFails
    BY <2>5, Zenon DEF ReadFails, SessionOnly, SessionEnds
  <2>6. CASE PageArrives
    BY <2>6, Zenon DEF PageArrives, SessionOnly, Inspect, Refuses
  <2>7. CASE GapExport
    BY <2>7, Zenon DEF GapExport, SessionOnly, Inspect, Refuses
  <2>8. CASE GapExportFails
    BY <2>8, Zenon DEF GapExportFails, SessionOnly, SessionEnds
  <2>9. CASE SessionRefused
    BY <2>9, Zenon DEF SessionRefused, SessionOnly, SessionEnds
  <2>10. CASE HandleReceipts
    BY <2>10, Zenon DEF HandleReceipts, SessionOnly, SessionEnds
  <2>11. CASE NoReceipt
    BY <2>11, Zenon DEF NoReceipt, SessionOnly, SessionEnds
  <2>12. CASE GapUnresolved
    BY <2>12, Zenon DEF GapUnresolved, SessionOnly, SessionEnds
  <2>13. CASE StoreFails
    BY <2>13, Zenon DEF StoreFails, SessionOnly, SessionEnds
  <2> QED  BY <1>2, <2>1, <2>2, <2>3, <2>4, <2>5, <2>6, <2>7, <2>8, <2>9, <2>10,
       <2>11, <2>12, <2>13 DEF SessionStep
<1>3. ASSUME WatchdogStep PROVE FlagsOK'
  <2>1. CASE WallReached
    BY <2>1, Zenon DEF WallReached
  <2>2. CASE WallStops
    BY <2>2, Zenon DEF WallStops
  <2>3. CASE WatchdogLeaves
    BY <2>3, Zenon DEF WatchdogLeaves
  <2> QED  BY <1>3, <2>1, <2>2, <2>3 DEF WatchdogStep
<1>4. CASE Signal
  BY <1>4, Zenon DEF Signal, MainOnly, TellStop, Defer, Bootstrapping, Locked,
       Finished
<1>5. CASE Dies
  BY <1>5, Zenon DEF Dies, Finished
<1>6. CASE Tick
  BY <1>6, Zenon DEF Tick, Finished
<1>7. CASE UNCHANGED vars
  BY <1>7, Zenon DEF vars
<1> QED  BY <1>1, <1>2, <1>3, <1>4, <1>5, <1>6, <1>7 DEF Next

\* The session comes after the bootstrap, and the command after READY.
LEMMA PlaceStep == IInv /\ [Next]_vars => PlaceInv'
<1> SUFFICES ASSUME IInv, [Next]_vars PROVE PlaceInv'
  OBVIOUS
<1> USE TimeAssumption DEF IInv, TypeOK, MainOK, ReaderOK, PlaceInv, Bootstrapping, Executing,
       GoTo, main, signals, guarded, session, stopping
<1>1. ASSUME MainStep PROVE PlaceInv'
  <2>1. CASE Highwater
    BY <2>1 DEF Highwater, TimeForRequest
  <2>2. CASE Export
    BY <2>2 DEF Export, Inspect, Refuses, Receipt, Kind, TimeForRequest
  <2>3. CASE Launch
    BY <2>3 DEF Launch, TimeForRequest
  <2>4. CASE BootstrapFails
    BY <2>4 DEF BootstrapFails
  <2>5. CASE Turn
    BY <2>5 DEF Turn, MainOnly
  <2>6. CASE SeeReady
    BY <2>6 DEF SeeReady, MainOnly, Running
  <2>7. CASE AskApproval
    BY <2>7 DEF AskApproval, MainOnly, Running
  <2>8. CASE Command
    BY <2>8 DEF Command, MainOnly
  <2>9. CASE PollAgain
    BY <2>9 DEF PollAgain, MainOnly
  <2>10. CASE PollTerminal
    BY <2>10 DEF PollTerminal, MainOnly, Show, HandleStatus
  <2>11. CASE PollVerdict
    BY <2>11 DEF PollVerdict, MainOnly, Show, HandleStatus, Reconcile, Recorded
  <2>12. CASE PollFails
    BY <2>12 DEF PollFails, MainOnly, HandleStatus, Reconcile, Recorded,
         ReconcileFails
  <2>13. CASE StopSession
    BY <2>13 DEF StopSession, MainOnly, TellStop
  <2>14. CASE Drain
    BY <2>14 DEF Drain, MainOnly, Show, HandleStatus, Reconcile, Recorded
  <2>15. CASE DrainFails
    BY <2>15 DEF DrainFails, MainOnly, Show, HandleStatus, Reconcile, Recorded,
         ReconcileFails
  <2>16. CASE Gate
    BY <2>16 DEF Gate, MainOnly, Advance, Live, Running
  <2>17. CASE Check
    BY <2>17 DEF Check, MainOnly, Advance, Live, Running
  <2>18. CASE AppendRecord
    BY <2>18 DEF AppendRecord, MainOnly, Advance, NextRecord
  <2>19. CASE AppendFails
    BY <2>19 DEF AppendFails, MainOnly, Abandon, DeferredStop, TellStop, NextRecord
  <2>20. CASE Reserve
    BY <2>20 DEF Reserve, Advance, Live, Running
  <2>21. CASE Confirm
    BY <2>21 DEF Confirm, MainOnly, Advance, Running
  <2>22. CASE ExecuteRefused
    BY <2>22 DEF ExecuteRefused, MainOnly, Abandon, DeferredStop, TellStop, Running
  <2>23. CASE Transport
    BY <2>23 DEF Transport, MainOnly
  <2>24. CASE Outcome
    BY <2>24 DEF Outcome, MainOnly, Advance, OutcomeRecord
  <2>25. CASE OutcomeFails
    BY <2>25 DEF OutcomeFails, MainOnly, Abandon, DeferredStop, TellStop,
         OutcomeRecord
  <2>26. CASE Leave
    BY <2>26 DEF Leave, MainOnly, DeferredStop, TellStop
  <2>27. CASE Unlock
    BY <2>27 DEF Unlock, MainOnly
  <2> QED  BY <1>1, <2>1, <2>2, <2>3, <2>4, <2>5, <2>6, <2>7, <2>8, <2>9, <2>10,
       <2>11, <2>12, <2>13, <2>14, <2>15, <2>16, <2>17, <2>18, <2>19, <2>20, <2>21,
       <2>22, <2>23, <2>24, <2>25, <2>26, <2>27 DEF MainStep
<1>2. ASSUME SessionStep PROVE PlaceInv'
  <2>1. CASE BeginRead
    BY <2>1 DEF BeginRead, SessionOnly
  <2>2. CASE StopSeen
    BY <2>2 DEF StopSeen, SessionOnly, SessionEnds
  <2>3. CASE SessionTimesOut
    BY <2>3 DEF SessionTimesOut, SessionOnly
  <2>4. CASE SessionGivesUp
    BY <2>4 DEF SessionGivesUp, SessionOnly
  <2>5. CASE ReadFails
    BY <2>5 DEF ReadFails, SessionOnly, SessionEnds
  <2>6. CASE PageArrives
    BY <2>6 DEF PageArrives, SessionOnly, Inspect, Refuses
  <2>7. CASE GapExport
    BY <2>7 DEF GapExport, SessionOnly, Inspect, Refuses
  <2>8. CASE GapExportFails
    BY <2>8 DEF GapExportFails, SessionOnly, SessionEnds
  <2>9. CASE SessionRefused
    BY <2>9 DEF SessionRefused, SessionOnly, SessionEnds
  <2>10. CASE HandleReceipts
    BY <2>10 DEF HandleReceipts, SessionOnly, SessionEnds
  <2>11. CASE NoReceipt
    BY <2>11 DEF NoReceipt, SessionOnly, SessionEnds
  <2>12. CASE GapUnresolved
    BY <2>12 DEF GapUnresolved, SessionOnly, SessionEnds
  <2>13. CASE StoreFails
    BY <2>13 DEF StoreFails, SessionOnly, SessionEnds
  <2> QED  BY <1>2, <2>1, <2>2, <2>3, <2>4, <2>5, <2>6, <2>7, <2>8, <2>9, <2>10,
       <2>11, <2>12, <2>13 DEF SessionStep
<1>3. ASSUME WatchdogStep PROVE PlaceInv'
  <2>1. CASE WallReached
    BY <2>1 DEF WallReached
  <2>2. CASE WallStops
    BY <2>2 DEF WallStops
  <2>3. CASE WatchdogLeaves
    BY <2>3 DEF WatchdogLeaves
  <2> QED  BY <1>3, <2>1, <2>2, <2>3 DEF WatchdogStep
<1>4. CASE Signal
  BY <1>4 DEF Signal, MainOnly, TellStop, Defer, Locked, Finished
<1>5. CASE Dies
  BY <1>5 DEF Dies, Finished
<1>6. CASE Tick
  BY <1>6 DEF Tick, Finished
<1>7. CASE UNCHANGED vars
  BY <1>7 DEF vars
<1> QED  BY <1>1, <1>2, <1>3, <1>4, <1>5, <1>6, <1>7 DEF Next

\* Nobody inspects after an unclear inspection.
LEMMA GuardStep == IInv /\ [Next]_vars => GuardInv'
<1> SUFFICES ASSUME IInv, [Next]_vars PROVE GuardInv'
  OBVIOUS
<1> USE TimeAssumption DEF IInv, TypeOK, MainOK, ReaderOK, PlaceInv, GuardInv, Bootstrapping, Executing,
       GoTo, main, signals, guarded, session, stopping
<1>1. ASSUME MainStep PROVE GuardInv'
  <2>1. CASE Highwater
    BY <2>1 DEF Highwater, TimeForRequest
  <2>2. CASE Export
    <3>1. pc = "export" /\ sess = "none" /\ ~ready
      BY <2>2 DEF Export
    <3>2. ~reserved /\ ~(posts > 0) /\ ~tainted
      BY <3>1
    <3>3. PICK kinds : Inspect(kinds) /\ GoTo(IF Refuses(kinds) THEN "refused" ELSE "launch")
      BY <2>2 DEF Export
    <3>4. tainted' => kinds # {}
      BY <3>2, <3>3 DEF Inspect
    <3>5. ~reserved' /\ (kinds # {} => class' = "unclear" /\ pc' = "refused")
      BY <3>2, <3>3 DEF Inspect, Refuses
    <3>6. pc' \in {"refused", "launch"} /\ UNCHANGED <<sess, posts, ready>>
      BY <2>2 DEF Export
    <3> QED  BY <3>1, <3>2, <3>4, <3>5, <3>6
  <2>3. CASE Launch
    BY <2>3 DEF Launch, TimeForRequest
  <2>4. CASE BootstrapFails
    BY <2>4 DEF BootstrapFails
  <2>5. CASE Turn
    BY <2>5 DEF Turn, MainOnly
  <2>6. CASE SeeReady
    BY <2>6 DEF SeeReady, MainOnly, Running
  <2>7. CASE AskApproval
    BY <2>7 DEF AskApproval, MainOnly, Running
  <2>8. CASE Command
    BY <2>8 DEF Command, MainOnly
  <2>9. CASE PollAgain
    BY <2>9 DEF PollAgain, MainOnly
  <2>10. CASE PollTerminal
    BY <2>10 DEF PollTerminal, MainOnly, Show, HandleStatus
  <2>11. CASE PollVerdict
    BY <2>11 DEF PollVerdict, MainOnly, Show, HandleStatus, Reconcile, Recorded
  <2>12. CASE PollFails
    BY <2>12 DEF PollFails, MainOnly, HandleStatus, Reconcile, Recorded,
         ReconcileFails
  <2>13. CASE StopSession
    BY <2>13 DEF StopSession, MainOnly, TellStop
  <2>14. CASE Drain
    BY <2>14 DEF Drain, MainOnly, Show, HandleStatus, Reconcile, Recorded
  <2>15. CASE DrainFails
    BY <2>15 DEF DrainFails, MainOnly, Show, HandleStatus, Reconcile, Recorded,
         ReconcileFails
  <2>16. CASE Gate
    BY <2>16 DEF Gate, MainOnly, Advance, Live, Running
  <2>17. CASE Check
    BY <2>17 DEF Check, MainOnly, Advance, Live, Running
  <2>18. CASE AppendRecord
    BY <2>18 DEF AppendRecord, MainOnly, Advance, NextRecord
  <2>19. CASE AppendFails
    BY <2>19 DEF AppendFails, MainOnly, Abandon, DeferredStop, TellStop, NextRecord
  <2>20. CASE Reserve
    BY <2>20 DEF Reserve, Advance, Live, Running
  <2>21. CASE Confirm
    BY <2>21 DEF Confirm, MainOnly, Advance, Running
  <2>22. CASE ExecuteRefused
    BY <2>22 DEF ExecuteRefused, MainOnly, Abandon, DeferredStop, TellStop, Running
  <2>23. CASE Transport
    BY <2>23 DEF Transport, MainOnly
  <2>24. CASE Outcome
    BY <2>24 DEF Outcome, MainOnly, Advance, OutcomeRecord
  <2>25. CASE OutcomeFails
    BY <2>25 DEF OutcomeFails, MainOnly, Abandon, DeferredStop, TellStop,
         OutcomeRecord
  <2>26. CASE Leave
    BY <2>26 DEF Leave, MainOnly, DeferredStop, TellStop
  <2>27. CASE Unlock
    BY <2>27 DEF Unlock, MainOnly
  <2> QED  BY <1>1, <2>1, <2>2, <2>3, <2>4, <2>5, <2>6, <2>7, <2>8, <2>9, <2>10,
       <2>11, <2>12, <2>13, <2>14, <2>15, <2>16, <2>17, <2>18, <2>19, <2>20, <2>21,
       <2>22, <2>23, <2>24, <2>25, <2>26, <2>27 DEF MainStep
<1>2. ASSUME SessionStep PROVE GuardInv'
  <2>1. CASE BeginRead
    BY <2>1 DEF BeginRead, SessionOnly
  <2>2. CASE StopSeen
    BY <2>2 DEF StopSeen, SessionOnly, SessionEnds
  <2>3. CASE SessionTimesOut
    BY <2>3 DEF SessionTimesOut, SessionOnly
  <2>4. CASE SessionGivesUp
    BY <2>4 DEF SessionGivesUp, SessionOnly
  <2>5. CASE ReadFails
    BY <2>5 DEF ReadFails, SessionOnly, SessionEnds
  <2>6. CASE PageArrives
    BY <2>6 DEF PageArrives, SessionOnly, Inspect, Refuses
  <2>7. CASE GapExport
    BY <2>7 DEF GapExport, SessionOnly, Inspect, Refuses
  <2>8. CASE GapExportFails
    BY <2>8 DEF GapExportFails, SessionOnly, SessionEnds
  <2>9. CASE SessionRefused
    BY <2>9 DEF SessionRefused, SessionOnly, SessionEnds
  <2>10. CASE HandleReceipts
    BY <2>10 DEF HandleReceipts, SessionOnly, SessionEnds
  <2>11. CASE NoReceipt
    BY <2>11 DEF NoReceipt, SessionOnly, SessionEnds
  <2>12. CASE GapUnresolved
    BY <2>12 DEF GapUnresolved, SessionOnly, SessionEnds
  <2>13. CASE StoreFails
    BY <2>13 DEF StoreFails, SessionOnly, SessionEnds
  <2> QED  BY <1>2, <2>1, <2>2, <2>3, <2>4, <2>5, <2>6, <2>7, <2>8, <2>9, <2>10,
       <2>11, <2>12, <2>13 DEF SessionStep
<1>3. ASSUME WatchdogStep PROVE GuardInv'
  <2>1. CASE WallReached
    BY <2>1 DEF WallReached
  <2>2. CASE WallStops
    BY <2>2 DEF WallStops
  <2>3. CASE WatchdogLeaves
    BY <2>3 DEF WatchdogLeaves
  <2> QED  BY <1>3, <2>1, <2>2, <2>3 DEF WatchdogStep
<1>4. CASE Signal
  BY <1>4 DEF Signal, MainOnly, TellStop, Defer, Locked, Finished
<1>5. CASE Dies
  BY <1>5 DEF Dies, Finished
<1>6. CASE Tick
  BY <1>6 DEF Tick, Finished
<1>7. CASE UNCHANGED vars
  BY <1>7 DEF vars
<1> QED  BY <1>1, <1>2, <1>3, <1>4, <1>5, <1>6, <1>7 DEF Next

\* The POST comes with a started journal, and a journal never returns.
LEMMA PostStep == IInv /\ [Next]_vars => PostInv'
<1> SUFFICES ASSUME IInv, [Next]_vars PROVE PostInv'
  OBVIOUS
<1> USE TimeAssumption DEF IInv, TypeOK, MainOK, PostInv, BeforePost, Verdict,
       GoTo, main, signals, guarded, session, stopping
<1>1. ASSUME MainStep PROVE PostInv'
  <2>1. CASE Highwater
    BY <2>1 DEF Highwater, TimeForRequest
  <2>2. CASE Export
    BY <2>2 DEF Export, Inspect, Refuses, Receipt, Kind, TimeForRequest
  <2>3. CASE Launch
    BY <2>3 DEF Launch, TimeForRequest
  <2>4. CASE BootstrapFails
    BY <2>4 DEF BootstrapFails
  <2>5. CASE Turn
    BY <2>5 DEF Turn, MainOnly
  <2>6. CASE SeeReady
    BY <2>6 DEF SeeReady, MainOnly, Running
  <2>7. CASE AskApproval
    BY <2>7 DEF AskApproval, MainOnly, Running
  <2>8. CASE Command
    BY <2>8 DEF Command, MainOnly
  <2>9. CASE PollAgain
    BY <2>9 DEF PollAgain, MainOnly
  <2>10. CASE PollTerminal
    BY <2>10 DEF PollTerminal, MainOnly, Show, HandleStatus
  <2>11. CASE PollVerdict
    BY <2>11 DEF PollVerdict, MainOnly, Show, HandleStatus, Reconcile, Recorded
  <2>12. CASE PollFails
    BY <2>12 DEF PollFails, MainOnly, HandleStatus, Reconcile, Recorded,
         ReconcileFails
  <2>13. CASE StopSession
    BY <2>13 DEF StopSession, MainOnly, TellStop
  <2>14. CASE Drain
    BY <2>14 DEF Drain, MainOnly, Show, HandleStatus, Reconcile, Recorded
  <2>15. CASE DrainFails
    BY <2>15 DEF DrainFails, MainOnly, Show, HandleStatus, Reconcile, Recorded,
         ReconcileFails
  <2>16. CASE Gate
    <3>1. posts = 0 /\ journal = "NOT_STARTED" /\ pc' = "check" /\ UNCHANGED <<posts, journal>>
      BY <2>16 DEF Gate, Advance
    <3> QED  BY <3>1
  <2>17. CASE Check
    BY <2>17 DEF Check, MainOnly, Advance, Live, Running
  <2>18. CASE AppendRecord
    BY <2>18 DEF AppendRecord, MainOnly, Advance, NextRecord
  <2>19. CASE AppendFails
    BY <2>19 DEF AppendFails, MainOnly, Abandon, DeferredStop, TellStop, NextRecord
  <2>20. CASE Reserve
    BY <2>20 DEF Reserve, Advance, Live, Running
  <2>21. CASE Confirm
    BY <2>21 DEF Confirm, MainOnly, Advance, Running
  <2>22. CASE ExecuteRefused
    BY <2>22 DEF ExecuteRefused, MainOnly, Abandon, DeferredStop, TellStop, Running
  <2>23. CASE Transport
    BY <2>23 DEF Transport, MainOnly
  <2>24. CASE Outcome
    BY <2>24 DEF Outcome, MainOnly, Advance, OutcomeRecord
  <2>25. CASE OutcomeFails
    BY <2>25 DEF OutcomeFails, MainOnly, Abandon, DeferredStop, TellStop,
         OutcomeRecord
  <2>26. CASE Leave
    BY <2>26 DEF Leave, MainOnly, DeferredStop, TellStop
  <2>27. CASE Unlock
    BY <2>27 DEF Unlock, MainOnly
  <2> QED  BY <1>1, <2>1, <2>2, <2>3, <2>4, <2>5, <2>6, <2>7, <2>8, <2>9, <2>10,
       <2>11, <2>12, <2>13, <2>14, <2>15, <2>16, <2>17, <2>18, <2>19, <2>20, <2>21,
       <2>22, <2>23, <2>24, <2>25, <2>26, <2>27 DEF MainStep
<1>2. ASSUME SessionStep PROVE PostInv'
  <2>1. CASE BeginRead
    BY <2>1 DEF BeginRead, SessionOnly
  <2>2. CASE StopSeen
    BY <2>2 DEF StopSeen, SessionOnly, SessionEnds
  <2>3. CASE SessionTimesOut
    BY <2>3 DEF SessionTimesOut, SessionOnly
  <2>4. CASE SessionGivesUp
    BY <2>4 DEF SessionGivesUp, SessionOnly
  <2>5. CASE ReadFails
    BY <2>5 DEF ReadFails, SessionOnly, SessionEnds
  <2>6. CASE PageArrives
    BY <2>6 DEF PageArrives, SessionOnly, Inspect, Refuses
  <2>7. CASE GapExport
    BY <2>7 DEF GapExport, SessionOnly, Inspect, Refuses
  <2>8. CASE GapExportFails
    BY <2>8 DEF GapExportFails, SessionOnly, SessionEnds
  <2>9. CASE SessionRefused
    BY <2>9 DEF SessionRefused, SessionOnly, SessionEnds
  <2>10. CASE HandleReceipts
    BY <2>10 DEF HandleReceipts, SessionOnly, SessionEnds
  <2>11. CASE NoReceipt
    BY <2>11 DEF NoReceipt, SessionOnly, SessionEnds
  <2>12. CASE GapUnresolved
    BY <2>12 DEF GapUnresolved, SessionOnly, SessionEnds
  <2>13. CASE StoreFails
    BY <2>13 DEF StoreFails, SessionOnly, SessionEnds
  <2> QED  BY <1>2, <2>1, <2>2, <2>3, <2>4, <2>5, <2>6, <2>7, <2>8, <2>9, <2>10,
       <2>11, <2>12, <2>13 DEF SessionStep
<1>3. ASSUME WatchdogStep PROVE PostInv'
  <2>1. CASE WallReached
    BY <2>1 DEF WallReached
  <2>2. CASE WallStops
    BY <2>2 DEF WallStops
  <2>3. CASE WatchdogLeaves
    BY <2>3 DEF WatchdogLeaves
  <2> QED  BY <1>3, <2>1, <2>2, <2>3 DEF WatchdogStep
<1>4. CASE Signal
  BY <1>4 DEF Signal, MainOnly, TellStop, Defer, Bootstrapping, Locked, Finished
<1>5. CASE Dies
  BY <1>5 DEF Dies, Finished
<1>6. CASE Tick
  BY <1>6 DEF Tick, Finished
<1>7. CASE UNCHANGED vars
  BY <1>7 DEF vars
<1> QED  BY <1>1, <1>2, <1>3, <1>4, <1>5, <1>6, <1>7 DEF Next

\* One disposition in the store is the one that is known to be there.
LEMMA LoadedIsTheVerdict ==
  ASSUME archive \subseteq Receipt, NEW r \in archive, Loaded # {}
  PROVE  archive = {r} /\ Loaded = {r}
<1>1. Cardinality(archive) = 1 /\ Loaded = archive
  BY DEF Loaded
<1>2. IsFiniteSet(archive)
  <2>1. Receipt = ({} \cup {"ACCEPTED"}) \cup {"REJECTED"}
    BY DEF Receipt
  <2>2. IsFiniteSet(Receipt)
    BY <2>1, FS_EmptySet, FS_AddElement
  <2> QED  BY <2>2, FS_Subset
<1> QED  BY <1>1, <1>2, FS_Singleton

\* A printed verdict has been reconciled with the store.
LEMMA VerdictStep == IInv /\ [Next]_vars => VerdictInv'
<1> SUFFICES ASSUME IInv, [Next]_vars PROVE VerdictInv'
  OBVIOUS
<1> USE TimeAssumption DEF IInv, TypeOK, MainOK, AnswersOK, ReaderOK, PlaceInv, VerdictInv, ShownVerdictIsKept, Receipt, Verdict, Nothing, Bootstrapping,
       GoTo, main, signals, guarded, session, stopping
<1>1. ASSUME MainStep PROVE VerdictInv'
  <2>1. CASE Highwater
    BY <2>1 DEF Highwater, TimeForRequest
  <2>2. CASE Export
    BY <2>2 DEF Export, Inspect, Refuses, Kind, TimeForRequest
  <2>3. CASE Launch
    BY <2>3 DEF Launch, TimeForRequest
  <2>4. CASE BootstrapFails
    BY <2>4 DEF BootstrapFails
  <2>5. CASE Turn
    BY <2>5 DEF Turn, MainOnly
  <2>6. CASE SeeReady
    BY <2>6 DEF SeeReady, MainOnly, Running
  <2>7. CASE AskApproval
    BY <2>7 DEF AskApproval, MainOnly, Running
  <2>8. CASE Command
    BY <2>8 DEF Command, MainOnly
  <2>9. CASE PollAgain
    BY <2>9 DEF PollAgain, MainOnly
  <2>10. CASE PollTerminal
    BY <2>10 DEF PollTerminal, MainOnly, Show, HandleStatus
  <2>11. CASE PollVerdict
    <3>1. PICK r \in Receipt : result = r /\ r \in archive
      BY <2>11 DEF PollVerdict, Reconcile, HandleStatus
    <3>2. archive = {r} /\ journal' = Recorded(r)
      BY <3>1, <2>11, LoadedIsTheVerdict DEF PollVerdict, Reconcile
    <3> QED  BY <3>1, <3>2, <2>11 DEF PollVerdict, MainOnly, Show, HandleStatus,
         Reconcile, Recorded
  <2>12. CASE PollFails
    BY <2>12 DEF PollFails, MainOnly, HandleStatus, Reconcile, Recorded,
         ReconcileFails
  <2>13. CASE StopSession
    BY <2>13 DEF StopSession, MainOnly, TellStop
  <2>14. CASE Drain
    BY <2>14 DEF Drain, MainOnly, Show, HandleStatus, Reconcile, Recorded
  <2>15. CASE DrainFails
    BY <2>15 DEF DrainFails, MainOnly, Show, HandleStatus, Reconcile, Recorded,
         ReconcileFails
  <2>16. CASE Gate
    BY <2>16 DEF Gate, MainOnly, Advance, Live, Running
  <2>17. CASE Check
    BY <2>17 DEF Check, MainOnly, Advance, Live, Running
  <2>18. CASE AppendRecord
    BY <2>18 DEF AppendRecord, MainOnly, Advance, NextRecord
  <2>19. CASE AppendFails
    BY <2>19 DEF AppendFails, MainOnly, Abandon, DeferredStop, TellStop, NextRecord
  <2>20. CASE Reserve
    BY <2>20 DEF Reserve, Advance, Live, Running
  <2>21. CASE Confirm
    BY <2>21 DEF Confirm, MainOnly, Advance, Running
  <2>22. CASE ExecuteRefused
    BY <2>22 DEF ExecuteRefused, MainOnly, Abandon, DeferredStop, TellStop, Running
  <2>23. CASE Transport
    BY <2>23 DEF Transport, MainOnly
  <2>24. CASE Outcome
    BY <2>24 DEF Outcome, MainOnly, Advance, OutcomeRecord
  <2>25. CASE OutcomeFails
    BY <2>25 DEF OutcomeFails, MainOnly, Abandon, DeferredStop, TellStop,
         OutcomeRecord
  <2>26. CASE Leave
    BY <2>26 DEF Leave, MainOnly, DeferredStop, TellStop
  <2>27. CASE Unlock
    BY <2>27 DEF Unlock, MainOnly
  <2> QED  BY <1>1, <2>1, <2>2, <2>3, <2>4, <2>5, <2>6, <2>7, <2>8, <2>9, <2>10,
       <2>11, <2>12, <2>13, <2>14, <2>15, <2>16, <2>17, <2>18, <2>19, <2>20, <2>21,
       <2>22, <2>23, <2>24, <2>25, <2>26, <2>27 DEF MainStep
<1>2. ASSUME SessionStep PROVE VerdictInv'
  <2>1. CASE BeginRead
    BY <2>1 DEF BeginRead, SessionOnly
  <2>2. CASE StopSeen
    BY <2>2 DEF StopSeen, SessionOnly, SessionEnds
  <2>3. CASE SessionTimesOut
    BY <2>3 DEF SessionTimesOut, SessionOnly
  <2>4. CASE SessionGivesUp
    BY <2>4 DEF SessionGivesUp, SessionOnly
  <2>5. CASE ReadFails
    BY <2>5 DEF ReadFails, SessionOnly, SessionEnds
  <2>6. CASE PageArrives
    BY <2>6 DEF PageArrives, SessionOnly, Inspect, Refuses
  <2>7. CASE GapExport
    BY <2>7 DEF GapExport, SessionOnly, Inspect, Refuses
  <2>8. CASE GapExportFails
    BY <2>8 DEF GapExportFails, SessionOnly, SessionEnds
  <2>9. CASE SessionRefused
    BY <2>9 DEF SessionRefused, SessionOnly, SessionEnds
  <2>10. CASE HandleReceipts
    BY <2>10 DEF HandleReceipts, SessionOnly, SessionEnds
  <2>11. CASE NoReceipt
    BY <2>11 DEF NoReceipt, SessionOnly, SessionEnds
  <2>12. CASE GapUnresolved
    BY <2>12 DEF GapUnresolved, SessionOnly, SessionEnds
  <2>13. CASE StoreFails
    BY <2>13 DEF StoreFails, SessionOnly, SessionEnds
  <2> QED  BY <1>2, <2>1, <2>2, <2>3, <2>4, <2>5, <2>6, <2>7, <2>8, <2>9, <2>10,
       <2>11, <2>12, <2>13 DEF SessionStep
<1>3. ASSUME WatchdogStep PROVE VerdictInv'
  <2>1. CASE WallReached
    BY <2>1 DEF WallReached
  <2>2. CASE WallStops
    BY <2>2 DEF WallStops
  <2>3. CASE WatchdogLeaves
    BY <2>3 DEF WatchdogLeaves
  <2> QED  BY <1>3, <2>1, <2>2, <2>3 DEF WatchdogStep
<1>4. CASE Signal
  BY <1>4 DEF Signal, MainOnly, TellStop, Defer, Locked, Finished
<1>5. CASE Dies
  BY <1>5 DEF Dies, Finished
<1>6. CASE Tick
  BY <1>6 DEF Tick, Finished
<1>7. CASE UNCHANGED vars
  BY <1>7 DEF vars
<1> QED  BY <1>1, <1>2, <1>3, <1>4, <1>5, <1>6, <1>7 DEF Next

\* A stop told by the operator or by the script does not touch what TIMEOUT
\* depends on, and claims the end only before the wall does.
LEMMA StopKeepsWall ==
  ASSUME TypeOK, WallInv, TellStop \/ UNCHANGED stopping,
         UNCHANGED <<dog, result, now>>, shown' = shown \/ shown' # "TIMEOUT"
  PROVE  WallInv'
<1>1. CASE TellStop
  BY <1>1, Zenon DEF WallInv, TimeoutHasCause, TellStop
<1>2. CASE UNCHANGED stopping
  BY <1>2 DEF WallInv, TimeoutHasCause, stopping
<1> QED  BY <1>1, <1>2

\* Whatever leads to TIMEOUT needs the wall time to be over.
LEMMA WallStep == IInv /\ [Next]_vars => WallInv'
<1> SUFFICES ASSUME IInv, [Next]_vars PROVE WallInv'
  OBVIOUS
<1> USE TimeAssumption DEF IInv, TypeOK, AnswersOK, ReaderOK, WallInv, TimeoutHasCause, Receipt, Nothing,
       GoTo, main, signals, guarded, session, stopping
<1>1. ASSUME MainStep PROVE WallInv'
  <2>1. CASE Highwater
    BY <2>1 DEF Highwater, TimeForRequest
  <2>2. CASE Export
    BY <2>2 DEF Export, Inspect, Refuses, Kind, TimeForRequest
  <2>3. CASE Launch
    BY <2>3 DEF Launch, TimeForRequest
  <2>4. CASE BootstrapFails
    BY <2>4 DEF BootstrapFails
  <2>5. CASE Turn
    BY <2>5 DEF Turn, MainOnly
  <2>6. CASE SeeReady
    BY <2>6 DEF SeeReady, MainOnly, Running
  <2>7. CASE AskApproval
    BY <2>7 DEF AskApproval, MainOnly, Running
  <2>8. CASE Command
    BY <2>8 DEF Command, MainOnly
  <2>9. CASE PollAgain
    BY <2>9 DEF PollAgain, MainOnly
  <2>10. CASE PollTerminal
    BY <2>10 DEF PollTerminal, MainOnly, Show, HandleStatus
  <2>11. CASE PollVerdict
    BY <2>11 DEF PollVerdict, MainOnly, Show, HandleStatus, Reconcile, Recorded
  <2>12. CASE PollFails
    BY <2>12 DEF PollFails, MainOnly, HandleStatus, Reconcile, Recorded,
         ReconcileFails
  <2>13. CASE StopSession
    BY <2>13, StopKeepsWall DEF StopSession, MainOnly, main, session
  <2>14. CASE Drain
    BY <2>14, StopKeepsWall DEF Drain, Show, MainOnly, session, stopping
  <2>15. CASE DrainFails
    BY <2>15, StopKeepsWall DEF DrainFails, Show, MainOnly, session, stopping
  <2>16. CASE Gate
    BY <2>16 DEF Gate, MainOnly, Advance, Live, Running
  <2>17. CASE Check
    BY <2>17 DEF Check, MainOnly, Advance, Live, Running
  <2>18. CASE AppendRecord
    BY <2>18 DEF AppendRecord, MainOnly, Advance, NextRecord
  <2>19. CASE AppendFails
    BY <2>19, StopKeepsWall DEF AppendFails, Abandon, DeferredStop, MainOnly,
         session
  <2>20. CASE Reserve
    BY <2>20 DEF Reserve, Advance, Live, Running
  <2>21. CASE Confirm
    BY <2>21 DEF Confirm, MainOnly, Advance, Running
  <2>22. CASE ExecuteRefused
    BY <2>22, StopKeepsWall DEF ExecuteRefused, Abandon, DeferredStop, MainOnly,
         session
  <2>23. CASE Transport
    BY <2>23 DEF Transport, MainOnly
  <2>24. CASE Outcome
    BY <2>24 DEF Outcome, MainOnly, Advance, OutcomeRecord
  <2>25. CASE OutcomeFails
    BY <2>25, StopKeepsWall DEF OutcomeFails, Abandon, DeferredStop, MainOnly,
         session
  <2>26. CASE Leave
    BY <2>26, StopKeepsWall DEF Leave, DeferredStop, MainOnly, main, session
  <2>27. CASE Unlock
    BY <2>27 DEF Unlock, MainOnly
  <2> QED  BY <1>1, <2>1, <2>2, <2>3, <2>4, <2>5, <2>6, <2>7, <2>8, <2>9, <2>10,
       <2>11, <2>12, <2>13, <2>14, <2>15, <2>16, <2>17, <2>18, <2>19, <2>20, <2>21,
       <2>22, <2>23, <2>24, <2>25, <2>26, <2>27 DEF MainStep
<1>2. ASSUME SessionStep PROVE WallInv'
  <2>1. CASE BeginRead
    BY <2>1 DEF BeginRead, SessionOnly
  <2>2. CASE StopSeen
    BY <2>2 DEF StopSeen, SessionOnly, SessionEnds
  <2>3. CASE SessionTimesOut
    BY <2>3, SessionWallIsLater DEF SessionTimesOut, SessionOnly
  <2>4. CASE SessionGivesUp
    BY <2>4 DEF SessionGivesUp, SessionOnly
  <2>5. CASE ReadFails
    BY <2>5 DEF ReadFails, SessionOnly, SessionEnds
  <2>6. CASE PageArrives
    BY <2>6 DEF PageArrives, SessionOnly, Inspect, Refuses
  <2>7. CASE GapExport
    BY <2>7 DEF GapExport, SessionOnly, Inspect, Refuses
  <2>8. CASE GapExportFails
    BY <2>8 DEF GapExportFails, SessionOnly, SessionEnds
  <2>9. CASE SessionRefused
    BY <2>9 DEF SessionRefused, SessionOnly, SessionEnds
  <2>10. CASE HandleReceipts
    BY <2>10 DEF HandleReceipts, SessionOnly, SessionEnds
  <2>11. CASE NoReceipt
    BY <2>11 DEF NoReceipt, SessionOnly, SessionEnds
  <2>12. CASE GapUnresolved
    BY <2>12 DEF GapUnresolved, SessionOnly, SessionEnds
  <2>13. CASE StoreFails
    BY <2>13 DEF StoreFails, SessionOnly, SessionEnds
  <2> QED  BY <1>2, <2>1, <2>2, <2>3, <2>4, <2>5, <2>6, <2>7, <2>8, <2>9, <2>10,
       <2>11, <2>12, <2>13 DEF SessionStep
<1>3. ASSUME WatchdogStep PROVE WallInv'
  <2>1. CASE WallReached
    BY <2>1 DEF WallReached
  <2>2. CASE WallStops
    BY <2>2 DEF WallStops
  <2>3. CASE WatchdogLeaves
    BY <2>3 DEF WatchdogLeaves
  <2> QED  BY <1>3, <2>1, <2>2, <2>3 DEF WatchdogStep
<1>4. CASE Signal
    BY <1>4, StopKeepsWall DEF Signal, Defer, MainOnly, main, session
<1>5. CASE Dies
  BY <1>5 DEF Dies, Finished
<1>6. CASE Tick
  <2>1. now >= Wall => now' >= Wall
    BY <1>6, TickInRange
  <2> QED  BY <2>1, <1>6 DEF Tick
<1>7. CASE UNCHANGED vars
  BY <1>7 DEF vars
<1> QED  BY <1>1, <1>2, <1>3, <1>4, <1>5, <1>6, <1>7 DEF Next

-----------------------------------------------------------------------------
LEMMA InvInit == Init => IInv
<1> SUFFICES ASSUME Init PROVE IInv
  OBVIOUS
<1> USE DEF Init
<1>0. /\ posts \in 0..1 /\ ~(posts > 0)
      /\ begun \in 0..Wall /\ now \in 0..MaxTime
  <2>1. posts = 0 /\ begun = 0 /\ now = 0  OBVIOUS
  <2> HIDE DEF Init
  <2> QED  BY <2>1, TimeAssumption DEF TimeAssumption
<1>1. MainOK  BY <1>0 DEF MainOK
<1>2. AnswersOK  BY DEF AnswersOK, Nothing
<1>3. ReaderOK  BY <1>0 DEF ReaderOK
<1>4. FlagsOK  BY Zenon DEF FlagsOK
<1>5. PlaceInv  BY DEF PlaceInv, Bootstrapping, Executing
<1>6. GuardInv  BY <1>0 DEF GuardInv
<1>7. PostInv  BY <1>0 DEF PostInv, BeforePost
<1>8. VerdictInv  BY DEF VerdictInv, ShownVerdictIsKept, Receipt, Nothing
<1>9. WallInv  BY DEF WallInv, TimeoutHasCause, Nothing
<1> QED
  BY <1>1, <1>2, <1>3, <1>4, <1>5, <1>6, <1>7, <1>8, <1>9 DEF IInv, TypeOK

LEMMA InvStep == IInv /\ [Next]_vars => IInv'
<1> SUFFICES ASSUME IInv, [Next]_vars PROVE IInv'
  OBVIOUS
<1> HIDE DEF IInv
<1>1. MainOK' /\ AnswersOK' /\ ReaderOK' /\ FlagsOK'
  BY MainTypeStep, AnswersTypeStep, ReaderTypeStep, FlagStep
<1>2. PlaceInv' /\ GuardInv' /\ PostInv' /\ VerdictInv' /\ WallInv'
  BY PlaceStep, GuardStep, PostStep, VerdictStep, WallStep
<1> QED  BY <1>1, <1>2 DEF IInv, TypeOK

\* The inductive invariant of AttendedRegistration holds in every run.
THEOREM Invariance == Spec => []IInv
  BY InvInit, InvStep, PTL DEF Spec

\* Every variable keeps its type; in particular there is at most one POST.
THEOREM TypeCorrect == Spec => []TypeOK
<1>1. IInv => TypeOK  BY DEF IInv
<1> QED  BY <1>1, Invariance, PTL

\* No POST follows a record the guard was shown before the reservation.
THEOREM ConflictStopsThePost == Spec => []NoPostAfterConflict
<1>1. IInv => NoPostAfterConflict
  BY DEF IInv, GuardInv, NoPostAfterConflict
<1> QED  BY <1>1, Invariance, PTL

\* A printed verdict is in the journal and alone in the private store.
THEOREM VerdictsAreKept == Spec => []ShownVerdictIsKept
<1>1. IInv => ShownVerdictIsKept  BY DEF IInv, VerdictInv
<1> QED  BY <1>1, Invariance, PTL

\* TIMEOUT is the wall's, and only one of watchdog and operator ends a session.
THEOREM TimeoutsHaveCauses == Spec => []TimeoutHasCause
<1>1. IInv => TimeoutHasCause  BY DEF IInv, WallInv
<1> QED  BY <1>1, Invariance, PTL

-----------------------------------------------------------------------------
(* The refinement: the steps of the main thread that arm, send, spend or   *)
(* record, and all others, which leave the one-shot registration alone.    *)

\* The steps during which the registration may be fresh or armed in spite of a
\* journal that is started.
Armable == BeforePost \cup {"confirm", "post"}

LEMMA InitMaps == Init => OneShot!Init
<1> SUFFICES ASSUME Init PROVE OneShot!Init
  OBVIOUS
<1>1. pc = "highwater" /\ journal = "NOT_STARTED" /\ posts = 0
  BY DEF Init
<1>2. ~(posts > 0)  BY <1>1
<1>3. Stage = "fresh" /\ journal \notin Verdict  BY <1>1, <1>2 DEF Stage, BeforePost, Verdict
<1> QED  BY <1>1, <1>3 DEF OneShot!Init

\* Outside of these steps only the journal and the POSTs count.
LEMMA StillStep ==
  ASSUME UNCHANGED <<journal, posts>>,
         pc' = pc \/ (pc \notin Armable /\ pc' \notin Armable)
  PROVE  [OneShot!Next]_(OneShot!vars)
<1>1. Stage' = Stage  BY DEF Stage, Armable
<1> QED  BY <1>1 DEF OneShot!vars

\* The steps of an execution before its POST.
LEMMA WorkingStep ==
  ASSUME posts = 0, UNCHANGED posts, journal \notin Verdict, journal' \notin Verdict,
         pc \in BeforePost \cup {"enter", "check"}, pc' \in BeforePost \cup {"check"},
         pc \in {"enter", "check"} => journal = "NOT_STARTED",
         pc' = "check" => journal' = "NOT_STARTED"
  PROVE  [OneShot!Next]_(OneShot!vars)
<1>1. Stage = "fresh" /\ Stage' = "fresh"  BY DEF Stage, BeforePost
<1> QED  BY <1>1 DEF OneShot!vars

\* A call that ends early leaves the registration fresh, if nothing is recorded,
\* or spends it.
LEMMA SpendingStep ==
  ASSUME UNCHANGED posts, journal \notin Verdict, journal' \notin Verdict, pc' \notin Armable,
         pc \in BeforePost \/ journal # "NOT_STARTED",
         journal # "NOT_STARTED" => journal' # "NOT_STARTED"
  PROVE  [OneShot!Next]_(OneShot!vars)
<1>1. Stage \in {"fresh", "armed", "spent"} /\ Stage' \in {"fresh", "spent"}
  BY DEF Stage, Armable
<1>2. CASE Stage' = "spent"
  BY <1>1, <1>2 DEF OneShot!Next, OneShot!GiveUp, OneShot!vars
<1>3. CASE Stage' = "fresh"
  <2>1. ~(posts > 0) /\ journal = "NOT_STARTED"  BY <1>3 DEF Stage, Armable
  <2>2. Stage = "fresh"  BY <2>1 DEF Stage, BeforePost
  <2> QED  BY <1>3, <2>2 DEF OneShot!vars
<1> QED  BY <1>1, <1>2, <1>3

\* A verdict is recorded once, outside of the execution.
LEMMA RecordingStep ==
  ASSUME Reconcile, posts' = posts, pc \notin Armable, pc' \notin Armable
  PROVE  [OneShot!Next]_(OneShot!vars)
<1>1. /\ journal \notin Verdict /\ journal # "NOT_STARTED"
      /\ journal' \in Verdict /\ journal' # "NOT_STARTED"
  BY DEF Reconcile, Recorded, Verdict
<1>2. Stage = "spent" /\ Stage' = "spent"  BY <1>1 DEF Stage, Armable
<1> QED  BY <1>1, <1>2 DEF OneShot!Next, OneShot!RecordVerdict

\* The append of the POST attempt's record arms the registration.
LEMMA AppendMaps == ASSUME IInv, AppendRecord PROVE [OneShot!Next]_(OneShot!vars)
<1>1. /\ posts = 0 /\ posts' = posts /\ journal \notin Verdict
      /\ pc \in {"intent", "sign", "attempt"}
      /\ pc = "intent" => journal = "NOT_STARTED"
  BY DEF AppendRecord, Advance, IInv, PostInv, BeforePost
<1>2. /\ journal' \in {"INTENT_RECORDED", "LOCAL_SIGNATURE_CREATED", "POST_ATTEMPT_RECORDED"}
      /\ pc' \in {"sign", "reserve", "confirm"} /\ (pc' = "confirm" <=> pc = "attempt")
  BY DEF AppendRecord, Advance, GoTo, NextRecord
<1>3. journal' \notin Verdict  BY <1>2 DEF Verdict
<1>4. CASE pc # "attempt"
  BY <1>1, <1>2, <1>3, <1>4, WorkingStep DEF BeforePost
<1>5. CASE pc = "attempt"
  <2>1. Stage = "fresh" /\ Stage' = "armed"
    BY <1>1, <1>2, <1>5 DEF Stage, BeforePost
  <2> QED  BY <1>1, <1>3, <2>1 DEF OneShot!Next, OneShot!Arm
<1> QED  BY <1>4, <1>5

\* The transport's call sends it, or spends it unsent.
LEMMA TransportMaps == ASSUME IInv, Transport PROVE [OneShot!Next]_(OneShot!vars)
<1>1. /\ posts' \in {posts, posts + 1} /\ UNCHANGED journal /\ pc = "post" /\ pc' = "posting"
      /\ journal # "NOT_STARTED"
  BY DEF Transport, GoTo, IInv, PostInv
<1>2. Stage = "armed" /\ Stage' = "spent"
  BY <1>1 DEF Stage, BeforePost
<1> QED
  BY <1>1, <1>2 DEF OneShot!Next, OneShot!Send, OneShot!GiveUp

\* An execution that is refused or whose append fails.
LEMMA AbandonMaps ==
  ASSUME IInv, AppendFails \/ ExecuteRefused \/ Outcome \/ OutcomeFails
  PROVE  [OneShot!Next]_(OneShot!vars)
<1>1. posts' = posts /\ pc' \in {"failing", "leave"}
  BY DEF AppendFails, ExecuteRefused, Outcome, OutcomeFails, Abandon, Advance, GoTo
<1>2. pc' \notin Armable  BY <1>1 DEF Armable, BeforePost
<1>3. CASE ExecuteRefused /\ pc \in {"enter", "check"}
  <2>1. pc \notin Armable /\ journal' = journal
    BY <1>3 DEF Armable, BeforePost, ExecuteRefused
  <2> QED  BY <1>1, <1>2, <2>1, StillStep
<1>4. CASE ~(ExecuteRefused /\ pc \in {"enter", "check"})
  <2>1. pc \in BeforePost \cup {"confirm", "posting"}
    BY <1>4 DEF AppendFails, ExecuteRefused, Outcome, OutcomeFails, BeforePost
  <2>2. journal \notin Verdict /\ (pc \notin BeforePost => journal # "NOT_STARTED")
    BY <2>1 DEF IInv, PostInv, BeforePost
  <2>3. \/ journal' = journal
        \/ journal' \in {"INTENT_RECORDED", "LOCAL_SIGNATURE_CREATED", "POST_ATTEMPT_RECORDED",
                         "WRITE_OUTCOME_UNKNOWN", "AWAITING_REFEREE_RECEIPT",
                         "POST_RESPONSE_OBSERVED"}
    BY DEF AppendFails, ExecuteRefused, Outcome, OutcomeFails, OutcomeRecord, NextRecord
  <2>4. journal' \notin Verdict /\ (journal # "NOT_STARTED" => journal' # "NOT_STARTED")
    BY <2>2, <2>3 DEF Verdict
  <2> QED  BY <1>1, <1>2, <2>1, <2>2, <2>4, SpendingStep
<1> QED  BY <1>3, <1>4

\* The steps of the main thread.
LEMMA MainMaps == ASSUME IInv, MainStep PROVE [OneShot!Next]_(OneShot!vars)
<1>1. CASE Highwater \/ Export \/ Launch \/ BootstrapFails \/ Turn \/ SeeReady \/ AskApproval
           \/ Command \/ PollAgain \/ PollTerminal \/ StopSession \/ Leave \/ Unlock
  <2>1. UNCHANGED <<journal, posts>>
    BY <1>1 DEF Highwater, Export, Launch, BootstrapFails, Turn, SeeReady, AskApproval,
       Command, PollAgain, PollTerminal, StopSession, Leave, Unlock, Show, main
  <2>2. pc \notin Armable /\ pc' \notin Armable
    BY <1>1 DEF Highwater, Export, Launch, BootstrapFails, Turn, SeeReady, AskApproval,
       Command, PollAgain, PollTerminal, StopSession, Leave, Unlock, Show, GoTo,
       Armable, BeforePost
  <2> QED  BY <2>1, <2>2, StillStep
<1>2. CASE PollVerdict \/ PollFails \/ Drain \/ DrainFails
  <2>1. posts' = posts /\ (Reconcile \/ UNCHANGED journal)
    BY <1>2 DEF PollVerdict, PollFails, Drain, DrainFails, ReconcileFails, Show
  <2>2. pc \notin Armable /\ pc' \notin Armable
    BY <1>2 DEF PollVerdict, PollFails, Drain, DrainFails, Show, GoTo, Armable, BeforePost
  <2>3. CASE UNCHANGED journal
    BY <2>1, <2>2, <2>3, StillStep
  <2>4. CASE Reconcile
    BY <2>1, <2>2, <2>4, RecordingStep
  <2> QED  BY <2>1, <2>3, <2>4
<1>3. CASE Gate \/ Check \/ Reserve
  <2>1. /\ UNCHANGED <<journal, posts>>
        /\ pc \in {"enter", "check", "reserve"} /\ pc' \in {"check", "intent", "attempt"}
        /\ pc = "enter" => journal = "NOT_STARTED"
        /\ pc' = "check" => pc = "enter"
    BY <1>3 DEF Gate, Check, Reserve, Advance, GoTo
  <2>2. posts = 0 /\ journal \notin Verdict /\ (pc \in {"enter", "check"} => journal = "NOT_STARTED")
    BY <2>1 DEF IInv, TypeOK, MainOK, PostInv, BeforePost, Verdict
  <2> QED  BY <2>1, <2>2, WorkingStep DEF BeforePost
<1>4. CASE Confirm
  <2>1. UNCHANGED <<journal, posts>> /\ pc = "confirm" /\ pc' = "post"
    BY <1>4 DEF Confirm, Advance, GoTo
  <2>2. Stage' = Stage  BY <2>1 DEF Stage
  <2> QED  BY <2>1, <2>2 DEF OneShot!vars
<1>5. CASE AppendRecord
  BY <1>5, AppendMaps
<1>6. CASE Transport
  BY <1>6, TransportMaps
<1>7. CASE AppendFails \/ ExecuteRefused \/ Outcome \/ OutcomeFails
  BY <1>7, AbandonMaps
<1> QED  BY <1>1, <1>2, <1>3, <1>4, <1>5, <1>6, <1>7 DEF MainStep

\* A death spends what was armed, and what was under way with a journal started.
LEMMA DeathMaps == ASSUME IInv, Dies PROVE [OneShot!Next]_(OneShot!vars)
<1>1. UNCHANGED <<journal, posts>> /\ pc' = "dead"
  BY DEF Dies, GoTo, main
<1>2. pc' \notin Armable  BY <1>1 DEF Armable, BeforePost
<1>3. CASE pc \notin Armable
  BY <1>1, <1>2, <1>3, StillStep
<1>4. CASE pc \in Armable
  <2>1. journal \notin Verdict /\ (pc \notin BeforePost => journal # "NOT_STARTED")
    BY <1>4 DEF Armable, IInv, PostInv, BeforePost
  <2> QED  BY <1>1, <1>2, <1>4, <2>1, SpendingStep DEF Armable
<1> QED  BY <1>3, <1>4

LEMMA StepMaps == IInv /\ [Next]_vars => [OneShot!Next]_(OneShot!vars)
<1> SUFFICES ASSUME IInv, [Next]_vars PROVE [OneShot!Next]_(OneShot!vars)
  OBVIOUS
<1>1. CASE MainStep
  BY <1>1, MainMaps
<1>2. CASE SessionStep \/ WatchdogStep \/ Signal \/ Tick \/ UNCHANGED vars
  <2>1. pc' = pc /\ UNCHANGED <<journal, posts>>
    BY <1>2 DEF SessionStep, BeginRead, StopSeen, SessionTimesOut, SessionGivesUp, ReadFails,
       PageArrives, GapExport, GapExportFails, SessionRefused, HandleReceipts, NoReceipt,
       GapUnresolved, StoreFails, SessionOnly, WatchdogStep, WallReached, WallStops,
       WatchdogLeaves, Signal, Tick, main, vars
  <2> QED  BY <2>1, StillStep
<1>3. CASE Dies
  BY <1>3, DeathMaps
<1> QED  BY <1>1, <1>2, <1>3 DEF Next

\* Whatever the threads, the signals and the records of the room do, the attended
\* run is a one-shot registration: it is armed from the record of the POST attempt
\* to the call of the transport, sent at most once, and its verdict is final.
THEOREM Refinement == Spec => ImplementsOneShotPost
<1> QED  BY InitMaps, StepMaps, Invariance, PTL DEF Spec, ImplementsOneShotPost, OneShot!Spec

\* What is spent stays spent, and a recorded verdict is never another.
SpentForGood ==
    [][/\ Stage = "spent" => Stage' = "spent"
       /\ journal \in Verdict => journal' = journal]_vars

\* What follows from the refinement: no turn of the loop, signal, watchdog or
\* drain tries a second time what was sent or given up, and no receipt that comes
\* later changes the verdict in the journal.
THEOREM StaysSpent == Spec => SpentForGood
<1>1. IInv /\ [Next]_vars => /\ Stage = "spent" => Stage' = "spent"
                             /\ journal \in Verdict => journal' = journal
  <2> SUFFICES ASSUME [OneShot!Next]_(OneShot!vars)
               PROVE  /\ Stage = "spent" => Stage' = "spent"
                      /\ journal \in Verdict => journal' = journal
    BY StepMaps
  <2> DEFINE recorded == IF journal \in Verdict THEN journal ELSE Nothing
  <2>1. /\ Stage = "spent" => Stage' = "spent"
        /\ recorded # Nothing => recorded' = recorded
    BY DEF OneShot!Next, OneShot!vars, OneShot!Arm, OneShot!Send, OneShot!GiveUp,
       OneShot!RecordVerdict
  <2>2. Nothing \notin Verdict  BY DEF Nothing, Verdict
  <2> QED  BY <2>1, <2>2
<1> QED  BY <1>1, Invariance, PTL DEF Spec, SpentForGood
=============================================================================
