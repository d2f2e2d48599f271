------------------------- MODULE RunLifecycleProofs -------------------------
(***************************************************************************)
(* Theorems about RunLifecycle, for any sets of runs and sessions, any     *)
(* assignment of runs to sessions and any bound on approval requests.      *)
(***************************************************************************)
EXTENDS RunLifecycle, TLAPS

-----------------------------------------------------------------------------
(* What the operations on the shared takeover manager return               *)

\* The transitions of HumanTakeoverManager keep its type, and their effect on
\* state and timeout task.
LEMMA TakeoverOps ==
  ASSUME NEW t \in TakeoverType
  PROVE  /\ Requested(t) \in TakeoverType
         /\ HumanControl(t) \in TakeoverType /\ Completed(t) \in TakeoverType
         /\ Cancelled(t) \in TakeoverType /\ Reset(t) \in TakeoverType
         /\ Requested(t).state = "detected" /\ Requested(t).timer = t.timer
         /\ \A r \in Runs : /\ Waiting(t, r) \in TakeoverType
                           /\ Waiting(t, r).state = "waiting_human"
                           /\ Waiting(t, r).timer = r
         /\ HumanControl(t).state = "human_control"
         /\ Completed(t).state = "resuming"
         /\ Cancelled(t).state = "cancelled"
         /\ Reset(t).state = "running"
         /\ HumanControl(t).timer = NoRun /\ Completed(t).timer = NoRun
         /\ Cancelled(t).timer = NoRun /\ Reset(t).timer = NoRun
BY DEF TakeoverType, TakeoverStates, Requested, Waiting, HumanControl,
       Completed, Cancelled, Reset

\* A stored status that an aborting owner changes becomes "cancelled", and is
\* that of the session's checkpoint or of a run with a pending approval there.
LEMMA AbortStoredOps ==
  ASSUME TypeOK, NEW s \in Sessions, NEW f \in AbortStored(s)
  PROVE  /\ f \in [Runs -> {"none", "completed", "error", "cancelled"}]
         /\ \A r \in Runs : f[r] # stored[r] =>
              /\ f[r] = "cancelled"
              /\ checkpoint[s] = r \/ \E q \in PendingOf(s) : q[1] = r
<1> DEFINE after == IF checkpoint[s] = NoRun THEN stored
                    ELSE StoredWith(checkpoint[s], "cancelled")
           popped == {q[1] : q \in PendingOf(s)}
<1>1. /\ after \in [Runs -> {"none", "completed", "error", "cancelled"}]
      /\ \A r \in Runs : after[r] # stored[r] =>
           after[r] = "cancelled" /\ checkpoint[s] = r
  BY NoRunAssumption DEF TypeOK, StoredWith
<1>2. popped \subseteq Runs
  BY DEF TypeOK, PendingOf, Requests
<1>3. f = after \/ \E r \in popped : f = [after EXCEPT ![r] = "cancelled"]
  BY DEF AbortStored
<1>4. CASE f = after
  BY <1>1, <1>4
<1>5. ASSUME NEW r \in popped, f = [after EXCEPT ![r] = "cancelled"]
      PROVE  /\ f \in [Runs -> {"none", "completed", "error", "cancelled"}]
             /\ \A o \in Runs : f[o] # stored[o] =>
                  /\ f[o] = "cancelled"
                  /\ checkpoint[s] = o \/ \E q \in PendingOf(s) : q[1] = o
  BY <1>1, <1>2, <1>5
<1> HIDE DEF after, popped
<1> QED BY <1>3, <1>4, <1>5

-----------------------------------------------------------------------------
(* Type correctness                                                        *)

LEMMA InitTypeOK == Init => TypeOK
<1> SUFFICES ASSUME Init PROVE TypeOK
  OBVIOUS
<1>1. takeover \in TakeoverType
  BY DEF Init, TakeoverType, TakeoverStates
<1>2. phase \in [Runs -> Phases] /\ outcome \in [Runs -> Outcomes]
  BY DEF Init, Phases, Outcomes
<1>3. asked \in [Runs -> 0..MaxAsks]
  BY RunLifecycleAssumption DEF Init
<1>4. approved \in [Runs -> Requests \cup {NoRequest}] /\ pending \in SUBSET Requests
  BY DEF Init
<1> QED BY <1>1, <1>2, <1>3, <1>4 DEF Init, TypeOK

\* Every step keeps the type invariant.
LEMMA NextTypeOK == TypeOK /\ [Next]_vars => TypeOK'
<1> SUFFICES ASSUME TypeOK, [Next]_vars PROVE TypeOK'
  OBVIOUS
<1> USE NoRunAssumption, RunLifecycleAssumption
    DEF TypeOK, Phases, Outcomes, agentVars, pauseVars, approvalVars, slotVars, storeVars
<1>1. ASSUME NEW r \in Runs, Post(r) PROVE TypeOK'
  BY <1>1 DEF Post
<1>2. ASSUME NEW r \in Runs, Refuse(r) PROVE TypeOK'
  BY <1>2 DEF Refuse
<1>3. ASSUME NEW r \in Runs, Register(r) PROVE TypeOK'
  BY <1>3 DEF Register
<1>4. ASSUME NEW r \in Runs, Start(r) PROVE TypeOK'
  BY <1>4 DEF Start
<1>5. ASSUME NEW r \in Runs, StartFails(r) PROVE TypeOK'
  BY <1>5 DEF StartFails, RegistryWithout
<1>6. ASSUME NEW r \in Runs, Finish(r) PROVE TypeOK'
  BY <1>6, TakeoverOps DEF Finish, RegistryWithout, Mark, CheckpointCleared, StoredWith, StoredStatus
<1>7. ASSUME NEW r \in Runs,
           NEW o \in {"completed", "error", "site_unavailable", "deferred"},
           AgentEnds(r, o)
      PROVE  TypeOK'
  BY <1>7 DEF AgentEnds
<1>8. ASSUME NEW r \in Runs, ToolRequestsTakeover(r) PROVE TypeOK'
  BY <1>8, TakeoverOps DEF ToolRequestsTakeover
<1>9. ASSUME NEW r \in Runs, AutofillClears(r) PROVE TypeOK'
  BY <1>9, TakeoverOps DEF AutofillClears
<1>10. ASSUME NEW r \in Runs, Pause(r) PROVE TypeOK'
  BY <1>10, TakeoverOps DEF Pause
<1>11. ASSUME NEW r \in Runs, Offer(r) PROVE TypeOK'
  BY <1>11 DEF Offer
<1>12. ASSUME NEW r \in Runs, Deliver(r) PROVE TypeOK'
  BY <1>12 DEF Deliver, Mark
<1>13. ASSUME NEW r \in Runs, HookResumes(r) PROVE TypeOK'
  BY <1>13 DEF HookResumes
<1>14. ASSUME NEW r \in Runs, HookCancels(r) PROVE TypeOK'
  BY <1>14 DEF HookCancels
<1>15. ASSUME NEW r \in Runs, AutoApprove(r) PROVE TypeOK'
  BY <1>15 DEF AutoApprove
<1>16. ASSUME NEW r \in Runs, AskApproval(r) PROVE TypeOK'
  BY <1>16 DEF AskApproval, Mark, Requests
<1>17. ASSUME NEW r \in Runs, ApprovalWakes(r) PROVE TypeOK'
  BY <1>17 DEF ApprovalWakes, Mark, Consumed, FreshApproval, Requests
<1>18. ASSUME NEW r \in Runs, AbortRun(r) PROVE TypeOK'
  BY <1>18, TakeoverOps, AbortStoredOps DEF AbortRun, RegistryWithout, Mark, CheckpointCleared
<1>19. ASSUME NEW s \in Sessions, ResumeTakeover(s) PROVE TypeOK'
  BY <1>19, TakeoverOps DEF ResumeTakeover, Mark, Addressed
<1>20. ASSUME NEW s \in Sessions, CancelTakeover(s) PROVE TypeOK'
  BY <1>20, TakeoverOps DEF CancelTakeover, RegistryWithout, Mark, CheckpointCleared, CancelWaking, StoredWith, Addressed
<1>21. ASSUME NEW s \in Sessions, DeleteSession(s) PROVE TypeOK'
  BY <1>21 DEF DeleteSession
<1>22. ASSUME NEW s \in Sessions, NEW q \in Requests, Approve(s, q) PROVE TypeOK'
  BY <1>22 DEF Approve
<1>23. ASSUME EnterHumanControl PROVE TypeOK'
  BY <1>23, TakeoverOps DEF EnterHumanControl
<1>24. ASSUME Timeout PROVE TypeOK'
  BY <1>24, TakeoverOps DEF Timeout, CancelWaking, TimeoutDue
<1>25. ASSUME BrowserLost PROVE TypeOK'
  BY <1>25, TakeoverOps DEF BrowserLost
<1>26. ASSUME Shutdown PROVE TypeOK'
  BY <1>26 DEF Shutdown
<1>27. CASE UNCHANGED vars
  BY <1>27 DEF vars
<1> HIDE NoRunAssumption, RunLifecycleAssumption
         DEF TypeOK, Phases, Outcomes, agentVars, pauseVars, approvalVars, slotVars, storeVars
<1>28. ASSUME NEW r \in Runs, RunStep(r) PROVE TypeOK'
  BY <1>28, <1>2, <1>3, <1>4, <1>5, <1>6, <1>7, <1>8, <1>9, <1>10, <1>11, <1>12, <1>13,
     <1>14, <1>15, <1>16, <1>17, <1>18 DEF RunStep
<1>29. CASE UserStep
  BY <1>29, <1>1, <1>19, <1>20, <1>21, <1>22, <1>23 DEF UserStep
<1> QED
  BY <1>24, <1>25, <1>26, <1>27, <1>28, <1>29 DEF Next

\* Type correctness: the invariant of the runs, for every instance.
THEOREM TypeCorrect == Spec => []TypeOK
BY InitTypeOK, NextTypeOK, PTL DEF Spec

-----------------------------------------------------------------------------
(* The inductive invariant.  One step per action, and under it one step per *)
(* conjunct whose variables the action writes.                             *)

LEMMA InitIInv == Init => IInv
BY InitTypeOK, NoRunAssumption, RunLifecycleAssumption
   DEF Init, IInv, RegisteredIsLive, UnregisteredWasCancelled, Live,
       CheckpointIsStarted, TimerIsStarted, TimeoutIsSound,
       ApprovalIsAnswerable, AnswerIsCurrent, UnstartedHasNoOutcome,
       OutcomeIsStored, SuspendedIsRecorded

LEMMA NextIInv == IInv /\ [Next]_vars => IInv'
<1> SUFFICES ASSUME IInv, [Next]_vars PROVE IInv'
  OBVIOUS
<1> USE NoRunAssumption, RunLifecycleAssumption
    DEF IInv, TypeOK, agentVars, pauseVars, approvalVars, slotVars, storeVars
<1>t. TypeOK'
  BY NextTypeOK
<1>1. ASSUME NEW r \in Runs, Post(r) PROVE IInv'
  <2>1. RegisteredIsLive'
    BY <1>1 DEF Post, RegisteredIsLive, Live
  <2>2. UnregisteredWasCancelled'
    BY <1>1
       DEF Post, UnregisteredWasCancelled, RegisteredIsLive, Registered,
          Live
  <2>3. CheckpointIsStarted'
    BY <1>1 DEF Post, CheckpointIsStarted, Started, RegisteredIsLive, Live
  <2>4. TimerIsStarted'
    BY <1>1 DEF Post, TimerIsStarted, Started, TimeoutIsSound
  <2>5. TimeoutIsSound'
    BY <1>1
       DEF Post, TimeoutIsSound, Live, Started, CheckpointIsStarted,
          TimerIsStarted, TimeoutDue, CanRequest
  <2>6. ApprovalIsAnswerable'
    BY <1>1, <1>t DEF Post, ApprovalIsAnswerable, Requests
  <2>7. AnswerIsCurrent'
    BY <1>1, <1>t
       DEF Post, AnswerIsCurrent, Undisturbed, ApprovalIsAnswerable,
          RegisteredIsLive, UnregisteredWasCancelled, Registered, Live,
          PendingOf, Requests, NoRequest
  <2>8. UnstartedHasNoOutcome'
    BY <1>1 DEF Post, UnstartedHasNoOutcome, Started
  <2>9. OutcomeIsStored'
    BY <1>1
       DEF Post, OutcomeIsStored, CheckpointIsStarted, Started,
          UnstartedHasNoOutcome, ApprovalIsAnswerable
  <2>10. SuspendedIsRecorded'
    BY <1>1, <1>t
       DEF Post, SuspendedIsRecorded, Undisturbed, RegisteredIsLive,
          UnregisteredWasCancelled, Registered, Live, CheckpointIsStarted,
          Started
  <2> QED
    BY <1>1, <1>t, <2>1, <2>2, <2>3, <2>4, <2>5, <2>6, <2>7, <2>8, <2>9,
      <2>10
       DEF Post
<1>2. ASSUME NEW r \in Runs, Refuse(r) PROVE IInv'
  <2>1. RegisteredIsLive'
    BY <1>2 DEF Refuse, RegisteredIsLive, Live
  <2>2. UnregisteredWasCancelled'
    BY <1>2
       DEF Refuse, UnregisteredWasCancelled, RegisteredIsLive, Registered,
          Live
  <2>3. CheckpointIsStarted'
    BY <1>2 DEF Refuse, CheckpointIsStarted, Started, RegisteredIsLive, Live
  <2>4. TimerIsStarted'
    BY <1>2 DEF Refuse, TimerIsStarted, Started, TimeoutIsSound
  <2>5. TimeoutIsSound'
    BY <1>2
       DEF Refuse, TimeoutIsSound, Live, Started, CheckpointIsStarted,
          TimerIsStarted, TimeoutDue, CanRequest
  <2>6. ApprovalIsAnswerable'
    BY <1>2, <1>t DEF Refuse, ApprovalIsAnswerable, Requests
  <2>7. AnswerIsCurrent'
    BY <1>2, <1>t
       DEF Refuse, AnswerIsCurrent, Undisturbed, ApprovalIsAnswerable,
          RegisteredIsLive, UnregisteredWasCancelled, Registered, Live,
          PendingOf, Requests, NoRequest
  <2>8. UnstartedHasNoOutcome'
    BY <1>2 DEF Refuse, UnstartedHasNoOutcome, Started
  <2>9. OutcomeIsStored'
    BY <1>2
       DEF Refuse, OutcomeIsStored, CheckpointIsStarted, Started,
          UnstartedHasNoOutcome, ApprovalIsAnswerable
  <2>10. SuspendedIsRecorded'
    BY <1>2, <1>t
       DEF Refuse, SuspendedIsRecorded, Undisturbed, RegisteredIsLive,
          UnregisteredWasCancelled, Registered, Live, CheckpointIsStarted,
          Started
  <2> QED
    BY <1>2, <1>t, <2>1, <2>2, <2>3, <2>4, <2>5, <2>6, <2>7, <2>8, <2>9,
      <2>10
       DEF Refuse
<1>3. ASSUME NEW r \in Runs, Register(r) PROVE IInv'
  <2>1. RegisteredIsLive'
    BY <1>3 DEF Register, SlotFree, RegisteredIsLive, Live
  <2>2. UnregisteredWasCancelled'
    BY <1>3
       DEF Register, SlotFree, UnregisteredWasCancelled, RegisteredIsLive,
          Registered, Live
  <2>3. CheckpointIsStarted'
    BY <1>3
       DEF Register, SlotFree, CheckpointIsStarted, Started,
          RegisteredIsLive, Live
  <2>4. TimerIsStarted'
    BY <1>3 DEF Register, SlotFree, TimerIsStarted, Started, TimeoutIsSound
  <2>5. TimeoutIsSound'
    BY <1>3
       DEF Register, SlotFree, TimeoutIsSound, Live, Started,
          CheckpointIsStarted, TimerIsStarted, TimeoutDue, CanRequest
  <2>6. ApprovalIsAnswerable'
    BY <1>3, <1>t DEF Register, SlotFree, ApprovalIsAnswerable, Requests
  <2>7. AnswerIsCurrent'
    BY <1>3, <1>t
       DEF Register, SlotFree, AnswerIsCurrent, Undisturbed,
          ApprovalIsAnswerable, RegisteredIsLive, UnregisteredWasCancelled,
          Registered, Live, PendingOf, Requests, NoRequest
  <2>8. UnstartedHasNoOutcome'
    BY <1>3 DEF Register, SlotFree, UnstartedHasNoOutcome, Started
  <2>9. OutcomeIsStored'
    BY <1>3
       DEF Register, SlotFree, OutcomeIsStored, CheckpointIsStarted,
          Started, UnstartedHasNoOutcome, ApprovalIsAnswerable
  <2>10. SuspendedIsRecorded'
    BY <1>3, <1>t
       DEF Register, SlotFree, SuspendedIsRecorded, Undisturbed,
          RegisteredIsLive, UnregisteredWasCancelled, Registered, Live,
          CheckpointIsStarted, Started
  <2> QED
    BY <1>3, <1>t, <2>1, <2>2, <2>3, <2>4, <2>5, <2>6, <2>7, <2>8, <2>9,
      <2>10
       DEF Register
<1>4. ASSUME NEW r \in Runs, Start(r) PROVE IInv'
  <2>1. RegisteredIsLive'
    BY <1>4 DEF Start, RegisteredIsLive, Live
  <2>2. UnregisteredWasCancelled'
    BY <1>4
       DEF Start, UnregisteredWasCancelled, RegisteredIsLive, Registered,
          Live
  <2>3. CheckpointIsStarted'
    BY <1>4 DEF Start, CheckpointIsStarted, Started, RegisteredIsLive, Live
  <2>4. TimerIsStarted'
    BY <1>4 DEF Start, TimerIsStarted, Started, TimeoutIsSound
  <2>5. TimeoutIsSound'
    BY <1>4
       DEF Start, TimeoutIsSound, Live, Started, CheckpointIsStarted,
          TimerIsStarted, TimeoutDue, CanRequest
  <2>6. ApprovalIsAnswerable'
    BY <1>4, <1>t DEF Start, ApprovalIsAnswerable, Requests
  <2>7. AnswerIsCurrent'
    BY <1>4, <1>t
       DEF Start, AnswerIsCurrent, Undisturbed, ApprovalIsAnswerable,
          RegisteredIsLive, UnregisteredWasCancelled, Registered, Live,
          PendingOf, Requests, NoRequest
  <2>8. UnstartedHasNoOutcome'
    BY <1>4 DEF Start, UnstartedHasNoOutcome, Started
  <2>9. OutcomeIsStored'
    BY <1>4
       DEF Start, OutcomeIsStored, CheckpointIsStarted, Started,
          UnstartedHasNoOutcome, ApprovalIsAnswerable
  <2>10. SuspendedIsRecorded'
    BY <1>4, <1>t
       DEF Start, SuspendedIsRecorded, Undisturbed, RegisteredIsLive,
          UnregisteredWasCancelled, Registered, Live, CheckpointIsStarted,
          Started
  <2> QED
    BY <1>4, <1>t, <2>1, <2>2, <2>3, <2>4, <2>5, <2>6, <2>7, <2>8, <2>9,
      <2>10
       DEF Start
<1>5. ASSUME NEW r \in Runs, StartFails(r) PROVE IInv'
  <2>1. RegisteredIsLive'
    BY <1>5 DEF StartFails, RegistryWithout, RegisteredIsLive, Live
  <2>2. UnregisteredWasCancelled'
    BY <1>5
       DEF StartFails, RegistryWithout, UnregisteredWasCancelled,
          RegisteredIsLive, Registered, Live
  <2>3. CheckpointIsStarted'
    BY <1>5
       DEF StartFails, RegistryWithout, CheckpointIsStarted, Started,
          RegisteredIsLive, Live
  <2>4. TimerIsStarted'
    BY <1>5
       DEF StartFails, RegistryWithout, TimerIsStarted, Started,
          TimeoutIsSound
  <2>5. TimeoutIsSound'
    BY <1>5
       DEF StartFails, RegistryWithout, TimeoutIsSound, Live, Started,
          CheckpointIsStarted, TimerIsStarted, TimeoutDue, CanRequest
  <2>6. ApprovalIsAnswerable'
    BY <1>5, <1>t
       DEF StartFails, RegistryWithout, ApprovalIsAnswerable, Requests
  <2>7. AnswerIsCurrent'
    BY <1>5, <1>t
       DEF StartFails, RegistryWithout, AnswerIsCurrent, Undisturbed,
          ApprovalIsAnswerable, RegisteredIsLive, UnregisteredWasCancelled,
          Registered, Live, PendingOf, Requests, NoRequest
  <2>8. UnstartedHasNoOutcome'
    BY <1>5 DEF StartFails, RegistryWithout, UnstartedHasNoOutcome, Started
  <2>9. OutcomeIsStored'
    BY <1>5
       DEF StartFails, RegistryWithout, OutcomeIsStored,
          CheckpointIsStarted, Started, UnstartedHasNoOutcome,
          ApprovalIsAnswerable
  <2>10. SuspendedIsRecorded'
    BY <1>5, <1>t
       DEF StartFails, RegistryWithout, SuspendedIsRecorded, Undisturbed,
          RegisteredIsLive, UnregisteredWasCancelled, Registered, Live,
          CheckpointIsStarted, Started
  <2> QED
    BY <1>5, <1>t, <2>1, <2>2, <2>3, <2>4, <2>5, <2>6, <2>7, <2>8, <2>9,
      <2>10
       DEF StartFails
<1>6. ASSUME NEW r \in Runs, Finish(r) PROVE IInv'
  <2>1. RegisteredIsLive'
    BY <1>6
       DEF Finish, RegistryWithout, Mark, CheckpointCleared, StoredWith,
          StoredStatus, ShouldPersist, RegisteredIsLive, Live
  <2>2. UnregisteredWasCancelled'
    BY <1>6
       DEF Finish, RegistryWithout, Mark, CheckpointCleared, StoredWith,
          StoredStatus, ShouldPersist, UnregisteredWasCancelled,
          RegisteredIsLive, Registered, Live
  <2>3. CheckpointIsStarted'
    BY <1>6
       DEF Finish, RegistryWithout, Mark, CheckpointCleared, StoredWith,
          StoredStatus, ShouldPersist, CheckpointIsStarted, Started,
          RegisteredIsLive, Live
  <2>4. TimerIsStarted'
    BY <1>6, TakeoverOps
       DEF Finish, RegistryWithout, Mark, CheckpointCleared, StoredWith,
          StoredStatus, ShouldPersist, TimerIsStarted, Started,
          TimeoutIsSound
  <2>5. TimeoutIsSound'
    BY <1>6, TakeoverOps
       DEF Finish, RegistryWithout, Mark, CheckpointCleared, StoredWith,
          StoredStatus, ShouldPersist, TimeoutIsSound, Live, Started,
          CheckpointIsStarted, TimerIsStarted, TimeoutDue, CanRequest
  <2>6. ApprovalIsAnswerable'
    BY <1>6, <1>t
       DEF Finish, RegistryWithout, Mark, CheckpointCleared, StoredWith,
          StoredStatus, ShouldPersist, ApprovalIsAnswerable, Requests
  <2>7. AnswerIsCurrent'
    BY <1>6, <1>t
       DEF Finish, RegistryWithout, Mark, CheckpointCleared, StoredWith,
          StoredStatus, ShouldPersist, AnswerIsCurrent, Undisturbed,
          ApprovalIsAnswerable, RegisteredIsLive, UnregisteredWasCancelled,
          Registered, Live, PendingOf, Requests, NoRequest
  <2>8. UnstartedHasNoOutcome'
    BY <1>6
       DEF Finish, RegistryWithout, Mark, CheckpointCleared, StoredWith,
          StoredStatus, ShouldPersist, UnstartedHasNoOutcome, Started
  <2>9. OutcomeIsStored'
    BY <1>6
       DEF Finish, RegistryWithout, Mark, CheckpointCleared, StoredWith,
          StoredStatus, ShouldPersist, OutcomeIsStored, CheckpointIsStarted,
          Started, UnstartedHasNoOutcome, ApprovalIsAnswerable
  <2>10. SuspendedIsRecorded'
    BY <1>6, <1>t
       DEF Finish, RegistryWithout, Mark, CheckpointCleared, StoredWith,
          StoredStatus, ShouldPersist, SuspendedIsRecorded, Undisturbed,
          RegisteredIsLive, UnregisteredWasCancelled, Registered, Live,
          CheckpointIsStarted, Started
  <2> QED
    BY <1>6, <1>t, <2>1, <2>2, <2>3, <2>4, <2>5, <2>6, <2>7, <2>8, <2>9,
      <2>10
       DEF Finish
<1>7. ASSUME NEW r \in Runs,
           NEW o \in {"completed", "error", "site_unavailable", "deferred"},
           AgentEnds(r, o)
      PROVE  IInv'
  <2>1. RegisteredIsLive'
    BY <1>7 DEF AgentEnds, Executing, RegisteredIsLive, Live
  <2>2. UnregisteredWasCancelled'
    BY <1>7
       DEF AgentEnds, Executing, UnregisteredWasCancelled, RegisteredIsLive,
          Registered, Live
  <2>3. CheckpointIsStarted'
    BY <1>7
       DEF AgentEnds, Executing, CheckpointIsStarted, Started,
          RegisteredIsLive, Live
  <2>4. TimerIsStarted'
    BY <1>7 DEF AgentEnds, Executing, TimerIsStarted, Started, TimeoutIsSound
  <2>5. TimeoutIsSound'
    BY <1>7
       DEF AgentEnds, Executing, TimeoutIsSound, Live, Started,
          CheckpointIsStarted, TimerIsStarted, TimeoutDue, CanRequest
  <2>6. ApprovalIsAnswerable'
    BY <1>7, <1>t DEF AgentEnds, Executing, ApprovalIsAnswerable, Requests
  <2>7. AnswerIsCurrent'
    BY <1>7, <1>t
       DEF AgentEnds, Executing, AnswerIsCurrent, Undisturbed,
          ApprovalIsAnswerable, RegisteredIsLive, UnregisteredWasCancelled,
          Registered, Live, PendingOf, Requests, NoRequest
  <2>8. UnstartedHasNoOutcome'
    BY <1>7 DEF AgentEnds, Executing, UnstartedHasNoOutcome, Started
  <2>9. OutcomeIsStored'
    BY <1>7
       DEF AgentEnds, Executing, OutcomeIsStored, CheckpointIsStarted,
          Started, UnstartedHasNoOutcome, ApprovalIsAnswerable
  <2>10. SuspendedIsRecorded'
    BY <1>7, <1>t
       DEF AgentEnds, Executing, SuspendedIsRecorded, Undisturbed,
          RegisteredIsLive, UnregisteredWasCancelled, Registered, Live,
          CheckpointIsStarted, Started
  <2> QED
    BY <1>7, <1>t, <2>1, <2>2, <2>3, <2>4, <2>5, <2>6, <2>7, <2>8, <2>9,
      <2>10
       DEF AgentEnds
<1>8. ASSUME NEW r \in Runs, ToolRequestsTakeover(r) PROVE IInv'
  <2>4. TimerIsStarted'
    BY <1>8, TakeoverOps
       DEF ToolRequestsTakeover, Executing, CanRequest, TimerIsStarted,
          Started, TimeoutIsSound
  <2>5. TimeoutIsSound'
    BY <1>8, TakeoverOps
       DEF ToolRequestsTakeover, Executing, CanRequest, TimeoutIsSound,
          Live, Started, CheckpointIsStarted, TimerIsStarted, TimeoutDue
  <2> QED
    BY <1>8, <1>t, <2>4, <2>5
       DEF ToolRequestsTakeover, RegisteredIsLive, Live,
          UnregisteredWasCancelled, Registered, CheckpointIsStarted,
          Started, ApprovalIsAnswerable, AnswerIsCurrent, Undisturbed,
          UnstartedHasNoOutcome, OutcomeIsStored, SuspendedIsRecorded
<1>9. ASSUME NEW r \in Runs, AutofillClears(r) PROVE IInv'
  <2>4. TimerIsStarted'
    BY <1>9, TakeoverOps
       DEF AutofillClears, Executing, TimerIsStarted, Started,
          TimeoutIsSound
  <2>5. TimeoutIsSound'
    BY <1>9, TakeoverOps
       DEF AutofillClears, Executing, TimeoutIsSound, Live, Started,
          CheckpointIsStarted, TimerIsStarted, TimeoutDue, CanRequest
  <2> QED
    BY <1>9, <1>t, <2>4, <2>5
       DEF AutofillClears, RegisteredIsLive, Live, UnregisteredWasCancelled,
          Registered, CheckpointIsStarted, Started, ApprovalIsAnswerable,
          AnswerIsCurrent, Undisturbed, UnstartedHasNoOutcome,
          OutcomeIsStored, SuspendedIsRecorded
<1>10. ASSUME NEW r \in Runs, Pause(r) PROVE IInv'
  <2>0. takeover'.timer = r /\ takeover'.state = "waiting_human"
    <3>1. takeover \in TakeoverType /\ takeover' = Waiting(takeover, r)
      BY <1>10 DEF Pause
    <3> QED BY <3>1, TakeoverOps
  <2>3. CheckpointIsStarted'
    BY <1>10
       DEF Pause, Executing, CanRequest, CheckpointIsStarted, Started,
          RegisteredIsLive, Live
  <2>4. TimerIsStarted'
    BY <1>10, <2>0
       DEF Pause, Executing, CanRequest, TimerIsStarted, Started,
          TimeoutIsSound
  <2>5. TimeoutIsSound'
    BY <1>10, <2>0
       DEF Pause, Executing, CanRequest, TimeoutIsSound, Live, Started,
          CheckpointIsStarted, TimerIsStarted, TimeoutDue
  <2>10. SuspendedIsRecorded'
    BY <1>10, <1>t
       DEF Pause, Executing, CanRequest, SuspendedIsRecorded, Undisturbed,
          RegisteredIsLive, UnregisteredWasCancelled, Registered, Live,
          CheckpointIsStarted, Started
  <2> QED
    BY <1>10, <1>t, <2>3, <2>4, <2>5, <2>10
       DEF Pause, RegisteredIsLive, Live, UnregisteredWasCancelled,
          Registered, ApprovalIsAnswerable, AnswerIsCurrent, Undisturbed,
          UnstartedHasNoOutcome, Started, OutcomeIsStored
<1>11. ASSUME NEW r \in Runs, Offer(r) PROVE IInv'
  <2>10. SuspendedIsRecorded'
    BY <1>11, <1>t
       DEF Offer, SuspendedIsRecorded, Undisturbed, RegisteredIsLive,
          UnregisteredWasCancelled, Registered, Live, CheckpointIsStarted,
          Started
  <2> QED
    BY <1>11, <1>t, <2>10
       DEF Offer, RegisteredIsLive, Live, UnregisteredWasCancelled,
          Registered, CheckpointIsStarted, Started, TimerIsStarted,
          TimeoutIsSound, ApprovalIsAnswerable, AnswerIsCurrent,
          Undisturbed, UnstartedHasNoOutcome, OutcomeIsStored
<1>12. ASSUME NEW r \in Runs, Deliver(r) PROVE IInv'
  <2> QED
    BY <1>12, <1>t
       DEF Deliver, RegisteredIsLive, Live, UnregisteredWasCancelled,
          Registered, CheckpointIsStarted, Started, TimerIsStarted,
          TimeoutIsSound, ApprovalIsAnswerable, AnswerIsCurrent,
          Undisturbed, UnstartedHasNoOutcome, OutcomeIsStored,
          SuspendedIsRecorded
<1>13. ASSUME NEW r \in Runs, HookResumes(r) PROVE IInv'
  <2>10. SuspendedIsRecorded'
    BY <1>13, <1>t
       DEF HookResumes, SuspendedIsRecorded, Undisturbed, RegisteredIsLive,
          UnregisteredWasCancelled, Registered, Live, CheckpointIsStarted,
          Started
  <2> QED
    BY <1>13, <1>t, <2>10
       DEF HookResumes, RegisteredIsLive, Live, UnregisteredWasCancelled,
          Registered, CheckpointIsStarted, Started, TimerIsStarted,
          TimeoutIsSound, ApprovalIsAnswerable, AnswerIsCurrent,
          Undisturbed, UnstartedHasNoOutcome, OutcomeIsStored
<1>14. ASSUME NEW r \in Runs, HookCancels(r) PROVE IInv'
  <2>0. phase[r] = "running"
    BY <1>14 DEF HookCancels, SuspendedIsRecorded
  <2>1. RegisteredIsLive'
    BY <1>14 DEF HookCancels, RegisteredIsLive, Live
  <2>2. UnregisteredWasCancelled'
    BY <1>14
       DEF HookCancels, UnregisteredWasCancelled, RegisteredIsLive,
          Registered, Live
  <2>3. CheckpointIsStarted'
    BY <1>14
       DEF HookCancels, CheckpointIsStarted, Started, RegisteredIsLive, Live
  <2>4. TimerIsStarted'
    BY <1>14 DEF HookCancels, TimerIsStarted, Started, TimeoutIsSound
  <2>5. TimeoutIsSound'
    BY <1>14
       DEF HookCancels, TimeoutIsSound, Live, Started, CheckpointIsStarted,
          TimerIsStarted, TimeoutDue, CanRequest
  <2>6. ApprovalIsAnswerable'
    BY <1>14, <1>t, <2>0 DEF HookCancels, ApprovalIsAnswerable, Requests
  <2>7. AnswerIsCurrent'
    BY <1>14, <1>t, <2>0
       DEF HookCancels, AnswerIsCurrent, Undisturbed, ApprovalIsAnswerable,
          RegisteredIsLive, UnregisteredWasCancelled, Registered, Live,
          PendingOf, Requests, NoRequest
  <2>8. UnstartedHasNoOutcome'
    BY <1>14 DEF HookCancels, UnstartedHasNoOutcome, Started
  <2>9. OutcomeIsStored'
    BY <1>14
       DEF HookCancels, OutcomeIsStored, CheckpointIsStarted, Started,
          UnstartedHasNoOutcome, ApprovalIsAnswerable
  <2>10. SuspendedIsRecorded'
    BY <1>14, <1>t
       DEF HookCancels, SuspendedIsRecorded, Undisturbed, RegisteredIsLive,
          UnregisteredWasCancelled, Registered, Live, CheckpointIsStarted,
          Started
  <2> QED
    BY <1>14, <1>t, <2>1, <2>2, <2>3, <2>4, <2>5, <2>6, <2>7, <2>8, <2>9,
      <2>10
       DEF HookCancels
<1>15. ASSUME NEW r \in Runs, AutoApprove(r) PROVE IInv'
  <2>1. RegisteredIsLive'
    BY <1>15 DEF AutoApprove, RegisteredIsLive, Live
  <2>2. UnregisteredWasCancelled'
    BY <1>15
       DEF AutoApprove, UnregisteredWasCancelled, RegisteredIsLive,
          Registered, Live
  <2>3. CheckpointIsStarted'
    BY <1>15
       DEF AutoApprove, CheckpointIsStarted, Started, RegisteredIsLive, Live
  <2>4. TimerIsStarted'
    BY <1>15 DEF AutoApprove, TimerIsStarted, Started, TimeoutIsSound
  <2>5. TimeoutIsSound'
    BY <1>15
       DEF AutoApprove, TimeoutIsSound, Live, Started, CheckpointIsStarted,
          TimerIsStarted, TimeoutDue, CanRequest
  <2>6. ApprovalIsAnswerable'
    BY <1>15, <1>t DEF AutoApprove, ApprovalIsAnswerable, Requests
  <2>7. AnswerIsCurrent'
    BY <1>15, <1>t
       DEF AutoApprove, AnswerIsCurrent, Undisturbed, ApprovalIsAnswerable,
          RegisteredIsLive, UnregisteredWasCancelled, Registered, Live,
          PendingOf, Requests, NoRequest
  <2>8. UnstartedHasNoOutcome'
    BY <1>15 DEF AutoApprove, UnstartedHasNoOutcome, Started
  <2>9. OutcomeIsStored'
    BY <1>15
       DEF AutoApprove, OutcomeIsStored, CheckpointIsStarted, Started,
          UnstartedHasNoOutcome, ApprovalIsAnswerable
  <2>10. SuspendedIsRecorded'
    BY <1>15, <1>t
       DEF AutoApprove, SuspendedIsRecorded, Undisturbed, RegisteredIsLive,
          UnregisteredWasCancelled, Registered, Live, CheckpointIsStarted,
          Started
  <2> QED
    BY <1>15, <1>t, <2>1, <2>2, <2>3, <2>4, <2>5, <2>6, <2>7, <2>8, <2>9,
      <2>10
       DEF AutoApprove
<1>16. ASSUME NEW r \in Runs, AskApproval(r) PROVE IInv'
  <2>1. RegisteredIsLive'
    BY <1>16 DEF AskApproval, Mark, Requests, RegisteredIsLive, Live
  <2>2. UnregisteredWasCancelled'
    BY <1>16
       DEF AskApproval, Mark, Requests, UnregisteredWasCancelled,
          RegisteredIsLive, Registered, Live
  <2>3. CheckpointIsStarted'
    BY <1>16
       DEF AskApproval, Mark, Requests, CheckpointIsStarted, Started,
          RegisteredIsLive, Live
  <2>4. TimerIsStarted'
    BY <1>16
       DEF AskApproval, Mark, Requests, TimerIsStarted, Started,
          TimeoutIsSound
  <2>5. TimeoutIsSound'
    BY <1>16
       DEF AskApproval, Mark, Requests, TimeoutIsSound, Live, Started,
          CheckpointIsStarted, TimerIsStarted, TimeoutDue, CanRequest
  <2>6. ApprovalIsAnswerable'
    BY <1>16, <1>t DEF AskApproval, Mark, Requests, ApprovalIsAnswerable
  <2>7. AnswerIsCurrent'
    BY <1>16, <1>t
       DEF AskApproval, Mark, Requests, AnswerIsCurrent, Undisturbed,
          ApprovalIsAnswerable, RegisteredIsLive, UnregisteredWasCancelled,
          Registered, Live, PendingOf, NoRequest
  <2>8. UnstartedHasNoOutcome'
    BY <1>16 DEF AskApproval, Mark, Requests, UnstartedHasNoOutcome, Started
  <2>9. OutcomeIsStored'
    BY <1>16
       DEF AskApproval, Mark, Requests, OutcomeIsStored,
          CheckpointIsStarted, Started, UnstartedHasNoOutcome,
          ApprovalIsAnswerable
  <2>10. SuspendedIsRecorded'
    <3> SUFFICES ASSUME NEW o \in Runs
                 PROVE  /\ hook'[o] # "idle" => phase'[o] = "running"
                        /\ hook'[o] # "idle" /\ ~cancelled'[o] /\ Undisturbed(o)' =>
                             checkpoint'[SessionOf[o]] = o
                        /\ phase'[o] = "approval" /\ ~cancelled'[o] /\ Undisturbed(o)' =>
                             <<o, asked'[o]>> \in pending'
      BY DEF SuspendedIsRecorded
    <3>1. CASE o = r
      <4>1. asked'[r] = asked[r] + 1 /\ pending' = pending \cup {<<r, asked[r] + 1>>}
        BY <1>16 DEF AskApproval
      <4>2. hook'[r] = "idle"
        BY <1>16 DEF AskApproval, SuspendedIsRecorded
      <4> QED BY <3>1, <4>1, <4>2
    <3>2. CASE o # r
      BY <1>16, <3>2 DEF AskApproval, SuspendedIsRecorded, Undisturbed
    <3> QED BY <3>1, <3>2
  <2> QED
    BY <1>16, <1>t, <2>1, <2>2, <2>3, <2>4, <2>5, <2>6, <2>7, <2>8, <2>9,
      <2>10
       DEF AskApproval
<1>17. ASSUME NEW r \in Runs, ApprovalWakes(r) PROVE IInv'
  <2>1. RegisteredIsLive'
    BY <1>17
       DEF ApprovalWakes, Mark, Consumed, FreshApproval, Requests,
          Signalled, RegisteredIsLive, Live
  <2>2. UnregisteredWasCancelled'
    BY <1>17
       DEF ApprovalWakes, Mark, Consumed, FreshApproval, Requests,
          Signalled, UnregisteredWasCancelled, RegisteredIsLive, Registered,
          Live
  <2>3. CheckpointIsStarted'
    BY <1>17
       DEF ApprovalWakes, Mark, Consumed, FreshApproval, Requests,
          Signalled, CheckpointIsStarted, Started, RegisteredIsLive, Live
  <2>4. TimerIsStarted'
    BY <1>17
       DEF ApprovalWakes, Mark, Consumed, FreshApproval, Requests,
          Signalled, TimerIsStarted, Started, TimeoutIsSound
  <2>5. TimeoutIsSound'
    BY <1>17
       DEF ApprovalWakes, Mark, Consumed, FreshApproval, Requests,
          Signalled, TimeoutIsSound, Live, Started, CheckpointIsStarted,
          TimerIsStarted, TimeoutDue, CanRequest
  <2>6. ApprovalIsAnswerable'
    BY <1>17, <1>t
       DEF ApprovalWakes, Mark, Consumed, FreshApproval, Requests,
          Signalled, ApprovalIsAnswerable
  <2>7. AnswerIsCurrent'
    BY <1>17, <1>t
       DEF ApprovalWakes, Mark, Consumed, FreshApproval, Requests,
          Signalled, AnswerIsCurrent, Undisturbed, ApprovalIsAnswerable,
          RegisteredIsLive, UnregisteredWasCancelled, Registered, Live,
          PendingOf, NoRequest
  <2>8. UnstartedHasNoOutcome'
    BY <1>17
       DEF ApprovalWakes, Mark, Consumed, FreshApproval, Requests,
          Signalled, UnstartedHasNoOutcome, Started
  <2>9. OutcomeIsStored'
    BY <1>17
       DEF ApprovalWakes, Mark, Consumed, FreshApproval, Requests,
          Signalled, OutcomeIsStored, CheckpointIsStarted, Started,
          UnstartedHasNoOutcome, ApprovalIsAnswerable
  <2>10. SuspendedIsRecorded'
    BY <1>17, <1>t
       DEF ApprovalWakes, Mark, Consumed, FreshApproval, Requests,
          Signalled, SuspendedIsRecorded, Undisturbed, RegisteredIsLive,
          UnregisteredWasCancelled, Registered, Live, CheckpointIsStarted,
          Started
  <2> QED
    BY <1>17, <1>t, <2>1, <2>2, <2>3, <2>4, <2>5, <2>6, <2>7, <2>8, <2>9,
      <2>10
       DEF ApprovalWakes
<1>18. ASSUME NEW r \in Runs, AbortRun(r) PROVE IInv'
  <2>1. RegisteredIsLive'
    BY <1>18
       DEF AbortRun, RegistryWithout, Mark, CheckpointCleared, PendingOf,
          RegisteredIsLive, Live
  <2>2. UnregisteredWasCancelled'
    BY <1>18
       DEF AbortRun, RegistryWithout, Mark, CheckpointCleared, PendingOf,
          UnregisteredWasCancelled, RegisteredIsLive, Registered, Live
  <2>3. CheckpointIsStarted'
    BY <1>18
       DEF AbortRun, RegistryWithout, Mark, CheckpointCleared, PendingOf,
          CheckpointIsStarted, Started, RegisteredIsLive, Live
  <2>4. TimerIsStarted'
    BY <1>18, TakeoverOps
       DEF AbortRun, RegistryWithout, Mark, CheckpointCleared, PendingOf,
          TimerIsStarted, Started, TimeoutIsSound
  <2>5. TimeoutIsSound'
    BY <1>18, TakeoverOps
       DEF AbortRun, RegistryWithout, Mark, CheckpointCleared, PendingOf,
          TimeoutIsSound, Live, Started, CheckpointIsStarted,
          TimerIsStarted, TimeoutDue, CanRequest
  <2>6. ApprovalIsAnswerable'
    BY <1>18, <1>t
       DEF AbortRun, RegistryWithout, Mark, CheckpointCleared, PendingOf,
          ApprovalIsAnswerable, Requests
  <2>7. AnswerIsCurrent'
    BY <1>18, <1>t
       DEF AbortRun, RegistryWithout, Mark, CheckpointCleared, PendingOf,
          AnswerIsCurrent, Undisturbed, ApprovalIsAnswerable,
          RegisteredIsLive, UnregisteredWasCancelled, Registered, Live,
          Requests, NoRequest
  <2>8. UnstartedHasNoOutcome'
    BY <1>18
       DEF AbortRun, RegistryWithout, Mark, CheckpointCleared, PendingOf,
          UnstartedHasNoOutcome, Started
  <2>9. OutcomeIsStored'
    BY <1>18, AbortStoredOps
       DEF AbortRun, RegistryWithout, Mark, CheckpointCleared, PendingOf,
          OutcomeIsStored, CheckpointIsStarted, Started,
          UnstartedHasNoOutcome, ApprovalIsAnswerable
  <2>10. SuspendedIsRecorded'
    BY <1>18, <1>t
       DEF AbortRun, RegistryWithout, Mark, CheckpointCleared, PendingOf,
          SuspendedIsRecorded, Undisturbed, RegisteredIsLive,
          UnregisteredWasCancelled, Registered, Live, CheckpointIsStarted,
          Started
  <2> QED
    BY <1>18, <1>t, <2>1, <2>2, <2>3, <2>4, <2>5, <2>6, <2>7, <2>8, <2>9,
      <2>10
       DEF AbortRun
<1>19. ASSUME NEW s \in Sessions, ResumeTakeover(s) PROVE IInv'
  <2>4. TimerIsStarted'
    BY <1>19, TakeoverOps
       DEF ResumeTakeover, Mark, Addressed, TimerIsStarted, Started,
          TimeoutIsSound
  <2>5. TimeoutIsSound'
    BY <1>19, TakeoverOps
       DEF ResumeTakeover, Mark, Addressed, TimeoutIsSound, Live, Started,
          CheckpointIsStarted, TimerIsStarted, TimeoutDue, CanRequest
  <2> QED
    BY <1>19, <1>t, <2>4, <2>5
       DEF ResumeTakeover, RegisteredIsLive, Live, UnregisteredWasCancelled,
          Registered, CheckpointIsStarted, Started, ApprovalIsAnswerable,
          AnswerIsCurrent, Undisturbed, UnstartedHasNoOutcome,
          OutcomeIsStored, SuspendedIsRecorded
<1>20. ASSUME NEW s \in Sessions, CancelTakeover(s) PROVE IInv'
  <2>1. RegisteredIsLive'
    BY <1>20
       DEF CancelTakeover, RegistryWithout, Mark, CheckpointCleared,
          CancelWaking, StoredWith, Addressed, RegisteredIsLive, Live
  <2>2. UnregisteredWasCancelled'
    BY <1>20
       DEF CancelTakeover, RegistryWithout, Mark, CheckpointCleared,
          CancelWaking, StoredWith, Addressed, UnregisteredWasCancelled,
          RegisteredIsLive, Registered, Live
  <2>3. CheckpointIsStarted'
    BY <1>20
       DEF CancelTakeover, RegistryWithout, Mark, CheckpointCleared,
          CancelWaking, StoredWith, Addressed, CheckpointIsStarted, Started,
          RegisteredIsLive, Live
  <2>4. TimerIsStarted'
    BY <1>20, TakeoverOps
       DEF CancelTakeover, RegistryWithout, Mark, CheckpointCleared,
          CancelWaking, StoredWith, Addressed, TimerIsStarted, Started,
          TimeoutIsSound
  <2>5. TimeoutIsSound'
    BY <1>20, TakeoverOps
       DEF CancelTakeover, RegistryWithout, Mark, CheckpointCleared,
          CancelWaking, StoredWith, Addressed, TimeoutIsSound, Live,
          Started, CheckpointIsStarted, TimerIsStarted, TimeoutDue,
          CanRequest
  <2>7. AnswerIsCurrent'
    BY <1>20, <1>t
       DEF CancelTakeover, RegistryWithout, Mark, CheckpointCleared,
          CancelWaking, StoredWith, Addressed, AnswerIsCurrent, Undisturbed,
          ApprovalIsAnswerable, RegisteredIsLive, UnregisteredWasCancelled,
          Registered, Live, PendingOf, Requests, NoRequest
  <2>9. OutcomeIsStored'
    BY <1>20
       DEF CancelTakeover, RegistryWithout, Mark, CheckpointCleared,
          CancelWaking, StoredWith, Addressed, OutcomeIsStored,
          CheckpointIsStarted, Started, UnstartedHasNoOutcome,
          ApprovalIsAnswerable
  <2>10. SuspendedIsRecorded'
    BY <1>20, <1>t
       DEF CancelTakeover, RegistryWithout, Mark, CheckpointCleared,
          CancelWaking, StoredWith, Addressed, SuspendedIsRecorded,
          Undisturbed, RegisteredIsLive, UnregisteredWasCancelled,
          Registered, Live, CheckpointIsStarted, Started
  <2> QED
    BY <1>20, <1>t, <2>1, <2>2, <2>3, <2>4, <2>5, <2>7, <2>9, <2>10
       DEF CancelTakeover, ApprovalIsAnswerable, UnstartedHasNoOutcome,
          Started
<1>21. ASSUME NEW s \in Sessions, DeleteSession(s) PROVE IInv'
  <2>9. OutcomeIsStored'
    BY <1>21
       DEF DeleteSession, OutcomeIsStored, CheckpointIsStarted, Started,
          UnstartedHasNoOutcome, ApprovalIsAnswerable
  <2> QED
    BY <1>21, <1>t, <2>9
       DEF DeleteSession, RegisteredIsLive, Live, UnregisteredWasCancelled,
          Registered, CheckpointIsStarted, Started, TimerIsStarted,
          TimeoutIsSound, ApprovalIsAnswerable, AnswerIsCurrent,
          Undisturbed, UnstartedHasNoOutcome, SuspendedIsRecorded
<1>22. ASSUME NEW s \in Sessions, NEW q \in Requests, Approve(s, q) PROVE IInv'
  <2>7. AnswerIsCurrent'
    BY <1>22, <1>t
       DEF Approve, PendingOf, AnswerIsCurrent, Undisturbed,
          ApprovalIsAnswerable, RegisteredIsLive, UnregisteredWasCancelled,
          Registered, Live, Requests, NoRequest
  <2> QED
    BY <1>22, <1>t, <2>7
       DEF Approve, RegisteredIsLive, Live, UnregisteredWasCancelled,
          Registered, CheckpointIsStarted, Started, TimerIsStarted,
          TimeoutIsSound, ApprovalIsAnswerable, UnstartedHasNoOutcome,
          OutcomeIsStored, SuspendedIsRecorded, Undisturbed
<1>23. ASSUME EnterHumanControl PROVE IInv'
  <2>4. TimerIsStarted'
    BY <1>23, TakeoverOps
       DEF EnterHumanControl, TimerIsStarted, Started, TimeoutIsSound
  <2>5. TimeoutIsSound'
    BY <1>23, TakeoverOps
       DEF EnterHumanControl, TimeoutIsSound, Live, Started,
          CheckpointIsStarted, TimerIsStarted, TimeoutDue, CanRequest
  <2> QED
    BY <1>23, <1>t, <2>4, <2>5
       DEF EnterHumanControl, RegisteredIsLive, Live,
          UnregisteredWasCancelled, Registered, CheckpointIsStarted,
          Started, ApprovalIsAnswerable, AnswerIsCurrent, Undisturbed,
          UnstartedHasNoOutcome, OutcomeIsStored, SuspendedIsRecorded
<1>24. ASSUME Timeout PROVE IInv'
  <2>2. UnregisteredWasCancelled'
    BY <1>24
       DEF Timeout, CancelWaking, TimeoutDue, UnregisteredWasCancelled,
          RegisteredIsLive, Registered, Live
  <2>4. TimerIsStarted'
    BY <1>24, TakeoverOps
       DEF Timeout, CancelWaking, TimeoutDue, TimerIsStarted, Started,
          TimeoutIsSound
  <2>5. TimeoutIsSound'
    BY <1>24, TakeoverOps
       DEF Timeout, CancelWaking, TimeoutDue, TimeoutIsSound, Live, Started,
          CheckpointIsStarted, TimerIsStarted, CanRequest
  <2>7. AnswerIsCurrent'
    BY <1>24, <1>t
       DEF Timeout, CancelWaking, TimeoutDue, AnswerIsCurrent, Undisturbed,
          ApprovalIsAnswerable, RegisteredIsLive, UnregisteredWasCancelled,
          Registered, Live, PendingOf, Requests, NoRequest
  <2>10. SuspendedIsRecorded'
    BY <1>24, <1>t
       DEF Timeout, CancelWaking, TimeoutDue, SuspendedIsRecorded,
          Undisturbed, RegisteredIsLive, UnregisteredWasCancelled,
          Registered, Live, CheckpointIsStarted, Started
  <2> QED
    BY <1>24, <1>t, <2>2, <2>4, <2>5, <2>7, <2>10
       DEF Timeout, RegisteredIsLive, Live, CheckpointIsStarted, Started,
          ApprovalIsAnswerable, UnstartedHasNoOutcome, OutcomeIsStored
<1>25. ASSUME BrowserLost PROVE IInv'
  <2>4. TimerIsStarted'
    BY <1>25, TakeoverOps
       DEF BrowserLost, TimerIsStarted, Started, TimeoutIsSound
  <2>5. TimeoutIsSound'
    BY <1>25, TakeoverOps
       DEF BrowserLost, TimeoutIsSound, Live, Started, CheckpointIsStarted,
          TimerIsStarted, TimeoutDue, CanRequest
  <2> QED
    BY <1>25, <1>t, <2>4, <2>5
       DEF BrowserLost, RegisteredIsLive, Live, UnregisteredWasCancelled,
          Registered, CheckpointIsStarted, Started, ApprovalIsAnswerable,
          AnswerIsCurrent, Undisturbed, UnstartedHasNoOutcome,
          OutcomeIsStored, SuspendedIsRecorded
<1>26. ASSUME Shutdown PROVE IInv'
  <2>6. ApprovalIsAnswerable'
    BY <1>26, <1>t DEF Shutdown, ApprovalIsAnswerable, Requests
  <2> QED
    BY <1>26, <1>t, <2>6
       DEF Shutdown, RegisteredIsLive, Live, UnregisteredWasCancelled,
          Registered, CheckpointIsStarted, Started, TimerIsStarted,
          TimeoutIsSound, AnswerIsCurrent, Undisturbed,
          UnstartedHasNoOutcome, OutcomeIsStored, SuspendedIsRecorded
<1>27. CASE UNCHANGED vars
  BY <1>27, <1>t
     DEF vars, RegisteredIsLive, Live, UnregisteredWasCancelled, Registered,
        CheckpointIsStarted, Started, TimerIsStarted, TimeoutIsSound,
        ApprovalIsAnswerable, AnswerIsCurrent, Undisturbed,
        UnstartedHasNoOutcome, OutcomeIsStored, SuspendedIsRecorded
<1> HIDE NoRunAssumption, RunLifecycleAssumption
         DEF IInv, TypeOK, Phases, Outcomes, agentVars, pauseVars, approvalVars, slotVars, storeVars
<1>28. ASSUME NEW r \in Runs, RunStep(r) PROVE IInv'
  BY <1>28, <1>2, <1>3, <1>4, <1>5, <1>6, <1>7, <1>8, <1>9, <1>10, <1>11, <1>12, <1>13,
     <1>14, <1>15, <1>16, <1>17, <1>18 DEF RunStep
<1>29. CASE UserStep
  BY <1>29, <1>1, <1>19, <1>20, <1>21, <1>22, <1>23 DEF UserStep
<1> QED
  BY <1>24, <1>25, <1>26, <1>27, <1>28, <1>29 DEF Next

-----------------------------------------------------------------------------
(* The safety properties of every instance                                 *)

\* The strengthened invariant holds in every reachable state.
THEOREM InductiveInvariant == Spec => []IInv
BY InitIInv, NextIInv, PTL DEF Spec

\* No session is blocked by a run that is over, and no live run loses its slot
\* other than by a cancelled takeover.
THEOREM SlotsAreSound == Spec => [](RegisteredIsLive /\ UnregisteredWasCancelled)
<1>1. IInv => RegisteredIsLive /\ UnregisteredWasCancelled
  BY DEF IInv
<1> QED BY <1>1, InductiveInvariant, PTL

\* An armed timeout would cancel a live run that can still be recorded: the
\* task never outlives the suspension it was started for, whatever session the
\* shared manager is reset or cancelled from (browser/takeover.py).
THEOREM TimeoutsAreSound == Spec => []TimeoutIsSound
<1>1. IInv => TimeoutIsSound
  BY DEF IInv
<1> QED BY <1>1, InductiveInvariant, PTL

\* A finished run leaves no checkpoint, timeout task or pending approval.
THEOREM NothingIsLeftBehind == Spec => []NoResidue
<1>1. IInv => NoResidue
  <2> SUFFICES ASSUME IInv, NEW r \in Runs, phase[r] = "over"
               PROVE  /\ checkpoint[SessionOf[r]] # r
                      /\ takeover.timer # r
                      /\ \A q \in pending : q[1] # r
    BY DEF IInv, NoResidue
  <2>1. checkpoint[SessionOf[r]] # r
    BY NoRunAssumption, RunLifecycleAssumption DEF IInv, CheckpointIsStarted, Started
  <2>2. takeover.timer # r
    BY NoRunAssumption DEF IInv, TimerIsStarted, Started
  <2>3. \A q \in pending : q[1] # r
    BY DEF IInv, ApprovalIsAnswerable
  <2> QED BY <2>1, <2>2, <2>3
<1> QED BY <1>1, InductiveInvariant, PTL

\* Approvals: a suspended run can be answered, and goes on with the answer to
\* the request it is waiting on.
THEOREM ApprovalsAreSound ==
  Spec => [](ApprovalIsAnswerable /\ DecisionIsForCurrentRequest)
<1>1. IInv => ApprovalIsAnswerable /\ DecisionIsForCurrentRequest
  BY DEF IInv, AnswerIsCurrent, DecisionIsForCurrentRequest
<1> QED BY <1>1, InductiveInvariant, PTL

\* A run that ended with a result is in its session's history with it.
THEOREM OutcomesAreStored == Spec => []OutcomeIsStored
<1>1. IInv => OutcomeIsStored
  BY DEF IInv
<1> QED BY <1>1, InductiveInvariant, PTL

-----------------------------------------------------------------------------
(* Action properties                                                       *)

\* Only admission, the three ends of an owner and a user's cancel write slots.
LEMMA SlotWriters ==
  ASSUME [Next]_vars, registry' # registry
  PROVE  \/ \E r \in Runs : Register(r) \/ StartFails(r) \/ Finish(r) \/ AbortRun(r)
         \/ \E s \in Sessions : CancelTakeover(s)
BY DEF Next, RunStep, UserStep, vars, slotVars, storeVars, Post, Refuse, Start,
       AgentEnds, ToolRequestsTakeover, AutofillClears, Pause, Offer, Deliver,
       HookResumes, HookCancels, AutoApprove, AskApproval, ApprovalWakes,
       ResumeTakeover, DeleteSession, Approve, EnterHumanControl, Timeout,
       BrowserLost, Shutdown

\* A session's slot goes from one run to another only through empty, and is
\* emptied only by the end or the cancellation of its run.
THEOREM SlotsChangeThroughEmpty == Spec => SlotHandover
<1>1. IInv /\ [Next]_vars => [SlotStep]_vars
  <2> SUFFICES ASSUME IInv, [Next]_vars, NEW s \in Sessions,
                      registry[s] # NoRun, registry'[s] # registry[s]
               PROVE  /\ registry'[s] = NoRun
                      /\ phase'[registry[s]] = "over" \/ cancelled'[registry[s]]
    BY DEF SlotStep
  <2> DEFINE holder == registry[s]
  <2>1. holder \in Runs /\ SessionOf[holder] = s
    BY DEF IInv, TypeOK, RegisteredIsLive
  <2>2. ASSUME NEW r \in Runs, Register(r) PROVE FALSE
    BY <2>2 DEF Register, SlotFree, IInv, TypeOK
  <2>3. ASSUME NEW r \in Runs, StartFails(r) \/ Finish(r) \/ AbortRun(r)
        PROVE  r = holder /\ phase'[r] = "over" /\ registry'[s] = NoRun
    BY <2>3, RunLifecycleAssumption
       DEF StartFails, Finish, AbortRun, RegistryWithout, IInv, TypeOK
  <2>4. ASSUME NEW o \in Sessions, CancelTakeover(o)
        PROVE  holder = registry[o] /\ cancelled'[holder] /\ registry'[s] = NoRun
    <3>1. registry[o] \in Runs /\ SessionOf[registry[o]] = o
      BY <2>4 DEF CancelTakeover, Addressed, IInv, TypeOK, RegisteredIsLive
    <3>2. o = s
      BY <2>4, <3>1 DEF CancelTakeover, RegistryWithout, IInv, TypeOK
    <3> QED BY <2>4, <3>1, <3>2 DEF CancelTakeover, RegistryWithout, IInv, TypeOK
  <2> QED BY <2>1, <2>2, <2>3, <2>4, SlotWriters
<1> QED BY <1>1, InductiveInvariant, PTL DEF Spec, SlotHandover

\* Once the process is shutting down, the only steps are owners aborting.
LEMMA OnlyAbortsWhenDown ==
  ASSUME down, [Next]_vars
  PROVE  UNCHANGED vars \/ \E r \in Runs : AbortRun(r)
BY DEF Next, RunStep, UserStep, Post, Refuse, Register, Start, StartFails, Finish,
       AgentEnds, ToolRequestsTakeover, AutofillClears, Pause, Offer, Deliver,
       HookResumes, HookCancels, AutoApprove, AskApproval, ApprovalWakes,
       ResumeTakeover, CancelTakeover, DeleteSession, Approve, EnterHumanControl,
       Timeout, BrowserLost, Shutdown

\* Every run a shutdown finds suspended is stored as cancelled.
THEOREM ShutdownLosesNoSuspendedRun == Spec => ShutdownRecordsSuspended
<1>1. IInv /\ [Next]_vars => [RecordingStep]_vars
  <2> SUFFICES ASSUME IInv, [Next]_vars, NEW r \in Runs,
                      down, Live(r), phase'[r] = "over", SuspendedAtShutdown(r),
                      ~cancelled[r], Undisturbed(r), exists[SessionOf[r]]
               PROVE  stored'[r] = "cancelled"
    BY DEF RecordingStep
  <2> DEFINE s == SessionOf[r]
             after == IF checkpoint[s] = NoRun THEN stored
                      ELSE StoredWith(checkpoint[s], "cancelled")
             popped == {q[1] : q \in PendingOf(s)}
  <2>1. AbortRun(r)
    <3>1. PICK o \in Runs : AbortRun(o)
      BY OnlyAbortsWhenDown DEF vars, Live
    <3>2. o = r
      BY <3>1 DEF AbortRun, IInv, TypeOK, Live
    <3> QED BY <3>1, <3>2
  <2>2. \/ stored' = after
        \/ \E x \in popped : stored' = [after EXCEPT ![x] = "cancelled"]
    BY <2>1 DEF AbortRun, AbortStored
  <2>3. /\ after \in [Runs -> {"none", "completed", "error", "cancelled"}]
        /\ popped \subseteq Runs
    BY RunLifecycleAssumption DEF IInv, TypeOK, StoredWith, PendingOf, Requests
  <2>4. CASE hook[r] # "idle"
    <3>1. checkpoint[s] = r
      BY <2>4 DEF IInv, SuspendedIsRecorded
    <3>2. after[r] = "cancelled"
      BY <3>1, NoRunAssumption DEF StoredWith, IInv, TypeOK
    <3> HIDE DEF after, popped
    <3> QED BY <3>2, <2>2, <2>3
  <2>5. CASE phase[r] = "approval"
    <3>1. r \in popped
      <4>1. <<r, asked[r]>> \in PendingOf(s)
        BY <2>5 DEF IInv, SuspendedIsRecorded, PendingOf
      <4> QED BY <4>1
    <3>2. \A x \in popped : x = r
      <4> SUFFICES ASSUME NEW q \in PendingOf(s), q[1] # r PROVE FALSE
        OBVIOUS
      <4>1. q[1] \in Runs /\ SessionOf[q[1]] = s /\ phase[q[1]] = "approval"
        BY DEF PendingOf, IInv, TypeOK, Requests, ApprovalIsAnswerable
      <4>2. Registered(r)
        BY DEF IInv, UnregisteredWasCancelled
      <4> QED BY <4>1, <4>2 DEF IInv, UnregisteredWasCancelled, Registered, Live, Undisturbed
    <3>3. \E x \in popped : stored' = [after EXCEPT ![x] = "cancelled"]
      BY <2>1, <3>1 DEF AbortRun, AbortStored
    <3> HIDE DEF after, popped
    <3> QED BY <3>2, <3>3, <2>3
  <2> QED BY <2>4, <2>5 DEF SuspendedAtShutdown
<1> QED BY <1>1, InductiveInvariant, PTL DEF Spec, ShutdownRecordsSuspended
=============================================================================
