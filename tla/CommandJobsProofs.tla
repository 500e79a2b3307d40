------------------------ MODULE CommandJobsProofs ------------------------
(* Theorems about the command jobs, for every set of jobs, every number of   *)
(* calls and leases, any failures and any restarts.                          *)
EXTENDS CommandJobs, FiniteSetTheorems, TLAPS

\* The callers of each kind are callers.
LEMMA CallerKinds ==
    Cancellers \subseteq Callers /\ Getters \subseteq Callers /\ Openers \subseteq Callers
  BY DEF Callers

\* Whatever the metadata said, the finisher publishes a terminal status.
LEMMA FinalStatusIsTerminal ==
    ASSUME NEW m \in Meta, NEW failed \in BOOLEAN, NEW rc
    PROVE  FinalStatus(m, failed, rc) \in Terminal
  BY DEF FinalStatus, Meta, Statuses, Terminal

\* Killing a process group keeps the types, also of a job that does not exist.
LEMMA KillTypes ==
    ASSUME OsTypes, NEW j, Kill(j) PROVE OsTypes'
<1>1. PICK r \in {"zero", "nonzero"} :
          code' = [code EXCEPT ![j] = IF leader[j] = "alive" THEN r ELSE @]
  BY DEF Kill
<1>2. code' \in [Jobs -> {"none", "zero", "nonzero"}]
  BY <1>1 DEF OsTypes
<1>3. leader' \in [Jobs -> {"none", "alive", "zombie", "reaped"}]
  BY DEF Kill, OsTypes
<1>. QED
  BY <1>2, <1>3 DEF Kill, OsTypes

\* The values idle threads hold.
LEMMA IdleTypes == Idle \in Call /\ Off \in Sweep
  BY DEF Idle, Off, Call, Sweep, NoMeta, Meta, Statuses

\* A copy of metadata with another status is metadata.
LEMMA CopyUpdate ==
    ASSUME NEW m \in Meta, NEW s \in Statuses
    PROVE  [m EXCEPT !.status = s] \in Meta /\ [m EXCEPT !.status = s].status = s
           /\ [m EXCEPT !.status = s, !.cancel_requested = TRUE] \in Meta
  BY DEF Meta

\* Storing metadata for a job keeps the type of the directory.
LEMMA MetaUpdate ==
    ASSUME NEW f \in [Jobs -> Meta], NEW j, NEW m \in Meta
    PROVE  [f EXCEPT ![j] = m] \in [Jobs -> Meta]
  OBVIOUS

\* Storing a call for a caller keeps the type of the callers.
LEMMA CallUpdate ==
    ASSUME NEW f \in [Callers -> Call], NEW c, NEW r \in Call
    PROVE  [f EXCEPT ![c] = r] \in [Callers -> Call]
  OBVIOUS

\* A call that returns leaves its caller idle.
LEMMA ReturnTypes ==
    ASSUME caller \in [Callers -> Call], NEW c, Return(c)
    PROVE  caller' \in [Callers -> Call]
  BY IdleTypes, CallUpdate DEF Return

\* What a poll concludes of job j, from the status it read and the processes it sees.
LookVerdict(j, status, at, s) ==
    \/ at = "g_kill" /\ s = "timed_out" /\ Late(j, status)
    \/ /\ at = "g_clear" /\ s = status
       /\ status = "failed" \/ Late(j, status)
       /\ status = "failed" \/ ~StillRunning(j, status)
    \/ at = "g_save" /\ s = "running"
    \/ /\ at = "g_clear" /\ s \in {"failed", "completed"}
       /\ ~Late(j, status) /\ ~StillRunning(j, status)

\* The look of a poll changes its own copy only, and only its status.
LEMMA LookOutcome ==
    ASSUME CallTypes, NEW c \in Callers, GetLook(c)
    PROVE  \E at \in {"g_kill", "g_clear", "g_save"}, s \in Statuses :
              /\ LookVerdict(caller[c].job, caller[c].copy.status, at, s)
              /\ caller' \in [Callers -> Call]
              /\ caller'[c].at = at /\ caller'[c].job = caller[c].job
              /\ caller'[c].copy = [caller[c].copy EXCEPT !.status = s]
              /\ caller'[c].copy.status = s
              /\ \A d \in Callers \ {c} : caller'[d] = caller[d]
<1>. DEFINE j == caller[c].job
            status == caller[c].copy.status
            Becomes(at, s) == caller' = [caller EXCEPT ![c].at = at, ![c].copy.status = s]
<1>1. caller[c] \in Call /\ caller[c].copy \in Meta /\ status \in Statuses
  BY DEF CallTypes, Call, Meta
<1>2. /\ "timed_out" \in Statuses /\ "failed" \in Statuses /\ "completed" \in Statuses
      /\ "running" \in Statuses
  BY DEF Statuses, Terminal
<1>3. \E at \in {"g_kill", "g_clear", "g_save"}, s \in Statuses :
         Becomes(at, s) /\ LookVerdict(j, status, at, s)
  <2>1. CASE Late(j, status) /\ StillRunning(j, status)
    <3>1. Becomes("g_kill", "timed_out")
      BY <2>1 DEF GetLook
    <3>. QED
      BY <1>2, <2>1, <3>1 DEF LookVerdict
  <2>2. CASE /\ ~(Late(j, status) /\ StillRunning(j, status))
             /\ status = "failed" \/ Late(j, status)
    <3>1. Becomes("g_clear", status)
      BY <2>2 DEF GetLook
    <3>. QED
      BY <1>1, <2>2, <3>1 DEF LookVerdict
  <2>3. CASE ~Late(j, status) /\ status # "failed" /\ StillRunning(j, status)
    <3>1. Becomes("g_save", "running")
      BY <2>3 DEF GetLook
    <3>. QED
      BY <1>2, <3>1 DEF LookVerdict
  <2>4. CASE ~Late(j, status) /\ status # "failed" /\ ~StillRunning(j, status)
    <3>1. Becomes("g_clear", "failed") \/ Becomes("g_clear", "completed")
      BY <2>4 DEF GetLook
    <3>. QED
      BY <1>2, <2>4, <3>1 DEF LookVerdict
  <2>. QED
    BY <2>1, <2>2, <2>3, <2>4
<1>4. PICK at \in {"g_kill", "g_clear", "g_save"}, s \in Statuses :
         Becomes(at, s) /\ LookVerdict(j, status, at, s)
  BY <1>3
<1>5. /\ caller'[c].at = at /\ caller'[c].job = j
      /\ caller'[c].copy = [caller[c].copy EXCEPT !.status = s]
      /\ \A d \in Callers \ {c} : caller'[d] = caller[d]
  BY <1>4 DEF CallTypes, Call
<1>6. caller'[c].copy \in Meta /\ caller'[c].copy.status = s
  BY ZenonT(60), <1>1, <1>4, <1>5, CopyUpdate
<1>7. caller' \in [Callers -> Call]
  BY ZenonT(60), <1>4, <1>5, <1>6 DEF CallTypes, Call
<1>. QED
  BY <1>4, <1>5, <1>6, <1>7

\* The type invariant is inductive.
LEMMA TypeStep == TypeOK /\ [Next]_vars => TypeOK'
<1>. SUFFICES ASSUME TypeOK, [Next]_vars PROVE TypeOK'
  OBVIOUS
<1>. USE CallerKinds DEF TypeOK, osVars, diskVars, memVars, leaseVars, threadVars, startRest, finishRest,
     watchRest, callRest, boundVars
<1>1. ASSUME NEW j \in Jobs, CheckLock(j) PROVE TypeOK'
  <2>1. ThreadTypes'
    BY <1>1 DEF CheckLock, PidRunning, ThreadTypes
  <2>2. OsTypes' /\ SetTypes' /\ RecordTypes' /\ CallTypes' /\ BoundTypes'
    BY <1>1 DEF CheckLock, PidRunning, OsTypes, SetTypes, RecordTypes, CallTypes,
       BoundTypes
  <2>. QED
    BY <2>1, <2>2
<1>2. ASSUME NEW j \in Jobs, UnlinkStale(j) PROVE TypeOK'
  <2>1. RecordTypes'
    BY <1>2 DEF UnlinkStale, RecordTypes, Meta, Statuses, Terminal
  <2>2. ThreadTypes'
    BY <1>2 DEF UnlinkStale, ThreadTypes
  <2>3. OsTypes' /\ SetTypes' /\ CallTypes' /\ BoundTypes'
    BY <1>2 DEF UnlinkStale, OsTypes, SetTypes, CallTypes, BoundTypes
  <2>. QED
    BY <2>1, <2>2, <2>3
<1>3. ASSUME NEW j \in Jobs, Acquire(j) PROVE TypeOK'
  <2>1. SetTypes'
    BY <1>3 DEF Acquire, FreeLease, SetTypes
  <2>2. RecordTypes'
    BY <1>3 DEF Acquire, FreeLease, RecordTypes, Meta, Statuses, Terminal
  <2>3. ThreadTypes'
    BY <1>3 DEF Acquire, FreeLease, ThreadTypes
  <2>4. OsTypes' /\ CallTypes' /\ BoundTypes'
    BY <1>3 DEF Acquire, FreeLease, OsTypes, CallTypes, BoundTypes
  <2>. QED
    BY <2>1, <2>2, <2>3, <2>4
<1>4. ASSUME NEW j \in Jobs, Launch(j) PROVE TypeOK'
  <2>1. OsTypes'
    BY <1>4 DEF Launch, OsTypes
  <2>2. ThreadTypes'
    BY <1>4 DEF Launch, ThreadTypes
  <2>3. SetTypes' /\ RecordTypes' /\ CallTypes' /\ BoundTypes'
    BY <1>4 DEF Launch, SetTypes, RecordTypes, CallTypes, BoundTypes
  <2>. QED
    BY <2>1, <2>2, <2>3
<1>5. ASSUME NEW j \in Jobs, LaunchStopped(j) PROVE TypeOK'
  <2>1. SetTypes'
    BY <1>5 DEF LaunchStopped, Undo, SetTypes
  <2>2. RecordTypes'
    BY <1>5 DEF LaunchStopped, Undo, RecordTypes, Meta, Statuses, Terminal
  <2>3. ThreadTypes'
    BY <1>5 DEF LaunchStopped, Undo, ThreadTypes
  <2>4. OsTypes' /\ CallTypes' /\ BoundTypes'
    BY <1>5 DEF LaunchStopped, Undo, OsTypes, CallTypes, BoundTypes
  <2>. QED
    BY <2>1, <2>2, <2>3, <2>4
<1>6. ASSUME NEW j \in Jobs, LaunchFails(j) PROVE TypeOK'
  <2>1. SetTypes'
    BY <1>6 DEF LaunchFails, Undo, Fault, SetTypes
  <2>2. RecordTypes'
    BY <1>6 DEF LaunchFails, Undo, Fault, RecordTypes, Meta, Statuses, Terminal
  <2>3. ThreadTypes'
    BY <1>6 DEF LaunchFails, Undo, Fault, ThreadTypes
  <2>4. BoundTypes'
    BY FaultsAssumption, <1>6 DEF LaunchFails, Undo, Fault, BoundTypes
  <2>5. OsTypes' /\ CallTypes'
    BY <1>6 DEF LaunchFails, Undo, Fault, OsTypes, CallTypes
  <2>. QED
    BY <2>1, <2>2, <2>3, <2>4, <2>5
<1>7. ASSUME NEW j \in Jobs, SaveMeta(j) PROVE TypeOK'
  <2>1. RecordTypes'
    BY <1>7 DEF SaveMeta, NewMeta, NoMeta, RecordTypes, Meta, Statuses, Terminal
  <2>2. ThreadTypes'
    BY <1>7 DEF SaveMeta, NewMeta, NoMeta, ThreadTypes
  <2>3. OsTypes' /\ SetTypes' /\ CallTypes' /\ BoundTypes'
    BY <1>7 DEF SaveMeta, NewMeta, NoMeta, OsTypes, SetTypes, CallTypes, BoundTypes
  <2>. QED
    BY <2>1, <2>2, <2>3
<1>8. ASSUME NEW j \in Jobs, SaveFails(j) PROVE TypeOK'
  <2>1. OsTypes'
    BY <1>8 DEF SaveFails, Undo, Fault, OsTypes
  <2>2. SetTypes'
    BY <1>8 DEF SaveFails, Undo, Fault, SetTypes
  <2>3. RecordTypes'
    BY <1>8 DEF SaveFails, Undo, Fault, RecordTypes, Meta, Statuses, Terminal
  <2>4. ThreadTypes'
    BY <1>8 DEF SaveFails, Undo, Fault, ThreadTypes
  <2>5. BoundTypes'
    BY FaultsAssumption, <1>8 DEF SaveFails, Undo, Fault, BoundTypes
  <2>6. CallTypes'
    BY <1>8 DEF SaveFails, Undo, Fault, CallTypes
  <2>. QED
    BY <2>1, <2>2, <2>3, <2>4, <2>5, <2>6
<1>9. ASSUME NEW j \in Jobs, Register(j) PROVE TypeOK'
  <2>1. OsTypes'
    BY <1>9 DEF Register, OsTypes
  <2>2. SetTypes'
    BY <1>9 DEF Register, SetTypes
  <2>3. ThreadTypes'
    BY <1>9 DEF Register, ThreadTypes
  <2>4. RecordTypes' /\ CallTypes' /\ BoundTypes'
    BY <1>9 DEF Register, RecordTypes, CallTypes, BoundTypes
  <2>. QED
    BY <2>1, <2>2, <2>3, <2>4
<1>10. ASSUME NEW j \in Jobs, StartFinisher(j) PROVE TypeOK'
  <2>1. ThreadTypes'
    BY <1>10 DEF StartFinisher, ThreadTypes
  <2>2. OsTypes' /\ SetTypes' /\ RecordTypes' /\ CallTypes' /\ BoundTypes'
    BY <1>10 DEF StartFinisher, OsTypes, SetTypes, RecordTypes, CallTypes, BoundTypes
  <2>. QED
    BY <2>1, <2>2
<1>11. ASSUME NEW j \in Jobs, WriteLock(j) PROVE TypeOK'
  <2>1. RecordTypes'
    BY <1>11 DEF WriteLock, RecordTypes, Meta, Statuses, Terminal
  <2>2. ThreadTypes'
    BY <1>11 DEF WriteLock, ThreadTypes
  <2>3. OsTypes' /\ SetTypes' /\ CallTypes' /\ BoundTypes'
    BY <1>11 DEF WriteLock, OsTypes, SetTypes, CallTypes, BoundTypes
  <2>. QED
    BY <2>1, <2>2, <2>3
<1>12. ASSUME NEW j \in Jobs, WriteLockFails(j) PROVE TypeOK'
  <2>1. ThreadTypes'
    BY <1>12 DEF WriteLockFails, Fault, ThreadTypes
  <2>2. BoundTypes'
    BY FaultsAssumption, <1>12 DEF WriteLockFails, Fault, BoundTypes
  <2>3. OsTypes' /\ SetTypes' /\ RecordTypes' /\ CallTypes'
    BY <1>12 DEF WriteLockFails, Fault, OsTypes, SetTypes, RecordTypes, CallTypes
  <2>. QED
    BY <2>1, <2>2, <2>3
<1>13. ASSUME NEW j \in Jobs, StartWatcher(j) PROVE TypeOK'
  <2>1. ThreadTypes'
    BY <1>13 DEF StartWatcher, ThreadTypes
  <2>2. OsTypes' /\ SetTypes' /\ RecordTypes' /\ CallTypes' /\ BoundTypes'
    BY <1>13 DEF StartWatcher, OsTypes, SetTypes, RecordTypes, CallTypes, BoundTypes
  <2>. QED
    BY <2>1, <2>2
<1>14. ASSUME NEW j \in Jobs, FinisherWait(j) PROVE TypeOK'
  <2>1. OsTypes'
    BY <1>14 DEF FinisherWait, Reaped, OsTypes
  <2>2. ThreadTypes'
    BY <1>14 DEF FinisherWait, Reaped, ThreadTypes
  <2>3. SetTypes' /\ RecordTypes' /\ CallTypes' /\ BoundTypes'
    BY <1>14 DEF FinisherWait, Reaped, SetTypes, RecordTypes, CallTypes, BoundTypes
  <2>. QED
    BY <2>1, <2>2, <2>3
<1>15. ASSUME NEW j \in Jobs, FinalizeDrains(j) PROVE TypeOK'
  <2>1. OsTypes'
    BY <1>15 DEF FinalizeDrains, OsTypes
  <2>2. ThreadTypes'
    BY <1>15 DEF FinalizeDrains, ThreadTypes
  <2>3. SetTypes' /\ RecordTypes' /\ CallTypes' /\ BoundTypes'
    BY <1>15 DEF FinalizeDrains, SetTypes, RecordTypes, CallTypes, BoundTypes
  <2>. QED
    BY <2>1, <2>2, <2>3
<1>16. ASSUME NEW j \in Jobs, Publish(j) PROVE TypeOK'
  <2>1. SetTypes'
    BY <1>16 DEF Publish, MayPublish, FinalStatus, SetTypes
  <2>2. RecordTypes'
    BY <1>16 DEF Publish, MayPublish, FinalStatus, RecordTypes, Meta, Statuses,
       Terminal
  <2>3. ThreadTypes'
    BY <1>16 DEF Publish, MayPublish, FinalStatus, ThreadTypes
  <2>4. OsTypes' /\ CallTypes' /\ BoundTypes'
    BY <1>16 DEF Publish, MayPublish, FinalStatus, OsTypes, CallTypes, BoundTypes
  <2>. QED
    BY <2>1, <2>2, <2>3, <2>4
<1>17. ASSUME NEW j \in Jobs, PublishFails(j) PROVE TypeOK'
  <2>1. SetTypes'
    BY <1>17 DEF PublishFails, Fault, MayPublish, SetTypes
  <2>2. RecordTypes'
    BY <1>17 DEF PublishFails, Fault, MayPublish, RecordTypes, Meta, Statuses,
       Terminal
  <2>3. ThreadTypes'
    BY <1>17 DEF PublishFails, Fault, MayPublish, ThreadTypes
  <2>4. BoundTypes'
    BY FaultsAssumption, <1>17 DEF PublishFails, Fault, MayPublish, BoundTypes
  <2>5. OsTypes' /\ CallTypes'
    BY <1>17 DEF PublishFails, Fault, MayPublish, OsTypes, CallTypes
  <2>. QED
    BY <2>1, <2>2, <2>3, <2>4, <2>5
<1>18. ASSUME NEW j \in Jobs, FinisherReadLock(j) PROVE TypeOK'
  <2>1. ThreadTypes'
    BY <1>18 DEF FinisherReadLock, ThreadTypes
  <2>2. OsTypes' /\ SetTypes' /\ RecordTypes' /\ CallTypes' /\ BoundTypes'
    BY <1>18 DEF FinisherReadLock, OsTypes, SetTypes, RecordTypes, CallTypes,
       BoundTypes
  <2>. QED
    BY <2>1, <2>2
<1>19. ASSUME NEW j \in Jobs, FinisherUnlink(j) PROVE TypeOK'
  <2>1. RecordTypes'
    BY <1>19 DEF FinisherUnlink, RecordTypes, Meta, Statuses, Terminal
  <2>2. ThreadTypes'
    BY <1>19 DEF FinisherUnlink, ThreadTypes
  <2>3. OsTypes' /\ SetTypes' /\ CallTypes' /\ BoundTypes'
    BY <1>19 DEF FinisherUnlink, OsTypes, SetTypes, CallTypes, BoundTypes
  <2>. QED
    BY <2>1, <2>2, <2>3
<1>20. ASSUME NEW j \in Jobs, FinisherEnd(j) PROVE TypeOK'
  <2>1. SetTypes'
    BY <1>20 DEF FinisherEnd, SetTypes
  <2>2. RecordTypes'
    BY <1>20 DEF FinisherEnd, RecordTypes, Meta, Statuses, Terminal
  <2>3. ThreadTypes'
    BY <1>20 DEF FinisherEnd, ThreadTypes
  <2>4. OsTypes' /\ CallTypes' /\ BoundTypes'
    BY <1>20 DEF FinisherEnd, OsTypes, CallTypes, BoundTypes
  <2>. QED
    BY <2>1, <2>2, <2>3, <2>4
<1>21. ASSUME NEW j \in Jobs, WatcherMark(j) PROVE TypeOK'
  <2>1. SetTypes'
    BY <1>21 DEF WatcherMark, GroupRunning, SetTypes
  <2>2. RecordTypes'
    BY <1>21 DEF WatcherMark, GroupRunning, RecordTypes, Meta, Statuses, Terminal
  <2>3. ThreadTypes'
    BY <1>21 DEF WatcherMark, GroupRunning, ThreadTypes
  <2>4. OsTypes' /\ CallTypes' /\ BoundTypes'
    BY <1>21 DEF WatcherMark, GroupRunning, OsTypes, CallTypes, BoundTypes
  <2>. QED
    BY <2>1, <2>2, <2>3, <2>4
<1>22. ASSUME NEW j \in Jobs, WatcherMarkFails(j) PROVE TypeOK'
  <2>1. ThreadTypes'
    BY <1>22 DEF WatcherMarkFails, Fault, GroupRunning, ThreadTypes
  <2>2. BoundTypes'
    BY FaultsAssumption, <1>22 DEF WatcherMarkFails, Fault, GroupRunning, BoundTypes
  <2>3. OsTypes' /\ SetTypes' /\ RecordTypes' /\ CallTypes'
    BY <1>22 DEF WatcherMarkFails, Fault, GroupRunning, OsTypes, SetTypes,
       RecordTypes, CallTypes
  <2>. QED
    BY <2>1, <2>2, <2>3
<1>23. ASSUME NEW j \in Jobs, WatcherKill(j) PROVE TypeOK'
  <2>1. OsTypes'
    BY <1>23, KillTypes DEF WatcherKill
  <2>2. ThreadTypes'
    BY <1>23 DEF WatcherKill, Kill, ThreadTypes
  <2>3. SetTypes' /\ RecordTypes' /\ CallTypes' /\ BoundTypes'
    BY <1>23 DEF WatcherKill, Kill, SetTypes, RecordTypes, CallTypes, BoundTypes
  <2>. QED
    BY <2>1, <2>2, <2>3
<1>24. ASSUME NEW j \in Jobs, WatcherPop(j) PROVE TypeOK'
  <2>1. OsTypes'
    BY <1>24 DEF WatcherPop, Reaped, OsTypes
  <2>2. SetTypes'
    BY <1>24 DEF WatcherPop, Reaped, SetTypes
  <2>3. ThreadTypes'
    BY <1>24 DEF WatcherPop, Reaped, ThreadTypes
  <2>4. RecordTypes' /\ CallTypes' /\ BoundTypes'
    BY <1>24 DEF WatcherPop, Reaped, RecordTypes, CallTypes, BoundTypes
  <2>. QED
    BY <2>1, <2>2, <2>3, <2>4
<1>25. ASSUME NEW j \in Jobs, WatcherFinal(j) PROVE TypeOK'
  <2>1. RecordTypes'
    <3>1. meta' \in [Jobs -> Meta]
      BY ZenonT(60), <1>25 DEF WatcherFinal, RecordTypes, Meta, Statuses, Terminal
    <3>. QED
      BY <1>25, <3>1 DEF WatcherFinal, RecordTypes
  <2>2. ThreadTypes'
    BY <1>25 DEF WatcherFinal, ThreadTypes
  <2>3. OsTypes' /\ SetTypes' /\ CallTypes' /\ BoundTypes'
    BY <1>25 DEF WatcherFinal, OsTypes, SetTypes, CallTypes, BoundTypes
  <2>. QED
    BY <2>1, <2>2, <2>3
<1>26. ASSUME NEW j \in Jobs, WatcherFinalFails(j) PROVE TypeOK'
  <2>1. ThreadTypes'
    BY <1>26 DEF WatcherFinalFails, Fault, ThreadTypes
  <2>2. BoundTypes'
    BY FaultsAssumption, <1>26 DEF WatcherFinalFails, Fault, BoundTypes
  <2>3. OsTypes' /\ SetTypes' /\ RecordTypes' /\ CallTypes'
    BY <1>26 DEF WatcherFinalFails, Fault, OsTypes, SetTypes, RecordTypes, CallTypes
  <2>. QED
    BY <2>1, <2>2, <2>3
<1>27. ASSUME NEW j \in Jobs, WatcherUnlink(j) PROVE TypeOK'
  <2>1. RecordTypes'
    BY <1>27 DEF WatcherUnlink, RecordTypes, Meta, Statuses, Terminal
  <2>2. ThreadTypes'
    BY <1>27 DEF WatcherUnlink, ThreadTypes
  <2>3. OsTypes' /\ SetTypes' /\ CallTypes' /\ BoundTypes'
    BY <1>27 DEF WatcherUnlink, OsTypes, SetTypes, CallTypes, BoundTypes
  <2>. QED
    BY <2>1, <2>2, <2>3
<1>28. ASSUME NEW j \in Jobs, WatcherRelease(j) PROVE TypeOK'
  <2>1. SetTypes'
    BY <1>28 DEF WatcherRelease, SetTypes
  <2>2. ThreadTypes'
    BY <1>28 DEF WatcherRelease, ThreadTypes
  <2>3. OsTypes' /\ RecordTypes' /\ CallTypes' /\ BoundTypes'
    BY <1>28 DEF WatcherRelease, OsTypes, RecordTypes, CallTypes, BoundTypes
  <2>. QED
    BY <2>1, <2>2, <2>3
<1>29. ASSUME NEW j \in Jobs, LeaderExits(j) PROVE TypeOK'
  <2>1. OsTypes'
    <3>1. PICK r \in {"zero", "nonzero"} : code' = [code EXCEPT ![j] = r]
      BY <1>29 DEF LeaderExits
    <3>2. PICK o \in Leftovers : others' = [others EXCEPT ![j] = o]
      BY <1>29 DEF LeaderExits
    <3>. QED
      BY <1>29, <3>1, <3>2, LeftoversAssumption DEF LeaderExits, OsTypes
  <2>2. SetTypes' /\ RecordTypes' /\ ThreadTypes' /\ CallTypes' /\ BoundTypes'
    BY <1>29 DEF LeaderExits, SetTypes, RecordTypes, ThreadTypes, CallTypes,
       BoundTypes
  <2>. QED
    BY <2>1, <2>2
<1>30. ASSUME NEW j \in Jobs, OthersExit(j) PROVE TypeOK'
  <2>1. OsTypes'
    BY <1>30 DEF OthersExit, OsTypes
  <2>2. SetTypes' /\ RecordTypes' /\ ThreadTypes' /\ CallTypes' /\ BoundTypes'
    BY <1>30 DEF OthersExit, SetTypes, RecordTypes, ThreadTypes, CallTypes, BoundTypes
  <2>. QED
    BY <2>1, <2>2
<1>31. ASSUME NEW j \in Jobs, PipeEnds(j) PROVE TypeOK'
  <2>1. OsTypes'
    BY <1>31 DEF PipeEnds, OsTypes
  <2>2. SetTypes' /\ RecordTypes' /\ ThreadTypes' /\ CallTypes' /\ BoundTypes'
    BY <1>31 DEF PipeEnds, SetTypes, RecordTypes, ThreadTypes, CallTypes, BoundTypes
  <2>. QED
    BY <2>1, <2>2
<1>32. ASSUME NEW j \in Jobs, CaptureFails(j) PROVE TypeOK'
  <2>1. OsTypes'
    BY <1>32 DEF CaptureFails, Fault, OsTypes
  <2>2. SetTypes'
    BY <1>32 DEF CaptureFails, Fault, SetTypes
  <2>3. BoundTypes'
    BY FaultsAssumption, <1>32 DEF CaptureFails, Fault, BoundTypes
  <2>4. RecordTypes' /\ ThreadTypes' /\ CallTypes'
    BY <1>32 DEF CaptureFails, Fault, RecordTypes, ThreadTypes, CallTypes
  <2>. QED
    BY <2>1, <2>2, <2>3, <2>4
<1>33. ASSUME NEW j \in Jobs, InitReaps(j) PROVE TypeOK'
  <2>1. OsTypes'
    BY <1>33 DEF InitReaps, Reaped, OsTypes
  <2>2. SetTypes' /\ RecordTypes' /\ ThreadTypes' /\ CallTypes' /\ BoundTypes'
    BY <1>33 DEF InitReaps, Reaped, SetTypes, RecordTypes, ThreadTypes, CallTypes,
       BoundTypes
  <2>. QED
    BY <2>1, <2>2
<1>34. ASSUME NEW j \in Jobs, TimeElapses(j) PROVE TypeOK'
  <2>1. SetTypes'
    BY <1>34 DEF TimeElapses, Saved, SetTypes
  <2>2. OsTypes' /\ RecordTypes' /\ ThreadTypes' /\ CallTypes' /\ BoundTypes'
    BY <1>34 DEF TimeElapses, Saved, OsTypes, RecordTypes, ThreadTypes, CallTypes,
       BoundTypes
  <2>. QED
    BY <2>1, <2>2
<1>35. ASSUME NEW j \in Jobs, AskCancel(j) PROVE TypeOK'
  <2>1. SetTypes'
    BY <1>35 DEF AskCancel, SetTypes
  <2>2. OsTypes' /\ RecordTypes' /\ ThreadTypes' /\ CallTypes' /\ BoundTypes'
    BY <1>35 DEF AskCancel, OsTypes, RecordTypes, ThreadTypes, CallTypes, BoundTypes
  <2>. QED
    BY <2>1, <2>2
<1>36. ASSUME NEW c \in Cancellers, NEW j \in Jobs, CancelRead(c, j) PROVE TypeOK'
  <2>1. SetTypes'
    BY <1>36 DEF CancelRead, Saved, SetTypes
  <2>2. CallTypes'
    <3>1. [meta[j] EXCEPT !.status = "terminating", !.cancel_requested = TRUE] \in Meta
      BY CopyUpdate DEF RecordTypes, Statuses
    <3>2. [at |-> "c_write", job |-> j, copy |-> [meta[j] EXCEPT !.status = "terminating", !.cancel_requested = TRUE]] \in Call
      BY <3>1 DEF Call
    <3>. QED
      BY <1>36, <3>2, CallUpdate DEF CancelRead, CallTypes, callRest
  <2>3. OsTypes' /\ RecordTypes' /\ ThreadTypes' /\ BoundTypes'
    BY <1>36 DEF CancelRead, Saved, OsTypes, RecordTypes, ThreadTypes, BoundTypes
  <2>. QED
    BY <2>1, <2>2, <2>3
<1>37. ASSUME NEW c \in Getters, NEW j \in Jobs, GetRead(c, j) PROVE TypeOK'
  <2>1. CallTypes'
    <3>1. meta[j] \in Meta
      BY DEF RecordTypes
    <3>2. [at |-> "g_look", job |-> j, copy |-> meta[j]] \in Call
      BY <3>1 DEF Call
    <3>. QED
      BY <1>37, <3>2, CallUpdate DEF GetRead, CallTypes, callRest
  <2>2. OsTypes' /\ SetTypes' /\ RecordTypes' /\ ThreadTypes' /\ BoundTypes'
    BY <1>37 DEF GetRead, Saved, OsTypes, SetTypes, RecordTypes, ThreadTypes,
       BoundTypes
  <2>. QED
    BY <2>1, <2>2
<1>38. ASSUME NEW c \in Openers, NEW j \in Jobs, OpenRead(c, j) PROVE TypeOK'
  <2>1. CallTypes'
    <3>1. meta[j] \in Meta
      BY DEF RecordTypes
    <3>2. [at |-> "o_check", job |-> j, copy |-> meta[j]] \in Call
      BY <3>1 DEF Call
    <3>. QED
      BY <1>38, <3>2, CallUpdate DEF OpenRead, CallTypes, callRest
  <2>2. OsTypes' /\ SetTypes' /\ RecordTypes' /\ ThreadTypes' /\ BoundTypes'
    BY <1>38 DEF OpenRead, OsTypes, SetTypes, RecordTypes, ThreadTypes, BoundTypes
  <2>. QED
    BY <2>1, <2>2
<1>39. ASSUME NEW c \in Callers, CallUnlink(c) PROVE TypeOK'
  <2>1. RecordTypes'
    BY <1>39 DEF CallUnlink, To, RecordTypes, Meta, Statuses, Terminal
  <2>2. CallTypes'
    BY <1>39 DEF CallUnlink, To, CallTypes, Call, Sweep, Idle, Off, NoMeta, Meta,
       Statuses, Terminal
  <2>3. OsTypes' /\ SetTypes' /\ ThreadTypes' /\ BoundTypes'
    BY <1>39 DEF CallUnlink, To, OsTypes, SetTypes, ThreadTypes, BoundTypes
  <2>. QED
    BY <2>1, <2>2, <2>3
<1>40. ASSUME NEW c \in Callers, CallWriteFails(c) PROVE TypeOK'
  <2>1. CallTypes'
    BY <1>40, ReturnTypes DEF CallWriteFails, CallTypes, callRest
  <2>2. BoundTypes'
    BY FaultsAssumption, <1>40 DEF CallWriteFails, Return, Fault, BoundTypes
  <2>3. OsTypes' /\ SetTypes' /\ RecordTypes' /\ ThreadTypes'
    BY <1>40 DEF CallWriteFails, Return, Fault, OsTypes, SetTypes, RecordTypes,
       ThreadTypes
  <2>. QED
    BY <2>1, <2>2, <2>3
<1>41. ASSUME NEW c \in Callers, CancelWrite(c) PROVE TypeOK'
  <2>1. RecordTypes'
    BY <1>41, MetaUpdate DEF CancelWrite, RecordTypes, CallTypes, Call, leaseVars
  <2>2. CallTypes'
    BY <1>41 DEF CancelWrite, To, CallTypes, Call, Sweep, Idle, Off, NoMeta, Meta,
       Statuses, Terminal
  <2>3. OsTypes' /\ SetTypes' /\ ThreadTypes' /\ BoundTypes'
    BY <1>41 DEF CancelWrite, To, OsTypes, SetTypes, ThreadTypes, BoundTypes
  <2>. QED
    BY <2>1, <2>2, <2>3
<1>42. ASSUME NEW c \in Callers, CancelKill(c) PROVE TypeOK'
  <2>1. OsTypes'
    BY <1>42, KillTypes DEF CancelKill
  <2>2. CallTypes'
    BY <1>42 DEF CancelKill, To, Kill, CallTypes, Call, Sweep, Idle, Off, NoMeta,
       Meta, Statuses, Terminal
  <2>3. SetTypes' /\ RecordTypes' /\ ThreadTypes' /\ BoundTypes'
    BY <1>42 DEF CancelKill, To, Kill, SetTypes, RecordTypes, ThreadTypes, BoundTypes
  <2>. QED
    BY <2>1, <2>2, <2>3
<1>43. ASSUME NEW c \in Callers, CancelPop(c) PROVE TypeOK'
  <2>1. OsTypes'
    BY <1>43 DEF CancelPop, To, Reaped, OsTypes
  <2>2. SetTypes'
    BY <1>43 DEF CancelPop, To, Reaped, SetTypes
  <2>3. CallTypes'
    BY <1>43 DEF CancelPop, To, Reaped, CallTypes, Call, Sweep, Idle, Off, NoMeta,
       Meta, Statuses, Terminal
  <2>4. RecordTypes' /\ ThreadTypes' /\ BoundTypes'
    BY <1>43 DEF CancelPop, To, Reaped, RecordTypes, ThreadTypes, BoundTypes
  <2>. QED
    BY <2>1, <2>2, <2>3, <2>4
<1>44. ASSUME NEW c \in Callers, CancelSave(c) PROVE TypeOK'
  <2>1. RecordTypes'
    <3>1. [caller[c].copy EXCEPT !.status = "cancelled"] \in Meta
      BY CopyUpdate DEF CallTypes, Call, Statuses, Terminal
    <3>. QED
      BY <1>44, <3>1, MetaUpdate DEF CancelSave, RecordTypes, leaseVars
  <2>2. CallTypes'
    BY <1>44, ReturnTypes DEF CancelSave, CallTypes, callRest
  <2>3. OsTypes' /\ SetTypes' /\ ThreadTypes' /\ BoundTypes'
    BY <1>44 DEF CancelSave, Return, OsTypes, SetTypes, ThreadTypes, BoundTypes
  <2>. QED
    BY <2>1, <2>2, <2>3
<1>45. ASSUME NEW c \in Callers, GetLook(c) PROVE TypeOK'
  <2>1. OsTypes'
    BY <1>45 DEF GetLook, StillRunning, GroupRunning, Reaped, OsTypes
  <2>2. SetTypes'
    BY <1>45 DEF GetLook, StillRunning, GroupRunning, Reaped, SetTypes
  <2>3. CallTypes'
    <3>1. caller' \in [Callers -> Call]
      BY <1>45, LookOutcome
    <3>. QED
      BY <1>45, <3>1 DEF GetLook, CallTypes
  <2>4. RecordTypes' /\ ThreadTypes' /\ BoundTypes'
    BY <1>45 DEF GetLook, StillRunning, GroupRunning, Reaped, RecordTypes,
       ThreadTypes, BoundTypes
  <2>. QED
    BY <2>1, <2>2, <2>3, <2>4
<1>46. ASSUME NEW c \in Callers, GetKill(c) PROVE TypeOK'
  <2>1. OsTypes'
    BY <1>46, KillTypes DEF GetKill
  <2>2. CallTypes'
    BY <1>46 DEF GetKill, To, Kill, CallTypes, Call, Sweep, Idle, Off, NoMeta, Meta,
       Statuses, Terminal
  <2>3. SetTypes' /\ RecordTypes' /\ ThreadTypes' /\ BoundTypes'
    BY <1>46 DEF GetKill, To, Kill, SetTypes, RecordTypes, ThreadTypes, BoundTypes
  <2>. QED
    BY <2>1, <2>2, <2>3
<1>47. ASSUME NEW c \in Callers, GetReadLock(c) PROVE TypeOK'
  <2>1. CallTypes'
    BY <1>47 DEF GetReadLock, To, CallTypes, Call, Sweep, Idle, Off, NoMeta, Meta,
       Statuses, Terminal
  <2>2. OsTypes' /\ SetTypes' /\ RecordTypes' /\ ThreadTypes' /\ BoundTypes'
    BY <1>47 DEF GetReadLock, To, OsTypes, SetTypes, RecordTypes, ThreadTypes,
       BoundTypes
  <2>. QED
    BY <2>1, <2>2
<1>48. ASSUME NEW c \in Callers, GetSave(c) PROVE TypeOK'
  <2>1. RecordTypes'
    BY <1>48, MetaUpdate DEF GetSave, RecordTypes, CallTypes, Call, leaseVars
  <2>2. CallTypes'
    BY <1>48, ReturnTypes DEF GetSave, CallTypes, callRest
  <2>3. OsTypes' /\ SetTypes' /\ ThreadTypes' /\ BoundTypes'
    BY <1>48 DEF GetSave, Return, OsTypes, SetTypes, ThreadTypes, BoundTypes
  <2>. QED
    BY <2>1, <2>2, <2>3
<1>49. ASSUME NEW c \in Callers, OpenReconcile(c) PROVE TypeOK'
  <2>1. RecordTypes'
    <3>1. [caller[c].copy EXCEPT !.status = "failed"] \in Meta
      BY CopyUpdate DEF CallTypes, Call, Statuses, Terminal
    <3>. QED
      BY <1>49, <3>1, MetaUpdate DEF OpenReconcile, RecordTypes, leaseVars
  <2>2. CallTypes'
    BY <1>49, ReturnTypes DEF OpenReconcile, CallTypes, callRest
  <2>3. OsTypes' /\ SetTypes' /\ ThreadTypes' /\ BoundTypes'
    BY <1>49 DEF OpenReconcile, Return, OsTypes, SetTypes, ThreadTypes, BoundTypes
  <2>. QED
    BY <2>1, <2>2, <2>3
<1>50. ASSUME NEW j \in Jobs, SweepRead(j) PROVE TypeOK'
  <2>1. CallTypes'
    <3>1. [sweep EXCEPT !.at = "kill", !.job = j, !.copy = meta[j]] \in Sweep
      BY DEF CallTypes, RecordTypes, Sweep
    <3>2. [sweep EXCEPT !.todo = @ \ {j}] \in Sweep
      BY DEF CallTypes, Sweep
    <3>. QED
      BY <1>50, <3>1, <3>2 DEF SweepRead, CallTypes
  <2>2. OsTypes' /\ SetTypes' /\ RecordTypes' /\ ThreadTypes' /\ BoundTypes'
    BY <1>50 DEF SweepRead, Unfinished, OsTypes, SetTypes, RecordTypes, ThreadTypes,
       BoundTypes
  <2>. QED
    BY <2>1, <2>2
<1>51. ASSUME SweepBegin PROVE TypeOK'
  <2>1. SetTypes'
    BY <1>51 DEF SweepBegin, Off, SetTypes
  <2>2. CallTypes'
    <3>1. [Off EXCEPT !.at = "next", !.todo = procs] \in Sweep
      BY IdleTypes DEF SetTypes, Sweep
    <3>. QED
      BY <1>51, <3>1 DEF SweepBegin, CallTypes
  <2>3. BoundTypes'
    BY FaultsAssumption, <1>51 DEF SweepBegin, Off, BoundTypes
  <2>4. OsTypes' /\ RecordTypes' /\ ThreadTypes'
    BY <1>51 DEF SweepBegin, Off, OsTypes, RecordTypes, ThreadTypes
  <2>. QED
    BY <2>1, <2>2, <2>3, <2>4
<1>52. ASSUME SweepKill PROVE TypeOK'
  <2>1. OsTypes'
    BY <1>52, KillTypes DEF SweepKill
  <2>2. CallTypes'
    BY <1>52 DEF SweepKill, Kill, CallTypes, Call, Sweep, Idle, Off, NoMeta, Meta,
       Statuses, Terminal
  <2>3. SetTypes' /\ RecordTypes' /\ ThreadTypes' /\ BoundTypes'
    BY <1>52 DEF SweepKill, Kill, SetTypes, RecordTypes, ThreadTypes, BoundTypes
  <2>. QED
    BY <2>1, <2>2, <2>3
<1>53. ASSUME SweepWrite PROVE TypeOK'
  <2>1. RecordTypes'
    <3>1. [sweep.copy EXCEPT !.status = "cancelled"] \in Meta
      BY CopyUpdate DEF CallTypes, Sweep, Statuses, Terminal
    <3>2. meta' \in [Jobs -> Meta]
      BY <1>53, <3>1, MetaUpdate DEF SweepWrite, RecordTypes
    <3>. QED
      BY <1>53, <3>2 DEF SweepWrite, RecordTypes, leaseVars
  <2>2. CallTypes'
    <3>1. [Off EXCEPT !.at = "next", !.todo = sweep.todo \ {sweep.job}] \in Sweep
      BY IdleTypes DEF CallTypes, Sweep
    <3>. QED
      BY <1>53, <3>1 DEF SweepWrite, CallTypes
  <2>3. OsTypes' /\ SetTypes' /\ ThreadTypes' /\ BoundTypes'
    BY <1>53 DEF SweepWrite, Off, OsTypes, SetTypes, ThreadTypes, BoundTypes
  <2>. QED
    BY <2>1, <2>2, <2>3
<1>54. ASSUME Exit PROVE TypeOK'
  <2>1. OsTypes'
    BY <1>54 DEF Exit, NewServer, OsTypes
  <2>2. SetTypes'
    BY <1>54 DEF Exit, NewServer, SetTypes
  <2>3. RecordTypes'
    BY <1>54 DEF Exit, NewServer, RecordTypes, Meta, Statuses, Terminal
  <2>4. ThreadTypes'
    BY <1>54 DEF Exit, NewServer, ThreadTypes
  <2>5. CallTypes'
    BY <1>54, IdleTypes DEF Exit, NewServer, CallTypes
  <2>6. BoundTypes'
    BY <1>54 DEF Exit, NewServer, BoundTypes
  <2>. QED
    BY <2>1, <2>2, <2>3, <2>4, <2>5, <2>6
<1>55. ASSUME Crash PROVE TypeOK'
  <2>1. OsTypes'
    BY <1>55 DEF Crash, NewServer, OsTypes
  <2>2. SetTypes'
    BY <1>55 DEF Crash, NewServer, SetTypes
  <2>3. RecordTypes'
    BY <1>55 DEF Crash, NewServer, RecordTypes, Meta, Statuses, Terminal
  <2>4. ThreadTypes'
    BY <1>55 DEF Crash, NewServer, ThreadTypes
  <2>5. CallTypes'
    BY <1>55, IdleTypes DEF Crash, NewServer, CallTypes
  <2>6. BoundTypes'
    BY FaultsAssumption, <1>55 DEF Crash, NewServer, BoundTypes
  <2>. QED
    BY <2>1, <2>2, <2>3, <2>4, <2>5, <2>6
<1>56. CASE UNCHANGED vars
  <2>. USE <1>56 DEF vars, osVars, diskVars, memVars, leaseVars, threadVars, boundVars
  <2>1. OsTypes' /\ SetTypes' /\ BoundTypes'
    BY DEF OsTypes, SetTypes, BoundTypes
  <2>2. RecordTypes' /\ ThreadTypes' /\ CallTypes'
    BY DEF RecordTypes, ThreadTypes, CallTypes
  <2>. QED
    BY <2>1, <2>2
<1>. QED
  BY <1>1, <1>2, <1>3, <1>4, <1>5, <1>6, <1>7, <1>8, <1>9, <1>10, <1>11,
     <1>12, <1>13, <1>14, <1>15, <1>16, <1>17, <1>18, <1>19, <1>20, <1>21,
     <1>22, <1>23, <1>24, <1>25, <1>26, <1>27, <1>28, <1>29, <1>30, <1>31,
     <1>32, <1>33, <1>34, <1>35, <1>36, <1>37, <1>38, <1>39, <1>40, <1>41,
     <1>42, <1>43, <1>44, <1>45, <1>46, <1>47, <1>48, <1>49, <1>50, <1>51,
     <1>52, <1>53, <1>54, <1>55, <1>56
     DEF Next, StartStep, FinishStep, WatchStep, ProcessStep, CallBegin, CallStep, ServerStep

-----------------------------------------------------------------------------
(* The lease of a running command. Its releasing steps are safe because the  *)
(* process is reaped before the finisher drains (ReapedFirst), because the   *)
(* finisher starts after the process (FinisherLater), and because a start    *)
(* that is undone had no process yet or killed it (NotLaunched).             *)

NotLaunched ==
    \A j \in Jobs : start[j] \in {"idle", "unlink", "acquire", "open"} => leader[j] = "none"
OpenIsLeased == \A j \in Jobs : start[j] = "open" => j \in leased /\ j \in held
ReapedFirst ==
    \A j \in Jobs : finish[j] \notin {"off", "wait", "lost"} => leader[j] # "alive"
FinisherLater ==
    \A j \in Jobs : start[j] \in {"idle", "unlink", "acquire", "open", "save", "register",
                                  "finisher"} => finish[j] = "off"

LeaseInv == NotLaunched /\ OpenIsLeased /\ ReapedFirst /\ FinisherLater /\ RunningIsLeased

\* Killing a group starts no shell and, where there was none, leaves none.
LEMMA KillStartsNothing ==
    ASSUME OsTypes, NEW j, Kill(j), NEW k \in Jobs
    PROVE  /\ leader'[k] = "alive" => leader[k] = "alive"
           /\ leader[k] = "none" => leader'[k] = "none"
  BY DEF Kill, OsTypes

\* Reaping a shell starts none either.
LEMMA ReapStartsNothing ==
    ASSUME OsTypes, NEW j, NEW k \in Jobs
    PROVE  /\ Reaped(j)[k] = "alive" => leader[k] = "alive"
           /\ leader[k] = "none" => Reaped(j)[k] = "none"
  BY DEF Reaped, OsTypes

\* The lease invariant is inductive.
LEMMA LeaseStep == TypeOK /\ LeaseInv /\ [Next]_vars => LeaseInv'
<1>. SUFFICES ASSUME TypeOK, LeaseInv, [Next]_vars PROVE LeaseInv'
  OBVIOUS
<1>. USE CallerKinds DEF TypeOK, OsTypes, SetTypes, ThreadTypes, LeaseInv, NotLaunched, OpenIsLeased,
     ReapedFirst, FinisherLater, RunningIsLeased, Live,
     osVars, diskVars, memVars, leaseVars, threadVars, startRest, finishRest, watchRest, callRest, boundVars
<1>1. ASSUME NEW j \in Jobs, CheckLock(j) PROVE LeaseInv'
  BY <1>1 DEF CheckLock, PidRunning
<1>2. ASSUME NEW j \in Jobs, UnlinkStale(j) PROVE LeaseInv'
  BY <1>2 DEF UnlinkStale
<1>3. ASSUME NEW j \in Jobs, Acquire(j) PROVE LeaseInv'
  BY <1>3 DEF Acquire, FreeLease
<1>4. ASSUME NEW j \in Jobs, Launch(j) PROVE LeaseInv'
  BY <1>4 DEF Launch
<1>5. ASSUME NEW j \in Jobs, LaunchStopped(j) PROVE LeaseInv'
  BY <1>5 DEF LaunchStopped, Undo
<1>6. ASSUME NEW j \in Jobs, LaunchFails(j) PROVE LeaseInv'
  BY <1>6 DEF LaunchFails, Undo, Fault
<1>7. ASSUME NEW j \in Jobs, SaveMeta(j) PROVE LeaseInv'
  BY <1>7 DEF SaveMeta, NewMeta, NoMeta
<1>8. ASSUME NEW j \in Jobs, SaveFails(j) PROVE LeaseInv'
  BY <1>8 DEF SaveFails, Undo, Fault
<1>9. ASSUME NEW j \in Jobs, Register(j) PROVE LeaseInv'
  BY <1>9 DEF Register
<1>10. ASSUME NEW j \in Jobs, StartFinisher(j) PROVE LeaseInv'
  BY <1>10 DEF StartFinisher
<1>11. ASSUME NEW j \in Jobs, WriteLock(j) PROVE LeaseInv'
  BY <1>11 DEF WriteLock
<1>12. ASSUME NEW j \in Jobs, WriteLockFails(j) PROVE LeaseInv'
  BY <1>12 DEF WriteLockFails, Fault
<1>13. ASSUME NEW j \in Jobs, StartWatcher(j) PROVE LeaseInv'
  BY <1>13 DEF StartWatcher
<1>14. ASSUME NEW j \in Jobs, FinisherWait(j) PROVE LeaseInv'
  BY <1>14, ReapStartsNothing DEF FinisherWait
<1>15. ASSUME NEW j \in Jobs, FinalizeDrains(j) PROVE LeaseInv'
  BY <1>15 DEF FinalizeDrains
<1>16. ASSUME NEW j \in Jobs, Publish(j) PROVE LeaseInv'
  BY <1>16 DEF Publish, MayPublish, FinalStatus
<1>17. ASSUME NEW j \in Jobs, PublishFails(j) PROVE LeaseInv'
  BY <1>17 DEF PublishFails, Fault, MayPublish
<1>18. ASSUME NEW j \in Jobs, FinisherReadLock(j) PROVE LeaseInv'
  BY <1>18 DEF FinisherReadLock
<1>19. ASSUME NEW j \in Jobs, FinisherUnlink(j) PROVE LeaseInv'
  BY <1>19 DEF FinisherUnlink
<1>20. ASSUME NEW j \in Jobs, FinisherEnd(j) PROVE LeaseInv'
  BY <1>20 DEF FinisherEnd
<1>21. ASSUME NEW j \in Jobs, WatcherMark(j) PROVE LeaseInv'
  BY <1>21 DEF WatcherMark, GroupRunning
<1>22. ASSUME NEW j \in Jobs, WatcherMarkFails(j) PROVE LeaseInv'
  BY <1>22 DEF WatcherMarkFails, Fault, GroupRunning
<1>23. ASSUME NEW j \in Jobs, WatcherKill(j) PROVE LeaseInv'
  BY <1>23, KillStartsNothing DEF WatcherKill
<1>24. ASSUME NEW j \in Jobs, WatcherPop(j) PROVE LeaseInv'
  BY <1>24, ReapStartsNothing DEF WatcherPop
<1>25. ASSUME NEW j \in Jobs, WatcherFinal(j) PROVE LeaseInv'
  BY <1>25 DEF WatcherFinal
<1>26. ASSUME NEW j \in Jobs, WatcherFinalFails(j) PROVE LeaseInv'
  BY <1>26 DEF WatcherFinalFails, Fault
<1>27. ASSUME NEW j \in Jobs, WatcherUnlink(j) PROVE LeaseInv'
  BY <1>27 DEF WatcherUnlink
<1>28. ASSUME NEW j \in Jobs, WatcherRelease(j) PROVE LeaseInv'
  BY <1>28 DEF WatcherRelease
<1>29. ASSUME NEW j \in Jobs, LeaderExits(j) PROVE LeaseInv'
  BY <1>29 DEF LeaderExits
<1>30. ASSUME NEW j \in Jobs, OthersExit(j) PROVE LeaseInv'
  BY <1>30 DEF OthersExit
<1>31. ASSUME NEW j \in Jobs, PipeEnds(j) PROVE LeaseInv'
  BY <1>31 DEF PipeEnds
<1>32. ASSUME NEW j \in Jobs, CaptureFails(j) PROVE LeaseInv'
  BY <1>32 DEF CaptureFails, Fault
<1>33. ASSUME NEW j \in Jobs, InitReaps(j) PROVE LeaseInv'
  BY <1>33, ReapStartsNothing DEF InitReaps
<1>34. ASSUME NEW j \in Jobs, TimeElapses(j) PROVE LeaseInv'
  BY <1>34 DEF TimeElapses, Saved
<1>35. ASSUME NEW j \in Jobs, AskCancel(j) PROVE LeaseInv'
  BY <1>35 DEF AskCancel
<1>36. ASSUME NEW c \in Cancellers, NEW j \in Jobs, CancelRead(c, j) PROVE LeaseInv'
  BY <1>36 DEF CancelRead, Saved
<1>37. ASSUME NEW c \in Getters, NEW j \in Jobs, GetRead(c, j) PROVE LeaseInv'
  BY <1>37 DEF GetRead, Saved
<1>38. ASSUME NEW c \in Openers, NEW j \in Jobs, OpenRead(c, j) PROVE LeaseInv'
  BY <1>38 DEF OpenRead
<1>39. ASSUME NEW c \in Callers, CallUnlink(c) PROVE LeaseInv'
  BY <1>39 DEF CallUnlink, To
<1>40. ASSUME NEW c \in Callers, CallWriteFails(c) PROVE LeaseInv'
  BY <1>40 DEF CallWriteFails, Return, Fault
<1>41. ASSUME NEW c \in Callers, CancelWrite(c) PROVE LeaseInv'
  BY <1>41 DEF CancelWrite, To
<1>42. ASSUME NEW c \in Callers, CancelKill(c) PROVE LeaseInv'
  BY <1>42, KillStartsNothing DEF CancelKill
<1>43. ASSUME NEW c \in Callers, CancelPop(c) PROVE LeaseInv'
  BY <1>43, ReapStartsNothing DEF CancelPop
<1>44. ASSUME NEW c \in Callers, CancelSave(c) PROVE LeaseInv'
  BY <1>44 DEF CancelSave, Return
<1>45. ASSUME NEW c \in Callers, GetLook(c) PROVE LeaseInv'
  <2>1. UNCHANGED <<start, finish, leased, held>>
    BY <1>45 DEF GetLook
  <2>2. leader' = leader \/ leader' = Reaped(caller[c].job)
    BY <1>45 DEF GetLook
  <2>3. NotLaunched'
    BY <2>1, <2>2, ReapStartsNothing
  <2>4. OpenIsLeased'
    BY <2>1
  <2>5. FinisherLater'
    BY <2>1
  <2>6. ReapedFirst'
    BY <2>1, <2>2, ReapStartsNothing
  <2>7. RunningIsLeased'
    BY <2>1, <2>2, ReapStartsNothing
  <2>. QED
    BY <2>3, <2>4, <2>5, <2>6, <2>7
<1>46. ASSUME NEW c \in Callers, GetKill(c) PROVE LeaseInv'
  BY <1>46, KillStartsNothing DEF GetKill
<1>47. ASSUME NEW c \in Callers, GetReadLock(c) PROVE LeaseInv'
  BY <1>47 DEF GetReadLock, To
<1>48. ASSUME NEW c \in Callers, GetSave(c) PROVE LeaseInv'
  BY <1>48 DEF GetSave, Return
<1>49. ASSUME NEW c \in Callers, OpenReconcile(c) PROVE LeaseInv'
  BY <1>49 DEF OpenReconcile, Return
<1>50. ASSUME NEW j \in Jobs, SweepRead(j) PROVE LeaseInv'
  BY <1>50 DEF SweepRead, Unfinished
<1>51. ASSUME SweepBegin PROVE LeaseInv'
  BY <1>51 DEF SweepBegin, Off
<1>52. ASSUME SweepKill PROVE LeaseInv'
  BY <1>52, KillStartsNothing DEF SweepKill
<1>53. ASSUME SweepWrite PROVE LeaseInv'
  BY <1>53 DEF SweepWrite, Off
<1>54. ASSUME Exit PROVE LeaseInv'
  BY <1>54 DEF Exit, NewServer
<1>55. ASSUME Crash PROVE LeaseInv'
  BY <1>55 DEF Crash, NewServer
<1>56. CASE UNCHANGED vars
  BY <1>56 DEF vars, osVars, diskVars, memVars, leaseVars, threadVars, boundVars
<1>. HIDE DEF TypeOK, OsTypes, SetTypes, ThreadTypes, LeaseInv
<1>. QED
  BY <1>1, <1>2, <1>3, <1>4, <1>5, <1>6, <1>7, <1>8, <1>9, <1>10, <1>11,
     <1>12, <1>13, <1>14, <1>15, <1>16, <1>17, <1>18, <1>19, <1>20, <1>21,
     <1>22, <1>23, <1>24, <1>25, <1>26, <1>27, <1>28, <1>29, <1>30, <1>31,
     <1>32, <1>33, <1>34, <1>35, <1>36, <1>37, <1>38, <1>39, <1>40, <1>41,
     <1>42, <1>43, <1>44, <1>45, <1>46, <1>47, <1>48, <1>49, <1>50, <1>51,
     <1>52, <1>53, <1>54, <1>55, <1>56
     DEF Next, StartStep, FinishStep, WatchStep, ProcessStep, CallBegin, CallStep, ServerStep

-----------------------------------------------------------------------------
(* The limit on heavy operations: jobs only gain a lease in Acquire, which    *)
(* finds one free, and a running command is leased.                          *)

\* No step but Acquire adds a lease.
LEMMA LeasesShrink ==
    ASSUME [Next]_vars PROVE leased' \subseteq leased \/ \E j \in Jobs : Acquire(j) /\ FreeLease
<1>. USE DEF osVars, diskVars, memVars, leaseVars, threadVars, startRest, finishRest, watchRest,
     callRest, boundVars
<1>1. ASSUME NEW j \in Jobs, StartStep(j)
      PROVE  leased' \subseteq leased \/ \E k \in Jobs : Acquire(k) /\ FreeLease
  <2>1. CASE Acquire(j)
    BY <2>1 DEF Acquire
  <2>2. CASE ~Acquire(j)
    BY <1>1, <2>2 DEF StartStep, CheckLock, UnlinkStale, Launch, LaunchStopped,
       LaunchFails,
       SaveMeta, SaveFails, Undo, Register, StartFinisher, WriteLock, WriteLockFails, StartWatcher
  <2>. QED
    BY <2>1, <2>2
<1>2. ASSUME NEW j \in Jobs, FinishStep(j) PROVE leased' \subseteq leased
  BY <1>2 DEF FinishStep, FinisherWait, FinalizeDrains, Publish, PublishFails,
     FinisherReadLock,
     FinisherUnlink, FinisherEnd
<1>3. ASSUME NEW j \in Jobs, WatchStep(j) PROVE leased' \subseteq leased
  BY <1>3 DEF WatchStep, WatcherMark, WatcherMarkFails, WatcherKill, WatcherPop,
     WatcherFinal,
     WatcherFinalFails, WatcherUnlink, WatcherRelease
<1>4. ASSUME NEW j \in Jobs, ProcessStep(j) PROVE leased' \subseteq leased
  BY <1>4 DEF ProcessStep, LeaderExits, OthersExit, PipeEnds, CaptureFails, InitReaps,
     TimeElapses, AskCancel
<1>5. ASSUME CallBegin PROVE leased' \subseteq leased
  BY <1>5 DEF CallBegin, CancelRead, GetRead, OpenRead
<1>6. ASSUME NEW c \in Callers, CallStep(c) PROVE leased' \subseteq leased
  BY <1>6 DEF CallStep, CallUnlink, CallWriteFails, CancelWrite, CancelKill,
     CancelPop,
     CancelSave, GetLook, GetKill, GetReadLock, GetSave, OpenReconcile
<1>7. ASSUME ServerStep PROVE leased' \subseteq leased
  BY <1>7 DEF ServerStep, SweepBegin, SweepRead, SweepKill, SweepWrite, Exit, Crash,
     NewServer
<1>8. CASE UNCHANGED vars
  BY <1>8 DEF vars
<1>. QED
  BY <1>1, <1>2, <1>3, <1>4, <1>5, <1>6, <1>7, <1>8 DEF Next

LeaseBound == Cardinality(leased) <= Capacity

\* The number of leases stays within the limit.
LEMMA LeaseBoundStep == TypeOK /\ LeaseBound /\ [Next]_vars => LeaseBound'
<1>. SUFFICES ASSUME TypeOK, LeaseBound, [Next]_vars PROVE LeaseBound'
  OBVIOUS
<1>1. IsFiniteSet(leased)
  BY JobsAssumption, FS_Subset DEF TypeOK, SetTypes
<1>2. CASE leased' \subseteq leased
  <2>1. Cardinality(leased') <= Cardinality(leased) /\ IsFiniteSet(leased')
    BY <1>1, <1>2, FS_Subset
  <2>. QED
    BY <1>1, <2>1, CapacityAssumption, FS_CardinalityType DEF LeaseBound
<1>3. ASSUME NEW j \in Jobs, Acquire(j), FreeLease PROVE LeaseBound'
  <2>1. leased' = leased \cup {j}
    BY <1>3 DEF Acquire
  <2>2. /\ IsFiniteSet(leased')
        /\ Cardinality(leased') = Cardinality(leased) \/ Cardinality(leased') = Cardinality(leased) + 1
    BY <1>1, <2>1, FS_AddElement
  <2>3. Cardinality(leased) \in Nat /\ Cardinality(leased') \in Nat
    BY <1>1, <2>2, FS_CardinalityType
  <2>. QED
    BY <1>3, <2>2, <2>3, CapacityAssumption DEF LeaseBound, FreeLease
<1>. QED
  BY <1>2, <1>3, LeasesShrink

\* With as many leases as the limit, at most that many commands run.
LEMMA LeasedBoundsRunning == TypeOK /\ RunningIsLeased /\ LeaseBound => HeavyBound
<1>. SUFFICES ASSUME TypeOK, RunningIsLeased, LeaseBound PROVE HeavyBound
  OBVIOUS
<1>. DEFINE Running == {j \in Jobs : Live(j)}
<1>1. Running \subseteq leased
  BY DEF RunningIsLeased
<1>2. IsFiniteSet(leased)
  BY JobsAssumption, FS_Subset DEF TypeOK, SetTypes
<1>3. /\ IsFiniteSet(Running) /\ Cardinality(Running) <= Cardinality(leased)
  BY <1>1, <1>2, FS_Subset
<1>4. Cardinality(Running) \in Nat /\ Cardinality(leased) \in Nat
  BY <1>2, <1>3, FS_CardinalityType
<1>. QED
  BY <1>3, <1>4, CapacityAssumption DEF LeaseBound, HeavyBound

-----------------------------------------------------------------------------
(* The cause of a verdict. Every copy of metadata that a call or the sweep   *)
(* holds blames a timeout or a cancellation only with cause, so writing it   *)
(* back, however late, does no harm; a canceller's job was asked to stop.    *)

Blame(m, j) ==
    /\ m.timed_out \/ m.status = "timed_out" => j \in elapsed
    /\ m.cancel_requested => j \in asked
    /\ m.status = "cancelled" => j \in asked \/ restarts > 0

MetaBlame == \A j \in Jobs : Blame(meta[j], j)
CallBlame == \A c \in Callers : \A j \in Jobs :
                caller[c].job = j => Blame(caller[c].copy, j)
CancelAsked == \A c \in Callers : \A j \in Jobs :
                  caller[c].job = j
                  /\ caller[c].at \in {"c_write", "c_kill", "c_pop", "c_unlink", "c_save"}
                     => j \in asked
SweepBlame == /\ \A j \in Jobs : sweep.job = j => Blame(sweep.copy, j)
              /\ sweep.at # "off" => restarts > 0
WatcherLate == \A j \in Jobs : watch[j] \in {"kill", "pop", "final", "unlink", "release",
                                             "expired"} => j \in elapsed

CauseInv == MetaBlame /\ CallBlame /\ CancelAsked /\ SweepBlame /\ WatcherLate

\* The finisher blames what the metadata blames.
LEMMA FinalStatusBlame ==
    ASSUME NEW m \in Meta, NEW j, NEW failed \in BOOLEAN, NEW rc, Blame(m, j)
    PROVE  Blame([m EXCEPT !.status = FinalStatus(m, failed, rc)], j)
  BY DEF FinalStatus, Blame, Meta, Statuses, Terminal

\* The cause invariant is inductive.
LEMMA CauseStep == TypeOK /\ CauseInv /\ [Next]_vars => CauseInv'
<1>. SUFFICES ASSUME TypeOK, CauseInv, [Next]_vars PROVE CauseInv'
  OBVIOUS
<1>. USE CallerKinds DEF TypeOK, SetTypes, RecordTypes, ThreadTypes, CallTypes, BoundTypes,
     CauseInv, MetaBlame, CallBlame, CancelAsked, SweepBlame, WatcherLate, Blame,
     osVars, diskVars, memVars, leaseVars, threadVars, startRest, finishRest, watchRest, callRest, boundVars
<1>1. ASSUME NEW j \in Jobs, CheckLock(j) PROVE CauseInv'
  BY <1>1 DEF CheckLock, PidRunning
<1>2. ASSUME NEW j \in Jobs, UnlinkStale(j) PROVE CauseInv'
  BY <1>2 DEF UnlinkStale
<1>3. ASSUME NEW j \in Jobs, Acquire(j) PROVE CauseInv'
  BY <1>3 DEF Acquire, FreeLease
<1>4. ASSUME NEW j \in Jobs, Launch(j) PROVE CauseInv'
  BY <1>4 DEF Launch
<1>5. ASSUME NEW j \in Jobs, LaunchStopped(j) PROVE CauseInv'
  BY <1>5 DEF LaunchStopped, Undo
<1>6. ASSUME NEW j \in Jobs, LaunchFails(j) PROVE CauseInv'
  BY <1>6 DEF LaunchFails, Undo, Fault
<1>7. ASSUME NEW j \in Jobs, SaveMeta(j) PROVE CauseInv'
  BY <1>7 DEF SaveMeta, NewMeta, NoMeta
<1>8. ASSUME NEW j \in Jobs, SaveFails(j) PROVE CauseInv'
  BY <1>8 DEF SaveFails, Undo, Fault
<1>9. ASSUME NEW j \in Jobs, Register(j) PROVE CauseInv'
  BY <1>9 DEF Register
<1>10. ASSUME NEW j \in Jobs, StartFinisher(j) PROVE CauseInv'
  BY <1>10 DEF StartFinisher
<1>11. ASSUME NEW j \in Jobs, WriteLock(j) PROVE CauseInv'
  BY <1>11 DEF WriteLock
<1>12. ASSUME NEW j \in Jobs, WriteLockFails(j) PROVE CauseInv'
  BY <1>12 DEF WriteLockFails, Fault
<1>13. ASSUME NEW j \in Jobs, StartWatcher(j) PROVE CauseInv'
  BY <1>13 DEF StartWatcher
<1>14. ASSUME NEW j \in Jobs, FinisherWait(j) PROVE CauseInv'
  BY <1>14 DEF FinisherWait, Reaped
<1>15. ASSUME NEW j \in Jobs, FinalizeDrains(j) PROVE CauseInv'
  BY <1>15 DEF FinalizeDrains
<1>16. ASSUME NEW j \in Jobs, Publish(j) PROVE CauseInv'
  BY <1>16 DEF Publish, MayPublish, FinalStatus
<1>17. ASSUME NEW j \in Jobs, PublishFails(j) PROVE CauseInv'
  BY <1>17 DEF PublishFails, Fault, MayPublish
<1>18. ASSUME NEW j \in Jobs, FinisherReadLock(j) PROVE CauseInv'
  BY <1>18 DEF FinisherReadLock
<1>19. ASSUME NEW j \in Jobs, FinisherUnlink(j) PROVE CauseInv'
  BY <1>19 DEF FinisherUnlink
<1>20. ASSUME NEW j \in Jobs, FinisherEnd(j) PROVE CauseInv'
  BY <1>20 DEF FinisherEnd
<1>21. ASSUME NEW j \in Jobs, WatcherMark(j) PROVE CauseInv'
  <2>1. MetaBlame'
    BY SMTT(20), <1>21 DEF WatcherMark, GroupRunning, Meta, Call, Sweep
  <2>2. CallBlame' /\ CancelAsked'
    BY <1>21, NoJobAssumption DEF WatcherMark, GroupRunning, Idle
  <2>3. SweepBlame' /\ WatcherLate'
    BY <1>21, NoJobAssumption DEF WatcherMark, GroupRunning, Off
  <2>. QED
    BY <2>1, <2>2, <2>3
<1>22. ASSUME NEW j \in Jobs, WatcherMarkFails(j) PROVE CauseInv'
  BY <1>22 DEF WatcherMarkFails, Fault, GroupRunning
<1>23. ASSUME NEW j \in Jobs, WatcherKill(j) PROVE CauseInv'
  BY <1>23 DEF WatcherKill, Kill
<1>24. ASSUME NEW j \in Jobs, WatcherPop(j) PROVE CauseInv'
  BY <1>24 DEF WatcherPop, Reaped
<1>25. ASSUME NEW j \in Jobs, WatcherFinal(j) PROVE CauseInv'
  BY <1>25 DEF WatcherFinal
<1>26. ASSUME NEW j \in Jobs, WatcherFinalFails(j) PROVE CauseInv'
  BY <1>26 DEF WatcherFinalFails, Fault
<1>27. ASSUME NEW j \in Jobs, WatcherUnlink(j) PROVE CauseInv'
  BY <1>27 DEF WatcherUnlink
<1>28. ASSUME NEW j \in Jobs, WatcherRelease(j) PROVE CauseInv'
  BY <1>28 DEF WatcherRelease
<1>29. ASSUME NEW j \in Jobs, LeaderExits(j) PROVE CauseInv'
  BY <1>29 DEF LeaderExits
<1>30. ASSUME NEW j \in Jobs, OthersExit(j) PROVE CauseInv'
  BY <1>30 DEF OthersExit
<1>31. ASSUME NEW j \in Jobs, PipeEnds(j) PROVE CauseInv'
  BY <1>31 DEF PipeEnds
<1>32. ASSUME NEW j \in Jobs, CaptureFails(j) PROVE CauseInv'
  BY <1>32 DEF CaptureFails, Fault
<1>33. ASSUME NEW j \in Jobs, InitReaps(j) PROVE CauseInv'
  BY <1>33 DEF InitReaps, Reaped
<1>34. ASSUME NEW j \in Jobs, TimeElapses(j) PROVE CauseInv'
  BY <1>34 DEF TimeElapses, Saved
<1>35. ASSUME NEW j \in Jobs, AskCancel(j) PROVE CauseInv'
  BY <1>35 DEF AskCancel
<1>36. ASSUME NEW c \in Cancellers, NEW j \in Jobs, CancelRead(c, j) PROVE CauseInv'
  BY <1>36 DEF CancelRead, Saved
<1>37. ASSUME NEW c \in Getters, NEW j \in Jobs, GetRead(c, j) PROVE CauseInv'
  BY <1>37 DEF GetRead, Saved
<1>38. ASSUME NEW c \in Openers, NEW j \in Jobs, OpenRead(c, j) PROVE CauseInv'
  BY <1>38 DEF OpenRead
<1>39. ASSUME NEW c \in Callers, CallUnlink(c) PROVE CauseInv'
  BY <1>39 DEF CallUnlink, To
<1>40. ASSUME NEW c \in Callers, CallWriteFails(c) PROVE CauseInv'
  BY <1>40, NoJobAssumption DEF CallWriteFails, Return, Fault, Idle
<1>41. ASSUME NEW c \in Callers, CancelWrite(c) PROVE CauseInv'
  BY <1>41 DEF CancelWrite, To
<1>42. ASSUME NEW c \in Callers, CancelKill(c) PROVE CauseInv'
  BY <1>42 DEF CancelKill, To, Kill
<1>43. ASSUME NEW c \in Callers, CancelPop(c) PROVE CauseInv'
  BY <1>43 DEF CancelPop, To, Reaped
<1>44. ASSUME NEW c \in Callers, CancelSave(c) PROVE CauseInv'
  <2>1. MetaBlame'
    BY <1>44 DEF CancelSave, Return, Meta, Call, Sweep
  <2>2. CallBlame' /\ CancelAsked'
    BY <1>44, NoJobAssumption DEF CancelSave, Return, Idle
  <2>3. SweepBlame' /\ WatcherLate'
    BY <1>44, NoJobAssumption DEF CancelSave, Return, Off
  <2>. QED
    BY <2>1, <2>2, <2>3
<1>45. ASSUME NEW c \in Callers, GetLook(c) PROVE CauseInv'
  <2>1. MetaBlame' /\ SweepBlame' /\ WatcherLate'
    BY <1>45 DEF GetLook
  <2>2. PICK at \in {"g_kill", "g_clear", "g_save"}, s \in Statuses :
            /\ LookVerdict(caller[c].job, caller[c].copy.status, at, s)
            /\ caller'[c].at = at /\ caller'[c].job = caller[c].job
            /\ caller'[c].copy = [caller[c].copy EXCEPT !.status = s]
            /\ \A d \in Callers \ {c} : caller'[d] = caller[d]
    <3>1. CallTypes
      OBVIOUS
    <3>. HIDE DEF CallTypes, TypeOK, CauseInv
    <3>. QED
      BY <3>1, <1>45, LookOutcome
  <2>3. UNCHANGED <<elapsed, asked, restarts>>
    BY <1>45 DEF GetLook
  <2>4. ASSUME NEW j \in Jobs, caller[c].job = j PROVE Blame(caller[c].copy, j)'
    <3>1. caller[c].copy \in Meta /\ Blame(caller[c].copy, j)
      BY <2>4 DEF Call
    <3>2. /\ caller'[c].copy.status = s
          /\ caller'[c].copy.timed_out = caller[c].copy.timed_out
          /\ caller'[c].copy.cancel_requested = caller[c].copy.cancel_requested
      BY <2>2, <3>1 DEF Meta
    <3>. QED
      BY <2>2, <2>3, <2>4, <3>1, <3>2 DEF LookVerdict, Late
  <2>5. CallBlame'
    <3>. SUFFICES ASSUME NEW d \in Callers, NEW j \in Jobs, caller'[d].job = j
                  PROVE  Blame(caller[d].copy, j)'
      BY DEF CallBlame
    <3>1. CASE d = c
      BY <2>2, <2>4, <3>1
    <3>2. CASE d # c
      BY <2>2, <2>3, <3>2
    <3>. QED
      BY <3>1, <3>2
  <2>6. CancelAsked'
    BY <2>2, <2>3
  <2>. QED
    BY <2>1, <2>5, <2>6
<1>46. ASSUME NEW c \in Callers, GetKill(c) PROVE CauseInv'
  BY <1>46 DEF GetKill, To, Kill
<1>47. ASSUME NEW c \in Callers, GetReadLock(c) PROVE CauseInv'
  BY <1>47 DEF GetReadLock, To
<1>48. ASSUME NEW c \in Callers, GetSave(c) PROVE CauseInv'
  <2>1. MetaBlame'
    BY <1>48 DEF GetSave, Return, Meta, Call, Sweep
  <2>2. CallBlame' /\ CancelAsked'
    BY <1>48, NoJobAssumption DEF GetSave, Return, Idle
  <2>3. SweepBlame' /\ WatcherLate'
    BY <1>48, NoJobAssumption DEF GetSave, Return, Off
  <2>. QED
    BY <2>1, <2>2, <2>3
<1>49. ASSUME NEW c \in Callers, OpenReconcile(c) PROVE CauseInv'
  <2>1. MetaBlame'
    BY SMTT(40), <1>49 DEF OpenReconcile, Return, Meta, Call, Sweep
  <2>2. CallBlame' /\ CancelAsked'
    BY <1>49, NoJobAssumption DEF OpenReconcile, Return, Idle
  <2>3. SweepBlame' /\ WatcherLate'
    BY <1>49, NoJobAssumption DEF OpenReconcile, Return, Off
  <2>. QED
    BY <2>1, <2>2, <2>3
<1>50. ASSUME NEW j \in Jobs, SweepRead(j) PROVE CauseInv'
  BY <1>50 DEF SweepRead, Unfinished
<1>51. ASSUME SweepBegin PROVE CauseInv'
  BY <1>51, NoJobAssumption DEF SweepBegin, Off
<1>52. ASSUME SweepKill PROVE CauseInv'
  BY <1>52 DEF SweepKill, Kill
<1>53. ASSUME SweepWrite PROVE CauseInv'
  <2>1. MetaBlame'
    BY <1>53 DEF SweepWrite, Off, Meta, Call, Sweep
  <2>2. CallBlame' /\ CancelAsked'
    BY <1>53, NoJobAssumption DEF SweepWrite, Off, Idle
  <2>3. SweepBlame' /\ WatcherLate'
    BY <1>53, NoJobAssumption DEF SweepWrite, Off, Off
  <2>. QED
    BY <2>1, <2>2, <2>3
<1>54. ASSUME Exit PROVE CauseInv'
  BY <1>54, NoJobAssumption DEF Exit, NewServer, Idle, Off
<1>55. ASSUME Crash PROVE CauseInv'
  BY <1>55, NoJobAssumption DEF Crash, NewServer, Idle, Off
<1>56. CASE UNCHANGED vars
  BY <1>56 DEF vars, osVars, diskVars, memVars, leaseVars, threadVars, boundVars
<1>. HIDE DEF TypeOK, SetTypes, RecordTypes, ThreadTypes, CallTypes, BoundTypes,
   CauseInv
<1>. QED
  BY <1>1, <1>2, <1>3, <1>4, <1>5, <1>6, <1>7, <1>8, <1>9, <1>10, <1>11,
     <1>12, <1>13, <1>14, <1>15, <1>16, <1>17, <1>18, <1>19, <1>20, <1>21,
     <1>22, <1>23, <1>24, <1>25, <1>26, <1>27, <1>28, <1>29, <1>30, <1>31,
     <1>32, <1>33, <1>34, <1>35, <1>36, <1>37, <1>38, <1>39, <1>40, <1>41,
     <1>42, <1>43, <1>44, <1>45, <1>46, <1>47, <1>48, <1>49, <1>50, <1>51,
     <1>52, <1>53, <1>54, <1>55, <1>56
     DEF Next, StartStep, FinishStep, WatchStep, ProcessStep, CallBegin, CallStep, ServerStep

-----------------------------------------------------------------------------
(* The exit of the server. A live command is registered in JOB_PROCS from    *)
(* the moment its start returns, its metadata is not terminal, and no call   *)
(* or thread that holds a terminal copy has left it running; so the sweep    *)
(* of shutdown_command_jobs finds it and kills it.                           *)

\* The metadata of the job has been written by start_command_job.
Begun(j) == start[j] \notin {"idle", "unlink", "acquire", "open", "refused", "save"}

BegunIfSaved == \A j \in Jobs : Saved(j) => Begun(j)
Traces ==
    \A j \in Jobs : \/ start[j] \in {"register", "finisher", "lock", "watcher"}
                   \/ j \in procs \/ finish[j] # "off" \/ watch[j] # "off"
                      => Saved(j)
LiveKnown ==
    \A j \in Jobs : Live(j) => \/ start[j] = "save"
                               \/ Saved(j) /\ (start[j] = "register" \/ j \in procs)
DeadVerdict == \A j \in Jobs : meta[j].status \in Terminal => ~Live(j)
DeadMarks ==
    \A j \in Jobs : watch[j] \in {"pop", "final", "unlink", "release", "expired"} => ~Live(j)
CallKnows ==
    \A c \in Callers : \A j \in Jobs : caller[c].job = j =>
       /\ Saved(j) /\ caller[c].copy.status # "none"
       /\ caller[c].at \in {"c_pop", "c_unlink", "c_save", "g_clear", "g_unlink"} => ~Live(j)
       /\ caller[c].copy.status \in Terminal /\ caller[c].at # "g_kill" => ~Live(j)
SweepKnows ==
    sweep.at # "off" =>
       /\ \A j \in Jobs : start[j] \in {"idle", "returned", "refused", "failed", "lost"}
       /\ \A j \in Jobs : Live(j) => j \in sweep.todo
       /\ \A j \in Jobs : j \in sweep.todo \/ sweep.job = j => Saved(j)
       /\ \A j \in Jobs : sweep.job = j /\ sweep.at = "write" => ~Live(j)
       /\ sweep.at \in {"kill", "write"} =>
             sweep.job \in sweep.todo /\ sweep.copy.status \in Unfinished

StopInv == /\ BegunIfSaved /\ Traces /\ LiveKnown /\ DeadVerdict /\ DeadMarks
           /\ CallKnows /\ SweepKnows

\* Metadata is never removed: whatever is written back has a status.
LEMMA SavedLasts ==
    ASSUME TypeOK, StopInv, [Next]_vars, NEW k \in Jobs, Saved(k) PROVE Saved(k)'
<1>. USE CallerKinds DEF TypeOK, RecordTypes, CallTypes, StopInv, Saved, CallKnows, SweepKnows,
     osVars, diskVars, memVars, leaseVars, threadVars, startRest, finishRest, watchRest,
     callRest, boundVars
<1>1. ASSUME NEW j \in Jobs, StartStep(j) PROVE Saved(k)'
  BY <1>1 DEF StartStep, CheckLock, UnlinkStale, Acquire, Launch,
     LaunchStopped, LaunchFails, SaveMeta, SaveFails, Register, StartFinisher,
     WriteLock, WriteLockFails, StartWatcher, Undo, NewMeta, NoMeta
<1>2. ASSUME NEW j \in Jobs, FinishStep(j) PROVE Saved(k)'
  <2>1. CASE Publish(j)
    <3>1. meta[j] \in Meta /\ (j \in errors) \in BOOLEAN
      OBVIOUS
    <3>2. FinalStatus(meta[j], j \in errors, code[j]) \in Terminal
      BY <3>1, FinalStatusIsTerminal
    <3>. QED
      BY <2>1, <3>1, <3>2 DEF Publish, Meta, Terminal
  <2>2. CASE FinisherWait(j) \/ FinalizeDrains(j) \/ PublishFails(j) \/
            FinisherReadLock(j) \/ FinisherUnlink(j) \/
            FinisherEnd(j)
    BY <2>2 DEF FinisherWait, FinalizeDrains, PublishFails, FinisherReadLock,
       FinisherUnlink, FinisherEnd
  <2>. QED
    BY <1>2, <2>1, <2>2 DEF FinishStep
<1>3. ASSUME NEW j \in Jobs, WatchStep(j) PROVE Saved(k)'
  <2>1. CASE WatcherMark(j)
    BY <2>1 DEF WatcherMark, Meta
  <2>2. CASE WatcherFinal(j)
    BY <2>2 DEF WatcherFinal, Meta
  <2>3. CASE WatcherMarkFails(j) \/ WatcherKill(j) \/ WatcherPop(j) \/
            WatcherFinalFails(j) \/ WatcherUnlink(j) \/
            WatcherRelease(j)
    BY <2>3 DEF WatcherMarkFails, WatcherKill, WatcherPop, WatcherFinalFails,
       WatcherUnlink, WatcherRelease
  <2>. QED
    BY <1>3, <2>1, <2>2, <2>3 DEF WatchStep
<1>4. ASSUME NEW j \in Jobs, ProcessStep(j) PROVE Saved(k)'
  BY <1>4 DEF ProcessStep, LeaderExits, OthersExit, PipeEnds, CaptureFails,
     InitReaps, TimeElapses, AskCancel
<1>5. ASSUME CallBegin PROVE Saved(k)'
  BY <1>5 DEF CallBegin, CancelRead, GetRead, OpenRead
<1>6. ASSUME NEW c \in Callers, CallStep(c) PROVE Saved(k)'
  <2>1. CASE CancelWrite(c)
    BY <2>1 DEF CancelWrite
  <2>2. CASE CancelSave(c)
    BY <2>2 DEF CancelSave, Call, Meta
  <2>3. CASE GetSave(c)
    BY <2>3 DEF GetSave, Call, Meta
  <2>4. CASE OpenReconcile(c)
    BY <2>4 DEF OpenReconcile, Call, Meta
  <2>5. CASE CallUnlink(c) \/ CallWriteFails(c) \/ CancelKill(c) \/
            CancelPop(c) \/ GetLook(c) \/ GetKill(c) \/
            GetReadLock(c)
    BY <2>5 DEF CallUnlink, CallWriteFails, CancelKill, CancelPop, GetLook,
       GetKill, GetReadLock
  <2>. QED
    BY <1>6, <2>1, <2>2, <2>3, <2>4, <2>5 DEF CallStep
<1>7. ASSUME ServerStep PROVE Saved(k)'
  <2>1. CASE SweepWrite
    BY <2>1 DEF SweepWrite, Sweep, Meta
  <2>2. CASE SweepBegin \/ SweepKill \/ Exit \/ Crash \/ \E l \in Jobs :
            SweepRead(l)
    BY <2>2 DEF SweepRead, SweepBegin, SweepKill, Exit, Crash, NewServer
  <2>. QED
    BY <1>7, <2>1, <2>2 DEF ServerStep
<1>8. CASE UNCHANGED vars
  BY <1>8 DEF vars
<1>. QED
  BY <1>1, <1>2, <1>3, <1>4, <1>5, <1>6, <1>7, <1>8 DEF Next

\* Only Launch starts a command.
LEMMA LiveByLaunch ==
    ASSUME TypeOK, [Next]_vars, NEW k \in Jobs, Live(k)' PROVE Live(k) \/ Launch(k)
<1>. USE DEF TypeOK, OsTypes, ThreadTypes, Live, osVars, threadVars, startRest, finishRest, watchRest, callRest
<1>1. ASSUME NEW j \in Jobs, StartStep(j) PROVE Live(k) \/ Launch(k)
  BY <1>1 DEF StartStep, CheckLock, UnlinkStale, Acquire, Launch,
     LaunchStopped, LaunchFails, SaveMeta, SaveFails, Register, StartFinisher,
     WriteLock, WriteLockFails, StartWatcher, Undo
<1>2. ASSUME NEW j \in Jobs, FinishStep(j) PROVE Live(k) \/ Launch(k)
  BY <1>2 DEF FinishStep, FinisherWait, FinalizeDrains, Publish, PublishFails,
     FinisherReadLock, FinisherUnlink, FinisherEnd, Reaped
<1>3. ASSUME NEW j \in Jobs, WatchStep(j) PROVE Live(k) \/ Launch(k)
  BY <1>3, KillStartsNothing, ReapStartsNothing DEF WatchStep, WatcherMark,
     WatcherMarkFails, WatcherKill, WatcherPop, WatcherFinal,
     WatcherFinalFails, WatcherUnlink, WatcherRelease
<1>4. ASSUME NEW j \in Jobs, ProcessStep(j) PROVE Live(k) \/ Launch(k)
  BY <1>4 DEF ProcessStep, LeaderExits, OthersExit, PipeEnds, CaptureFails,
     InitReaps, TimeElapses, AskCancel, Reaped
<1>5. ASSUME CallBegin PROVE Live(k) \/ Launch(k)
  BY <1>5 DEF CallBegin, CancelRead, GetRead, OpenRead
<1>6. ASSUME NEW c \in Callers, CallStep(c) PROVE Live(k) \/ Launch(k)
  BY SMTT(20), <1>6, KillStartsNothing, ReapStartsNothing DEF CallStep, CallUnlink,
     CallWriteFails, CancelWrite, CancelKill, CancelPop, CancelSave, GetLook,
     GetKill, GetReadLock, GetSave, OpenReconcile
<1>7. ASSUME ServerStep PROVE Live(k) \/ Launch(k)
  <2>1. CASE SweepKill
    BY <2>1, KillStartsNothing DEF SweepKill
  <2>2. CASE Exit
    BY <2>2 DEF Exit, NewServer
  <2>3. CASE Crash
    BY <2>3 DEF Crash, NewServer
  <2>4. CASE SweepBegin \/ SweepWrite \/ \E l \in Jobs : SweepRead(l)
    BY <2>4 DEF SweepRead, SweepBegin, SweepWrite, NewServer
  <2>. QED
    BY <1>7, <2>1, <2>2, <2>3, <2>4 DEF ServerStep
<1>8. CASE UNCHANGED vars
  BY <1>8 DEF vars
<1>. QED
  BY <1>1, <1>2, <1>3, <1>4, <1>5, <1>6, <1>7, <1>8 DEF Next

\* The stop invariant is inductive.
LEMMA StopStep == TypeOK /\ LeaseInv /\ StopInv /\ [Next]_vars => StopInv'
<1>. SUFFICES ASSUME TypeOK, LeaseInv, StopInv, [Next]_vars PROVE StopInv'
  OBVIOUS
<1>s. \A k \in Jobs : Saved(k) => Saved(k)'
  BY SavedLasts
<1>l. \A k \in Jobs : Live(k)' => Live(k) \/ Launch(k)
  BY LiveByLaunch
<1>. USE <1>s, CallerKinds DEF TypeOK, OsTypes, SetTypes, RecordTypes, ThreadTypes, CallTypes,
     LeaseInv, NotLaunched, FinisherLater, ReapedFirst, RunningIsLeased,
     StopInv, Begun, BegunIfSaved, Traces, LiveKnown, DeadVerdict, DeadMarks, CallKnows, SweepKnows,
     Saved, Live, osVars, diskVars, memVars, leaseVars, threadVars, startRest, finishRest, watchRest,
     callRest, boundVars
<1>1. ASSUME NEW j \in Jobs, CheckLock(j) PROVE StopInv'
  BY <1>1 DEF CheckLock, PidRunning
<1>2. ASSUME NEW j \in Jobs, UnlinkStale(j) PROVE StopInv'
  BY <1>2 DEF UnlinkStale
<1>3. ASSUME NEW j \in Jobs, Acquire(j) PROVE StopInv'
  BY <1>3 DEF Acquire, FreeLease
<1>4. ASSUME NEW j \in Jobs, Launch(j) PROVE StopInv'
  <2>1. BegunIfSaved'
    BY <1>4 DEF Launch, Terminal
  <2>2. Traces'
    BY <1>4 DEF Launch, Terminal
  <2>3. LiveKnown'
    BY <1>4 DEF Launch, Terminal
  <2>4. DeadVerdict'
    BY <1>4 DEF Launch, Terminal
  <2>5. DeadMarks'
    BY <1>4 DEF Launch, Terminal
  <2>6. CallKnows'
    BY <1>4 DEF Launch, Terminal
  <2>7. SweepKnows'
    BY <1>4 DEF Launch, Terminal
  <2>. QED
    BY <2>1, <2>2, <2>3, <2>4, <2>5, <2>6, <2>7
<1>5. ASSUME NEW j \in Jobs, LaunchStopped(j) PROVE StopInv'
  BY <1>5 DEF LaunchStopped, Undo
<1>6. ASSUME NEW j \in Jobs, LaunchFails(j) PROVE StopInv'
  BY <1>6 DEF LaunchFails, Undo, Fault
<1>7. ASSUME NEW j \in Jobs, SaveMeta(j) PROVE StopInv'
  <2>1. BegunIfSaved'
    BY <1>7 DEF SaveMeta, NewMeta, NoMeta, Meta, Terminal
  <2>2. Traces'
    BY <1>7 DEF SaveMeta, NewMeta, NoMeta, Meta, Terminal
  <2>3. LiveKnown'
    BY <1>7 DEF SaveMeta, NewMeta, NoMeta, Meta, Terminal
  <2>4. DeadVerdict'
    BY <1>7 DEF SaveMeta, NewMeta, NoMeta, Meta, Terminal
  <2>5. DeadMarks'
    BY <1>7 DEF SaveMeta, NewMeta, NoMeta, Meta, Terminal
  <2>6. CallKnows'
    BY <1>7 DEF SaveMeta, NewMeta, NoMeta, Meta, Terminal
  <2>7. SweepKnows'
    BY <1>7 DEF SaveMeta, NewMeta, NoMeta, Meta, Terminal
  <2>. QED
    BY <2>1, <2>2, <2>3, <2>4, <2>5, <2>6, <2>7
<1>8. ASSUME NEW j \in Jobs, SaveFails(j) PROVE StopInv'
  BY <1>8 DEF SaveFails, Undo, Fault
<1>9. ASSUME NEW j \in Jobs, Register(j) PROVE StopInv'
  <2>1. BegunIfSaved'
    BY <1>9 DEF Register
  <2>2. Traces'
    BY <1>9 DEF Register
  <2>3. LiveKnown'
    BY <1>9 DEF Register
  <2>4. DeadVerdict'
    BY <1>9 DEF Register
  <2>5. DeadMarks'
    BY <1>9 DEF Register
  <2>6. CallKnows'
    BY <1>9 DEF Register
  <2>7. SweepKnows'
    BY <1>9 DEF Register
  <2>. QED
    BY <2>1, <2>2, <2>3, <2>4, <2>5, <2>6, <2>7
<1>10. ASSUME NEW j \in Jobs, StartFinisher(j) PROVE StopInv'
  <2>1. BegunIfSaved'
    BY <1>10 DEF StartFinisher
  <2>2. Traces'
    BY <1>10 DEF StartFinisher
  <2>3. LiveKnown'
    BY <1>10 DEF StartFinisher
  <2>4. DeadVerdict'
    BY <1>10 DEF StartFinisher
  <2>5. DeadMarks'
    BY <1>10 DEF StartFinisher
  <2>6. CallKnows'
    BY <1>10 DEF StartFinisher
  <2>7. SweepKnows'
    BY <1>10 DEF StartFinisher
  <2>. QED
    BY <2>1, <2>2, <2>3, <2>4, <2>5, <2>6, <2>7
<1>11. ASSUME NEW j \in Jobs, WriteLock(j) PROVE StopInv'
  BY <1>11 DEF WriteLock
<1>12. ASSUME NEW j \in Jobs, WriteLockFails(j) PROVE StopInv'
  BY <1>12 DEF WriteLockFails, Fault
<1>13. ASSUME NEW j \in Jobs, StartWatcher(j) PROVE StopInv'
  <2>1. BegunIfSaved'
    BY <1>13 DEF StartWatcher
  <2>2. Traces'
    BY <1>13 DEF StartWatcher
  <2>3. LiveKnown'
    BY <1>13 DEF StartWatcher
  <2>4. DeadVerdict'
    BY <1>13 DEF StartWatcher
  <2>5. DeadMarks'
    BY <1>13 DEF StartWatcher
  <2>6. CallKnows'
    BY <1>13 DEF StartWatcher
  <2>7. SweepKnows'
    BY <1>13 DEF StartWatcher
  <2>. QED
    BY <2>1, <2>2, <2>3, <2>4, <2>5, <2>6, <2>7
<1>14. ASSUME NEW j \in Jobs, FinisherWait(j) PROVE StopInv'
  BY <1>14 DEF FinisherWait, Reaped
<1>15. ASSUME NEW j \in Jobs, FinalizeDrains(j) PROVE StopInv'
  BY <1>15 DEF FinalizeDrains
<1>16. ASSUME NEW j \in Jobs, Publish(j) PROVE StopInv'
  BY <1>16 DEF Publish, MayPublish, FinalStatus
<1>17. ASSUME NEW j \in Jobs, PublishFails(j) PROVE StopInv'
  BY <1>17 DEF PublishFails, Fault, MayPublish
<1>18. ASSUME NEW j \in Jobs, FinisherReadLock(j) PROVE StopInv'
  BY <1>18 DEF FinisherReadLock
<1>19. ASSUME NEW j \in Jobs, FinisherUnlink(j) PROVE StopInv'
  BY <1>19 DEF FinisherUnlink
<1>20. ASSUME NEW j \in Jobs, FinisherEnd(j) PROVE StopInv'
  BY <1>20 DEF FinisherEnd
<1>21. ASSUME NEW j \in Jobs, WatcherMark(j) PROVE StopInv'
  <2>1. BegunIfSaved'
    <3>1. UNCHANGED start /\ \A k \in Jobs : Saved(k)' => Saved(k)
      BY <1>21 DEF WatcherMark
    <3>. QED
      BY <3>1
  <2>2. Traces'
    BY <1>21 DEF WatcherMark, GroupRunning, Meta, Terminal
  <2>3. LiveKnown'
    BY <1>21 DEF WatcherMark, GroupRunning, Meta, Terminal
  <2>4. DeadVerdict'
    BY <1>21 DEF WatcherMark, GroupRunning, Meta, Terminal
  <2>5. DeadMarks'
    BY <1>21 DEF WatcherMark, GroupRunning, Meta, Terminal
  <2>6. CallKnows'
    BY <1>21 DEF WatcherMark, GroupRunning, Meta, Terminal
  <2>7. SweepKnows'
    BY <1>21 DEF WatcherMark, GroupRunning, Meta, Terminal
  <2>. QED
    BY <2>1, <2>2, <2>3, <2>4, <2>5, <2>6, <2>7
<1>22. ASSUME NEW j \in Jobs, WatcherMarkFails(j) PROVE StopInv'
  BY <1>22 DEF WatcherMarkFails, Fault, GroupRunning
<1>23. ASSUME NEW j \in Jobs, WatcherKill(j) PROVE StopInv'
  BY <1>23 DEF WatcherKill, Kill
<1>24. ASSUME NEW j \in Jobs, WatcherPop(j) PROVE StopInv'
  BY <1>24 DEF WatcherPop, Reaped
<1>25. ASSUME NEW j \in Jobs, WatcherFinal(j) PROVE StopInv'
  BY <1>25 DEF WatcherFinal
<1>26. ASSUME NEW j \in Jobs, WatcherFinalFails(j) PROVE StopInv'
  BY <1>26 DEF WatcherFinalFails, Fault
<1>27. ASSUME NEW j \in Jobs, WatcherUnlink(j) PROVE StopInv'
  BY <1>27 DEF WatcherUnlink
<1>28. ASSUME NEW j \in Jobs, WatcherRelease(j) PROVE StopInv'
  BY <1>28 DEF WatcherRelease
<1>29. ASSUME NEW j \in Jobs, LeaderExits(j) PROVE StopInv'
  BY <1>29 DEF LeaderExits
<1>30. ASSUME NEW j \in Jobs, OthersExit(j) PROVE StopInv'
  BY <1>30 DEF OthersExit
<1>31. ASSUME NEW j \in Jobs, PipeEnds(j) PROVE StopInv'
  BY <1>31 DEF PipeEnds
<1>32. ASSUME NEW j \in Jobs, CaptureFails(j) PROVE StopInv'
  BY <1>32 DEF CaptureFails, Fault
<1>33. ASSUME NEW j \in Jobs, InitReaps(j) PROVE StopInv'
  BY <1>33 DEF InitReaps, Reaped
<1>34. ASSUME NEW j \in Jobs, TimeElapses(j) PROVE StopInv'
  BY <1>34 DEF TimeElapses, Saved
<1>35. ASSUME NEW j \in Jobs, AskCancel(j) PROVE StopInv'
  BY <1>35 DEF AskCancel
<1>36. ASSUME NEW c \in Cancellers, NEW j \in Jobs, CancelRead(c, j) PROVE StopInv'
  <2>1. BegunIfSaved'
    BY <1>36 DEF CancelRead, Saved, Terminal
  <2>2. Traces'
    BY <1>36 DEF CancelRead, Saved, Terminal
  <2>3. LiveKnown'
    BY <1>36 DEF CancelRead, Saved, Terminal
  <2>4. DeadVerdict'
    BY <1>36 DEF CancelRead, Saved, Terminal
  <2>5. DeadMarks'
    BY <1>36 DEF CancelRead, Saved, Terminal
  <2>6. CallKnows'
    BY <1>36 DEF CancelRead, Saved, Terminal
  <2>7. SweepKnows'
    BY <1>36 DEF CancelRead, Saved, Terminal
  <2>. QED
    BY <2>1, <2>2, <2>3, <2>4, <2>5, <2>6, <2>7
<1>37. ASSUME NEW c \in Getters, NEW j \in Jobs, GetRead(c, j) PROVE StopInv'
  BY <1>37 DEF GetRead, Saved
<1>38. ASSUME NEW c \in Openers, NEW j \in Jobs, OpenRead(c, j) PROVE StopInv'
  BY <1>38 DEF OpenRead
<1>39. ASSUME NEW c \in Callers, CallUnlink(c) PROVE StopInv'
  BY <1>39 DEF CallUnlink, To
<1>40. ASSUME NEW c \in Callers, CallWriteFails(c) PROVE StopInv'
  BY <1>40, NoJobAssumption DEF CallWriteFails, Return, Fault, Idle
<1>41. ASSUME NEW c \in Callers, CancelWrite(c) PROVE StopInv'
  BY <1>41 DEF CancelWrite, To
<1>42. ASSUME NEW c \in Callers, CancelKill(c) PROVE StopInv'
  BY <1>42 DEF CancelKill, To, Kill
<1>43. ASSUME NEW c \in Callers, CancelPop(c) PROVE StopInv'
  BY <1>43 DEF CancelPop, To, Reaped
<1>44. ASSUME NEW c \in Callers, CancelSave(c) PROVE StopInv'
  <2>1. BegunIfSaved'
    BY <1>44, NoJobAssumption DEF CancelSave, Return, Idle, Call, Meta
  <2>2. Traces'
    BY <1>44, NoJobAssumption DEF CancelSave, Return, Idle, Call, Meta
  <2>3. LiveKnown'
    BY <1>44, NoJobAssumption DEF CancelSave, Return, Idle, Call, Meta
  <2>4. DeadVerdict'
    BY <1>44, NoJobAssumption DEF CancelSave, Return, Idle, Call, Meta
  <2>5. DeadMarks'
    BY <1>44, NoJobAssumption DEF CancelSave, Return, Idle, Call, Meta
  <2>6. CallKnows'
    BY <1>44, NoJobAssumption DEF CancelSave, Return, Idle, Call, Meta
  <2>7. SweepKnows'
    BY <1>44, NoJobAssumption DEF CancelSave, Return, Idle, Call, Meta
  <2>. QED
    BY <2>1, <2>2, <2>3, <2>4, <2>5, <2>6, <2>7
<1>45. ASSUME NEW c \in Callers, GetLook(c) PROVE StopInv'
  <2>1. BegunIfSaved'
    BY <1>45 DEF GetLook, StillRunning, GroupRunning, Reaped
  <2>2. Traces'
    BY <1>45 DEF GetLook, StillRunning, GroupRunning, Reaped
  <2>3. LiveKnown'
    BY SMTT(20), <1>45 DEF GetLook, StillRunning, GroupRunning, Reaped
  <2>4. DeadVerdict'
    BY SMTT(20), <1>45 DEF GetLook, StillRunning, GroupRunning, Reaped
  <2>5. DeadMarks'
    <3>1. UNCHANGED <<watch, start>>
      BY <1>45 DEF GetLook
    <3>2. \A k \in Jobs : Live(k)' => Live(k)
      BY <1>45, ReapStartsNothing DEF GetLook
    <3>. QED
      BY <3>1, <3>2
  <2>6. CallKnows'
    <3>1. PICK at \in {"g_kill", "g_clear", "g_save"}, s \in Statuses :
              /\ LookVerdict(caller[c].job, caller[c].copy.status, at, s)
              /\ caller'[c].at = at /\ caller'[c].job = caller[c].job
              /\ caller'[c].copy.status = s
              /\ \A d \in Callers \ {c} : caller'[d] = caller[d]
      <4>1. CallTypes
        OBVIOUS
      <4>. HIDE DEF CallTypes, TypeOK, StopInv
      <4>. QED
        BY <4>1, <1>45, LookOutcome
    <3>2. UNCHANGED <<meta, start>> /\ caller[c].at = "g_look"
      BY <1>45 DEF GetLook
    <3>3. \A k \in Jobs : caller[c].job = k =>
             /\ s # "none"
             /\ at = "g_clear" \/ (s \in Terminal /\ at # "g_kill") => ~Live(k)
      <4>. SUFFICES ASSUME NEW k \in Jobs, caller[c].job = k
                    PROVE  /\ s # "none"
                           /\ at = "g_clear" \/ (s \in Terminal /\ at # "g_kill") => ~Live(k)
        OBVIOUS
      <4>1. /\ caller[c].copy.status # "none"
            /\ caller[c].copy.status \in Terminal => ~Live(k)
        BY <3>2
      <4>2. ~StillRunning(k, caller[c].copy.status) => ~Live(k)
        BY DEF StillRunning, GroupRunning
      <4>. HIDE DEF TypeOK, StopInv, LeaseInv, CallKnows, SweepKnows, Live
      <4>. QED
        BY <3>1, <4>1, <4>2 DEF LookVerdict, Terminal
    <3>4. \A k \in Jobs : Live(k)' => Live(k)
      BY <1>45, ReapStartsNothing DEF GetLook
    <3>. QED
      BY <3>1, <3>2, <3>3, <3>4
  <2>7. SweepKnows'
    <3>1. UNCHANGED <<sweep, start, meta>>
      BY <1>45 DEF GetLook
    <3>2. \A k \in Jobs : Live(k)' => Live(k)
      BY <1>45, ReapStartsNothing DEF GetLook
    <3>. QED
      BY <3>1, <3>2
  <2>. QED
    BY <2>1, <2>2, <2>3, <2>4, <2>5, <2>6, <2>7
<1>46. ASSUME NEW c \in Callers, GetKill(c) PROVE StopInv'
  BY <1>46 DEF GetKill, To, Kill
<1>47. ASSUME NEW c \in Callers, GetReadLock(c) PROVE StopInv'
  BY <1>47 DEF GetReadLock, To
<1>48. ASSUME NEW c \in Callers, GetSave(c) PROVE StopInv'
  <2>1. BegunIfSaved'
    BY <1>48, NoJobAssumption DEF GetSave, Return, Idle, Call, Meta
  <2>2. Traces'
    BY <1>48, NoJobAssumption DEF GetSave, Return, Idle, Call, Meta
  <2>3. LiveKnown'
    BY <1>48, NoJobAssumption DEF GetSave, Return, Idle, Call, Meta
  <2>4. DeadVerdict'
    <3>1. CASE meta' = meta
      BY <1>48, <3>1 DEF GetSave
    <3>2. CASE meta' = [meta EXCEPT ![caller[c].job] = caller[c].copy]
      BY <1>48, <3>2 DEF GetSave
    <3>. QED
      BY <1>48, <3>1, <3>2 DEF GetSave
  <2>5. DeadMarks'
    BY <1>48, NoJobAssumption DEF GetSave, Return, Idle, Call, Meta
  <2>6. CallKnows'
    BY <1>48, NoJobAssumption DEF GetSave, Return, Idle, Call, Meta
  <2>7. SweepKnows'
    BY <1>48, NoJobAssumption DEF GetSave, Return, Idle, Call, Meta
  <2>. QED
    BY <2>1, <2>2, <2>3, <2>4, <2>5, <2>6, <2>7
<1>49. ASSUME NEW c \in Callers, OpenReconcile(c) PROVE StopInv'
  <2>1. BegunIfSaved'
    BY SMTT(20), <1>49, NoJobAssumption DEF OpenReconcile, Return, Idle, Call, Meta
  <2>2. Traces'
    BY <1>49, NoJobAssumption DEF OpenReconcile, Return, Idle, Call, Meta
  <2>3. LiveKnown'
    BY <1>49, NoJobAssumption DEF OpenReconcile, Return, Idle, Call, Meta
  <2>4. DeadVerdict'
    BY <1>49, NoJobAssumption DEF OpenReconcile, Return, Idle, Call, Meta
  <2>5. DeadMarks'
    BY <1>49, NoJobAssumption DEF OpenReconcile, Return, Idle, Call, Meta
  <2>6. CallKnows'
    BY <1>49, NoJobAssumption DEF OpenReconcile, Return, Idle, Call, Meta
  <2>7. SweepKnows'
    BY <1>49, NoJobAssumption DEF OpenReconcile, Return, Idle, Call, Meta
  <2>. QED
    BY <2>1, <2>2, <2>3, <2>4, <2>5, <2>6, <2>7
<1>50. ASSUME NEW j \in Jobs, SweepRead(j) PROVE StopInv'
  <2>1. BegunIfSaved'
    BY <1>50 DEF SweepRead, Unfinished, Statuses, Meta, Terminal
  <2>2. Traces'
    BY <1>50 DEF SweepRead, Unfinished, Statuses, Meta, Terminal
  <2>3. LiveKnown'
    BY <1>50 DEF SweepRead, Unfinished, Statuses, Meta, Terminal
  <2>4. DeadVerdict'
    BY <1>50 DEF SweepRead, Unfinished, Statuses, Meta, Terminal
  <2>5. DeadMarks'
    BY <1>50 DEF SweepRead, Unfinished, Statuses, Meta, Terminal
  <2>6. CallKnows'
    BY <1>50 DEF SweepRead, Unfinished, Statuses, Meta, Terminal
  <2>7. SweepKnows'
    BY <1>50 DEF SweepRead, Unfinished, Statuses, Meta, Terminal
  <2>. QED
    BY <2>1, <2>2, <2>3, <2>4, <2>5, <2>6, <2>7
<1>51. ASSUME SweepBegin PROVE StopInv'
  <2>1. BegunIfSaved'
    BY <1>51, NoJobAssumption DEF SweepBegin, Off
  <2>2. Traces'
    BY <1>51, NoJobAssumption DEF SweepBegin, Off
  <2>3. LiveKnown'
    BY <1>51, NoJobAssumption DEF SweepBegin, Off
  <2>4. DeadVerdict'
    BY <1>51, NoJobAssumption DEF SweepBegin, Off
  <2>5. DeadMarks'
    BY <1>51, NoJobAssumption DEF SweepBegin, Off
  <2>6. CallKnows'
    BY <1>51, NoJobAssumption DEF SweepBegin, Off
  <2>7. SweepKnows'
    BY <1>51, NoJobAssumption DEF SweepBegin, Off
  <2>. QED
    BY <2>1, <2>2, <2>3, <2>4, <2>5, <2>6, <2>7
<1>52. ASSUME SweepKill PROVE StopInv'
  BY <1>52 DEF SweepKill, Kill
<1>53. ASSUME SweepWrite PROVE StopInv'
  <2>1. BegunIfSaved'
    BY <1>53, NoJobAssumption DEF SweepWrite, Off, Sweep, Meta
  <2>2. Traces'
    BY <1>53, NoJobAssumption DEF SweepWrite, Off, Sweep, Meta
  <2>3. LiveKnown'
    BY <1>53, NoJobAssumption DEF SweepWrite, Off, Sweep, Meta
  <2>4. DeadVerdict'
    BY <1>53, NoJobAssumption DEF SweepWrite, Off, Sweep, Meta
  <2>5. DeadMarks'
    BY <1>53, NoJobAssumption DEF SweepWrite, Off, Sweep, Meta
  <2>6. CallKnows'
    BY <1>53, NoJobAssumption DEF SweepWrite, Off, Sweep, Meta
  <2>7. SweepKnows'
    BY <1>53, NoJobAssumption DEF SweepWrite, Off, Sweep, Meta
  <2>. QED
    BY <2>1, <2>2, <2>3, <2>4, <2>5, <2>6, <2>7
<1>54. ASSUME Exit PROVE StopInv'
  <2>1. BegunIfSaved'
    BY <1>54, NoJobAssumption DEF Exit, NewServer, Idle, Off
  <2>2. Traces'
    BY <1>54, NoJobAssumption DEF Exit, NewServer, Idle, Off
  <2>3. LiveKnown'
    BY <1>54, NoJobAssumption DEF Exit, NewServer, Idle, Off
  <2>4. DeadVerdict'
    BY <1>54, NoJobAssumption DEF Exit, NewServer, Idle, Off
  <2>5. DeadMarks'
    BY <1>54, NoJobAssumption DEF Exit, NewServer, Idle, Off
  <2>6. CallKnows'
    BY <1>54, NoJobAssumption DEF Exit, NewServer, Idle, Off
  <2>7. SweepKnows'
    BY <1>54, NoJobAssumption DEF Exit, NewServer, Idle, Off
  <2>. QED
    BY <2>1, <2>2, <2>3, <2>4, <2>5, <2>6, <2>7
<1>55. ASSUME Crash PROVE StopInv'
  <2>1. BegunIfSaved'
    BY <1>55, NoJobAssumption DEF Crash, NewServer, Idle, Off
  <2>2. Traces'
    BY <1>55, NoJobAssumption DEF Crash, NewServer, Idle, Off
  <2>3. LiveKnown'
    BY <1>55, NoJobAssumption DEF Crash, NewServer, Idle, Off
  <2>4. DeadVerdict'
    BY <1>55, NoJobAssumption DEF Crash, NewServer, Idle, Off
  <2>5. DeadMarks'
    BY <1>55, NoJobAssumption DEF Crash, NewServer, Idle, Off
  <2>6. CallKnows'
    BY <1>55, NoJobAssumption DEF Crash, NewServer, Idle, Off
  <2>7. SweepKnows'
    BY <1>55, NoJobAssumption DEF Crash, NewServer, Idle, Off
  <2>. QED
    BY <2>1, <2>2, <2>3, <2>4, <2>5, <2>6, <2>7
<1>56. CASE UNCHANGED vars
  BY <1>56 DEF vars, osVars, diskVars, memVars, leaseVars, threadVars, boundVars
<1>. HIDE DEF TypeOK, LeaseInv, CauseInv, StopInv
<1>. QED
  BY <1>1, <1>2, <1>3, <1>4, <1>5, <1>6, <1>7, <1>8, <1>9, <1>10, <1>11,
     <1>12, <1>13, <1>14, <1>15, <1>16, <1>17, <1>18, <1>19, <1>20, <1>21,
     <1>22, <1>23, <1>24, <1>25, <1>26, <1>27, <1>28, <1>29, <1>30, <1>31,
     <1>32, <1>33, <1>34, <1>35, <1>36, <1>37, <1>38, <1>39, <1>40, <1>41,
     <1>42, <1>43, <1>44, <1>45, <1>46, <1>47, <1>48, <1>49, <1>50, <1>51,
     <1>52, <1>53, <1>54, <1>55, <1>56
     DEF Next, StartStep, FinishStep, WatchStep, ProcessStep, CallBegin, CallStep, ServerStep
-----------------------------------------------------------------------------
(* The verdict of an undisturbed job. Until its finisher publishes, a job     *)
(* nobody asked to stop stays in JOB_PROCS (or its watcher took it out past   *)
(* its timeout), so get_command_job reads it as running; it stays held, so    *)
(* the store does not reconcile it; and the mark its watcher leaves is only   *)
(* ever overwritten by copies that are not terminal, which the file refuses.  *)

Unasked(j) == Undecided(j) /\ j \notin asked

HeldWhileUndecided ==
    \A j \in Jobs : start[j] \in {"open", "save"} \/ (Saved(j) /\ Undecided(j))
                       => j \in held /\ record[j] = "open"
UnreapedUntilRegistered ==
    \A j \in Jobs : start[j] \in {"save", "register"}
                       => leader[j] \in {"alive", "zombie"} /\ j \notin procs
RegisteredWhileUnasked ==
    \A j \in Jobs : Saved(j) /\ Unasked(j)
                       => \/ start[j] = "register" \/ j \in procs
                          \/ watch[j] \in {"final", "unlink", "release", "expired"}
CallDecided ==
    \A c \in Callers : \A j \in Jobs :
        caller[c].job = j /\ caller[c].copy.status \in {"completed", "failed", "cancelled"}
           => ~Unasked(j)
SweepDecided ==
    sweep.at # "off" => \A j \in Jobs : j \in sweep.todo \/ sweep.job = j => ~Unasked(j)
MetaDecided ==
    \A j \in Jobs : meta[j].status \in {"completed", "failed", "cancelled"} => ~Unasked(j)
WatcherLater == \A j \in Jobs : start[j] \notin {"returned", "lost"} => watch[j] = "off"
LostTogether == \A j \in Jobs : start[j] = "lost" => finish[j] \in {"off", "lost"}
TimeoutMarked ==
    \A j \in Jobs : watch[j] \in {"kill", "pop", "final", "unlink", "release"} => j \in timeouts
TimeoutKept ==
    \A j \in Jobs : watch[j] \in {"unlink", "release", "expired"} /\ Unasked(j) /\ faults = 0
                       => meta[j].status = "timed_out"

EarlyInv == /\ HeldWhileUndecided /\ UnreapedUntilRegistered /\ RegisteredWhileUnasked
            /\ CallDecided /\ SweepDecided /\ MetaDecided /\ TimeoutMarked /\ TimeoutKept
            /\ WatcherLater /\ LostTogether

\* A decided job stays decided, and a request to stop is not forgotten.
LEMMA DecisionLasts ==
    ASSUME TypeOK, LeaseInv, [Next]_vars, NEW k \in Jobs, Unasked(k)' PROVE Unasked(k)
<1>. USE CallerKinds DEF TypeOK, ThreadTypes, LeaseInv, FinisherLater, Unasked, Undecided,
     threadVars, startRest, finishRest, watchRest, callRest, leaseVars
<1>1. ASSUME NEW j \in Jobs, StartStep(j) PROVE Unasked(k)
  BY <1>1 DEF StartStep, CheckLock, UnlinkStale, Acquire, Launch,
     LaunchStopped, LaunchFails, SaveMeta, SaveFails, Register, StartFinisher,
     WriteLock, WriteLockFails, StartWatcher, Undo
<1>2. ASSUME NEW j \in Jobs, FinishStep(j) PROVE Unasked(k)
  BY <1>2 DEF FinishStep, FinisherWait, FinalizeDrains, Publish, PublishFails,
     FinisherReadLock, FinisherUnlink, FinisherEnd
<1>3. ASSUME NEW j \in Jobs, WatchStep(j) PROVE Unasked(k)
  BY <1>3 DEF WatchStep, WatcherMark, WatcherMarkFails, WatcherKill,
     WatcherPop, WatcherFinal, WatcherFinalFails, WatcherUnlink,
     WatcherRelease
<1>4. ASSUME NEW j \in Jobs, ProcessStep(j) PROVE Unasked(k)
  BY <1>4 DEF ProcessStep, LeaderExits, OthersExit, PipeEnds, CaptureFails,
     InitReaps, TimeElapses, AskCancel
<1>5. ASSUME CallBegin PROVE Unasked(k)
  BY <1>5 DEF CallBegin, CancelRead, GetRead, OpenRead
<1>6. ASSUME NEW c \in Callers, CallStep(c) PROVE Unasked(k)
  BY <1>6 DEF CallStep, CallUnlink, CallWriteFails, CancelWrite, CancelKill,
     CancelPop, CancelSave, GetLook, GetKill, GetReadLock, GetSave,
     OpenReconcile
<1>7. ASSUME ServerStep PROVE Unasked(k)
  BY <1>7 DEF ServerStep, SweepRead, SweepBegin, SweepKill, SweepWrite, Exit,
     Crash, NewServer
<1>8. CASE UNCHANGED vars
  BY <1>8 DEF vars
<1>. QED
  BY <1>1, <1>2, <1>3, <1>4, <1>5, <1>6, <1>7, <1>8 DEF Next

\* The early-verdict invariant is inductive.
LEMMA EarlyStep ==
    TypeOK /\ LeaseInv /\ CauseInv /\ StopInv /\ EarlyInv /\ [Next]_vars => EarlyInv'
<1>. SUFFICES ASSUME TypeOK, LeaseInv, CauseInv, StopInv, EarlyInv, [Next]_vars PROVE EarlyInv'
  OBVIOUS
<1>s. \A k \in Jobs : Saved(k) => Saved(k)'
  BY SavedLasts
<1>u. \A k \in Jobs : Unasked(k)' => Unasked(k)
  BY DecisionLasts
<1>. USE <1>s, <1>u, CallerKinds DEF TypeOK, OsTypes, SetTypes, RecordTypes, ThreadTypes, CallTypes,
     BoundTypes, LeaseInv, NotLaunched, FinisherLater, OpenIsLeased,
     CauseInv, CancelAsked, WatcherLate,
     StopInv, Begun, BegunIfSaved, Traces, CallKnows, SweepKnows,
     EarlyInv, HeldWhileUndecided, UnreapedUntilRegistered, RegisteredWhileUnasked, CallDecided,
     SweepDecided, MetaDecided, TimeoutMarked, TimeoutKept, WatcherLater, LostTogether,
     Saved, Unasked, Undecided, osVars, diskVars, memVars, leaseVars, threadVars, startRest,
     finishRest, watchRest, callRest, boundVars
<1>1. ASSUME NEW j \in Jobs, CheckLock(j) PROVE EarlyInv'
  BY SMTT(20), <1>1 DEF CheckLock, PidRunning
<1>2. ASSUME NEW j \in Jobs, UnlinkStale(j) PROVE EarlyInv'
  BY <1>2 DEF UnlinkStale
<1>3. ASSUME NEW j \in Jobs, Acquire(j) PROVE EarlyInv'
  BY <1>3 DEF Acquire, FreeLease
<1>4. ASSUME NEW j \in Jobs, Launch(j) PROVE EarlyInv'
  <2>1. HeldWhileUndecided'
    BY <1>4, NoJobAssumption DEF Launch
  <2>2. UnreapedUntilRegistered'
    BY <1>4, NoJobAssumption DEF Launch
  <2>3. RegisteredWhileUnasked'
    BY <1>4, NoJobAssumption DEF Launch
  <2>4. CallDecided'
    BY <1>4, NoJobAssumption DEF Launch
  <2>5. SweepDecided'
    BY <1>4, NoJobAssumption DEF Launch
  <2>6. MetaDecided'
    BY <1>4, NoJobAssumption DEF Launch
  <2>7. TimeoutMarked'
    BY <1>4, NoJobAssumption DEF Launch
  <2>8. TimeoutKept'
    BY <1>4, NoJobAssumption DEF Launch
  <2>9. WatcherLater'
    BY <1>4, NoJobAssumption DEF Launch
  <2>10. LostTogether'
    BY <1>4, NoJobAssumption DEF Launch
  <2>. QED
    BY <2>1, <2>2, <2>3, <2>4, <2>5, <2>6, <2>7, <2>8, <2>9, <2>10
<1>5. ASSUME NEW j \in Jobs, LaunchStopped(j) PROVE EarlyInv'
  BY <1>5 DEF LaunchStopped, Undo
<1>6. ASSUME NEW j \in Jobs, LaunchFails(j) PROVE EarlyInv'
  BY <1>6 DEF LaunchFails, Undo, Fault
<1>7. ASSUME NEW j \in Jobs, SaveMeta(j) PROVE EarlyInv'
  BY <1>7 DEF SaveMeta, NewMeta, NoMeta
<1>8. ASSUME NEW j \in Jobs, SaveFails(j) PROVE EarlyInv'
  BY <1>8 DEF SaveFails, Undo, Fault
<1>9. ASSUME NEW j \in Jobs, Register(j) PROVE EarlyInv'
  BY <1>9 DEF Register
<1>10. ASSUME NEW j \in Jobs, StartFinisher(j) PROVE EarlyInv'
  BY <1>10 DEF StartFinisher
<1>11. ASSUME NEW j \in Jobs, WriteLock(j) PROVE EarlyInv'
  BY <1>11 DEF WriteLock
<1>12. ASSUME NEW j \in Jobs, WriteLockFails(j) PROVE EarlyInv'
  BY <1>12 DEF WriteLockFails, Fault
<1>13. ASSUME NEW j \in Jobs, StartWatcher(j) PROVE EarlyInv'
  <2>1. HeldWhileUndecided'
    BY <1>13, NoJobAssumption DEF StartWatcher
  <2>2. UnreapedUntilRegistered'
    BY <1>13, NoJobAssumption DEF StartWatcher
  <2>3. RegisteredWhileUnasked'
    BY <1>13, NoJobAssumption DEF StartWatcher
  <2>4. CallDecided'
    BY <1>13, NoJobAssumption DEF StartWatcher
  <2>5. SweepDecided'
    BY <1>13, NoJobAssumption DEF StartWatcher
  <2>6. MetaDecided'
    BY <1>13, NoJobAssumption DEF StartWatcher
  <2>7. TimeoutMarked'
    BY <1>13, NoJobAssumption DEF StartWatcher
  <2>8. TimeoutKept'
    BY <1>13, NoJobAssumption DEF StartWatcher
  <2>9. WatcherLater'
    BY <1>13, NoJobAssumption DEF StartWatcher
  <2>10. LostTogether'
    BY <1>13, NoJobAssumption DEF StartWatcher
  <2>. QED
    BY <2>1, <2>2, <2>3, <2>4, <2>5, <2>6, <2>7, <2>8, <2>9, <2>10
<1>14. ASSUME NEW j \in Jobs, FinisherWait(j) PROVE EarlyInv'
  BY <1>14 DEF FinisherWait, Reaped
<1>15. ASSUME NEW j \in Jobs, FinalizeDrains(j) PROVE EarlyInv'
  BY <1>15 DEF FinalizeDrains
<1>16. ASSUME NEW j \in Jobs, Publish(j) PROVE EarlyInv'
  BY <1>16 DEF Publish, MayPublish, FinalStatus
<1>17. ASSUME NEW j \in Jobs, PublishFails(j) PROVE EarlyInv'
  BY <1>17 DEF PublishFails, Fault, MayPublish
<1>18. ASSUME NEW j \in Jobs, FinisherReadLock(j) PROVE EarlyInv'
  BY <1>18 DEF FinisherReadLock
<1>19. ASSUME NEW j \in Jobs, FinisherUnlink(j) PROVE EarlyInv'
  BY <1>19 DEF FinisherUnlink
<1>20. ASSUME NEW j \in Jobs, FinisherEnd(j) PROVE EarlyInv'
  BY <1>20 DEF FinisherEnd
<1>21. ASSUME NEW j \in Jobs, WatcherMark(j) PROVE EarlyInv'
  <2>1. HeldWhileUndecided'
    <3>1. \A k \in Jobs : Saved(k)' => Saved(k)
      BY <1>21 DEF WatcherMark
    <3>2. UNCHANGED <<start, finish, held, record>>
      BY <1>21 DEF WatcherMark
    <3>. QED
      BY <3>1, <3>2
  <2>2. UnreapedUntilRegistered'
    BY <1>21, NoJobAssumption DEF WatcherMark, GroupRunning, Meta
  <2>3. RegisteredWhileUnasked'
    BY <1>21, NoJobAssumption DEF WatcherMark, GroupRunning, Meta
  <2>4. CallDecided'
    BY SMTT(40), <1>21, NoJobAssumption DEF WatcherMark, GroupRunning, Meta
  <2>5. SweepDecided'
    BY <1>21, NoJobAssumption DEF WatcherMark, GroupRunning, Meta
  <2>6. MetaDecided'
    BY SMTT(40), <1>21, NoJobAssumption DEF WatcherMark, GroupRunning, Meta
  <2>7. TimeoutMarked'
    BY <1>21, NoJobAssumption DEF WatcherMark, GroupRunning, Meta
  <2>8. TimeoutKept'
    BY <1>21, NoJobAssumption DEF WatcherMark, GroupRunning, Meta
  <2>9. WatcherLater'
    BY <1>21, NoJobAssumption DEF WatcherMark, GroupRunning, Meta
  <2>10. LostTogether'
    BY <1>21, NoJobAssumption DEF WatcherMark, GroupRunning, Meta
  <2>. QED
    BY <2>1, <2>2, <2>3, <2>4, <2>5, <2>6, <2>7, <2>8, <2>9, <2>10
<1>22. ASSUME NEW j \in Jobs, WatcherMarkFails(j) PROVE EarlyInv'
  BY <1>22 DEF WatcherMarkFails, Fault, GroupRunning
<1>23. ASSUME NEW j \in Jobs, WatcherKill(j) PROVE EarlyInv'
  BY <1>23 DEF WatcherKill, Kill
<1>24. ASSUME NEW j \in Jobs, WatcherPop(j) PROVE EarlyInv'
  BY <1>24 DEF WatcherPop, Reaped
<1>25. ASSUME NEW j \in Jobs, WatcherFinal(j) PROVE EarlyInv'
  BY <1>25 DEF WatcherFinal
<1>26. ASSUME NEW j \in Jobs, WatcherFinalFails(j) PROVE EarlyInv'
  BY <1>26 DEF WatcherFinalFails, Fault
<1>27. ASSUME NEW j \in Jobs, WatcherUnlink(j) PROVE EarlyInv'
  BY <1>27 DEF WatcherUnlink
<1>28. ASSUME NEW j \in Jobs, WatcherRelease(j) PROVE EarlyInv'
  BY <1>28 DEF WatcherRelease
<1>29. ASSUME NEW j \in Jobs, LeaderExits(j) PROVE EarlyInv'
  BY <1>29 DEF LeaderExits
<1>30. ASSUME NEW j \in Jobs, OthersExit(j) PROVE EarlyInv'
  BY <1>30 DEF OthersExit
<1>31. ASSUME NEW j \in Jobs, PipeEnds(j) PROVE EarlyInv'
  BY <1>31 DEF PipeEnds
<1>32. ASSUME NEW j \in Jobs, CaptureFails(j) PROVE EarlyInv'
  BY <1>32 DEF CaptureFails, Fault
<1>33. ASSUME NEW j \in Jobs, InitReaps(j) PROVE EarlyInv'
  BY <1>33 DEF InitReaps, Reaped
<1>34. ASSUME NEW j \in Jobs, TimeElapses(j) PROVE EarlyInv'
  BY <1>34 DEF TimeElapses, Saved
<1>35. ASSUME NEW j \in Jobs, AskCancel(j) PROVE EarlyInv'
  BY <1>35 DEF AskCancel
<1>36. ASSUME NEW c \in Cancellers, NEW j \in Jobs, CancelRead(c, j) PROVE EarlyInv'
  BY <1>36 DEF CancelRead, Saved
<1>37. ASSUME NEW c \in Getters, NEW j \in Jobs, GetRead(c, j) PROVE EarlyInv'
  BY <1>37 DEF GetRead, Saved
<1>38. ASSUME NEW c \in Openers, NEW j \in Jobs, OpenRead(c, j) PROVE EarlyInv'
  BY <1>38 DEF OpenRead
<1>39. ASSUME NEW c \in Callers, CallUnlink(c) PROVE EarlyInv'
  BY <1>39 DEF CallUnlink, To
<1>40. ASSUME NEW c \in Callers, CallWriteFails(c) PROVE EarlyInv'
  BY <1>40, NoJobAssumption DEF CallWriteFails, Return, Fault, Idle
<1>41. ASSUME NEW c \in Callers, CancelWrite(c) PROVE EarlyInv'
  BY <1>41 DEF CancelWrite, To
<1>42. ASSUME NEW c \in Callers, CancelKill(c) PROVE EarlyInv'
  BY <1>42 DEF CancelKill, To, Kill
<1>43. ASSUME NEW c \in Callers, CancelPop(c) PROVE EarlyInv'
  BY <1>43 DEF CancelPop, To, Reaped
<1>44. ASSUME NEW c \in Callers, CancelSave(c) PROVE EarlyInv'
  <2>1. HeldWhileUndecided'
    BY <1>44, NoJobAssumption DEF CancelSave, Return, Idle, Meta, Call
  <2>2. UnreapedUntilRegistered'
    BY <1>44, NoJobAssumption DEF CancelSave, Return, Idle, Meta, Call
  <2>3. RegisteredWhileUnasked'
    BY <1>44, NoJobAssumption DEF CancelSave, Return, Idle, Meta, Call
  <2>4. CallDecided'
    BY <1>44, NoJobAssumption DEF CancelSave, Return, Idle
  <2>5. SweepDecided'
    BY <1>44, NoJobAssumption DEF CancelSave, Return, Idle, Meta, Call
  <2>6. MetaDecided'
    BY <1>44, NoJobAssumption DEF CancelSave, Return, Idle, Meta, Call
  <2>7. TimeoutMarked'
    BY <1>44, NoJobAssumption DEF CancelSave, Return, Idle, Meta, Call
  <2>8. TimeoutKept'
    BY <1>44, NoJobAssumption DEF CancelSave, Return, Idle, Meta, Call
  <2>9. WatcherLater'
    BY <1>44, NoJobAssumption DEF CancelSave, Return, Idle, Meta, Call
  <2>10. LostTogether'
    BY <1>44, NoJobAssumption DEF CancelSave, Return, Idle, Meta, Call
  <2>. QED
    BY <2>1, <2>2, <2>3, <2>4, <2>5, <2>6, <2>7, <2>8, <2>9, <2>10
<1>45. ASSUME NEW c \in Callers, GetLook(c) PROVE EarlyInv'
  <2>1. HeldWhileUndecided'
    BY <1>45, NoJobAssumption DEF GetLook, StillRunning, GroupRunning, Reaped
  <2>2. UnreapedUntilRegistered'
    <3>1. UNCHANGED <<start, procs>>
      BY <1>45 DEF GetLook
    <3>2. \A k \in Jobs : k \notin procs => leader'[k] = leader[k]
      BY SMTT(20), <1>45 DEF GetLook, Reaped
    <3>. QED
      BY <3>1, <3>2
  <2>3. RegisteredWhileUnasked'
    BY <1>45, NoJobAssumption DEF GetLook, StillRunning, GroupRunning, Reaped
  <2>4. CallDecided'
    <3>1. PICK at \in {"g_kill", "g_clear", "g_save"}, s \in Statuses :
              /\ LookVerdict(caller[c].job, caller[c].copy.status, at, s)
              /\ caller'[c].job = caller[c].job /\ caller'[c].copy.status = s
              /\ \A d \in Callers \ {c} : caller'[d] = caller[d]
      <4>1. CallTypes
        OBVIOUS
      <4>. HIDE DEF CallTypes, TypeOK, EarlyInv
      <4>. QED
        BY <4>1, <1>45, LookOutcome
    <3>2. \A k \in Jobs : caller[c].job = k /\ Unasked(k) =>
             /\ caller[c].copy.status \in {"running", "terminating", "timed_out"}
             /\ StillRunning(k, caller[c].copy.status) \/ k \in elapsed
      <4>. SUFFICES ASSUME NEW k \in Jobs, caller[c].job = k, Unasked(k)
                    PROVE  /\ caller[c].copy.status \in {"running", "terminating", "timed_out"}
                           /\ StillRunning(k, caller[c].copy.status) \/ k \in elapsed
        OBVIOUS
      <4>1. caller[c].copy.status \in {"running", "terminating", "timed_out"}
        BY DEF Call, Meta, Statuses, Terminal
      <4>2. StillRunning(k, caller[c].copy.status) \/ k \in elapsed
        <5>1. \/ start[k] = "register" \/ k \in procs
              \/ watch[k] \in {"final", "unlink", "release", "expired"}
          OBVIOUS
        <5>2. CASE k \in procs
          BY <4>1, <5>2 DEF StillRunning, Terminal, CallBlame, Blame
        <5>3. CASE start[k] = "register"
          BY <5>3 DEF StillRunning, GroupRunning
        <5>4. CASE watch[k] \in {"final", "unlink", "release", "expired"}
          BY <5>4
        <5>. QED
          BY <5>1, <5>2, <5>3, <5>4
      <4>. QED
        BY <4>1, <4>2
    <3>3. \A k \in Jobs : caller[c].job = k /\ s \in {"completed", "failed", "cancelled"}
                           => ~Unasked(k)
      <4>. HIDE DEF TypeOK, LeaseInv, CauseInv, StopInv, EarlyInv, CallKnows,
         SweepKnows, Unasked
      <4>. QED
        BY <3>1, <3>2 DEF LookVerdict, Late
    <3>. QED
      BY <3>1, <3>3
  <2>5. SweepDecided'
    BY <1>45, NoJobAssumption DEF GetLook, StillRunning, GroupRunning, Reaped
  <2>6. MetaDecided'
    BY <1>45, NoJobAssumption DEF GetLook, StillRunning, GroupRunning, Reaped
  <2>7. TimeoutMarked'
    BY <1>45, NoJobAssumption DEF GetLook, StillRunning, GroupRunning, Reaped
  <2>8. TimeoutKept'
    BY <1>45, NoJobAssumption DEF GetLook, StillRunning, GroupRunning, Reaped
  <2>9. WatcherLater'
    BY <1>45, NoJobAssumption DEF GetLook, StillRunning, GroupRunning, Reaped
  <2>10. LostTogether'
    BY <1>45, NoJobAssumption DEF GetLook, StillRunning, GroupRunning, Reaped
  <2>. QED
    BY <2>1, <2>2, <2>3, <2>4, <2>5, <2>6, <2>7, <2>8, <2>9, <2>10
<1>46. ASSUME NEW c \in Callers, GetKill(c) PROVE EarlyInv'
  BY <1>46 DEF GetKill, To, Kill
<1>47. ASSUME NEW c \in Callers, GetReadLock(c) PROVE EarlyInv'
  BY <1>47 DEF GetReadLock, To
<1>48. ASSUME NEW c \in Callers, GetSave(c) PROVE EarlyInv'
  <2>1. HeldWhileUndecided'
    BY <1>48, NoJobAssumption DEF GetSave, Return, Idle, Meta, Call, Terminal,
       Statuses
  <2>2. UnreapedUntilRegistered'
    BY <1>48, NoJobAssumption DEF GetSave, Return, Idle, Meta, Call, Terminal,
       Statuses
  <2>3. RegisteredWhileUnasked'
    <3>1. CASE meta' = meta
      BY <1>48, <3>1 DEF GetSave
    <3>2. CASE /\ meta' = [meta EXCEPT ![caller[c].job] = caller[c].copy]
               /\ meta[caller[c].job].status \in Terminal => caller[c].copy.status \in Terminal
      BY <1>48, <3>2 DEF GetSave
    <3>. QED
      BY <1>48, <3>1, <3>2 DEF GetSave
  <2>4. CallDecided'
    BY <1>48, NoJobAssumption DEF GetSave, Return, Idle
  <2>5. SweepDecided'
    BY <1>48, NoJobAssumption DEF GetSave, Return, Idle, Meta, Call, Terminal,
       Statuses
  <2>6. MetaDecided'
    BY <1>48, NoJobAssumption DEF GetSave, Return, Idle, Meta, Call, Terminal,
       Statuses
  <2>7. TimeoutMarked'
    BY <1>48, NoJobAssumption DEF GetSave, Return, Idle, Meta, Call, Terminal,
       Statuses
  <2>8. TimeoutKept'
    <3>1. CASE meta' = meta
      BY <1>48, <3>1 DEF GetSave
    <3>2. CASE /\ meta' = [meta EXCEPT ![caller[c].job] = caller[c].copy]
               /\ meta[caller[c].job].status \in Terminal => caller[c].copy.status \in Terminal
      BY <1>48, <3>2 DEF GetSave, Terminal, Statuses, Call, Meta
    <3>. QED
      BY <1>48, <3>1, <3>2 DEF GetSave
  <2>9. WatcherLater'
    BY <1>48, NoJobAssumption DEF GetSave, Return, Idle, Meta, Call, Terminal,
       Statuses
  <2>10. LostTogether'
    BY <1>48, NoJobAssumption DEF GetSave, Return, Idle, Meta, Call, Terminal,
       Statuses
  <2>. QED
    BY <2>1, <2>2, <2>3, <2>4, <2>5, <2>6, <2>7, <2>8, <2>9, <2>10
<1>49. ASSUME NEW c \in Callers, OpenReconcile(c) PROVE EarlyInv'
  <2>1. HeldWhileUndecided'
    <3>1. \A k \in Jobs : Saved(k)' => Saved(k)
      BY <1>49 DEF OpenReconcile
    <3>2. UNCHANGED <<start, finish, held, record>>
      BY <1>49 DEF OpenReconcile
    <3>. QED
      BY <3>1, <3>2
  <2>2. UnreapedUntilRegistered'
    BY <1>49, NoJobAssumption DEF OpenReconcile, Return, Idle, Meta, Call
  <2>3. RegisteredWhileUnasked'
    BY <1>49, NoJobAssumption DEF OpenReconcile, Return, Idle, Meta, Call
  <2>4. CallDecided'
    BY <1>49, NoJobAssumption DEF OpenReconcile, Return, Idle
  <2>5. SweepDecided'
    BY <1>49, NoJobAssumption DEF OpenReconcile, Return, Idle, Meta, Call
  <2>6. MetaDecided'
    BY <1>49, NoJobAssumption DEF OpenReconcile, Return, Idle, Meta, Call
  <2>7. TimeoutMarked'
    BY <1>49, NoJobAssumption DEF OpenReconcile, Return, Idle, Meta, Call
  <2>8. TimeoutKept'
    BY <1>49, NoJobAssumption DEF OpenReconcile, Return, Idle, Meta, Call
  <2>9. WatcherLater'
    BY <1>49, NoJobAssumption DEF OpenReconcile, Return, Idle, Meta, Call
  <2>10. LostTogether'
    BY <1>49, NoJobAssumption DEF OpenReconcile, Return, Idle, Meta, Call
  <2>. QED
    BY <2>1, <2>2, <2>3, <2>4, <2>5, <2>6, <2>7, <2>8, <2>9, <2>10
<1>50. ASSUME NEW j \in Jobs, SweepRead(j) PROVE EarlyInv'
  BY <1>50 DEF SweepRead, Unfinished
<1>51. ASSUME SweepBegin PROVE EarlyInv'
  <2>1. HeldWhileUndecided'
    BY <1>51, NoJobAssumption DEF SweepBegin, Off
  <2>2. UnreapedUntilRegistered'
    BY <1>51, NoJobAssumption DEF SweepBegin, Off
  <2>3. RegisteredWhileUnasked'
    BY <1>51, NoJobAssumption DEF SweepBegin, Off
  <2>4. CallDecided'
    BY <1>51, NoJobAssumption DEF SweepBegin, Off
  <2>5. SweepDecided'
    BY <1>51, NoJobAssumption DEF SweepBegin, Off
  <2>6. MetaDecided'
    BY <1>51, NoJobAssumption DEF SweepBegin, Off
  <2>7. TimeoutMarked'
    BY <1>51, NoJobAssumption DEF SweepBegin, Off
  <2>8. TimeoutKept'
    BY <1>51, NoJobAssumption DEF SweepBegin, Off
  <2>9. WatcherLater'
    BY <1>51, NoJobAssumption DEF SweepBegin, Off
  <2>10. LostTogether'
    BY <1>51, NoJobAssumption DEF SweepBegin, Off
  <2>. QED
    BY <2>1, <2>2, <2>3, <2>4, <2>5, <2>6, <2>7, <2>8, <2>9, <2>10
<1>52. ASSUME SweepKill PROVE EarlyInv'
  BY <1>52 DEF SweepKill, Kill
<1>53. ASSUME SweepWrite PROVE EarlyInv'
  <2>1. HeldWhileUndecided'
    BY <1>53, NoJobAssumption DEF SweepWrite, Off, Meta, Sweep
  <2>2. UnreapedUntilRegistered'
    BY <1>53, NoJobAssumption DEF SweepWrite, Off, Meta, Sweep
  <2>3. RegisteredWhileUnasked'
    BY <1>53, NoJobAssumption DEF SweepWrite, Off, Meta, Sweep
  <2>4. CallDecided'
    BY <1>53, NoJobAssumption DEF SweepWrite, Off, Meta, Sweep
  <2>5. SweepDecided'
    BY <1>53, NoJobAssumption DEF SweepWrite, Off, Meta, Sweep
  <2>6. MetaDecided'
    BY <1>53, NoJobAssumption DEF SweepWrite, Off, Meta, Sweep
  <2>7. TimeoutMarked'
    BY <1>53, NoJobAssumption DEF SweepWrite, Off, Meta, Sweep
  <2>8. TimeoutKept'
    BY <1>53, NoJobAssumption DEF SweepWrite, Off, Meta, Sweep
  <2>9. WatcherLater'
    BY <1>53, NoJobAssumption DEF SweepWrite, Off, Meta, Sweep
  <2>10. LostTogether'
    BY <1>53, NoJobAssumption DEF SweepWrite, Off, Meta, Sweep
  <2>. QED
    BY <2>1, <2>2, <2>3, <2>4, <2>5, <2>6, <2>7, <2>8, <2>9, <2>10
<1>54. ASSUME Exit PROVE EarlyInv'
  <2>1. HeldWhileUndecided'
    BY <1>54, NoJobAssumption DEF Exit, NewServer, Idle, Off
  <2>2. UnreapedUntilRegistered'
    BY <1>54, NoJobAssumption DEF Exit, NewServer, Idle, Off
  <2>3. RegisteredWhileUnasked'
    BY <1>54, NoJobAssumption DEF Exit, NewServer, Idle, Off
  <2>4. CallDecided'
    BY <1>54, NoJobAssumption DEF Exit, NewServer, Idle, Off
  <2>5. SweepDecided'
    BY <1>54, NoJobAssumption DEF Exit, NewServer, Idle, Off
  <2>6. MetaDecided'
    BY <1>54, NoJobAssumption DEF Exit, NewServer, Idle, Off
  <2>7. TimeoutMarked'
    BY <1>54, NoJobAssumption DEF Exit, NewServer, Idle, Off
  <2>8. TimeoutKept'
    BY <1>54, NoJobAssumption DEF Exit, NewServer, Idle, Off
  <2>9. WatcherLater'
    BY <1>54, NoJobAssumption DEF Exit, NewServer, Idle, Off
  <2>10. LostTogether'
    BY <1>54, NoJobAssumption DEF Exit, NewServer, Idle, Off
  <2>. QED
    BY <2>1, <2>2, <2>3, <2>4, <2>5, <2>6, <2>7, <2>8, <2>9, <2>10
<1>55. ASSUME Crash PROVE EarlyInv'
  <2>1. HeldWhileUndecided'
    BY <1>55, NoJobAssumption DEF Crash, NewServer, Idle, Off
  <2>2. UnreapedUntilRegistered'
    BY <1>55, NoJobAssumption DEF Crash, NewServer, Idle, Off
  <2>3. RegisteredWhileUnasked'
    BY <1>55, NoJobAssumption DEF Crash, NewServer, Idle, Off
  <2>4. CallDecided'
    BY <1>55, NoJobAssumption DEF Crash, NewServer, Idle, Off
  <2>5. SweepDecided'
    BY <1>55, NoJobAssumption DEF Crash, NewServer, Idle, Off
  <2>6. MetaDecided'
    BY <1>55, NoJobAssumption DEF Crash, NewServer, Idle, Off
  <2>7. TimeoutMarked'
    BY <1>55, NoJobAssumption DEF Crash, NewServer, Idle, Off
  <2>8. TimeoutKept'
    BY <1>55, NoJobAssumption DEF Crash, NewServer, Idle, Off
  <2>9. WatcherLater'
    BY <1>55, NoJobAssumption DEF Crash, NewServer, Idle, Off
  <2>10. LostTogether'
    BY <1>55, NoJobAssumption DEF Crash, NewServer, Idle, Off
  <2>. QED
    BY <2>1, <2>2, <2>3, <2>4, <2>5, <2>6, <2>7, <2>8, <2>9, <2>10
<1>56. CASE UNCHANGED vars
  BY <1>56 DEF vars, osVars, diskVars, memVars, leaseVars, threadVars, boundVars
<1>. HIDE DEF TypeOK, LeaseInv, CauseInv, StopInv, EarlyInv
<1>. QED
  BY <1>1, <1>2, <1>3, <1>4, <1>5, <1>6, <1>7, <1>8, <1>9, <1>10, <1>11,
     <1>12, <1>13, <1>14, <1>15, <1>16, <1>17, <1>18, <1>19, <1>20, <1>21,
     <1>22, <1>23, <1>24, <1>25, <1>26, <1>27, <1>28, <1>29, <1>30, <1>31,
     <1>32, <1>33, <1>34, <1>35, <1>36, <1>37, <1>38, <1>39, <1>40, <1>41,
     <1>42, <1>43, <1>44, <1>45, <1>46, <1>47, <1>48, <1>49, <1>50, <1>51,
     <1>52, <1>53, <1>54, <1>55, <1>56
     DEF Next, StartStep, FinishStep, WatchStep, ProcessStep, CallBegin, CallStep, ServerStep

-----------------------------------------------------------------------------
(* The theorems. *)

\* Every invariant holds initially.
LEMMA InitInv == Init => TypeOK /\ LeaseInv /\ LeaseBound /\ CauseInv /\ StopInv /\ EarlyInv
<1>. SUFFICES ASSUME Init
              PROVE  TypeOK /\ LeaseInv /\ LeaseBound /\ CauseInv /\ StopInv /\ EarlyInv
  OBVIOUS
<1>1. TypeOK
  <2>. USE DEF Init
  <2>1. OsTypes /\ SetTypes /\ ThreadTypes
    BY DEF OsTypes, SetTypes, ThreadTypes
  <2>2. RecordTypes
    BY DEF RecordTypes, NoMeta, Meta, Statuses
  <2>3. CallTypes
    BY IdleTypes DEF CallTypes
  <2>4. BoundTypes
    BY FaultsAssumption DEF BoundTypes
  <2>. QED
    BY <2>1, <2>2, <2>3, <2>4 DEF TypeOK
<1>2. LeaseInv
  BY DEF Init, LeaseInv, NotLaunched, OpenIsLeased, ReapedFirst, FinisherLater,
     RunningIsLeased, Live
<1>3. LeaseBound
  BY CapacityAssumption, FS_EmptySet DEF Init, LeaseBound
<1>4. CauseInv
  BY NoJobAssumption DEF Init, CauseInv, MetaBlame, CallBlame, CancelAsked,
     SweepBlame,
     WatcherLate, Blame, NoMeta, Idle, Off
<1>5. StopInv
  BY NoJobAssumption DEF Init, StopInv, BegunIfSaved, Traces, LiveKnown,
     DeadVerdict, DeadMarks,
     CallKnows, SweepKnows, Live, Saved, NoMeta, Idle, Off, Terminal
<1>6. EarlyInv
  BY NoJobAssumption DEF Init, EarlyInv, HeldWhileUndecided, UnreapedUntilRegistered,
     RegisteredWhileUnasked, CallDecided, SweepDecided, MetaDecided, TimeoutMarked, TimeoutKept,
     WatcherLater, LostTogether, Saved, NoMeta, Idle, Off
<1>. QED
  BY <1>1, <1>2, <1>3, <1>4, <1>5, <1>6

\* Every reachable state has the types the module declares: no thread, whatever
\* stale copy it holds, stores metadata that is not metadata.
THEOREM TypeCorrect == Spec => []TypeOK
  BY InitInv, TypeStep, PTL DEF Spec

\* A running command of this server holds its lease and its artifacts, however its
\* start, its finisher or a cancellation fails (fail_start, finish_heavy_audit).
THEOREM RunningCommandsAreLeased == Spec => []RunningIsLeased
<1>1. Spec => []LeaseInv
  BY InitInv, TypeCorrect, LeaseStep, PTL DEF Spec
<1>2. LeaseInv => RunningIsLeased
  BY DEF LeaseInv
<1>. QED
  BY <1>1, <1>2, PTL

\* No more than max_heavy_operations commands of this server run at once.
THEOREM LimitIsKept == Spec => []HeavyBound
<1>1. Spec => []LeaseBound
  BY InitInv, TypeCorrect, LeaseBoundStep, PTL DEF Spec
<1>. QED
  BY <1>1, TypeCorrect, RunningCommandsAreLeased, LeasedBoundsRunning, PTL

\* Metadata reads timed_out only of a job past its timeout and cancelled only of a
\* job that was cancelled or shut down, whichever stale copy was written last.
THEOREM VerdictsHaveCauses == Spec => []VerdictHasCause
<1>1. Spec => []CauseInv
  BY InitInv, TypeCorrect, CauseStep, PTL DEF Spec
<1>2. CauseInv => VerdictHasCause
  BY DEF CauseInv, MetaBlame, Blame, VerdictHasCause
<1>. QED
  BY <1>1, <1>2, PTL

\* An orderly exit (main, shutdown_command_jobs) leaves no command of this server
\* running, whatever calls, finishers and watchers it meets.
THEOREM ShutdownStopsCommands == Spec => ShutdownStops
<1>1. Spec => []LeaseInv
  BY InitInv, TypeCorrect, LeaseStep, PTL DEF Spec
<1>2. Spec => []StopInv
  BY <1>1, InitInv, TypeCorrect, StopStep, PTL DEF Spec
<1>3. StopInv => (Exit => \A j \in Jobs : ~Live(j))
  BY DEF StopInv, SweepKnows, Exit
<1>4. QED
  BY <1>2, <1>3, PTL DEF ShutdownStops

\* The invariant of undisturbed jobs holds in every reachable state.
LEMMA EarlyCorrect == Spec => []EarlyInv
<1>1. Spec => []LeaseInv
  BY InitInv, TypeCorrect, LeaseStep, PTL DEF Spec
<1>2. Spec => []CauseInv
  BY InitInv, TypeCorrect, CauseStep, PTL DEF Spec
<1>3. Spec => []StopInv
  BY <1>1, InitInv, TypeCorrect, StopStep, PTL DEF Spec
<1>. QED
  BY <1>1, <1>2, <1>3, InitInv, TypeCorrect, EarlyStep, PTL DEF Spec

\* Neither get_command_job nor reconcile_stale_active reports a job completed or
\* failed before its finisher has its whole output, unless it was cancelled.
THEOREM NoVerdictTooEarly == Spec => []NoEarlyVerdict
<1>1. EarlyInv => NoEarlyVerdict
  BY DEF EarlyInv, MetaDecided, Unasked, NoEarlyVerdict
<1>. QED
  BY <1>1, EarlyCorrect, PTL

\* The finisher reports a job its watcher killed as timed out, while nothing fails.
THEOREM TimeoutsAreReported == Spec => TimeoutReported
<1>1. TypeOK /\ EarlyInv =>
         \A j \in Jobs : Publish(j) /\ watch[j] \in {"pop", "final", "unlink", "release", "expired"}
                           /\ j \notin asked /\ j \notin errors /\ faults = 0
                        => verdict'[j] = "timed_out"
  <2>. SUFFICES ASSUME TypeOK, EarlyInv, NEW j \in Jobs, Publish(j),
                       watch[j] \in {"pop", "final", "unlink", "release", "expired"},
                       j \notin asked, j \notin errors, faults = 0
                PROVE  verdict'[j] = "timed_out"
    OBVIOUS
  <2>1. finish[j] = "publish" /\ j \notin timeouts
    BY DEF Publish, MayPublish
  <2>2. watch[j] = "expired" /\ start[j] # "lost"
    BY <2>1 DEF EarlyInv, TimeoutMarked, LostTogether
  <2>3. meta[j].status = "timed_out"
    BY <2>1, <2>2 DEF EarlyInv, TimeoutKept, Unasked, Undecided
  <2>4. FinalStatus(meta[j], j \in errors, code[j]) = "timed_out"
    BY <2>3 DEF FinalStatus, Terminal
  <2>. QED
    BY <2>4 DEF Publish, TypeOK, RecordTypes
<1>. QED
  BY <1>1, TypeCorrect, EarlyCorrect, PTL DEF TimeoutReported

=============================================================================
