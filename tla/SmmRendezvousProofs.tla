------------------------ MODULE SmmRendezvousProofs ------------------------
(***************************************************************************)
(* SmmRendezvous for any number of processors, either sync mode, with and   *)
(* without BSP election, MTRR configuration and the give-up race, and for   *)
(* every bound on SMIs and service calls: the variables keep their types,   *)
(* and there is one BSP at a time.                                          *)
(***************************************************************************)
EXTENDS SmmRendezvous, TLAPS

-----------------------------------------------------------------------------
(* Facts the steps below rest on. *)

\* The loop counters of BSPHandler run from NumberOfCpus down to 0.
LEMMA CpuFacts ==
  /\ 0 \in Cpu
  /\ NumberOfCpus \in 0 .. NumberOfCpus
  /\ \A i \in Cpu : i \in 0 .. NumberOfCpus
BY CpuAssumption DEF Cpu

\* WaitForSemaphore and ReleaseSemaphore leave integers in the semaphores.
LEMMA SemaphoreKeepsType ==
  ASSUME run \in [Cpu -> Int], NEW i, Up(i) \/ Down(i)
  PROVE  run' \in [Cpu -> Int]
<1>1. CASE i \notin Cpu
  BY <1>1 DEF Up, Down
<1>2. CASE i \in Cpu
  <2>1. run[i] \in Int /\ ReleaseSemaphore(run[i]) \in Int
        /\ WaitForSemaphore(run[i]) \in Int
    BY <1>2 DEF ReleaseSemaphore, WaitForSemaphore, Locked
  <2> QED
    BY <1>2, <2>1 DEF Up, Down
<1> QED
  BY <1>1, <1>2

-----------------------------------------------------------------------------
(* Type correctness. *)

\* A step of SmiRendezvous keeps every type.
LEMMA SmiRendezvousKeepsTypes ==
  ASSUME TypeOK, NEW c \in Cpu, SmiRendezvous(c)
  PROVE  TypeOK'
<1> USE DEF TypeOK, At, Goto, Step, syncVars, electVars, modeVars, mtrrVars,
            platVars, dataVars, taskVars, hwVars, entryVars, bspVars,
            stackVars, memory, notSync, notStack, notData, Labels,
            JoiningLabels, ApLabels, BspLabels, BspGatherLabels,
            BspCoreLabels, BspExitLabels, BspResetLabels
<1>1. CASE SampleValidSmi(c)
  <2>1. PcType'
    BY <1>1 DEF SampleValidSmi, PcType
  <2>2. StackType'
    BY <1>1 DEF SampleValidSmi, PlatformValidSmi, StackType, SyncModes,
      NoBsp, HardwareType
  <2>3. SyncType' /\ CpuDataType' /\ HardwareType' /\ HistoryType'
    BY <1>1 DEF SampleValidSmi, SyncType, CpuDataType, HardwareType,
      HistoryType
  <2> QED
    BY <2>1, <2>2, <2>3 DEF TypeOK
<1>2. CASE SampleBspInProgress(c)
  <2>1. PcType'
    BY <1>2 DEF SampleBspInProgress, PcType
  <2>2. StackType'
    BY <1>2 DEF SampleBspInProgress, StackType, SyncModes, NoBsp, SyncType
  <2>3. SyncType' /\ CpuDataType' /\ HardwareType' /\ HistoryType'
    BY <1>2 DEF SampleBspInProgress, SyncType, CpuDataType, HardwareType,
      HistoryType
  <2> QED
    BY <2>1, <2>2, <2>3 DEF TypeOK
<1>3. CASE CheckIn(c)
  <2>1. SyncType'
    BY <1>3 DEF CheckIn, ReleaseSemaphore, SyncType, NoBsp, Locked, SyncModes
  <2>2. PcType'
    BY <1>3 DEF CheckIn, PcType
  <2>3. CpuDataType' /\ HardwareType' /\ StackType' /\ HistoryType'
    BY <1>3 DEF CheckIn, CpuDataType, HardwareType, StackType, HistoryType
  <2> QED
    BY <2>1, <2>2, <2>3 DEF TypeOK
<1>4. CASE WaitForEndOfRun(c)
  <2>1. PcType'
    BY <1>4 DEF WaitForEndOfRun, PcType
  <2>2. SyncType' /\ CpuDataType' /\ HardwareType' /\ StackType' /\ HistoryType'
    BY <1>4 DEF WaitForEndOfRun, SyncType, CpuDataType, HardwareType,
      StackType, HistoryType
  <2> QED
    BY <2>1, <2>2 DEF TypeOK
<1>5. CASE LeaveSmm(c)
  <2>1. HardwareType'
    BY <1>5 DEF LeaveSmm, HardwareType, Settings
  <2>2. PcType'
    BY <1>5 DEF LeaveSmm, PcType
  <2>3. StackType'
    BY <1>5, CpuFacts DEF LeaveSmm, StackType, SyncModes, NoBsp
  <2>4. SyncType' /\ CpuDataType' /\ HistoryType'
    BY <1>5 DEF LeaveSmm, SyncType, CpuDataType, HistoryType
  <2> QED
    BY <2>1, <2>2, <2>3, <2>4 DEF TypeOK
<1>6. CASE InitializeBusy(c)
  <2>1. CpuDataType'
    BY <1>6, BoundAssumption DEF InitializeBusy, CpuDataType
  <2>2. PcType'
    BY <1>6 DEF InitializeBusy, PcType
  <2>3. SyncType' /\ HardwareType' /\ StackType' /\ HistoryType'
    BY <1>6 DEF InitializeBusy, SyncType, HardwareType, StackType,
      HistoryType
  <2> QED
    BY <2>1, <2>2, <2>3 DEF TypeOK
<1>7. CASE Stand(c)
  <2>1. PcType'
    BY <1>7 DEF Stand, PcType
  <2>2. SyncType' /\ CpuDataType' /\ HardwareType' /\ StackType' /\ HistoryType'
    BY <1>7 DEF Stand, SyncType, CpuDataType, HardwareType, StackType,
      HistoryType
  <2> QED
    BY <2>1, <2>2 DEF TypeOK
<1>8. CASE ElectBsp(c)
  <2>1. SyncType'
    BY <1>8 DEF ElectBsp, FirstCandidateWins, SyncType, NoBsp, Locked,
      SyncModes
  <2>2. PcType'
    BY <1>8 DEF ElectBsp, PcType
  <2>3. CpuDataType' /\ HardwareType' /\ StackType' /\ HistoryType'
    BY <1>8 DEF ElectBsp, CpuDataType, HardwareType, StackType, HistoryType
  <2> QED
    BY <2>1, <2>2, <2>3 DEF TypeOK
<1>9. CASE BecomeBsp(c)
  <2>1. SyncType'
    BY <1>9 DEF BecomeBsp, SyncType, NoBsp, Locked, SyncModes
  <2>2. PcType'
    BY <1>9 DEF BecomeBsp, PcType
  <2>3. StackType'
    BY <1>9 DEF BecomeBsp, StackType, SyncModes, NoBsp, SyncType
  <2>4. CpuDataType' /\ HardwareType' /\ HistoryType'
    BY <1>9 DEF BecomeBsp, CpuDataType, HardwareType, HistoryType
  <2> QED
    BY <2>1, <2>2, <2>3, <2>4 DEF TypeOK
<1>10. CASE BecomeAp(c)
  <2>1. PcType'
    BY <1>10 DEF BecomeAp, PcType
  <2>2. SyncType' /\ CpuDataType' /\ HardwareType' /\ StackType' /\ HistoryType'
    BY <1>10 DEF BecomeAp, SyncType, CpuDataType, HardwareType, StackType,
      HistoryType
  <2> QED
    BY <2>1, <2>2 DEF TypeOK
<1>11. CASE ReadSyncMode(c)
  <2>1. PcType'
    BY <1>11 DEF ReadSyncMode, PcType
  <2>2. StackType'
    BY <1>11 DEF ReadSyncMode, StackType, SyncModes, NoBsp, SyncType
  <2>3. SyncType' /\ CpuDataType' /\ HardwareType' /\ HistoryType'
    BY <1>11 DEF ReadSyncMode, SyncType, CpuDataType, HardwareType,
      HistoryType
  <2> QED
    BY <2>1, <2>2, <2>3 DEF TypeOK
<1> QED
  BY <1>1, <1>2, <1>3, <1>4, <1>5, <1>6, <1>7, <1>8, <1>9, <1>10, <1>11 DEF
    SmiRendezvous

\* A step of APHandler keeps every type.
LEMMA APHandlerKeepsTypes ==
  ASSUME TypeOK, NEW c \in Cpu, APHandler(c)
  PROVE  TypeOK'
<1> USE DEF TypeOK, At, Goto, Step, syncVars, electVars, modeVars, mtrrVars,
            platVars, dataVars, taskVars, hwVars, entryVars, bspVars,
            stackVars, memory, notSync, notStack, notData, Labels,
            JoiningLabels, ApLabels, BspLabels, BspGatherLabels,
            BspCoreLabels, BspExitLabels, BspResetLabels
<1>1. CASE ApMarkPresent(c)
  <2>1. PcType'
    BY <1>1 DEF ApMarkPresent, PcType
  <2>2. StackType'
    BY <1>1 DEF ApMarkPresent, StackType, SyncModes, NoBsp, SyncType
  <2>3. SyncType' /\ CpuDataType' /\ HardwareType' /\ HistoryType'
    BY <1>1 DEF ApMarkPresent, SyncType, CpuDataType, HardwareType,
      HistoryType
  <2> QED
    BY <2>1, <2>2, <2>3 DEF TypeOK
<1>2. CASE ApPresent(c)
  <2>1. CpuDataType'
    BY <1>2 DEF ApPresent, CpuDataType
  <2>2. PcType'
    BY <1>2 DEF ApPresent, PcType
  <2>3. SyncType' /\ HardwareType' /\ StackType' /\ HistoryType'
    BY <1>2 DEF ApPresent, SyncType, HardwareType, StackType, HistoryType
  <2> QED
    BY <2>1, <2>2, <2>3 DEF TypeOK
<1>3. CASE ApTimeout1(c)
  <2>1. PcType'
    BY <1>3 DEF ApTimeout1, PcType
  <2>2. SyncType' /\ CpuDataType' /\ HardwareType' /\ StackType' /\ HistoryType'
    BY <1>3 DEF ApTimeout1, SyncType, CpuDataType, HardwareType, StackType,
      HistoryType
  <2> QED
    BY <2>1, <2>2 DEF TypeOK
<1>4. CASE ApCallBsp(c)
  <2>1. HardwareType'
    BY <1>4 DEF ApCallBsp, SendSmiIpi, HardwareType, Settings
  <2>2. PcType'
    BY <1>4 DEF ApCallBsp, PcType
  <2>3. SyncType' /\ CpuDataType' /\ StackType' /\ HistoryType'
    BY <1>4 DEF ApCallBsp, SyncType, CpuDataType, StackType, HistoryType
  <2> QED
    BY <2>1, <2>2, <2>3 DEF TypeOK
<1>5. CASE ApNobodyToCall(c)
  <2>1. SyncType'
    BY <1>5 DEF ApNobodyToCall, DecideToGiveUp, GiveUp, WaitForSemaphore,
      SyncType, NoBsp, Locked, SyncModes
  <2>2. PcType'
    BY <1>5 DEF ApNobodyToCall, DecideToGiveUp, GiveUp, PcType
  <2>3. CpuDataType' /\ HardwareType' /\ StackType' /\ HistoryType'
    BY <1>5 DEF ApNobodyToCall, CpuDataType, HardwareType, StackType,
      HistoryType
  <2> QED
    BY <2>1, <2>2, <2>3 DEF TypeOK
<1>6. CASE ApTimeout2(c)
  <2>1. SyncType'
    BY <1>6 DEF ApTimeout2, DecideToGiveUp, GiveUp, WaitForSemaphore,
      SyncType, NoBsp, Locked, SyncModes
  <2>2. PcType'
    BY <1>6 DEF ApTimeout2, DecideToGiveUp, GiveUp, PcType
  <2>3. CpuDataType' /\ HardwareType' /\ StackType' /\ HistoryType'
    BY <1>6 DEF ApTimeout2, CpuDataType, HardwareType, StackType, HistoryType
  <2> QED
    BY <2>1, <2>2, <2>3 DEF TypeOK
<1>7. CASE ApGiveUp(c)
  <2>1. SyncType'
    BY <1>7 DEF ApGiveUp, GiveUp, WaitForSemaphore, SyncType, NoBsp, Locked,
      SyncModes
  <2>2. PcType'
    BY <1>7 DEF ApGiveUp, GiveUp, PcType
  <2>3. CpuDataType' /\ HardwareType' /\ StackType' /\ HistoryType'
    BY <1>7 DEF ApGiveUp, CpuDataType, HardwareType, StackType, HistoryType
  <2> QED
    BY <2>1, <2>2, <2>3 DEF TypeOK
<1>8. CASE ApSignal(c)
  <2>1. CpuDataType'
    BY <1>8, SemaphoreKeepsType DEF ApSignal, CpuDataType
  <2>2. PcType'
    BY <1>8 DEF ApSignal, PcType
  <2>3. SyncType' /\ HardwareType' /\ StackType' /\ HistoryType'
    BY <1>8 DEF ApSignal, SyncType, HardwareType, StackType, HistoryType
  <2> QED
    BY <2>1, <2>2, <2>3 DEF TypeOK
<1>9. CASE ApWait(c)
  <2>1. CpuDataType'
    BY <1>9, SemaphoreKeepsType DEF ApWait, CpuDataType
  <2>2. PcType'
    BY <1>9 DEF ApWait, PcType
  <2>3. SyncType' /\ HardwareType' /\ StackType' /\ HistoryType'
    BY <1>9 DEF ApWait, SyncType, HardwareType, StackType, HistoryType
  <2> QED
    BY <2>1, <2>2, <2>3 DEF TypeOK
<1>10. CASE ApBackupMtrrs(c)
  <2>1. CpuDataType'
    BY <1>10, SemaphoreKeepsType DEF ApBackupMtrrs, CpuDataType
  <2>2. HardwareType'
    BY <1>10, CoreAssumption DEF ApBackupMtrrs, HardwareType, Settings
  <2>3. PcType'
    BY <1>10 DEF ApBackupMtrrs, PcType
  <2>4. SyncType' /\ StackType' /\ HistoryType'
    BY <1>10 DEF ApBackupMtrrs, SyncType, StackType, HistoryType
  <2> QED
    BY <2>1, <2>2, <2>3, <2>4 DEF TypeOK
<1>11. CASE ApReplaceOSMtrrs(c)
  <2>1. CpuDataType'
    BY <1>11, SemaphoreKeepsType DEF ApReplaceOSMtrrs, CpuDataType
  <2>2. HardwareType'
    BY <1>11, CoreAssumption DEF ApReplaceOSMtrrs, HardwareType, Settings
  <2>3. PcType'
    BY <1>11 DEF ApReplaceOSMtrrs, PcType
  <2>4. SyncType' /\ StackType' /\ HistoryType'
    BY <1>11 DEF ApReplaceOSMtrrs, SyncType, StackType, HistoryType
  <2> QED
    BY <2>1, <2>2, <2>3, <2>4 DEF TypeOK
<1>12. CASE ApCheckExit(c)
  <2>1. PcType'
    BY <1>12 DEF ApCheckExit, PcType
  <2>2. SyncType' /\ CpuDataType' /\ HardwareType' /\ StackType' /\ HistoryType'
    BY <1>12 DEF ApCheckExit, SyncType, CpuDataType, HardwareType, StackType,
      HistoryType
  <2> QED
    BY <2>1, <2>2 DEF TypeOK
<1>13. CASE ApRunProcedure(c)
  <2>1. PcType'
    BY <1>13 DEF ApRunProcedure, PcType
  <2>2. HistoryType'
    BY <1>13, BoundAssumption DEF ApRunProcedure, HistoryType
  <2>3. SyncType' /\ CpuDataType' /\ HardwareType' /\ StackType'
    BY <1>13 DEF ApRunProcedure, SyncType, CpuDataType, HardwareType,
      StackType
  <2> QED
    BY <2>1, <2>2, <2>3 DEF TypeOK
<1>14. CASE ApReleaseBusy(c)
  <2>1. CpuDataType'
    BY <1>14, BoundAssumption DEF ApReleaseBusy, CpuDataType
  <2>2. PcType'
    BY <1>14 DEF ApReleaseBusy, PcType
  <2>3. SyncType' /\ HardwareType' /\ StackType' /\ HistoryType'
    BY <1>14 DEF ApReleaseBusy, SyncType, HardwareType, StackType,
      HistoryType
  <2> QED
    BY <2>1, <2>2, <2>3 DEF TypeOK
<1>15. CASE ApReady(c)
  <2>1. CpuDataType'
    BY <1>15, SemaphoreKeepsType DEF ApReady, CpuDataType
  <2>2. HardwareType'
    BY <1>15, CoreAssumption DEF ApReady, HardwareType, Settings
  <2>3. PcType'
    BY <1>15 DEF ApReady, PcType
  <2>4. SyncType' /\ StackType' /\ HistoryType'
    BY <1>15 DEF ApReady, SyncType, StackType, HistoryType
  <2> QED
    BY <2>1, <2>2, <2>3, <2>4 DEF TypeOK
<1>16. CASE ApAbsent(c)
  <2>1. CpuDataType'
    BY <1>16 DEF ApAbsent, CpuDataType
  <2>2. PcType'
    BY <1>16 DEF ApAbsent, PcType
  <2>3. SyncType' /\ HardwareType' /\ StackType' /\ HistoryType'
    BY <1>16 DEF ApAbsent, SyncType, HardwareType, StackType, HistoryType
  <2> QED
    BY <2>1, <2>2, <2>3 DEF TypeOK
<1> QED
  BY <1>1, <1>2, <1>3, <1>4, <1>5, <1>6, <1>7, <1>8, <1>9, <1>10, <1>11,
    <1>12, <1>13, <1>14, <1>15, <1>16 DEF APHandler

\* A step of BSPHandler keeps every type.
LEMMA BSPHandlerKeepsTypes ==
  ASSUME TypeOK, NEW c \in Cpu, BSPHandler(c)
  PROVE  TypeOK'
<1> USE DEF TypeOK, At, Goto, Step, syncVars, electVars, modeVars, mtrrVars,
            platVars, dataVars, taskVars, hwVars, entryVars, bspVars,
            stackVars, memory, notSync, notStack, notData, Labels,
            JoiningLabels, ApLabels, BspLabels, BspGatherLabels,
            BspCoreLabels, BspExitLabels, BspResetLabels
<1>1. CASE BspFlagInside(c)
  <2>1. SyncType'
    BY <1>1 DEF BspFlagInside, SyncType, NoBsp, Locked, SyncModes
  <2>2. PcType'
    BY <1>1 DEF BspFlagInside, PcType
  <2>3. CpuDataType' /\ HardwareType' /\ StackType' /\ HistoryType'
    BY <1>1 DEF BspFlagInside, CpuDataType, HardwareType, StackType,
      HistoryType
  <2> QED
    BY <2>1, <2>2, <2>3 DEF TypeOK
<1>2. CASE BspPresent(c)
  <2>1. CpuDataType'
    BY <1>2 DEF BspPresent, CpuDataType
  <2>2. PcType'
    BY <1>2 DEF BspPresent, PcType
  <2>3. SyncType' /\ HardwareType' /\ StackType' /\ HistoryType'
    BY <1>2 DEF BspPresent, SyncType, HardwareType, StackType, HistoryType
  <2> QED
    BY <2>1, <2>2, <2>3 DEF TypeOK
<1>3. CASE BspClearSmiStatus(c)
  <2>1. HardwareType'
    BY <1>3 DEF BspClearSmiStatus, HardwareType, Settings
  <2>2. PcType'
    BY <1>3 DEF BspClearSmiStatus, PcType
  <2>3. SyncType' /\ CpuDataType' /\ StackType' /\ HistoryType'
    BY <1>3 DEF BspClearSmiStatus, SyncType, CpuDataType, StackType,
      HistoryType
  <2> QED
    BY <2>1, <2>2, <2>3 DEF TypeOK
<1>4. CASE BspAllArrived(c)
  <2>1. PcType'
    BY <1>4 DEF BspAllArrived, BspArrivalLoopEnds, ArrivalDone, PcType
  <2>2. StackType'
    BY <1>4 DEF BspAllArrived, BspArrivalLoopEnds, ArrivalDone, StackType,
      SyncModes, NoBsp
  <2>3. SyncType' /\ CpuDataType' /\ HardwareType' /\ HistoryType'
    BY <1>4 DEF BspAllArrived, BspArrivalLoopEnds, SyncType, CpuDataType,
      HardwareType, HistoryType
  <2> QED
    BY <2>1, <2>2, <2>3 DEF TypeOK
<1>5. CASE BspArrivalTimeout(c)
  <2>1. PcType'
    BY <1>5 DEF BspArrivalTimeout, BspArrivalLoopEnds, ArrivalDone, PcType
  <2>2. StackType'
    BY <1>5 DEF BspArrivalTimeout, BspArrivalLoopEnds, ArrivalDone,
      StackType, SyncModes, NoBsp
  <2>3. SyncType' /\ CpuDataType' /\ HardwareType' /\ HistoryType'
    BY <1>5 DEF BspArrivalTimeout, BspArrivalLoopEnds, SyncType, CpuDataType,
      HardwareType, HistoryType
  <2> QED
    BY <2>1, <2>2, <2>3 DEF TypeOK
<1>6. CASE BspLookForMissing(c)
  <2>1. PcType'
    BY <1>6 DEF BspLookForMissing, ArrivalDone, PcType
  <2>2. StackType'
    BY <1>6, CpuFacts DEF BspLookForMissing, StartLoop, ArrivalDone,
      StackType, SyncModes, NoBsp
  <2>3. SyncType' /\ CpuDataType' /\ HardwareType' /\ HistoryType'
    BY <1>6 DEF BspLookForMissing, SyncType, CpuDataType, HardwareType,
      HistoryType
  <2> QED
    BY <2>1, <2>2, <2>3 DEF TypeOK
<1>7. CASE BspSendSmiIpis(c)
  <2>1. HardwareType'
    BY <1>7 DEF BspSendSmiIpis, SendSmiIpi, HardwareType, Settings
  <2>2. PcType'
    BY <1>7 DEF BspSendSmiIpis, Loop, PcType
  <2>3. StackType'
    BY <1>7, CpuFacts DEF BspSendSmiIpis, Loop, StackType, SyncModes, NoBsp
  <2>4. SyncType' /\ CpuDataType' /\ HistoryType'
    BY <1>7 DEF BspSendSmiIpis, SyncType, CpuDataType, HistoryType
  <2> QED
    BY <2>1, <2>2, <2>3, <2>4 DEF TypeOK
<1>8. CASE BspRaiseSync(c)
  <2>1. SyncType'
    BY <1>8 DEF BspRaiseSync, SyncType, NoBsp, Locked, SyncModes
  <2>2. PcType'
    BY <1>8 DEF BspRaiseSync, PcType
  <2>3. CpuDataType' /\ HardwareType' /\ StackType' /\ HistoryType'
    BY <1>8 DEF BspRaiseSync, CpuDataType, HardwareType, StackType,
      HistoryType
  <2> QED
    BY <2>1, <2>2, <2>3 DEF TypeOK
<1>9. CASE BspLockCounter(c)
  <2>1. SyncType'
    BY <1>9 DEF BspLockCounter, SyncType, NoBsp, Locked, SyncModes
  <2>2. PcType'
    BY <1>9 DEF BspLockCounter, PcType
  <2>3. StackType'
    BY <1>9, CpuFacts DEF BspLockCounter, WaitForAllAPs, StackType,
      SyncModes, NoBsp, SyncType
  <2>4. CpuDataType' /\ HardwareType' /\ HistoryType'
    BY <1>9 DEF BspLockCounter, CpuDataType, HardwareType, HistoryType
  <2> QED
    BY <2>1, <2>2, <2>3, <2>4 DEF TypeOK
<1>10. CASE BspWaitForAp(c)
  <2>1. CpuDataType'
    BY <1>10, SemaphoreKeepsType DEF BspWaitForAp, CpuDataType
  <2>2. StackType'
    BY <1>10, CpuFacts DEF BspWaitForAp, StackType, SyncModes, NoBsp
  <2>3. SyncType' /\ HardwareType' /\ PcType' /\ HistoryType'
    BY <1>10 DEF BspWaitForAp, SyncType, HardwareType, PcType, HistoryType
  <2> QED
    BY <2>1, <2>2, <2>3 DEF TypeOK
<1>11. CASE BspAllSignalled(c)
  <2>1. PcType'
    BY <1>11 DEF BspAllSignalled, PcType
  <2>2. StackType'
    BY <1>11, CpuFacts DEF BspAllSignalled, StartLoop, StackType, SyncModes,
      NoBsp
  <2>3. SyncType' /\ CpuDataType' /\ HardwareType' /\ HistoryType'
    BY <1>11 DEF BspAllSignalled, SyncType, CpuDataType, HardwareType,
      HistoryType
  <2> QED
    BY <2>1, <2>2, <2>3 DEF TypeOK
<1>12. CASE BspReleaseAp(c)
  <2>1. CpuDataType'
    BY <1>12, SemaphoreKeepsType DEF BspReleaseAp, CpuDataType
  <2>2. PcType'
    BY <1>12 DEF BspReleaseAp, Loop, PcType
  <2>3. StackType'
    BY <1>12, CpuFacts DEF BspReleaseAp, Loop, WaitForAllAPs, StackType,
      SyncModes, NoBsp
  <2>4. SyncType' /\ HardwareType' /\ HistoryType'
    BY <1>12 DEF BspReleaseAp, SyncType, HardwareType, HistoryType
  <2> QED
    BY <2>1, <2>2, <2>3, <2>4 DEF TypeOK
<1>13. CASE BspMtrrs(c)
  <2>1. HardwareType'
    BY <1>13, CoreAssumption DEF BspMtrrs, HardwareType, Settings
  <2>2. PcType'
    BY <1>13 DEF BspMtrrs, PcType
  <2>3. StackType'
    BY <1>13, CpuFacts DEF BspMtrrs, WaitForAllAPs, StackType, SyncModes,
      NoBsp
  <2>4. SyncType' /\ CpuDataType' /\ HistoryType'
    BY <1>13 DEF BspMtrrs, SyncType, CpuDataType, HistoryType
  <2> QED
    BY <2>1, <2>2, <2>3, <2>4 DEF TypeOK
<1>14. CASE BspAcquireOwnBusy(c)
  <2>1. CpuDataType'
    BY <1>14, BoundAssumption DEF BspAcquireOwnBusy, CpuDataType
  <2>2. PcType'
    BY <1>14 DEF BspAcquireOwnBusy, PcType
  <2>3. SyncType' /\ HardwareType' /\ StackType' /\ HistoryType'
    BY <1>14 DEF BspAcquireOwnBusy, SyncType, HardwareType, StackType,
      HistoryType
  <2> QED
    BY <2>1, <2>2, <2>3 DEF TypeOK
<1>15. CASE SmmCoreReturns(c)
  <2>1. PcType'
    BY <1>15 DEF SmmCoreReturns, PcType
  <2>2. StackType'
    BY <1>15, CpuFacts DEF SmmCoreReturns, StartLoop, StackType, SyncModes,
      NoBsp
  <2>3. SyncType' /\ CpuDataType' /\ HardwareType' /\ HistoryType'
    BY <1>15 DEF SmmCoreReturns, SyncType, CpuDataType, HardwareType,
      HistoryType
  <2> QED
    BY <2>1, <2>2, <2>3 DEF TypeOK
<1>16. CASE ScheduleProcedure(c)
  <2>1. CpuDataType'
    BY <1>16, SemaphoreKeepsType, BoundAssumption DEF ScheduleProcedure,
      CpuDataType, HistoryType
  <2>2. PcType'
    BY <1>16 DEF ScheduleProcedure, PcType
  <2>3. StackType'
    BY <1>16, CpuFacts DEF ScheduleProcedure, StackType, SyncModes, NoBsp
  <2>4. HistoryType'
    BY <1>16, BoundAssumption DEF ScheduleProcedure, HistoryType
  <2>5. SyncType' /\ HardwareType'
    BY <1>16 DEF ScheduleProcedure, SyncType, HardwareType
  <2> QED
    BY <2>1, <2>2, <2>3, <2>4, <2>5 DEF TypeOK
<1>17. CASE ProcedureReturned(c)
  <2>1. PcType'
    BY <1>17 DEF ProcedureReturned, PcType
  <2>2. StackType'
    BY <1>17, CpuFacts DEF ProcedureReturned, StackType, SyncModes, NoBsp
  <2>3. SyncType' /\ CpuDataType' /\ HardwareType' /\ HistoryType'
    BY <1>17 DEF ProcedureReturned, SyncType, CpuDataType, HardwareType,
      HistoryType
  <2> QED
    BY <2>1, <2>2, <2>3 DEF TypeOK
<1>18. CASE BspDrain(c)
  <2>1. PcType'
    BY <1>18 DEF BspDrain, Loop, PcType
  <2>2. StackType'
    BY <1>18, CpuFacts DEF BspDrain, Loop, StackType, SyncModes, NoBsp
  <2>3. SyncType' /\ CpuDataType' /\ HardwareType' /\ HistoryType'
    BY <1>18 DEF BspDrain, SyncType, CpuDataType, HardwareType, HistoryType
  <2> QED
    BY <2>1, <2>2, <2>3 DEF TypeOK
<1>19. CASE BspAllPresent(c)
  <2>1. PcType'
    BY <1>19 DEF BspAllPresent, PcType
  <2>2. SyncType' /\ CpuDataType' /\ HardwareType' /\ StackType' /\ HistoryType'
    BY <1>19 DEF BspAllPresent, SyncType, CpuDataType, HardwareType,
      StackType, HistoryType
  <2> QED
    BY <2>1, <2>2 DEF TypeOK
<1>20. CASE BspFlagOutside(c)
  <2>1. SyncType'
    BY <1>20 DEF BspFlagOutside, SyncType, NoBsp, Locked, SyncModes
  <2>2. PcType'
    BY <1>20 DEF BspFlagOutside, PcType
  <2>3. StackType'
    BY <1>20, CpuFacts DEF BspFlagOutside, StartLoop, StackType, SyncModes,
      NoBsp
  <2>4. CpuDataType' /\ HardwareType' /\ HistoryType'
    BY <1>20 DEF BspFlagOutside, CpuDataType, HardwareType, HistoryType
  <2> QED
    BY <2>1, <2>2, <2>3, <2>4 DEF TypeOK
<1>21. CASE BspSetEffectiveMode(c)
  <2>1. SyncType'
    BY <1>21 DEF BspSetEffectiveMode, SyncType, NoBsp, Locked, SyncModes
  <2>2. PcType'
    BY <1>21 DEF BspSetEffectiveMode, PcType
  <2>3. StackType'
    BY <1>21, CpuFacts DEF BspSetEffectiveMode, StartLoop, StackType,
      SyncModes, NoBsp
  <2>4. CpuDataType' /\ HardwareType' /\ HistoryType'
    BY <1>21 DEF BspSetEffectiveMode, CpuDataType, HardwareType, HistoryType
  <2> QED
    BY <2>1, <2>2, <2>3, <2>4 DEF TypeOK
<1>22. CASE SmmCpuUpdate(c)
  <2>1. SyncType'
    BY <1>22 DEF SmmCpuUpdate, SyncType, NoBsp, Locked, SyncModes
  <2>2. PcType'
    BY <1>22 DEF SmmCpuUpdate, PcType
  <2>3. CpuDataType' /\ HardwareType' /\ StackType' /\ HistoryType'
    BY <1>22 DEF SmmCpuUpdate, CpuDataType, HardwareType, StackType,
      HistoryType
  <2> QED
    BY <2>1, <2>2, <2>3 DEF TypeOK
<1>23. CASE BspAbsent(c)
  <2>1. CpuDataType'
    BY <1>23 DEF BspAbsent, CpuDataType
  <2>2. PcType'
    BY <1>23 DEF BspAbsent, PcType
  <2>3. StackType'
    BY <1>23, CpuFacts DEF BspAbsent, WaitForAllAPs, StackType, SyncModes,
      NoBsp
  <2>4. SyncType' /\ HardwareType' /\ HistoryType'
    BY <1>23 DEF BspAbsent, SyncType, HardwareType, HistoryType
  <2> QED
    BY <2>1, <2>2, <2>3, <2>4 DEF TypeOK
<1>24. CASE BspResign(c)
  <2>1. SyncType'
    BY <1>24 DEF BspResign, SyncType, NoBsp, Locked, SyncModes
  <2>2. PcType'
    BY <1>24 DEF BspResign, PcType
  <2>3. CpuDataType' /\ HardwareType' /\ StackType' /\ HistoryType'
    BY <1>24 DEF BspResign, CpuDataType, HardwareType, StackType, HistoryType
  <2> QED
    BY <2>1, <2>2, <2>3 DEF TypeOK
<1>25. CASE BspOpenCounter(c)
  <2>1. SyncType'
    BY <1>25 DEF BspOpenCounter, SyncType, NoBsp, Locked, SyncModes
  <2>2. PcType'
    BY <1>25 DEF BspOpenCounter, PcType
  <2>3. CpuDataType' /\ HardwareType' /\ StackType' /\ HistoryType'
    BY <1>25 DEF BspOpenCounter, CpuDataType, HardwareType, StackType,
      HistoryType
  <2> QED
    BY <2>1, <2>2, <2>3 DEF TypeOK
<1>26. CASE BspDropSync(c)
  <2>1. SyncType'
    BY <1>26 DEF BspDropSync, SyncType, NoBsp, Locked, SyncModes
  <2>2. PcType'
    BY <1>26 DEF BspDropSync, PcType
  <2>3. CpuDataType' /\ HardwareType' /\ StackType' /\ HistoryType'
    BY <1>26 DEF BspDropSync, CpuDataType, HardwareType, StackType,
      HistoryType
  <2> QED
    BY <2>1, <2>2, <2>3 DEF TypeOK
<1> QED
  BY <1>1, <1>2, <1>3, <1>4, <1>5, <1>6, <1>7, <1>8, <1>9, <1>10, <1>11,
    <1>12, <1>13, <1>14, <1>15, <1>16, <1>17, <1>18, <1>19, <1>20, <1>21,
    <1>22, <1>23, <1>24, <1>25, <1>26 DEF BSPHandler

\* A service that an SMI handler calls keeps every type.
LEMMA SmiHandlersKeepTypes ==
  ASSUME TypeOK, NEW c \in Cpu, SmiHandlers(c)
  PROVE  TypeOK'
<1> USE DEF TypeOK, At, Goto, Step, syncVars, electVars, modeVars, mtrrVars,
            platVars, dataVars, taskVars, hwVars, entryVars, bspVars,
            stackVars, memory, notSync, notStack, notData, Labels,
            JoiningLabels, ApLabels, BspLabels, BspGatherLabels,
            BspCoreLabels, BspExitLabels, BspResetLabels
<1>1. ASSUME NEW i \in Cpu, SmmStartupThisAp(c, i) PROVE TypeOK'
  <2>1. CpuDataType'
    BY <1>1 DEF SmmStartupThisAp, CpuDataType
  <2>2. PcType'
    BY <1>1 DEF SmmStartupThisAp, Call, PcType
  <2>3. StackType'
    BY <1>1, CpuFacts DEF SmmStartupThisAp, StackType, SyncModes, NoBsp
  <2>4. HistoryType'
    BY <1>1, BoundAssumption DEF SmmStartupThisAp, Call, HistoryType
  <2>5. SyncType' /\ HardwareType'
    BY <1>1 DEF SmmStartupThisAp, SyncType, HardwareType
  <2> QED
    BY <2>1, <2>2, <2>3, <2>4, <2>5 DEF TypeOK
<1>2. ASSUME NEW i \in Cpu, SmmSwitchBsp(c, i) PROVE TypeOK'
  <2>1. SyncType'
    BY <1>2 DEF SmmSwitchBsp, SyncType, NoBsp, Locked, SyncModes
  <2>2. HistoryType'
    BY <1>2, BoundAssumption DEF SmmSwitchBsp, Call, HistoryType
  <2>3. CpuDataType' /\ HardwareType' /\ PcType' /\ StackType'
    BY <1>2 DEF SmmSwitchBsp, CpuDataType, HardwareType, PcType, StackType
  <2> QED
    BY <2>1, <2>2, <2>3 DEF TypeOK
<1>3. ASSUME NEW m \in SyncModes, SmmSyncSetMode(c, m) PROVE TypeOK'
  <2>1. SyncType'
    BY <1>3 DEF SmmSyncSetMode, SyncType, NoBsp, Locked, SyncModes
  <2>2. HistoryType'
    BY <1>3, BoundAssumption DEF SmmSyncSetMode, Call, HistoryType
  <2>3. CpuDataType' /\ HardwareType' /\ PcType' /\ StackType'
    BY <1>3 DEF SmmSyncSetMode, CpuDataType, HardwareType, PcType, StackType
  <2> QED
    BY <2>1, <2>2, <2>3 DEF TypeOK
<1>4. ASSUME SmmCpuSyncCheckApArrival(c) PROVE TypeOK'
  <2>1. PcType'
    BY <1>4 DEF SmmCpuSyncCheckApArrival, Call, PcType
  <2>2. StackType'
    BY <1>4, CpuFacts DEF SmmCpuSyncCheckApArrival, StackType, SyncModes,
      NoBsp
  <2>3. HistoryType'
    BY <1>4, BoundAssumption DEF SmmCpuSyncCheckApArrival, Call, HistoryType
  <2>4. SyncType' /\ CpuDataType' /\ HardwareType'
    BY <1>4 DEF SmmCpuSyncCheckApArrival, SyncType, CpuDataType, HardwareType
  <2> QED
    BY <2>1, <2>2, <2>3, <2>4 DEF TypeOK
<1>5. ASSUME NEW i \in Cpu, SmmCpuSync2SendSmi(c, i) PROVE TypeOK'
  <2>1. HardwareType'
    BY <1>5 DEF SmmCpuSync2SendSmi, SendSmiIpi, HardwareType, Settings
  <2>2. HistoryType'
    BY <1>5, BoundAssumption DEF SmmCpuSync2SendSmi, Call, HistoryType
  <2>3. SyncType' /\ CpuDataType' /\ PcType' /\ StackType'
    BY <1>5 DEF SmmCpuSync2SendSmi, SyncType, CpuDataType, PcType, StackType
  <2> QED
    BY <2>1, <2>2, <2>3 DEF TypeOK
<1>6. ASSUME SmmCpuSync2SendSmiAllExcludingSelf(c) PROVE TypeOK'
  <2>1. HardwareType'
    BY <1>6 DEF SmmCpuSync2SendSmiAllExcludingSelf, HardwareType, Settings
  <2>2. HistoryType'
    BY <1>6, BoundAssumption DEF SmmCpuSync2SendSmiAllExcludingSelf, Call,
      HistoryType
  <2>3. SyncType' /\ CpuDataType' /\ PcType' /\ StackType'
    BY <1>6 DEF SmmCpuSync2SendSmiAllExcludingSelf, SyncType, CpuDataType,
      PcType, StackType
  <2> QED
    BY <2>1, <2>2, <2>3 DEF TypeOK
<1> QED
  BY <1>1, <1>2, <1>3, <1>4, <1>5, <1>6 DEF SmiHandlers

\* So does the hardware.
LEMMA HardwareKeepsTypes ==
  ASSUME TypeOK, RaiseSmi \/ Idle \/ \E c \in Cpu : EnterSmi(c)
  PROVE  TypeOK'
<1> USE DEF TypeOK, At, Goto, Step, syncVars, electVars, modeVars, mtrrVars,
            platVars, dataVars, taskVars, hwVars, entryVars, bspVars,
            stackVars, memory, notSync, notStack, notData, Labels,
            JoiningLabels, ApLabels, BspLabels, BspGatherLabels,
            BspCoreLabels, BspExitLabels, BspResetLabels
<1>1. ASSUME RaiseSmi PROVE TypeOK'
  <2>1. HardwareType'
    BY <1>1 DEF RaiseSmi, HardwareType, Settings
  <2>2. HistoryType'
    BY <1>1, BoundAssumption DEF RaiseSmi, HistoryType
  <2>3. SyncType' /\ CpuDataType' /\ PcType' /\ StackType'
    BY <1>1 DEF RaiseSmi, SyncType, CpuDataType, PcType, StackType
  <2> QED
    BY <2>1, <2>2, <2>3 DEF TypeOK
<1>2. ASSUME NEW c \in Cpu, EnterSmi(c) PROVE TypeOK'
  <2>1. HardwareType'
    BY <1>2 DEF EnterSmi, HardwareType, Settings
  <2>2. PcType'
    BY <1>2 DEF EnterSmi, PcType
  <2>3. SyncType' /\ CpuDataType' /\ StackType' /\ HistoryType'
    BY <1>2 DEF EnterSmi, SyncType, CpuDataType, StackType, HistoryType
  <2> QED
    BY <2>1, <2>2, <2>3 DEF TypeOK
<1>3. CASE Idle
  BY <1>3 DEF Idle, vars, SyncType, CpuDataType, HardwareType, PcType,
    StackType, HistoryType
<1> QED
  BY <1>1, <1>2, <1>3

\* InitializeMpSyncData gives every variable its type.
LEMMA InitHasTypes == Init => TypeOK
<1> SUFFICES ASSUME Init PROVE TypeOK
  OBVIOUS
<1>1. SyncType
  <2>1. /\ insideSmm \in BOOLEAN /\ allCpusInSync \in BOOLEAN
        /\ switchBsp \in BOOLEAN
    BY Zenon DEF Init
  <2> QED
    BY <2>1, CpuFacts DEF Init, SyncType, SyncModes, NoBsp
<1>2. CpuDataType
  BY BoundAssumption DEF Init, CpuDataType
<1>3. HardwareType
  <2>1. smiStatus \in BOOLEAN
    BY Zenon DEF Init
  <2> QED
    BY <2>1 DEF Init, HardwareType, Settings
<1>4. PcType
  BY DEF Init, PcType, Labels
<1>5. StackType
  BY CpuFacts, CpuAssumption DEF Init, StackType, SyncModes
<1>6. HistoryType
  BY BoundAssumption DEF Init, HistoryType
<1> QED
  BY <1>1, <1>2, <1>3, <1>4, <1>5, <1>6 DEF TypeOK

\* Every variable of the rendezvous keeps its type: in particular no loop
\* index of BSPHandler leaves CpuData[], for any number of processors.
THEOREM TypeCorrect == Spec => []TypeOK
<1>1. Init => TypeOK
  BY InitHasTypes
<1>2. TypeOK /\ [Next]_vars => TypeOK'
  <2> SUFFICES ASSUME TypeOK, [Next]_vars PROVE TypeOK'
    OBVIOUS
  <2>1. CASE RaiseSmi \/ Idle \/ \E c \in Cpu : EnterSmi(c)
    BY <2>1, HardwareKeepsTypes
  <2>2. ASSUME NEW c \in Cpu, SmiRendezvous(c) PROVE TypeOK'
    BY <2>2, SmiRendezvousKeepsTypes
  <2>3. ASSUME NEW c \in Cpu, APHandler(c) PROVE TypeOK'
    BY <2>3, APHandlerKeepsTypes
  <2>4. ASSUME NEW c \in Cpu, BSPHandler(c) PROVE TypeOK'
    BY <2>4, BSPHandlerKeepsTypes
  <2>5. ASSUME NEW c \in Cpu, SmiHandlers(c) PROVE TypeOK'
    BY <2>5, SmiHandlersKeepTypes
  <2>6. CASE UNCHANGED vars
    BY <2>6 DEF vars, memory, syncVars, platVars, electVars, modeVars, mtrrVars,
      dataVars, taskVars, hwVars, stackVars, entryVars, bspVars, TypeOK,
      SyncType, CpuDataType, HardwareType, PcType, StackType, HistoryType
  <2> QED
    BY <2>1, <2>2, <2>3, <2>4, <2>5, <2>6 DEF Next
<1> QED
  BY <1>1, <1>2, PTL DEF Spec

-----------------------------------------------------------------------------
(* One BSP at a time. *)

\* The inductive invariant: BspIndex names whoever runs BSPHandler, from the
\* end of the election to the reset of BspIndex.
BspIndexNamesBsp == \A b \in Cpu : In(b, ActingLabels) => bspIndex = b

\* A step of processor c that leaves BspIndex alone, and that is not c's first
\* step as BSP, keeps it.
LEMMA KeepsBsp ==
  ASSUME PcType, BspIndexNamesBsp, NEW c \in Cpu, NEW l,
         pc' = [pc EXCEPT ![c] = l],
         l \in ActingLabels => In(c, ActingLabels),
         bspIndex' = bspIndex
  PROVE  BspIndexNamesBsp'
BY DEF PcType, BspIndexNamesBsp, In

\* BspIndex = (UINT32)-1 is nobody's number.
LEMMA NoBspIsNoCpu == NoBsp \notin Cpu
BY CpuAssumption DEF NoBsp, Cpu

\* A step of SmiRendezvous keeps BspIndexNamesBsp.
LEMMA SmiRendezvousKeepsBsp ==
  ASSUME TypeOK, BspIndexNamesBsp, NEW c \in Cpu, SmiRendezvous(c)
  PROVE  BspIndexNamesBsp'
<1> PcType
  BY DEF TypeOK
<1> USE DEF At, Goto, Step, syncVars, notStack, notData, memory, In,
            ActingLabels, BspLabels, BspGatherLabels, BspCoreLabels,
            BspExitLabels, BspResetLabels, PcType, BspIndexNamesBsp
<1>1. CASE SampleValidSmi(c)
  BY <1>1 DEF SampleValidSmi
<1>2. CASE SampleBspInProgress(c)
  BY <1>2 DEF SampleBspInProgress
<1>3. CASE CheckIn(c)
  BY <1>3 DEF CheckIn
<1>4. CASE WaitForEndOfRun(c)
  BY <1>4 DEF WaitForEndOfRun
<1>5. CASE LeaveSmm(c)
  BY <1>5 DEF LeaveSmm
<1>6. CASE InitializeBusy(c)
  BY <1>6 DEF InitializeBusy
<1>7. CASE Stand(c)
  BY <1>7 DEF Stand
<1>8. CASE ElectBsp(c)
  <2>1. ~In(c, ActingLabels) /\ pc' = [pc EXCEPT ![c] = "role"]
    BY <1>8 DEF ElectBsp
  <2>2. ASSUME NEW b \in Cpu, In(b, ActingLabels) PROVE bspIndex' = b
    BY <1>8, <2>2, NoBspIsNoCpu DEF ElectBsp, FirstCandidateWins
  <2> QED
    BY <2>1, <2>2
<1>9. CASE BecomeBsp(c)
  BY <1>9 DEF BecomeBsp
<1>10. CASE BecomeAp(c)
  BY <1>10 DEF BecomeAp
<1>11. CASE ReadSyncMode(c)
  BY <1>11 DEF ReadSyncMode
<1> QED
  BY <1>1, <1>2, <1>3, <1>4, <1>5, <1>6, <1>7, <1>8, <1>9, <1>10, <1>11 DEF
    SmiRendezvous

\* A step of APHandler keeps BspIndexNamesBsp.
LEMMA APHandlerKeepsBsp ==
  ASSUME TypeOK, BspIndexNamesBsp, NEW c \in Cpu, APHandler(c)
  PROVE  BspIndexNamesBsp'
<1> PcType
  BY DEF TypeOK
<1> USE DEF At, Goto, Step, syncVars, notStack, notData, memory, In,
            ActingLabels, BspLabels, BspGatherLabels, BspCoreLabels,
            BspExitLabels, BspResetLabels, PcType, BspIndexNamesBsp
<1>1. CASE ApMarkPresent(c)
  BY <1>1 DEF ApMarkPresent
<1>2. CASE ApPresent(c)
  BY <1>2 DEF ApPresent
<1>3. CASE ApTimeout1(c)
  BY <1>3 DEF ApTimeout1
<1>4. CASE ApCallBsp(c)
  BY <1>4 DEF ApCallBsp
<1>5. CASE ApNobodyToCall(c)
  BY <1>5 DEF ApNobodyToCall, DecideToGiveUp, GiveUp
<1>6. CASE ApTimeout2(c)
  BY <1>6 DEF ApTimeout2, DecideToGiveUp, GiveUp
<1>7. CASE ApGiveUp(c)
  BY <1>7 DEF ApGiveUp, GiveUp
<1>8. CASE ApSignal(c)
  BY <1>8 DEF ApSignal
<1>9. CASE ApWait(c)
  BY <1>9 DEF ApWait
<1>10. CASE ApBackupMtrrs(c)
  BY <1>10 DEF ApBackupMtrrs
<1>11. CASE ApReplaceOSMtrrs(c)
  BY <1>11 DEF ApReplaceOSMtrrs
<1>12. CASE ApCheckExit(c)
  BY <1>12 DEF ApCheckExit
<1>13. CASE ApRunProcedure(c)
  BY <1>13 DEF ApRunProcedure
<1>14. CASE ApReleaseBusy(c)
  BY <1>14 DEF ApReleaseBusy
<1>15. CASE ApReady(c)
  BY <1>15 DEF ApReady
<1>16. CASE ApAbsent(c)
  BY <1>16 DEF ApAbsent
<1> QED
  BY <1>1, <1>2, <1>3, <1>4, <1>5, <1>6, <1>7, <1>8, <1>9, <1>10, <1>11,
    <1>12, <1>13, <1>14, <1>15, <1>16 DEF APHandler

\* A step of BSPHandler keeps BspIndexNamesBsp.
LEMMA BSPHandlerKeepsBsp ==
  ASSUME TypeOK, BspIndexNamesBsp, NEW c \in Cpu, BSPHandler(c)
  PROVE  BspIndexNamesBsp'
<1> PcType
  BY DEF TypeOK
<1> USE DEF At, Goto, Step, syncVars, notStack, notData, memory, In,
            ActingLabels, BspLabels, BspGatherLabels, BspCoreLabels,
            BspExitLabels, BspResetLabels, PcType, BspIndexNamesBsp
<1>1. CASE BspFlagInside(c)
  BY <1>1 DEF BspFlagInside
<1>2. CASE BspPresent(c)
  BY <1>2 DEF BspPresent
<1>3. CASE BspClearSmiStatus(c)
  BY <1>3 DEF BspClearSmiStatus
<1>4. CASE BspAllArrived(c)
  BY <1>4 DEF BspAllArrived, BspArrivalLoopEnds, ArrivalDone
<1>5. CASE BspArrivalTimeout(c)
  BY <1>5 DEF BspArrivalTimeout, BspArrivalLoopEnds, ArrivalDone
<1>6. CASE BspLookForMissing(c)
  BY <1>6 DEF BspLookForMissing, ArrivalDone
<1>7. CASE BspSendSmiIpis(c)
  BY <1>7 DEF BspSendSmiIpis, Loop
<1>8. CASE BspRaiseSync(c)
  BY <1>8 DEF BspRaiseSync
<1>9. CASE BspLockCounter(c)
  BY <1>9 DEF BspLockCounter
<1>10. CASE BspWaitForAp(c)
  BY <1>10 DEF BspWaitForAp
<1>11. CASE BspAllSignalled(c)
  BY <1>11 DEF BspAllSignalled
<1>12. CASE BspReleaseAp(c)
  BY <1>12 DEF BspReleaseAp, Loop
<1>13. CASE BspMtrrs(c)
  BY <1>13 DEF BspMtrrs
<1>14. CASE BspAcquireOwnBusy(c)
  BY <1>14 DEF BspAcquireOwnBusy
<1>15. CASE SmmCoreReturns(c)
  BY <1>15 DEF SmmCoreReturns
<1>16. CASE ScheduleProcedure(c)
  BY <1>16 DEF ScheduleProcedure
<1>17. CASE ProcedureReturned(c)
  BY <1>17 DEF ProcedureReturned
<1>18. CASE BspDrain(c)
  BY <1>18 DEF BspDrain, Loop
<1>19. CASE BspAllPresent(c)
  BY <1>19 DEF BspAllPresent
<1>20. CASE BspFlagOutside(c)
  BY <1>20 DEF BspFlagOutside
<1>21. CASE BspSetEffectiveMode(c)
  BY <1>21 DEF BspSetEffectiveMode
<1>22. CASE SmmCpuUpdate(c)
  BY <1>22 DEF SmmCpuUpdate
<1>23. CASE BspAbsent(c)
  BY <1>23 DEF BspAbsent
<1>24. CASE BspResign(c)
  <2>1. bspIndex = c /\ pc' = [pc EXCEPT ![c] = "b_open"]
    BY <1>24 DEF BspResign
  <2>2. \A b \in Cpu \ {c} : ~In(b, ActingLabels)
    BY <2>1
  <2> QED
    BY <2>1, <2>2
<1>25. CASE BspOpenCounter(c)
  BY <1>25 DEF BspOpenCounter
<1>26. CASE BspDropSync(c)
  BY <1>26 DEF BspDropSync
<1> QED
  BY <1>1, <1>2, <1>3, <1>4, <1>5, <1>6, <1>7, <1>8, <1>9, <1>10, <1>11,
    <1>12, <1>13, <1>14, <1>15, <1>16, <1>17, <1>18, <1>19, <1>20, <1>21,
    <1>22, <1>23, <1>24, <1>25, <1>26 DEF BSPHandler

\* One BSP at a time, for any number of processors and with or without
\* election: BspIndex names the processor in BSPHandler and nobody else is in it.
THEOREM OneBspHolds == Spec => []OneBsp
<1>1. Init => BspIndexNamesBsp
  BY DEF Init, BspIndexNamesBsp, In, ActingLabels, BspLabels, BspGatherLabels,
    BspCoreLabels, BspExitLabels, BspResetLabels
<1>2. TypeOK /\ BspIndexNamesBsp /\ [Next]_vars => BspIndexNamesBsp'
  <2> SUFFICES ASSUME TypeOK, BspIndexNamesBsp, [Next]_vars
               PROVE  BspIndexNamesBsp'
    OBVIOUS
  <2>1. CASE UNCHANGED <<pc, bspIndex>>
    BY <2>1 DEF BspIndexNamesBsp, In
  <2>2. ASSUME NEW c \in Cpu, EnterSmi(c) PROVE BspIndexNamesBsp'
    <3>1. "sample" \notin ActingLabels
      BY DEF ActingLabels, BspLabels, BspGatherLabels, BspCoreLabels,
        BspExitLabels, BspResetLabels
    <3> QED
      BY <2>2, <3>1, KeepsBsp DEF EnterSmi, Step, Goto, syncVars, TypeOK
  <2>3. ASSUME NEW c \in Cpu, SmiRendezvous(c) PROVE BspIndexNamesBsp'
    BY <2>3, SmiRendezvousKeepsBsp
  <2>4. ASSUME NEW c \in Cpu, APHandler(c) PROVE BspIndexNamesBsp'
    BY <2>4, APHandlerKeepsBsp
  <2>5. ASSUME NEW c \in Cpu, BSPHandler(c) PROVE BspIndexNamesBsp'
    BY <2>5, BSPHandlerKeepsBsp
  <2>6. ASSUME NEW c \in Cpu, SmiHandlers(c) PROVE BspIndexNamesBsp'
    <3> DEFINE Target == {"b_core", "b_start", "b_start_block", "b_arrive1"}
    <3>1. At(c, "b_core") /\ bspIndex' = bspIndex
      BY <2>6 DEF SmiHandlers, Call, SmmStartupThisAp, SmmSwitchBsp,
        SmmSyncSetMode, SmmCpuSyncCheckApArrival, SmmCpuSync2SendSmi,
        SmmCpuSync2SendSmiAllExcludingSelf, syncVars
    <3>2. pc' = pc \/ \E l \in Target : pc' = [pc EXCEPT ![c] = l]
      BY <2>6 DEF SmiHandlers, SmmStartupThisAp, SmmSwitchBsp, SmmSyncSetMode,
        SmmCpuSyncCheckApArrival, SmmCpuSync2SendSmi,
        SmmCpuSync2SendSmiAllExcludingSelf, Goto
    <3>3. In(c, ActingLabels)
      BY <3>1 DEF In, At, ActingLabels, BspLabels, BspCoreLabels
    <3> QED
      BY <2>1, <3>1, <3>2, <3>3, KeepsBsp DEF TypeOK
  <2>7. CASE RaiseSmi \/ Idle \/ UNCHANGED vars
    BY <2>1, <2>7 DEF RaiseSmi, Idle, vars, memory, syncVars
  <2> QED
    BY <2>2, <2>3, <2>4, <2>5, <2>6, <2>7 DEF Next
<1>3. BspIndexNamesBsp => OneBsp
  BY DEF BspIndexNamesBsp, OneBsp
<1> QED
  BY <1>1, <1>2, <1>3, TypeCorrect, PTL DEF Spec

=============================================================================
