--------------------------- MODULE InstallerProofs --------------------------
(***************************************************************************)
(* What the two scripts guarantee however often they are interrupted, for  *)
(* every set of versions.                                                  *)
(***************************************************************************)
EXTENDS Installer, TLAPS

IInv ==
  /\ TypeOK
  /\ AccountUsable
  /\ RunningHasFiles
  /\ InstallProgress
  /\ UninstallProgress
  /\ Outcomes
  /\ InstalledIsComplete
  /\ RemovedIsClean

\* A version, Absent and Partial are told apart.
LEMMA FileStates == Absent \notin Versions /\ Partial \notin Versions /\ Partial # Absent
  BY VersionsAssumption DEF Absent, Partial

\* Every step keeps the types.
LEMMA StepTypes == IInv /\ [Next]_vars => TypeOK'
<1> SUFFICES ASSUME IInv, [Next]_vars PROVE TypeOK'
  OBVIOUS
<1> USE FileStates DEF At, Ends, files, systemd, script,
           IInv, TypeOK, Labels
<1>1. CASE \E version \in Versions : Install(version)
  BY <1>1 DEF Install
<1>2. CASE \E all \in BOOLEAN : Uninstall(all)
  BY <1>2 DEF Uninstall
<1>3. CASE AccountExists
  BY <1>3 DEF AccountExists
<1>4. CASE GroupAdd
  BY <1>4 DEF GroupAdd
<1>5. CASE UserAdd
  BY <1>5 DEF UserAdd
<1>6. CASE CopyBinary
  BY <1>6 DEF CopyBinary
<1>7. CASE BinaryCopied
  BY <1>7 DEF BinaryCopied
<1>8. CASE CopyUnit
  BY <1>8 DEF CopyUnit
<1>9. CASE UnitCopied
  BY <1>9 DEF UnitCopied
<1>10. CASE CopyConfig
  BY <1>10 DEF CopyConfig
<1>11. CASE ConfigCopied
  BY <1>11 DEF ConfigCopied
<1>12. CASE KeepConfig
  BY <1>12 DEF KeepConfig
<1>13. CASE DaemonReload
  <2>1. loaded' \in Versions
    BY <1>13 DEF DaemonReload, InstallProgress, AfterConfig, AfterUnit, AfterBinary,
       AfterAccount
  <2>2. QED
    BY <1>13, <2>1 DEF DaemonReload
<1>14. CASE Enable
  BY <1>14 DEF Enable, Prerequisites
<1>15. CASE NotStarted
  BY <1>15 DEF NotStarted, Prerequisites
<1>16. CASE Restart
  <2>1. active' \in Versions
    BY <1>16 DEF Restart, InstallProgress, AfterConfig, AfterUnit, AfterBinary, AfterAccount
  <2>2. QED
    BY <1>16, <2>1 DEF Restart
<1>17. CASE DisableNow
  BY <1>17 DEF DisableNow
<1>18. CASE DisableFails
  <2>1. enabled' \in BOOLEAN
    BY <1>18, Zenon DEF DisableFails
  <2>2. active' \in Versions \cup {Absent}
    BY <1>18 DEF DisableFails
  <2>3. QED
    BY <1>18, <2>1, <2>2 DEF DisableFails
<1>19. CASE VerifyInactive
  BY <1>19 DEF VerifyInactive
<1>20. CASE RemoveBinary
  BY <1>20 DEF RemoveBinary
<1>21. CASE RemoveUnit
  BY <1>21 DEF RemoveUnit
<1>22. CASE Forget
  <2>1. loaded' = Absent
    BY <1>22 DEF Forget, UninstallProgress, AfterForget
  <2>2. pc' \in {"none", "purgeConfig"} /\ outcome' \in {outcome, "removed"}
    BY <1>22, Zenon DEF Forget
  <2>3. UNCHANGED <<files, accounts, enabled, active, script>>
    BY <1>22 DEF Forget
  <2>4. QED
    BY <2>1, <2>2, <2>3
<1>23. CASE PurgeConfig
  BY <1>23 DEF PurgeConfig
<1>24. CASE PurgePassword
  BY <1>24 DEF PurgePassword
<1>25. CASE Die
  BY <1>25 DEF Die
<1>26. CASE Reboot
  BY <1>26 DEF Reboot, Startable
<1>27. CASE ServiceRestarts
  BY <1>27 DEF ServiceRestarts, Startable
<1>28. CASE Edit
  BY <1>28 DEF Edit
<1>29. CASE Start
  BY <1>29 DEF Start, Startable
<1>30. CASE Stop
  BY <1>30 DEF Stop
<1>31. CASE UNCHANGED vars
  BY <1>31 DEF vars
<1>32. QED
  BY <1>1, <1>2, <1>3, <1>4, <1>5, <1>6, <1>7, <1>8, <1>9, <1>10, <1>11, <1>12,
     <1>13, <1>14, <1>15, <1>16, <1>17, <1>18, <1>19, <1>20, <1>21, <1>22, <1>23, <1>24,
     <1>25, <1>26, <1>27, <1>28, <1>29, <1>30, <1>31
     DEF Next, InstallStep, UninstallStep

\* Every step keeps the account usable and the files of a running service.
LEMMA StepRunning == IInv /\ [Next]_vars => AccountUsable' /\ RunningHasFiles'
<1> SUFFICES ASSUME IInv, [Next]_vars PROVE AccountUsable' /\ RunningHasFiles'
  OBVIOUS
<1> USE FileStates DEF At, Ends, files, systemd, script,
           IInv, TypeOK, AccountUsable, RunningHasFiles, InstallProgress,
           UninstallProgress, AfterForget, AfterStop, AfterConfig, AfterUnit, AfterBinary,
           AfterAccount
<1>1. CASE \E version \in Versions : Install(version)
  BY <1>1 DEF Install
<1>2. CASE \E all \in BOOLEAN : Uninstall(all)
  BY <1>2 DEF Uninstall
<1>3. CASE AccountExists
  BY <1>3 DEF AccountExists
<1>4. CASE GroupAdd
  BY <1>4 DEF GroupAdd
<1>5. CASE UserAdd
  BY <1>5 DEF UserAdd
<1>6. CASE CopyBinary
  BY <1>6 DEF CopyBinary
<1>7. CASE BinaryCopied
  BY <1>7 DEF BinaryCopied
<1>8. CASE CopyUnit
  BY <1>8 DEF CopyUnit
<1>9. CASE UnitCopied
  BY <1>9 DEF UnitCopied
<1>10. CASE CopyConfig
  BY <1>10 DEF CopyConfig
<1>11. CASE ConfigCopied
  BY <1>11 DEF ConfigCopied
<1>12. CASE KeepConfig
  BY <1>12 DEF KeepConfig
<1>13. CASE DaemonReload
  BY <1>13 DEF DaemonReload
<1>14. CASE Enable
  BY <1>14 DEF Enable, Prerequisites
<1>15. CASE NotStarted
  BY <1>15 DEF NotStarted, Prerequisites
<1>16. CASE Restart
  BY <1>16 DEF Restart
<1>17. CASE DisableNow
  BY <1>17 DEF DisableNow
<1>18. CASE DisableFails
  BY <1>18 DEF DisableFails
<1>19. CASE VerifyInactive
  BY <1>19 DEF VerifyInactive
<1>20. CASE RemoveBinary
  BY <1>20 DEF RemoveBinary
<1>21. CASE RemoveUnit
  BY <1>21 DEF RemoveUnit
<1>22. CASE Forget
  BY <1>22 DEF Forget
<1>23. CASE PurgeConfig
  BY <1>23 DEF PurgeConfig
<1>24. CASE PurgePassword
  BY <1>24 DEF PurgePassword
<1>25. CASE Die
  BY <1>25 DEF Die
<1>26. CASE Reboot
  BY <1>26 DEF Reboot, Startable
<1>27. CASE ServiceRestarts
  BY <1>27 DEF ServiceRestarts, Startable
<1>28. CASE Edit
  BY <1>28 DEF Edit
<1>29. CASE Start
  BY <1>29 DEF Start, Startable
<1>30. CASE Stop
  BY <1>30 DEF Stop
<1>31. CASE UNCHANGED vars
  BY <1>31 DEF vars
<1>32. QED
  BY <1>1, <1>2, <1>3, <1>4, <1>5, <1>6, <1>7, <1>8, <1>9, <1>10, <1>11, <1>12,
     <1>13, <1>14, <1>15, <1>16, <1>17, <1>18, <1>19, <1>20, <1>21, <1>22, <1>23, <1>24,
     <1>25, <1>26, <1>27, <1>28, <1>29, <1>30, <1>31
     DEF Next, InstallStep, UninstallStep

\* Every step keeps what the commands of install.sh rely on.
LEMMA StepInstall == IInv /\ [Next]_vars => InstallProgress'
<1> SUFFICES ASSUME IInv, [Next]_vars PROVE InstallProgress'
  OBVIOUS
<1> USE FileStates DEF At, Ends, files, systemd, script,
           IInv, TypeOK, AccountUsable, InstallProgress, AfterConfig, AfterUnit, AfterBinary,
           AfterAccount
<1>1. CASE \E version \in Versions : Install(version)
  BY <1>1 DEF Install
<1>2. CASE \E all \in BOOLEAN : Uninstall(all)
  BY <1>2 DEF Uninstall
<1>3. CASE AccountExists
  BY <1>3 DEF AccountExists
<1>4. CASE GroupAdd
  BY <1>4 DEF GroupAdd
<1>5. CASE UserAdd
  BY <1>5 DEF UserAdd
<1>6. CASE CopyBinary
  BY <1>6 DEF CopyBinary
<1>7. CASE BinaryCopied
  BY <1>7 DEF BinaryCopied
<1>8. CASE CopyUnit
  BY <1>8 DEF CopyUnit
<1>9. CASE UnitCopied
  BY <1>9 DEF UnitCopied
<1>10. CASE CopyConfig
  BY <1>10 DEF CopyConfig
<1>11. CASE ConfigCopied
  BY <1>11 DEF ConfigCopied
<1>12. CASE KeepConfig
  BY <1>12 DEF KeepConfig
<1>13. CASE DaemonReload
  BY <1>13 DEF DaemonReload
<1>14. CASE Enable
  BY <1>14 DEF Enable, Prerequisites
<1>15. CASE NotStarted
  BY <1>15 DEF NotStarted, Prerequisites
<1>16. CASE Restart
  BY <1>16 DEF Restart
<1>17. CASE DisableNow
  BY <1>17 DEF DisableNow
<1>18. CASE DisableFails
  BY <1>18 DEF DisableFails
<1>19. CASE VerifyInactive
  BY <1>19 DEF VerifyInactive
<1>20. CASE RemoveBinary
  BY <1>20 DEF RemoveBinary
<1>21. CASE RemoveUnit
  BY <1>21 DEF RemoveUnit
<1>22. CASE Forget
  BY <1>22 DEF Forget
<1>23. CASE PurgeConfig
  BY <1>23 DEF PurgeConfig
<1>24. CASE PurgePassword
  BY <1>24 DEF PurgePassword
<1>25. CASE Die
  BY <1>25 DEF Die
<1>26. CASE Reboot
  BY <1>26 DEF Reboot, Startable
<1>27. CASE ServiceRestarts
  BY <1>27 DEF ServiceRestarts, Startable
<1>28. CASE Edit
  BY <1>28 DEF Edit
<1>29. CASE Start
  BY <1>29 DEF Start, Startable
<1>30. CASE Stop
  BY <1>30 DEF Stop
<1>31. CASE UNCHANGED vars
  BY <1>31 DEF vars
<1>32. QED
  BY <1>1, <1>2, <1>3, <1>4, <1>5, <1>6, <1>7, <1>8, <1>9, <1>10, <1>11, <1>12,
     <1>13, <1>14, <1>15, <1>16, <1>17, <1>18, <1>19, <1>20, <1>21, <1>22, <1>23, <1>24,
     <1>25, <1>26, <1>27, <1>28, <1>29, <1>30, <1>31
     DEF Next, InstallStep, UninstallStep

\* Every step keeps what the commands of uninstall.sh rely on.
LEMMA StepUninstall == IInv /\ [Next]_vars => UninstallProgress'
<1> SUFFICES ASSUME IInv, [Next]_vars PROVE UninstallProgress'
  OBVIOUS
<1> USE FileStates DEF At, Ends, files, systemd, script,
           IInv, TypeOK, UninstallProgress, AfterForget, AfterStop
<1>1. CASE \E version \in Versions : Install(version)
  BY <1>1 DEF Install
<1>2. CASE \E all \in BOOLEAN : Uninstall(all)
  BY <1>2 DEF Uninstall
<1>3. CASE AccountExists
  BY <1>3 DEF AccountExists
<1>4. CASE GroupAdd
  BY <1>4 DEF GroupAdd
<1>5. CASE UserAdd
  BY <1>5 DEF UserAdd
<1>6. CASE CopyBinary
  BY <1>6 DEF CopyBinary
<1>7. CASE BinaryCopied
  BY <1>7 DEF BinaryCopied
<1>8. CASE CopyUnit
  BY <1>8 DEF CopyUnit
<1>9. CASE UnitCopied
  BY <1>9 DEF UnitCopied
<1>10. CASE CopyConfig
  BY <1>10 DEF CopyConfig
<1>11. CASE ConfigCopied
  BY <1>11 DEF ConfigCopied
<1>12. CASE KeepConfig
  BY <1>12 DEF KeepConfig
<1>13. CASE DaemonReload
  BY <1>13 DEF DaemonReload
<1>14. CASE Enable
  BY <1>14 DEF Enable, Prerequisites
<1>15. CASE NotStarted
  BY <1>15 DEF NotStarted, Prerequisites
<1>16. CASE Restart
  BY <1>16 DEF Restart
<1>17. CASE DisableNow
  BY <1>17 DEF DisableNow
<1>18. CASE DisableFails
  BY <1>18 DEF DisableFails
<1>19. CASE VerifyInactive
  BY <1>19 DEF VerifyInactive
<1>20. CASE RemoveBinary
  BY <1>20 DEF RemoveBinary
<1>21. CASE RemoveUnit
  BY <1>21 DEF RemoveUnit
<1>22. CASE Forget
  BY <1>22 DEF Forget
<1>23. CASE PurgeConfig
  BY <1>23 DEF PurgeConfig
<1>24. CASE PurgePassword
  BY <1>24 DEF PurgePassword
<1>25. CASE Die
  BY <1>25 DEF Die
<1>26. CASE Reboot
  BY <1>26 DEF Reboot, Startable
<1>27. CASE ServiceRestarts
  BY <1>27 DEF ServiceRestarts, Startable
<1>28. CASE Edit
  BY <1>28 DEF Edit
<1>29. CASE Start
  BY <1>29 DEF Start, Startable
<1>30. CASE Stop
  BY <1>30 DEF Stop
<1>31. CASE UNCHANGED vars
  BY <1>31 DEF vars
<1>32. QED
  BY <1>1, <1>2, <1>3, <1>4, <1>5, <1>6, <1>7, <1>8, <1>9, <1>10, <1>11, <1>12,
     <1>13, <1>14, <1>15, <1>16, <1>17, <1>18, <1>19, <1>20, <1>21, <1>22, <1>23, <1>24,
     <1>25, <1>26, <1>27, <1>28, <1>29, <1>30, <1>31
     DEF Next, InstallStep, UninstallStep

\* Every step keeps what a finished script has promised.
LEMMA StepOutcome == IInv /\ [Next]_vars => Outcomes' /\ InstalledIsComplete' /\ RemovedIsClean'
<1> SUFFICES ASSUME IInv, [Next]_vars PROVE Outcomes' /\ InstalledIsComplete' /\ RemovedIsClean'
  OBVIOUS
<1> USE FileStates DEF At, Ends, files, systemd, script,
           IInv, TypeOK, Outcomes, InstalledIsComplete,
           RemovedIsClean, InstallProgress, UninstallProgress, AfterForget, AfterStop,
           AfterConfig, AfterUnit, AfterBinary,
           AfterAccount
<1>1. CASE \E version \in Versions : Install(version)
  BY <1>1 DEF Install
<1>2. CASE \E all \in BOOLEAN : Uninstall(all)
  BY <1>2 DEF Uninstall
<1>3. CASE AccountExists
  BY <1>3 DEF AccountExists
<1>4. CASE GroupAdd
  BY <1>4 DEF GroupAdd
<1>5. CASE UserAdd
  BY <1>5 DEF UserAdd
<1>6. CASE CopyBinary
  BY <1>6 DEF CopyBinary
<1>7. CASE BinaryCopied
  BY <1>7 DEF BinaryCopied
<1>8. CASE CopyUnit
  BY <1>8 DEF CopyUnit
<1>9. CASE UnitCopied
  BY <1>9 DEF UnitCopied
<1>10. CASE CopyConfig
  BY <1>10 DEF CopyConfig
<1>11. CASE ConfigCopied
  BY <1>11 DEF ConfigCopied
<1>12. CASE KeepConfig
  BY <1>12 DEF KeepConfig
<1>13. CASE DaemonReload
  BY <1>13 DEF DaemonReload
<1>14. CASE Enable
  BY <1>14 DEF Enable, Prerequisites
<1>15. CASE NotStarted
  BY <1>15 DEF NotStarted, Prerequisites
<1>16. CASE Restart
  BY <1>16 DEF Restart
<1>17. CASE DisableNow
  BY <1>17 DEF DisableNow
<1>18. CASE DisableFails
  BY <1>18 DEF DisableFails
<1>19. CASE VerifyInactive
  BY <1>19 DEF VerifyInactive
<1>20. CASE RemoveBinary
  BY <1>20 DEF RemoveBinary
<1>21. CASE RemoveUnit
  BY <1>21 DEF RemoveUnit
<1>22. CASE Forget
  BY <1>22 DEF Forget
<1>23. CASE PurgeConfig
  BY <1>23 DEF PurgeConfig
<1>24. CASE PurgePassword
  BY <1>24 DEF PurgePassword
<1>25. CASE Die
  BY <1>25 DEF Die
<1>26. CASE Reboot
  BY <1>26 DEF Reboot, Startable
<1>27. CASE ServiceRestarts
  BY <1>27 DEF ServiceRestarts, Startable
<1>28. CASE Edit
  BY <1>28 DEF Edit
<1>29. CASE Start
  BY <1>29 DEF Start, Startable
<1>30. CASE Stop
  BY <1>30 DEF Stop
<1>31. CASE UNCHANGED vars
  BY <1>31 DEF vars
<1>32. QED
  BY <1>1, <1>2, <1>3, <1>4, <1>5, <1>6, <1>7, <1>8, <1>9, <1>10, <1>11, <1>12,
     <1>13, <1>14, <1>15, <1>16, <1>17, <1>18, <1>19, <1>20, <1>21, <1>22, <1>23, <1>24,
     <1>25, <1>26, <1>27, <1>28, <1>29, <1>30, <1>31
     DEF Next, InstallStep, UninstallStep

\* The initial state satisfies the invariant.
LEMMA InitInv == Init => IInv
<1> SUFFICES ASSUME Init PROVE IInv
  OBVIOUS
<1>1. enabled \in BOOLEAN /\ purge \in BOOLEAN
  BY Zenon DEF Init
<1>2. TypeOK
  BY <1>1 DEF Init, TypeOK, Labels
<1>3. AccountUsable /\ RunningHasFiles
  BY DEF Init, AccountUsable, RunningHasFiles
<1>4. InstallProgress
  BY DEF Init, InstallProgress, AfterConfig, AfterUnit, AfterBinary, AfterAccount
<1>5. UninstallProgress
  BY DEF Init, UninstallProgress, AfterForget, AfterStop
<1>6. Outcomes /\ InstalledIsComplete /\ RemovedIsClean
  BY DEF Init, Outcomes, InstalledIsComplete, RemovedIsClean
<1>7. QED
  BY <1>2, <1>3, <1>4, <1>5, <1>6 DEF IInv

\* The invariant holds in every reachable state.
LEMMA Invariance == Spec => []IInv
<1>1. IInv /\ [Next]_vars => IInv'
  BY StepTypes, StepRunning, StepInstall, StepUninstall, StepOutcome DEF IInv
<1>2. QED
  BY InitInv, <1>1, PTL DEF Spec

-----------------------------------------------------------------------------
\* However often account creation of src/scripts/install.sh is cut off, no later
\* run meets a service user that it refuses.
THEOREM AccountNeverRefused == Spec => []AccountUsable
<1>1. IInv => AccountUsable
  BY DEF IInv
<1>2. QED
  BY Invariance, <1>1, PTL

\* For any versions and any sequence of broken installations and removals, a
\* running service has its unit and its binary.
THEOREM RunningKeepsFiles == Spec => []RunningHasFiles
<1>1. IInv => RunningHasFiles
  BY DEF IInv
<1>2. QED
  BY Invariance, <1>1, PTL

\* An installation that ends well leaves files, loaded unit, account and running
\* process of one version, whatever earlier runs left.
THEOREM CompleteWhenInstalled == Spec => []InstalledIsComplete
<1>1. IInv => InstalledIsComplete
  BY DEF IInv
<1>2. QED
  BY Invariance, <1>1, PTL

\* A removal that ends well leaves nothing of the service, whatever earlier runs
\* left.
THEOREM CleanWhenRemoved == Spec => []RemovedIsClean
<1>1. IInv => RemovedIsClean
  BY DEF IInv
<1>2. QED
  BY Invariance, <1>1, PTL

-----------------------------------------------------------------------------
\* Every step keeps what a removal knows of itself.
LEMMA StepPurge == PurgeProgress /\ [Next]_vars => PurgeProgress'
<1> SUFFICES ASSUME PurgeProgress, [Next]_vars PROVE PurgeProgress'
  OBVIOUS
<1> USE DEF At, Ends, files, systemd, script, PurgeProgress, AfterStop, AfterForget
<1>1. CASE \E version \in Versions : Install(version)
  BY <1>1 DEF Install
<1>2. CASE \E all \in BOOLEAN : Uninstall(all)
  BY <1>2 DEF Uninstall
<1>3. CASE AccountExists
  BY <1>3 DEF AccountExists
<1>4. CASE GroupAdd
  BY <1>4 DEF GroupAdd
<1>5. CASE UserAdd
  BY <1>5 DEF UserAdd
<1>6. CASE CopyBinary
  BY <1>6 DEF CopyBinary
<1>7. CASE BinaryCopied
  BY <1>7 DEF BinaryCopied
<1>8. CASE CopyUnit
  BY <1>8 DEF CopyUnit
<1>9. CASE UnitCopied
  BY <1>9 DEF UnitCopied
<1>10. CASE CopyConfig
  BY <1>10 DEF CopyConfig
<1>11. CASE ConfigCopied
  BY <1>11 DEF ConfigCopied
<1>12. CASE KeepConfig
  BY <1>12 DEF KeepConfig
<1>13. CASE DaemonReload
  BY <1>13 DEF DaemonReload
<1>14. CASE Enable
  BY <1>14 DEF Enable
<1>15. CASE NotStarted
  BY <1>15 DEF NotStarted
<1>16. CASE Restart
  BY <1>16 DEF Restart
<1>17. CASE DisableNow
  BY <1>17 DEF DisableNow
<1>18. CASE DisableFails
  BY <1>18 DEF DisableFails
<1>19. CASE VerifyInactive
  BY <1>19 DEF VerifyInactive
<1>20. CASE RemoveBinary
  BY <1>20 DEF RemoveBinary
<1>21. CASE RemoveUnit
  BY <1>21 DEF RemoveUnit
<1>22. CASE Forget
  BY <1>22 DEF Forget
<1>23. CASE PurgeConfig
  BY <1>23 DEF PurgeConfig
<1>24. CASE PurgePassword
  BY <1>24 DEF PurgePassword
<1>25. CASE Die
  BY <1>25 DEF Die
<1>26. CASE Reboot
  BY <1>26 DEF Reboot
<1>27. CASE ServiceRestarts
  BY <1>27 DEF ServiceRestarts
<1>28. CASE Edit
  BY <1>28 DEF Edit
<1>29. CASE Start
  BY <1>29 DEF Start
<1>30. CASE Stop
  BY <1>30 DEF Stop
<1>31. CASE UNCHANGED vars
  BY <1>31 DEF vars
<1>32. QED
  BY <1>1, <1>2, <1>3, <1>4, <1>5, <1>6, <1>7, <1>8, <1>9, <1>10, <1>11, <1>12, <1>13,
     <1>14, <1>15, <1>16, <1>17, <1>18, <1>19, <1>20, <1>21, <1>22, <1>23, <1>24,
     <1>25, <1>26, <1>27, <1>28, <1>29, <1>30, <1>31
     DEF Next, InstallStep, UninstallStep

\* What a step may do to the administrator's files, given what the scripts rely on.
KeepsUserFiles ==
  \/ config = "user" /\ config' # "user"
  \/ pc # "none" /\ password # "absent" /\ password' # password
  => purge /\ artifact = Absent /\ active = Absent /\ binary = Absent /\ unit = Absent

LEMMA StepKeepsUserFiles == IInv /\ PurgeProgress /\ [Next]_vars => KeepsUserFiles
<1> SUFFICES ASSUME IInv, PurgeProgress, [Next]_vars PROVE KeepsUserFiles
  OBVIOUS
<1> USE DEF At, Ends, files, systemd, script, IInv, UninstallProgress, PurgeProgress, AfterStop,
           AfterForget, KeepsUserFiles
<1>1. CASE \E version \in Versions : Install(version)
  BY <1>1 DEF Install
<1>2. CASE \E all \in BOOLEAN : Uninstall(all)
  BY <1>2 DEF Uninstall
<1>3. CASE AccountExists
  BY <1>3 DEF AccountExists
<1>4. CASE GroupAdd
  BY <1>4 DEF GroupAdd
<1>5. CASE UserAdd
  BY <1>5 DEF UserAdd
<1>6. CASE CopyBinary
  BY <1>6 DEF CopyBinary
<1>7. CASE BinaryCopied
  BY <1>7 DEF BinaryCopied
<1>8. CASE CopyUnit
  BY <1>8 DEF CopyUnit
<1>9. CASE UnitCopied
  BY <1>9 DEF UnitCopied
<1>10. CASE CopyConfig
  BY <1>10 DEF CopyConfig
<1>11. CASE ConfigCopied
  BY <1>11 DEF ConfigCopied
<1>12. CASE KeepConfig
  BY <1>12 DEF KeepConfig
<1>13. CASE DaemonReload
  BY <1>13 DEF DaemonReload
<1>14. CASE Enable
  BY <1>14 DEF Enable
<1>15. CASE NotStarted
  BY <1>15 DEF NotStarted
<1>16. CASE Restart
  BY <1>16 DEF Restart
<1>17. CASE DisableNow
  BY <1>17 DEF DisableNow
<1>18. CASE DisableFails
  BY <1>18 DEF DisableFails
<1>19. CASE VerifyInactive
  BY <1>19 DEF VerifyInactive
<1>20. CASE RemoveBinary
  BY <1>20 DEF RemoveBinary
<1>21. CASE RemoveUnit
  BY <1>21 DEF RemoveUnit
<1>22. CASE Forget
  BY <1>22 DEF Forget
<1>23. CASE PurgeConfig
  BY <1>23 DEF PurgeConfig
<1>24. CASE PurgePassword
  BY <1>24 DEF PurgePassword
<1>25. CASE Die
  BY <1>25 DEF Die
<1>26. CASE Reboot
  BY <1>26 DEF Reboot
<1>27. CASE ServiceRestarts
  BY <1>27 DEF ServiceRestarts
<1>28. CASE Edit
  BY <1>28 DEF Edit
<1>29. CASE Start
  BY <1>29 DEF Start
<1>30. CASE Stop
  BY <1>30 DEF Stop
<1>31. CASE UNCHANGED vars
  BY <1>31 DEF vars
<1>32. QED
  BY <1>1, <1>2, <1>3, <1>4, <1>5, <1>6, <1>7, <1>8, <1>9, <1>10, <1>11, <1>12, <1>13,
     <1>14, <1>15, <1>16, <1>17, <1>18, <1>19, <1>20, <1>21, <1>22, <1>23, <1>24,
     <1>25, <1>26, <1>27, <1>28, <1>29, <1>30, <1>31
     DEF Next, InstallStep, UninstallStep

\* For any versions, however installations, upgrades and removals follow and
\* break off, the administrator's configuration and password are only taken by a
\* removal with --purge-config, and only once the service and its files are gone.
THEOREM UserFilesSafe == Spec => UserFilesKept
<1>1. Init => PurgeProgress
  BY DEF Init, PurgeProgress, AfterStop, AfterForget
<1>2. Spec => []PurgeProgress
  BY <1>1, StepPurge, PTL DEF Spec
<1>3. IInv /\ PurgeProgress /\ [Next]_vars => [KeepsUserFiles]_vars
  BY StepKeepsUserFiles
<1>4. Spec => [][KeepsUserFiles]_vars
  BY Invariance, <1>2, <1>3, PTL DEF Spec
<1>5. QED
  BY <1>4 DEF UserFilesKept, KeepsUserFiles
=============================================================================
