------------------------ MODULE StatusBoundaryProofs ------------------------
(***************************************************************************)
(* Proofs about StatusBoundary for any limits, any number of attempts of   *)
(* the backup jobs and any number of mishaps on the host.                  *)
(***************************************************************************)
EXTENDS StatusBoundary, TLAPS

USE BoundaryAssumption

(* A nonempty set of states has a worst one, which worst_state picks. *)
LEMMA WorstIsWorst ==
  ASSUME NEW S \in SUBSET States, S # {}
  PROVE  worst_state(S) \in S /\ \A t \in S : AtLeast(worst_state(S), t)
<1>1. States = {"HEALTHY", "DEGRADED", "WARNING", "UNKNOWN", "CRITICAL"}
  BY DEF States, STATE_ORDER
<1>2. /\ STATE_ORDER["HEALTHY"] = 0 /\ STATE_ORDER["DEGRADED"] = 1
      /\ STATE_ORDER["WARNING"] = 2 /\ STATE_ORDER["UNKNOWN"] = 3
      /\ STATE_ORDER["CRITICAL"] = 4
  BY DEF STATE_ORDER
<1>3. \E s \in S : \A t \in S : AtLeast(s, t)
  <2>1. ASSUME NEW x \in States, NEW y \in States
        PROVE  AtLeast(x, y) \/ AtLeast(y, x)
    BY <1>1, <1>2 DEF AtLeast
  <2>2. CASE "CRITICAL" \in S
    BY <1>1, <1>2, <2>2 DEF AtLeast
  <2>3. CASE "CRITICAL" \notin S /\ "UNKNOWN" \in S
    <3>1. \A t \in S : STATE_ORDER["UNKNOWN"] >= STATE_ORDER[t]
      BY <1>1, <1>2, <2>3
    <3> QED
      BY <2>3, <3>1 DEF AtLeast
  <2>4. CASE "CRITICAL" \notin S /\ "UNKNOWN" \notin S /\ "WARNING" \in S
    <3>1. \A t \in S : STATE_ORDER["WARNING"] >= STATE_ORDER[t]
      BY <1>1, <1>2, <2>4
    <3> QED
      BY <2>4, <3>1 DEF AtLeast
  <2>5. CASE S \subseteq {"HEALTHY", "DEGRADED"} /\ "DEGRADED" \in S
    <3>1. \A t \in S : STATE_ORDER["DEGRADED"] >= STATE_ORDER[t]
      BY <1>1, <1>2, <2>5
    <3> QED
      BY <2>5, <3>1 DEF AtLeast
  <2>6. CASE S = {"HEALTHY"}
    BY <1>2, <2>6 DEF AtLeast
  <2> QED
    BY <1>1, <2>2, <2>3, <2>4, <2>5, <2>6
<1> QED
  BY <1>3 DEF worst_state

(* What is summed up as HEALTHY is HEALTHY throughout. *)
LEMMA HealthyThroughout ==
  ASSUME NEW S \in SUBSET States, worst_state(S) = "HEALTHY"
  PROVE  \A t \in S : t = "HEALTHY"
<1>1. States = {"HEALTHY", "DEGRADED", "WARNING", "UNKNOWN", "CRITICAL"}
  BY DEF States, STATE_ORDER
<1>2. /\ STATE_ORDER["HEALTHY"] = 0 /\ STATE_ORDER["DEGRADED"] = 1
      /\ STATE_ORDER["WARNING"] = 2 /\ STATE_ORDER["UNKNOWN"] = 3
      /\ STATE_ORDER["CRITICAL"] = 4
  BY DEF STATE_ORDER
<1>3. ASSUME NEW t \in S PROVE AtLeast("HEALTHY", t)
  BY <1>3, WorstIsWorst
<1> QED
  BY <1>1, <1>2, <1>3 DEF AtLeast

(* A copy is never younger than what it was copied from: the copies are    *)
(* made of time stamps, and a source only gets younger.                    *)
CopiesNotYounger ==
  /\ backupFile.file = "ok" => local.success <= backupFile.success
  /\ offsiteFile.file = "ok" => offsite.success <= offsiteFile.success

Inv == TypeOK /\ CopiesNotYounger

(* The host starts with fresh successes and no copies. *)
LEMMA InitInv == Init => Inv
<1> SUFFICES ASSUME Init PROVE Inv
  OBVIOUS
<1>1. 0 \in Ages
  BY DEF Ages, Aged
<1>2. local \in LocalFiles
  BY <1>1 DEF Init, LocalFiles
<1>3. offsite \in OffsiteFiles
  BY <1>1 DEF Init, OffsiteFiles
<1>4. CopiesNotYounger
  BY DEF Init, CopiesNotYounger, None
<1>5. /\ unitsOk \in BOOLEAN /\ hostFile \in BOOLEAN /\ timer \in BOOLEAN /\ ran \in BOOLEAN
      /\ pc \in {"idle", "backup", "offsite"}
  BY DEF Init
<1>6. /\ backupFile \in {f \in LocalFiles : f.file = "ok"} \cup {None}
      /\ offsiteFile \in OffsiteCopies \cup {None}
  BY DEF Init
<1>7. attempts \in 0 .. MaxAttempts /\ mishaps \in 0 .. MaxMishaps
  <2>1. attempts = 0 /\ mishaps = 0
    BY DEF Init
  <2> QED
    BY <2>1
<1> QED
  BY <1>2, <1>3, <1>4, <1>5, <1>6, <1>7 DEF Inv, TypeOK

(* Time does not make an age a value that it cannot have. *)
LEMMA Ageing ==
  ASSUME NEW a \in Ages, NEW b \in Ages
  PROVE  /\ Older(a) \in Ages
         /\ a <= b => Older(a) <= Older(b)
  BY DEF Ages, Aged, Older

(* The sources are younger after a success and as old as before otherwise. *)
SourcesRenewed ==
  /\ local' \in LocalFiles /\ offsite' \in OffsiteFiles
  /\ local'.success = 0 \/ local'.success = local.success
  /\ offsite'.success = 0 \/ offsite'.success = offsite.success

(* Jobs that renew their sources keep the copies from being younger. *)
LEMMA RenewedInv ==
  ASSUME Inv, SourcesRenewed, UNCHANGED <<backupFile, offsiteFile>>,
         hostFile' \in BOOLEAN, unitsOk' \in BOOLEAN, timer' \in BOOLEAN, ran' \in BOOLEAN,
         pc' \in {"idle", "backup", "offsite"},
         attempts' \in 0 .. MaxAttempts, mishaps' \in 0 .. MaxMishaps
  PROVE  Inv'
<1>1. TypeOK'
  BY DEF Inv, TypeOK, SourcesRenewed
<1>2. backupFile.file = "ok" => 0 <= backupFile.success
  BY DEF Inv, TypeOK, None, LocalFiles, Ages, Aged
<1>3. offsiteFile.file = "ok" => 0 <= offsiteFile.success
  BY DEF Inv, TypeOK, None, OffsiteCopies, Ages, Aged
<1>4. CopiesNotYounger'
  BY <1>2, <1>3 DEF Inv, CopiesNotYounger, SourcesRenewed
<1> QED
  BY <1>1, <1>4 DEF Inv

(* A job or a mishap replaces the fields of a source, or nothing of them. *)
LEMMA JobStep ==
  ASSUME Inv, Job
  PROVE  Inv'
<1> USE DEF sources, files, helper
<1>1. 0 \in Ages
  BY DEF Ages, Aged
<1>2. CASE LocalBackup
  <2>1. local' \in LocalFiles /\ (local'.success = 0 \/ local'.success = local.success)
    BY <1>1, <1>2 DEF LocalBackup, Inv, TypeOK, LocalFiles
  <2>2. SourcesRenewed
    BY <1>2, <2>1 DEF LocalBackup, SourcesRenewed, Inv, TypeOK
  <2>3. attempts' \in 0 .. MaxAttempts
    BY <1>2 DEF LocalBackup, Attempted, Inv, TypeOK
  <2> QED
    BY <1>2, <2>2, <2>3, RenewedInv DEF LocalBackup, Inv, TypeOK
<1>3. CASE OffsiteUpload
  <2>1. offsite' \in OffsiteFiles /\ (offsite'.success = 0 \/ offsite'.success = offsite.success)
    BY <1>1, <1>3 DEF OffsiteUpload, Inv, TypeOK, OffsiteFiles
  <2>2. SourcesRenewed
    BY <1>3, <2>1 DEF OffsiteUpload, SourcesRenewed, Inv, TypeOK
  <2>3. attempts' \in 0 .. MaxAttempts
    <3>1. Attempted
      BY <1>3 DEF OffsiteUpload
    <3> QED
      BY <3>1 DEF Attempted, Inv, TypeOK
  <2> QED
    BY <1>3, <2>2, <2>3, RenewedInv DEF OffsiteUpload, Inv, TypeOK
<1>4. CASE OffsiteFinalize
  <2>1. offsite' \in OffsiteFiles /\ offsite'.success = 0
    BY <1>1, <1>4 DEF OffsiteFinalize, Inv, TypeOK, OffsiteFiles
  <2>2. SourcesRenewed
    BY <1>4, <2>1 DEF OffsiteFinalize, SourcesRenewed, Inv, TypeOK
  <2> QED
    BY <1>4, <2>2, RenewedInv DEF OffsiteFinalize, Inv, TypeOK
<1> QED
  BY <1>2, <1>3, <1>4 DEF Job

(* A copy is as old as what was just copied. *)
LEMMA HelperStep ==
  ASSUME Inv, Helper
  PROVE  Inv'
<1> USE DEF sources, files
<1>1. CASE PublishHost
  BY <1>1 DEF PublishHost, Inv, TypeOK, CopiesNotYounger
<1>2. CASE PublishBackup
  <2>1. CASE local.file = "ok"
    <3>1. backupFile' = local /\ local.success <= local.success
      BY <1>2, <2>1 DEF PublishBackup, Inv, TypeOK, LocalFiles, Ages, Aged
    <3>2. TypeOK'
      BY <1>2, <2>1, <3>1 DEF PublishBackup, Inv, TypeOK
    <3>3. CopiesNotYounger'
      BY <1>2, <3>1 DEF PublishBackup, Inv, CopiesNotYounger
    <3> QED
      BY <3>2, <3>3 DEF Inv
  <2>2. CASE local.file # "ok"
    BY <1>2, <2>2 DEF PublishBackup, Inv, TypeOK, CopiesNotYounger
  <2> QED
    BY <2>1, <2>2
<1>3. CASE PublishOffsite
  <2>1. OffsitePayload \in OffsiteCopies
    BY DEF OffsitePayload, OffsiteCopies, Inv, TypeOK, OffsiteFiles
  <2>2. TypeOK'
    BY <1>3, <2>1 DEF PublishOffsite, Inv, TypeOK
  <2>3. OffsitePayload.file = "ok" => offsite.success <= OffsitePayload.success
    BY DEF OffsitePayload, Inv, TypeOK, OffsiteFiles, Ages, Aged
  <2>4. CopiesNotYounger'
    BY <1>3, <2>3 DEF PublishOffsite, Inv, CopiesNotYounger
  <2> QED
    BY <2>2, <2>4 DEF Inv
<1> QED
  BY <1>1, <1>2, <1>3 DEF Helper

(* Sources and copies grow old together. *)
LEMMA TickStep ==
  ASSUME Inv, Tick
  PROVE  Inv'
<1>1. local' \in LocalFiles /\ local'.success = Older(local.success)
  BY Ageing DEF Tick, Inv, TypeOK, LocalFiles
<1>2. offsite' \in OffsiteFiles /\ offsite'.success = Older(offsite.success)
  BY Ageing DEF Tick, Inv, TypeOK, OffsiteFiles
<1>3. /\ backupFile' \in {f \in LocalFiles : f.file = "ok"} \cup {None}
      /\ backupFile'.file = "ok" => local'.success <= backupFile'.success
  <2>1. CASE backupFile = None
    BY <2>1 DEF Tick, None
  <2>2. CASE backupFile # None
    <3>1. backupFile \in LocalFiles /\ backupFile.file = "ok"
      BY <2>2 DEF Inv, TypeOK
    <3>2. backupFile' = [backupFile EXCEPT !.success = Older(@)]
      BY <2>2 DEF Tick
    <3>3. local.success \in Ages /\ backupFile.success \in Ages /\ local.success <= backupFile.success
      BY <3>1 DEF Inv, TypeOK, LocalFiles, CopiesNotYounger
    <3>4. /\ backupFile' \in LocalFiles /\ backupFile'.file = "ok"
          /\ backupFile'.success = Older(backupFile.success)
      BY <3>1, <3>2, <3>3, Ageing DEF LocalFiles
    <3> QED
      BY <1>1, <3>3, <3>4, Ageing
  <2> QED
    BY <2>1, <2>2
<1>4. /\ offsiteFile' \in OffsiteCopies \cup {None}
      /\ offsiteFile'.file = "ok" => offsite'.success <= offsiteFile'.success
  <2>1. CASE offsiteFile.file # "ok"
    BY <2>1 DEF Tick, Inv, TypeOK
  <2>2. CASE offsiteFile.file = "ok"
    <3>1. /\ offsiteFile \in OffsiteCopies
          /\ offsiteFile.success \in Ages /\ offsiteFile.attempt \in Ages
      BY <2>2 DEF Inv, TypeOK, None, OffsiteCopies
    <3>2. offsiteFile' = [offsiteFile EXCEPT !.success = Older(@), !.attempt = Older(@)]
      BY <2>2 DEF Tick
    <3>3. offsite.success \in Ages /\ offsite.success <= offsiteFile.success
      BY <2>2 DEF Inv, TypeOK, OffsiteFiles, CopiesNotYounger
    <3>4. offsiteFile' \in OffsiteCopies /\ offsiteFile'.success = Older(offsiteFile.success)
      BY <2>2, <3>1, <3>2, Ageing DEF OffsiteCopies
    <3> QED
      BY <1>2, <3>1, <3>3, <3>4, Ageing
  <2> QED
    BY <2>1, <2>2
<1>5. TypeOK'
  BY <1>1, <1>2, <1>3, <1>4 DEF Tick, Inv, TypeOK
<1> QED
  BY <1>3, <1>4, <1>5 DEF Inv, CopiesNotYounger

(* What goes wrong on the host changes no age; a restart loses the copies. *)
LEMMA MishapStep ==
  ASSUME Inv, Corrupt \/ SwitchTimer \/ Interrupt \/ Reboot
  PROVE  Inv'
<1> USE DEF sources, files, helper
<1>1. mishaps' \in 0 .. MaxMishaps
  BY DEF Corrupt, SwitchTimer, Interrupt, Reboot, Mishap, Inv, TypeOK
<1>2. CASE Corrupt
  <2>1. local' \in LocalFiles /\ local'.success = local.success
    BY <1>2 DEF Corrupt, Inv, TypeOK, LocalFiles
  <2>2. offsite' \in OffsiteFiles /\ offsite'.success = offsite.success
    BY <1>2 DEF Corrupt, Inv, TypeOK, OffsiteFiles
  <2>3. SourcesRenewed /\ unitsOk' \in BOOLEAN
    BY <1>2, <2>1, <2>2 DEF Corrupt, SourcesRenewed, Inv, TypeOK
  <2> QED
    BY <1>1, <1>2, <2>3, RenewedInv DEF Corrupt, Inv, TypeOK
<1>3. CASE SwitchTimer
  BY <1>1, <1>3 DEF SwitchTimer, Inv, TypeOK, CopiesNotYounger
<1>4. CASE Interrupt
  BY <1>1, <1>4 DEF Interrupt, Inv, TypeOK, CopiesNotYounger
<1>5. CASE Reboot
  BY <1>1, <1>5 DEF Reboot, Inv, TypeOK, CopiesNotYounger, None
<1> QED
  BY <1>2, <1>3, <1>4, <1>5

(* The copies are never younger than their sources, in every state. *)
LEMMA Invariance == Spec => []Inv
<1>1. Init => Inv
  BY InitInv
<1>2. Inv /\ [Next]_vars => Inv'
  <2> SUFFICES ASSUME Inv, [Next]_vars PROVE Inv'
    OBVIOUS
  <2>1. CASE UNCHANGED vars
    BY <2>1 DEF vars, Inv, TypeOK, CopiesNotYounger
  <2>2. CASE Next
    BY <2>2, JobStep, HelperStep, TickStep, MishapStep DEF Next
  <2> QED
    BY <2>1, <2>2
<1> QED
  BY <1>1, <1>2, PTL DEF Spec

(* The status files and their copies have the fields the boundaries check, *)
(* and no step of host-observer.sh publishes anything else.                *)
THEOREM TypeCorrect == Spec => []TypeOK
<1>1. Inv => TypeOK
  BY DEF Inv
<1> QED
  BY <1>1, Invariance, PTL

(* Every part of the judgement of the backups is one of the five states. *)
LEMMA JudgedStates ==
  /\ backup_probe # {} /\ backup_probe \cup {offsite_health} \in SUBSET States
  /\ Backups \in States
  /\ \A t \in backup_probe \cup {offsite_health} : AtLeast(Backups, t)
<1>1. ASSUME NEW a PROVE classify_age(a) \in States
  BY DEF classify_age, States, STATE_ORDER
<1>2. backup_probe # {} /\ backup_probe \cup {offsite_health} \in SUBSET States
  BY <1>1 DEF backup_probe, offsite_health, States, STATE_ORDER
<1> QED
  BY <1>2, WorstIsWorst DEF Backups

(* Nothing is worse than CRITICAL, and what is at least CRITICAL is at     *)
(* least UNKNOWN.                                                          *)
LEMMA CriticalIsWorst ==
  ASSUME NEW s \in States
  PROVE  /\ AtLeast(s, "CRITICAL") => s = "CRITICAL"
         /\ AtLeast("CRITICAL", "UNKNOWN")
<1>1. States = {"HEALTHY", "DEGRADED", "WARNING", "UNKNOWN", "CRITICAL"}
  BY DEF States, STATE_ORDER
<1>2. /\ STATE_ORDER["HEALTHY"] = 0 /\ STATE_ORDER["DEGRADED"] = 1
      /\ STATE_ORDER["WARNING"] = 2 /\ STATE_ORDER["UNKNOWN"] = 3
      /\ STATE_ORDER["CRITICAL"] = 4
  BY DEF STATE_ORDER
<1> QED
  BY <1>1, <1>2 DEF AtLeast

(* The ages that are compared are numbers. *)
LEMMA AgesAreNumbers ==
  ASSUME Inv
  PROVE  /\ local.success \in Nat /\ offsite.success \in Nat
         /\ backupFile.file = "ok" => backupFile.success \in Nat
         /\ offsiteFile.file = "ok" => offsiteFile.success \in Nat
  BY DEF Inv, TypeOK, None, LocalFiles, OffsiteFiles, OffsiteCopies, Ages, Aged

(* Whichever of the jobs, the timer, the script or the host failed, and in *)
(* whatever order: the observer is not told that the backups are HEALTHY   *)
(* when one of them last succeeded more than WarnAge ago, and is told that *)
(* they are UNKNOWN or worse when that is more than CritAge ago.           *)
THEOREM NotFlattered == Spec => []BackupsNotFlattered
<1>1. ASSUME Inv, Backups = "HEALTHY"
      PROVE  local.success <= WarnAge /\ offsite.success <= WarnAge
  <2>1. \A t \in backup_probe \cup {offsite_health} : t = "HEALTHY"
    BY <1>1, JudgedStates, HealthyThroughout DEF Backups
  <2>2. backupFile.file = "ok" /\ classify_age(backupFile.success) = "HEALTHY"
    BY <2>1 DEF backup_probe
  <2>3. offsiteFile.file = "ok" /\ classify_age(offsiteFile.success) = "HEALTHY"
    BY <2>1 DEF offsite_health, CriticalReason
  <2>4. backupFile.success <= WarnAge /\ offsiteFile.success <= WarnAge
    BY <1>1, <2>2, <2>3, AgesAreNumbers DEF classify_age
  <2> QED
    BY <1>1, <2>2, <2>3, <2>4, AgesAreNumbers DEF Inv, CopiesNotYounger
<1>2. ASSUME Inv, local.success > CritAge
      PROVE  AtLeast(Backups, "UNKNOWN")
  <2>1. CASE backupFile.file # "ok"
    BY <2>1, JudgedStates DEF backup_probe
  <2>2. CASE backupFile.file = "ok"
    <3>1. backupFile.success > CritAge
      BY <1>2, <2>2, AgesAreNumbers DEF Inv, CopiesNotYounger
    <3>2. "CRITICAL" \in backup_probe
      BY <2>2, <3>1 DEF backup_probe, classify_age
    <3> QED
      BY <3>2, JudgedStates, CriticalIsWorst
  <2> QED
    BY <2>1, <2>2
<1>3. ASSUME Inv, offsite.success > CritAge
      PROVE  Backups = "CRITICAL"
  <2>1. offsiteFile.file = "ok" => offsiteFile.success > CritAge
    BY <1>3, AgesAreNumbers DEF Inv, CopiesNotYounger
  <2>2. offsite_health = "CRITICAL"
    BY <2>1 DEF offsite_health, CriticalReason, classify_age
  <2> QED
    BY <2>2, JudgedStates, CriticalIsWorst
<1>4. Inv => BackupsNotFlattered
  BY <1>1, <1>2, <1>3 DEF BackupsNotFlattered
<1> QED
  BY <1>4, Invariance, PTL

=============================================================================
