--------------------------- MODULE StatusBoundary ---------------------------
(***************************************************************************)
(* How the state of the backups reaches the observer.  The two backup jobs *)
(* of the host write their status; host-observer.sh, once a minute, copies *)
(* the host metrics, the local and the offsite status to /run, one after   *)
(* the other; the observer reads the copies with backup_probe,             *)
(* offsite_backup_probe and host_observations, and the backend judges what *)
(* it read (monitoring.classify).  A time stamp is kept as its age, counted *)
(* in hours and no further than Aged.                                      *)
(***************************************************************************)
EXTENDS HealthView

CONSTANTS
  PendingLimit,   \* the 45 minutes a provider may take to verify an upload
  WarnAge,        \* the 26 hours after which a success is old
  CritAge,        \* the 48 hours after which it is too old
  MaxAttempts,    \* bound: attempts of the two jobs together
  MaxMishaps      \* bound: what else goes wrong on the host

ASSUME BoundaryAssumption ==
  /\ PendingLimit \in Nat /\ WarnAge \in Nat /\ CritAge \in Nat
  /\ PendingLimit <= WarnAge /\ WarnAge < CritAge
  /\ MaxAttempts \in Nat /\ MaxMishaps \in Nat

VARIABLES
  local,        \* /var/backups/plenora/status.json
  offsite,      \* /var/lib/plenora-offsite/status.json
  unitsOk,      \* the services and timers of the offsite backup are well
  hostFile,     \* whether /run/plenora-cockpit/host.json is there
  backupFile,   \* backup-status.json
  offsiteFile,  \* offsite-status.json
  timer,        \* the timer of host-observer.sh is active
  pc,           \* what host-observer.sh writes next, or "idle"
  ran,          \* it ran in this hour
  attempts,     \* how often the jobs ran
  mishaps

sources == <<local, offsite, unitsOk>>
files == <<hostFile, backupFile, offsiteFile>>
helper == <<timer, pc, ran>>
vars == <<local, offsite, unitsOk, hostFile, backupFile, offsiteFile, timer, pc,
          ran, attempts, mishaps>>

Aged == CritAge + 1
Ages == 0 .. Aged
Older(age) == IF age < Aged THEN age + 1 ELSE age

None == [file |-> "none"]

(* success: the age of last_success_at, Aged when there was none; attempt:  *)
(* that of attempted_at.  Of the offsite statuses "pending" is a partial    *)
(* one that awaits the provider's verification, "success" a success with    *)
(* Object Lock, and "failed" all others, which are judged alike.            *)
LocalFiles == [file : {"ok", "invalid", "missing"}, status : {"success", "failed"},
               checksum : BOOLEAN, success : Ages]
OffsiteFiles == [file : {"ok", "invalid"}, status : {"success", "pending", "failed"},
                 verified : BOOLEAN, success : Ages, attempt : Ages]
OffsiteCopies == [file : {"ok"}, status : {"success", "pending", "failed"},
                  verified : BOOLEAN, success : Ages, attempt : Ages, unitsOk : BOOLEAN]
                   \cup [file : {"unavailable"}]

Init ==
  /\ local = [file |-> "ok", status |-> "success", checksum |-> TRUE, success |-> 0]
  /\ offsite = [file |-> "ok", status |-> "success", verified |-> TRUE,
                success |-> 0, attempt |-> 0]
  /\ unitsOk = TRUE
  /\ hostFile = FALSE /\ backupFile = None /\ offsiteFile = None
  /\ timer = TRUE /\ pc = "idle" /\ ran = FALSE
  /\ attempts = 0 /\ mishaps = 0

------------------------------------------------------------------------------
(* The two jobs and the host, which are not in the repository. *)

Attempted == attempts < MaxAttempts /\ attempts' = attempts + 1

LocalBackup ==
  /\ Attempted
  /\ local' \in {[local EXCEPT !.file = "ok", !.status = "success", !.checksum = TRUE, !.success = 0],
                 [local EXCEPT !.file = "ok", !.status = "success", !.checksum = FALSE, !.success = 0],
                 [local EXCEPT !.file = "ok", !.status = "failed", !.checksum = FALSE]}
  /\ UNCHANGED <<offsite, unitsOk, files, helper, mishaps>>

OffsiteUpload ==
  /\ Attempted
  /\ offsite' \in {[offsite EXCEPT !.file = "ok", !.status = "pending", !.verified = v, !.attempt = 0] :
                     v \in BOOLEAN}
                  \cup {[offsite EXCEPT !.file = "ok", !.status = "failed", !.attempt = 0]}
  /\ UNCHANGED <<local, unitsOk, files, helper, mishaps>>

(* The provider verified the upload. *)
OffsiteFinalize ==
  /\ offsite.status = "pending"
  /\ offsite' = [offsite EXCEPT !.file = "ok", !.status = "success", !.success = 0]
  /\ UNCHANGED <<local, unitsOk, files, helper, attempts, mishaps>>

Mishap == mishaps < MaxMishaps /\ mishaps' = mishaps + 1

Corrupt ==
  /\ Mishap
  /\ \/ \E f \in {"invalid", "missing"} :
          local' = [local EXCEPT !.file = f] /\ UNCHANGED <<offsite, unitsOk>>
     \/ offsite' = [offsite EXCEPT !.file = "invalid"] /\ UNCHANGED <<local, unitsOk>>
     \/ unitsOk' = ~unitsOk /\ UNCHANGED <<local, offsite>>
  /\ UNCHANGED <<files, helper, attempts>>

SwitchTimer ==
  /\ Mishap
  /\ timer' = ~timer
  /\ UNCHANGED <<sources, files, pc, ran, attempts>>

(* host-observer.sh is killed, or one of its commands fails. *)
Interrupt ==
  /\ Mishap
  /\ pc # "idle" /\ pc' = "idle"
  /\ UNCHANGED <<sources, files, timer, ran, attempts>>

(* A restart empties /run. *)
Reboot ==
  /\ Mishap
  /\ hostFile' = FALSE /\ backupFile' = None /\ offsiteFile' = None
  /\ pc' = "idle"
  /\ UNCHANGED <<sources, timer, ran, attempts>>

(* A fault for the runs to find: the copies hold ages instead of times. *)
TickFrozenCopies ==
  /\ pc = "idle" /\ (timer => ran)
  /\ ran' = FALSE
  /\ local' = [local EXCEPT !.success = Older(@)]
  /\ offsite' = [offsite EXCEPT !.success = Older(@), !.attempt = Older(@)]
  /\ UNCHANGED <<unitsOk, files, timer, pc, attempts, mishaps>>

(* The timer fires every minute: no hour passes without a run. *)
Tick ==
  /\ pc = "idle" /\ (timer => ran)
  /\ ran' = FALSE
  /\ local' = [local EXCEPT !.success = Older(@)]
  /\ offsite' = [offsite EXCEPT !.success = Older(@), !.attempt = Older(@)]
  /\ backupFile' = IF backupFile = None THEN None ELSE [backupFile EXCEPT !.success = Older(@)]
  /\ offsiteFile' = IF offsiteFile.file # "ok" THEN offsiteFile
                    ELSE [offsiteFile EXCEPT !.success = Older(@), !.attempt = Older(@)]
  /\ UNCHANGED <<unitsOk, hostFile, timer, pc, attempts, mishaps>>

------------------------------------------------------------------------------
(* host-observer.sh, under set -e *)

(* df of the local status file: when it is missing nothing is written. *)
PublishHost ==
  /\ pc = "idle" /\ timer /\ ~ran
  /\ ran' = TRUE
  /\ IF local.file = "missing" THEN UNCHANGED <<hostFile, pc>>
     ELSE hostFile' = TRUE /\ pc' = "backup"
  /\ UNCHANGED <<sources, backupFile, offsiteFile, timer, attempts, mishaps>>

(* A fault for the runs to find: the status is copied as it is. *)
PublishUnvalidated ==
  /\ pc = "backup"
  /\ backupFile' = local /\ pc' = "offsite"
  /\ UNCHANGED <<sources, hostFile, offsiteFile, timer, ran, attempts, mishaps>>

(* backup-status-boundary.py: what it refuses ends the script. *)
PublishBackup ==
  /\ pc = "backup"
  /\ IF local.file = "ok"
     THEN backupFile' = local /\ pc' = "offsite"
     ELSE UNCHANGED backupFile /\ pc' = "idle"
  /\ UNCHANGED <<sources, hostFile, offsiteFile, timer, ran, attempts, mishaps>>

OffsitePayload ==
  IF offsite.file # "ok" THEN [file |-> "unavailable"]
  ELSE [file |-> "ok", status |-> offsite.status, verified |-> offsite.verified,
        success |-> offsite.success, attempt |-> offsite.attempt, unitsOk |-> unitsOk]

(* offsite-status-boundary.py: what it refuses is published as unavailable. *)
PublishOffsite ==
  /\ pc = "offsite"
  /\ offsiteFile' = OffsitePayload
  /\ pc' = "idle"
  /\ UNCHANGED <<sources, hostFile, backupFile, timer, ran, attempts, mishaps>>

Job == LocalBackup \/ OffsiteUpload \/ OffsiteFinalize
Helper == PublishHost \/ PublishBackup \/ PublishOffsite

Next == Job \/ Helper \/ Tick \/ Corrupt \/ SwitchTimer \/ Interrupt \/ Reboot

(* Time passes, the timer fires while it is active, and the script ends. *)
Fairness == WF_vars(Tick) /\ WF_vars(Helper)

Spec == Init /\ [][Next]_vars
FairSpec == Spec /\ Fairness

------------------------------------------------------------------------------
(* What the backend makes of the copies *)

classify_age(age) ==
  IF age > CritAge THEN "CRITICAL" ELSE IF age > WarnAge THEN "WARNING" ELSE "HEALTHY"

backup_probe ==
  IF backupFile.file # "ok" THEN {"UNKNOWN"}
  ELSE {IF backupFile.status = "success" THEN "HEALTHY" ELSE "WARNING",
        IF backupFile.checksum THEN "HEALTHY" ELSE "CRITICAL",
        classify_age(backupFile.success)}

ValidPending == offsiteFile.status = "pending" /\ offsiteFile.attempt <= PendingLimit

CriticalReason ==
  \/ offsiteFile.file # "ok"
  \/ ~offsiteFile.verified
  \/ ~offsiteFile.unitsOk
  \/ ~ValidPending /\ offsiteFile.status # "success"

(* A fault for the runs to find: the grace of a pending upload goes before *)
(* the age of the last success.                                            *)
PendingFirst ==
  IF CriticalReason THEN "CRITICAL"
  ELSE IF ValidPending THEN "HEALTHY" ELSE classify_age(offsiteFile.success)

offsite_health ==
  IF CriticalReason THEN "CRITICAL" ELSE classify_age(offsiteFile.success)

Backups == worst_state(backup_probe \cup {offsite_health})

------------------------------------------------------------------------------

TypeOK ==
  /\ local \in LocalFiles /\ offsite \in OffsiteFiles
  /\ unitsOk \in BOOLEAN /\ hostFile \in BOOLEAN
  /\ backupFile \in {f \in LocalFiles : f.file = "ok"} \cup {None}
  /\ offsiteFile \in OffsiteCopies \cup {None}
  /\ timer \in BOOLEAN /\ ran \in BOOLEAN
  /\ pc \in {"idle", "backup", "offsite"}
  /\ attempts \in 0 .. MaxAttempts /\ mishaps \in 0 .. MaxMishaps

(* Whatever stopped between the jobs and the observer, and however old the *)
(* copies are: the backups are shown HEALTHY only when both last succeeded *)
(* no longer than WarnAge ago; a last local success older than CritAge     *)
(* makes them UNKNOWN at best, a last offsite one older than that CRITICAL.*)
BackupsNotFlattered ==
  /\ Backups = "HEALTHY" => local.success <= WarnAge /\ offsite.success <= WarnAge
  /\ local.success > CritAge => AtLeast(Backups, "UNKNOWN")
  /\ offsite.success > CritAge => Backups = "CRITICAL"

(* A job that failed, an upload the provider never verifies or a service   *)
(* that is down does not stay hidden, also when host-observer.sh no longer *)
(* runs or stops half way: the copies grow too old.                        *)
Unwell ==
  \/ local.file = "ok" /\ (local.status = "failed" \/ ~local.checksum)
  \/ offsite.file = "ok" /\ (offsite.status # "success" \/ ~offsite.verified)
  \/ ~unitsOk
FailureNoticed == <>[]Unwell => <>[](Backups # "HEALTHY")

(* docs/OBSERVABILITY-CONTRACT.md of the offsite status: "Een ontbrekend of *)
(* ongeldig statusbestand publiceert status_unavailable en faalt gesloten   *)
(* naar CRITICAL".  An invalid local status ends the script before it.      *)
OffsiteFailsClosed ==
  [][pc # "idle" /\ pc' = "idle" /\ mishaps' = mishaps /\ offsite.file = "invalid"
       => offsite_health' = "CRITICAL"]_vars

==============================================================================
