--------------------------- MODULE SecretRotation ---------------------------
(***************************************************************************)
(* deploy/rotate-collector-secret.sh: the secret of the collector is in    *)
(* three places, .env.deploy, the hash in the database and the environment *)
(* of the running container, and the script changes them one after the     *)
(* other.  A command that fails runs rollback (trap ERR).  A signal runs   *)
(* cleanup (trap HUP INT TERM), which removes the backup and unsets the    *)
(* script's variables but does not end the script: it goes on until it     *)
(* needs one of them (set -u).  deploy/deploy.sh seeds the database with   *)
(* the secret of .env.deploy and starts the containers with it.  One       *)
(* person runs one of the two scripts at a time.                           *)
(***************************************************************************)
EXTENDS Naturals

CONSTANTS
  MaxRotations,   \* bound: how often the script is started
  MaxMishaps,     \* bound: commands that fail, answers lost, signals, crashes
  Mishaps         \* which of them happen

ASSUME RotationAssumption ==
  /\ MaxRotations \in Nat \ {0}
  /\ MaxMishaps \in Nat
  /\ Mishaps \subseteq {"fail", "lost", "signal", "crash"}

VARIABLES
  envFile,      \* the secret in .env.deploy
  dbHash,       \* the secret whose hash the row of the collector holds
  collector,    \* the secret of the collector's container, or Down
  backendUp,    \* the backend's container runs, so that exec works
  pc,           \* the next command of the script that runs, or "idle"
  script,       \* its variables
  fresh,        \* the next secret openssl will make
  outcome,      \* how the last script ended
  before,       \* .env.deploy and the hash when the last script began
  causes,       \* what went wrong, beyond a command that is undone, since all agreed
  mishaps       \* how many mishaps there were

deployment == <<envFile, dbHash, collector, backendUp>>
vars == <<envFile, dbHash, collector, backendUp, pc, script, fresh, outcome,
          before, causes, mishaps>>

Secrets == 1 .. MaxRotations + 1
Down == 0

(* ids: environment_id, collector_id and old_secret are set; hasNew: so is *)
(* new_secret; backup: the backup and the temporary file are on disk.      *)
Memory == [old : Secrets, new : Secrets, ids : BOOLEAN, hasNew : BOOLEAN,
           backup : BOOLEAN, envUpdated : BOOLEAN, dbRotated : BOOLEAN]

(* A fault for the runs to find: variables that are unset are read as empty. *)
MemoryEmptied == [old |-> 0, new |-> 0, ids |-> FALSE, hasNew |-> FALSE,
                  backup |-> FALSE, envUpdated |-> FALSE, dbRotated |-> FALSE]

NoMemory == [old |-> 1, new |-> 1, ids |-> FALSE, hasNew |-> FALSE,
             backup |-> FALSE, envUpdated |-> FALSE, dbRotated |-> FALSE]

(* What the script notes, and what cleanup leaves of it. *)
Begun(m, secret) == [m EXCEPT !.old = secret, !.ids = TRUE]
Generated(m, secret) == [m EXCEPT !.new = secret, !.hasNew = TRUE, !.backup = TRUE]
EnvNoted(m, updated) == [m EXCEPT !.envUpdated = updated]
DbNoted(m, rotated) == [m EXCEPT !.dbRotated = rotated]
cleanup(m) == [m EXCEPT !.ids = FALSE, !.hasNew = FALSE, !.backup = FALSE]

Forward == {"ps", "verify_old", "generate", "write", "rotate", "backend",
            "collector", "verify_new", "verify_gone"}
Undoing == {"undo_env", "undo_backend", "undo_db", "undo_collector"}

Agreed == dbHash = envFile /\ collector = envFile

Init ==
  /\ envFile = 1 /\ dbHash = 1 /\ collector = 1 /\ backendUp = TRUE
  /\ pc = "idle" /\ script = NoMemory /\ fresh = 2
  /\ outcome = "none" /\ before = [env |-> 1, db |-> 1]
  /\ causes = {} /\ mishaps = 0

------------------------------------------------------------------------------

Mishap(kind) ==
  /\ kind \in Mishaps
  /\ mishaps < MaxMishaps
  /\ mishaps' = mishaps + 1

(* trap cleanup EXIT: the script ends. *)
Exit(result) ==
  /\ pc' = "idle" /\ script' = NoMemory /\ outcome' = result
  /\ causes' = IF dbHash' = envFile' /\ collector' = envFile' THEN {} ELSE causes
  /\ UNCHANGED <<fresh, before>>

Goto(label) == pc' = label /\ UNCHANGED <<fresh, outcome, before, causes>>

(* trap rollback ERR *)
Rollback == Goto("undo_env") /\ UNCHANGED <<script, deployment>>

(* A command that fails before it changes anything. *)
FailsAt(label) == pc = label /\ Mishap("fail") /\ Rollback

(* An unset variable ends the script without rollback. *)
Unbound == UNCHANGED <<deployment, mishaps>> /\ Exit("unbound")

Start ==
  /\ pc = "idle" /\ fresh \in Secrets
  /\ script' = Begun(NoMemory, envFile)
  /\ pc' = "ps" /\ outcome' = "none"
  /\ before' = [env |-> envFile, db |-> dbHash]
  /\ UNCHANGED <<deployment, fresh, causes, mishaps>>

CheckBackend ==
  /\ pc = "ps"
  /\ IF backendUp THEN Goto("verify_old") /\ UNCHANGED <<script, deployment>>
     ELSE Rollback
  /\ UNCHANGED mishaps

(* credential_is_valid: exec in the backend, the hash compared. *)
Accepts(secret) == backendUp /\ dbHash = secret

VerifyOld ==
  /\ pc = "verify_old"
  /\ \/ ~script.ids /\ Unbound
     \/ /\ script.ids
        /\ IF Accepts(script.old)
           THEN Goto("generate") /\ UNCHANGED <<script, deployment>>
           ELSE Rollback
        /\ UNCHANGED mishaps

Generate ==
  /\ pc = "generate"
  /\ pc' = "write" /\ fresh' = fresh + 1
  /\ script' = Generated(script, fresh)
  /\ UNCHANGED <<deployment, outcome, before, causes, mishaps>>

(* write_secret: mv replaces .env.deploy at once, and chmod sets its mode. *)
WriteSecret ==
  /\ pc = "write"
  /\ \/ ~script.hasNew /\ Unbound
     \/ /\ script.hasNew
        /\ envFile' = script.new
        /\ script' = EnvNoted(script, TRUE)
        /\ Goto("rotate")
        /\ UNCHANGED <<dbHash, collector, backendUp, mishaps>>

(* chmod fails after the mv: .env.deploy has the new secret, env_updated is *)
(* still false, and rollback leaves the file as it is.                      *)
ChmodFails ==
  /\ pc = "write" /\ script.hasNew
  /\ Mishap("fail")
  /\ envFile' = script.new
  /\ pc' = "undo_env" /\ causes' = causes \cup {"chmod"}
  /\ UNCHANGED <<dbHash, collector, backendUp, script, fresh, outcome, before>>

(* A signal between mktemp and mv removes the temporary file: mv fails. *)
WriteInterrupted ==
  /\ pc = "write" /\ script.hasNew
  /\ Mishap("signal")
  /\ script' = cleanup(script)
  /\ pc' = "undo_env" /\ causes' = causes \cup {"signal"}
  /\ UNCHANGED <<deployment, fresh, outcome, before>>

(* rotate_database_secret: the row is taken only with the current secret, *)
(* and the two differ.                                                    *)
Rotate ==
  /\ pc = "rotate"
  /\ \/ ~script.ids /\ Unbound
     \/ /\ script.ids
        /\ IF Accepts(script.old)
           THEN /\ dbHash' = script.new
                /\ script' = DbNoted(script, TRUE)
                /\ Goto("backend")
                /\ UNCHANGED <<envFile, collector, backendUp>>
           ELSE Rollback
        /\ UNCHANGED mishaps

(* The commit stands, the answer of exec is lost: db_rotated stays false. *)
RotateLost ==
  /\ pc = "rotate" /\ script.ids /\ Accepts(script.old)
  /\ Mishap("lost")
  /\ dbHash' = script.new
  /\ pc' = "undo_env" /\ causes' = causes \cup {"lost"}
  /\ UNCHANGED <<envFile, collector, backendUp, script, fresh, outcome, before>>

(* A container that up should recreate and did not, or not to the end, is  *)
(* the one it was, gone, or the new one.                                   *)
CollectorHalfWay == collector' \in {collector, envFile, Down}
BackendHalfWay == backendUp' \in BOOLEAN

(* up -d --wait --force-recreate *)
RecreateBackend ==
  /\ pc = "backend"
  /\ \/ /\ backendUp' = TRUE
        /\ Goto("collector") /\ UNCHANGED mishaps
     \/ /\ Mishap("fail")
        /\ BackendHalfWay
        /\ Goto("undo_env")
  /\ UNCHANGED <<envFile, dbHash, collector, script>>

(* A fault for the runs to find: up without --force-recreate. *)
RecreateChangedCollector ==
  /\ pc = "collector"
  /\ Goto("verify_new")
  /\ UNCHANGED <<deployment, script, mishaps>>

RecreateCollector ==
  /\ pc = "collector"
  /\ \/ /\ collector' = envFile
        /\ Goto("verify_new") /\ UNCHANGED mishaps
     \/ /\ Mishap("fail")
        /\ CollectorHalfWay
        /\ Goto("undo_env")
  /\ UNCHANGED <<envFile, dbHash, backendUp, script>>

VerifyNew ==
  /\ pc = "verify_new"
  /\ \/ ~(script.ids /\ script.hasNew) /\ Unbound
     \/ /\ script.ids /\ script.hasNew
        /\ IF Accepts(script.new)
           THEN Goto("verify_gone") /\ UNCHANGED <<script, deployment>>
           ELSE Rollback
        /\ UNCHANGED mishaps

(* The old credential has to be refused; an exec that fails counts as one. *)
VerifyGone ==
  /\ pc = "verify_gone"
  /\ \/ ~script.ids /\ Unbound
     \/ /\ script.ids
        /\ IF Accepts(script.old) THEN Rollback
           ELSE UNCHANGED deployment /\ Exit("success")
        /\ UNCHANGED mishaps

(* rm of the backup fails when all is done: rollback finds nothing to undo, *)
(* and recreates the collector once more.                                   *)
RemoveFails ==
  /\ pc = "verify_gone" /\ script.ids /\ ~Accepts(script.old)
  /\ Mishap("fail")
  /\ script' = DbNoted(EnvNoted(script, FALSE), FALSE)
  /\ Goto("undo_env")
  /\ UNCHANGED deployment

(* One of the other commands fails, write_secret up to its mv. *)
Fails == \E label \in {"ps", "verify_old", "generate", "write", "rotate", "verify_new"} :
           FailsAt(label) /\ (label = "write" => script.hasNew)
                          /\ (label \in {"verify_old", "rotate", "verify_new"} => script.ids)

------------------------------------------------------------------------------
(* rollback: set +e, so that every step is tried whatever the last one did *)

(* A fault for the runs to find: the database is not set back. *)
UndoEnvOnly ==
  /\ pc = "undo_env"
  /\ envFile' = IF script.envUpdated /\ script.backup THEN before.env ELSE envFile
  /\ script' = EnvNoted(script, FALSE)
  /\ Goto("undo_collector")
  /\ UNCHANGED <<dbHash, collector, backendUp, mishaps>>

(* cp of the backup, when it is still there.  When that fails the file is  *)
(* as it was.  (A cp that stops half way leaves a file no script accepts:  *)
(* not modelled.)                                                          *)
UndoEnv ==
  /\ pc = "undo_env"
  /\ \/ /\ envFile' = IF script.envUpdated /\ script.backup THEN before.env ELSE envFile
        /\ UNCHANGED <<causes, mishaps>>
     \/ /\ script.envUpdated /\ Mishap("fail")
        /\ causes' = causes \cup {"undo"}
        /\ UNCHANGED envFile
  /\ script' = EnvNoted(script, FALSE)
  /\ pc' = IF script.dbRotated THEN "undo_backend" ELSE "undo_collector"
  /\ UNCHANGED <<dbHash, collector, backendUp, fresh, outcome, before>>

UndoBackend ==
  /\ pc = "undo_backend"
  /\ \/ backendUp' = TRUE /\ UNCHANGED <<causes, mishaps>>
     \/ /\ Mishap("fail")
        /\ BackendHalfWay
        /\ causes' = causes \cup {"undo"}
  /\ pc' = "undo_db"
  /\ UNCHANGED <<envFile, dbHash, collector, script, fresh, outcome, before>>

UndoDatabase ==
  /\ pc = "undo_db"
  /\ \/ ~(script.ids /\ script.hasNew) /\ Unbound
     \/ /\ script.ids /\ script.hasNew
        /\ \/ /\ dbHash' = IF Accepts(script.new) THEN script.old ELSE dbHash
              /\ UNCHANGED <<causes, mishaps>>
           \/ /\ Mishap("fail")
              /\ causes' = causes \cup {"undo"}
              /\ UNCHANGED dbHash
        /\ script' = DbNoted(script, FALSE)
        /\ pc' = "undo_collector"
        /\ UNCHANGED <<envFile, collector, backendUp, fresh, outcome, before>>

UndoCollector ==
  /\ pc = "undo_collector"
  /\ collector' = envFile
  /\ UNCHANGED <<envFile, dbHash, backendUp, mishaps>>
  /\ Exit("failed")

UndoCollectorFails ==
  /\ pc = "undo_collector"
  /\ Mishap("fail")
  /\ CollectorHalfWay
  /\ pc' = "idle" /\ script' = NoMemory /\ outcome' = "failed"
  /\ causes' = causes \cup {"undo"}
  /\ UNCHANGED <<envFile, dbHash, backendUp, fresh, before>>

(* trap cleanup HUP INT TERM: the script goes on after it. *)
Signal ==
  /\ pc \in Forward \cup Undoing
  /\ script.ids \/ script.hasNew
  /\ Mishap("signal")
  /\ script' = cleanup(script)
  /\ causes' = causes \cup {"signal"}
  /\ UNCHANGED <<deployment, pc, fresh, outcome, before>>

(* The script is killed, or the machine restarts. *)
Crash ==
  /\ pc # "idle"
  /\ Mishap("crash")
  /\ pc' = "idle" /\ script' = NoMemory /\ outcome' = "killed"
  /\ causes' = causes \cup {"crash"}
  /\ IF pc \in {"collector", "undo_collector", "deploy"} THEN CollectorHalfWay
     ELSE UNCHANGED collector
  /\ IF pc \in {"backend", "undo_backend", "deploy"} THEN BackendHalfWay
     ELSE UNCHANGED backendUp
  /\ UNCHANGED <<envFile, dbHash, fresh, before>>

------------------------------------------------------------------------------
(* deploy.sh: seed-monitoring, then up -d *)

(* A fault for the runs to find: a collector that is known keeps its hash. *)
DeploySeedOnce ==
  /\ pc = "idle"
  /\ pc' = "deploy" /\ outcome' = "none"
  /\ before' = [env |-> envFile, db |-> dbHash]
  /\ UNCHANGED <<deployment, script, fresh, causes, mishaps>>

DeploySeed ==
  /\ pc = "idle"
  /\ dbHash' = envFile
  /\ pc' = "deploy" /\ outcome' = "none"
  /\ before' = [env |-> envFile, db |-> dbHash]
  /\ UNCHANGED <<envFile, collector, backendUp, script, fresh, causes, mishaps>>

DeployUp ==
  /\ pc = "deploy"
  /\ collector' = envFile /\ backendUp' = TRUE
  /\ UNCHANGED <<envFile, dbHash, mishaps>>
  /\ Exit("deployed")

(* A command after the seed fails: up may have recreated some containers. *)
DeployFails ==
  /\ pc = "deploy"
  /\ Mishap("fail")
  /\ CollectorHalfWay /\ BackendHalfWay
  /\ pc' = "idle"
  /\ causes' = causes \cup {"deploy"}
  /\ UNCHANGED <<envFile, dbHash, script, fresh, outcome, before>>

Step ==
  \/ CheckBackend \/ VerifyOld \/ Generate \/ WriteSecret \/ Rotate
  \/ RecreateBackend \/ RecreateCollector \/ VerifyNew \/ VerifyGone
  \/ UndoEnv \/ UndoBackend \/ UndoDatabase \/ UndoCollector \/ DeployUp

Accident ==
  \/ Fails \/ ChmodFails \/ WriteInterrupted \/ RotateLost \/ RemoveFails
  \/ UndoCollectorFails
  \/ Signal \/ Crash \/ DeployFails

Next == Start \/ DeploySeed \/ Step \/ Accident

Spec == Init /\ [][Next]_vars

------------------------------------------------------------------------------

TypeOK ==
  /\ envFile \in Secrets /\ dbHash \in Secrets
  /\ collector \in Secrets \cup {Down}
  /\ backendUp \in BOOLEAN
  /\ pc \in Forward \cup Undoing \cup {"idle", "deploy"}
  /\ script \in Memory
  /\ fresh \in 2 .. MaxRotations + 2
  /\ outcome \in {"none", "success", "failed", "unbound", "killed", "deployed"}
  /\ before \in [env : Secrets, db : Secrets]
  /\ causes \subseteq {"chmod", "lost", "signal", "crash", "undo", "deploy"}
  /\ mishaps \in 0 .. MaxMishaps

(* A rotation that says it succeeded leaves the file, the hash and the     *)
(* container with the new secret, whatever went wrong before and even when *)
(* a signal came after the last variable was needed.                       *)
SuccessMeansAgreed ==
  outcome = "success" => Agreed /\ envFile # before.env

(* A command that fails is undone: while no script runs, the three agree   *)
(* unless the chmod of the new .env.deploy failed, a signal or a crash cut *)
(* a script short, an answer was lost after its commit, or a step of a     *)
(* rollback or of a deployment failed as well.  The chmod is the one       *)
(* command whose failure alone is not undone, though docs/DEPLOYMENT.md    *)
(* says that after an error file and hash are set back: rollback skips the *)
(* file, and gives the collector the secret the hash does not have.        *)
FailureUndone == pc = "idle" /\ causes = {} => Agreed

(* A deployment that ends well repairs what a rotation left: the collector *)
(* is heard again.                                                         *)
DeployRepairs == outcome = "deployed" => Agreed /\ backendUp

==============================================================================
