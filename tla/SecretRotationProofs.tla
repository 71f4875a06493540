------------------------- MODULE SecretRotationProofs -------------------------
(***************************************************************************)
(* Proofs about SecretRotation, for any number of rotations and mishaps    *)
(* and any kinds of them.                                                  *)
(***************************************************************************)
EXTENDS SecretRotation, TLAPS

USE RotationAssumption

Written   == {"rotate", "backend", "collector", "verify_new", "verify_gone"}
Rotated   == Written \ {"rotate"}
Recreated == {"verify_new", "verify_gone"}
Early     == {"ps", "verify_old", "generate", "write"}

(* Secrets are made one after the other and none twice. *)
SecretsFresh ==
  /\ envFile < fresh /\ before.env < fresh
  /\ pc \in {"ps", "verify_old", "generate"} => fresh \in Secrets
  /\ pc \in {"write"} \cup Written => before.env < script.new /\ script.new < fresh

(* How far the new secret got, whatever signals came. *)
Progress ==
  /\ pc \in Written   => envFile = script.new
  /\ pc \in Rotated   => dbHash = script.new
  /\ pc \in Recreated => collector = script.new
  /\ pc = "deploy"    => dbHash = envFile

(* The outcome of a script is about the deployment it left. *)
Results ==
  /\ pc # "idle" => outcome = "none"
  /\ SuccessMeansAgreed
  /\ DeployRepairs

(* While nothing but commands that are undone went wrong, the script knows *)
(* what it has changed and can undo it, or all is done and agrees.         *)
Undoable ==
  causes = {} =>
    /\ pc = "idle" => Agreed
    /\ pc \in Forward \cup Undoing => script.ids /\ script.old = before.env
    /\ pc \in Early => /\ envFile = before.env /\ dbHash = before.env
                       /\ ~script.envUpdated /\ ~script.dbRotated
    /\ pc \in {"write"} \cup Written => script.hasNew /\ script.backup
    /\ pc = "rotate" => /\ dbHash = before.env
                        /\ script.envUpdated /\ ~script.dbRotated
    /\ pc \in Rotated => script.envUpdated /\ script.dbRotated
    /\ pc = "undo_env" =>
         \/ ~script.envUpdated /\ ~script.dbRotated /\ dbHash = envFile
         \/ /\ IF script.envUpdated THEN script.backup ELSE envFile = before.env
            /\ IF script.dbRotated THEN script.hasNew /\ dbHash = script.new
               ELSE dbHash = before.env
    /\ pc \in {"undo_backend", "undo_db"} =>
         envFile = before.env /\ script.hasNew /\ dbHash = script.new
    /\ pc = "undo_db" => backendUp
    /\ pc = "undo_collector" => dbHash = envFile

Inv == TypeOK /\ SecretsFresh /\ Progress /\ Results /\ Undoable

(* The variables of the script, as it sets and unsets them. *)
LEMMA MemoryFields ==
  ASSUME NEW m \in Memory
  PROVE  /\ m.old \in Secrets /\ m.new \in Secrets
         /\ m.ids \in BOOLEAN /\ m.hasNew \in BOOLEAN /\ m.backup \in BOOLEAN
         /\ m.envUpdated \in BOOLEAN /\ m.dbRotated \in BOOLEAN
  BY DEF Memory

(* Before a script runs nothing is set. *)
LEMMA NothingRemembered ==
  /\ NoMemory \in Memory
  /\ ~NoMemory.ids /\ ~NoMemory.hasNew /\ ~NoMemory.backup
  /\ ~NoMemory.envUpdated /\ ~NoMemory.dbRotated
<1>1. 1 \in Secrets
  BY DEF Secrets
<1>2. NoMemory = [old |-> 1, new |-> 1, ids |-> FALSE, hasNew |-> FALSE, backup |-> FALSE,
                  envUpdated |-> FALSE, dbRotated |-> FALSE]
  BY DEF NoMemory
<1> QED
  BY <1>1, <1>2 DEF Memory

(* What each assignment of the script changes of its variables, and what it *)
(* leaves alone: reading the current secret,                                *)
LEMMA BegunFields ==
  ASSUME NEW b \in Memory, NEW s \in Secrets
  PROVE  LET m == Begun(b, s)
         IN  /\ m \in Memory
             /\ m.old = s /\ m.ids = TRUE /\ m.new = b.new
             /\ m.hasNew = b.hasNew /\ m.backup = b.backup
             /\ m.envUpdated = b.envUpdated /\ m.dbRotated = b.dbRotated
  BY DEF Begun, Memory

(* making the new one and the backup, *)
LEMMA GeneratedFields ==
  ASSUME NEW b \in Memory, NEW s \in Secrets
  PROVE  LET m == Generated(b, s)
         IN  /\ m \in Memory
             /\ m.new = s /\ m.hasNew = TRUE /\ m.backup = TRUE
             /\ m.old = b.old /\ m.ids = b.ids
             /\ m.envUpdated = b.envUpdated /\ m.dbRotated = b.dbRotated
  BY DEF Generated, Memory

(* cleanup, *)
LEMMA CleanedFields ==
  ASSUME NEW b \in Memory
  PROVE  LET m == cleanup(b)
         IN  /\ m \in Memory
             /\ m.ids = FALSE /\ m.hasNew = FALSE /\ m.backup = FALSE
             /\ m.old = b.old /\ m.new = b.new
             /\ m.envUpdated = b.envUpdated /\ m.dbRotated = b.dbRotated
  BY DEF cleanup, Memory

(* env_updated, *)
LEMMA EnvNotedFields ==
  ASSUME NEW b \in Memory, NEW v \in BOOLEAN
  PROVE  LET m == EnvNoted(b, v)
         IN  /\ m \in Memory
             /\ m.envUpdated = v /\ m.dbRotated = b.dbRotated
             /\ m.old = b.old /\ m.new = b.new
             /\ m.ids = b.ids /\ m.hasNew = b.hasNew /\ m.backup = b.backup
  BY DEF EnvNoted, Memory

(* and db_rotated. *)
LEMMA DbNotedFields ==
  ASSUME NEW b \in Memory, NEW v \in BOOLEAN
  PROVE  LET m == DbNoted(b, v)
         IN  /\ m \in Memory
             /\ m.dbRotated = v /\ m.envUpdated = b.envUpdated
             /\ m.old = b.old /\ m.new = b.new
             /\ m.ids = b.ids /\ m.hasNew = b.hasNew /\ m.backup = b.backup
  BY DEF DbNoted, Memory

(* The first deployment agrees. *)
LEMMA InitInv == Init => Inv
  BY NothingRemembered
     DEF Init, Inv, TypeOK, SecretsFresh, Progress, Results, Undoable, Secrets,
         Written, Rotated, Recreated, Early, Agreed, Forward, Undoing, Down,
         SuccessMeansAgreed, DeployRepairs

(* No command, and no mishap at any of them, breaks the invariant. *)
LEMMA StepInv == Inv /\ [Next]_vars => Inv'
<1> SUFFICES ASSUME Inv, [Next]_vars PROVE Inv'
  OBVIOUS
<1> USE DEF Secrets, Down, Forward, Undoing, Written, Rotated, Recreated, Early,
            deployment, Agreed, CollectorHalfWay, BackendHalfWay
<1>a. TypeOK /\ SecretsFresh /\ Progress /\ Results /\ Undoable
  BY DEF Inv
<1>b. script \in Memory /\ NoMemory \in Memory
  BY <1>a, NothingRemembered DEF TypeOK
<1>c. /\ script.old \in Secrets /\ script.new \in Secrets
      /\ script.ids \in BOOLEAN /\ script.hasNew \in BOOLEAN /\ script.backup \in BOOLEAN
      /\ script.envUpdated \in BOOLEAN /\ script.dbRotated \in BOOLEAN
  BY <1>b, MemoryFields
<1>1. CASE Start
  <2>n. /\ Begun(NoMemory, envFile) \in Memory
        /\ Begun(NoMemory, envFile).old = envFile
        /\ Begun(NoMemory, envFile).ids = TRUE
        /\ Begun(NoMemory, envFile).hasNew = NoMemory.hasNew
        /\ Begun(NoMemory, envFile).backup = NoMemory.backup
        /\ Begun(NoMemory, envFile).envUpdated = NoMemory.envUpdated
        /\ Begun(NoMemory, envFile).dbRotated = NoMemory.dbRotated
    BY <1>a, <1>b, BegunFields DEF TypeOK
  <2>1. TypeOK'
    BY <1>1, <1>a, <1>b, <1>c, NothingRemembered, <2>n DEF Start, TypeOK, SecretsFresh
  <2>2. SecretsFresh'
    BY <1>1, <1>a, <1>b, <1>c, NothingRemembered, <2>n DEF Start, SecretsFresh, TypeOK
  <2>3. Progress'
    BY <1>1, <1>a, <1>b, <1>c, NothingRemembered, <2>n DEF Start, Progress, TypeOK
  <2>4. Results'
    BY <1>1, <1>a, <1>b, <1>c, NothingRemembered, <2>n
       DEF Start, Results, SuccessMeansAgreed, DeployRepairs, TypeOK, Progress,
           SecretsFresh
  <2>5. Undoable'
    BY <1>1, <1>a, <1>b, <1>c, NothingRemembered, <2>n
       DEF Start, Undoable, TypeOK, Progress, SecretsFresh
  <2> QED
    BY <2>1, <2>2, <2>3, <2>4, <2>5 DEF Inv
<1>2. CASE DeploySeed
  <2>1. TypeOK'
    BY <1>2, <1>a, <1>b, <1>c DEF DeploySeed, TypeOK, SecretsFresh
  <2>2. SecretsFresh'
    BY <1>2, <1>a, <1>b, <1>c DEF DeploySeed, SecretsFresh, TypeOK
  <2>3. Progress'
    BY <1>2, <1>a, <1>b, <1>c DEF DeploySeed, Progress, TypeOK
  <2>4. Results'
    BY <1>2, <1>a, <1>b, <1>c
       DEF DeploySeed, Results, SuccessMeansAgreed, DeployRepairs, TypeOK, Progress,
           SecretsFresh
  <2>5. Undoable'
    BY <1>2, <1>a, <1>b, <1>c DEF DeploySeed, Undoable, TypeOK, Progress, SecretsFresh
  <2> QED
    BY <2>1, <2>2, <2>3, <2>4, <2>5 DEF Inv
<1>3. CASE CheckBackend
  <2>1. TypeOK'
    BY <1>3, <1>a, <1>b, <1>c DEF CheckBackend, Rollback, Goto, TypeOK, SecretsFresh
  <2>2. SecretsFresh'
    BY <1>3, <1>a, <1>b, <1>c DEF CheckBackend, Rollback, Goto, SecretsFresh, TypeOK
  <2>3. Progress'
    BY <1>3, <1>a, <1>b, <1>c DEF CheckBackend, Rollback, Goto, Progress, TypeOK
  <2>4. Results'
    BY <1>3, <1>a, <1>b, <1>c
       DEF CheckBackend, Rollback, Goto, Results, SuccessMeansAgreed, DeployRepairs,
           TypeOK, Progress, SecretsFresh
  <2>5. Undoable'
    BY <1>3, <1>a, <1>b, <1>c
       DEF CheckBackend, Rollback, Goto, Undoable, TypeOK, Progress, SecretsFresh
  <2> QED
    BY <2>1, <2>2, <2>3, <2>4, <2>5 DEF Inv
<1>4. CASE VerifyOld
  <2>1. TypeOK'
    BY <1>4, <1>a, <1>b, <1>c, NothingRemembered
       DEF VerifyOld, Rollback, Goto, Unbound, Exit, TypeOK, SecretsFresh
  <2>2. SecretsFresh'
    BY <1>4, <1>a, <1>b, <1>c, NothingRemembered
       DEF VerifyOld, Rollback, Goto, Unbound, Exit, SecretsFresh, TypeOK
  <2>3. Progress'
    BY <1>4, <1>a, <1>b, <1>c, NothingRemembered
       DEF VerifyOld, Rollback, Goto, Unbound, Exit, Progress, TypeOK
  <2>4. Results'
    BY <1>4, <1>a, <1>b, <1>c, NothingRemembered
       DEF VerifyOld, Rollback, Goto, Unbound, Exit, Results, SuccessMeansAgreed,
           DeployRepairs, TypeOK, Progress, SecretsFresh
  <2>5. Undoable'
    BY <1>4, <1>a, <1>b, <1>c, NothingRemembered
       DEF VerifyOld, Rollback, Goto, Unbound, Exit, Undoable, TypeOK, Progress,
           SecretsFresh
  <2> QED
    BY <2>1, <2>2, <2>3, <2>4, <2>5 DEF Inv
<1>5. CASE Generate
  <2>g. fresh \in Secrets
    BY <1>5, <1>a DEF Generate, SecretsFresh
  <2>n. /\ Generated(script, fresh) \in Memory
        /\ Generated(script, fresh).old = script.old
        /\ Generated(script, fresh).new = fresh
        /\ Generated(script, fresh).ids = script.ids
        /\ Generated(script, fresh).hasNew = TRUE
        /\ Generated(script, fresh).backup = TRUE
        /\ Generated(script, fresh).envUpdated = script.envUpdated
        /\ Generated(script, fresh).dbRotated = script.dbRotated
    BY <1>b, <2>g, GeneratedFields
  <2>1. TypeOK'
    BY <1>5, <1>a, <1>b, <1>c, <2>n, <2>g DEF Generate, TypeOK, SecretsFresh
  <2>2. SecretsFresh'
    BY <1>5, <1>a, <1>b, <1>c, <2>n, <2>g DEF Generate, SecretsFresh, TypeOK
  <2>3. Progress'
    BY <1>5, <1>a, <1>b, <1>c, <2>n, <2>g DEF Generate, Progress, TypeOK
  <2>4. Results'
    BY <1>5, <1>a, <1>b, <1>c, <2>n, <2>g
       DEF Generate, Results, SuccessMeansAgreed, DeployRepairs, TypeOK, Progress,
           SecretsFresh
  <2>5. Undoable'
    BY <1>5, <1>a, <1>b, <1>c, <2>n, <2>g
       DEF Generate, Undoable, TypeOK, Progress, SecretsFresh
  <2> QED
    BY <2>1, <2>2, <2>3, <2>4, <2>5 DEF Inv
<1>6. CASE WriteSecret
  <2>n. /\ EnvNoted(script, TRUE) \in Memory
        /\ EnvNoted(script, TRUE).old = script.old
        /\ EnvNoted(script, TRUE).new = script.new
        /\ EnvNoted(script, TRUE).ids = script.ids
        /\ EnvNoted(script, TRUE).hasNew = script.hasNew
        /\ EnvNoted(script, TRUE).backup = script.backup
        /\ EnvNoted(script, TRUE).envUpdated = TRUE
        /\ EnvNoted(script, TRUE).dbRotated = script.dbRotated
    BY <1>b, EnvNotedFields
  <2>1. TypeOK'
    BY <1>6, <1>a, <1>b, <1>c, NothingRemembered, <2>n
       DEF WriteSecret, Goto, Unbound, Exit, TypeOK, SecretsFresh
  <2>2. SecretsFresh'
    BY <1>6, <1>a, <1>b, <1>c, NothingRemembered, <2>n
       DEF WriteSecret, Goto, Unbound, Exit, SecretsFresh, TypeOK
  <2>3. Progress'
    BY <1>6, <1>a, <1>b, <1>c, NothingRemembered, <2>n
       DEF WriteSecret, Goto, Unbound, Exit, Progress, TypeOK
  <2>4. Results'
    BY <1>6, <1>a, <1>b, <1>c, NothingRemembered, <2>n
       DEF WriteSecret, Goto, Unbound, Exit, Results, SuccessMeansAgreed, DeployRepairs,
           TypeOK, Progress, SecretsFresh
  <2>5. Undoable'
    BY <1>6, <1>a, <1>b, <1>c, NothingRemembered, <2>n
       DEF WriteSecret, Goto, Unbound, Exit, Undoable, TypeOK, Progress, SecretsFresh
  <2> QED
    BY <2>1, <2>2, <2>3, <2>4, <2>5 DEF Inv
<1>7. CASE Rotate
  <2>n. /\ DbNoted(script, TRUE) \in Memory
        /\ DbNoted(script, TRUE).old = script.old
        /\ DbNoted(script, TRUE).new = script.new
        /\ DbNoted(script, TRUE).ids = script.ids
        /\ DbNoted(script, TRUE).hasNew = script.hasNew
        /\ DbNoted(script, TRUE).backup = script.backup
        /\ DbNoted(script, TRUE).envUpdated = script.envUpdated
        /\ DbNoted(script, TRUE).dbRotated = TRUE
    BY <1>b, DbNotedFields
  <2>1. TypeOK'
    BY <1>7, <1>a, <1>b, <1>c, NothingRemembered, <2>n
       DEF Rotate, Rollback, Goto, Unbound, Exit, Accepts, TypeOK, SecretsFresh
  <2>2. SecretsFresh'
    BY <1>7, <1>a, <1>b, <1>c, NothingRemembered, <2>n
       DEF Rotate, Rollback, Goto, Unbound, Exit, Accepts, SecretsFresh, TypeOK
  <2>3. Progress'
    BY <1>7, <1>a, <1>b, <1>c, NothingRemembered, <2>n
       DEF Rotate, Rollback, Goto, Unbound, Exit, Accepts, Progress, TypeOK
  <2>4. Results'
    BY <1>7, <1>a, <1>b, <1>c, NothingRemembered, <2>n
       DEF Rotate, Rollback, Goto, Unbound, Exit, Accepts, Results, SuccessMeansAgreed,
           DeployRepairs, TypeOK, Progress, SecretsFresh
  <2>5. Undoable'
    BY <1>7, <1>a, <1>b, <1>c, NothingRemembered, <2>n
       DEF Rotate, Rollback, Goto, Unbound, Exit, Accepts, Undoable, TypeOK, Progress,
           SecretsFresh
  <2> QED
    BY <2>1, <2>2, <2>3, <2>4, <2>5 DEF Inv
<1>8. CASE RecreateBackend
  <2>k. mishaps' = mishaps \/ (mishaps < MaxMishaps /\ mishaps' = mishaps + 1)
    BY <1>8 DEF RecreateBackend, Goto, Mishap
  <2>m. mishaps' \in 0 .. MaxMishaps
    BY <2>k, <1>a DEF TypeOK
  <2>1. TypeOK'
    BY <1>8, <1>a, <1>b, <1>c, <2>m DEF RecreateBackend, Goto, Mishap, TypeOK, SecretsFresh
  <2>2. SecretsFresh'
    BY <1>8, <1>a, <1>b, <1>c DEF RecreateBackend, Goto, Mishap, SecretsFresh, TypeOK
  <2>3. Progress'
    BY <1>8, <1>a, <1>b, <1>c DEF RecreateBackend, Goto, Mishap, Progress, TypeOK
  <2>4. Results'
    BY <1>8, <1>a, <1>b, <1>c
       DEF RecreateBackend, Goto, Mishap, Results, SuccessMeansAgreed, DeployRepairs,
           TypeOK, Progress, SecretsFresh
  <2>5. Undoable'
    BY <1>8, <1>a, <1>b, <1>c
       DEF RecreateBackend, Goto, Mishap, Undoable, TypeOK, Progress, SecretsFresh
  <2> QED
    BY <2>1, <2>2, <2>3, <2>4, <2>5 DEF Inv
<1>9. CASE RecreateCollector
  <2>k. mishaps' = mishaps \/ (mishaps < MaxMishaps /\ mishaps' = mishaps + 1)
    BY <1>9 DEF RecreateCollector, Goto, Mishap
  <2>m. mishaps' \in 0 .. MaxMishaps
    BY <2>k, <1>a DEF TypeOK
  <2>1. TypeOK'
    BY <1>9, <1>a, <1>b, <1>c, <2>m
       DEF RecreateCollector, Goto, Mishap, TypeOK, SecretsFresh
  <2>2. SecretsFresh'
    BY <1>9, <1>a, <1>b, <1>c DEF RecreateCollector, Goto, Mishap, SecretsFresh, TypeOK
  <2>3. Progress'
    BY <1>9, <1>a, <1>b, <1>c DEF RecreateCollector, Goto, Mishap, Progress, TypeOK
  <2>4. Results'
    BY <1>9, <1>a, <1>b, <1>c
       DEF RecreateCollector, Goto, Mishap, Results, SuccessMeansAgreed, DeployRepairs,
           TypeOK, Progress, SecretsFresh
  <2>5. Undoable'
    BY <1>9, <1>a, <1>b, <1>c
       DEF RecreateCollector, Goto, Mishap, Undoable, TypeOK, Progress, SecretsFresh
  <2> QED
    BY <2>1, <2>2, <2>3, <2>4, <2>5 DEF Inv
<1>10. CASE VerifyNew
  <2>1. TypeOK'
    BY <1>10, <1>a, <1>b, <1>c, NothingRemembered
       DEF VerifyNew, Rollback, Goto, Unbound, Exit, TypeOK, SecretsFresh
  <2>2. SecretsFresh'
    BY <1>10, <1>a, <1>b, <1>c, NothingRemembered
       DEF VerifyNew, Rollback, Goto, Unbound, Exit, SecretsFresh, TypeOK
  <2>3. Progress'
    BY <1>10, <1>a, <1>b, <1>c, NothingRemembered
       DEF VerifyNew, Rollback, Goto, Unbound, Exit, Progress, TypeOK
  <2>4. Results'
    BY <1>10, <1>a, <1>b, <1>c, NothingRemembered
       DEF VerifyNew, Rollback, Goto, Unbound, Exit, Results, SuccessMeansAgreed,
           DeployRepairs, TypeOK, Progress, SecretsFresh
  <2>5. Undoable'
    BY <1>10, <1>a, <1>b, <1>c, NothingRemembered
       DEF VerifyNew, Rollback, Goto, Unbound, Exit, Undoable, TypeOK, Progress,
           SecretsFresh
  <2> QED
    BY <2>1, <2>2, <2>3, <2>4, <2>5 DEF Inv
<1>11. CASE VerifyGone
  <2>1. TypeOK'
    BY <1>11, <1>a, <1>b, <1>c, NothingRemembered
       DEF VerifyGone, Rollback, Goto, Unbound, Exit, TypeOK, SecretsFresh
  <2>2. SecretsFresh'
    BY <1>11, <1>a, <1>b, <1>c, NothingRemembered
       DEF VerifyGone, Rollback, Goto, Unbound, Exit, SecretsFresh, TypeOK
  <2>3. Progress'
    BY <1>11, <1>a, <1>b, <1>c, NothingRemembered
       DEF VerifyGone, Rollback, Goto, Unbound, Exit, Progress, TypeOK
  <2>4. Results'
    BY <1>11, <1>a, <1>b, <1>c, NothingRemembered
       DEF VerifyGone, Rollback, Goto, Unbound, Exit, Results, SuccessMeansAgreed,
           DeployRepairs, TypeOK, Progress, SecretsFresh
  <2>5. Undoable'
    BY <1>11, <1>a, <1>b, <1>c, NothingRemembered
       DEF VerifyGone, Rollback, Goto, Unbound, Exit, Undoable, TypeOK, Progress,
           SecretsFresh
  <2> QED
    BY <2>1, <2>2, <2>3, <2>4, <2>5 DEF Inv
<1>12. CASE UndoEnv
  <2>n. /\ EnvNoted(script, FALSE) \in Memory
        /\ EnvNoted(script, FALSE).old = script.old
        /\ EnvNoted(script, FALSE).new = script.new
        /\ EnvNoted(script, FALSE).ids = script.ids
        /\ EnvNoted(script, FALSE).hasNew = script.hasNew
        /\ EnvNoted(script, FALSE).backup = script.backup
        /\ EnvNoted(script, FALSE).envUpdated = FALSE
        /\ EnvNoted(script, FALSE).dbRotated = script.dbRotated
    BY <1>b, EnvNotedFields
  <2>k. mishaps' = mishaps \/ (mishaps < MaxMishaps /\ mishaps' = mishaps + 1)
    BY <1>12 DEF UndoEnv, Mishap
  <2>m. mishaps' \in 0 .. MaxMishaps
    BY <2>k, <1>a DEF TypeOK
  <2>1. TypeOK'
    BY <1>12, <1>a, <1>b, <1>c, <2>n, <2>m DEF UndoEnv, Mishap, TypeOK, SecretsFresh
  <2>2. SecretsFresh'
    BY <1>12, <1>a, <1>b, <1>c, <2>n DEF UndoEnv, Mishap, SecretsFresh, TypeOK
  <2>3. Progress'
    BY <1>12, <1>a, <1>b, <1>c, <2>n DEF UndoEnv, Mishap, Progress, TypeOK
  <2>4. Results'
    BY <1>12, <1>a, <1>b, <1>c, <2>n
       DEF UndoEnv, Mishap, Results, SuccessMeansAgreed, DeployRepairs, TypeOK, Progress,
           SecretsFresh
  <2>5. Undoable'
    <3>1. CASE causes' = causes \cup {"undo"}
      BY <3>1 DEF Undoable
    <3>2. CASE /\ envFile' = IF script.envUpdated /\ script.backup THEN before.env ELSE envFile
               /\ UNCHANGED causes
      BY <1>12, <1>a, <1>b, <1>c, <2>n, <3>2 DEF UndoEnv, Undoable
    <3> QED
      BY <1>12, <3>1, <3>2 DEF UndoEnv
  <2> QED
    BY <2>1, <2>2, <2>3, <2>4, <2>5 DEF Inv
<1>13. CASE UndoBackend
  <2>k. mishaps' = mishaps \/ (mishaps < MaxMishaps /\ mishaps' = mishaps + 1)
    BY <1>13 DEF UndoBackend, Mishap
  <2>m. mishaps' \in 0 .. MaxMishaps
    BY <2>k, <1>a DEF TypeOK
  <2>1. TypeOK'
    BY <1>13, <1>a, <1>b, <1>c, <2>m DEF UndoBackend, Mishap, TypeOK, SecretsFresh
  <2>2. SecretsFresh'
    BY <1>13, <1>a, <1>b, <1>c DEF UndoBackend, Mishap, SecretsFresh, TypeOK
  <2>3. Progress'
    BY <1>13, <1>a, <1>b, <1>c DEF UndoBackend, Mishap, Progress, TypeOK
  <2>4. Results'
    BY <1>13, <1>a, <1>b, <1>c
       DEF UndoBackend, Mishap, Results, SuccessMeansAgreed, DeployRepairs, TypeOK,
           Progress, SecretsFresh
  <2>5. Undoable'
    BY <1>13, <1>a, <1>b, <1>c
       DEF UndoBackend, Mishap, Undoable, TypeOK, Progress, SecretsFresh
  <2> QED
    BY <2>1, <2>2, <2>3, <2>4, <2>5 DEF Inv
<1>14. CASE UndoDatabase
  <2>n. /\ DbNoted(script, FALSE) \in Memory
        /\ DbNoted(script, FALSE).old = script.old
        /\ DbNoted(script, FALSE).new = script.new
        /\ DbNoted(script, FALSE).ids = script.ids
        /\ DbNoted(script, FALSE).hasNew = script.hasNew
        /\ DbNoted(script, FALSE).backup = script.backup
        /\ DbNoted(script, FALSE).envUpdated = script.envUpdated
        /\ DbNoted(script, FALSE).dbRotated = FALSE
    BY <1>b, DbNotedFields
  <2>k. mishaps' = mishaps \/ (mishaps < MaxMishaps /\ mishaps' = mishaps + 1)
    BY <1>14 DEF UndoDatabase, Accepts, Mishap, Unbound, Exit
  <2>m. mishaps' \in 0 .. MaxMishaps
    BY <2>k, <1>a DEF TypeOK
  <2>1. TypeOK'
    BY <1>14, <1>a, <1>b, <1>c, NothingRemembered, <2>n, <2>m
       DEF UndoDatabase, Accepts, Mishap, Unbound, Exit, TypeOK, SecretsFresh
  <2>2. SecretsFresh'
    BY <1>14, <1>a, <1>b, <1>c, NothingRemembered, <2>n
       DEF UndoDatabase, Accepts, Mishap, Unbound, Exit, SecretsFresh, TypeOK
  <2>3. Progress'
    BY <1>14, <1>a, <1>b, <1>c, NothingRemembered, <2>n
       DEF UndoDatabase, Accepts, Mishap, Unbound, Exit, Progress, TypeOK
  <2>4. Results'
    BY <1>14, <1>a, <1>b, <1>c, NothingRemembered, <2>n
       DEF UndoDatabase, Accepts, Mishap, Unbound, Exit, Results, SuccessMeansAgreed,
           DeployRepairs, TypeOK, Progress, SecretsFresh
  <2>5. Undoable'
    BY <1>14, <1>a, <1>b, <1>c, NothingRemembered, <2>n
       DEF UndoDatabase, Accepts, Mishap, Unbound, Exit, Undoable, TypeOK, Progress,
           SecretsFresh
  <2> QED
    BY <2>1, <2>2, <2>3, <2>4, <2>5 DEF Inv
<1>15. CASE UndoCollector
  <2>1. TypeOK'
    BY <1>15, <1>a, <1>b, <1>c, NothingRemembered
       DEF UndoCollector, Exit, TypeOK, SecretsFresh
  <2>2. SecretsFresh'
    BY <1>15, <1>a, <1>b, <1>c, NothingRemembered
       DEF UndoCollector, Exit, SecretsFresh, TypeOK
  <2>3. Progress'
    BY <1>15, <1>a, <1>b, <1>c, NothingRemembered DEF UndoCollector, Exit, Progress, TypeOK
  <2>4. Results'
    BY <1>15, <1>a, <1>b, <1>c, NothingRemembered
       DEF UndoCollector, Exit, Results, SuccessMeansAgreed, DeployRepairs, TypeOK,
           Progress, SecretsFresh
  <2>5. Undoable'
    BY <1>15, <1>a, <1>b, <1>c, NothingRemembered
       DEF UndoCollector, Exit, Undoable, TypeOK, Progress, SecretsFresh
  <2> QED
    BY <2>1, <2>2, <2>3, <2>4, <2>5 DEF Inv
<1>16. CASE DeployUp
  <2>1. TypeOK'
    BY <1>16, <1>a, <1>b, <1>c, NothingRemembered DEF DeployUp, Exit, TypeOK, SecretsFresh
  <2>2. SecretsFresh'
    BY <1>16, <1>a, <1>b, <1>c, NothingRemembered DEF DeployUp, Exit, SecretsFresh, TypeOK
  <2>3. Progress'
    BY <1>16, <1>a, <1>b, <1>c, NothingRemembered DEF DeployUp, Exit, Progress, TypeOK
  <2>4. Results'
    BY <1>16, <1>a, <1>b, <1>c, NothingRemembered
       DEF DeployUp, Exit, Results, SuccessMeansAgreed, DeployRepairs, TypeOK, Progress,
           SecretsFresh
  <2>5. Undoable'
    BY <1>16, <1>a, <1>b, <1>c, NothingRemembered
       DEF DeployUp, Exit, Undoable, TypeOK, Progress, SecretsFresh
  <2> QED
    BY <2>1, <2>2, <2>3, <2>4, <2>5 DEF Inv
<1>17. CASE Fails
  <2>k. mishaps' = mishaps \/ (mishaps < MaxMishaps /\ mishaps' = mishaps + 1)
    BY <1>17 DEF Fails, FailsAt, Mishap, Rollback, Goto
  <2>m. mishaps' \in 0 .. MaxMishaps
    BY <2>k, <1>a DEF TypeOK
  <2>1. TypeOK'
    BY <1>17, <1>a, <1>b, <1>c, <2>m
       DEF Fails, FailsAt, Mishap, Rollback, Goto, TypeOK, SecretsFresh
  <2>2. SecretsFresh'
    BY <1>17, <1>a, <1>b, <1>c
       DEF Fails, FailsAt, Mishap, Rollback, Goto, SecretsFresh, TypeOK
  <2>3. Progress'
    BY <1>17, <1>a, <1>b, <1>c DEF Fails, FailsAt, Mishap, Rollback, Goto, Progress, TypeOK
  <2>4. Results'
    BY <1>17, <1>a, <1>b, <1>c
       DEF Fails, FailsAt, Mishap, Rollback, Goto, Results, SuccessMeansAgreed,
           DeployRepairs, TypeOK, Progress, SecretsFresh
  <2>5. Undoable'
    BY <1>17, <1>a, <1>b, <1>c
       DEF Fails, FailsAt, Mishap, Rollback, Goto, Undoable, TypeOK, Progress,
           SecretsFresh
  <2> QED
    BY <2>1, <2>2, <2>3, <2>4, <2>5 DEF Inv
<1>18. CASE WriteInterrupted
  <2>n. /\ cleanup(script) \in Memory
        /\ cleanup(script).old = script.old
        /\ cleanup(script).new = script.new
        /\ cleanup(script).ids = FALSE
        /\ cleanup(script).hasNew = FALSE
        /\ cleanup(script).backup = FALSE
        /\ cleanup(script).envUpdated = script.envUpdated
        /\ cleanup(script).dbRotated = script.dbRotated
    BY <1>b, CleanedFields
  <2>k. mishaps' = mishaps \/ (mishaps < MaxMishaps /\ mishaps' = mishaps + 1)
    BY <1>18 DEF WriteInterrupted, Mishap
  <2>m. mishaps' \in 0 .. MaxMishaps
    BY <2>k, <1>a DEF TypeOK
  <2>1. TypeOK'
    BY <1>18, <1>a, <1>b, <1>c, <2>n, <2>m
       DEF WriteInterrupted, Mishap, TypeOK, SecretsFresh
  <2>2. SecretsFresh'
    BY <1>18, <1>a, <1>b, <1>c, <2>n DEF WriteInterrupted, Mishap, SecretsFresh, TypeOK
  <2>3. Progress'
    BY <1>18, <1>a, <1>b, <1>c, <2>n DEF WriteInterrupted, Mishap, Progress, TypeOK
  <2>4. Results'
    BY <1>18, <1>a, <1>b, <1>c, <2>n
       DEF WriteInterrupted, Mishap, Results, SuccessMeansAgreed, DeployRepairs, TypeOK,
           Progress, SecretsFresh
  <2>5. Undoable'
    BY <1>18, <1>a, <1>b, <1>c, <2>n
       DEF WriteInterrupted, Mishap, Undoable, TypeOK, Progress, SecretsFresh
  <2> QED
    BY <2>1, <2>2, <2>3, <2>4, <2>5 DEF Inv
<1>19. CASE RotateLost
  <2>k. mishaps' = mishaps \/ (mishaps < MaxMishaps /\ mishaps' = mishaps + 1)
    BY <1>19 DEF RotateLost, Mishap, Accepts
  <2>m. mishaps' \in 0 .. MaxMishaps
    BY <2>k, <1>a DEF TypeOK
  <2>1. TypeOK'
    BY <1>19, <1>a, <1>b, <1>c, <2>m DEF RotateLost, Mishap, Accepts, TypeOK, SecretsFresh
  <2>2. SecretsFresh'
    BY <1>19, <1>a, <1>b, <1>c DEF RotateLost, Mishap, Accepts, SecretsFresh, TypeOK
  <2>3. Progress'
    BY <1>19, <1>a, <1>b, <1>c DEF RotateLost, Mishap, Accepts, Progress, TypeOK
  <2>4. Results'
    BY <1>19, <1>a, <1>b, <1>c
       DEF RotateLost, Mishap, Accepts, Results, SuccessMeansAgreed, DeployRepairs,
           TypeOK, Progress, SecretsFresh
  <2>5. Undoable'
    BY <1>19, <1>a, <1>b, <1>c
       DEF RotateLost, Mishap, Accepts, Undoable, TypeOK, Progress, SecretsFresh
  <2> QED
    BY <2>1, <2>2, <2>3, <2>4, <2>5 DEF Inv
<1>20. CASE UndoCollectorFails
  <2>k. mishaps' = mishaps \/ (mishaps < MaxMishaps /\ mishaps' = mishaps + 1)
    BY <1>20 DEF UndoCollectorFails, Mishap
  <2>m. mishaps' \in 0 .. MaxMishaps
    BY <2>k, <1>a DEF TypeOK
  <2>1. TypeOK'
    BY <1>20, <1>a, <1>b, <1>c, NothingRemembered, <2>m
       DEF UndoCollectorFails, Mishap, TypeOK, SecretsFresh
  <2>2. SecretsFresh'
    BY <1>20, <1>a, <1>b, <1>c, NothingRemembered
       DEF UndoCollectorFails, Mishap, SecretsFresh, TypeOK
  <2>3. Progress'
    BY <1>20, <1>a, <1>b, <1>c, NothingRemembered
       DEF UndoCollectorFails, Mishap, Progress, TypeOK
  <2>4. Results'
    BY <1>20, <1>a, <1>b, <1>c, NothingRemembered
       DEF UndoCollectorFails, Mishap, Results, SuccessMeansAgreed, DeployRepairs,
           TypeOK, Progress, SecretsFresh
  <2>5. Undoable'
    BY <1>20, <1>a, <1>b, <1>c, NothingRemembered
       DEF UndoCollectorFails, Mishap, Undoable, TypeOK, Progress, SecretsFresh
  <2> QED
    BY <2>1, <2>2, <2>3, <2>4, <2>5 DEF Inv
<1>21. CASE Signal
  <2>n. /\ cleanup(script) \in Memory
        /\ cleanup(script).old = script.old
        /\ cleanup(script).new = script.new
        /\ cleanup(script).ids = FALSE
        /\ cleanup(script).hasNew = FALSE
        /\ cleanup(script).backup = FALSE
        /\ cleanup(script).envUpdated = script.envUpdated
        /\ cleanup(script).dbRotated = script.dbRotated
    BY <1>b, CleanedFields
  <2>k. mishaps' = mishaps \/ (mishaps < MaxMishaps /\ mishaps' = mishaps + 1)
    BY <1>21 DEF Signal, Mishap
  <2>m. mishaps' \in 0 .. MaxMishaps
    BY <2>k, <1>a DEF TypeOK
  <2>1. TypeOK'
    BY <1>21, <1>a, <1>b, <1>c, <2>n, <2>m DEF Signal, Mishap, TypeOK, SecretsFresh
  <2>2. SecretsFresh'
    BY <1>21, <1>a, <1>b, <1>c, <2>n DEF Signal, Mishap, SecretsFresh, TypeOK
  <2>3. Progress'
    BY <1>21, <1>a, <1>b, <1>c, <2>n DEF Signal, Mishap, Progress, TypeOK
  <2>4. Results'
    BY <1>21, <1>a, <1>b, <1>c, <2>n
       DEF Signal, Mishap, Results, SuccessMeansAgreed, DeployRepairs, TypeOK, Progress,
           SecretsFresh
  <2>5. Undoable'
    BY <1>21, <1>a, <1>b, <1>c, <2>n
       DEF Signal, Mishap, Undoable, TypeOK, Progress, SecretsFresh
  <2> QED
    BY <2>1, <2>2, <2>3, <2>4, <2>5 DEF Inv
<1>22. CASE Crash
  <2>k. mishaps' = mishaps \/ (mishaps < MaxMishaps /\ mishaps' = mishaps + 1)
    BY <1>22 DEF Crash, Mishap
  <2>m. mishaps' \in 0 .. MaxMishaps
    BY <2>k, <1>a DEF TypeOK
  <2>1. TypeOK'
    BY <1>22, <1>a, <1>b, <1>c, NothingRemembered, <2>m
       DEF Crash, Mishap, TypeOK, SecretsFresh
  <2>2. SecretsFresh'
    BY <1>22, <1>a, <1>b, <1>c, NothingRemembered DEF Crash, Mishap, SecretsFresh, TypeOK
  <2>3. Progress'
    BY <1>22, <1>a, <1>b, <1>c, NothingRemembered DEF Crash, Mishap, Progress, TypeOK
  <2>4. Results'
    BY <1>22, <1>a, <1>b, <1>c, NothingRemembered
       DEF Crash, Mishap, Results, SuccessMeansAgreed, DeployRepairs, TypeOK, Progress,
           SecretsFresh
  <2>5. Undoable'
    BY <1>22, <1>a, <1>b, <1>c, NothingRemembered
       DEF Crash, Mishap, Undoable, TypeOK, Progress, SecretsFresh
  <2> QED
    BY <2>1, <2>2, <2>3, <2>4, <2>5 DEF Inv
<1>23. CASE DeployFails
  <2>k. mishaps' = mishaps \/ (mishaps < MaxMishaps /\ mishaps' = mishaps + 1)
    BY <1>23 DEF DeployFails, Mishap
  <2>m. mishaps' \in 0 .. MaxMishaps
    BY <2>k, <1>a DEF TypeOK
  <2>1. TypeOK'
    BY <1>23, <1>a, <1>b, <1>c, <2>m DEF DeployFails, Mishap, TypeOK, SecretsFresh
  <2>2. SecretsFresh'
    BY <1>23, <1>a, <1>b, <1>c DEF DeployFails, Mishap, SecretsFresh, TypeOK
  <2>3. Progress'
    BY <1>23, <1>a, <1>b, <1>c DEF DeployFails, Mishap, Progress, TypeOK
  <2>4. Results'
    BY <1>23, <1>a, <1>b, <1>c
       DEF DeployFails, Mishap, Results, SuccessMeansAgreed, DeployRepairs, TypeOK,
           Progress, SecretsFresh
  <2>5. Undoable'
    BY <1>23, <1>a, <1>b, <1>c
       DEF DeployFails, Mishap, Undoable, TypeOK, Progress, SecretsFresh
  <2> QED
    BY <2>1, <2>2, <2>3, <2>4, <2>5 DEF Inv
<1>24. CASE ChmodFails
  <2>k. mishaps' = mishaps \/ (mishaps < MaxMishaps /\ mishaps' = mishaps + 1)
    BY <1>24 DEF ChmodFails, Mishap
  <2>m. mishaps' \in 0 .. MaxMishaps
    BY <2>k, <1>a DEF TypeOK
  <2>1. TypeOK'
    BY <1>24, <1>a, <1>b, <1>c, <2>m DEF ChmodFails, Mishap, TypeOK, SecretsFresh
  <2>2. SecretsFresh'
    BY <1>24, <1>a, <1>b, <1>c DEF ChmodFails, Mishap, SecretsFresh, TypeOK
  <2>3. Progress'
    BY <1>24, <1>a, <1>b, <1>c DEF ChmodFails, Mishap, Progress, TypeOK
  <2>4. Results'
    BY <1>24, <1>a, <1>b, <1>c
       DEF ChmodFails, Mishap, Results, SuccessMeansAgreed, DeployRepairs, TypeOK, Progress,
           SecretsFresh
  <2>5. Undoable'
    BY <1>24, <1>a, <1>b, <1>c
       DEF ChmodFails, Mishap, Undoable, TypeOK, Progress, SecretsFresh
  <2> QED
    BY <2>1, <2>2, <2>3, <2>4, <2>5 DEF Inv
<1>25. CASE RemoveFails
  <2>n. /\ DbNoted(EnvNoted(script, FALSE), FALSE) \in Memory
        /\ DbNoted(EnvNoted(script, FALSE), FALSE).old = script.old
        /\ DbNoted(EnvNoted(script, FALSE), FALSE).new = script.new
        /\ DbNoted(EnvNoted(script, FALSE), FALSE).ids = script.ids
        /\ DbNoted(EnvNoted(script, FALSE), FALSE).hasNew = script.hasNew
        /\ DbNoted(EnvNoted(script, FALSE), FALSE).backup = script.backup
        /\ DbNoted(EnvNoted(script, FALSE), FALSE).envUpdated = FALSE
        /\ DbNoted(EnvNoted(script, FALSE), FALSE).dbRotated = FALSE
    <3>1. PICK b : b = EnvNoted(script, FALSE)
      OBVIOUS
    <3>2. /\ b \in Memory /\ b.old = script.old /\ b.new = script.new
          /\ b.ids = script.ids /\ b.hasNew = script.hasNew /\ b.backup = script.backup
          /\ b.envUpdated = FALSE
      BY <1>b, <3>1, EnvNotedFields
    <3> QED
      BY <3>1, <3>2, DbNotedFields
  <2>k. mishaps' = mishaps \/ (mishaps < MaxMishaps /\ mishaps' = mishaps + 1)
    BY <1>25 DEF RemoveFails, Goto, Accepts, Mishap
  <2>m. mishaps' \in 0 .. MaxMishaps
    BY <2>k, <1>a DEF TypeOK
  <2>1. TypeOK'
    BY <1>25, <1>a, <1>b, <1>c, <2>n, <2>m DEF RemoveFails, Goto, Accepts, Mishap, TypeOK, SecretsFresh
  <2>2. SecretsFresh'
    BY <1>25, <1>a, <1>b, <1>c, <2>n DEF RemoveFails, Goto, Accepts, Mishap, SecretsFresh, TypeOK
  <2>3. Progress'
    BY <1>25, <1>a, <1>b, <1>c, <2>n DEF RemoveFails, Goto, Accepts, Mishap, Progress, TypeOK
  <2>4. Results'
    BY <1>25, <1>a, <1>b, <1>c, <2>n
       DEF RemoveFails, Goto, Accepts, Mishap, Results, SuccessMeansAgreed, DeployRepairs, TypeOK, Progress,
           SecretsFresh
  <2>5. Undoable'
    BY <1>25, <1>a, <1>b, <1>c, <2>n
       DEF RemoveFails, Goto, Accepts, Mishap, Undoable, TypeOK, Progress, SecretsFresh
  <2> QED
    BY <2>1, <2>2, <2>3, <2>4, <2>5 DEF Inv
<1>26. CASE UNCHANGED vars
  BY <1>26, <1>a DEF vars, Inv, TypeOK, SecretsFresh, Progress, Results, Undoable,
     SuccessMeansAgreed, DeployRepairs
<1> QED
  BY <1>1, <1>2, <1>3, <1>4, <1>5, <1>6, <1>7, <1>8, <1>9, <1>10, <1>11, <1>12, <1>13,
     <1>14, <1>15, <1>16, <1>17, <1>18, <1>19, <1>20, <1>21, <1>22, <1>23, <1>24,
     <1>25, <1>26
     DEF Next, Step, Accident

(* The invariant of the specification. *)
LEMMA Invariant == Spec => []Inv
  BY InitInv, StepInv, PTL DEF Spec

(* Every variable keeps its type, however many rotations there are. *)
THEOREM TypeCorrect == Spec => []TypeOK
<1>1. Inv => TypeOK
  BY DEF Inv
<1> QED
  BY <1>1, Invariant, PTL

(* A rotation that says it succeeded has put the new secret into the file, *)
(* the database and the container (the end of rotate-collector-secret.sh). *)
THEOREM SuccessIsAgreed == Spec => []SuccessMeansAgreed
<1>1. Inv => SuccessMeansAgreed
  BY DEF Inv, Results
<1> QED
  BY <1>1, Invariant, PTL

(* A command that fails, and nothing else, is undone by rollback: the file, *)
(* the hash and the container agree when no script runs.  The chmod that    *)
(* follows the mv in write_secret is the one command of which that is not   *)
(* so, and FailureUndone leaves it out by its name in causes.               *)
THEOREM FailuresUndone == Spec => []FailureUndone
<1>1. Inv => FailureUndone
  BY DEF Inv, Undoable, FailureUndone
<1> QED
  BY <1>1, Invariant, PTL

(* deploy.sh repairs whatever a rotation that was cut short left behind. *)
THEOREM DeploymentRepairs == Spec => []DeployRepairs
<1>1. Inv => DeployRepairs
  BY DEF Inv, Results
<1> QED
  BY <1>1, Invariant, PTL

===============================================================================
