----------------------------- MODULE ModelDeploy -----------------------------
(***************************************************************************)
(* The DGA model on its way from the trainers to a stream processor:       *)
(*   scripts/continuous_training.py writes a temporary pair of files and   *)
(*     moves it over the production pair, one os.replace at a time;        *)
(*   inference/train_model.py (save_traced_model) writes the production    *)
(*     pair in place;                                                      *)
(*   inference/models.py (DeepLearningEngine) reads the pair when a        *)
(*     processor starts, refuses a mismatch and never reads it again.      *)
(*                                                                         *)
(* A model file holds a version (a number: a later one was trained later), *)
(* Torn while it is being written, or None.  A .sha256 file is named by    *)
(* the version whose digest it holds; Torn is a digest of a half-written   *)
(* file or a half-written digest, and matches nothing.  Training itself is *)
(* abstracted: a cycle improves on its accuracy at least once.             *)
(***************************************************************************)
EXTENDS Integers

CONSTANTS
    MaxVersions,   \* bound: models trained
    MaxStops,      \* bound: times the trainer is stopped
    MaxLoads       \* bound: processor starts

ASSUME DeployAssumption ==
    MaxVersions \in Nat \ {0} /\ MaxStops \in Nat /\ MaxLoads \in Nat

None == 0
Torn == -1

VARIABLES
    inPlace,         \* the trainer is save_traced_model's, not the continuous one
    temp, tempSha,   \* cnn_dga_temp.pt and its .sha256
    prod, prodSha,   \* cnn_dga.pt and its .sha256
    version,         \* the last version trained
    trainer,         \* where the trainer is
    processor,       \* "down", "readSha", "readModel", "serving"
    expected,        \* the digest the processor read
    served,          \* the model it loaded last
    stops, loads     \* bounds

modelFiles == <<inPlace, temp, tempSha, prod, prodSha>>
engine == <<processor, expected, served, loads>>
deployVars == <<modelFiles, version, trainer, engine, stops>>

\* The repository ships a matching pair, version 1.
DeployInit ==
    /\ inPlace \in BOOLEAN
    /\ temp = None /\ tempSha = None /\ prod = 1 /\ prodSha = 1
    /\ version = 1 /\ trainer = "train"
    /\ processor = "down" /\ expected = None /\ served = None
    /\ stops = 0 /\ loads = 0

-----------------------------------------------------------------------------
(***************************************************************************)
(* continuous_train_loop.                                                  *)
(***************************************************************************)
\* An epoch with a new best accuracy: traced_model.save begins ...
SaveTemp ==
    /\ ~inPlace /\ trainer \in {"train", "trained"} /\ version < MaxVersions
    /\ version' = version + 1
    /\ temp' = Torn
    /\ trainer' = "saving"
    /\ UNCHANGED <<inPlace, tempSha, prod, prodSha, engine, stops>>

\* ... and ends.
TempSaved ==
    /\ ~inPlace /\ trainer = "saving"
    /\ temp' = version
    /\ trainer' = "saved"
    /\ UNCHANGED <<inPlace, tempSha, prod, prodSha, version, engine, stops>>

\* The sidecar of the temporary file is truncated, then gets its digest.
OpenTempSha ==
    /\ trainer = "saved"
    /\ tempSha' = Torn
    /\ trainer' = "writingTempSha"
    /\ UNCHANGED <<inPlace, temp, prod, prodSha, version, engine, stops>>

HashTemp ==
    /\ trainer = "writingTempSha"
    /\ tempSha' = temp
    /\ trainer' = "trained"
    /\ UNCHANGED <<inPlace, temp, prod, prodSha, version, engine, stops>>

\* The cycle is complete: os.replace of the sidecar first, then of the model.
DeploySha ==
    /\ ~inPlace /\ trainer = "trained"
    /\ prodSha' = tempSha /\ tempSha' = None
    /\ trainer' = "deploying"
    /\ UNCHANGED <<inPlace, temp, prod, version, engine, stops>>

DeployModel ==
    /\ trainer = "deploying"
    /\ prod' = temp /\ temp' = None
    /\ trainer' = "train"
    /\ UNCHANGED <<inPlace, tempSha, prodSha, version, engine, stops>>

-----------------------------------------------------------------------------
(***************************************************************************)
(* save_traced_model: the model, then its sidecar, in place.               *)
(***************************************************************************)
SaveProd ==
    /\ inPlace /\ trainer = "train" /\ version < MaxVersions
    /\ version' = version + 1
    /\ prod' = Torn
    /\ trainer' = "savingProd"
    /\ UNCHANGED <<inPlace, temp, tempSha, prodSha, engine, stops>>

ProdSaved ==
    /\ trainer = "savingProd"
    /\ prod' = version
    /\ trainer' = "hashingProd"
    /\ UNCHANGED <<inPlace, temp, tempSha, prodSha, version, engine, stops>>

\* open(sha, "w") truncates; the digest follows.
OpenProdSha ==
    /\ trainer = "hashingProd"
    /\ prodSha' = Torn
    /\ trainer' = "writingProdSha"
    /\ UNCHANGED <<inPlace, temp, tempSha, prod, version, engine, stops>>

ProdHashed ==
    /\ trainer = "writingProdSha"
    /\ prodSha' = prod
    /\ trainer' = "train"
    /\ UNCHANGED <<inPlace, temp, tempSha, prod, version, engine, stops>>

\* Ctrl+C, a kill, or an exception (which continuous_train_loop answers with
\* a new cycle): the step at hand is not finished, the files stay.
StopTrainer ==
    /\ stops < MaxStops /\ trainer # "stopped"
    /\ stops' = stops + 1
    /\ trainer' = "stopped"
    /\ UNCHANGED <<modelFiles, version, engine>>

\* A new cycle trains before it deploys.
ResumeDeploy == "trained"
NewCycle == "train"

StartTrainer ==
    /\ trainer = "stopped"
    /\ trainer' = NewCycle
    /\ UNCHANGED <<modelFiles, version, engine, stops>>

-----------------------------------------------------------------------------
(***************************************************************************)
(* DeepLearningEngine.__init__ and _load_model_from_disk: sidecar, model,  *)
(* comparison.  A mismatch is raised and ends the process.                 *)
(***************************************************************************)
StartProcessor ==
    /\ processor = "down" /\ loads < MaxLoads
    /\ processor' = "readSha" /\ loads' = loads + 1
    /\ UNCHANGED <<modelFiles, version, trainer, expected, served, stops>>

ReadSha ==
    /\ processor = "readSha"
    /\ expected' = prodSha
    /\ processor' = "readModel"
    /\ UNCHANGED <<modelFiles, version, trainer, served, loads, stops>>

ShaIgnored(m) == TRUE
ShaMatches(m) == m = expected /\ m \notin {Torn, None}

LoadModel ==
    /\ processor = "readModel" /\ ShaMatches(prod)
    /\ served' = prod
    /\ processor' = "serving"
    /\ UNCHANGED <<modelFiles, version, trainer, expected, loads, stops>>

\* __init__ logs the exception and raises it again.
InitRaises == "down"

LoadRefused ==
    /\ processor = "readModel" /\ ~ShaMatches(prod)
    /\ processor' = InitRaises
    /\ UNCHANGED <<modelFiles, version, trainer, expected, served, loads, stops>>

\* The pod is replaced (a rollout, an eviction); the verifier thread is a stub.
StopProcessor ==
    /\ processor = "serving" /\ loads < MaxLoads
    /\ processor' = "down"
    /\ UNCHANGED <<modelFiles, version, trainer, expected, served, loads, stops>>

-----------------------------------------------------------------------------
Trainer ==
    \/ SaveTemp \/ TempSaved \/ OpenTempSha \/ HashTemp \/ DeploySha \/ DeployModel
    \/ SaveProd \/ ProdSaved \/ OpenProdSha \/ ProdHashed
    \/ StartTrainer

Processor == StartProcessor \/ ReadSha \/ LoadModel \/ LoadRefused

DeployNext == Trainer \/ StopTrainer \/ Processor \/ StopProcessor

DeploySpec == DeployInit /\ [][DeployNext]_deployVars

-----------------------------------------------------------------------------
Contents == {Torn, None} \cup 1 .. MaxVersions

(***************************************************************************)
(* Type invariant of the model files.                                      *)
(***************************************************************************)
DeployTypeOK ==
    /\ inPlace \in BOOLEAN
    /\ {temp, tempSha, prod, prodSha, expected, served} \subseteq Contents
    /\ version \in 1 .. MaxVersions /\ stops \in 0 .. MaxStops /\ loads \in 0 .. MaxLoads
    /\ trainer \in {"train", "saving", "saved", "trained", "deploying", "savingProd",
                    "hashingProd", "writingTempSha", "writingProdSha", "stopped"}
    /\ processor \in {"down", "readSha", "readModel", "serving"}

(***************************************************************************)
(* A processor that serves holds a whole model: never a torn file, however *)
(* the trainer's writes fall between its two reads.                        *)
(***************************************************************************)
ServesWholeModel == processor = "serving" => served \in 1 .. version

(***************************************************************************)
(* A deployment that completes leaves a pair that belongs together, even   *)
(* when earlier cycles were stopped between any two of their steps and     *)
(* left temporary files or half a deployment behind: a mismatch lasts no   *)
(* longer than until the next completed cycle.                             *)
(***************************************************************************)
CompletedDeploymentMatches ==
    [][DeployModel \/ ProdHashed => prod' = prodSha' /\ prod' \in 1 .. version]_deployVars
=============================================================================
