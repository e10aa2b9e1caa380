----------------------------- MODULE ArtifactExport -----------------------------
(***************************************************************************)
(* One artifact directory: the exporter processes that build it (prepare_  *)
(* artifact in src/reranker_service/exporter.py), the API processes that   *)
(* load it (ArtifactStore.load in src/reranker_service/artifacts.py), and  *)
(* what may befall either.  All ask for the same model, revision, backend  *)
(* and precision; nothing but the file system coordinates them.            *)
(*                                                                         *)
(* What a file holds is known by the export that wrote it.  A manifest     *)
(* holds the checksums of the files of its own export, so a file passes    *)
(* the checksum of a manifest exactly when one export wrote both.          *)
(***************************************************************************)
CONSTANTS Exporters,  \* runs of the exporter, each of which builds at most once
          Loaders,    \* loads by the API service
          Absent,     \* in place of a directory that does not exist
          Missing,    \* in place of the contents of a file that does not
          Torn        \* contents damaged by a loss of power

Files == {"model", "tokenizer", "manifest"}
Contents == Exporters \cup {Missing, Torn}

ASSUME ExportAssumption ==
    /\ Exporters \cap Loaders = {}
    /\ Missing # Torn /\ {Missing, Torn} \cap Exporters = {}
    /\ Absent \notin [Files -> Contents]

VARIABLES
    target,   \* the artifact directory
    staging,  \* the .export- directory of each export
    at,       \* where each process is
    read,     \* what each process read of the artifact, file by file
    removed,  \* history: somebody removed the artifact, or its rename was lost
    damaged   \* history: power was lost

artifactVars == <<target, staging, at, read, removed, damaged>>

Processes == Exporters \cup Loaders
NoFiles == [f \in Files |-> Missing]
BuiltBy(p) == [f \in Files |-> p]

Go(p, step) == at' = [at EXCEPT ![p] = step]
-------------------------------------------------------------------------------
ArtifactInit ==
    /\ target = Absent
    /\ staging = [p \in Exporters |-> Absent]
    /\ at = [p \in Processes |-> "idle"]
    /\ read = [p \in Processes |-> NoFiles]
    /\ removed = FALSE /\ damaged = FALSE

\* The model is not allowed or its revision not resolved; or the target exists and is
\* loaded as it is; or there is none yet.
BeginExport(p) ==
    /\ at[p] = "idle"
    /\ Go(p, "failed") \/ Go(p, IF target = Absent THEN "prepare" ELSE "manifest")
    /\ UNCHANGED <<target, staging, read, removed, damaged>>

BeginLoad(p) ==
    /\ at[p] = "idle"
    /\ Go(p, "manifest")
    /\ UNCHANGED <<target, staging, read, removed, damaged>>

\* mkdir and mkdtemp beside the target.
Prepare(p) ==
    /\ at[p] = "prepare"
    /\ \/ Go(p, "failed") /\ UNCHANGED staging
       \/ Go(p, "export") /\ staging' = [staging EXCEPT ![p] = NoFiles]
    /\ UNCHANGED <<target, read, removed, damaged>>

\* The exporter writes files into staging; it goes on with both of them only.
Export(p) ==
    /\ at[p] = "export"
    /\ \E written \in SUBSET {"model", "tokenizer"} :
          /\ staging' = [staging EXCEPT ![p] = [f \in Files |-> IF f \in written THEN p
                                                                 ELSE Missing]]
          /\ Go(p, IF written = {"model", "tokenizer"} THEN "describe" ELSE "clean")
    /\ UNCHANGED <<target, read, removed, damaged>>

\* The exporter raises with whatever it wrote, or the manifest is not valid.
BuildFails(p) ==
    /\ at[p] \in {"export", "describe"}
    /\ Go(p, "clean")
    /\ UNCHANGED <<target, staging, read, removed, damaged>>

\* The manifest is written last, with the checksums of the files.
Describe(p) ==
    /\ at[p] = "describe"
    /\ staging' = [staging EXCEPT ![p]["manifest"] = p]
    /\ Go(p, "publish")
    /\ UNCHANGED <<target, read, removed, damaged>>

\* Faulty Publish: the new artifact takes the place of the old one.
PublishOver(p) ==
    /\ at[p] = "publish"
    /\ target' = staging[p]
    /\ staging' = [staging EXCEPT ![p] = Absent]
    /\ Go(p, "manifest")
    /\ UNCHANGED <<read, removed, damaged>>

\* Faulty Publish: the files are copied into the target one by one.
PublishByCopy(p) ==
    /\ at[p] = "publish"
    /\ \E f \in Files :
          /\ target' = IF target = Absent THEN [NoFiles EXCEPT ![f] = p]
                       ELSE [target EXCEPT ![f] = p]
          /\ IF target' = BuiltBy(p) THEN Go(p, "clean") ELSE UNCHANGED at
    /\ UNCHANGED <<staging, read, removed, damaged>>

\* staging.replace(target): a rename, which fails on a directory that is not empty.
Publish(p) ==
    /\ at[p] = "publish"
    /\ IF target = Absent
       THEN /\ target' = staging[p]
            /\ staging' = [staging EXCEPT ![p] = Absent]
            /\ Go(p, "manifest")
       ELSE Go(p, "clean") /\ UNCHANGED <<target, staging>>
    /\ UNCHANGED <<read, removed, damaged>>

\* The finally block of an export that raises.
Clean(p) ==
    /\ at[p] = "clean"
    /\ staging' = [staging EXCEPT ![p] = Absent]
    /\ Go(p, "failed")
    /\ UNCHANGED <<target, read, removed, damaged>>
-------------------------------------------------------------------------------
(* ArtifactStore.load.                                                     *)

\* What there is to read of a file.
Found(f) == IF target = Absent THEN Missing ELSE target[f]
Read(p, f) == read' = [read EXCEPT ![p][f] = Found(f)]

\* A manifest that is there and valid; its identity is that of every export of this
\* directory.
ReadManifest(p) ==
    /\ at[p] = "manifest"
    /\ Read(p, "manifest")
    /\ Go(p, IF Found("manifest") \in Exporters THEN "model" ELSE "failed")
    /\ UNCHANGED <<target, staging, removed, damaged>>

\* Faulty Passes: a file need only be there.
PassesIfThere(p, f) == Found(f) # Missing

\* The checksum of the file is the one in the manifest that was read.
Passes(p, f) == Found(f) = read[p].manifest

VerifyModel(p) ==
    /\ at[p] = "model"
    /\ Read(p, "model")
    /\ Go(p, IF Passes(p, "model") THEN "tokenizer" ELSE "failed")
    /\ UNCHANGED <<target, staging, removed, damaged>>

VerifyTokenizer(p) ==
    /\ at[p] = "tokenizer"
    /\ Read(p, "tokenizer")
    /\ Go(p, IF Passes(p, "tokenizer") THEN "loaded" ELSE "failed")
    /\ UNCHANGED <<target, staging, removed, damaged>>
-------------------------------------------------------------------------------
Ended == {"idle", "loaded", "failed", "killed"}

\* The process dies; nothing cleans up after it.
Kill(p) ==
    /\ at[p] \notin Ended
    /\ Go(p, "killed")
    /\ UNCHANGED <<target, staging, read, removed, damaged>>

\* Nothing was flushed to disk: files of the artifact may come back damaged, or the
\* directory under its old name, of which nobody knows, because the rename is lost.
LosePower ==
    /\ at' = [p \in Processes |-> IF at[p] \in Ended THEN at[p] ELSE "killed"]
    /\ target # Absent
    /\ \/ /\ \E lost \in SUBSET Files :
                target' = [f \in Files |-> IF f \in lost THEN Torn ELSE target[f]]
          /\ UNCHANGED removed
       \/ target' = Absent /\ removed' = TRUE
    /\ damaged' = TRUE
    /\ UNCHANGED <<staging, read>>

\* An operator removes the artifact, so that it can be exported again.
Remove ==
    /\ target # Absent
    /\ target' = Absent
    /\ removed' = TRUE
    /\ UNCHANGED <<staging, at, read, damaged>>

Load(p) == ReadManifest(p) \/ VerifyModel(p) \/ VerifyTokenizer(p)

Build(p) == \/ BeginExport(p) \/ Prepare(p) \/ Export(p) \/ BuildFails(p)
            \/ Describe(p) \/ Publish(p) \/ Clean(p)

ArtifactNext ==
    \/ \E p \in Exporters : Build(p)
    \/ \E p \in Loaders : BeginLoad(p)
    \/ \E p \in Processes : Load(p) \/ Kill(p)
    \/ LosePower \/ Remove

ArtifactSpec == ArtifactInit /\ [][ArtifactNext]_artifactVars
-------------------------------------------------------------------------------
Directories == [Files -> Contents] \cup {Absent}

\* Every variable ranges over the values the processes and the disk can hold.
ArtifactTypeOK ==
    /\ target \in Directories
    /\ staging \in [Exporters -> Directories]
    /\ at \in [Processes -> Ended \cup {"prepare", "export", "describe", "publish", "clean",
                                        "manifest", "model", "tokenizer"}]
    /\ read \in [Processes -> [Files -> Contents]]
    /\ removed \in BOOLEAN /\ damaged \in BOOLEAN

\* "Every artifact ... checks the manifest identity, required files, SHA-256 checksums":
\* whatever is published, removed, exported again or damaged meanwhile, what a load or
\* an export returns were, when they were verified, the files of one export, undamaged.
\* Their paths are what is returned: the backend opens them once more, unverified.
LoadedIsOneBuild ==
    \A p \in Processes : at[p] = "loaded" => \E e \in Exporters : read[p] = BuiltBy(e)

\* Unless it is removed, or its rename lost, an artifact never changes: exports that raced
\* for it and loads before and after them all return the same one.
LoadsAgree ==
    ~removed => \A p, q \in Processes :
        at[p] = "loaded" /\ at[q] = "loaded" => read[p] = read[q]

\* Wherever an export is killed, the artifact directory is absent or complete.
PublishedIsComplete ==
    target # Absent /\ ~damaged => \E e \in Exporters : target = BuiltBy(e)
===============================================================================
