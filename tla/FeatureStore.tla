---------------------------- MODULE FeatureStore ----------------------------
(***************************************************************************)
(* The feature store (features/store.py) and the manifest beside each      *)
(* feature set (features/manifest.py).                                     *)
(*                                                                         *)
(* A build is one run of "features build": it is computed from a features  *)
(* configuration, whose hash is its fs_version; its columns depend on the  *)
(* context timeframes, too, which the hash does not cover.  Temporary      *)
(* files are not represented: they are called part.parquet.tmp and         *)
(* read_features looks for *.parquet.  The writer may be killed between    *)
(* any two steps.                                                          *)
(***************************************************************************)
EXTENDS Integers

CONSTANTS Builds,   \* records [features, columns, months]
          None,     \* no file
          Torn,     \* a file opened for writing and not closed
          MaxKills  \* bound: processes killed

FeatureStoreAssumption ==
  /\ MaxKills \in Nat
  /\ None \notin Builds /\ Torn \notin Builds
  /\ \A build \in Builds : build.months \subseteq Nat

VARIABLES part,      \* part[fs][month]: the build whose rows the partition holds
          manifest,  \* manifest[fs]
          job,       \* the build being written, or None
          todo,      \* the months it has still to write
          finished,  \* the versions some write_features returned for
          kills

vars == <<part, manifest, job, todo, finished, kills>>

BuildMonths == UNION {build.months : build \in Builds}

\* build_manifest: the version hashes the features configuration, nothing else.
FsVersion(build) == build.features

FsVersions == {FsVersion(build) : build \in Builds}

TypeOK ==
  /\ part \in [FsVersions -> [BuildMonths -> Builds \cup {None}]]
  /\ manifest \in [FsVersions -> Builds \cup {None, Torn}]
  /\ job \in Builds \cup {None}
  /\ todo \subseteq (IF job = None THEN {} ELSE job.months)
  /\ finished \subseteq FsVersions
  /\ kills \in 0 .. MaxKills

-----------------------------------------------------------------------------
Init ==
  /\ part = [fs \in FsVersions |-> [month \in BuildMonths |-> None]]
  /\ manifest = [fs \in FsVersions |-> None]
  /\ job = None /\ todo = {} /\ finished = {} /\ kills = 0

StartWrite(build) ==
  /\ job = None
  /\ job' = build /\ todo' = build.months
  /\ UNCHANGED <<part, manifest, finished, kills>>

\* Variant: a partition that is there is left alone.
WritePartIfMissing ==
  /\ job # None /\ todo # {}
  /\ LET month == CHOOSE m \in todo : \A other \in todo : m <= other
     IN  /\ part' = IF part[FsVersion(job)][month] # None THEN part
                    ELSE [part EXCEPT ![FsVersion(job)][month] = job]
         /\ todo' = todo \ {month}
  /\ UNCHANGED <<manifest, job, finished, kills>>

\* The months in order, each by a temporary file and a replace.
WritePart ==
  /\ job # None /\ todo # {}
  /\ LET month == CHOOSE m \in todo : \A other \in todo : m <= other
     IN  /\ part' = [part EXCEPT ![FsVersion(job)][month] = job]
         /\ todo' = todo \ {month}
  /\ UNCHANGED <<manifest, job, finished, kills>>

\* A partition cannot be written: StorageError, the manifest is not touched.
WriteFails ==
  /\ job # None /\ todo # {}
  /\ job' = None /\ todo' = {}
  /\ UNCHANGED <<part, manifest, finished, kills>>

\* Variant: the manifest is written before the partitions.
OpenManifestFirst ==
  /\ job # None /\ manifest[FsVersion(job)] # job
  /\ manifest' = [manifest EXCEPT ![FsVersion(job)] = job]
  /\ UNCHANGED <<part, job, todo, finished, kills>>

\* FeatureManifest.save opens the manifest in place ...
OpenManifest ==
  /\ job # None /\ todo = {} /\ manifest[FsVersion(job)] # Torn
  /\ manifest' = [manifest EXCEPT ![FsVersion(job)] = Torn]
  /\ UNCHANGED <<part, job, todo, finished, kills>>

\* ... and fills it.
FillManifest ==
  /\ job # None /\ todo = {} /\ manifest[FsVersion(job)] = Torn
  /\ manifest' = [manifest EXCEPT ![FsVersion(job)] = job]
  /\ finished' = finished \cup {FsVersion(job)}
  /\ job' = None
  /\ UNCHANGED <<part, todo, kills>>

Kill ==
  /\ job # None /\ kills < MaxKills
  /\ job' = None /\ todo' = {}
  /\ kills' = kills + 1
  /\ UNCHANGED <<part, manifest, finished>>

Next ==
  \/ \E build \in Builds : StartWrite(build)
  \/ WritePart \/ WriteFails \/ OpenManifest \/ FillManifest \/ Kill

Spec == Init /\ [][Next]_vars

-----------------------------------------------------------------------------
\* read_features, by any process at any time: what it raises, or the builds its
\* rows come from.
Stored(fs) == {month \in BuildMonths : part[fs][month] # None}

RowsOf(fs) == {part[fs][month] : month \in Stored(fs)}

\* manifest.json is loaded, the partitions are concatenated, and the columns they
\* share compared with those of the manifest.
ReadError(fs) ==
  IF manifest[fs] = None THEN "StorageError"
  ELSE IF manifest[fs] = Torn THEN "JSONDecodeError"
  ELSE IF Stored(fs) = {} THEN "StorageError"
  ELSE IF \E build, other \in RowsOf(fs) : build.columns # other.columns THEN "StorageError"
  ELSE IF \E build \in RowsOf(fs) : build.columns # manifest[fs].columns THEN "FeatureError"
  ELSE "none"

\* A feature set nobody has finished writing is refused by its readers, whatever
\* partitions interrupted writers left of it.
UnfinishedIsRefused ==
  \A fs \in FsVersions : ReadError(fs) = "none" => fs \in finished

\* A feature set that is read has every month the build in its manifest wrote,
\* also while a later build is being written over it.
ReadIsComplete ==
  \A fs \in FsVersions :
    ReadError(fs) = "none" => manifest[fs].months \subseteq Stored(fs)
=============================================================================
