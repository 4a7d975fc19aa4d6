------------------------------ MODULE Pipeline ------------------------------
(***************************************************************************)
(* The pipeline as it is run from the command line (cli.py): "data ingest" *)
(* fills the bar store from a source that grows, "features build" reads    *)
(* the bars back and writes a feature set.  The two stores share a disk    *)
(* and outlive the processes, of which one runs at a time and any may fail *)
(* or be killed.                                                           *)
(*                                                                         *)
(* A build is identified by its configuration, the months of the bars it   *)
(* read and the version of the source they are of, 0 when they are of no   *)
(* single version.                                                         *)
(***************************************************************************)
EXTENDS BarStore

CONSTANTS Configs,        \* what a build may be configured with: records
                          \*   features  the features configuration
                          \*   context   the context tables it reads
          Deployed,       \* the configuration the feature set is wanted for
          None, TornFile,
          MaxBuildKills   \* bound: builds killed

VARIABLES latest,      \* the newest version of the source
          pending,     \* the command that is still to be run to its end
          rows,        \* FeatureStore: part
          manifest,
          job,
          months,      \* FeatureStore: todo
          finished,
          buildKills   \* FeatureStore: kills

buildVars == <<rows, manifest, job, months, finished, buildKills>>
pipelineVars == <<vars, buildVars, latest, pending>>

Versions == UNION {DOMAIN use.content : use \in Sources}

Builds ==
  [features : {config.features : config \in Configs},
   columns  : {config.context : config \in Configs},
   months   : SUBSET Months,
   of       : Versions \cup {0}]

Features == INSTANCE FeatureStore WITH
  Torn <- TornFile, MaxKills <- MaxBuildKills,
  part <- rows, todo <- months, kills <- buildKills

ASSUME PipelineAssumption ==
  /\ Features!FeatureStoreAssumption
  /\ Deployed \in Configs
  /\ \A config \in Configs : config.context \subseteq ToSet(Tables) \ {Head(Tables)}

-----------------------------------------------------------------------------
\* _load_bars: the base table and then the context tables are read; the first
\* one that cannot be ends the command.
TablesOf(config) == {Head(Tables)} \cup config.context

Unread(config) == {table \in TablesOf(config) : ReadBars(table).error # "none"}

LoadError(config) ==
  LET first == CHOOSE table \in Unread(config) :
                 \A other \in Unread(config) : Position(table) <= Position(other)
  IN  IF Unread(config) = {} THEN "none" ELSE ReadBars(first).error

\* What the bars a build reads are of.
VersionRead(config) ==
  LET whole == {v \in 1 .. version : \A table \in TablesOf(config) :
                  ReadBars(table).bars = source.content[v][table]}
  IN  IF whole = {} THEN 0 ELSE Max(whole)

BuildOf(config) ==
  [features |-> config.features, columns |-> config.context,
   months   |-> {bar.month : bar \in ReadBars(Head(Tables)).bars},
   of       |-> VersionRead(config)]

Idle == stage = "idle" /\ job = None

-----------------------------------------------------------------------------
PipelineInit ==
  /\ Init /\ Features!Init
  /\ latest = 1 /\ pending = "build"

SourceGrows ==
  /\ latest < Len(source.content)
  /\ latest' = latest + 1 /\ pending' = "ingest"
  /\ UNCHANGED <<vars, buildVars>>

\* "data ingest"
RunIngest ==
  /\ Idle
  /\ StartIngest(latest)
  /\ pending' = "ingest"
  /\ UNCHANGED <<buildVars, latest>>

IngestWrites ==
  /\ BeginWrite \/ EndWrite \/ Replace
  /\ UNCHANGED <<buildVars, latest, pending>>

\* The ingestion is done, unless there is a newer version by now.
IngestEnds ==
  /\ Finish
  /\ pending' = IF version = latest THEN "build" ELSE pending
  /\ UNCHANGED <<buildVars, latest>>

IngestIsInterrupted ==
  /\ WriteFails \/ Kill
  /\ UNCHANGED <<buildVars, latest, pending>>

\* "features build": the bars are read, the matrix is computed, and writing it
\* begins.
RunBuild(config) ==
  /\ Idle /\ source.grows
  /\ LoadError(config) = "none"
  /\ Features!StartWrite(BuildOf(config))
  /\ pending' = IF pending = "ingest" THEN "ingest" ELSE "build"
  /\ UNCHANGED <<vars, latest>>

\* Variant: the command ends without saying what to do.
BuildIsRefusedSilently(config) ==
  /\ Idle /\ source.grows
  /\ LoadError(config) # "none"
  /\ UNCHANGED pending
  /\ UNCHANGED <<vars, buildVars, latest>>

\* The bars cannot be read.  On StorageError the command says "Run `xaubot data
\* ingest` first"; SchemaError it does not expect, and says nothing.
BuildIsRefused(config) ==
  /\ Idle /\ source.grows
  /\ LoadError(config) # "none"
  /\ pending' = IF LoadError(config) = "StorageError" THEN "ingest" ELSE pending
  /\ UNCHANGED <<vars, buildVars, latest>>

BuildWrites ==
  /\ Features!WritePart \/ Features!OpenManifest
  /\ UNCHANGED <<vars, latest, pending>>

BuildEnds ==
  /\ Features!FillManifest
  /\ pending' = IF pending = "build" /\ job.features = Deployed.features
                     /\ job.columns = Deployed.context THEN "nothing" ELSE pending
  /\ UNCHANGED <<vars, latest>>

BuildIsInterrupted ==
  /\ Features!WriteFails \/ Features!Kill
  /\ UNCHANGED <<vars, latest, pending>>

Interruption == IngestIsInterrupted \/ BuildIsInterrupted
Work == IngestWrites \/ IngestEnds \/ BuildWrites \/ BuildEnds

Command == RunIngest \/ \E config \in Configs : RunBuild(config) \/ BuildIsRefused(config)

\* The command that is pending is run, and a build that is refused heeded.
FollowUp ==
  \/ pending = "ingest" /\ RunIngest
  \/ pending = "build" /\ (RunBuild(Deployed) \/ BuildIsRefused(Deployed))

PipelineNext ==
  \/ SourceGrows
  \/ Command
  \/ Work \/ Interruption

PipelineSpec == PipelineInit /\ [][PipelineNext]_pipelineVars

\* A process that is not interrupted goes on, and the operator does not give up.
FairPipeline == PipelineSpec /\ WF_pipelineVars(Work) /\ WF_pipelineVars(FollowUp)

-----------------------------------------------------------------------------
\* What a feature set that is read consists of: the rows of one version of the
\* source, all its months.
IsCurrent ==
  LET fs == Features!FsVersion(Deployed)
  IN  /\ Features!ReadError(fs) = "none"
      /\ Features!Stored(fs) = {bar.month : bar \in source.content[latest][Head(Tables)]}
      /\ \A build \in Features!RowsOf(fs) :
           build.of = latest /\ build.columns = Deployed.context

\* When every command that was started or asked for has been run to its end, the
\* wanted feature set is read and is of the newest version of the source in every
\* row, whatever was interrupted, built from half an ingestion or built with
\* another configuration before.
SettledIsCurrent == pending = "nothing" => IsCurrent

\* Once interruptions, new versions and other commands cease, doing what the
\* commands ask for leads to a current feature set and stays there.
Disturbance == Interruption \/ SourceGrows \/ (Command /\ ~FollowUp)

Recovers == source.grows /\ <>[][~Disturbance]_pipelineVars => <>[]IsCurrent

\* A feature set nobody has finished writing is refused by its readers, whatever
\* partitions interrupted builds left of it, and one that is read has every month
\* of the build in its manifest, also while it is being built again.
ReadSetsAreWhole == Features!UnfinishedIsRefused /\ Features!ReadIsComplete
=============================================================================
