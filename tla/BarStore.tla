------------------------------ MODULE BarStore ------------------------------
(***************************************************************************)
(* The Parquet bar store (data/store.py) as the ingestion pipeline         *)
(* (data/pipeline.py) writes it and the command line reads it.             *)
(*                                                                         *)
(* One table per timeframe, one directory per month, and in it at most     *)
(* part.parquet and a temporary file.  The writer may be killed between    *)
(* any two steps; what is on disk then stays there.                        *)
(*                                                                         *)
(* The ingestion overwrites partitions.  Its source grows, a later version *)
(* holding at least the bars of an earlier one, or it drops whole months.  *)
(* write_bars can also merge with what is there, and a source then         *)
(* delivers some bars at a time.  What a store is used for is chosen in    *)
(* Init.                                                                   *)
(***************************************************************************)
EXTENDS Integers, Sequences, FiniteSets, SequencesExt

CONSTANTS Tables,     \* in the order they are written, the base timeframe first
          Months,     \* numbered
          Sources     \* the uses of a store: records of
                      \*   overwrite  write_bars(overwrite=...)
                      \*   grows      whether versions lose no bar, and overwrite
                      \*   content    content[v][table]: the bars version v gives
                      \*   kills      bound: processes killed

Files == ToSet(Tables) \X Months

\* A file: not there, not all there, or a whole table of bars.
Absent      == [state |-> "absent", bars |-> {}]
Torn        == [state |-> "torn", bars |-> {}]
Whole(bars) == [state |-> "whole", bars |-> bars]

\* The stamps of a table are its key, and the month of a bar is that of its stamp.
StampsAreKeys(content) ==
  \A v, w \in DOMAIN content, table \in ToSet(Tables) :
    \A bar \in content[v][table], other \in content[w][table] :
      bar.at = other.at => bar.month = other.month /\ (v = w => bar = other)

\* What overwrites a store keeps the stamps it has had, unless it has dropped a
\* month of a table as a whole.
StampsAreKept(use) ==
  \A v \in DOMAIN use.content, table \in ToSet(Tables) :
    \A w \in v .. Len(use.content), bar \in use.content[v][table] :
      \/ \E kept \in use.content[w][table] : kept.at = bar.at
      \/ ~use.grows /\ \A kept \in use.content[w][table] : kept.month # bar.month

\* resample_many raises for a timeframe without bars before anything is written.
StoreAssumption ==
  /\ Tables \in Seq(STRING) \ {<<>>} /\ Months \subseteq Nat
  /\ \A i, j \in DOMAIN Tables : Tables[i] = Tables[j] => i = j
  /\ \A use \in Sources :
    /\ {use.overwrite, use.grows} \subseteq BOOLEAN /\ use.kills \in Nat
    /\ use.grows => use.overwrite
    /\ Len(use.content) \in Nat \ {0} /\ DOMAIN use.content = 1 .. Len(use.content)
    /\ \A v \in DOMAIN use.content : \A table \in ToSet(Tables) :
         use.content[v][table] # {} /\ \A bar \in use.content[v][table] : bar.month \in Months
    /\ StampsAreKeys(use.content)
    /\ use.overwrite => StampsAreKept(use)

ASSUME StoreAssumption

VARIABLES source,    \* what the store is used for
          part,      \* part.parquet of each directory
          tmp,       \* part.parquet.tmp of each directory
          version,   \* the version of the source last ingested, or being ingested
          todo,      \* the files the running ingestion has still to write
          stage,     \* what it is doing with the first of them
          complete,  \* whether the last ingestion wrote everything
          kills

vars == <<source, part, tmp, version, todo, stage, complete, kills>>

-----------------------------------------------------------------------------
\* The bars of one month of a version, and the files an ingestion writes:
\* write_bars for the base timeframe, then for each of the others, each month
\* by month.
Chunk(v, file) == {bar \in source.content[v][file[1]] : bar.month = file[2]}

Position(table) == CHOOSE i \in DOMAIN Tables : Tables[i] = table

FilesToWrite(v) == {file \in Files : Chunk(v, file) # {}}

\* Variant: the context tables are written first.
BeforeContextFirst(f, g) ==
  Position(f[1]) > Position(g[1]) \/ (f[1] = g[1] /\ f[2] < g[2])

Before(f, g) == Position(f[1]) < Position(g[1]) \/ (f[1] = g[1] /\ f[2] < g[2])

\* The one of the files left that is written now.
NextFile == CHOOSE file \in todo : \A other \in todo : other = file \/ Before(file, other)

\* Variant: the bars that are there are dropped.
PayloadNewOnly(existing, new) == new

\* Variant: the bars that are there win.
PayloadOldWins(existing, new) ==
  existing \cup {bar \in new : \A other \in existing : other.at # bar.at}

\* What is written: the new bars, or, when existing partitions are kept, the
\* two together, the new bars winning.
Payload(existing, new) ==
  IF source.overwrite THEN new
  ELSE new \cup {bar \in existing : \A other \in new : other.at # bar.at}

Init ==
  /\ source \in Sources
  /\ part = [file \in Files |-> Absent]
  /\ tmp = [file \in Files |-> Absent]
  /\ version = 0 /\ todo = {} /\ stage = "idle" /\ complete = FALSE /\ kills = 0

StartIngest(v) ==
  /\ stage = "idle"
  /\ version' = v
  /\ todo' = FilesToWrite(v)
  /\ stage' = "next" /\ complete' = FALSE
  /\ UNCHANGED <<source, part, tmp, kills>>

\* Variant: the partition itself is opened for writing.
BeginWriteInPlace ==
  /\ stage = "next" /\ todo # {}
  /\ part' = [part EXCEPT ![NextFile] = Torn]
  /\ stage' = "writing"
  /\ UNCHANGED <<source, tmp, version, todo, complete, kills>>

\* pq.write_table opens the temporary file ...
BeginWrite ==
  /\ stage = "next" /\ todo # {}
  /\ tmp' = [tmp EXCEPT ![NextFile] = Torn]
  /\ stage' = "writing"
  /\ UNCHANGED <<source, part, version, todo, complete, kills>>

\* ... and closes it.
EndWrite ==
  /\ stage = "writing"
  /\ LET file == NextFile
     IN  tmp' = [tmp EXCEPT ![file] = Whole(Payload(part[file].bars, Chunk(version, file)))]
  /\ stage' = "written"
  /\ UNCHANGED <<source, part, version, todo, complete, kills>>

\* Variant: the temporary file is copied and not renamed.
ReplaceByCopy ==
  /\ stage = "written"
  /\ part' = [part EXCEPT ![NextFile] = tmp[NextFile]]
  /\ todo' = todo \ {NextFile}
  /\ stage' = "next"
  /\ UNCHANGED <<source, tmp, version, complete, kills>>

\* tmp.replace(target)
Replace ==
  /\ stage = "written"
  /\ part' = [part EXCEPT ![NextFile] = tmp[NextFile]]
  /\ tmp' = [tmp EXCEPT ![NextFile] = Absent]
  /\ todo' = todo \ {NextFile}
  /\ stage' = "next"
  /\ UNCHANGED <<source, version, complete, kills>>

Finish ==
  /\ stage = "next" /\ todo = {}
  /\ stage' = "idle" /\ complete' = TRUE
  /\ UNCHANGED <<source, part, tmp, version, todo, kills>>

\* Writing or replacing fails: the temporary file is removed, StorageError ends
\* the ingestion.
WriteFails ==
  /\ stage \in {"writing", "written"}
  /\ tmp' = [tmp EXCEPT ![NextFile] = Absent]
  /\ todo' = {} /\ stage' = "idle"
  /\ UNCHANGED <<source, part, version, complete, kills>>

\* The process is killed.
Kill ==
  /\ stage # "idle" /\ kills < source.kills
  /\ todo' = {} /\ stage' = "idle"
  /\ kills' = kills + 1
  /\ UNCHANGED <<source, part, tmp, version, complete>>

Next ==
  \/ \E v \in DOMAIN source.content : v >= version /\ StartIngest(v)
  \/ BeginWrite \/ EndWrite \/ Replace \/ Finish \/ WriteFails \/ Kill

Spec == Init /\ [][Next]_vars

-----------------------------------------------------------------------------
\* read_bars: it scans the directory of the table, whatever its files are
\* called, and a bar it finds twice is refused by the BarFrame it builds.
Scanned(table) ==
  {scan \in [name : {"part.parquet", "part.parquet.tmp"}, file : {table} \X Months] :
     (IF scan.name = "part.parquet" THEN part ELSE tmp)[scan.file] # Absent}

Found(scan) == (IF scan.name = "part.parquet" THEN part ELSE tmp)[scan.file]

ReadBars(table) ==
  LET torn  == \E scan \in Scanned(table) : Found(scan) = Torn
      twice == \E s, u \in Scanned(table) : s # u
                 /\ \E bar \in Found(s).bars, other \in Found(u).bars : bar.at = other.at
  IN  IF Scanned(table) = {} \/ torn THEN [error |-> "StorageError", bars |-> {}]
      ELSE IF twice THEN [error |-> "SchemaError", bars |-> {}]
      ELSE [error |-> "none", bars |-> UNION {Found(scan).bars : scan \in Scanned(table)}]

\* Once an ingestion has run to its end, whatever was interrupted before it,
\* readers get its bars, all of them and nothing else of the months it has, from
\* every table.  What an earlier version left of other months stays, and only
\* what a killed writer left there can make the table unreadable.
Gone(table) == {month \in Months : Chunk(version, <<table, month>>) = {}}

CompleteIngestIsRead ==
  source.overwrite /\ complete => \A table \in ToSet(Tables) :
    (\A month \in Gone(table) : tmp[<<table, month>>] = Absent) =>
      /\ ReadBars(table).error = "none"
      /\ {bar \in ReadBars(table).bars : bar.month \notin Gone(table)}
           = source.content[version][table]

\* So with existing partitions kept, as long as no process is killed: what the
\* last ingestion brought is read, beside what was there, also after failed
\* writes.
NewBarsAreRead ==
  complete /\ kills = 0 => \A table \in ToSet(Tables) :
    /\ ReadBars(table).error = "none"
    /\ source.content[version][table] \subseteq ReadBars(table).bars

\* A month is never half-written: a partition holds the whole month of one
\* version of the source (data/store.py, "Writes are per-partition and atomic").
Vintage(file) == {v \in 1 .. version : part[file] = Whole(Chunk(v, file))}

PartitionsAreWhole ==
  source.overwrite => \A file \in Files : part[file] # Absent => Vintage(file) # {}

\* However ingestions are interrupted, context is never newer than the base bars it
\* was resampled from: a month of context is of a version of the source of which
\* every month of base bars is stored, as of then or later.  The base table is
\* written first.
ContextIsNotAhead ==
  source.overwrite => \A file \in Files :
    part[file] # Absent /\ file[1] # Head(Tables) =>
      \E v \in Vintage(file) : \A month \in Months :
        LET base == <<Head(Tables), month>>
        IN  Chunk(v, base) # {} => \E w \in Vintage(base) : v <= w

\* No stamp once stored is lost: with existing partitions kept because they are
\* merged, with them overwritten because the source grows, or because a month it
\* drops is left alone.
NoStampIsLost ==
  [][\A file \in Files : \A bar \in part[file].bars :
       \E kept \in part'[file].bars : kept.at = bar.at]_vars

\* data/store.py: "an interrupted ingest cannot leave a half-written month
\* behind".  With no ingestion running, a table that has a partition is read.
InterruptedIngestIsHarmless ==
  stage = "idle" => \A table \in ToSet(Tables) :
    (\E month \in Months : part[<<table, month>>] # Absent)
      => ReadBars(table).error = "none"
=============================================================================
