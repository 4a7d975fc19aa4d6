----------------------------- MODULE CsvLoader -----------------------------
(***************************************************************************)
(* Which columns of a file become the time, the close and the volume of    *)
(* its bars (data/loaders/csv_loader.py).  A column is its normalised      *)
(* name, and names are distinct; open, high and low are found as the close *)
(* is.  That the values of a column parse is taken for granted.            *)
(***************************************************************************)
EXTENDS Naturals, SequencesExt

CONSTANTS Columns,         \* names a column of the file may have
          MaxColumns,      \* bound: columns of a file
          TimestampColumn, \* timestamp_column
          None             \* no volume_column; no volume; nothing loaded

VARIABLES config,   \* the part of the configuration that names columns: records of
                    \*   map     column_map, from names to fields
                    \*   volume  volume_column
                    \*   split   whether there are a date_column and a time_column
          header,   \* the columns of the file, in their order
          loaded    \* the columns taken, once the file is loaded or refused

-----------------------------------------------------------------------------
Alias == [close |-> "close", price |-> "close", c |-> "close",
          volume |-> "volume", vol |-> "volume", tickvol |-> "volume"]

\* _rename_columns: an explicit name, an alias, or the name itself; then the
\* configured volume column, if there is still a column of that name.
Field(c, name) ==
  LET field == IF name \in DOMAIN c.map THEN c.map[name]
               ELSE IF name \in DOMAIN Alias THEN Alias[name] ELSE name
  IN  IF field = c.volume THEN "volume" ELSE field

Claimants(c, columns, field) == {i \in DOMAIN columns : Field(c, columns[i]) = field}

\* ~columns.duplicated(keep="first")
Source(c, columns, field) ==
  columns[CHOOSE i \in Claimants(c, columns, field) :
            \A j \in Claimants(c, columns, field) : i <= j]

\* The configured name first, then the candidates in this order.
Candidates == <<TimestampColumn, "datetime", "date_time", "timestamp", "time", "date">>

\* Variant: the first column of the file that is a candidate.
TimestampInFileOrder(c, columns) ==
  LET found == {i \in DOMAIN columns : Field(c, columns[i]) \in ToSet(Candidates)}
  IN  IF found = {} THEN None
      ELSE Field(c, columns[CHOOSE i \in found : \A j \in found : i <= j])

Timestamp(c, columns) ==
  LET found == {k \in DOMAIN Candidates : Claimants(c, columns, Candidates[k]) # {}}
  IN  IF found = {} THEN None ELSE Candidates[CHOOSE k \in found : \A l \in found : k <= l]

\* _build_timestamps: the columns the time is read from, or none.  The branch
\* that joins an unconfigured date and time comes after both of them have been
\* tried alone, and is never reached.
Stamp(c, columns) ==
  LET fields == IF c.split THEN <<"date", "time">> ELSE <<Timestamp(c, columns)>>
  IN  IF \A k \in DOMAIN fields : fields[k] # None /\ Claimants(c, columns, fields[k]) # {}
      THEN [k \in DOMAIN fields |-> Source(c, columns, fields[k])] ELSE <<>>

\* load, with _select_ohlcv: refused without a time or a price.
Loaded(c, columns) ==
  IF Stamp(c, columns) = <<>> \/ Claimants(c, columns, "close") = {} THEN {}
  ELSE {[stamp  |-> Stamp(c, columns),
         close  |-> Source(c, columns, "close"),
         volume |-> IF Claimants(c, columns, "volume") = {} THEN None
                    ELSE Source(c, columns, "volume")]}

-----------------------------------------------------------------------------
Headers ==
  {columns \in UNION {[1 .. n -> Columns] : n \in 1 .. MaxColumns} : IsInjective(columns)}

Load ==
  /\ loaded = None
  /\ header' \in Headers
  /\ loaded' = Loaded(config, header')

-----------------------------------------------------------------------------
\* An export of the same columns in another order is loaded as the same bars,
\* unless two of its columns claim one field.
OrderIsImmaterial ==
  loaded # None
    /\ (\A i, j \in DOMAIN header : Field(config, header[i]) = Field(config, header[j]) => i = j)
    => loaded = Loaded(config, SetToSeq(ToSet(header)))
=============================================================================
