----------------------------- MODULE MCLoading -----------------------------
(***************************************************************************)
(* Loading with overlays that add, replace and wipe out mappings, options  *)
(* that set a leaf, a mapping or a key below a leaf, and files of those    *)
(* columns that are confused most easily.                                  *)
(***************************************************************************)
EXTENDS Loading

Tree(key, node) == Mapping(key :> node)
InSource(key, node) == Tree("data", Tree("source", Tree(key, node)))

MCBase ==
  Mapping("log_level" :> Leaf("INFO") @@ "paths" :> Tree("data_root", Leaf("data"))
          @@ "data" :> Tree("source", Mapping("path" :> Leaf("a.csv")
                                              @@ "column_map" :> Tree("price", Leaf("last")))))

MCExtraFiles ==
  {InSource("volume_column", Leaf("vol")),
   InSource("column_map", Tree("price", Leaf("close"))),
   Tree("paths", Leaf("null")),
   Tree("log_level", Tree("file", Leaf("WARNING")))}

MCEnvMap ==
  <<[variable |-> "XAUBOT_DATA_ROOT", path |-> <<"paths", "data_root">>],
    [variable |-> "XAUBOT_LOG_LEVEL", path |-> <<"log_level">>]>>

MCEnvironments ==
  {[XAUBOT_LOG_LEVEL |-> Leaf("DEBUG")],
   [XAUBOT_DATA_ROOT |-> Leaf("disk"), XAUBOT_LOG_LEVEL |-> Leaf("")]}

Option(path, node) == [path |-> path, node |-> node]

MCArguments ==
  {Option(<<"log_level">>, Leaf("ERROR")),
   Option(<<"log_level", "file">>, Leaf("ERROR")),
   Option(SourcePath, Tree("path", Leaf("b.csv"))),
   Option(Append(SourcePath, "volume_column"), Leaf("tickvol")),
   Option(Append(SourcePath, "date_column"), Leaf("date")),
   Option(Append(SourcePath, "time_column"), Leaf("time"))}

MCKnownPaths ==
  {<<"log_level">>, <<"paths", "data_root">>, Append(MapPath, "price")}
  \cup {Append(SourcePath, key) : key \in {"path", "volume_column", "date_column", "time_column"}}

MCRequiredPaths == {Append(SourcePath, "path")}
MCUnset == Leaf("")
=============================================================================
