------------------------------ MODULE Loading ------------------------------
(***************************************************************************)
(* From the options of a command to the bars of its file: the resolved     *)
(* configuration (Settings) says which columns the loader takes            *)
(* (CsvLoader), as "data ingest" and ingest() pass it on.                  *)
(***************************************************************************)
EXTENDS Settings, CsvLoader

loadingVars == <<settingsVars, config, header, loaded>>

-----------------------------------------------------------------------------
\* CsvSourceConfig, as far as columns go.
SourcePath == <<"data", "source">>
MapPath == Append(SourcePath, "column_map")

ValueAt(path) ==
  LET found == {leaf \in Leaves(tree) : leaf.path = path}
  IN  IF found = {} THEN None ELSE (CHOOSE leaf \in found : TRUE).value

SourceConfig ==
  LET names == {Last(leaf.path) : leaf \in {l \in Leaves(tree) : IsStrictPrefix(MapPath, l.path)}}
      given(key) == ValueAt(Append(SourcePath, key)) # None
  IN  [map    |-> [name \in names |-> ValueAt(Append(MapPath, name))],
       volume |-> ValueAt(Append(SourcePath, "volume_column")),
       split  |-> given("date_column") /\ given("time_column")]

Init == SettingsInit /\ config = None /\ header = None /\ loaded = None

Resolve == SettingsNext /\ UNCHANGED <<config, header, loaded>>

\* What is left of the layers is the validated configuration.
Configure ==
  /\ stage = "accepted" /\ config = None
  /\ config' = SourceConfig
  /\ tree' = Mapping(<<>>) /\ files' = <<>> /\ env' = <<>> /\ args' = <<>>
  /\ UNCHANGED <<stage, header, loaded>>

LoadFile ==
  /\ config # None
  /\ Load
  /\ UNCHANGED <<settingsVars, config>>

Next == Resolve \/ Configure \/ LoadFile

Spec == Init /\ [][Next]_loadingVars
=============================================================================
