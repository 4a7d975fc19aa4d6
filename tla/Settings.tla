------------------------------ MODULE Settings ------------------------------
(***************************************************************************)
(* How the configuration of a command comes about (config/loader.py, the   *)
(* options of cli.py): YAML files merged one over the other, environment   *)
(* variables, the dotted keys of --set, and the validation at the end.     *)
(*                                                                         *)
(* A configuration is a tree: a leaf holds a value, a mapping has nodes    *)
(* under its keys.  A path is a sequence of keys.                          *)
(***************************************************************************)
EXTENDS Naturals, SequencesExt

CONSTANTS BaseFile,      \* the tree of base.yaml
          ExtraFiles,    \* trees of the files that may be given with --config
          MaxFiles,      \* bound: files given
          EnvMap,        \* a sequence of the pairs of ENV_MAP: variable, path
          Environments,  \* functions from variables that are set to their nodes
          Unset,         \* the node of a variable set to nothing
          Arguments,     \* the --set options that may be given: path and node
          MaxArguments,  \* bound: options given
          KnownPaths,    \* the paths of the schema's fields
          RequiredPaths  \* those that have no default

VARIABLES tree,    \* the configuration so far
          stage,   \* "files", "env", "overrides", "accepted" or "refused"
          files,   \* the files layered so far
          env,     \* the environment, once it is overlaid
          args     \* the --set options given, in their order

settingsVars == <<tree, stage, files, env, args>>

-----------------------------------------------------------------------------
Leaf(value) == [value |-> value]
Mapping(nodes) == [keys |-> nodes]
IsMapping(node) == DOMAIN node = {"keys"}

HasMapping(node, key) == key \in DOMAIN node.keys /\ IsMapping(node.keys[key])

With(node, key, under) == Mapping((key :> under) @@ node.keys)

\* Variant: the top level alone is merged.
ShallowMerge(base, override) == Mapping(override.keys @@ base.keys)

\* Mappings are merged; anything else replaces what was there.
RECURSIVE DeepMerge(_, _)
DeepMerge(base, override) ==
  Mapping([key \in DOMAIN override.keys |->
             IF HasMapping(override, key) /\ HasMapping(base, key)
             THEN DeepMerge(base.keys[key], override.keys[key])
             ELSE override.keys[key]]
          @@ base.keys)

\* Mappings are made on the way where there are none.
RECURSIVE SetDotted(_, _, _)
SetDotted(target, path, node) ==
  With(target, Head(path),
       IF Len(path) = 1 THEN node
       ELSE SetDotted(IF HasMapping(target, Head(path)) THEN target.keys[Head(path)]
                      ELSE Mapping(<<>>), Tail(path), node))

\* apply_env, in the order of ENV_MAP.
ApplyEnv(target, environ) ==
  FoldLeft(LAMBDA t, entry :
             IF entry.variable \in DOMAIN environ /\ environ[entry.variable] # Unset
             THEN SetDotted(t, entry.path, environ[entry.variable]) ELSE t,
           target, EnvMap)

\* _parse_overrides makes a dictionary of the options: a key that is given again
\* keeps its place and changes its value.
Overrides(options) ==
  LET LastOf(option) == SelectLastInSeq(options, LAMBDA o : o.path = option.path)
      isFirst(i) == \A j \in 1 .. i - 1 : options[j].path # options[i].path
      firsts == SelectSeq([i \in DOMAIN options |-> i], isFirst)
  IN  [k \in DOMAIN firsts |-> options[LastOf(options[firsts[k]])]]

ApplyOverrides(target, options) ==
  FoldLeft(LAMBDA t, option : SetDotted(t, option.path, option.node), target, Overrides(options))

\* What a tree says: the paths of its leaves and their values.
RECURSIVE Leaves(_)
Leaves(node) ==
  IF ~IsMapping(node) THEN {[path |-> <<>>, value |-> node.value]}
  ELSE UNION {{[leaf EXCEPT !.path = <<key>> \o @] : leaf \in Leaves(node.keys[key])} :
                key \in DOMAIN node.keys}

\* model_validate: a key the schema does not have is an error, as is one that is
\* missing.  That values are of the right kind is taken for granted.
Validates(node) ==
  LET paths == {leaf.path : leaf \in Leaves(node)}
  IN  RequiredPaths \subseteq paths /\ paths \subseteq KnownPaths

-----------------------------------------------------------------------------
SettingsInit ==
  /\ tree = BaseFile /\ stage = "files"
  /\ files = <<BaseFile>> /\ env = <<>> /\ args = <<>>

LayerFile ==
  /\ stage = "files" /\ Len(files) <= MaxFiles
  /\ \E file \in ExtraFiles :
       /\ tree' = DeepMerge(tree, file)
       /\ files' = Append(files, file)
  /\ UNCHANGED <<stage, env, args>>

OverlayEnv ==
  /\ stage = "files"
  /\ \E environ \in Environments :
       /\ tree' = ApplyEnv(tree, environ)
       /\ env' = environ
  /\ stage' = "env"
  /\ UNCHANGED <<files, args>>

Override ==
  /\ stage = "env"
  /\ \E n \in 0 .. MaxArguments : \E options \in [1 .. n -> Arguments] :
       /\ tree' = ApplyOverrides(tree, options)
       /\ args' = options
  /\ stage' = "overrides"
  /\ UNCHANGED <<files, env>>

Validate ==
  /\ stage = "overrides"
  /\ stage' = IF Validates(tree) THEN "accepted" ELSE "refused"
  /\ UNCHANGED <<tree, files, env, args>>

SettingsNext == LayerFile \/ OverlayEnv \/ Override \/ Validate

-----------------------------------------------------------------------------
\* The layers that have spoken, in the order in which later ones win: what each
\* says, and the paths under which it leaves nothing that was said before.
SetInEnv == {entry \in ToSet(EnvMap) : entry.variable \in DOMAIN env /\ env[entry.variable] # Unset}

Said(path, node) == {[leaf EXCEPT !.path = path \o @] : leaf \in Leaves(node)}

FileLayers == [i \in DOMAIN files |->
  [says |-> Leaves(files[i]), about |-> {leaf.path : leaf \in Leaves(files[i])}]]

EnvLayer ==
  [says  |-> UNION {Said(entry.path, env[entry.variable]) : entry \in SetInEnv},
   about |-> {entry.path : entry \in SetInEnv}]

ArgumentLayers == [i \in DOMAIN args |->
  [says |-> Said(args[i].path, args[i].node), about |-> {args[i].path}]]

Layers == FileLayers \o <<EnvLayer>> \o ArgumentLayers

Concern(path, other) == IsPrefix(path, other) \/ IsPrefix(other, path)

\* The resolution order of config/loader.py:3, later wins: the configuration says
\* what some layer says about a path unless a later layer says something about it,
\* about a mapping above it or about a key below it.  Nothing else is lost, and
\* nothing is made up.  Options are taken to have distinct keys: "--set a.b=1
\* --set a=2 --set a.b=3" is a=2, because a.b keeps its place before a.
LaterLayersWin ==
  (\A i, j \in DOMAIN args : args[i].path = args[j].path => i = j)
    => Leaves(tree) =
         {leaf \in UNION {Layers[i].says : i \in DOMAIN Layers} :
            \E i \in DOMAIN Layers :
              /\ leaf \in Layers[i].says
              /\ \A j \in i + 1 .. Len(Layers) :
                   \A path \in Layers[j].about : ~Concern(path, leaf.path)}
=============================================================================
