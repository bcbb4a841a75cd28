----------------------------- MODULE Configuration -----------------------------
(***************************************************************************)
(* config/loader.py (ConfigLoader) and config/schema.py (Config): a        *)
(* loader that is asked again and again, with files, environments and      *)
(* overrides that may be incomplete, misspelt or invalid.                  *)
(*                                                                         *)
(* A dictionary is a function to nodes, a node is a dictionary or a leaf.  *)
(* Values are words; Number says which of them are numbers.  Fields that   *)
(* are checked like another one here (timeouts, intervals) or not at all   *)
(* are left out.                                                           *)
(***************************************************************************)
EXTENDS Integers, Sequences

CONSTANTS Files,          \* contents of config files, as dictionaries, and NoFile
          Environments,   \* sets of variables: names without their prefix, split at "_"
                          \* after the section, to raw values
          Overrides,      \* dictionaries given to load() or load_from_dict()
          NoFile, NoConfig

VARIABLES
    config,         \* self._config
    sources         \* history: what the last load that succeeded was given

config_vars == <<config, sources>>

Leaf(v) == [dict |-> FALSE, is |-> v]
Dict(d) == [dict |-> TRUE, is |-> d]
Empty == <<>>

\* What a section holds are numbers, words and booleans (schema.py), not dictionaries; a
\* variable's name is what its split returns.
ASSUME ConfigAssumption ==
    /\ \A d \in (Files \ {NoFile}) \union Overrides : \A s \in DOMAIN d :
          d[s].dict => \A f \in DOMAIN d[s].is : ~ d[s].is[f].dict
    /\ \A env \in Environments : \A name \in DOMAIN env : name \in Seq(STRING)

Get(d, key, default) == IF key \in DOMAIN d THEN d[key].is ELSE default
-------------------------------------------------------------------------------
(* schema.py *)

Sections == {"runtime", "logging", "observability"}

RuntimeDefaults == [thread_pool_size |-> "10"]
LoggingDefaults == [level |-> "info", output |-> "stdout", file_path |-> "None"]
ObservabilityDefaults ==
    [enable_tracing |-> "False", metrics_port |-> "9090", tracing_endpoint |-> "None"]
Defaults == [runtime |-> RuntimeDefaults, logging |-> LoggingDefaults,
             observability |-> ObservabilityDefaults]

LogLevels == {"debug", "info", "warning", "error"}

Truthy(v) == v \notin {"False", "None", "0", ""}
Number == [v \in {"False", "True", "0", "1", "10", "8080", "9090", "65535", "65536"} |->
             CASE v \in {"False", "0"} -> 0 [] v \in {"True", "1"} -> 1 [] v = "10" -> 10
               [] v = "8080" -> 8080 [] v = "9090" -> 9090 [] v = "65535" -> 65535
               [] v = "65536" -> 65536]

\* Comparing a word that is no number raises TypeError.
IsPort(v) == v \in DOMAIN Number /\ 0 < Number[v] /\ Number[v] < 65536

ServiceValid(s) == Truthy(s.name) /\ IsPort(s.port)
RuntimeValid(r) == r.thread_pool_size \in DOMAIN Number /\ Number[r.thread_pool_size] > 0

LoggingValid(l) == /\ l.output \in {"stdout", "stderr", "file"}
                   /\ l.output = "file" => Truthy(l.file_path)
ObservabilityValid(o) == /\ Truthy(o.metrics_port) => IsPort(o.metrics_port)
                         /\ Truthy(o.enable_tracing) => Truthy(o.tracing_endpoint)

\* Config.validate()
Validates(c) ==
    /\ RuntimeValid(c.runtime) /\ LoggingValid(c.logging) /\ ObservabilityValid(c.observability)
    /\ \A i \in DOMAIN c.services : ServiceValid(c.services[i])
    /\ \A i, j \in DOMAIN c.services : c.services[i].name = c.services[j].name => i = j

\* The dataclasses take no keyword they do not have, LogLevel no word but its own.
Accepts(data) ==
    /\ \A s \in Sections \intersect DOMAIN data :
          data[s].dict /\ DOMAIN data[s].is \subseteq DOMAIN Defaults[s]
    /\ "logging" \in DOMAIN data =>
          Get(data["logging"].is, "level", "info") \in LogLevels

\* What from_dict makes of data it accepts: defaults for what is not given.  Top-level
\* keys it does not know are passed over.
Section(data, s) ==
    LET given == Get(data, s, Empty)
    IN [f \in DOMAIN Defaults[s] |-> Get(given, f, Defaults[s][f])]
FromDict(data) ==
    [runtime |-> Section(data, "runtime"), logging |-> Section(data, "logging"),
     observability |-> Section(data, "observability"), services |-> Get(data, "services", <<>>)]

\* Mutant: the path of the log file is forgotten.
ToDictPathless(c) ==
    [k \in Sections \union {"services"} |->
        CASE k = "services" -> Leaf(c.services)
          [] OTHER -> Dict([f \in DOMAIN Defaults[k] \ {"file_path"} |-> Leaf(c[k][f])])]

ToDict(c) ==
    [k \in Sections \union {"services"} |->
        CASE k = "services" -> Leaf(c.services)
          [] OTHER -> Dict([f \in DOMAIN Defaults[k] |-> Leaf(c[k][f])])]
-------------------------------------------------------------------------------
(* loader.py *)

\* _parse_value: booleans are tried before numbers.
ParseValue(raw) ==
    CASE raw \in {"true", "yes", "1"} -> "True"
      [] raw \in {"false", "no", "0"} -> "False"
      [] OTHER -> raw

\* load_from_env: variables of one part or of another section are passed over; the
\* sections are there even if empty.
LoadFromEnv(env) ==
    [s \in Sections |->
        Dict([f \in {n[2] : n \in {m \in DOMAIN env : Len(m) = 2 /\ m[1] = s}} |->
                 Leaf(ParseValue(env[<<s, f>>]))])]

\* Keys of the override replace those of the base.
Update(base, override) ==
    [k \in DOMAIN base \union DOMAIN override |->
        IF k \in DOMAIN override THEN override[k] ELSE base[k]]

\* Mutant: a section of the override replaces that of the base.
MergeConfigsFlat(base, override) == Update(base, override)

\* Dictionaries are merged at every depth, of which there are two (ConfigAssumption);
\* anything else is replaced.
MergeConfigs(base, override) ==
    LET both == {k \in DOMAIN base \intersect DOMAIN override : base[k].dict /\ override[k].dict}
    IN Update(Update(base, override), [k \in both |-> Dict(Update(base[k].is, override[k].is))])

\* A config that is accepted and valid becomes the loader's, any other raises: the
\* loader keeps the one it has.
Create(data) == Accepts(data) /\ Validates(FromDict(data)) /\ config' = FromDict(data)

\* load(): a file that does not exist is passed over.
Merged(file, env, override) ==
    LET fromFile == IF file = NoFile THEN Empty ELSE MergeConfigs(Empty, file)
    IN MergeConfigs(MergeConfigs(fromFile, LoadFromEnv(env)), override)

Load(file, env, override) ==
    /\ Create(Merged(file, env, override))
    /\ sources' = <<override, env, file>>

\* load_from_file(): here a missing file is an error.
LoadFromFile(file) ==
    /\ file # NoFile /\ Create(file)
    /\ sources' = <<Empty, Empty, file>>

LoadFromDict(data) ==
    /\ Create(data)
    /\ sources' = <<data, Empty, NoFile>>

\* reload() returns the config it has, or raises if there is none.
Reload == config # NoConfig /\ UNCHANGED config_vars

ConfigInit == config = NoConfig /\ sources = <<Empty, Empty, NoFile>>

ConfigNext ==
    \/ \E file \in Files, env \in Environments, override \in Overrides : Load(file, env, override)
    \/ \E file \in Files : LoadFromFile(file)
    \/ \E data \in Overrides : LoadFromDict(data)
    \/ Reload

ConfigSpec == ConfigInit /\ [][ConfigNext]_config_vars
-------------------------------------------------------------------------------
\* What the loader holds has been validated, and its to_dict() can be loaded again and
\* gives the same configuration: also what was pieced together of partial sources.
Reloadable ==
    config # NoConfig =>
        /\ Validates(config) /\ Accepts(ToDict(config))
        /\ FromDict(ToDict(config)) = config

Given(d, s, f) == s \in DOMAIN d /\ d[s].dict /\ f \in DOMAIN d[s].is

\* Field by field the override wins over the environment, that over the file, and that
\* over the default: a source that gives one field of a section hides no other.
Precedence ==
    config # NoConfig =>
        \A s \in Sections : \A f \in DOMAIN Defaults[s] :
            LET override == sources[1] env == sources[2] file == sources[3]
            IN config[s][f] =
                 IF Given(override, s, f) THEN override[s].is[f].is
                 ELSE IF <<s, f>> \in DOMAIN env THEN ParseValue(env[<<s, f>>])
                 ELSE IF file # NoFile /\ Given(file, s, f) THEN file[s].is[f].is
                 ELSE Defaults[s][f]
===============================================================================
