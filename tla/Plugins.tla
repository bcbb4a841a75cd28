-------------------------------- MODULE Plugins --------------------------------
(***************************************************************************)
(* spi/plugin.py: a PluginManager and its plugins, each with the entries   *)
(* of a CachePlugin.                                                       *)
(*                                                                         *)
(* The loops of the manager run over a view of its live dictionary and     *)
(* call plugins.  A plugin that is called may raise; it may also call      *)
(* other plugins, register and unregister any number of them, and begin    *)
(* another loop: loops nest.  A subclass calls super() first, so its state *)
(* has changed by the time it does any of this.  Keys and values are told  *)
(* apart only as far as entries are.                                       *)
(*                                                                         *)
(* Python's dictionary, modelled from how it is used here: a key that is   *)
(* put in takes the next slot, one that is taken out leaves its slot       *)
(* empty, and an insertion that finds no slot free has the others moved    *)
(* together first.  An iterator keeps a slot number, the dictionary's size *)
(* and how many entries it has still to yield.  It raises RuntimeError     *)
(* when the size has changed, or when there is one entry too many.         *)
(***************************************************************************)
EXTENDS Naturals, SequencesExt

CONSTANTS Plugins,        \* plugin objects
          Cache,          \* the one of them that is a CachePlugin
          NameOf,         \* their names
          Keys,           \* what applications cache
          MaxSizes,       \* the values of "max_size" the cache may be configured with
          DefaultSize,    \* 1000 in the code: max_size if it is not configured
          MaxLoops,       \* bound: loops of the manager inside one another
          MaxFilled       \* bound: slots of the dictionary

ASSUME PluginsAssumption ==
    /\ IsFiniteSet(Plugins) /\ Cache \in Plugins
    /\ DefaultSize \in Nat \ {0} /\ MaxSizes \subseteq Nat

VARIABLES
    plugin_state, \* _state of each plugin
    slot,        \* PluginManager._plugins: the slot of each plugin, 0 if it is not registered
    filled,      \* its slots that are, or were, taken
    loops,       \* the loops over all plugins in progress, the innermost last (see CallAll)
    cache,       \* CachePlugin._cache: its keys, the oldest first
    configured,  \* its _config["max_size"]
    max_size,    \* its _max_size, or the default before there is one
    \* History, read by no action, as are "moved" and "readied" of a loop:
    excess       \* how many entries it had when its limit was set, 0 once it was emptied

dictionary == <<slot, filled>>
limits == <<configured, max_size, excess>>
plugin_vars == <<plugin_state, dictionary, loops, cache, limits>>

PluginInit ==
    /\ plugin_state = [p \in Plugins |-> "REGISTERED"]
    /\ slot = [p \in Plugins |-> 0] /\ filled = 0
    /\ loops = <<>>
    /\ cache = <<>> /\ configured = DefaultSize /\ max_size = DefaultSize /\ excess = 0

Registered == {p \in Plugins : slot[p] # 0}

\* The loop whose turn it is.
Innermost == Last(loops)

\* The application is free to call, or the plugin that the innermost loop is calling is.
MayCall == loops # <<>> => Innermost.running
-------------------------------------------------------------------------------
(* A plugin's own operations *)

Ops == {"initialize", "start", "stop", "terminate"}
From == [initialize |-> "REGISTERED", start |-> "INITIALIZED", stop |-> "STARTED"]
Target == [initialize |-> "INITIALIZED", start |-> "STARTED", stop |-> "STOPPED",
           terminate |-> "TERMINATED"]

\* The test of the manager's loops, and of Plugin's methods, of which terminate() alone
\* takes any state.
Applies(op, p) ==
    IF op = "terminate" THEN plugin_state[p] # "TERMINATED" ELSE plugin_state[p] = From[op]

\* The cache's initialize() sets its limit, its terminate() empties it.
Does(op, p) ==
    /\ plugin_state' = [plugin_state EXCEPT ![p] = Target[op]]
    /\ max_size' = IF p = Cache /\ op = "initialize" THEN configured ELSE max_size
    /\ cache' = IF p = Cache /\ op = "terminate" THEN <<>> ELSE cache
    /\ excess' = IF p = Cache /\ op \in {"initialize", "terminate"} THEN Len(cache') ELSE excess
    /\ UNCHANGED configured

\* History: op brings p to the state that loop l looks for.
Readied(l, op, p) ==
    IF l.op # "terminate" /\ From[l.op] = Target[op] THEN [l EXCEPT !.readied = @ \union {p}] ELSE l

\* The application, or a plugin that a loop is calling, calls a plugin itself; terminate() may
\* be called again.
Direct(op, p) ==
    /\ MayCall
    /\ op = "terminate" \/ Applies(op, p)
    /\ Does(op, p)
    /\ loops' = [n \in DOMAIN loops |-> Readied(loops[n], op, p)]
    /\ UNCHANGED dictionary

Configure(size) ==
    /\ MayCall
    /\ configured' = size
    /\ UNCHANGED <<plugin_state, dictionary, loops, cache, max_size, excess>>
-------------------------------------------------------------------------------
(* CachePlugin *)

Evicted(entries) == IF entries = <<>> THEN <<>> ELSE Tail(entries)
Put(kept, key) == IF key \in Range(kept) THEN kept ELSE Append(kept, key)

\* Mutant: the limit is tested one entry late.
SetLate(key) ==
    /\ MayCall
    /\ cache' = Put(IF Len(cache) > max_size THEN Evicted(cache) ELSE cache, key)
    /\ UNCHANGED <<plugin_state, dictionary, loops, limits>>

\* set(): a full cache loses its oldest entry, even if the key is there already; a key that
\* stays keeps its place.
Set(key) ==
    /\ MayCall
    /\ cache' = Put(IF Len(cache) >= max_size THEN Evicted(cache) ELSE cache, key)
    /\ UNCHANGED <<plugin_state, dictionary, loops, limits>>

Clear ==
    /\ MayCall
    /\ cache' = <<>> /\ excess' = 0
    /\ UNCHANGED <<plugin_state, dictionary, loops, configured, max_size>>
-------------------------------------------------------------------------------
(* PluginManager *)

\* The slots of the registered plugins moved together.
Rank(p) ==
    IF p \in Registered THEN Cardinality({q \in Registered : slot[q] <= slot[p]}) ELSE 0

\* The dictionary's table has a slot left, or Python moves the entries together first.  How many
\* slots a table has depends on what it held before: any insertion may be the one to move them.
Register(p) ==
    /\ MayCall
    /\ NameOf[p] \notin {NameOf[q] : q \in Registered}
    /\ \/ /\ filled < MaxFilled
          /\ slot' = [slot EXCEPT ![p] = filled + 1]
          /\ filled' = filled + 1
          /\ UNCHANGED loops
       \/ /\ Cardinality(Registered) < filled
          /\ filled' = Cardinality(Registered) + 1
          /\ slot' = [[q \in Plugins |-> Rank(q)] EXCEPT ![p] = filled']
          /\ loops' = [n \in DOMAIN loops |-> [loops[n] EXCEPT !.moved = TRUE]]
    /\ UNCHANGED <<plugin_state, cache, limits>>

\* A plugin that is not TERMINATED yet is terminated.
Unregister(p) ==
    /\ MayCall
    /\ p \in Registered
    /\ slot' = [slot EXCEPT ![p] = 0]
    /\ IF Applies("terminate", p) THEN Does("terminate", p)
       ELSE UNCHANGED <<plugin_state, cache, limits>>
    /\ UNCHANGED <<filled, loops>>

\* initialize_all, start_all, stop_all, terminate_all begin.  A loop has the slot it has come
\* to, the entries it has still to yield, the size it began with and whether it is calling a
\* plugin; and, as history, whether entries have moved under it, and the plugins that were
\* brought to the state it looks for since it last passed them.
CallAll(op) ==
    /\ MayCall
    /\ Len(loops) < MaxLoops
    /\ LET size == Cardinality(Registered) IN
       loops' = Append(loops, [op |-> op, at |-> 0, left |-> size, size |-> size,
                               running |-> FALSE, moved |-> FALSE, readied |-> {}])
    /\ UNCHANGED <<plugin_state, dictionary, cache, limits>>

Ahead == {p \in Registered : slot[p] > Innermost.at}
SizeKept == Innermost.size = Cardinality(Registered)

\* Mutant: a loop that has come to a plugin in another state takes it for the last one.
PastOrEnds(l, p) ==
    [l EXCEPT !.at = IF Applies(l.op, p) THEN slot[p] ELSE filled,
              !.left = @ - 1, !.running = Applies(l.op, p), !.readied = @ \ {p}]

\* A loop that has come to plugin p; it calls p if p is in the state it looks for.
Past(l, p) ==
    [l EXCEPT !.at = slot[p], !.left = @ - 1, !.running = Applies(l.op, p), !.readied = @ \ {p}]

\* The plugin that was called returns, and the innermost loop comes to the next one.
CallsNext(p) ==
    /\ loops # <<>> /\ SizeKept /\ Innermost.left > 0
    /\ p \in Ahead /\ \A q \in Ahead : slot[p] <= slot[q]
    /\ \/ /\ Applies(Innermost.op, p)
          /\ Does(Innermost.op, p)
          /\ loops' = [n \in DOMAIN loops |->
                         IF n = Len(loops) THEN Past(loops[n], p)
                         ELSE Readied(loops[n], Innermost.op, p)]
       \/ /\ ~Applies(Innermost.op, p)
          /\ loops' = [loops EXCEPT ![Len(loops)] = Past(@, p)]
          /\ UNCHANGED <<plugin_state, cache, limits>>
    /\ UNCHANGED dictionary

\* The plugin that was called raises, its state changed; or the dictionary has another size
\* when the loop goes on, or an entry too many: RuntimeError.  The plugin that began the loop,
\* if one did, catches it or raises in its turn.
AllRaises ==
    /\ loops # <<>>
    /\ Innermost.running \/ ~SizeKept \/ (Ahead # {} /\ Innermost.left = 0)
    /\ loops' = Front(loops)
    /\ UNCHANGED <<plugin_state, dictionary, cache, limits>>

AllReturns ==
    /\ loops # <<>> /\ SizeKept /\ Ahead = {}
    /\ loops' = Front(loops)
    /\ UNCHANGED <<plugin_state, dictionary, cache, limits>>

PluginNext ==
    \/ \E op \in Ops, p \in Plugins : Direct(op, p)
    \/ \E size \in MaxSizes : Configure(size)
    \/ \E key \in Keys : Set(key)
    \/ Clear
    \/ \E p \in Plugins : Register(p)
    \/ \E p \in Plugins : Unregister(p)
    \/ \E op \in Ops : CallAll(op)
    \/ \E p \in Plugins : CallsNext(p)
    \/ AllRaises
    \/ AllReturns

PluginSpec == PluginInit /\ [][PluginNext]_plugin_vars
-------------------------------------------------------------------------------
\* The cache never grows beyond its limit: a limit of 0 still takes one entry, and what was
\* cached before initialize() set the limit is never shed down to it, until it is emptied.
CacheBounded == \E bound \in {1, max_size, excess} : Len(cache) <= bound

\* What a loop that returns may leave behind.  initialize_all and terminate_all leave no
\* registered plugin that is REGISTERED, or not TERMINATED; start_all and stop_all leave one
\* INITIALIZED or STARTED only if a call from inside the loop brought it there after the loop
\* had passed it.  A plugin may also escape a loop, of any of the four, if the dictionary's
\* entries moved under it.
AllReached ==
    [][AllReturns =>
        \A p \in Registered :
            Applies(Innermost.op, p) =>
                \/ Innermost.moved
                \/ Innermost.op \in {"start", "stop"} /\ p \in Innermost.readied]_plugin_vars
===============================================================================
