-------------------------------- MODULE Plugins --------------------------------
(***************************************************************************)
(* internal/plugins: plugins are added one by one, in the order of their   *)
(* files, configured, and started after the plugins they depend on.  A     *)
(* plugin that is depended upon before it was added is an object of the    *)
(* map without a plugin, filled in when the plugin comes.                  *)
(***************************************************************************)
EXTENDS Naturals, Sequences, FiniteSets

CONSTANTS Names,        \* of the plugins
          Declarations, \* what DependsOn() may return
          NoPlugin, NoObject

\* Objects of the type dependency: the first that is made for a name, and the
\* one that is made when the name was taken out of the map and comes back.
Objects == Names \X {1, 2}

ASSUME PluginsAssumption ==
    /\ IsFiniteSet(Names) /\ NoPlugin \notin Names /\ NoObject \notin Objects
    /\ \A d \in Declarations : d \in Seq(Names)

VARIABLES
    dependsOn,  \* what each plugin's DependsOn() returns
    phase,      \* "load", "start", "run", "failed" or "panic"
    loaded,     \* plugins addPlugin was called with
    deps,       \* the map from names to objects
    plugin,     \* the plugin of an object
    links,      \* the objects an object depends on
    todo,       \* dependencies addPlugin has not looked at yet
    adding,     \* the plugin it adds
    broken,     \* history: plugins in a cycle that was broken
    configured, \* plugins that were configured
    invoked,    \* objects startPlugin was called for
    stack,      \* of the calls of startPlugin
    order       \* plugins that were started, in this order

pluginsVars == <<dependsOn, phase, loaded, deps, plugin, links, todo, adding,
                 broken, configured, invoked, stack, order>>
graphVars == <<deps, plugin, links>>
startVars == <<invoked, stack, order>>

InMap == {deps[n] : n \in Names} \ {NoObject}

\* The object made for a name that is not in the map.
Fresh(n) == <<n, IF n \in loaded THEN 2 ELSE 1>>

First(I) == CHOOSE i \in I : \A j \in I : i <= j

\* What findPlugin, called on an object, comes to: the name, or an object
\* without a plugin, whose name it asks for all the same.
Finds(name) ==
    LET finds[o \in Objects] ==
            LET Ends == {i \in DOMAIN links[o] : finds[links[o][i]] # "nothing"}
            IN IF plugin[o] = NoPlugin THEN "panic"
               ELSE IF plugin[o] = name THEN "found"
               ELSE IF Ends = {} THEN "nothing"
               ELSE finds[links[o][First(Ends)]]
    IN finds

-----------------------------------------------------------------------------
\* load calls addPlugin: it takes the object that waits for the plugin, or
\* makes one.  A plugin that was added already is refused, and nothing changes.
AddPlugin(p) ==
    /\ phase = "load" /\ adding = NoPlugin /\ p \notin loaded
    /\ loaded' = loaded \cup {p}
    /\ LET o == IF deps[p] = NoObject THEN Fresh(p) ELSE deps[p] IN
          /\ deps' = [deps EXCEPT ![p] = o]
          /\ plugin' = [plugin EXCEPT ![o] = p]
    /\ adding' = p /\ todo' = dependsOn[p]
    /\ UNCHANGED <<dependsOn, phase, links, broken, configured, startVars>>

\* mutant of Link: a dependency that was not added yet is not linked
LinkAdded(o) ==
    LET name == Head(todo) IN
    /\ links' = IF plugin[o] = NoPlugin THEN links
                ELSE [links EXCEPT ![deps[adding]] = Append(@, o)]
    /\ deps' = [deps EXCEPT ![name] = o]
    /\ todo' = Tail(todo)
    /\ UNCHANGED <<phase, plugin, broken, adding>>

\* The next dependency is linked, made first if it is not there.
Link(o) ==
    LET name == Head(todo) IN
    /\ links' = [links EXCEPT ![deps[adding]] = Append(@, o)]
    /\ deps' = [deps EXCEPT ![name] = o]
    /\ todo' = Tail(todo)
    /\ UNCHANGED <<phase, plugin, broken, adding>>

\* A cycle is broken where it is entered, and the plugin leaves the map.
BreakCycle ==
    LET o == deps[Head(todo)] IN
    /\ links' = [links EXCEPT ![o] = <<>>]
    /\ broken' = broken \cup {plugin[o], adding}
    /\ deps' = [deps EXCEPT ![adding] = NoObject]
    /\ adding' = NoPlugin /\ todo' = <<>>
    /\ UNCHANGED <<phase, plugin>>

AddDependency ==
    /\ phase = "load" /\ adding # NoPlugin /\ todo # <<>>
    /\ LET o == deps[Head(todo)] IN
          IF o = NoObject THEN Link(Fresh(Head(todo)))
          ELSE IF plugin[o] = NoPlugin THEN Link(o)
          ELSE CASE Finds(adding)[o] = "nothing" -> Link(o)
                 [] Finds(adding)[o] = "found" -> BreakCycle
                 [] OTHER -> /\ phase' = "panic"
                             /\ UNCHANGED <<graphVars, broken, adding, todo>>
    /\ UNCHANGED <<dependsOn, loaded, configured, startVars>>

Added ==
    /\ phase = "load" /\ adding # NoPlugin /\ todo = <<>>
    /\ adding' = NoPlugin
    /\ UNCHANGED <<dependsOn, phase, loaded, graphVars, todo, broken,
                   configured, startVars>>

\* InitConfigs and SetConfigs call every plugin of the map, there or not.
Configure ==
    /\ phase = "load" /\ adding = NoPlugin
    /\ IF \E o \in InMap : plugin[o] = NoPlugin
       THEN phase' = "panic" /\ UNCHANGED configured
       ELSE phase' = "start" /\ configured' = {plugin[o] : o \in InMap}
    /\ UNCHANGED <<dependsOn, loaded, graphVars, todo, adding, broken,
                   startVars>>

-----------------------------------------------------------------------------
\* startPlugin does nothing the second time it is called for an object.
Invoke(o) == /\ invoked' = invoked \cup {o}
             /\ stack' = Append(stack, o)

\* start calls it for the objects of the map, in any order.
StartRoot ==
    /\ phase = "start" /\ stack = <<>>
    /\ \E o \in InMap \ invoked : Invoke(o)
    /\ UNCHANGED <<dependsOn, phase, loaded, graphVars, todo, adding, broken,
                   configured, order>>

Top == stack[Len(stack)]
Uncalled == {i \in DOMAIN links[Top] : links[Top][i] \notin invoked}

\* It calls itself for the dependencies, in their order,
StartDependency ==
    /\ phase = "start" /\ stack # <<>> /\ Uncalled # {}
    /\ Invoke(links[Top][First(Uncalled)])
    /\ UNCHANGED <<dependsOn, phase, loaded, graphVars, todo, adding, broken,
                   configured, order>>

\* and starts the plugin.  If that fails, nothing else is started.
StartPlugin ==
    /\ phase = "start" /\ stack # <<>> /\ Uncalled = {}
    /\ \/ /\ order' = Append(order, plugin[Top])
          /\ stack' = SubSeq(stack, 1, Len(stack) - 1)
          /\ UNCHANGED phase
       \/ /\ phase' = "failed"
          /\ UNCHANGED <<order, stack>>
    /\ UNCHANGED <<dependsOn, loaded, graphVars, todo, adding, broken,
                   configured, invoked>>

Started ==
    /\ phase = "start" /\ stack = <<>> /\ InMap \subseteq invoked
    /\ phase' = "run"
    /\ UNCHANGED <<dependsOn, loaded, graphVars, todo, adding, broken,
                   configured, startVars>>

-----------------------------------------------------------------------------
PluginsInit ==
    /\ dependsOn \in [Names -> Declarations]
    /\ phase = "load" /\ loaded = {}
    /\ deps = [n \in Names |-> NoObject]
    /\ plugin = [o \in Objects |-> NoPlugin]
    /\ links = [o \in Objects |-> <<>>]
    /\ todo = <<>> /\ adding = NoPlugin /\ broken = {} /\ configured = {}
    /\ invoked = {} /\ stack = <<>> /\ order = <<>>

PluginsNext ==
    \/ \E p \in Names : AddPlugin(p)
    \/ AddDependency \/ Added \/ Configure
    \/ StartRoot \/ StartDependency \/ StartPlugin \/ Started

PluginsSpec == PluginsInit /\ [][PluginsNext]_pluginsVars

-----------------------------------------------------------------------------
PluginsTypeOK ==
    /\ dependsOn \in [Names -> Declarations]
    /\ phase \in {"load", "start", "run", "failed", "panic"}
    /\ loaded \subseteq Names
    /\ deps \in [Names -> Objects \cup {NoObject}]
    /\ plugin \in [Objects -> Names \cup {NoPlugin}]
    /\ \A o \in Objects : links[o] \in Seq(Objects)
    /\ todo \in Seq(Names) /\ adding \in Names \cup {NoPlugin}
    /\ broken \subseteq Names /\ configured \subseteq Names
    /\ invoked \subseteq Objects
    /\ stack \in Seq(Objects) /\ order \in Seq(Names)

Runs(n) == \E i \in DOMAIN order : order[i] = n
Before(m, n) == \E i, j \in DOMAIN order : i < j /\ order[i] = m /\ order[j] = n

\* However the files are ordered, a plugin is started once, after it was
\* configured and after all it depends on: except in a cycle, where the plugin
\* that is depended upon is started without what it needs, and the one that was
\* refused may be started, without its configuration, by those that were linked
\* to it before.
DependenciesFirst ==
    /\ \A i, j \in DOMAIN order : order[i] = order[j] => i = j
    /\ \A n \in Names \ broken :
          Runs(n) => /\ n \in configured
                     /\ \A i \in DOMAIN dependsOn[n] : Before(dependsOn[n][i], n)
=============================================================================
