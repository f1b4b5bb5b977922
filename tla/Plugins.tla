------------------------------ MODULE Plugins ------------------------------
(***************************************************************************)
(* nexus.plugins.PluginManager over the capability registry, the runtime's *)
(* handler table and the router.  One thread calls the manager, the host's *)
(* registrations, the router and the learning pipeline; the executor's     *)
(* dispatcher looks handlers up at any moment, so a manager call is        *)
(* a list of the single calls it makes on the registry and the table.      *)
(* A call that raises before it changes anything is no step at all.        *)
(***************************************************************************)
EXTENDS Integers, Sequences, SequencesExt

CONSTANTS
    CapIds,      \* capability ids, <<name, version>>
    Packages,    \* plugin packages: [name, version, caps]
    Reviewed,    \* those that pass validation and permission review
    Refused,     \* ids whose manifest the registry's own policy rejects
    Builtins,    \* ids the host registers itself
    Probed,      \* those it registers with a health probe
    Tasks,       \* the tasks of a plan
    Serves,      \* task -> ids of the capability type it asks for
    Denied,      \* capability names the routing policy never uses
    RequireHealthy,
    MaxHistory,  \* bound: superseded versions in a plugin's history
    MaxOutcomes  \* bound: verified outcomes of a registration

CapsOf(p) == ToSet(p.caps)
NamesOf(p) == {k[1] : k \in CapsOf(p)}
PluginNames == {p.name : p \in Packages}
VersionNames == {p.version : p \in Packages}

NoBinding == <<>>

ASSUME PackagesAssumption ==
    /\ Packages \subseteq [name : PluginNames, version : VersionNames, caps : Seq(CapIds)]
    /\ \A p \in Packages : Len(p.caps) > 0 /\ IsInjective([i \in DOMAIN p.caps |-> p.caps[i][1]])
    /\ \A p, q \in Packages : p.name = q.name /\ p.version = q.version => p = q
    /\ Reviewed \subseteq Packages
ASSUME HostAssumption ==
    /\ NoBinding \notin CapIds
    /\ Refused \subseteq CapIds /\ Builtins \subseteq CapIds /\ Probed \subseteq Builtins
    /\ Serves \in [Tasks -> SUBSET CapIds] /\ RequireHealthy \in BOOLEAN
    /\ MaxHistory \in Nat /\ MaxOutcomes \in Nat

NoPlugin == [status |-> "NONE"]
Absent == [status |-> "ABSENT"]
NoHandler == [name |-> "no handler"]
Host == [name |-> "host"]
Steps == [do : {"retire", "drop", "register", "bind"}, cap : CapIds]
Idle == [call |-> "idle", todo |-> <<>>]

VARIABLES
    plugins,   \* PluginManager._plugins
    registry,  \* CapabilityRegistry._records
    probes,    \* CapabilityRegistry._probes, its keys
    handlers,  \* Runtime._handlers: the package a handler was loaded from
    op,        \* the manager call in progress
    binding,   \* Task.capability_binding
    routed,    \* what the last Router.route_plan came to
    leftover,  \* history: active ids registered by a wiring that raised
    torn       \* history: plugins whose update raised after unwiring

vars == <<plugins, registry, probes, handlers, op, binding, routed, leftover, torn>>
router == <<binding, routed>>
records == <<plugins, registry, probes, handlers, leftover, torn>>

Init ==
    /\ plugins = [n \in PluginNames |-> NoPlugin]
    /\ registry = [k \in CapIds |-> Absent]
    /\ probes = {}
    /\ handlers = [k \in CapIds |-> NoHandler]
    /\ op = Idle
    /\ binding = [t \in Tasks |-> NoBinding]
    /\ routed = "never"
    /\ leftover = {} /\ torn = {}

Active(k) == registry[k].status = "ACTIVE"
Present(n) == plugins[n].status \in {"INSTALLED", "DISABLED"}

-----------------------------------------------------------------------------
(* The registry. *)

(* register raises for what is active and for what its policy rejects;      *)
(* what is retired starts again, with a new record.                         *)
CanRegister(k) == ~Active(k) /\ k \notin Refused
NewRecord == [status |-> "ACTIVE", health |-> "UNKNOWN", outcomes |-> <<>>]

RegisterBuiltin(k) ==
    /\ op = Idle /\ CanRegister(k)
    /\ registry' = [registry EXCEPT ![k] = NewRecord]
    /\ probes' = probes \cup ({k} \cap Probed)
    /\ handlers' = [handlers EXCEPT ![k] = Host]
    /\ UNCHANGED <<plugins, op, router, leftover, torn>>

CheckHealth(k) ==
    /\ op = Idle /\ registry[k] # Absent /\ k \in probes
    /\ \E health \in {"HEALTHY", "UNHEALTHY"} :
         registry' = [registry EXCEPT ![k].health = health]
    /\ UNCHANGED <<plugins, probes, handlers, op, router, leftover, torn>>

(* record_outcome, as Cog calls it with verified evidence of a run: for the *)
(* binding a task has by then.  The scores are a function of the manifest's *)
(* and of the outcomes.                                                     *)
RecordOutcome(t) ==
    /\ op = Idle /\ binding[t] # NoBinding /\ registry[binding[t]] # Absent
    /\ Len(registry[binding[t]].outcomes) < MaxOutcomes
    /\ \E success \in BOOLEAN :
         registry' = [registry EXCEPT ![binding[t]].outcomes = Append(@, success)]
    /\ UNCHANGED <<plugins, probes, handlers, op, router, leftover, torn>>

-----------------------------------------------------------------------------
(* The manager's calls: guards, and the steps that follow. *)

(* For each capability in turn: retire its record, drop its handler.        *)
UnwireSteps(p) ==
    [i \in 1 .. 2 * Len(p.caps) |->
        [do |-> IF i % 2 = 1 THEN "retire" ELSE "drop", cap |-> p.caps[(i + 1) \div 2]]]

(* Fault: capability after capability is registered and bound. *)
WireEach(p) ==
    [i \in 1 .. 2 * Len(p.caps) |->
        [do |-> IF i % 2 = 1 THEN "register" ELSE "bind", cap |-> p.caps[(i + 1) \div 2]]]

(* Fault: bind all, then register all. *)
WireBindFirst(p) ==
    [i \in DOMAIN p.caps |-> [do |-> "bind", cap |-> p.caps[i]]] \o
    [i \in DOMAIN p.caps |-> [do |-> "register", cap |-> p.caps[i]]]

(* Register all, then bind all. *)
WireSteps(p) ==
    [i \in DOMAIN p.caps |-> [do |-> "register", cap |-> p.caps[i]]] \o
    [i \in DOMAIN p.caps |-> [do |-> "bind", cap |-> p.caps[i]]]

(* Fault: a disabled plugin does not keep its names. *)
FreeOfInstalled(p, own) ==
    \A n \in PluginNames \ own :
        plugins[n].status = "INSTALLED" => NamesOf(plugins[n].package) \cap NamesOf(p) = {}

(* _validate_and_load: no other plugin that is not removed, disabled ones   *)
(* included, provides a capability of that name.                            *)
Free(p, own) ==
    \A n \in PluginNames \ own :
        Present(n) => NamesOf(plugins[n].package) \cap NamesOf(p) = {}

Begin(call, p, todo) ==
    /\ op = Idle
    /\ op' = [call |-> call, package |-> p, todo |-> todo]
    /\ UNCHANGED <<records, router>>

HistoryOf(n) ==
    IF plugins[n] = NoPlugin THEN <<>>
    ELSE Append(plugins[n].previous, plugins[n].package.version)

Install(p) ==
    /\ p \in Reviewed /\ ~Present(p.name) /\ Len(HistoryOf(p.name)) <= MaxHistory
    /\ Free(p, {})
    /\ Begin("install", p, WireSteps(p))

Update(p) ==
    /\ p \in Reviewed /\ Present(p.name) /\ Len(HistoryOf(p.name)) <= MaxHistory
    /\ p.version # plugins[p.name].package.version
    /\ Free(p, {p.name})
    /\ Begin("update", p, UnwireSteps(plugins[p.name].package) \o WireSteps(p))

Disable(n) ==
    /\ plugins[n].status = "INSTALLED"
    /\ Begin("disable", plugins[n].package, UnwireSteps(plugins[n].package))

Enable(n) ==
    /\ plugins[n].status = "DISABLED"
    /\ Begin("enable", plugins[n].package, WireSteps(plugins[n].package))

(* Fault: a disabled plugin is unwired once more. *)
RemoveUnwires(n) ==
    /\ Present(n)
    /\ Begin("remove", plugins[n].package, UnwireSteps(plugins[n].package))

RemovePlugin(n) ==
    /\ Present(n)
    /\ Begin("remove", plugins[n].package,
             IF plugins[n].status = "INSTALLED" THEN UnwireSteps(plugins[n].package)
             ELSE <<>>)

-----------------------------------------------------------------------------
(* The steps of a call. *)

At(do, k) == op.todo # <<>> /\ Head(op.todo) = [do |-> do, cap |-> k]
Wires(call) == call \in {"install", "update", "enable"}
GoOn == op' = [op EXCEPT !.todo = Tail(@)]

(* retire only what is registered and active. *)
Retire(k) ==
    /\ At("retire", k) /\ GoOn
    /\ registry' = IF Active(k) THEN [registry EXCEPT ![k].status = "RETIRED"]
                   ELSE registry
    /\ leftover' = leftover \ {k}
    /\ UNCHANGED <<plugins, probes, handlers, router, torn>>

Drop(k) ==
    /\ At("drop", k) /\ GoOn
    /\ handlers' = [handlers EXCEPT ![k] = NoHandler]
    /\ UNCHANGED <<plugins, registry, probes, router, leftover, torn>>

Register(k) ==
    /\ At("register", k) /\ CanRegister(k) /\ GoOn
    /\ registry' = [registry EXCEPT ![k] = NewRecord]
    /\ UNCHANGED <<plugins, probes, handlers, router, leftover, torn>>

(* Fault: the error is logged and the call goes on. *)
RegisterSwallows(k) ==
    /\ At("register", k) /\ ~CanRegister(k) /\ GoOn
    /\ UNCHANGED <<plugins, registry, probes, handlers, router, leftover, torn>>

(* RegistryError out of _wire: nothing undoes what the call has done. *)
RegisterRaises(k) ==
    /\ At("register", k) /\ ~CanRegister(k)
    /\ op' = Idle
    /\ leftover' = leftover \cup
         {c \in CapsOf(op.package) : [do |-> "register", cap |-> c] \notin ToSet(op.todo)}
    /\ torn' = IF op.call = "update" THEN torn \cup {op.package.name} ELSE torn
    /\ UNCHANGED <<plugins, registry, probes, handlers, router>>

Bind(k) ==
    /\ At("bind", k) /\ GoOn
    /\ handlers' = [handlers EXCEPT ![k] = op.package]
    /\ UNCHANGED <<plugins, registry, probes, router, leftover, torn>>

(* The end of a call: the new record, or the new status of the old one.     *)
Finish ==
    /\ op # Idle /\ op.todo = <<>>
    /\ op' = Idle
    /\ LET n == op.package.name IN
       /\ plugins' = [plugins EXCEPT ![n] =
            CASE op.call \in {"install", "update"} ->
                   [status |-> "INSTALLED", package |-> op.package, previous |-> HistoryOf(n)]
              [] op.call = "enable"  -> [@ EXCEPT !.status = "INSTALLED"]
              [] op.call = "disable" -> [@ EXCEPT !.status = "DISABLED"]
              [] op.call = "remove"  -> [@ EXCEPT !.status = "REMOVED"]]
       /\ torn' = torn \ {n}
    /\ UNCHANGED <<registry, probes, handlers, router, leftover>>

-----------------------------------------------------------------------------
(* The router.  Which eligible candidate scores best is left open. *)

(* Fault: find(..., include_retired=True). *)
CandidatesOfAnyStatus(t) == {k \in Serves[t] : registry[k] # Absent}

Candidates(t) == {k \in Serves[t] : Active(k)}

Eligible(t) ==
    {k \in Candidates(t) : /\ k[1] \notin Denied
                           /\ registry[k].health # "UNHEALTHY"
                           /\ RequireHealthy => registry[k].health = "HEALTHY"}

(* route_plan binds what it can, and raises when it could not bind all: an  *)
(* unroutable task keeps the binding it had.                                *)
RoutePlan ==
    /\ op = Idle
    /\ \E chosen \in [Tasks -> CapIds \cup {NoBinding}] :
         /\ \A t \in Tasks : IF Eligible(t) = {} THEN chosen[t] = binding[t]
                             ELSE chosen[t] \in Eligible(t)
         /\ binding' = chosen
    /\ routed' = IF \E t \in Tasks : Eligible(t) = {} THEN "unroutable" ELSE "routed"
    /\ UNCHANGED <<records, op>>

-----------------------------------------------------------------------------
Call == \/ \E p \in Packages : Install(p) \/ Update(p)
        \/ \E n \in PluginNames : Disable(n) \/ Enable(n) \/ RemovePlugin(n)

Step == \/ \E k \in CapIds : Retire(k) \/ Drop(k) \/ Register(k) \/ RegisterRaises(k) \/ Bind(k)
        \/ Finish

Others == \/ \E k \in Builtins : RegisterBuiltin(k)
          \/ \E k \in CapIds : CheckHealth(k)
          \/ \E t \in Tasks : RecordOutcome(t)
          \/ RoutePlan

Next == Call \/ Step \/ Others

Spec == Init /\ [][Next]_vars

-----------------------------------------------------------------------------
(* The shape of every table; and a plan reported as routed has no task      *)
(* without a binding.                                                       *)
PluginType ==
    {NoPlugin} \cup [status : {"INSTALLED", "DISABLED", "REMOVED"}, package : Packages,
                     previous : Seq(VersionNames)]
RecordType ==
    {Absent} \cup [status : {"ACTIVE", "RETIRED"}, health : {"UNKNOWN", "HEALTHY", "UNHEALTHY"},
                   outcomes : Seq(BOOLEAN)]
OpType ==
    {Idle} \cup [call : {"install", "update", "disable", "enable", "remove"},
                 package : Packages, todo : Seq(Steps)]

TypeOK ==
    /\ plugins \in [PluginNames -> PluginType]
    /\ registry \in [CapIds -> RecordType]
    /\ probes \subseteq Probed
    /\ handlers \in [CapIds -> Packages \cup {NoHandler, Host}]
    /\ op \in OpType
    /\ binding \in [Tasks -> CapIds \cup {NoBinding}]
    /\ routed \in {"never", "routed", "unroutable"}
    /\ routed = "routed" => \A t \in Tasks : binding[t] # NoBinding
    /\ leftover \subseteq CapIds /\ torn \subseteq PluginNames

(* No two plugins that are not removed provide a capability of one name,    *)
(* whatever was disabled, updated or half-updated in between: disabled ones *)
(* come back without a second check.                                        *)
OneOwner ==
    \A m, n \in PluginNames :
        m # n /\ Present(m) /\ Present(n) =>
            NamesOf(plugins[m].package) \cap NamesOf(plugins[n].package) = {}

(* At every moment, also in the middle of a call and after one that raised, *)
(* a lookup finds only handlers of a package that is installed or is just   *)
(* being wired: never those of a disabled, removed or superseded one.       *)
HandlersCurrent ==
    \A k \in CapIds : handlers[k] \in Packages =>
        LET p == handlers[k] IN
        /\ k \in CapsOf(p)
        /\ \/ plugins[p.name].status = "INSTALLED" /\ plugins[p.name].package = p
           \/ op # Idle /\ op.package = p /\ Wires(op.call)

(* A handler can be looked up only while its capability is registered as    *)
(* active, but for the moment between the two calls that withdraw it.       *)
HandlerBehindActive ==
    \A k \in CapIds : handlers[k] # NoHandler => Active(k) \/ At("drop", k)

(* Between calls everything an installed plugin declares is active and      *)
(* bound to it, unless an update of the plugin raised half-way.             *)
InstalledIsWired ==
    op = Idle =>
        \A n \in PluginNames \ torn : plugins[n].status = "INSTALLED" =>
            \A k \in CapsOf(plugins[n].package) :
                Active(k) /\ handlers[k] = plugins[n].package

(* Calls on a plugin leave alone what the host has registered, also where   *)
(* the host took an id of a disabled plugin.  The exceptions: an update,    *)
(* which unwires the old version whatever its status, and a plugin that an  *)
(* update left half-wired.                                                  *)
HostUntouched ==
    [][\A k \in CapIds : handlers[k] = Host /\ handlers'[k] # Host =>
         op.call = "update" \/ op.package.name \in torn]_vars

(* When route_plan returns, each task is bound to a capability for which    *)
(* the runtime has a handler: registry and handler table agree, but for     *)
(* what failed wirings left behind.                                         *)
RoutedCanRun ==
    [][binding' # binding /\ routed' = "routed" =>
         \A t \in Tasks : \/ handlers[binding'[t]] # NoHandler
                          \/ binding'[t] \in leftover]_vars
=============================================================================
