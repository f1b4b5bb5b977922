--------------------------- MODULE PluginsProofs ---------------------------
(***************************************************************************)
(* Proofs about Plugins, for every set of packages and whatever the host   *)
(* and the registry's policy do: IInv is inductive.  First what the lists  *)
(* of steps hold, then one lemma per part of the invariant.                *)
(***************************************************************************)
EXTENDS Plugins, TLAPS

-----------------------------------------------------------------------------
(* The inductive invariant behind OneOwner and HandlersCurrent.             *)

RecordsInv ==
    \A n \in PluginNames : plugins[n] # NoPlugin => plugins[n].package.name = n

(* What a call has checked still holds while it goes on. *)
CallInv ==
    op # Idle => LET n == op.package.name IN
        /\ op.call = "install" => ~Present(n) /\ Free(op.package, {})
        /\ op.call = "update" => /\ Present(n) /\ Free(op.package, {n})
                                /\ plugins[n].package # op.package
        /\ op.call \in {"disable", "enable", "remove"} =>
              Present(n) /\ plugins[n].package = op.package
        /\ op.call = "enable" => plugins[n].status = "DISABLED"

Rank(step) == CASE step.do \in {"retire", "drop"} -> 0
                [] step.do = "register" -> 1
                [] OTHER -> 2

(* Withdrawing comes before registering, and registering before binding. *)
TodoInv ==
    op # Idle =>
        /\ \A i, j \in DOMAIN op.todo : i <= j => Rank(op.todo[i]) <= Rank(op.todo[j])
        /\ \A i \in DOMAIN op.todo : op.todo[i].do \in {"register", "bind"} =>
              Wires(op.call) /\ op.todo[i].cap \in CapsOf(op.package)

(* A handler that a call withdraws is still on its list; one that it has    *)
(* put there means that all registrations went well.                        *)
HandlersInv ==
    op # Idle => \A k \in CapIds : handlers[k] \in Packages =>
        /\ op.call \in {"update", "disable", "remove"}
           /\ handlers[k] = plugins[op.package.name].package
             => [do |-> "drop", cap |-> k] \in ToSet(op.todo)
        /\ Wires(op.call) /\ handlers[k] = op.package =>
              \A i \in DOMAIN op.todo : op.todo[i].do # "register"

IInv == /\ TypeOK /\ RecordsInv /\ CallInv /\ OneOwner
        /\ TodoInv /\ HandlersCurrent /\ HandlersInv

-----------------------------------------------------------------------------
(* The one behind HandlerBehindActive, InstalledIsWired, HostUntouched and  *)
(* RoutedCanRun.                                                            *)

Ahead(do, k) == [do |-> do, cap |-> k] \in ToSet(op.todo)
Withdraws(i) == op.todo[i].do \in {"retire", "drop"}

(* A handler is dropped right after its record is retired, both of the      *)
(* package the plugin has; nothing is registered twice.                     *)
PairsInv ==
    op # Idle => \A i \in DOMAIN op.todo :
        /\ op.todo[i].do = "retire" =>
              i + 1 \in DOMAIN op.todo
              /\ op.todo[i + 1] = [do |-> "drop", cap |-> op.todo[i].cap]
        /\ op.todo[i].do = "drop" /\ i # 1 =>
              op.todo[i - 1] = [do |-> "retire", cap |-> op.todo[i].cap]
        /\ Withdraws(i) => /\ op.call \in {"update", "disable", "remove"}
                           /\ op.todo[i].cap \in CapsOf(plugins[op.package.name].package)
        /\ \A j \in DOMAIN op.todo :
              op.todo[i].do = "register" /\ op.todo[j] = op.todo[i] => j = i

(* How far the wiring of a package has come.                                *)
ProgressInv ==
    op # Idle /\ Wires(op.call) => \A k \in CapsOf(op.package) :
        /\ Ahead("bind", k) \/ handlers[k] = op.package
        /\ Ahead("register", k) => Ahead("bind", k)
        /\ ~Ahead("register", k) =>
              Active(k) /\ handlers[k] # Host /\ \A i \in DOMAIN op.todo : ~Withdraws(i)

(* Withdrawing: the record is gone first, and what goes is not the host's.  *)
WithdrawInv ==
    \A k \in CapIds :
        /\ At("drop", k) => ~Active(k)
        /\ op.call \in {"disable", "remove"} /\ op.package.name \notin torn /\ Ahead("drop", k)
              => handlers[k] # Host

(* A call disturbs no other plugin.                                         *)
WiredInv ==
    \A n \in PluginNames \ torn :
        plugins[n].status = "INSTALLED" /\ (op = Idle \/ op.package.name # n) =>
            \A k \in CapsOf(plugins[n].package) :
                Active(k) /\ handlers[k] = plugins[n].package

(* What is active and cannot run was left behind, or is being wired.        *)
BareInv ==
    \A k \in CapIds : Active(k) /\ handlers[k] = NoHandler =>
        \/ k \in leftover
        \/ op # Idle /\ Wires(op.call) /\ k \in CapsOf(op.package) /\ ~Ahead("register", k)

WiringInv == /\ HandlerBehindActive /\ PairsInv /\ ProgressInv
             /\ WithdrawInv /\ WiredInv /\ BareInv

-----------------------------------------------------------------------------

LEMMA NoHandlerIsNoPackage == NoHandler \notin Packages /\ Host \notin Packages
<1> SUFFICES ASSUME NEW p \in Packages PROVE p # NoHandler /\ p # Host
  OBVIOUS
<1>1. p \in [name : PluginNames, version : VersionNames, caps : Seq(CapIds)]
  BY PackagesAssumption
<1>2. "caps" \in DOMAIN p
  BY <1>1
<1>3. "caps" \notin DOMAIN NoHandler /\ "caps" \notin DOMAIN Host
  BY DEF NoHandler, Host
<1> QED
  BY <1>2, <1>3

LEMMA NoHandlerIsNotHost == NoHandler # Host
BY DEF NoHandler, Host

LEMMA PackageType ==
    ASSUME NEW p \in Packages
    PROVE  p.name \in PluginNames /\ p.version \in VersionNames /\ p.caps \in Seq(CapIds)
BY PackagesAssumption

-----------------------------------------------------------------------------
(* The lists of steps. *)

(* Each place of a concatenation is a place of one of its halves.           *)
LEMMA ConcatList ==
    ASSUME NEW S, NEW s \in Seq(S), NEW t \in Seq(S)
    PROVE  /\ s \o t \in Seq(S)
           /\ \A i \in DOMAIN (s \o t) :
                 /\ i \in Nat
                 /\ \/ i \in DOMAIN s /\ (s \o t)[i] = s[i]
                    \/ i - Len(s) \in DOMAIN t /\ i > Len(s) /\ (s \o t)[i] = t[i - Len(s)]
           /\ \A i \in DOMAIN s : i \in DOMAIN (s \o t) /\ (s \o t)[i] = s[i] /\ i <= Len(s)
OBVIOUS

(* Unwiring retires and drops, and drops every capability. *)
LEMMA UnwireList ==
    ASSUME NEW p \in Packages
    PROVE  /\ UnwireSteps(p) \in Seq(Steps)
           /\ \A i \in DOMAIN UnwireSteps(p) : UnwireSteps(p)[i].do \in {"retire", "drop"}
           /\ \A k \in CapsOf(p) : [do |-> "drop", cap |-> k] \in ToSet(UnwireSteps(p))
<1> DEFINE n == Len(p.caps)
           step(i) == [do |-> IF i % 2 = 1 THEN "retire" ELSE "drop",
                       cap |-> p.caps[(i + 1) \div 2]]
           u == [i \in 1 .. 2 * n |-> step(i)]
<1>0. UnwireSteps(p) = u
  BY DEF UnwireSteps
<1>1. p.caps \in Seq(CapIds) /\ n \in Nat
  BY PackageType
<1>2. \A i \in 1 .. 2 * n : step(i) \in Steps
  <2> SUFFICES ASSUME NEW i \in 1 .. 2 * n PROVE step(i) \in Steps
    OBVIOUS
  <2>1. (i + 1) \div 2 \in 1 .. n
    BY <1>1
  <2>2. p.caps[(i + 1) \div 2] \in CapIds
    BY <1>1, <2>1
  <2> QED
    BY <2>2 DEF Steps
<1>3. u \in Seq(Steps) /\ DOMAIN u = 1 .. 2 * n /\ \A i \in 1 .. 2 * n : u[i] = step(i)
  <2>1. 2 * n \in Nat
    BY <1>1
  <2> QED
    BY <1>2, <2>1
<1>4. \A k \in CapsOf(p) : [do |-> "drop", cap |-> k] \in ToSet(u)
  <2> SUFFICES ASSUME NEW k \in CapsOf(p) PROVE [do |-> "drop", cap |-> k] \in ToSet(u)
    OBVIOUS
  <2>1. PICK j \in 1 .. n : p.caps[j] = k
    BY <1>1 DEF CapsOf, ToSet
  <2>2. 2 * j \in 1 .. 2 * n /\ (2 * j) % 2 # 1 /\ (2 * j + 1) \div 2 = j
    BY <1>1
  <2>3. step(2 * j) = [do |-> "drop", cap |-> k]
    BY <2>1, <2>2
  <2> QED
    BY <1>3, <2>2, <2>3 DEF ToSet
<1>5. \A i \in DOMAIN u : u[i].do \in {"retire", "drop"}
  BY <1>3
<1> QED
  BY <1>0, <1>3, <1>4, <1>5

(* Wiring registers, then binds, what the package declares. *)
LEMMA WireList ==
    ASSUME NEW p \in Packages
    PROVE  /\ WireSteps(p) \in Seq(Steps)
           /\ \A i \in DOMAIN WireSteps(p) : /\ WireSteps(p)[i].do \in {"register", "bind"}
                                             /\ WireSteps(p)[i].cap \in CapsOf(p)
           /\ \A i, j \in DOMAIN WireSteps(p) :
                 i <= j => Rank(WireSteps(p)[i]) <= Rank(WireSteps(p)[j])
<1> DEFINE n == Len(p.caps)
           r == [i \in DOMAIN p.caps |-> [do |-> "register", cap |-> p.caps[i]]]
           b == [i \in DOMAIN p.caps |-> [do |-> "bind", cap |-> p.caps[i]]]
<1>0. WireSteps(p) = r \o b
  BY DEF WireSteps
<1>1. p.caps \in Seq(CapIds) /\ n \in Nat /\ DOMAIN p.caps = 1 .. n
  BY PackageType
<1>2. \A i \in 1 .. n : p.caps[i] \in CapIds /\ p.caps[i] \in CapsOf(p)
  BY <1>1 DEF CapsOf, ToSet
<1>3. r \in Seq(Steps) /\ Len(r) = n /\ \A i \in 1 .. n : r[i].do = "register" /\ r[i].cap = p.caps[i]
  BY <1>1, <1>2 DEF Steps
<1>4. b \in Seq(Steps) /\ Len(b) = n /\ \A i \in 1 .. n : b[i].do = "bind" /\ b[i].cap = p.caps[i]
  BY <1>1, <1>2 DEF Steps
<1> HIDE DEF r, b, n
<1>5. /\ r \o b \in Seq(Steps)
      /\ \A i \in DOMAIN (r \o b) :
            \/ i <= n /\ (r \o b)[i].do = "register" /\ (r \o b)[i].cap \in CapsOf(p)
            \/ i > n /\ (r \o b)[i].do = "bind" /\ (r \o b)[i].cap \in CapsOf(p)
  <2>1. DOMAIN r = 1 .. n /\ DOMAIN b = 1 .. n
    BY <1>3, <1>4
  <2> QED
    BY <2>1, <1>1, <1>2, <1>3, <1>4, ConcatList
<1>6. ASSUME NEW i \in DOMAIN (r \o b), NEW j \in DOMAIN (r \o b), i <= j
      PROVE  Rank((r \o b)[i]) <= Rank((r \o b)[j])
  <2>1. i \in Nat /\ j \in Nat
    BY <1>3, <1>4, ConcatList
  <2> QED
    BY <2>1, <1>1, <1>5, <1>6 DEF Rank
<1> QED
  BY <1>0, <1>5, <1>6

(* An update unwires one package, then wires another. *)
LEMMA UpdateList ==
    ASSUME NEW p \in Packages, NEW q \in Packages
    PROVE  LET s == UnwireSteps(p) \o WireSteps(q) IN
           /\ s \in Seq(Steps)
           /\ \A i \in DOMAIN s : s[i].do \in {"register", "bind"} => s[i].cap \in CapsOf(q)
           /\ \A i, j \in DOMAIN s : i <= j => Rank(s[i]) <= Rank(s[j])
           /\ \A k \in CapsOf(p) : [do |-> "drop", cap |-> k] \in ToSet(s)
<1> DEFINE u == UnwireSteps(p)
           w == WireSteps(q)
           s == u \o w
           m == Len(u)
           n == Len(w)
<1>1. /\ u \in Seq(Steps) /\ m \in Nat /\ DOMAIN u = 1 .. m
      /\ \A i \in 1 .. m : u[i].do \in {"retire", "drop"}
      /\ \A k \in CapsOf(p) : [do |-> "drop", cap |-> k] \in ToSet(u)
  BY UnwireList
<1>2. /\ w \in Seq(Steps) /\ n \in Nat /\ DOMAIN w = 1 .. n
      /\ \A i \in 1 .. n : w[i].do \in {"register", "bind"} /\ w[i].cap \in CapsOf(q)
      /\ \A i, j \in 1 .. n : i <= j => Rank(w[i]) <= Rank(w[j])
  BY WireList
<1> HIDE DEF u, w
<1>3. /\ s \in Seq(Steps)
      /\ \A i \in DOMAIN s : /\ i \in Nat
                             /\ \/ i \in 1 .. m /\ s[i] = u[i]
                                \/ i - m \in 1 .. n /\ i > m /\ s[i] = w[i - m]
      /\ \A i \in 1 .. m : i \in DOMAIN s /\ s[i] = u[i]
  BY <1>1, <1>2, ConcatList
<1> HIDE DEF s, m, n
<1>4. \A i \in 1 .. m : Rank(u[i]) = 0
  BY <1>1 DEF Rank
<1>5. \A i \in 1 .. n : Rank(w[i]) \in {1, 2}
  BY <1>2 DEF Rank
<1>6. ASSUME NEW i \in DOMAIN s, NEW j \in DOMAIN s, i <= j
      PROVE  Rank(s[i]) <= Rank(s[j])
  <2>1. CASE i \in 1 .. m /\ s[i] = u[i]
    BY <2>1, <1>3, <1>4, <1>5
  <2>2. CASE i - m \in 1 .. n /\ i > m /\ s[i] = w[i - m]
    <3>1. j - m \in 1 .. n /\ s[j] = w[j - m] /\ i - m <= j - m
      BY <2>2, <1>1, <1>3, <1>6
    <3> QED
      BY <2>2, <3>1, <1>2
  <2> QED
    BY <2>1, <2>2, <1>3
<1>7. ASSUME NEW i \in DOMAIN s, s[i].do \in {"register", "bind"}
      PROVE  s[i].cap \in CapsOf(q)
  <2>1. CASE i \in 1 .. m /\ s[i] = u[i]
    BY <2>1, <1>1, <1>7
  <2>2. CASE i - m \in 1 .. n /\ i > m /\ s[i] = w[i - m]
    BY <2>2, <1>2
  <2> QED
    BY <2>1, <2>2, <1>3
<1>8. ASSUME NEW k \in CapsOf(p) PROVE [do |-> "drop", cap |-> k] \in ToSet(s)
  <2>1. PICK i \in 1 .. m : u[i] = [do |-> "drop", cap |-> k]
    BY <1>1 DEF ToSet
  <2> QED
    BY <2>1, <1>3 DEF ToSet
<1> QED
  BY <1>3, <1>6, <1>7, <1>8 DEF s, u, w

(* The rest of a list of steps. *)
LEMMA TailList ==
    ASSUME NEW s \in Seq(Steps), s # <<>>
    PROVE  /\ Tail(s) \in Seq(Steps)
           /\ 1 \in DOMAIN s /\ Head(s) = s[1]
           /\ \A i \in DOMAIN Tail(s) : i \in Nat /\ i + 1 \in DOMAIN s /\ Tail(s)[i] = s[i + 1]
           /\ \A e \in ToSet(s) : e = Head(s) \/ e \in ToSet(Tail(s))
<1>1. Len(s) \in Nat \ {0} /\ DOMAIN s = 1 .. Len(s)
  OBVIOUS
<1>2. Tail(s) \in Seq(Steps) /\ DOMAIN Tail(s) = 1 .. (Len(s) - 1)
  BY <1>1
<1>3. \A i \in 1 .. (Len(s) - 1) : Tail(s)[i] = s[i + 1]
  BY <1>1
<1>4. ASSUME NEW e \in ToSet(s) PROVE e = Head(s) \/ e \in ToSet(Tail(s))
  <2>1. PICK i \in 1 .. Len(s) : s[i] = e
    BY <1>1 DEF ToSet
  <2>2. CASE i = 1
    BY <2>1, <2>2, <1>1
  <2>3. CASE i # 1
    <3>1. i - 1 \in 1 .. (Len(s) - 1) /\ Tail(s)[i - 1] = e
      BY <2>1, <2>3, <1>1, <1>3
    <3> QED
      BY <3>1, <1>2 DEF ToSet
  <2> QED
    BY <2>2, <2>3
<1> QED
  BY <1>1, <1>2, <1>3, <1>4

-----------------------------------------------------------------------------
(* What the types say of one record, and of a call in progress. *)

Calls == {"install", "update", "disable", "enable", "remove"}

LEMMA RecordParts ==
    ASSUME TypeOK, NEW n \in PluginNames
    PROVE  /\ plugins[n] \in PluginType
           /\ plugins[n] = NoPlugin <=> plugins[n].status = "NONE"
           /\ plugins[n] # NoPlugin => /\ plugins[n].package \in Packages
                                       /\ plugins[n].previous \in Seq(VersionNames)
                                       /\ plugins[n].status \in {"INSTALLED", "DISABLED", "REMOVED"}
           /\ Present(n) => plugins[n] # NoPlugin
<1>1. plugins[n] \in PluginType
  BY DEF TypeOK
<1> QED
  BY <1>1 DEF PluginType, NoPlugin, Present

LEMMA OpParts ==
    ASSUME TypeOK, op # Idle
    PROVE  /\ op = [call |-> op.call, package |-> op.package, todo |-> op.todo]
           /\ op.call \in Calls /\ op.package \in Packages /\ op.todo \in Seq(Steps)
           /\ op.package.name \in PluginNames
<1>1. op \in [call : Calls, package : Packages, todo : Seq(Steps)]
  BY DEF TypeOK, OpType, Calls
<1> QED
  BY <1>1, PackageType

(* A call in progress that takes a step is still in progress. *)
LEMMA GoOnParts ==
    ASSUME TypeOK, op.todo # <<>>, GoOn
    PROVE  /\ op # Idle /\ op' # Idle /\ op' \in OpType
           /\ op'.call = op.call /\ op'.package = op.package /\ op'.todo = Tail(op.todo)
<1>1. op # Idle
  BY DEF Idle
<1>2. Tail(op.todo) \in Seq(Steps)
  BY <1>1, OpParts, TailList
<1>3. op' = [call |-> op.call, package |-> op.package, todo |-> Tail(op.todo)]
  BY <1>1, OpParts DEF GoOn
<1>4. op' \in OpType
  BY <1>1, <1>2, <1>3, OpParts DEF OpType, Calls
<1>5. op.call # "idle"
  BY <1>1, OpParts DEF Calls
<1> QED
  BY <1>1, <1>3, <1>4, <1>5 DEF Idle

-----------------------------------------------------------------------------
(* The invariant holds at first. *)

LEMMA InitIInv == Init => IInv
<1> SUFFICES ASSUME Init PROVE IInv
  OBVIOUS
<1>1. TypeOK
  BY DEF Init, TypeOK, PluginType, RecordType, OpType
<1>2. RecordsInv /\ OneOwner
  BY DEF Init, RecordsInv, OneOwner, Present, NoPlugin
<1>3. CallInv /\ TodoInv /\ HandlersInv
  BY DEF Init, CallInv, TodoInv, HandlersInv
<1>4. HandlersCurrent
  BY NoHandlerIsNoPackage DEF Init, HandlersCurrent
<1> QED
  BY <1>1, <1>2, <1>3, <1>4 DEF IInv

-----------------------------------------------------------------------------
(* The host, the learning pipeline and the router: they act between calls.  *)

LEMMA NoBindingIsNoCap == NoBinding \notin CapIds
BY HostAssumption

LEMMA RegistryParts ==
    ASSUME TypeOK, NEW k \in CapIds
    PROVE  /\ registry[k] \in RecordType
           /\ NewRecord \in RecordType
           /\ registry[k] # Absent =>
                 /\ registry[k].status \in {"ACTIVE", "RETIRED"}
                 /\ registry[k].health \in {"UNKNOWN", "HEALTHY", "UNHEALTHY"}
                 /\ registry[k].outcomes \in Seq(BOOLEAN)
                 /\ registry[k] = [status |-> registry[k].status, health |-> registry[k].health,
                                   outcomes |-> registry[k].outcomes]
           /\ Active(k) => registry[k] # Absent
<1>1. registry[k] \in RecordType
  BY DEF TypeOK
<1>2. NewRecord \in RecordType
  BY DEF NewRecord, RecordType
<1> QED
  BY <1>1, <1>2 DEF RecordType, Active, Absent

(* What leaves the manager's own state alone, between calls, and adds no    *)
(* plugin handler, keeps the manager's part of the invariant.               *)
LEMMA IdleKeeps ==
    ASSUME IInv, op = Idle, UNCHANGED <<plugins, op>>,
           \A k \in CapIds : handlers'[k] \in Packages => handlers'[k] = handlers[k]
    PROVE  /\ RecordsInv' /\ CallInv' /\ OneOwner'
           /\ TodoInv' /\ HandlersCurrent' /\ HandlersInv'
<1>1. RecordsInv' /\ CallInv' /\ OneOwner' /\ TodoInv' /\ HandlersInv'
  BY DEF IInv, RecordsInv, CallInv, OneOwner, Present, TodoInv, HandlersInv
<1>2. HandlersCurrent'
  BY DEF IInv, HandlersCurrent
<1> QED
  BY <1>1, <1>2

LEMMA OthersKeepIInv == IInv /\ Others => IInv'
<1> SUFFICES ASSUME IInv, Others PROVE IInv'
  OBVIOUS
<1>0. TypeOK
  BY DEF IInv
<1>1. ASSUME NEW k \in Builtins, RegisterBuiltin(k) PROVE IInv'
  <2>1. k \in CapIds /\ Probed \subseteq CapIds
    BY HostAssumption
  <2>2. op = Idle /\ UNCHANGED <<plugins, op>>
    BY <1>1 DEF RegisterBuiltin
  <2>3. \A c \in CapIds : handlers'[c] \in Packages => handlers'[c] = handlers[c]
    BY <1>0, <1>1, <2>1, NoHandlerIsNoPackage DEF RegisterBuiltin, TypeOK
  <2>4. registry' \in [CapIds -> RecordType]
    BY <1>0, <1>1, <2>1, RegistryParts DEF RegisterBuiltin, TypeOK
  <2>5. handlers' \in [CapIds -> Packages \cup {NoHandler, Host}]
    BY <1>0, <1>1, <2>1 DEF RegisterBuiltin, TypeOK
  <2>6. TypeOK'
    BY <1>0, <1>1, <2>4, <2>5 DEF RegisterBuiltin, TypeOK, router
  <2> QED
    BY <2>2, <2>3, <2>6, IdleKeeps DEF IInv
<1>2. ASSUME NEW k \in CapIds, CheckHealth(k) PROVE IInv'
  <2>1. PICK h \in {"HEALTHY", "UNHEALTHY"} : registry' = [registry EXCEPT ![k].health = h]
    BY <1>2 DEF CheckHealth
  <2>2. [registry[k] EXCEPT !.health = h] \in RecordType
    <3>1. registry[k] # Absent
      BY <1>2 DEF CheckHealth
    <3> DEFINE r == registry[k]
    <3>2. /\ r = [status |-> r.status, health |-> r.health, outcomes |-> r.outcomes]
          /\ r.status \in {"ACTIVE", "RETIRED"} /\ r.outcomes \in Seq(BOOLEAN)
      BY <1>0, <3>1, RegistryParts
    <3> HIDE DEF r
    <3>3. [r EXCEPT !.health = h] = [status |-> r.status, health |-> h, outcomes |-> r.outcomes]
      BY <3>2
    <3>4. [r EXCEPT !.health = h] \in RecordType
      BY <3>2, <3>3 DEF RecordType
    <3> QED
      BY <3>4 DEF r
  <2>3. registry' \in [CapIds -> RecordType]
    BY <1>0, <2>1, <2>2 DEF TypeOK
  <2>4. TypeOK'
    BY <1>0, <1>2, <2>3 DEF CheckHealth, TypeOK, router
  <2> QED
    BY <1>2, <2>4, IdleKeeps DEF IInv, CheckHealth
<1>3. ASSUME NEW t \in Tasks, RecordOutcome(t) PROVE IInv'
  <2> DEFINE k == binding[t]
  <2>1. PICK b \in BOOLEAN : registry' = [registry EXCEPT ![k].outcomes = Append(@, b)]
    BY <1>3 DEF RecordOutcome
  <2>2. k \in CapIds
    BY <1>0, <1>3 DEF TypeOK, RecordOutcome
  <2>3. registry' \in [CapIds -> RecordType]
    <3>1. registry[k] # Absent
      BY <1>3 DEF RecordOutcome
    <3> DEFINE r == registry[k]
    <3>2. /\ r = [status |-> r.status, health |-> r.health, outcomes |-> r.outcomes]
          /\ r.status \in {"ACTIVE", "RETIRED"} /\ r.outcomes \in Seq(BOOLEAN)
          /\ r.health \in {"UNKNOWN", "HEALTHY", "UNHEALTHY"}
      BY <1>0, <2>2, <3>1, RegistryParts
    <3> HIDE DEF r
    <3> DEFINE o == Append(r.outcomes, b)
    <3>3. o \in Seq(BOOLEAN)
      BY <3>2
    <3> HIDE DEF o
    <3>4. [r EXCEPT !.outcomes = o] = [status |-> r.status, health |-> r.health, outcomes |-> o]
      BY <3>2
    <3>5. [r EXCEPT !.outcomes = o] \in RecordType
      BY <3>2, <3>3, <3>4 DEF RecordType
    <3>6. registry' = [registry EXCEPT ![k] = [r EXCEPT !.outcomes = o]]
      BY <2>1 DEF r, o
    <3> HIDE DEF k
    <3> QED
      BY <1>0, <2>2, <3>5, <3>6 DEF TypeOK
  <2>4. TypeOK'
    BY <1>0, <1>3, <2>3 DEF RecordOutcome, TypeOK, router
  <2> QED
    BY <1>3, <2>4, IdleKeeps DEF IInv, RecordOutcome
<1>4. CASE RoutePlan
  <2>1. PICK chosen \in [Tasks -> CapIds \cup {NoBinding}] :
          /\ \A t \in Tasks : IF Eligible(t) = {} THEN chosen[t] = binding[t]
                              ELSE chosen[t] \in Eligible(t)
          /\ binding' = chosen
    BY <1>4 DEF RoutePlan
  <2>2. \A t \in Tasks : Eligible(t) \subseteq CapIds
    BY HostAssumption DEF Eligible, Candidates
  <2>3. routed' \in {"never", "routed", "unroutable"}
        /\ (routed' = "routed" => \A t \in Tasks : Eligible(t) # {})
    BY <1>4 DEF RoutePlan
  <2>4. routed' = "routed" => \A t \in Tasks : binding'[t] # NoBinding
    BY <2>1, <2>2, <2>3, NoBindingIsNoCap
  <2>5. TypeOK'
    BY <1>0, <1>4, <2>1, <2>3, <2>4 DEF RoutePlan, TypeOK, records
  <2> QED
    BY <1>4, <2>5, IdleKeeps DEF IInv, RoutePlan, records
<1> QED
  BY <1>1, <1>2, <1>3, <1>4 DEF Others

-----------------------------------------------------------------------------
(* The beginning of a call. *)

LEMMA BeginKeepsIInv ==
    ASSUME IInv, NEW call \in Calls, NEW p \in Packages, NEW todo \in Seq(Steps),
           Begin(call, p, todo),
           /\ call = "install" => ~Present(p.name) /\ Free(p, {})
           /\ call = "update" => /\ Present(p.name) /\ Free(p, {p.name})
                                 /\ plugins[p.name].package # p
           /\ call \in {"disable", "enable", "remove"} =>
                 Present(p.name) /\ plugins[p.name].package = p
           /\ call = "enable" => plugins[p.name].status = "DISABLED",
           \A i, j \in DOMAIN todo : i <= j => Rank(todo[i]) <= Rank(todo[j]),
           \A i \in DOMAIN todo : todo[i].do \in {"register", "bind"} =>
              Wires(call) /\ todo[i].cap \in CapsOf(p),
           \A k \in CapIds :
              /\ handlers[k] \in Packages /\ call \in {"update", "disable", "remove"}
              /\ handlers[k] = plugins[p.name].package
              => [do |-> "drop", cap |-> k] \in ToSet(todo)
    PROVE  IInv'
<1>0. TypeOK /\ op = Idle /\ UNCHANGED <<records, router>>
  BY DEF IInv, Begin
<1>1. /\ op' = [call |-> call, package |-> p, todo |-> todo]
      /\ op'.call = call /\ op'.package = p /\ op'.todo = todo /\ op' # Idle
  <2>1. op' = [call |-> call, package |-> p, todo |-> todo]
    BY DEF Begin
  <2> QED
    BY <2>1 DEF Idle, Calls
<1>2. TypeOK'
  <2>1. op' \in OpType
    BY <1>1 DEF OpType, Calls
  <2> QED
    BY <1>0, <2>1 DEF TypeOK, records, router
<1>3. RecordsInv' /\ OneOwner'
  BY <1>0 DEF IInv, RecordsInv, OneOwner, Present, records
<1>4. CallInv'
  BY <1>0, <1>1 DEF CallInv, Present, Free, records
<1>5. TodoInv'
  BY <1>1 DEF TodoInv
<1>6. \A k \in CapIds : handlers[k] \in Packages =>
         /\ k \in CapsOf(handlers[k])
         /\ plugins[handlers[k].name].status = "INSTALLED"
         /\ plugins[handlers[k].name].package = handlers[k]
  BY <1>0 DEF IInv, HandlersCurrent
<1>7. HandlersCurrent'
  BY <1>0, <1>6 DEF HandlersCurrent, records
<1>8. HandlersInv'
  <2> SUFFICES ASSUME NEW k \in CapIds, handlers[k] \in Packages
               PROVE  /\ call \in {"update", "disable", "remove"}
                         /\ handlers[k] = plugins[p.name].package
                           => [do |-> "drop", cap |-> k] \in ToSet(todo)
                      /\ Wires(call) /\ handlers[k] = p =>
                            \A i \in DOMAIN todo : todo[i].do # "register"
    BY <1>0, <1>1 DEF HandlersInv, records
  <2>1. ~(Wires(call) /\ handlers[k] = p)
    BY <1>6 DEF Wires, Present
  <2> QED
    BY <2>1
<1> QED
  BY <1>2, <1>3, <1>4, <1>5, <1>7, <1>8 DEF IInv

(* The packages on record, and what a call between calls may withdraw.      *)
LEMMA BetweenCalls ==
    ASSUME IInv, op = Idle, NEW n \in PluginNames, Present(n)
    PROVE  /\ plugins[n].package \in Packages /\ plugins[n].package.name = n
           /\ \A k \in CapIds : handlers[k] \in Packages /\ handlers[k] = plugins[n].package =>
                 k \in CapsOf(plugins[n].package) /\ plugins[n].status = "INSTALLED"
<1>1. plugins[n].package \in Packages /\ plugins[n] # NoPlugin
  BY RecordParts DEF IInv
<1>2. plugins[n].package.name = n
  BY <1>1 DEF IInv, RecordsInv
<1> QED
  BY <1>1, <1>2 DEF IInv, HandlersCurrent

LEMMA CallsKeepIInv == IInv /\ Call => IInv'
<1> SUFFICES ASSUME IInv, Call PROVE IInv'
  OBVIOUS
<1>0. TypeOK
  BY DEF IInv
<1>1. ASSUME NEW p \in Packages, Install(p) PROVE IInv'
  <2> HIDE DEF WireSteps, UnwireSteps
  <2>1. Begin("install", p, WireSteps(p)) /\ ~Present(p.name) /\ Free(p, {})
    BY <1>1 DEF Install
  <2>2. "install" \in Calls /\ Wires("install")
    BY DEF Calls, Wires
  <2> QED
    BY <2>1, <2>2, WireList, BeginKeepsIInv
<1>2. ASSUME NEW p \in Packages, Update(p) PROVE IInv'
  <2> DEFINE q == plugins[p.name].package
             todo == UnwireSteps(q) \o WireSteps(p)
  <2>1. /\ Begin("update", p, todo) /\ Present(p.name) /\ Free(p, {p.name})
        /\ p.version # q.version /\ op = Idle
    BY <1>2 DEF Update, Begin
  <2>2. "update" \in Calls /\ Wires("update") /\ p.name \in PluginNames
    BY PackageType DEF Calls, Wires
  <2>3. q \in Packages /\ \A k \in CapIds : handlers[k] \in Packages /\ handlers[k] = q => k \in CapsOf(q)
    BY <2>1, <2>2, BetweenCalls
  <2>4. /\ todo \in Seq(Steps)
        /\ \A i \in DOMAIN todo : todo[i].do \in {"register", "bind"} => todo[i].cap \in CapsOf(p)
        /\ \A i, j \in DOMAIN todo : i <= j => Rank(todo[i]) <= Rank(todo[j])
        /\ \A k \in CapsOf(q) : [do |-> "drop", cap |-> k] \in ToSet(todo)
    BY <2>3, UpdateList
  <2>5. q # p
    BY <2>1
  <2> HIDE DEF todo
  <2> QED
    BY <2>1, <2>2, <2>3, <2>4, <2>5, BeginKeepsIInv
<1>3. ASSUME NEW n \in PluginNames, Disable(n) PROVE IInv'
  <2> DEFINE q == plugins[n].package
             todo == UnwireSteps(q)
  <2>1. Begin("disable", q, todo) /\ Present(n) /\ op = Idle
    BY <1>3 DEF Disable, Begin, Present
  <2>2. "disable" \in Calls
    BY DEF Calls
  <2>3. q \in Packages /\ q.name = n
        /\ \A k \in CapIds : handlers[k] \in Packages /\ handlers[k] = q => k \in CapsOf(q)
    BY <2>1, BetweenCalls
  <2>4. /\ todo \in Seq(Steps)
        /\ \A i \in DOMAIN todo : todo[i].do \in {"retire", "drop"}
        /\ \A k \in CapsOf(q) : [do |-> "drop", cap |-> k] \in ToSet(todo)
    BY <2>3, UnwireList
  <2>5. \A i, j \in DOMAIN todo : i <= j => Rank(todo[i]) <= Rank(todo[j])
    BY <2>4 DEF Rank
  <2>6. /\ Present(q.name) /\ plugins[q.name].package = q
        /\ \A k \in CapIds : handlers[k] \in Packages /\ handlers[k] = q =>
              [do |-> "drop", cap |-> k] \in ToSet(todo)
    BY <2>1, <2>3, <2>4
  <2>7. \A i \in DOMAIN todo : todo[i].do \notin {"register", "bind"}
    BY <2>4
  <2>8. q \in Packages /\ todo \in Seq(Steps) /\ Begin("disable", q, todo)
    BY <2>1, <2>3, <2>4
  <2> HIDE DEF todo, q
  <2>11. \A i \in DOMAIN todo : todo[i].do \in {"register", "bind"} =>
             Wires("disable") /\ todo[i].cap \in CapsOf(q)
    BY <2>7, <2>8
  <2>12. \A k \in CapIds :
           /\ handlers[k] \in Packages /\ "disable" \in {"update", "disable", "remove"}
           /\ handlers[k] = plugins[q.name].package
           => [do |-> "drop", cap |-> k] \in ToSet(todo)
    BY <2>6, <2>7
  <2> QED
    BY <2>11, <2>12, <2>2, <2>5, <2>6, <2>7, <2>8, BeginKeepsIInv
<1>4. ASSUME NEW n \in PluginNames, Enable(n) PROVE IInv'
  <2> DEFINE q == plugins[n].package
             todo == WireSteps(q)
  <2>1. Begin("enable", q, todo) /\ Present(n) /\ op = Idle /\ plugins[n].status = "DISABLED"
    BY <1>4 DEF Enable, Begin, Present
  <2>2. "enable" \in Calls /\ Wires("enable")
    BY DEF Calls, Wires
  <2>3. q \in Packages /\ q.name = n
    BY <2>1, BetweenCalls
  <2>4. /\ todo \in Seq(Steps)
        /\ \A i \in DOMAIN todo : todo[i].cap \in CapsOf(q)
        /\ \A i, j \in DOMAIN todo : i <= j => Rank(todo[i]) <= Rank(todo[j])
    BY <2>3, WireList
  <2>5. /\ Present(q.name) /\ plugins[q.name].package = q
        /\ plugins[q.name].status = "DISABLED"
    BY <2>1, <2>3
  <2> HIDE DEF todo, q
  <2> QED
    BY <2>1, <2>2, <2>3, <2>4, <2>5, BeginKeepsIInv
<1>5. ASSUME NEW n \in PluginNames, RemovePlugin(n) PROVE IInv'
  <2> DEFINE q == plugins[n].package
             todo == IF plugins[n].status = "INSTALLED" THEN UnwireSteps(q) ELSE <<>>
  <2>1. Begin("remove", q, todo) /\ Present(n) /\ op = Idle
    BY <1>5 DEF RemovePlugin, Begin
  <2>2. "remove" \in Calls
    BY DEF Calls
  <2>3. q \in Packages /\ q.name = n
        /\ \A k \in CapIds : handlers[k] \in Packages /\ handlers[k] = q =>
              k \in CapsOf(q) /\ plugins[n].status = "INSTALLED"
    BY <2>1, BetweenCalls
  <2>4. /\ todo \in Seq(Steps)
        /\ \A i \in DOMAIN todo : todo[i].do \in {"retire", "drop"}
    BY <2>3, UnwireList
  <2>5. \A k \in CapsOf(q) : plugins[n].status = "INSTALLED" =>
           [do |-> "drop", cap |-> k] \in ToSet(todo)
    BY <2>3, UnwireList
  <2>6. \A i, j \in DOMAIN todo : i <= j => Rank(todo[i]) <= Rank(todo[j])
    BY <2>4 DEF Rank
  <2>7. /\ Present(q.name) /\ plugins[q.name].package = q
        /\ \A k \in CapIds : handlers[k] \in Packages /\ handlers[k] = q =>
              [do |-> "drop", cap |-> k] \in ToSet(todo)
    BY <2>1, <2>3, <2>5
  <2>8. \A i \in DOMAIN todo : todo[i].do \notin {"register", "bind"}
    BY <2>4
  <2>9. q \in Packages /\ todo \in Seq(Steps) /\ Begin("remove", q, todo)
    BY <2>1, <2>3, <2>4
  <2> HIDE DEF todo, q
  <2>11. \A i \in DOMAIN todo : todo[i].do \in {"register", "bind"} =>
             Wires("remove") /\ todo[i].cap \in CapsOf(q)
    BY <2>7, <2>8
  <2>12. \A k \in CapIds :
           /\ handlers[k] \in Packages /\ "remove" \in {"update", "disable", "remove"}
           /\ handlers[k] = plugins[q.name].package
           => [do |-> "drop", cap |-> k] \in ToSet(todo)
    BY <2>6, <2>7
  <2> QED
    BY <2>11, <2>12, <2>2, <2>6, <2>7, <2>8, <2>9, BeginKeepsIInv
<1> QED
  BY <1>1, <1>2, <1>3, <1>4, <1>5 DEF Call

-----------------------------------------------------------------------------
(* The steps of a call. *)

(* What every step that goes on keeps, whatever it does to the tables.      *)
LEMMA GoOnKeeps ==
    ASSUME IInv, op.todo # <<>>, GoOn, plugins' = plugins
    PROVE  RecordsInv' /\ CallInv' /\ OneOwner' /\ TodoInv'
<1>0. TypeOK
  BY DEF IInv
<1>1. /\ op # Idle /\ op' # Idle /\ op'.call = op.call /\ op'.package = op.package
      /\ op'.todo = Tail(op.todo) /\ op.todo \in Seq(Steps)
  BY <1>0, GoOnParts, OpParts
<1>2. RecordsInv' /\ OneOwner'
  BY DEF IInv, RecordsInv, OneOwner, Present
<1>3. CallInv'
  BY <1>1 DEF IInv, CallInv, Present, Free
<1>4. TodoInv'
  <2> DEFINE s == op.todo
             u == Tail(s)
  <2>1. \A i \in DOMAIN u : i \in Nat /\ i + 1 \in DOMAIN s /\ u[i] = s[i + 1]
    BY <1>1, TailList
  <2>2. /\ \A i, j \in DOMAIN s : i <= j => Rank(s[i]) <= Rank(s[j])
        /\ \A i \in DOMAIN s : s[i].do \in {"register", "bind"} =>
              Wires(op.call) /\ s[i].cap \in CapsOf(op.package)
    BY <1>1 DEF IInv, TodoInv
  <2> HIDE DEF s, u
  <2>3. \A i, j \in DOMAIN u : i <= j => Rank(u[i]) <= Rank(u[j])
    <3> SUFFICES ASSUME NEW i \in DOMAIN u, NEW j \in DOMAIN u, i <= j
                 PROVE  Rank(u[i]) <= Rank(u[j])
      OBVIOUS
    <3>1. i + 1 <= j + 1
      BY <2>1
    <3> QED
      BY <3>1, <2>1, <2>2
  <2>4. \A i \in DOMAIN u : u[i].do \in {"register", "bind"} =>
           Wires(op.call) /\ u[i].cap \in CapsOf(op.package)
    BY <2>1, <2>2
  <2>5. op'.todo = u
    BY <1>1 DEF s, u
  <2> QED
    BY <1>1, <2>3, <2>4, <2>5 DEF TodoInv
<1> QED
  BY <1>2, <1>3, <1>4

(* A step that puts no handler into the table, and that is no drop or has   *)
(* dropped what it was to drop.                                             *)
LEMMA NoBindKeeps ==
    ASSUME IInv, op.todo # <<>>, GoOn, plugins' = plugins,
           \A k \in CapIds : handlers'[k] \in Packages =>
              /\ handlers'[k] = handlers[k]
              /\ Head(op.todo) # [do |-> "drop", cap |-> k]
    PROVE  HandlersCurrent' /\ HandlersInv'
<1>0. TypeOK
  BY DEF IInv
<1>1. /\ op # Idle /\ op' # Idle /\ op'.call = op.call /\ op'.package = op.package
      /\ op'.todo = Tail(op.todo) /\ op.todo \in Seq(Steps)
  BY <1>0, GoOnParts, OpParts
<1>2. HandlersCurrent'
  BY <1>1 DEF IInv, HandlersCurrent
<1>3. HandlersInv'
  <2> SUFFICES ASSUME NEW k \in CapIds, handlers'[k] \in Packages
               PROVE  /\ op.call \in {"update", "disable", "remove"}
                         /\ handlers[k] = plugins[op.package.name].package
                           => [do |-> "drop", cap |-> k] \in ToSet(Tail(op.todo))
                      /\ Wires(op.call) /\ handlers[k] = op.package =>
                            \A i \in DOMAIN Tail(op.todo) : Tail(op.todo)[i].do # "register"
    BY <1>1 DEF HandlersInv
  <2>1. handlers[k] \in Packages /\ Head(op.todo) # [do |-> "drop", cap |-> k]
    OBVIOUS
  <2>2. /\ op.call \in {"update", "disable", "remove"}
           /\ handlers[k] = plugins[op.package.name].package
             => [do |-> "drop", cap |-> k] \in ToSet(op.todo)
        /\ Wires(op.call) /\ handlers[k] = op.package =>
              \A i \in DOMAIN op.todo : op.todo[i].do # "register"
    BY <1>1, <2>1 DEF IInv, HandlersInv
  <2>3. [do |-> "drop", cap |-> k] \in ToSet(op.todo) =>
           [do |-> "drop", cap |-> k] \in ToSet(Tail(op.todo))
    BY <1>1, <2>1, TailList
  <2>4. (\A i \in DOMAIN op.todo : op.todo[i].do # "register") =>
           \A i \in DOMAIN Tail(op.todo) : Tail(op.todo)[i].do # "register"
    BY <1>1, TailList
  <2> QED
    BY <2>2, <2>3, <2>4
<1> QED
  BY <1>2, <1>3

LEMMA WithdrawKeepsIInv ==
    ASSUME IInv, NEW k \in CapIds, Retire(k) \/ Drop(k)
    PROVE  IInv'
<1>0. TypeOK /\ op.todo # <<>> /\ GoOn /\ plugins' = plugins
  BY DEF IInv, Retire, Drop, At
<1>1. op' \in OpType
  BY <1>0, GoOnParts
<1>2. registry' \in [CapIds -> RecordType]
  <2>1. CASE Drop(k)
    BY <1>0, <2>1 DEF Drop, TypeOK
  <2>2. CASE Retire(k) /\ ~Active(k)
    BY <1>0, <2>2 DEF Retire, TypeOK
  <2>3. CASE Retire(k) /\ Active(k)
    <3> DEFINE r == registry[k]
    <3>1. /\ r = [status |-> r.status, health |-> r.health, outcomes |-> r.outcomes]
          /\ r.health \in {"UNKNOWN", "HEALTHY", "UNHEALTHY"} /\ r.outcomes \in Seq(BOOLEAN)
      BY <1>0, <2>3, RegistryParts
    <3>2. registry' = [registry EXCEPT ![k] = [r EXCEPT !.status = "RETIRED"]]
      BY <2>3 DEF Retire
    <3> HIDE DEF r
    <3>3. [r EXCEPT !.status = "RETIRED"]
            = [status |-> "RETIRED", health |-> r.health, outcomes |-> r.outcomes]
      BY <3>1
    <3>4. [r EXCEPT !.status = "RETIRED"] \in RecordType
      BY <3>1, <3>3 DEF RecordType
    <3> QED
      BY <1>0, <3>2, <3>4 DEF TypeOK
  <2> QED
    BY <2>1, <2>2, <2>3
<1>3. handlers' \in [CapIds -> Packages \cup {NoHandler, Host}]
  BY <1>0 DEF Retire, Drop, TypeOK
<1>4. TypeOK'
  BY <1>0, <1>1, <1>2, <1>3 DEF Retire, Drop, TypeOK, router
<1>5. ASSUME NEW c \in CapIds, handlers'[c] \in Packages
      PROVE  handlers'[c] = handlers[c] /\ Head(op.todo) # [do |-> "drop", cap |-> c]
  <2>1. CASE Retire(k)
    BY <2>1 DEF Retire, At
  <2>2. CASE Drop(k)
    <3>1. c # k
      BY <1>0, <1>5, <2>2, NoHandlerIsNoPackage DEF Drop, TypeOK
    <3> QED
      BY <1>0, <3>1, <2>2 DEF Drop, At, TypeOK
  <2> QED
    BY <2>1, <2>2
<1> QED
  BY <1>0, <1>4, <1>5, GoOnKeeps, NoBindKeeps DEF IInv

LEMMA RegisterKeepsIInv ==
    ASSUME IInv, NEW k \in CapIds, Register(k)
    PROVE  IInv'
<1>0. TypeOK /\ op.todo # <<>> /\ GoOn /\ plugins' = plugins /\ handlers' = handlers
  BY DEF IInv, Register, At
<1>1. op' \in OpType
  BY <1>0, GoOnParts
<1>2. registry' \in [CapIds -> RecordType]
  BY <1>0, RegistryParts DEF Register, TypeOK
<1>3. TypeOK'
  BY <1>0, <1>1, <1>2 DEF Register, TypeOK, router
<1>4. \A c \in CapIds : Head(op.todo) # [do |-> "drop", cap |-> c]
  BY DEF Register, At
<1> QED
  BY <1>0, <1>3, <1>4, GoOnKeeps, NoBindKeeps DEF IInv

(* A registration that raises ends the call; no handler of the package has  *)
(* been bound by then, so none has to go.                                   *)
LEMMA RaiseKeepsIInv ==
    ASSUME IInv, NEW k \in CapIds, RegisterRaises(k)
    PROVE  IInv'
<1>0. /\ TypeOK /\ op.todo # <<>> /\ op # Idle /\ op' = Idle
      /\ UNCHANGED <<plugins, registry, probes, handlers, router>>
  BY DEF IInv, RegisterRaises, At, Idle
<1>1. op.todo \in Seq(Steps) /\ op.package \in Packages /\ op.package.name \in PluginNames
  BY <1>0, OpParts
<1>2. TypeOK'
  <2>1. CapsOf(op.package) \subseteq CapIds
    BY <1>1, PackageType DEF CapsOf, ToSet
  <2>2. leftover' \subseteq CapIds
    BY <1>0, <2>1 DEF RegisterRaises, TypeOK
  <2>3. torn' \subseteq PluginNames
    BY <1>0, <1>1 DEF RegisterRaises, TypeOK
  <2> QED
    BY <1>0, <2>2, <2>3 DEF TypeOK, OpType, router
<1>3. RecordsInv' /\ OneOwner' /\ CallInv' /\ TodoInv' /\ HandlersInv'
  BY <1>0 DEF IInv, RecordsInv, OneOwner, Present, CallInv, TodoInv, HandlersInv
<1>4. HandlersCurrent'
  <2>1. 1 \in DOMAIN op.todo /\ op.todo[1].do = "register"
    <3>1. 1 \in DOMAIN op.todo /\ Head(op.todo) = op.todo[1]
      BY <1>0, <1>1, TailList
    <3>2. Head(op.todo) = [do |-> "register", cap |-> k]
      BY DEF RegisterRaises, At
    <3> QED
      BY <3>1, <3>2
  <2>2. ASSUME NEW c \in CapIds, handlers[c] \in Packages
        PROVE  ~(Wires(op.call) /\ handlers[c] = op.package)
    BY <1>0, <2>1, <2>2 DEF IInv, HandlersInv
  <2> QED
    BY <1>0, <2>2 DEF IInv, HandlersCurrent
<1> QED
  BY <1>2, <1>3, <1>4 DEF IInv

(* Binding starts when no registration is left.                             *)
LEMMA BindKeepsIInv ==
    ASSUME IInv, NEW k \in CapIds, Bind(k)
    PROVE  IInv'
<1>0. TypeOK /\ op.todo # <<>> /\ GoOn /\ plugins' = plugins
  BY DEF IInv, Bind, At
<1>1. /\ op # Idle /\ op' # Idle /\ op' \in OpType
      /\ op'.call = op.call /\ op'.package = op.package /\ op'.todo = Tail(op.todo)
  BY <1>0, GoOnParts
<1>2. op.todo \in Seq(Steps) /\ op.package \in Packages /\ op.call \in Calls
  BY <1>0, <1>1, OpParts
<1>3. handlers' \in [CapIds -> Packages \cup {NoHandler, Host}]
      /\ handlers' = [handlers EXCEPT ![k] = op.package]
  BY <1>0, <1>2 DEF Bind, TypeOK
<1>4. TypeOK'
  BY <1>0, <1>1, <1>3 DEF Bind, TypeOK, router
<1>5. /\ 1 \in DOMAIN op.todo /\ op.todo[1] = [do |-> "bind", cap |-> k]
      /\ Head(op.todo) = op.todo[1]
  <2>1. 1 \in DOMAIN op.todo /\ Head(op.todo) = op.todo[1]
    BY <1>0, <1>2, TailList
  <2>2. Head(op.todo) = [do |-> "bind", cap |-> k]
    BY DEF Bind, At
  <2> QED
    BY <2>1, <2>2
<1>6. Wires(op.call) /\ k \in CapsOf(op.package)
  BY <1>1, <1>5 DEF IInv, TodoInv
<1>7. HandlersCurrent'
  BY <1>0, <1>1, <1>3, <1>6 DEF IInv, HandlersCurrent, TypeOK
<1>8. \A i \in DOMAIN Tail(op.todo) : Tail(op.todo)[i].do # "register"
  <2> SUFFICES ASSUME NEW i \in DOMAIN Tail(op.todo) PROVE Tail(op.todo)[i].do # "register"
    OBVIOUS
  <2>1. i \in Nat /\ i + 1 \in DOMAIN op.todo /\ Tail(op.todo)[i] = op.todo[i + 1]
    BY <1>0, <1>2, TailList
  <2>2. Rank(op.todo[1]) <= Rank(op.todo[i + 1])
    BY <1>1, <1>5, <2>1 DEF IInv, TodoInv
  <2>3. Rank(op.todo[1]) = 2
    BY <1>5 DEF Rank
  <2>4. op.todo[i + 1].do # "register"
    BY <2>2, <2>3 DEF Rank
  <2> QED
    BY <2>1, <2>4
<1>9. HandlersInv'
  <2> SUFFICES ASSUME NEW c \in CapIds, handlers'[c] \in Packages,
                      op.call \in {"update", "disable", "remove"},
                      handlers'[c] = plugins[op.package.name].package
               PROVE  [do |-> "drop", cap |-> c] \in ToSet(Tail(op.todo))
    BY <1>0, <1>1, <1>8 DEF HandlersInv
  <2>1. op.call = "update" /\ plugins[op.package.name].package # op.package
    BY <1>1, <1>6 DEF Wires, IInv, CallInv
  <2>2. c # k /\ handlers'[c] = handlers[c]
    BY <1>0, <1>3, <2>1 DEF TypeOK
  <2>3. [do |-> "drop", cap |-> c] \in ToSet(op.todo)
    BY <1>1, <2>1, <2>2 DEF IInv, HandlersInv
  <2>4. Head(op.todo) # [do |-> "drop", cap |-> c]
    BY <1>5
  <2> QED
    BY <1>0, <1>2, <2>3, <2>4, TailList
<1> QED
  BY <1>0, <1>4, <1>7, <1>9, GoOnKeeps DEF IInv

(* The record that a call leaves: of its package, with a status to match.   *)
LEMMA FinishRecord ==
    ASSUME IInv, Finish
    PROVE  /\ plugins' = [plugins EXCEPT ![op.package.name] = plugins'[op.package.name]]
           /\ plugins'[op.package.name] \in PluginType \ {NoPlugin}
           /\ plugins'[op.package.name].package = op.package
           /\ plugins'[op.package.name].status =
                IF Wires(op.call) THEN "INSTALLED"
                ELSE IF op.call = "disable" THEN "DISABLED" ELSE "REMOVED"
<1> DEFINE n == op.package.name
           old == plugins[n]
<1>0. TypeOK /\ op # Idle
  BY DEF IInv, Finish
<1>1. op.call \in Calls /\ op.package \in Packages /\ n \in PluginNames
  BY <1>0, OpParts
<1>2. DOMAIN plugins = PluginNames
  BY <1>0 DEF TypeOK
<1>3. CASE op.call \in {"install", "update"}
  <2> DEFINE new == [status |-> "INSTALLED", package |-> op.package, previous |-> HistoryOf(n)]
  <2>1. plugins' = [plugins EXCEPT ![n] = new]
    BY <1>3 DEF Finish
  <2>2. HistoryOf(n) \in Seq(VersionNames)
    BY <1>0, <1>1, RecordParts, PackageType DEF HistoryOf
  <2>3. new \in PluginType \ {NoPlugin} /\ new.package = op.package /\ new.status = "INSTALLED"
    BY <1>1, <2>2 DEF PluginType, NoPlugin
  <2> HIDE DEF new
  <2>4. plugins'[n] = new
    BY <1>1, <1>2, <2>1
  <2> QED
    BY <1>3, <2>1, <2>3, <2>4 DEF Wires
<1>4. ASSUME NEW st \in {"INSTALLED", "DISABLED", "REMOVED"},
             op.call \in {"enable", "disable", "remove"},
             plugins' = [plugins EXCEPT ![n] = [@ EXCEPT !.status = st]]
      PROVE  /\ plugins' = [plugins EXCEPT ![n] = plugins'[n]]
             /\ plugins'[n] \in PluginType \ {NoPlugin}
             /\ plugins'[n].package = op.package
             /\ plugins'[n].status = st
  <2>1. Present(n) /\ old.package = op.package
    BY <1>0, <1>4 DEF IInv, CallInv
  <2>2. /\ old \in PluginType /\ old # NoPlugin
        /\ old.package \in Packages /\ old.previous \in Seq(VersionNames)
    BY <1>0, <1>1, <2>1, RecordParts
  <2>3. old = [status |-> old.status, package |-> old.package, previous |-> old.previous]
    BY <2>2 DEF PluginType
  <2> HIDE DEF old
  <2>4. [old EXCEPT !.status = st] = [status |-> st, package |-> old.package, previous |-> old.previous]
    BY <2>3
  <2>5. /\ [old EXCEPT !.status = st] \in PluginType \ {NoPlugin}
        /\ [old EXCEPT !.status = st].package = op.package
        /\ [old EXCEPT !.status = st].status = st
    BY <2>1, <2>2, <2>4 DEF PluginType, NoPlugin
  <2>6. plugins'[n] = [old EXCEPT !.status = st]
    BY <1>1, <1>2, <1>4 DEF old
  <2>7. plugins' = [plugins EXCEPT ![n] = [old EXCEPT !.status = st]]
    BY <1>4 DEF old
  <2> HIDE DEF n
  <2> QED
    BY <2>5, <2>6, <2>7
<1>5. CASE op.call = "enable"
  <2>1. plugins' = [plugins EXCEPT ![n] = [@ EXCEPT !.status = "INSTALLED"]]
    BY <1>5 DEF Finish
  <2> QED
    BY <1>4, <1>5, <2>1 DEF Wires
<1>6. CASE op.call = "disable"
  <2>1. plugins' = [plugins EXCEPT ![n] = [@ EXCEPT !.status = "DISABLED"]]
    BY <1>6 DEF Finish
  <2> QED
    BY <1>4, <1>6, <2>1 DEF Wires
<1>7. CASE op.call = "remove"
  <2>1. plugins' = [plugins EXCEPT ![n] = [@ EXCEPT !.status = "REMOVED"]]
    BY <1>7 DEF Finish
  <2> QED
    BY <1>4, <1>7, <2>1 DEF Wires
<1> QED
  BY <1>1, <1>3, <1>5, <1>6, <1>7 DEF Calls

LEMMA FinishKeepsIInv ==
    ASSUME IInv, Finish
    PROVE  IInv'
<1> DEFINE n == op.package.name
           new == plugins'[n]
<1>0. /\ TypeOK /\ op # Idle /\ op.todo = <<>> /\ op' = Idle
      /\ UNCHANGED <<registry, probes, handlers, router, leftover>>
      /\ torn' = torn \ {n}
  BY DEF IInv, Finish
<1>1. op.call \in Calls /\ op.package \in Packages /\ n \in PluginNames
  BY <1>0, OpParts
<1>2. /\ plugins' = [plugins EXCEPT ![n] = new]
      /\ new \in PluginType \ {NoPlugin} /\ new.package = op.package
      /\ new.status = IF Wires(op.call) THEN "INSTALLED"
                      ELSE IF op.call = "disable" THEN "DISABLED" ELSE "REMOVED"
  BY FinishRecord
<1> HIDE DEF new
<1>3. \A m \in PluginNames : plugins'[m] = IF m = n THEN new ELSE plugins[m]
  BY <1>0, <1>2 DEF TypeOK
<1>4. TypeOK'
  <2>1. plugins' \in [PluginNames -> PluginType]
    BY <1>0, <1>2 DEF TypeOK
  <2> QED
    BY <1>0, <2>1 DEF TypeOK, OpType, router
<1>5. RecordsInv'
  BY <1>2, <1>3 DEF IInv, RecordsInv
<1>6. CallInv' /\ TodoInv' /\ HandlersInv'
  BY <1>0 DEF CallInv, TodoInv, HandlersInv
<1>7. OneOwner'
  <2>1. ASSUME NEW m \in PluginNames, m # n, Present(m)
        PROVE  NamesOf(plugins[m].package) \cap NamesOf(op.package) = {}
    <3>1. CASE op.call \in {"install", "update"}
      BY <1>0, <2>1, <3>1 DEF IInv, CallInv, Free
    <3>2. CASE op.call \in {"disable", "enable", "remove"}
      <4>1. Present(n) /\ plugins[n].package = op.package
        BY <1>0, <3>2 DEF IInv, CallInv
      <4> QED
        BY <1>1, <2>1, <4>1 DEF IInv, OneOwner
    <3> QED
      BY <1>1, <3>1, <3>2 DEF Calls
  <2>2. \A m \in PluginNames : m # n => (Present(m)' <=> Present(m)) /\ plugins'[m] = plugins[m]
    BY <1>3 DEF Present
  <2>3. plugins'[n].package = op.package
    BY <1>1, <1>2, <1>3
  <2> SUFFICES ASSUME NEW l \in PluginNames, NEW m \in PluginNames, l # m,
                      Present(l)', Present(m)'
               PROVE  NamesOf(plugins'[l].package) \cap NamesOf(plugins'[m].package) = {}
    BY DEF OneOwner
  <2> HIDE DEF n
  <2>4. CASE l # n /\ m # n
    BY <2>2, <2>4 DEF IInv, OneOwner
  <2>5. CASE l = n
    BY <2>1, <2>2, <2>3, <2>5
  <2>6. CASE m = n
    BY <2>1, <2>2, <2>3, <2>6
  <2> QED
    BY <2>4, <2>5, <2>6
<1>8. HandlersCurrent'
  <2> SUFFICES ASSUME NEW k \in CapIds, handlers[k] \in Packages
               PROVE  /\ k \in CapsOf(handlers[k])
                      /\ plugins'[handlers[k].name].status = "INSTALLED"
                      /\ plugins'[handlers[k].name].package = handlers[k]
    BY <1>0 DEF HandlersCurrent
  <2> DEFINE p == handlers[k]
  <2>1. /\ k \in CapsOf(p) /\ p.name \in PluginNames
        /\ \/ plugins[p.name].status = "INSTALLED" /\ plugins[p.name].package = p
           \/ op.package = p /\ Wires(op.call)
    BY <1>0, PackageType DEF IInv, HandlersCurrent
  <2>2. ~(op.call \in {"update", "disable", "remove"} /\ p = plugins[n].package)
    BY <1>0 DEF IInv, HandlersInv, ToSet
  <2> HIDE DEF p
  <2>3. CASE op.package = p /\ Wires(op.call)
    BY <1>2, <1>3, <2>1, <2>3 DEF p
  <2>4. CASE ~(op.package = p /\ Wires(op.call))
    <3>1. plugins[p.name].status = "INSTALLED" /\ plugins[p.name].package = p
      BY <2>1, <2>4
    <3>2. p.name # n
      <4> SUFFICES ASSUME p.name = n PROVE FALSE
        OBVIOUS
      <4>1. Present(n) /\ p = plugins[n].package /\ plugins[n].status # "DISABLED"
        BY <3>1 DEF Present
      <4>2. op.call \in {"install", "enable"}
        BY <1>1, <2>2, <4>1 DEF Calls
      <4> QED
        BY <1>0, <4>1, <4>2 DEF IInv, CallInv
    <3> QED
      BY <1>3, <2>1, <3>1, <3>2 DEF p
  <2> QED
    BY <2>1, <2>3, <2>4 DEF p
<1> QED
  BY <1>4, <1>5, <1>6, <1>7, <1>8 DEF IInv

-----------------------------------------------------------------------------
(* The theorems. *)

(* The manager's records, the list of what a call has left to do and the    *)
(* handler table never come apart, whichever call raises and where.         *)
THEOREM PluginsInvariant == Spec => []IInv
<1>1. Init => IInv
  BY InitIInv
<1>2. IInv /\ [Next]_vars => IInv'
  <2> SUFFICES ASSUME IInv, [Next]_vars PROVE IInv'
    OBVIOUS
  <2>1. CASE Call
    BY <2>1, CallsKeepIInv
  <2>2. CASE Step
    BY <2>2, WithdrawKeepsIInv, RegisterKeepsIInv, RaiseKeepsIInv, BindKeepsIInv,
       FinishKeepsIInv DEF Step
  <2>3. CASE Others
    BY <2>3, OthersKeepIInv
  <2>4. CASE UNCHANGED vars
    BY <2>4 DEF vars, IInv, TypeOK, RecordsInv, CallInv, OneOwner, TodoInv, HandlersCurrent,
       HandlersInv, Present, Free
  <2> QED
    BY <2>1, <2>2, <2>3, <2>4 DEF Next
<1> QED
  BY <1>1, <1>2, PTL DEF Spec

(* The tables of registry, manager, runtime and router keep their shape.    *)
THEOREM PluginsTypeCorrect == Spec => []TypeOK
<1>1. IInv => TypeOK
  BY DEF IInv
<1> QED
  BY <1>1, PluginsInvariant, PTL

(* A capability name has at most one plugin that is not removed             *)
(* (PluginManager._validate_and_load checks it for install and update only).*)
THEOREM OneOwnerHolds == Spec => []OneOwner
<1>1. IInv => OneOwner
  BY DEF IInv
<1> QED
  BY <1>1, PluginsInvariant, PTL

(* Runtime.resolve_handler never finds the handler of a plugin that is      *)
(* disabled, removed or superseded, also when a call raised half-way.       *)
THEOREM HandlersCurrentHolds == Spec => []HandlersCurrent
<1>1. IInv => HandlersCurrent
  BY DEF IInv
<1> QED
  BY <1>1, PluginsInvariant, PTL

-----------------------------------------------------------------------------
(***************************************************************************)
(* The second invariant: WiringInv.  Again the lists first.                *)
(***************************************************************************)

Paired(s) ==
    \A i \in DOMAIN s :
        /\ s[i].do = "retire" => i + 1 \in DOMAIN s /\ s[i + 1] = [do |-> "drop", cap |-> s[i].cap]
        /\ s[i].do = "drop" /\ i # 1 => s[i - 1] = [do |-> "retire", cap |-> s[i].cap]

WithdrawsOnly(s, caps) == \A i \in DOMAIN s : s[i].do \in {"retire", "drop"} => s[i].cap \in caps

RegistersOnce(s) == \A i, j \in DOMAIN s : s[i].do = "register" /\ s[j] = s[i] => j = i

StartsNotWithDrop(s) == 1 \in DOMAIN s => s[1].do # "drop"

WiresAll(s, caps) ==
    \A k \in caps : /\ [do |-> "register", cap |-> k] \in ToSet(s)
                    /\ [do |-> "bind", cap |-> k] \in ToSet(s)

LEMMA StepParts ==
    ASSUME NEW e, NEW d, NEW c, e = [do |-> d, cap |-> c]
    PROVE  e.do = d /\ e.cap = c
OBVIOUS

LEMMA UnwirePairs ==
    ASSUME NEW p \in Packages
    PROVE  /\ UnwireSteps(p) \in Seq(Steps)
           /\ Paired(UnwireSteps(p)) /\ WithdrawsOnly(UnwireSteps(p), CapsOf(p))
           /\ StartsNotWithDrop(UnwireSteps(p)) /\ RegistersOnce(UnwireSteps(p))
<1> DEFINE n == Len(p.caps)
           u == UnwireSteps(p)
           cap(i) == p.caps[(i + 1) \div 2]
<1>1. p.caps \in Seq(CapIds) /\ n \in Nat /\ DOMAIN p.caps = 1 .. n
  BY PackageType
<1>2. u \in Seq(Steps) /\ \A i \in DOMAIN u : u[i].do \in {"retire", "drop"}
  BY UnwireList
<1>3. /\ DOMAIN u = 1 .. 2 * n
      /\ \A i \in 1 .. 2 * n :
            u[i] = [do |-> IF i % 2 = 1 THEN "retire" ELSE "drop", cap |-> cap(i)]
  BY DEF UnwireSteps
<1>4. \A i \in 1 .. 2 * n : cap(i) \in CapsOf(p)
  <2> SUFFICES ASSUME NEW i \in 1 .. 2 * n PROVE cap(i) \in CapsOf(p)
    OBVIOUS
  <2>1. (i + 1) \div 2 \in 1 .. n
    BY <1>1
  <2> QED
    BY <1>1, <2>1 DEF CapsOf, ToSet
<1>5. \A i \in 1 .. 2 * n : i % 2 = 1 =>
         i + 1 \in 1 .. 2 * n /\ (i + 1) % 2 # 1 /\ (i + 1 + 1) \div 2 = (i + 1) \div 2
  BY <1>1
<1>6. \A i \in 1 .. 2 * n : i % 2 # 1 /\ i # 1 =>
         i - 1 \in 1 .. 2 * n /\ (i - 1) % 2 = 1 /\ (i - 1 + 1) \div 2 = (i + 1) \div 2
  BY <1>1
<1>7. \A i \in 1 .. 2 * n : i % 2 = 1 => cap(i + 1) = cap(i)
  BY <1>5
<1>8. \A i \in 1 .. 2 * n : i % 2 # 1 /\ i # 1 => cap(i - 1) = cap(i)
  BY <1>6
<1> DEFINE do(i) == IF i % 2 = 1 THEN "retire" ELSE "drop"
<1>3a. \A i \in 1 .. 2 * n : u[i] = [do |-> do(i), cap |-> cap(i)]
  BY <1>3
<1>3b. \A i \in 1 .. 2 * n : /\ i % 2 = 1 => do(i) = "retire"
                             /\ i % 2 # 1 => do(i) = "drop"
  OBVIOUS
<1> HIDE DEF u, cap, do, n
<1>3c. \A i \in 1 .. 2 * n : u[i].do = do(i) /\ u[i].cap = cap(i)
  <2> SUFFICES ASSUME NEW i \in 1 .. 2 * n
               PROVE  u[i].do = do(i) /\ u[i].cap = cap(i)
    OBVIOUS
  <2>1. u[i] = [do |-> do(i), cap |-> cap(i)]
    BY <1>3a
  <2> QED
    BY ONLY <2>1, StepParts
<1>9. Paired(u)
  <2> SUFFICES ASSUME NEW i \in 1 .. 2 * n
               PROVE  /\ u[i].do = "retire" =>
                            i + 1 \in 1 .. 2 * n /\ u[i + 1] = [do |-> "drop", cap |-> u[i].cap]
                      /\ u[i].do = "drop" /\ i # 1 =>
                            u[i - 1] = [do |-> "retire", cap |-> u[i].cap]
    BY <1>3 DEF Paired
  <2>1. CASE i % 2 = 1
    <3>1. u[i].do = "retire" /\ u[i].cap = cap(i)
      BY <1>3b, <1>3c, <2>1
    <3>2. i + 1 \in 1 .. 2 * n /\ do(i + 1) = "drop" /\ cap(i + 1) = cap(i)
      BY <1>3b, <1>5, <1>7, <2>1
    <3>3. u[i + 1] = [do |-> "drop", cap |-> u[i].cap]
      BY <1>3a, <3>1, <3>2
    <3> QED
      BY <3>1, <3>2, <3>3
  <2>2. CASE i % 2 # 1
    <3>1. u[i].do = "drop" /\ u[i].cap = cap(i)
      BY <1>3b, <1>3c, <2>2
    <3>2. i # 1 => u[i - 1] = [do |-> "retire", cap |-> u[i].cap]
      <4> SUFFICES ASSUME i # 1
                   PROVE  u[i - 1] = [do |-> "retire", cap |-> u[i].cap]
        OBVIOUS
      <4>1. i - 1 \in 1 .. 2 * n /\ do(i - 1) = "retire" /\ cap(i - 1) = cap(i)
        BY <1>3b, <1>6, <1>8, <2>2
      <4> QED
        BY <1>3a, <3>1, <4>1
    <3> QED
      BY <3>1, <3>2
  <2> QED
    BY <2>1, <2>2
<1>10. WithdrawsOnly(u, CapsOf(p))
  BY <1>3, <1>3c, <1>4 DEF WithdrawsOnly
<1>11. StartsNotWithDrop(u) /\ RegistersOnce(u)
  <2>1. 1 \in 1 .. 2 * n => u[1].do = "retire"
    BY <1>3b, <1>3c
  <2> QED
    BY <1>2, <1>3, <2>1 DEF StartsNotWithDrop, RegistersOnce
<1> QED
  BY <1>2, <1>9, <1>10, <1>11 DEF u

LEMMA WirePairs ==
    ASSUME NEW p \in Packages
    PROVE  /\ RegistersOnce(WireSteps(p)) /\ WiresAll(WireSteps(p), CapsOf(p))
           /\ Paired(WireSteps(p)) /\ WithdrawsOnly(WireSteps(p), {})
           /\ StartsNotWithDrop(WireSteps(p))
<1> DEFINE n == Len(p.caps)
           r == [i \in DOMAIN p.caps |-> [do |-> "register", cap |-> p.caps[i]]]
           b == [i \in DOMAIN p.caps |-> [do |-> "bind", cap |-> p.caps[i]]]
           w == WireSteps(p)
<1>1. p.caps \in Seq(CapIds) /\ n \in Nat /\ DOMAIN p.caps = 1 .. n
  BY PackageType
<1>2. \A i, j \in 1 .. n : p.caps[i] = p.caps[j] => i = j
  BY <1>1, PackagesAssumption DEF IsInjective
<1>3. \A i \in 1 .. n : p.caps[i] \in CapIds
  BY <1>1
<1>4. /\ r \in Seq(Steps) /\ Len(r) = n
      /\ \A i \in 1 .. n : r[i] = [do |-> "register", cap |-> p.caps[i]]
                            /\ r[i].do = "register" /\ r[i].cap = p.caps[i]
  BY <1>1, <1>3 DEF Steps
<1>5. /\ b \in Seq(Steps) /\ Len(b) = n
      /\ \A i \in 1 .. n : b[i] = [do |-> "bind", cap |-> p.caps[i]] /\ b[i].do = "bind"
  BY <1>1, <1>3 DEF Steps
<1>6. w = r \o b
  BY DEF WireSteps
<1> HIDE DEF r, b, w, n
<1>7. /\ \A i \in DOMAIN w : \/ i \in 1 .. n /\ w[i] = r[i]
                             \/ i - n \in 1 .. n /\ w[i] = b[i - n]
      /\ \A i \in 1 .. n : i \in DOMAIN w /\ w[i] = r[i]
      /\ \A i \in 1 .. n : n + i \in DOMAIN w /\ w[n + i] = b[i]
  <2>1. DOMAIN r = 1 .. n /\ DOMAIN b = 1 .. n
    BY <1>4, <1>5
  <2>2. DOMAIN (r \o b) = 1 .. (n + n)
    <3>1. Len(r \o b) = n + n
      BY <1>4, <1>5
    <3>2. r \o b \in Seq(Steps)
      BY <1>4, <1>5
    <3> QED
      BY <3>1, <3>2
  <2>3. \A i \in 1 .. n : (r \o b)[n + i] = b[i]
    BY <1>1, <1>4, <1>5
  <2> QED
    BY <1>1, <1>4, <1>5, <1>6, <2>1, <2>2, <2>3, ConcatList
<1>8. \A i \in DOMAIN w : /\ w[i].do \in {"register", "bind"}
                          /\ w[i].do = "register" => i \in 1 .. n /\ w[i].cap = p.caps[i]
  BY <1>4, <1>5, <1>7
<1>9. RegistersOnce(w)
  BY <1>2, <1>8 DEF RegistersOnce
<1>10. WiresAll(w, CapsOf(p))
  <2> SUFFICES ASSUME NEW k \in CapsOf(p)
               PROVE  /\ [do |-> "register", cap |-> k] \in ToSet(w)
                      /\ [do |-> "bind", cap |-> k] \in ToSet(w)
    BY DEF WiresAll
  <2>1. PICK i \in 1 .. n : p.caps[i] = k
    BY <1>1 DEF CapsOf, ToSet
  <2>2. i \in DOMAIN w /\ n + i \in DOMAIN w
    BY <1>7
  <2>3. w[i] = [do |-> "register", cap |-> k] /\ w[n + i] = [do |-> "bind", cap |-> k]
    BY <1>4, <1>5, <1>7, <2>1
  <2> QED
    BY <2>2, <2>3 DEF ToSet
<1>11. Paired(w) /\ WithdrawsOnly(w, {}) /\ StartsNotWithDrop(w)
  BY <1>8 DEF Paired, WithdrawsOnly, StartsNotWithDrop
<1> QED
  BY <1>9, <1>10, <1>11 DEF w

LEMMA UpdatePairs ==
    ASSUME NEW p \in Packages, NEW q \in Packages
    PROVE  LET s == UnwireSteps(p) \o WireSteps(q) IN
           /\ Paired(s) /\ WithdrawsOnly(s, CapsOf(p)) /\ StartsNotWithDrop(s)
           /\ RegistersOnce(s) /\ WiresAll(s, CapsOf(q))
<1> DEFINE u == UnwireSteps(p)
           w == WireSteps(q)
           s == u \o w
           m == Len(u)
           n == Len(w)
<1>1. /\ u \in Seq(Steps) /\ m \in Nat /\ DOMAIN u = 1 .. m
      /\ \A i \in 1 .. m : u[i].do \in {"retire", "drop"}
      /\ Paired(u) /\ WithdrawsOnly(u, CapsOf(p)) /\ StartsNotWithDrop(u)
  BY UnwireList, UnwirePairs
<1>2. /\ w \in Seq(Steps) /\ n \in Nat /\ DOMAIN w = 1 .. n
      /\ \A i \in 1 .. n : w[i].do \in {"register", "bind"}
      /\ RegistersOnce(w) /\ WiresAll(w, CapsOf(q))
  BY WireList, WirePairs
<1> HIDE DEF u, w
<1>3. /\ DOMAIN s = 1 .. (m + n)
      /\ \A i \in 1 .. m : s[i] = u[i] /\ i \in DOMAIN s
      /\ \A i \in 1 .. n : s[m + i] = w[i] /\ m + i \in DOMAIN s
  BY <1>1, <1>2
<1> HIDE DEF s, m, n
<1>4. \A i \in DOMAIN s : i \in 1 .. m \/ (i - m \in 1 .. n /\ s[i] = w[i - m])
  <2> SUFFICES ASSUME NEW i \in DOMAIN s, i \notin 1 .. m
               PROVE  i - m \in 1 .. n /\ s[i] = w[i - m]
    OBVIOUS
  <2>1. i - m \in 1 .. n /\ m + (i - m) = i
    BY <1>1, <1>2, <1>3
  <2> QED
    BY <1>3, <2>1
<1>5. Paired(s)
  <2> SUFFICES ASSUME NEW i \in DOMAIN s
               PROVE  /\ s[i].do = "retire" =>
                            i + 1 \in DOMAIN s /\ s[i + 1] = [do |-> "drop", cap |-> s[i].cap]
                      /\ s[i].do = "drop" /\ i # 1 =>
                            s[i - 1] = [do |-> "retire", cap |-> s[i].cap]
    BY DEF Paired
  <2>1. CASE i \in 1 .. m
    <3>1. s[i] = u[i]
      BY <1>3, <2>1
    <3>2. u[i].do = "retire" =>
             i + 1 \in 1 .. m /\ u[i + 1] = [do |-> "drop", cap |-> u[i].cap]
      BY <1>1, <2>1 DEF Paired
    <3>3. u[i].do = "drop" /\ i # 1 =>
             i - 1 \in 1 .. m /\ u[i - 1] = [do |-> "retire", cap |-> u[i].cap]
      <4>1. i # 1 => i - 1 \in 1 .. m
        BY <1>1, <2>1
      <4> QED
        BY <1>1, <2>1, <4>1 DEF Paired
    <3> QED
      BY <1>3, <3>1, <3>2, <3>3
  <2>2. CASE i - m \in 1 .. n /\ s[i] = w[i - m]
    BY <1>2, <2>2
  <2> QED
    BY <1>4, <2>1, <2>2
<1>6. WithdrawsOnly(s, CapsOf(p))
  BY <1>1, <1>2, <1>3, <1>4 DEF WithdrawsOnly
<1>7. StartsNotWithDrop(s)
  BY <1>1, <1>2, <1>3, <1>4 DEF StartsNotWithDrop
<1>8. RegistersOnce(s)
  <2> SUFFICES ASSUME NEW i \in DOMAIN s, NEW j \in DOMAIN s, s[i].do = "register", s[j] = s[i]
               PROVE  j = i
    BY DEF RegistersOnce
  <2>1. i - m \in 1 .. n /\ s[i] = w[i - m] /\ j - m \in 1 .. n /\ s[j] = w[j - m]
    BY <1>1, <1>3, <1>4
  <2>2. i - m = j - m
    BY <1>2, <2>1 DEF RegistersOnce
  <2> QED
    BY <1>1, <1>3, <2>2
<1>9. WiresAll(s, CapsOf(q))
  BY <1>2, <1>3 DEF WiresAll, ToSet
<1> QED
  BY <1>5, <1>6, <1>7, <1>8, <1>9 DEF s, u, w

-----------------------------------------------------------------------------
(* What one step of a call does to the list of what is left.                *)

LEMMA AheadStep ==
    ASSUME IInv, op.todo # <<>>, GoOn, PairsInv, plugins' = plugins
    PROVE  /\ PairsInv'
           /\ op # Idle /\ op' # Idle /\ op'.call = op.call /\ op'.package = op.package
           /\ \A do, k : Ahead(do, k)' => Ahead(do, k)
           /\ \A do, k : Ahead(do, k) => Ahead(do, k)' \/ Head(op.todo) = [do |-> do, cap |-> k]
           /\ \A k : At("drop", k)' => Head(op.todo) = [do |-> "retire", cap |-> k]
           /\ \A k : At("retire", k) => At("drop", k)'
           /\ \A k : At("register", k) => ~Ahead("register", k)'
           /\ (\A i \in DOMAIN op.todo : ~Withdraws(i)) => \A i \in DOMAIN op'.todo : ~Withdraws(i)'
<1> DEFINE s == op.todo
           u == Tail(s)
<1>1. /\ op # Idle /\ op' # Idle /\ op'.call = op.call /\ op'.package = op.package
      /\ op'.todo = u /\ s \in Seq(Steps)
  BY GoOnParts, OpParts DEF IInv
<1>2. /\ 1 \in DOMAIN s /\ Head(s) = s[1]
      /\ \A i \in DOMAIN u : i \in Nat /\ i + 1 \in DOMAIN s /\ u[i] = s[i + 1]
      /\ \A e \in ToSet(s) : e = Head(s) \/ e \in ToSet(u)
      /\ u \in Seq(Steps)
  BY <1>1, TailList
<1>3. /\ DOMAIN s = 1 .. Len(s) /\ Len(s) \in Nat /\ DOMAIN u = 1 .. (Len(s) - 1)
  BY <1>1
<1>4. \A i \in DOMAIN s :
        /\ s[i].do = "retire" =>
              i + 1 \in DOMAIN s /\ s[i + 1] = [do |-> "drop", cap |-> s[i].cap]
        /\ s[i].do = "drop" /\ i # 1 => s[i - 1] = [do |-> "retire", cap |-> s[i].cap]
        /\ s[i].do \in {"retire", "drop"} =>
              /\ op.call \in {"update", "disable", "remove"}
              /\ s[i].cap \in CapsOf(plugins[op.package.name].package)
        /\ \A j \in DOMAIN s : s[i].do = "register" /\ s[j] = s[i] => j = i
  BY <1>1 DEF PairsInv, Withdraws
<1> HIDE DEF s, u
<1>5. PairsInv'
  <2>1. ASSUME NEW i \in DOMAIN u
        PROVE  /\ u[i].do = "retire" =>
                     i + 1 \in DOMAIN u /\ u[i + 1] = [do |-> "drop", cap |-> u[i].cap]
               /\ u[i].do = "drop" /\ i # 1 => u[i - 1] = [do |-> "retire", cap |-> u[i].cap]
               /\ u[i].do \in {"retire", "drop"} =>
                     /\ op.call \in {"update", "disable", "remove"}
                     /\ u[i].cap \in CapsOf(plugins[op.package.name].package)
               /\ \A j \in DOMAIN u : u[i].do = "register" /\ u[j] = u[i] => j = i
    <3>1. i \in Nat /\ i + 1 \in DOMAIN s /\ u[i] = s[i + 1]
      BY <1>2
    <3>2. u[i].do = "retire" =>
             i + 1 \in DOMAIN u /\ u[i + 1] = [do |-> "drop", cap |-> u[i].cap]
      <4> SUFFICES ASSUME u[i].do = "retire"
                   PROVE  i + 1 \in DOMAIN u /\ u[i + 1] = [do |-> "drop", cap |-> u[i].cap]
        OBVIOUS
      <4>1. i + 1 + 1 \in DOMAIN s /\ s[i + 1 + 1] = [do |-> "drop", cap |-> s[i + 1].cap]
        BY <1>4, <3>1
      <4>2. i + 1 \in DOMAIN u
        BY <1>3, <3>1, <4>1
      <4> QED
        BY <1>2, <3>1, <4>1, <4>2
    <3>3. u[i].do = "drop" /\ i # 1 => u[i - 1] = [do |-> "retire", cap |-> u[i].cap]
      <4> SUFFICES ASSUME u[i].do = "drop", i # 1
                   PROVE  u[i - 1] = [do |-> "retire", cap |-> u[i].cap]
        OBVIOUS
      <4> DEFINE j == i + 1
      <4>1. j \in DOMAIN s /\ s[j] = u[i] /\ s[j].do = "drop" /\ j # 1 /\ j - 1 = i
        BY <1>3, <3>1
      <4>2. i - 1 \in DOMAIN u /\ i - 1 + 1 = i
        BY <1>3, <3>1
      <4>3. u[i - 1] = s[i]
        BY <1>2, <4>2
      <4> HIDE DEF j
      <4>4. s[j - 1] = [do |-> "retire", cap |-> s[j].cap]
        BY <1>4, <4>1
      <4> QED
        BY <4>1, <4>3, <4>4
    <3>4. \A j \in DOMAIN u : u[i].do = "register" /\ u[j] = u[i] => j = i
      <4> SUFFICES ASSUME NEW j \in DOMAIN u, u[i].do = "register", u[j] = u[i]
                   PROVE  j = i
        OBVIOUS
      <4>1. j \in Nat /\ j + 1 \in DOMAIN s /\ u[j] = s[j + 1]
        BY <1>2
      <4>2. j + 1 = i + 1
        BY <1>4, <3>1, <4>1
      <4> QED
        BY <3>1, <4>1, <4>2
    <3> QED
      BY <1>4, <3>1, <3>2, <3>3, <3>4
  <2> QED
    BY <1>1, <2>1 DEF PairsInv, Withdraws
<1>6. \A do, k : Ahead(do, k)' => Ahead(do, k)
  BY <1>1, <1>2 DEF Ahead, ToSet, s
<1>7. \A do, k : Ahead(do, k) => Ahead(do, k)' \/ Head(op.todo) = [do |-> do, cap |-> k]
  BY <1>1, <1>2 DEF Ahead, s
<1>8. ASSUME NEW k, At("drop", k)'
      PROVE  Head(op.todo) = [do |-> "retire", cap |-> k]
  <2>1. u # <<>> /\ Head(u) = [do |-> "drop", cap |-> k]
    BY <1>1, <1>8 DEF At
  <2>2. 1 \in DOMAIN u /\ u[1] = [do |-> "drop", cap |-> k]
    BY <1>2, <2>1
  <2>3. 1 + 1 \in DOMAIN s /\ s[1 + 1] = [do |-> "drop", cap |-> k]
    BY <1>2, <2>2
  <2>4. s[1 + 1].do = "drop" /\ s[1 + 1].cap = k
    BY <2>3
  <2>5. s[1 + 1 - 1] = [do |-> "retire", cap |-> k]
    BY <1>4, <2>3, <2>4
  <2> QED
    BY <1>2, <2>5 DEF s
<1>9. ASSUME NEW k, At("retire", k)
      PROVE  At("drop", k)'
  <2>1. s[1].do = "retire" /\ s[1].cap = k
    BY <1>2, <1>9 DEF At, s
  <2>2. 1 + 1 \in DOMAIN s /\ s[1 + 1] = [do |-> "drop", cap |-> k]
    BY <1>2, <1>4, <2>1
  <2>3. 1 \in DOMAIN u
    BY <1>3, <2>2
  <2>4. u[1] = [do |-> "drop", cap |-> k]
    BY <1>2, <2>2, <2>3
  <2>5. u # <<>> /\ Head(u) = u[1]
    BY <1>2, <2>3
  <2> QED
    BY <1>1, <2>4, <2>5 DEF At
<1>10. ASSUME NEW k, At("register", k), Ahead("register", k)'
       PROVE  FALSE
  <2>1. s[1] = [do |-> "register", cap |-> k] /\ s[1].do = "register"
    BY <1>2, <1>10 DEF At, s
  <2>2. PICK i \in DOMAIN u : u[i] = [do |-> "register", cap |-> k]
    BY <1>1, <1>10 DEF Ahead, ToSet
  <2>3. i \in Nat /\ i + 1 \in DOMAIN s /\ s[i + 1] = s[1] /\ i # 0
    BY <1>2, <1>3, <2>1, <2>2
  <2>4. i + 1 = 1
    BY <1>2, <1>4, <2>1, <2>3
  <2> QED
    BY <2>3, <2>4
<1>11. (\A i \in DOMAIN op.todo : ~Withdraws(i)) => \A i \in DOMAIN op'.todo : ~Withdraws(i)'
  BY <1>1, <1>2 DEF Withdraws, s
<1> QED
  BY <1>1, <1>5, <1>6, <1>7, <1>8, <1>9, <1>10, <1>11

-----------------------------------------------------------------------------
(* The beginning of a call. *)

LEMMA InitWiring == Init => WiringInv
<1> SUFFICES ASSUME Init PROVE WiringInv
  OBVIOUS
<1>1. /\ op = Idle /\ \A k \in CapIds : handlers[k] = NoHandler /\ ~Active(k)
      /\ \A n \in PluginNames : plugins[n].status # "INSTALLED"
  BY DEF Init, Active, Absent, NoPlugin
<1>2. op.call = "idle" /\ \A do, k : ~At(do, k)
  BY <1>1 DEF Idle, At
<1> QED
  BY <1>1, <1>2 DEF WiringInv, HandlerBehindActive, PairsInv, ProgressInv, WithdrawInv, WiredInv, BareInv

LEMMA BeginWiring ==
    ASSUME IInv, WiringInv, NEW call \in Calls, NEW p \in Packages, NEW todo \in Seq(Steps),
           Begin(call, p, todo),
           Paired(todo), RegistersOnce(todo), StartsNotWithDrop(todo),
           WithdrawsOnly(todo, CapsOf(plugins[p.name].package)),
           (\E i \in DOMAIN todo : todo[i].do \in {"retire", "drop"}) =>
              call \in {"update", "disable", "remove"},
           Wires(call) => WiresAll(todo, CapsOf(p)),
           call \in {"disable", "remove"} /\ todo # <<>> => plugins[p.name].status = "INSTALLED"
    PROVE  WiringInv'
<1>0. /\ op = Idle /\ UNCHANGED <<records, router>>
      /\ \A do, k : ~At(do, k)
  BY DEF Begin, Idle, At
<1>1. op'.call = call /\ op'.package = p /\ op'.todo = todo
  BY DEF Begin
<1>2. UNCHANGED <<plugins, registry, handlers, leftover, torn>>
  BY <1>0 DEF records
<1>3. \A k : Active(k)' <=> Active(k)
  BY <1>2 DEF Active
<1>4. HandlerBehindActive'
  BY <1>0, <1>2, <1>3 DEF WiringInv, HandlerBehindActive
<1>5. PairsInv'
  BY <1>1, <1>2 DEF PairsInv, Withdraws, Paired, RegistersOnce, WithdrawsOnly
<1>6. ProgressInv'
  BY <1>1 DEF ProgressInv, WiresAll, Ahead
<1>7. ASSUME NEW k \in CapIds
      PROVE  ~At("drop", k)'
  <2> SUFFICES ASSUME At("drop", k)' PROVE FALSE
    OBVIOUS
  <2>1. todo # <<>> /\ Head(todo) = [do |-> "drop", cap |-> k]
    BY <1>1 DEF At
  <2>2. 1 \in DOMAIN todo /\ todo[1] = [do |-> "drop", cap |-> k]
    BY <2>1, TailList
  <2> QED
    BY <2>2 DEF StartsNotWithDrop
<1>8. ASSUME NEW k \in CapIds, call \in {"disable", "remove"}, p.name \notin torn, Ahead("drop", k)'
      PROVE  handlers[k] # Host
  <2>1. PICK i \in DOMAIN todo : todo[i] = [do |-> "drop", cap |-> k]
    BY <1>1, <1>8 DEF Ahead, ToSet
  <2>2. k \in CapsOf(plugins[p.name].package) /\ todo # <<>>
    BY <2>1 DEF WithdrawsOnly
  <2>3. plugins[p.name].status = "INSTALLED" /\ p.name \in PluginNames
    BY <1>8, <2>2, PackageType
  <2>4. handlers[k] = plugins[p.name].package
    BY <1>0, <1>8, <2>2, <2>3 DEF WiringInv, WiredInv
  <2>5. plugins[p.name].package \in Packages
    BY <2>3, RecordParts DEF IInv, Present
  <2> QED
    BY <2>4, <2>5, NoHandlerIsNoPackage
<1>9. WithdrawInv'
  BY <1>1, <1>2, <1>7, <1>8 DEF WithdrawInv
<1>10. WiredInv'
  BY <1>0, <1>2, <1>3 DEF WiringInv, WiredInv
<1>11. BareInv'
  BY <1>0, <1>2, <1>3 DEF WiringInv, BareInv
<1> QED
  BY <1>4, <1>5, <1>6, <1>9, <1>10, <1>11 DEF WiringInv

LEMMA CallsKeepWiring == IInv /\ WiringInv /\ Call => WiringInv'
<1> SUFFICES ASSUME IInv, WiringInv, Call PROVE WiringInv'
  OBVIOUS
<1>1. ASSUME NEW p \in Packages, Install(p) PROVE WiringInv'
  <2>1. Begin("install", p, WireSteps(p)) /\ "install" \in Calls
    BY <1>1 DEF Install, Calls
  <2>2. WithdrawsOnly(WireSteps(p), CapsOf(plugins[p.name].package))
    BY WirePairs DEF WithdrawsOnly
  <2>3. \A i \in DOMAIN WireSteps(p) : WireSteps(p)[i].do \notin {"retire", "drop"}
    BY WirePairs DEF WithdrawsOnly
  <2> HIDE DEF WireSteps
  <2> QED
    BY <2>1, <2>2, <2>3, WireList, WirePairs, BeginWiring
<1>2. ASSUME NEW p \in Packages, Update(p) PROVE WiringInv'
  <2> DEFINE q == plugins[p.name].package
             todo == UnwireSteps(q) \o WireSteps(p)
  <2>1. Begin("update", p, todo) /\ Present(p.name) /\ "update" \in Calls /\ p.name \in PluginNames
    BY <1>2, PackageType DEF Update, Calls
  <2>2. q \in Packages
    BY <2>1, RecordParts DEF IInv
  <2>3. /\ todo \in Seq(Steps) /\ Paired(todo) /\ WithdrawsOnly(todo, CapsOf(q))
        /\ StartsNotWithDrop(todo) /\ RegistersOnce(todo) /\ WiresAll(todo, CapsOf(p))
    BY <2>2, UpdateList, UpdatePairs
  <2> HIDE DEF todo
  <2> QED
    BY <2>1, <2>3, BeginWiring
<1>3. ASSUME NEW n \in PluginNames, NEW call \in {"disable", "remove"}, Present(n),
             Begin(call, plugins[n].package,
                   IF plugins[n].status = "INSTALLED" THEN UnwireSteps(plugins[n].package)
                   ELSE <<>>)
      PROVE  WiringInv'
  <2> DEFINE q == plugins[n].package
             todo == IF plugins[n].status = "INSTALLED" THEN UnwireSteps(q) ELSE <<>>
  <2>1. q \in Packages /\ q.name = n /\ op = Idle
    BY <1>3, BetweenCalls DEF Begin
  <2>2. Paired(<<>>) /\ WithdrawsOnly(<<>>, CapsOf(q)) /\ StartsNotWithDrop(<<>>) /\ RegistersOnce(<<>>)
        /\ <<>> \in Seq(Steps)
    BY DEF Paired, WithdrawsOnly, StartsNotWithDrop, RegistersOnce
  <2>3. /\ todo \in Seq(Steps) /\ Paired(todo) /\ WithdrawsOnly(todo, CapsOf(q))
        /\ StartsNotWithDrop(todo) /\ RegistersOnce(todo)
        /\ todo # <<>> => plugins[n].status = "INSTALLED"
    BY <2>1, <2>2, UnwirePairs
  <2>4. Begin(call, q, todo) /\ call \in Calls /\ ~Wires(call)
    BY <1>3 DEF Calls, Wires
  <2> HIDE DEF todo, q
  <2>5. WithdrawsOnly(todo, CapsOf(plugins[q.name].package))
    BY <2>1, <2>3 DEF q
  <2>6. call \in {"disable", "remove"} /\ todo # <<>> => plugins[q.name].status = "INSTALLED"
    BY <2>1, <2>3
  <2> QED
    BY <2>1, <2>3, <2>4, <2>5, <2>6, BeginWiring
<1>4. ASSUME NEW n \in PluginNames, Disable(n) PROVE WiringInv'
  <2>1. Present(n) /\ Begin("disable", plugins[n].package,
              IF plugins[n].status = "INSTALLED" THEN UnwireSteps(plugins[n].package) ELSE <<>>)
    BY <1>4 DEF Disable, Present
  <2> QED
    BY <1>3, <2>1
<1>5. ASSUME NEW n \in PluginNames, Enable(n) PROVE WiringInv'
  <2> DEFINE p == plugins[n].package
  <2>1. Begin("enable", p, WireSteps(p)) /\ Present(n) /\ op = Idle /\ "enable" \in Calls
    BY <1>5 DEF Enable, Present, Calls, Begin
  <2>2. p \in Packages
    BY <2>1, BetweenCalls
  <2> HIDE DEF p
  <2>3. WithdrawsOnly(WireSteps(p), CapsOf(plugins[p.name].package))
    BY <2>2, WirePairs DEF WithdrawsOnly
  <2>4. \A i \in DOMAIN WireSteps(p) : WireSteps(p)[i].do \notin {"retire", "drop"}
    BY <2>2, WirePairs DEF WithdrawsOnly
  <2> HIDE DEF WireSteps
  <2> QED
    BY <2>1, <2>2, <2>3, <2>4, WireList, WirePairs, BeginWiring
<1>6. ASSUME NEW n \in PluginNames, RemovePlugin(n) PROVE WiringInv'
  BY <1>3, <1>6 DEF RemovePlugin
<1> QED
  BY <1>1, <1>2, <1>4, <1>5, <1>6 DEF Call

-----------------------------------------------------------------------------
(* The steps of a call. *)

(* Withdrawing does not touch the other plugins.                            *)
LEMMA OthersApart ==
    ASSUME IInv, op # Idle, NEW n \in PluginNames, n # op.package.name, Present(n)
    PROVE  /\ CapsOf(plugins[n].package) \cap CapsOf(op.package) = {}
           /\ op.call \in {"update", "disable", "remove"} =>
                 CapsOf(plugins[n].package) \cap CapsOf(plugins[op.package.name].package) = {}
<1>1. op.call \in Calls /\ op.package.name \in PluginNames
  BY OpParts DEF IInv
<1>2. \A p, q : NamesOf(p) \cap NamesOf(q) = {} => CapsOf(p) \cap CapsOf(q) = {}
  BY DEF NamesOf
<1>3. op.call \in {"update", "disable", "remove", "enable"} =>
         NamesOf(plugins[n].package) \cap NamesOf(plugins[op.package.name].package) = {}
  BY <1>1 DEF IInv, CallInv, OneOwner
<1>4. NamesOf(plugins[n].package) \cap NamesOf(op.package) = {}
  <2>1. CASE op.call \in {"install", "update"}
    BY <2>1 DEF IInv, CallInv, Free
  <2>2. CASE op.call \in {"disable", "enable", "remove"}
    BY <1>3, <2>2 DEF IInv, CallInv
  <2> QED
    BY <1>1, <2>1, <2>2 DEF Calls
<1> QED
  BY <1>2, <1>3, <1>4

(* What is at the head of the list of steps.                                *)
LEMMA HeadStep ==
    ASSUME IInv, NEW do, NEW k, At(do, k)
    PROVE  /\ op # Idle /\ op.todo # <<>> /\ op.todo \in Seq(Steps)
           /\ 1 \in DOMAIN op.todo /\ op.todo[1] = [do |-> do, cap |-> k]
           /\ op.todo[1].do = do /\ op.todo[1].cap = k
           /\ \A d, c : At(d, c) => d = do /\ c = k
           /\ Ahead(do, k)
<1>1. op # Idle /\ op.todo # <<>> /\ Head(op.todo) = [do |-> do, cap |-> k]
  BY DEF At, Idle
<1>2. op.todo \in Seq(Steps)
  BY <1>1, OpParts DEF IInv
<1>3. 1 \in DOMAIN op.todo /\ op.todo[1] = [do |-> do, cap |-> k]
  BY <1>1, <1>2, TailList
<1>4. \A d, c : At(d, c) => d = do /\ c = k
  <2> SUFFICES ASSUME NEW d, NEW c, At(d, c) PROVE d = do /\ c = k
    OBVIOUS
  <2>1. [do |-> d, cap |-> c] = [do |-> do, cap |-> k]
    BY <1>1 DEF At
  <2> QED
    BY <2>1
<1> QED
  BY <1>1, <1>2, <1>3, <1>4 DEF Ahead, ToSet

(* While something is withdrawn, everything is still to be registered.      *)
LEMMA WithdrawingFirst ==
    ASSUME IInv, WiringInv, NEW do \in {"retire", "drop"}, NEW k, At(do, k)
    PROVE  /\ op.call \in {"update", "disable", "remove"}
           /\ k \in CapsOf(plugins[op.package.name].package)
           /\ Wires(op.call) =>
                 \A c \in CapsOf(op.package) : Ahead("register", c) /\ Ahead("bind", c)
           /\ \A n \in PluginNames : n # op.package.name /\ Present(n) =>
                 k \notin CapsOf(plugins[n].package)
<1>1. op # Idle /\ 1 \in DOMAIN op.todo /\ op.todo[1].do = do /\ op.todo[1].cap = k
  BY HeadStep
<1>2. Withdraws(1)
  BY <1>1 DEF Withdraws
<1>3. op.call \in {"update", "disable", "remove"} /\ k \in CapsOf(plugins[op.package.name].package)
  BY <1>1, <1>2 DEF WiringInv, PairsInv
<1>4. Wires(op.call) => \A c \in CapsOf(op.package) : Ahead("register", c) /\ Ahead("bind", c)
  BY <1>1, <1>2 DEF WiringInv, ProgressInv
<1> QED
  BY <1>1, <1>3, <1>4, OthersApart

LEMMA RetireKeepsWiring ==
    ASSUME IInv, WiringInv, NEW k \in CapIds, Retire(k)
    PROVE  WiringInv'
<1>1. /\ At("retire", k) /\ op.todo # <<>> /\ GoOn
      /\ UNCHANGED <<plugins, handlers, torn>> /\ leftover' = leftover \ {k}
      /\ Head(op.todo) = [do |-> "retire", cap |-> k] /\ op # Idle
  BY HeadStep DEF Retire, At
<1>2. PairsInv /\ ProgressInv /\ WithdrawInv /\ WiredInv /\ BareInv /\ HandlerBehindActive
  BY DEF WiringInv
<1>3. /\ PairsInv' /\ op' # Idle /\ op'.call = op.call /\ op'.package = op.package
      /\ \A do, c : Ahead(do, c)' => Ahead(do, c)
      /\ \A do, c : Ahead(do, c) => Ahead(do, c)' \/ Head(op.todo) = [do |-> do, cap |-> c]
      /\ \A c : At("drop", c)' => Head(op.todo) = [do |-> "retire", cap |-> c]
      /\ At("drop", k)'
  BY <1>1, <1>2, AheadStep
<1>4. /\ ~Active(k)' /\ \A c \in CapIds \ {k} : Active(c)' <=> Active(c)
  <2>1. CASE Active(k)
    <3>1. registry' = [registry EXCEPT ![k].status = "RETIRED"] /\ registry \in [CapIds -> RecordType]
      BY <2>1 DEF Retire, IInv, TypeOK
    <3>2. \A c \in CapIds \ {k} : registry'[c] = registry[c]
      BY <3>1
    <3>3. registry'[k] = [registry[k] EXCEPT !.status = "RETIRED"]
      BY <3>1
    <3>4. registry[k] = [status |-> registry[k].status, health |-> registry[k].health,
                         outcomes |-> registry[k].outcomes]
      BY <2>1, RegistryParts DEF IInv
    <3>5. registry'[k].status = "RETIRED"
      BY <3>3, <3>4
    <3> QED
      BY <3>2, <3>5 DEF Active
  <2>2. CASE ~Active(k)
    BY <2>2 DEF Retire, Active
  <2> QED
    BY <2>1, <2>2
<1>5. \A c : ~At("drop", c)
  BY <1>1, HeadStep
<1>6. /\ Wires(op.call) =>
            \A c \in CapsOf(op.package) : Ahead("register", c) /\ Ahead("bind", c)
      /\ \A n \in PluginNames : n # op.package.name /\ Present(n) =>
            k \notin CapsOf(plugins[n].package)
  BY <1>1, WithdrawingFirst
<1>7. \A c : /\ Head(op.todo) # [do |-> "register", cap |-> c]
             /\ Head(op.todo) # [do |-> "bind", cap |-> c]
             /\ Head(op.todo) = [do |-> "retire", cap |-> c] => c = k
  BY <1>1
<1>8. HandlerBehindActive'
  BY <1>1, <1>2, <1>3, <1>4, <1>5 DEF HandlerBehindActive
<1>9. ProgressInv'
  BY <1>3, <1>6, <1>7 DEF ProgressInv
<1>10. WithdrawInv'
  BY <1>1, <1>2, <1>3, <1>4, <1>7 DEF WithdrawInv
<1>11. WiredInv'
  <2> SUFFICES ASSUME NEW n \in PluginNames \ torn, plugins[n].status = "INSTALLED",
                      op.package.name # n, NEW c \in CapsOf(plugins[n].package)
               PROVE  Active(c)' /\ handlers[c] = plugins[n].package
    BY <1>1, <1>3 DEF WiredInv
  <2>1. Active(c) /\ handlers[c] = plugins[n].package
    BY <1>2 DEF WiredInv
  <2>2. c # k
    BY <1>6 DEF Present
  <2>3. c \in CapIds
    <3>1. plugins[n].package \in Packages
      BY RecordParts DEF IInv, Present
    <3> QED
      BY <3>1, PackageType DEF CapsOf, ToSet
  <2> QED
    BY <1>4, <2>1, <2>2, <2>3
<1>12. BareInv'
  BY <1>1, <1>2, <1>3, <1>4 DEF BareInv
<1> QED
  BY <1>3, <1>8, <1>9, <1>10, <1>11, <1>12 DEF WiringInv

LEMMA DropKeepsWiring ==
    ASSUME IInv, WiringInv, NEW k \in CapIds, Drop(k)
    PROVE  WiringInv'
<1>1. /\ At("drop", k) /\ op.todo # <<>> /\ GoOn
      /\ UNCHANGED <<plugins, registry, leftover, torn>>
      /\ handlers' = [handlers EXCEPT ![k] = NoHandler]
      /\ Head(op.todo) = [do |-> "drop", cap |-> k] /\ op # Idle
  BY HeadStep DEF Drop, At
<1>2. PairsInv /\ ProgressInv /\ WithdrawInv /\ WiredInv /\ BareInv /\ HandlerBehindActive
  BY DEF WiringInv
<1>3. /\ PairsInv' /\ op' # Idle /\ op'.call = op.call /\ op'.package = op.package
      /\ \A do, c : Ahead(do, c)' => Ahead(do, c)
      /\ \A do, c : Ahead(do, c) => Ahead(do, c)' \/ Head(op.todo) = [do |-> do, cap |-> c]
      /\ \A c : At("drop", c)' => Head(op.todo) = [do |-> "retire", cap |-> c]
  BY <1>1, <1>2, AheadStep
<1>4. /\ handlers'[k] = NoHandler /\ \A c \in CapIds \ {k} : handlers'[c] = handlers[c]
      /\ \A c : Active(c)' <=> Active(c)
      /\ ~Active(k)
  BY <1>1, <1>2 DEF IInv, TypeOK, Active, WithdrawInv
<1>5. \A c : At("drop", c) => c = k
  BY <1>1, HeadStep
<1>6. /\ Wires(op.call) =>
            \A c \in CapsOf(op.package) : Ahead("register", c) /\ Ahead("bind", c)
      /\ \A n \in PluginNames : n # op.package.name /\ Present(n) =>
            k \notin CapsOf(plugins[n].package)
  BY <1>1, WithdrawingFirst
<1>7. \A c : /\ Head(op.todo) # [do |-> "register", cap |-> c]
             /\ Head(op.todo) # [do |-> "bind", cap |-> c]
             /\ Head(op.todo) # [do |-> "retire", cap |-> c]
  BY <1>1
<1>8. HandlerBehindActive'
  BY <1>2, <1>4, <1>5 DEF HandlerBehindActive
<1>9. ProgressInv'
  BY <1>3, <1>6, <1>7 DEF ProgressInv
<1>10. WithdrawInv'
  BY <1>1, <1>2, <1>3, <1>4, <1>7, NoHandlerIsNotHost DEF WithdrawInv
<1>11. WiredInv'
  <2> SUFFICES ASSUME NEW n \in PluginNames \ torn, plugins[n].status = "INSTALLED",
                      op.package.name # n, NEW c \in CapsOf(plugins[n].package)
               PROVE  Active(c) /\ handlers'[c] = plugins[n].package
    BY <1>1, <1>3, <1>4 DEF WiredInv
  <2>1. Active(c) /\ handlers[c] = plugins[n].package
    BY <1>2 DEF WiredInv
  <2>2. c # k
    BY <1>6 DEF Present
  <2>3. c \in CapIds
    <3>1. plugins[n].package \in Packages
      BY RecordParts DEF IInv, Present
    <3> QED
      BY <3>1, PackageType DEF CapsOf, ToSet
  <2> QED
    BY <1>4, <2>1, <2>2, <2>3
<1>12. BareInv'
  BY <1>1, <1>2, <1>3, <1>4 DEF BareInv
<1> QED
  BY <1>3, <1>8, <1>9, <1>10, <1>11, <1>12 DEF WiringInv

(* When registering has begun nothing is left to withdraw.                  *)
LEMMA WiringLast ==
    ASSUME IInv, WiringInv, NEW do \in {"register", "bind"}, NEW k, At(do, k)
    PROVE  /\ Wires(op.call) /\ op.call \notin {"disable", "remove"}
           /\ k \in CapsOf(op.package) /\ op.package \in Packages
           /\ \A i \in DOMAIN op.todo : ~Withdraws(i)
           /\ do = "bind" => \A c : ~Ahead("register", c)
           /\ \A c : ~At("drop", c)
<1>1. /\ op # Idle /\ 1 \in DOMAIN op.todo /\ op.todo[1].do = do /\ op.todo[1].cap = k
      /\ op.todo \in Seq(Steps)
      /\ \A c : ~At("drop", c)
  BY HeadStep
<1>2. Wires(op.call) /\ k \in CapsOf(op.package)
  BY <1>1 DEF IInv, TodoInv
<1>3. \A i \in DOMAIN op.todo : Rank(op.todo[1]) <= Rank(op.todo[i])
  BY <1>1 DEF IInv, TodoInv
<1>4. \A i \in DOMAIN op.todo : ~Withdraws(i)
  <2>1. Rank(op.todo[1]) \in {1, 2}
    BY <1>1 DEF Rank
  <2>2. \A i \in DOMAIN op.todo : Withdraws(i) => Rank(op.todo[i]) = 0
    BY DEF Withdraws, Rank
  <2> QED
    BY <1>3, <2>1, <2>2
<1>5. ASSUME do = "bind", NEW c, Ahead("register", c)
      PROVE  FALSE
  <2>1. PICK i \in DOMAIN op.todo : op.todo[i] = [do |-> "register", cap |-> c]
    BY <1>5 DEF Ahead, ToSet
  <2>2. Rank(op.todo[i]) = 1 /\ Rank(op.todo[1]) = 2
    BY <1>1, <1>5, <2>1 DEF Rank
  <2> QED
    BY <1>3, <2>2
<1> QED
  BY <1>1, <1>2, <1>4, <1>5, OpParts DEF Wires, IInv

LEMMA RegisterKeepsWiring ==
    ASSUME IInv, WiringInv, NEW k \in CapIds, Register(k)
    PROVE  WiringInv'
<1>1. /\ At("register", k) /\ op.todo # <<>> /\ GoOn /\ ~Active(k)
      /\ UNCHANGED <<plugins, handlers, leftover, torn>>
      /\ registry' = [registry EXCEPT ![k] = NewRecord]
      /\ Head(op.todo) = [do |-> "register", cap |-> k] /\ op # Idle
  BY HeadStep DEF Register, At, CanRegister
<1>2. PairsInv /\ ProgressInv /\ WithdrawInv /\ WiredInv /\ BareInv /\ HandlerBehindActive
  BY DEF WiringInv
<1>3. /\ PairsInv' /\ op' # Idle /\ op'.call = op.call /\ op'.package = op.package
      /\ \A do, c : Ahead(do, c)' => Ahead(do, c)
      /\ \A do, c : Ahead(do, c) => Ahead(do, c)' \/ Head(op.todo) = [do |-> do, cap |-> c]
      /\ \A c : At("drop", c)' => Head(op.todo) = [do |-> "retire", cap |-> c]
      /\ ~Ahead("register", k)'
      /\ (\A i \in DOMAIN op.todo : ~Withdraws(i)) => \A i \in DOMAIN op'.todo : ~Withdraws(i)'
  BY <1>1, <1>2, AheadStep
<1>4. /\ Wires(op.call) /\ op.call \notin {"disable", "remove"} /\ k \in CapsOf(op.package)
      /\ \A i \in DOMAIN op.todo : ~Withdraws(i)
      /\ \A c : ~At("drop", c)
  BY <1>1, WiringLast
<1>5. Active(k)' /\ \A c \in CapIds \ {k} : Active(c)' <=> Active(c)
  <2>1. registry'[k] = NewRecord /\ \A c \in CapIds \ {k} : registry'[c] = registry[c]
    BY <1>1 DEF IInv, TypeOK
  <2> QED
    BY <2>1 DEF Active, NewRecord
<1>6. handlers[k] = NoHandler
  BY <1>1, <1>2, <1>4 DEF HandlerBehindActive
<1>7. \A c : /\ Head(op.todo) # [do |-> "bind", cap |-> c]
             /\ Head(op.todo) # [do |-> "retire", cap |-> c]
             /\ Head(op.todo) = [do |-> "register", cap |-> c] => c = k
  BY <1>1
<1>8. HandlerBehindActive'
  BY <1>1, <1>2, <1>4, <1>5 DEF HandlerBehindActive
<1>9. ASSUME NEW c \in CapsOf(op.package)
      PROVE  /\ Ahead("bind", c)' \/ handlers[c] = op.package
             /\ Ahead("register", c)' => Ahead("bind", c)'
             /\ ~Ahead("register", c)' =>
                   Active(c)' /\ handlers[c] # Host /\ \A i \in DOMAIN op'.todo : ~Withdraws(i)'
  <2>1. /\ Ahead("bind", c) \/ handlers[c] = op.package
        /\ Ahead("register", c) => Ahead("bind", c)
        /\ ~Ahead("register", c) => Active(c) /\ handlers[c] # Host
    BY <1>1, <1>2, <1>4 DEF ProgressInv
  <2>2. Ahead("bind", c) => Ahead("bind", c)'
    BY <1>3, <1>7
  <2>3. c = k \/ Ahead("register", c)' \/ ~Ahead("register", c)
    BY <1>3, <1>7
  <2>4. c \in CapIds
    BY OpParts, PackageType, <1>1 DEF IInv, CapsOf, ToSet
  <2> QED
    BY <1>3, <1>4, <1>5, <1>6, <2>1, <2>2, <2>3, <2>4, NoHandlerIsNotHost
<1>10. ProgressInv'
  BY <1>1, <1>3, <1>9 DEF ProgressInv
<1>11. WithdrawInv'
  BY <1>3, <1>4, <1>7 DEF WithdrawInv
<1>12. WiredInv'
  <2> SUFFICES ASSUME NEW n \in PluginNames \ torn, plugins[n].status = "INSTALLED",
                      op.package.name # n, NEW c \in CapsOf(plugins[n].package)
               PROVE  Active(c)' /\ handlers[c] = plugins[n].package
    BY <1>1, <1>3 DEF WiredInv
  <2>1. Active(c) /\ handlers[c] = plugins[n].package
    BY <1>2 DEF WiredInv
  <2>2. c \in CapIds
    <3>1. plugins[n].package \in Packages
      BY RecordParts DEF IInv, Present
    <3> QED
      BY <3>1, PackageType DEF CapsOf, ToSet
  <2> QED
    BY <1>5, <2>1, <2>2
<1>13. BareInv'
  BY <1>1, <1>2, <1>3, <1>4, <1>5, <1>7 DEF BareInv
<1> QED
  BY <1>3, <1>8, <1>10, <1>11, <1>12, <1>13 DEF WiringInv

LEMMA RaiseKeepsWiring ==
    ASSUME IInv, WiringInv, NEW k \in CapIds, RegisterRaises(k)
    PROVE  WiringInv'
<1>1. /\ At("register", k) /\ op # Idle /\ op' = Idle
      /\ UNCHANGED <<plugins, registry, handlers>>
      /\ leftover' = leftover \cup {c \in CapsOf(op.package) : ~Ahead("register", c)}
      /\ torn' = IF op.call = "update" THEN torn \cup {op.package.name} ELSE torn
  BY HeadStep DEF RegisterRaises, Ahead
<1>2. PairsInv /\ ProgressInv /\ WithdrawInv /\ WiredInv /\ BareInv /\ HandlerBehindActive
  BY DEF WiringInv
<1>3. Wires(op.call) /\ \A c : ~At("drop", c)
  BY <1>1, WiringLast
<1>4. (\A c : Active(c)' <=> Active(c)) /\ (\A do, c : ~At(do, c)') /\ op'.call = "idle"
  BY <1>1 DEF Active, At, Idle
<1>5. HandlerBehindActive' /\ PairsInv' /\ ProgressInv' /\ WithdrawInv'
  BY <1>1, <1>2, <1>3, <1>4 DEF HandlerBehindActive, PairsInv, ProgressInv, WithdrawInv
<1>6. WiredInv'
  <2> SUFFICES ASSUME NEW n \in PluginNames \ torn', plugins[n].status = "INSTALLED"
               PROVE  \A c \in CapsOf(plugins[n].package) :
                         Active(c) /\ handlers[c] = plugins[n].package
    BY <1>1, <1>4 DEF WiredInv
  <2>1. n \notin torn
    BY <1>1
  <2>2. n # op.package.name
    <3> SUFFICES ASSUME n = op.package.name PROVE FALSE
      OBVIOUS
    <3>1. op.call # "update"
      BY <1>1
    <3>2. op.call \in {"install", "enable"}
      BY <1>3, <3>1 DEF Wires
    <3> QED
      BY <1>1, <3>2 DEF IInv, CallInv, Present
  <2> QED
    BY <1>2, <2>1, <2>2 DEF WiredInv
<1>7. BareInv'
  BY <1>1, <1>2, <1>4 DEF BareInv
<1> QED
  BY <1>5, <1>6, <1>7 DEF WiringInv

LEMMA BindKeepsWiring ==
    ASSUME IInv, WiringInv, NEW k \in CapIds, Bind(k)
    PROVE  WiringInv'
<1>1. /\ At("bind", k) /\ op.todo # <<>> /\ GoOn
      /\ UNCHANGED <<plugins, registry, leftover, torn>>
      /\ handlers' = [handlers EXCEPT ![k] = op.package]
      /\ Head(op.todo) = [do |-> "bind", cap |-> k] /\ op # Idle
  BY HeadStep DEF Bind, At
<1>2. PairsInv /\ ProgressInv /\ WithdrawInv /\ WiredInv /\ BareInv /\ HandlerBehindActive
  BY DEF WiringInv
<1>3. /\ PairsInv' /\ op' # Idle /\ op'.call = op.call /\ op'.package = op.package
      /\ \A do, c : Ahead(do, c)' => Ahead(do, c)
      /\ \A do, c : Ahead(do, c) => Ahead(do, c)' \/ Head(op.todo) = [do |-> do, cap |-> c]
      /\ \A c : At("drop", c)' => Head(op.todo) = [do |-> "retire", cap |-> c]
      /\ (\A i \in DOMAIN op.todo : ~Withdraws(i)) => \A i \in DOMAIN op'.todo : ~Withdraws(i)'
  BY <1>1, <1>2, AheadStep
<1>4. /\ Wires(op.call) /\ op.call \notin {"disable", "remove"} /\ k \in CapsOf(op.package)
      /\ op.package \in Packages
      /\ \A i \in DOMAIN op.todo : ~Withdraws(i)
      /\ \A c : ~At("drop", c) /\ ~Ahead("register", c)
  BY <1>1, WiringLast
<1>5. /\ handlers'[k] = op.package /\ \A c \in CapIds \ {k} : handlers'[c] = handlers[c]
      /\ \A c : Active(c)' <=> Active(c)
      /\ op.package # Host /\ op.package # NoHandler
  BY <1>1, <1>4, NoHandlerIsNoPackage DEF IInv, TypeOK, Active
<1>6. \A c \in CapsOf(op.package) : /\ Ahead("bind", c) \/ handlers[c] = op.package
                                    /\ Active(c) /\ handlers[c] # Host
  BY <1>1, <1>2, <1>4 DEF ProgressInv
<1>7. \A c : /\ Head(op.todo) # [do |-> "retire", cap |-> c]
             /\ Head(op.todo) = [do |-> "bind", cap |-> c] => c = k
  BY <1>1
<1>8. HandlerBehindActive'
  BY <1>2, <1>4, <1>5, <1>6 DEF HandlerBehindActive
<1>9. ASSUME NEW c \in CapsOf(op.package)
      PROVE  /\ Ahead("bind", c)' \/ handlers'[c] = op.package
             /\ ~Ahead("register", c)'
             /\ Active(c)' /\ handlers'[c] # Host /\ \A i \in DOMAIN op'.todo : ~Withdraws(i)'
  <2>1. c \in CapIds
    BY <1>4, PackageType DEF CapsOf, ToSet
  <2>2. handlers'[c] = op.package \/ (c # k /\ handlers'[c] = handlers[c])
    BY <1>5, <2>1
  <2>3. Ahead("bind", c) => Ahead("bind", c)' \/ c = k
    BY <1>3, <1>7
  <2> QED
    BY <1>3, <1>4, <1>5, <1>6, <2>2, <2>3
<1>10. ProgressInv'
  BY <1>3, <1>9 DEF ProgressInv
<1>11. WithdrawInv'
  BY <1>3, <1>4, <1>7 DEF WithdrawInv
<1>12. WiredInv'
  <2> SUFFICES ASSUME NEW n \in PluginNames \ torn, plugins[n].status = "INSTALLED",
                      op.package.name # n, NEW c \in CapsOf(plugins[n].package)
               PROVE  Active(c) /\ handlers'[c] = plugins[n].package
    BY <1>1, <1>3, <1>5 DEF WiredInv
  <2>1. Active(c) /\ handlers[c] = plugins[n].package
    BY <1>2 DEF WiredInv
  <2>2. Present(n)
    BY DEF Present
  <2>3. c # k
    BY <1>1, <1>4, <2>2, OthersApart
  <2>4. c \in CapIds
    <3>1. plugins[n].package \in Packages
      BY <2>2, RecordParts DEF IInv
    <3> QED
      BY <3>1, PackageType DEF CapsOf, ToSet
  <2> QED
    BY <1>5, <2>1, <2>3, <2>4
<1>13. BareInv'
  BY <1>1, <1>2, <1>3, <1>4, <1>5 DEF BareInv
<1> QED
  BY <1>3, <1>8, <1>10, <1>11, <1>12, <1>13 DEF WiringInv

LEMMA FinishKeepsWiring ==
    ASSUME IInv, WiringInv, Finish
    PROVE  WiringInv'
<1> DEFINE n == op.package.name
<1>1. /\ TypeOK /\ op # Idle /\ op.todo = <<>> /\ op' = Idle
      /\ UNCHANGED <<registry, handlers, leftover>>
      /\ torn' = torn \ {n}
  BY DEF IInv, Finish
<1>2. PairsInv /\ ProgressInv /\ WithdrawInv /\ WiredInv /\ BareInv /\ HandlerBehindActive
  BY DEF WiringInv
<1>3. op.package \in Packages /\ n \in PluginNames
  BY <1>1, OpParts
<1>4. /\ plugins' = [plugins EXCEPT ![n] = plugins'[n]]
      /\ plugins'[n].package = op.package
      /\ plugins'[n].status = "INSTALLED" => Wires(op.call)
  BY FinishRecord
<1>5. \A m \in PluginNames \ {n} : plugins'[m] = plugins[m]
  <2> HIDE DEF n
  <2> QED
    BY <1>1, <1>4 DEF TypeOK
<1>6. (\A do, c : ~At(do, c) /\ ~Ahead(do, c) /\ ~At(do, c)') /\ op'.call = "idle"
      /\ \A c : Active(c)' <=> Active(c)
  BY <1>1 DEF At, Ahead, ToSet, Idle, Active
<1>7. Wires(op.call) => \A c \in CapsOf(op.package) : handlers[c] = op.package /\ Active(c)
  BY <1>1, <1>2, <1>6 DEF ProgressInv
<1>8. HandlerBehindActive' /\ PairsInv' /\ ProgressInv' /\ WithdrawInv'
  BY <1>1, <1>2, <1>6 DEF HandlerBehindActive, PairsInv, ProgressInv, WithdrawInv
<1>9. WiredInv'
  <2> SUFFICES ASSUME NEW m \in PluginNames \ torn', plugins'[m].status = "INSTALLED"
               PROVE  \A c \in CapsOf(plugins'[m].package) :
                         Active(c) /\ handlers[c] = plugins'[m].package
    BY <1>1, <1>6 DEF WiredInv
  <2>1. CASE m = n
    BY <1>4, <1>7, <2>1
  <2>2. CASE m # n
    BY <1>1, <1>2, <1>5, <2>2 DEF WiredInv
  <2> QED
    BY <2>1, <2>2
<1>10. BareInv'
  BY <1>1, <1>2, <1>3, <1>6, <1>7, NoHandlerIsNoPackage DEF BareInv
<1> QED
  BY <1>8, <1>9, <1>10 DEF WiringInv

-----------------------------------------------------------------------------
(* Between calls. *)

LEMMA StatusKeepsWiring ==
    ASSUME IInv, WiringInv, \A c \in CapIds : Active(c)' <=> Active(c),
           UNCHANGED <<plugins, handlers, op, leftover, torn>>
    PROVE  WiringInv'
<1>1. \A n \in PluginNames : plugins[n].status = "INSTALLED" =>
         CapsOf(plugins[n].package) \subseteq CapIds
  BY RecordParts, PackageType DEF IInv, Present, CapsOf, ToSet
<1>2. op # Idle => CapsOf(op.package) \subseteq CapIds
  BY OpParts, PackageType DEF IInv, CapsOf, ToSet
<1>3. HandlerBehindActive' /\ PairsInv' /\ WithdrawInv' /\ BareInv'
  BY DEF WiringInv, HandlerBehindActive, PairsInv, Withdraws, WithdrawInv, BareInv, At, Ahead
<1>4. ProgressInv'
  BY <1>2 DEF WiringInv, ProgressInv, Withdraws, Ahead
<1>5. WiredInv'
  BY <1>1 DEF WiringInv, WiredInv
<1> QED
  BY <1>3, <1>4, <1>5 DEF WiringInv

LEMMA OthersKeepWiring == IInv /\ WiringInv /\ Others => WiringInv'
<1> SUFFICES ASSUME IInv, WiringInv, Others PROVE WiringInv'
  OBVIOUS
<1>0. registry \in [CapIds -> RecordType] /\ handlers \in [CapIds -> Packages \cup {NoHandler, Host}]
  BY DEF IInv, TypeOK
<1>1. ASSUME NEW k \in Builtins, RegisterBuiltin(k) PROVE WiringInv'
  <2>1. /\ op = Idle /\ k \in CapIds /\ ~Active(k)
        /\ UNCHANGED <<plugins, op, leftover, torn>>
        /\ registry' = [registry EXCEPT ![k] = NewRecord]
        /\ handlers' = [handlers EXCEPT ![k] = Host]
    BY <1>1, HostAssumption DEF RegisterBuiltin, CanRegister
  <2>2. /\ Active(k)' /\ handlers'[k] = Host
        /\ \A c \in CapIds \ {k} : (Active(c)' <=> Active(c)) /\ handlers'[c] = handlers[c]
    BY <1>0, <2>1 DEF Active, NewRecord
  <2>3. (\A do, c : ~At(do, c) /\ ~At(do, c)') /\ op'.call = "idle"
    BY <2>1 DEF At, Idle
  <2>4. HandlerBehindActive' /\ PairsInv' /\ ProgressInv' /\ WithdrawInv'
    BY <2>1, <2>2, <2>3 DEF WiringInv, HandlerBehindActive, PairsInv, ProgressInv, WithdrawInv
  <2>5. WiredInv'
    <3> SUFFICES ASSUME NEW n \in PluginNames \ torn, plugins[n].status = "INSTALLED",
                        NEW c \in CapsOf(plugins[n].package)
                 PROVE  Active(c)' /\ handlers'[c] = plugins[n].package
      BY <2>1 DEF WiredInv
    <3>1. Active(c) /\ handlers[c] = plugins[n].package
      BY <2>1 DEF WiringInv, WiredInv
    <3>2. c \in CapIds
      <4>1. plugins[n].package \in Packages
        BY RecordParts DEF IInv, Present
      <4> QED
        BY <4>1, PackageType DEF CapsOf, ToSet
    <3> QED
      BY <2>1, <2>2, <3>1, <3>2
  <2>6. BareInv'
    BY <2>1, <2>2, NoHandlerIsNotHost DEF WiringInv, BareInv
  <2> QED
    BY <2>4, <2>5, <2>6 DEF WiringInv
<1>2. ASSUME NEW k \in CapIds, registry[k] # Absent, NEW r, r.status = registry[k].status,
             registry' = [registry EXCEPT ![k] = r],
             UNCHANGED <<plugins, handlers, op, leftover, torn>>
      PROVE  WiringInv'
  <2>1. \A c \in CapIds : Active(c)' <=> Active(c)
    BY <1>0, <1>2 DEF Active
  <2> QED
    BY <1>2, <2>1, StatusKeepsWiring
<1>3. ASSUME NEW k \in CapIds, CheckHealth(k) PROVE WiringInv'
  <2>1. PICK health \in {"HEALTHY", "UNHEALTHY"} :
            registry' = [registry EXCEPT ![k].health = health]
    BY <1>3 DEF CheckHealth
  <2> DEFINE r == [registry[k] EXCEPT !.health = health]
  <2>2. registry[k] # Absent /\ UNCHANGED <<plugins, handlers, op, leftover, torn>>
    BY <1>3 DEF CheckHealth
  <2>3. r.status = registry[k].status
    BY <2>2, RegistryParts DEF IInv
  <2>4. registry' = [registry EXCEPT ![k] = r]
    BY <2>1
  <2> HIDE DEF r
  <2> QED
    BY <1>2, <2>2, <2>3, <2>4
<1>4. ASSUME NEW t \in Tasks, RecordOutcome(t) PROVE WiringInv'
  <2> DEFINE k == binding[t]
  <2>1. PICK success \in BOOLEAN :
            registry' = [registry EXCEPT ![k].outcomes = Append(@, success)]
    BY <1>4 DEF RecordOutcome
  <2> DEFINE r == [registry[k] EXCEPT !.outcomes = Append(@, success)]
  <2>2. /\ k \in CapIds /\ registry[k] # Absent
        /\ UNCHANGED <<plugins, handlers, op, leftover, torn>>
    BY <1>4 DEF RecordOutcome, IInv, TypeOK
  <2> HIDE DEF k
  <2>3. r.status = registry[k].status
    BY <2>2, RegistryParts DEF IInv
  <2>4. registry' = [registry EXCEPT ![k] = r]
    BY <2>1
  <2> HIDE DEF r
  <2> QED
    BY <1>2, <2>2, <2>3, <2>4
<1>5. CASE RoutePlan
  <2>1. UNCHANGED <<plugins, registry, handlers, op, leftover, torn>>
    BY <1>5 DEF RoutePlan, records
  <2> QED
    BY <2>1, StatusKeepsWiring DEF Active
<1> QED
  BY <1>1, <1>3, <1>4, <1>5 DEF Others

(* How far each call has come with withdrawing and wiring.                  *)
THEOREM WiringInvariant == Spec => []WiringInv
<1>1. IInv /\ WiringInv /\ [Next]_vars => WiringInv'
  <2> SUFFICES ASSUME IInv, WiringInv, [Next]_vars PROVE WiringInv'
    OBVIOUS
  <2>1. CASE Call
    BY <2>1, CallsKeepWiring
  <2>2. CASE Step
    BY <2>2, RetireKeepsWiring, DropKeepsWiring, RegisterKeepsWiring, RaiseKeepsWiring,
       BindKeepsWiring, FinishKeepsWiring DEF Step
  <2>3. CASE Others
    BY <2>3, OthersKeepWiring
  <2>4. CASE UNCHANGED vars
    BY <2>4, StatusKeepsWiring DEF vars, Active
  <2> QED
    BY <2>1, <2>2, <2>3, <2>4 DEF Next
<1> QED
  BY InitWiring, <1>1, PluginsInvariant, PTL DEF Spec

(* A handler can be looked up only while its capability is active, but for  *)
(* the moment between retiring the one and dropping the other.              *)
THEOREM HandlerBehindActiveHolds == Spec => []HandlerBehindActive
<1>1. WiringInv => HandlerBehindActive
  BY DEF WiringInv
<1> QED
  BY <1>1, WiringInvariant, PTL

(* Between calls an installed plugin has all that it declares, unless its   *)
(* update raised half-way.                                                  *)
THEOREM InstalledIsWiredHolds == Spec => []InstalledIsWired
<1>1. WiringInv => InstalledIsWired
  BY DEF WiringInv, WiredInv, InstalledIsWired
<1> QED
  BY <1>1, WiringInvariant, PTL

(* Only an update, or a call on a plugin that an update left half-wired,    *)
(* takes from the host what it has registered.                              *)
THEOREM HostUntouchedHolds == Spec => HostUntouched
<1> DEFINE Spares == \A k \in CapIds : handlers[k] = Host /\ handlers'[k] # Host =>
                        op.call = "update" \/ op.package.name \in torn
<1>1. ASSUME IInv, WiringInv, [Next]_vars
      PROVE  Spares
  <2>1. ASSUME NEW k \in CapIds, Drop(k) PROVE Spares
    <3>1. /\ At("drop", k) /\ handlers' = [handlers EXCEPT ![k] = NoHandler]
      BY <2>1 DEF Drop
    <3>2. \A c \in CapIds \ {k} : handlers'[c] = handlers[c]
      BY <3>1 DEF IInv, TypeOK
    <3>3. op.call \in {"update", "disable", "remove"} /\ Ahead("drop", k)
      BY <1>1, <3>1, WithdrawingFirst, HeadStep
    <3>4. op.call = "update" \/ op.package.name \in torn \/ handlers[k] # Host
      BY <1>1, <3>3 DEF WiringInv, WithdrawInv
    <3> QED
      BY <3>2, <3>4
  <2>2. ASSUME NEW k \in CapIds, Bind(k) PROVE Spares
    <3>1. /\ At("bind", k) /\ handlers' = [handlers EXCEPT ![k] = op.package]
      BY <2>2 DEF Bind
    <3>2. \A c \in CapIds \ {k} : handlers'[c] = handlers[c]
      BY <1>1, <3>1 DEF IInv, TypeOK
    <3>3. Wires(op.call) /\ k \in CapsOf(op.package) /\ ~Ahead("register", k) /\ op # Idle
      BY <1>1, <3>1, WiringLast, HeadStep
    <3>4. handlers[k] # Host
      BY <1>1, <3>3 DEF WiringInv, ProgressInv
    <3> QED
      BY <3>2, <3>4
  <2>3. ASSUME NEW k \in Builtins, RegisterBuiltin(k) PROVE Spares
    <3>1. handlers' = [handlers EXCEPT ![k] = Host] /\ handlers \in [CapIds -> Packages \cup {NoHandler, Host}]
      BY <1>1, <2>3 DEF RegisterBuiltin, IInv, TypeOK
    <3> QED
      BY <3>1
  <2>4. CASE handlers' = handlers
    BY <2>4
  <2>5. CASE Call
    BY <2>4, <2>5 DEF Call, Install, Update, Disable, Enable, RemovePlugin, Begin, records
  <2>6. CASE Step
    BY <2>1, <2>2, <2>4, <2>6 DEF Step, Retire, Register, RegisterRaises, Finish
  <2>7. CASE Others
    BY <2>3, <2>4, <2>7 DEF Others, CheckHealth, RecordOutcome, RoutePlan, records
  <2>8. CASE UNCHANGED vars
    BY <2>4, <2>8 DEF vars
  <2> QED
    BY <1>1, <2>5, <2>6, <2>7, <2>8 DEF Next
<1>2. Spec => [][Spares]_vars
  BY <1>1, PluginsInvariant, WiringInvariant, PTL DEF Spec
<1> QED
  BY <1>2 DEF HostUntouched

(* A plan that was routed can run: the runtime has a handler for what each  *)
(* task was bound to, but for what failed wirings left behind.              *)
THEOREM RoutedCanRunHolds == Spec => RoutedCanRun
<1> DEFINE CanRun == binding' # binding /\ routed' = "routed" =>
              \A t \in Tasks : \/ handlers[binding'[t]] # NoHandler
                               \/ binding'[t] \in leftover
<1>1. ASSUME IInv, WiringInv, [Next]_vars
      PROVE  CanRun
  <2>1. CASE RoutePlan
    <3> SUFFICES ASSUME routed' = "routed", NEW t \in Tasks
                 PROVE  handlers[binding'[t]] # NoHandler \/ binding'[t] \in leftover
      OBVIOUS
    <3>1. op = Idle /\ \A u \in Tasks : Eligible(u) # {} /\ binding'[u] \in Eligible(u)
      BY <2>1 DEF RoutePlan
    <3>2. binding'[t] \in CapIds /\ Active(binding'[t])
      BY <3>1, HostAssumption DEF Eligible, Candidates
    <3> QED
      BY <1>1, <3>1, <3>2 DEF WiringInv, BareInv
  <2>2. CASE binding' = binding
    BY <2>2
  <2>3. CASE Call
    BY <2>2, <2>3 DEF Call, Install, Update, Disable, Enable, RemovePlugin, Begin, router
  <2>4. CASE Step
    BY <2>2, <2>4 DEF Step, Retire, Drop, Register, RegisterRaises, Bind, Finish, router
  <2>5. CASE Others
    BY <2>1, <2>2, <2>5 DEF Others, RegisterBuiltin, CheckHealth, RecordOutcome, router
  <2>6. CASE UNCHANGED vars
    BY <2>2, <2>6 DEF vars
  <2> QED
    BY <1>1, <2>3, <2>4, <2>5, <2>6 DEF Next
<1>2. Spec => [][CanRun]_vars
  BY <1>1, PluginsInvariant, WiringInvariant, PTL DEF Spec
<1> QED
  BY <1>2 DEF RoutedCanRun
=============================================================================
