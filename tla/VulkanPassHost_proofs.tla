------------------------ MODULE VulkanPassHost_proofs ------------------------
(***************************************************************************)
(* Proofs about VulkanPassHost for any number of plugins, passes and       *)
(* priorities: the host drives the registry as VulkanPassRegistry allows,  *)
(* bindings match the backend, nothing is bound during Reset, and no       *)
(* callback reads a freed pass.                                            *)
(***************************************************************************)
EXTENDS VulkanPassHost, VulkanPassRegistry_proofs

USE HostAssumption, OperationAssumption, MaxTokenAssumption, NoneAssumption DEF PassId, Token

HostIInv == HostInv /\ IInv

-----------------------------------------------------------------------------
(* Facts about one state. *)

LEMMA HostedTypes ==
  ASSUME HostTypeOK, NEW x \in hostPasses
  PROVE  /\ x.id \in PassId /\ x.plugin \in Plugin /\ x.plugin \in Nat
         /\ x.priority \in Priority /\ x.binding \in Token \cup {None}
         /\ x = [id |-> x.id, plugin |-> x.plugin, priority |-> x.priority, binding |-> x.binding]
BY DEF HostTypeOK, NativeVulkanPass

\* An operation in progress is a record of its type.
LEMMA OperationTypes ==
  ASSUME HostTypeOK, operation # None
  PROVE  /\ operation \in Operation
         /\ operation.kind \in OperationKind
         /\ operation.todo \subseteq PassId /\ operation.gone \subseteq PassId
BY DEF HostTypeOK, Operation

\* The loops over g_plugins and vulkanPasses visit one pass at a time.
LEMMA TurnUnique ==
  ASSUME HostTypeOK, PassesDistinct, NEW x, NEW y, Turn(x), Turn(y)
  PROVE  x = y
<1>1. x \in hostPasses /\ y \in hostPasses
  BY DEF Turn
<1>2. ~VisitedBefore(x, y) /\ ~VisitedBefore(y, x)
  BY DEF Turn
<1>3. x.id \in Nat /\ y.id \in Nat /\ x.plugin \in Nat /\ y.plugin \in Nat
  BY <1>1, HostedTypes
<1>4. x.id = y.id
  BY <1>2, <1>3 DEF VisitedBefore
<1> QED BY <1>1, <1>4 DEF PassesDistinct

\* What an operation is about to call the backend for.
LEMMA CallArgument ==
  ASSUME HostInv, NEW x, Turn(x)
  PROVE  /\ x \in hostPasses /\ operation # None /\ x.id \in operation.todo
         /\ registering[Bridge] # None => target[registering[Bridge].token] = x.id
         /\ unregistering[Bridge] # None => unregistering[Bridge] = x.binding
<1> USE DEF HostInv
<1>1. \A y \in hostPasses : Turn(y) => y = x
  BY TurnUnique
<1> QED BY <1>1 DEF CallInTurn, Turn

\* A pass the host has to unbind is bound, and one it has to bind is not.
LEMMA TodoBound ==
  ASSUME HostInv, NEW x, Turn(x)
  PROVE  /\ ~Binding => x.binding # None /\ x \in Bound
         /\ Binding => x.binding = None
<1> USE DEF HostInv
<1>1. x \in hostPasses /\ operation # None /\ x.id \in operation.todo
  BY DEF Turn
<1>2. CASE Binding
  BY <1>1, <1>2 DEF BoundSoFar
<1>3. CASE ~Binding
  <2>1. operation.kind \in {"suspend", "detach", "unregister", "unload"}
    BY <1>1, <1>3, OperationTypes DEF Binding, OperationKind
  <2>2. operation.kind \in {"unregister", "unload"} => x.id \in operation.gone
    BY <1>1 DEF TodoGone
  <2>3. x.binding # None
    BY <1>1, <1>3, <2>1, <2>2 DEF BoundSoFar
  <2> QED BY <1>1, <1>3, <2>3 DEF Bound
<1> QED BY <1>2, <1>3

\* Between operations, exactly the passes of a usable device are bound.
LEMMA BoundWhenIdle ==
  ASSUME HostInv, operation = None
  PROVE  /\ Bound = IF Usable THEN hostPasses ELSE {}
         /\ registering[Bridge] = None /\ unregistering[Bridge] = None
BY DEF HostInv, BoundSoFar, Bound, CallInTurn, Idle

LEMMA IdTypes ==
  ASSUME HostTypeOK
  PROVE  /\ Ids(hostPasses) \subseteq PassId
         /\ \A hosted \in SUBSET hostPasses : Ids(hosted) \subseteq PassId
         /\ Bound \subseteq hostPasses
BY HostedTypes DEF Ids, Bound

-----------------------------------------------------------------------------
(* Requests. *)

\* An operation begins: no call is in progress yet.
LEMMA BeginInv ==
  ASSUME HostInv, operation = None, UNCHANGED <<vars, target, hostPasses, nextPass>>
  PROVE  PassesDistinct' /\ EntriesBound' /\ CallInTurn'
<1>1. /\ registering'[Bridge] = None /\ unregistering'[Bridge] = None /\ passes' = passes
      /\ hostPasses' = hostPasses /\ nextPass' = nextPass /\ target' = target
  BY BoundWhenIdle DEF vars, clients, shared
<1>2. Bound' = Bound /\ Tokens(passes)' = Tokens(passes)
  BY <1>1 DEF Bound, Tokens
<1>3. CallInTurn'
  BY <1>1 DEF CallInTurn, Idle
<1> QED BY <1>1, <1>2, <1>3 DEF HostInv, PassesDistinct, EntriesBound

LEMMA BeginType ==
  ASSUME NEW kind \in OperationKind, NEW todo \in SUBSET PassId, NEW gone \in SUBSET PassId,
         Begin(kind, todo, gone)
  PROVE  /\ operation = None /\ operation' \in Operation /\ operation' # None
         /\ operation'.kind = kind /\ operation'.todo = todo /\ operation'.gone = gone
<1>1. operation' = [kind |-> kind, todo |-> todo, gone |-> gone] /\ operation = None
  BY DEF Begin
<1>2. operation' \in Operation
  BY <1>1 DEF Operation
<1> QED BY <1>1, <1>2

LEMMA HostRegisterInv ==
  ASSUME HostInv, NEW plugin \in Plugin, NEW priority \in Priority,
         HostRegisterVulkanPass(plugin, priority), UNCHANGED vars
  PROVE  HostInv'
<1> USE DEF HostInv
<1> DEFINE new == [id |-> nextPass, plugin |-> plugin, priority |-> priority, binding |-> None]
           todo == IF attached THEN {nextPass} ELSE {}
<1>1. nextPass \in PassId /\ nextPass' = nextPass + 1 /\ hostPasses' = hostPasses \cup {new}
  BY DEF HostRegisterVulkanPass, HostTypeOK
<1>2. /\ operation = None /\ operation' \in Operation /\ operation' # None
      /\ operation'.kind = "register" /\ operation'.todo = todo /\ operation'.gone = {}
  BY <1>1, BeginType DEF HostRegisterVulkanPass, OperationKind
<1>3. UNCHANGED <<attached, suspended, device, unloaded, csWaits, target>>
  BY DEF HostRegisterVulkanPass
<1>4. /\ registering'[Bridge] = None /\ unregistering'[Bridge] = None /\ passes' = passes
  BY <1>2, BoundWhenIdle DEF vars, clients, shared
<1>5. new \in NativeVulkanPass
  BY <1>1 DEF NativeVulkanPass
<1>6. Bound' = Bound /\ Tokens(passes)' = Tokens(passes) /\ Binding' /\ Usable' = Usable
  BY <1>1, <1>2, <1>3, <1>4 DEF Bound, Tokens, Binding, Usable
<1>7. \A x \in hostPasses : x.id # nextPass /\ x.id \in Nat
  BY HostedTypes DEF PassesDistinct, HostTypeOK
<1>8. HostTypeOK'
  BY <1>1, <1>2, <1>3, <1>5 DEF HostTypeOK
<1>9. PassesDistinct'
  BY <1>1, <1>6, <1>7 DEF PassesDistinct, HostTypeOK
<1>10. EntriesBound'
  BY <1>3, <1>6 DEF EntriesBound
<1>11. BoundSoFar'
  <2> SUFFICES ASSUME NEW x \in hostPasses'
               PROVE  x.binding # None <=> Usable /\ x.id \notin todo
    BY <1>2, <1>6 DEF BoundSoFar
  <2>1. CASE x = new
    BY <2>1 DEF Usable
  <2>2. CASE x \in hostPasses
    BY <2>2, <1>2, <1>7 DEF BoundSoFar
  <2> QED BY <2>1, <2>2, <1>1
<1>12. CallInTurn'
  BY <1>2, <1>4 DEF CallInTurn
<1>13. DeviceAttached'
  BY <1>2, <1>3 DEF DeviceAttached, Binding
<1>14. TodoGone'
  BY <1>2 DEF TodoGone
<1> QED BY <1>8, <1>9, <1>10, <1>11, <1>12, <1>13, <1>14

\* Only passes that are bound have to be unbound before they are freed.
LEMMA HostUnregisterInv ==
  ASSUME HostInv, NEW x \in hostPasses, HostUnregisterVulkanPass(x), UNCHANGED vars
  PROVE  HostInv'
<1> USE DEF HostInv
<1> DEFINE todo == Ids({x} \cap Bound)
<1>1. todo \in SUBSET PassId /\ {x.id} \in SUBSET PassId /\ (x.id \in todo <=> x \in Bound)
      /\ todo \subseteq {x.id}
  BY HostedTypes DEF Ids
<1>2. /\ operation = None /\ operation' \in Operation /\ operation' # None
      /\ operation'.kind = "unregister" /\ operation'.todo = todo /\ operation'.gone = {x.id}
  <2> HIDE DEF todo
  <2>1. Begin("unregister", todo, {x.id})
    BY DEF HostUnregisterVulkanPass, todo
  <2> QED BY <1>1, <2>1, BeginType DEF OperationKind
<1> HIDE DEF todo
<1>3. UNCHANGED <<hostPasses, nextPass, attached, suspended, device, unloaded, csWaits, target>>
  BY DEF HostUnregisterVulkanPass
<1>4. PassesDistinct' /\ EntriesBound' /\ CallInTurn'
  BY <1>2, <1>3, BeginInv
<1>5. HostTypeOK'
  BY <1>2, <1>3 DEF HostTypeOK
<1>6. BoundSoFar'
  <2> SUFFICES ASSUME NEW y \in hostPasses
               PROVE  y.binding # None <=> IF y.id = x.id THEN y.id \in todo ELSE Usable
    BY <1>2, <1>3 DEF BoundSoFar, Binding, Usable
  <2>1. CASE y.id = x.id
    BY <2>1, <1>1 DEF PassesDistinct, Bound
  <2>2. CASE y.id # x.id
    BY <2>2, <1>2 DEF BoundSoFar
  <2> QED BY <2>1, <2>2
<1>7. DeviceAttached' /\ TodoGone'
  BY <1>1, <1>2, <1>3 DEF DeviceAttached, Binding, TodoGone
<1> QED BY <1>4, <1>5, <1>6, <1>7

LEMMA UnloadPluginInv ==
  ASSUME HostInv, NEW plugin \in Plugin, UnloadPlugin(plugin), UNCHANGED vars
  PROVE  HostInv'
<1> USE DEF HostInv
<1> DEFINE own == {x \in hostPasses : x.plugin = plugin}
           todo == Ids(own \cap Bound)
           gone == Ids(own)
<1>1. todo \in SUBSET PassId /\ gone \in SUBSET PassId /\ todo \subseteq gone
  BY HostedTypes DEF Ids
<1>2. \A y \in hostPasses : (y.id \in gone <=> y \in own) /\ (y.id \in todo <=> y \in own /\ y \in Bound)
  BY DEF Ids, PassesDistinct
<1>3. /\ operation = None /\ operation' \in Operation /\ operation' # None
      /\ operation'.kind = "unload" /\ operation'.todo = todo /\ operation'.gone = gone
  <2> HIDE DEF todo, gone
  <2>1. Begin("unload", todo, gone)
    BY DEF UnloadPlugin, todo, gone
  <2> QED BY <1>1, <2>1, BeginType DEF OperationKind
<1> HIDE DEF todo, gone
<1>4. /\ UNCHANGED <<hostPasses, nextPass, attached, suspended, device, csWaits, target>>
      /\ unloaded' = unloaded \cup {plugin}
  BY DEF UnloadPlugin
<1>5. PassesDistinct' /\ EntriesBound' /\ CallInTurn'
  BY <1>3, <1>4, BeginInv
<1>6. HostTypeOK'
  BY <1>3, <1>4 DEF HostTypeOK
<1>7. BoundSoFar'
  <2> SUFFICES ASSUME NEW y \in hostPasses
               PROVE  y.binding # None <=> IF y.id \in gone THEN y.id \in todo ELSE Usable
    BY <1>3, <1>4 DEF BoundSoFar, Binding, Usable
  <2>1. y.binding # None <=> Usable
    BY <1>3 DEF BoundSoFar
  <2> QED BY <2>1, <1>2 DEF Bound
<1>8. DeviceAttached' /\ TodoGone'
  BY <1>1, <1>3, <1>4 DEF DeviceAttached, Binding, TodoGone
<1> QED BY <1>5, <1>6, <1>7, <1>8

\* The device's creation: every pass registered so far is to be bound.
LEMMA AttachInv ==
  ASSUME HostInv, AttachVulkanHost, UNCHANGED vars
  PROVE  HostInv'
<1> USE DEF HostInv
<1> DEFINE todo == Ids(hostPasses)
<1>1. todo \in SUBSET PassId /\ {} \in SUBSET PassId /\ \A x \in hostPasses : x.id \in todo
  BY IdTypes DEF Ids
<1>2. /\ operation = None /\ operation' \in Operation /\ operation' # None
      /\ operation'.kind = "attach" /\ operation'.todo = todo /\ operation'.gone = {}
  <2> HIDE DEF todo
  <2>1. Begin("attach", todo, {})
    BY DEF AttachVulkanHost, todo
  <2> QED BY <1>1, <2>1, BeginType DEF OperationKind
<1> HIDE DEF todo
<1>3. /\ UNCHANGED <<hostPasses, nextPass, suspended, unloaded, csWaits, target>>
      /\ device = "none" /\ attached' = TRUE /\ device' = "running"
  BY DEF AttachVulkanHost
<1>4. PassesDistinct' /\ EntriesBound' /\ CallInTurn'
  BY <1>2, <1>3, BeginInv
<1>5. HostTypeOK'
  BY <1>2, <1>3 DEF HostTypeOK
<1>6. BoundSoFar'
  <2> SUFFICES ASSUME NEW y \in hostPasses PROVE y.binding = None
    BY <1>1, <1>2, <1>3 DEF BoundSoFar, Binding
  <2> QED BY <1>2, <1>3 DEF BoundSoFar, Usable, DeviceAttached
<1>7. DeviceAttached' /\ TodoGone'
  BY <1>2, <1>3 DEF DeviceAttached, Binding, TodoGone
<1> QED BY <1>4, <1>5, <1>6, <1>7

\* A Reset begins by unbinding what is bound.
LEMMA BeginResetInv ==
  ASSUME HostInv, BeginReset, UNCHANGED vars
  PROVE  HostInv'
<1> USE DEF HostInv
<1> DEFINE todo == Ids(Bound)
<1>1. todo \in SUBSET PassId /\ \A x \in hostPasses : x.id \in todo <=> x \in Bound
  BY IdTypes DEF Ids, PassesDistinct, Bound
<1>2. /\ UNCHANGED <<hostPasses, nextPass, attached, unloaded, csWaits, target>>
      /\ operation = None /\ device = "running" /\ device' = "resetting" /\ suspended' = TRUE
  BY DEF BeginReset
<1>3. PassesDistinct' /\ EntriesBound' /\ CallInTurn'
  BY <1>2, BeginInv
<1>4. CASE suspended
  <2>1. operation' = None
    BY <1>4 DEF BeginReset
  <2>2. HostTypeOK' /\ TodoGone' /\ DeviceAttached'
    BY <1>2, <2>1 DEF HostTypeOK, TodoGone, DeviceAttached, Binding
  <2>3. BoundSoFar'
    BY <1>2, <1>4, <2>1 DEF BoundSoFar, Usable
  <2> QED BY <1>3, <2>2, <2>3
<1>5. CASE ~suspended
  <2>1. operation' = [kind |-> "suspend", todo |-> todo, gone |-> {}]
    BY <1>5 DEF BeginReset
  <2>2. /\ operation' \in Operation /\ operation' # None
        /\ operation'.kind = "suspend" /\ operation'.todo = todo /\ operation'.gone = {}
    BY <1>1, <2>1 DEF Operation, OperationKind
  <2> HIDE DEF todo
  <2>3. HostTypeOK' /\ TodoGone' /\ DeviceAttached'
    BY <1>2, <2>2 DEF HostTypeOK, TodoGone, DeviceAttached, Binding
  <2>4. BoundSoFar'
    <3> SUFFICES ASSUME NEW y \in hostPasses PROVE y.binding # None <=> y.id \in todo
      BY <1>2, <2>2 DEF BoundSoFar, Binding
    <3> QED BY <1>1 DEF Bound
  <2> QED BY <1>3, <2>3, <2>4
<1> QED BY <1>4, <1>5

LEMMA ResetFailedInv ==
  ASSUME HostInv, ResetFailed, UNCHANGED vars
  PROVE  HostInv'
<1> USE DEF HostInv
<1>1. /\ UNCHANGED <<hostPasses, nextPass, attached, suspended, operation, unloaded, csWaits, target>>
      /\ device = "resetting" /\ operation = None /\ device' = "running"
  BY DEF ResetFailed
<1>2. PassesDistinct' /\ EntriesBound' /\ CallInTurn'
  BY <1>1, BeginInv
<1>3. HostTypeOK' /\ TodoGone' /\ DeviceAttached'
  BY <1>1 DEF HostTypeOK, TodoGone, DeviceAttached, Binding
<1>4. BoundSoFar'
  BY <1>1 DEF BoundSoFar, Usable
<1> QED BY <1>2, <1>3, <1>4

\* Nothing is bound in Reset, so every pass is bound again after it.
LEMMA ResetSucceededInv ==
  ASSUME HostInv, ResetSucceeded, UNCHANGED vars
  PROVE  HostInv'
<1> USE DEF HostInv
<1> DEFINE todo == Ids(hostPasses)
<1>1. todo \in SUBSET PassId /\ {} \in SUBSET PassId /\ \A x \in hostPasses : x.id \in todo
  BY IdTypes DEF Ids
<1>2. /\ operation = None /\ operation' \in Operation /\ operation' # None
      /\ operation'.kind = "resume" /\ operation'.todo = todo /\ operation'.gone = {}
  <2> HIDE DEF todo
  <2>1. Begin("resume", todo, {})
    BY DEF ResetSucceeded, todo
  <2> QED BY <1>1, <2>1, BeginType DEF OperationKind
<1> HIDE DEF todo
<1>3. /\ UNCHANGED <<hostPasses, nextPass, attached, unloaded, csWaits, target>>
      /\ device = "resetting" /\ suspended' = FALSE /\ device' = "running"
  BY DEF ResetSucceeded
<1>4. PassesDistinct' /\ EntriesBound' /\ CallInTurn'
  BY <1>2, <1>3, BeginInv
<1>5. HostTypeOK'
  BY <1>2, <1>3 DEF HostTypeOK
<1>6. BoundSoFar'
  <2> SUFFICES ASSUME NEW y \in hostPasses PROVE y.binding = None
    BY <1>1, <1>2, <1>3 DEF BoundSoFar, Binding
  <2> QED BY <1>2, <1>3 DEF BoundSoFar, Usable, DeviceAttached
<1>7. DeviceAttached' /\ TodoGone'
  BY <1>2, <1>3 DEF DeviceAttached, Binding, TodoGone
<1> QED BY <1>4, <1>5, <1>6, <1>7

LEMMA DetachInv ==
  ASSUME HostInv, DetachVulkanHost, UNCHANGED vars
  PROVE  HostInv'
<1> USE DEF HostInv
<1> DEFINE todo == Ids(Bound)
<1>1. /\ todo \in SUBSET PassId /\ {} \in SUBSET PassId
      /\ \A x \in hostPasses : x.id \in todo <=> x \in Bound
  BY IdTypes DEF Ids, PassesDistinct, Bound
<1>2. /\ operation = None /\ operation' \in Operation /\ operation' # None
      /\ operation'.kind = "detach" /\ operation'.todo = todo /\ operation'.gone = {}
  <2> HIDE DEF todo
  <2>1. Begin("detach", todo, {})
    BY DEF DetachVulkanHost, todo
  <2> QED BY <1>1, <2>1, BeginType DEF OperationKind
<1> HIDE DEF todo
<1>3. /\ UNCHANGED <<hostPasses, nextPass, attached, suspended, unloaded, csWaits, target>>
      /\ device = "running" /\ device' = "released"
  BY DEF DetachVulkanHost
<1>4. PassesDistinct' /\ EntriesBound' /\ CallInTurn'
  BY <1>2, <1>3, BeginInv
<1>5. HostTypeOK'
  BY <1>2, <1>3 DEF HostTypeOK
<1>6. BoundSoFar'
  <2> SUFFICES ASSUME NEW y \in hostPasses PROVE y.binding # None <=> y.id \in todo
    BY <1>2, <1>3 DEF BoundSoFar, Binding
  <2> QED BY <1>1 DEF Bound
<1>7. DeviceAttached' /\ TodoGone'
  BY <1>2, <1>3 DEF DeviceAttached, Binding, TodoGone
<1> QED BY <1>4, <1>5, <1>6, <1>7

-----------------------------------------------------------------------------
(* The steps of an operation. *)

\* One pass is done: the next one has its turn, nothing else is in progress.
LEMMA DoneType ==
  ASSUME HostTypeOK, NEW x, Turn(x), NEW binding \in Token \cup {None}, Done(x, binding)
  PROVE  /\ operation \in Operation /\ operation' \in Operation /\ operation' # None
         /\ operation'.kind = operation.kind /\ operation'.gone = operation.gone
         /\ operation'.todo = operation.todo \ {x.id}
         /\ hostPasses' \subseteq NativeVulkanPass
         /\ hostPasses' = (hostPasses \ {x}) \cup {[x EXCEPT !.binding = binding]}
         /\ [x EXCEPT !.binding = binding].id = x.id
         /\ [x EXCEPT !.binding = binding].binding = binding
<1>1. x \in hostPasses /\ operation # None
  BY DEF Turn
<1>2. operation \in Operation
  BY <1>1, OperationTypes
<1>3. operation' = [operation EXCEPT !.todo = @ \ {x.id}]
  BY DEF Done
<1>4. x \in NativeVulkanPass
  BY <1>1 DEF HostTypeOK
<1>5. [x EXCEPT !.binding = binding] \in NativeVulkanPass
  BY <1>4 DEF NativeVulkanPass
<1>6. operation' \in Operation
  BY <1>2, <1>3 DEF Operation
<1>7. /\ operation'.kind = operation.kind /\ operation'.gone = operation.gone
      /\ operation'.todo = operation.todo \ {x.id}
  BY <1>2, <1>3 DEF Operation
<1> QED BY <1>2, <1>4, <1>5, <1>6, <1>7 DEF Done, HostTypeOK, NativeVulkanPass

\* S_FALSE: the host is suspended, so the pass stays unbound.
LEMMA SkipPassInv ==
  ASSUME HostInv, NEW x, SkipPass(x), UNCHANGED vars
  PROVE  HostInv'
<1> USE DEF HostInv
<1> DEFINE z == [x EXCEPT !.binding = x.binding]
<1>1. /\ Turn(x) /\ Binding /\ x \in hostPasses /\ x.binding = None /\ suspended
      /\ x.id \in operation.todo /\ operation # None
  BY TodoBound DEF SkipPass, AlreadySettled, Turn
<1>2. x \in NativeVulkanPass /\ z = x
  BY <1>1 DEF HostTypeOK, NativeVulkanPass
<1>3. /\ operation \in Operation /\ operation' \in Operation /\ operation' # None
      /\ operation'.kind = operation.kind /\ operation'.gone = operation.gone
      /\ operation'.todo = operation.todo \ {x.id}
      /\ hostPasses' = (hostPasses \ {x}) \cup {z}
  BY <1>1, DoneType DEF SkipPass
<1>4. hostPasses' = hostPasses
  BY <1>1, <1>2, <1>3
<1>5. UNCHANGED <<nextPass, attached, suspended, device, unloaded, csWaits, target>>
  BY DEF SkipPass
<1>6. /\ passes' = passes /\ registering' = registering /\ unregistering' = unregistering
  BY DEF vars, shared, clients
<1>7. Bound' = Bound /\ Tokens(passes)' = Tokens(passes) /\ Binding'
  BY <1>1, <1>3, <1>4, <1>6 DEF Bound, Tokens, Binding
<1>8. HostTypeOK'
  BY <1>3, <1>4, <1>5 DEF HostTypeOK
<1>9. PassesDistinct' /\ EntriesBound'
  BY <1>4, <1>5, <1>7 DEF PassesDistinct, EntriesBound
<1>10. BoundSoFar'
  BY <1>1, <1>3, <1>4, <1>5, <1>7 DEF BoundSoFar, Usable
<1>11. CallInTurn'
  BY <1>1, <1>3, <1>6 DEF CallInTurn
<1>12. DeviceAttached' /\ TodoGone'
  BY <1>1, <1>3, <1>5, <1>7 DEF DeviceAttached, TodoGone, Binding
<1> QED BY <1>8, <1>9, <1>10, <1>11, <1>12

\* The host's own state does not move while it is inside a call.
LEMMA BindingsKept ==
  ASSUME HostInv, UNCHANGED <<bindings, passes>>
  PROVE  /\ hostPasses' = hostPasses /\ operation' = operation /\ suspended' = suspended
         /\ Bound' = Bound /\ Tokens(passes)' = Tokens(passes) /\ Binding' = Binding
         /\ \A x : Turn(x)' = Turn(x)
         /\ PassesDistinct' /\ BoundSoFar' /\ DeviceAttached' /\ TodoGone'
BY DEF HostInv, bindings, Bound, Tokens, Binding, Turn, PassesDistinct, BoundSoFar, Usable,
   DeviceAttached, TodoGone

\* A token the backend has for no entry is drawn for a pass not bound yet.
LEMMA StartBindingInv ==
  ASSUME HostIInv, NEW x, StartBinding(x)
  PROVE  HostInv'
<1> USE DEF HostIInv, HostInv, IInv, PassInv
<1>1. /\ Turn(x) /\ Binding /\ ~suspended /\ x \in hostPasses
      /\ DrawToken(Bridge, x.priority)
      /\ target' = [target EXCEPT ![nextToken] = x.id]
      /\ UNCHANGED <<bindings, csWaits>>
  BY DEF StartBinding, Turn, AlreadySettled
<1>2. /\ nextToken \in Token /\ passes' = passes /\ unregistering' = unregistering
      /\ unregistering[Bridge] = None
      /\ registering' = [registering EXCEPT ![Bridge] =
           [token |-> nextToken, sequence |-> 0, priority |-> x.priority, enabled |-> TRUE]]
  BY <1>1 DEF DrawToken, Idle, TypeOK
<1>3. registering'[Bridge].token = nextToken
  BY <1>2 DEF TypeOK
<1>4. /\ hostPasses' = hostPasses /\ operation' = operation /\ suspended' = suspended
      /\ Bound' = Bound /\ Tokens(passes)' = Tokens(passes) /\ Binding' = Binding
      /\ \A y : Turn(y)' = Turn(y)
      /\ PassesDistinct' /\ BoundSoFar' /\ DeviceAttached' /\ TodoGone'
  BY <1>1, <1>2, BindingsKept
<1>5. x.id \in PassId /\ target \in [Token -> PassId \cup {None}]
  BY <1>1, HostedTypes DEF HostTypeOK
<1>6. HostTypeOK'
  BY <1>1, <1>2, <1>5 DEF HostTypeOK, bindings
<1>7. \A t \in Tokens(passes) : t # nextToken
  BY DEF Tokens, EntriesDistinct, TypeOK
<1>8. EntriesBound'
  BY <1>1, <1>2, <1>4, <1>5, <1>7 DEF EntriesBound
<1>9. target'[nextToken] = x.id
  BY <1>1, <1>2, <1>5
<1>10. CallInTurn'
  <2>1. operation # None
    BY <1>1 DEF Turn
  <2> QED BY <1>1, <1>2, <1>3, <1>4, <1>9, <2>1 DEF CallInTurn
<1> QED BY <1>4, <1>6, <1>8, <1>10

LEMMA SequenceInv ==
  ASSUME HostIInv, DrawSequence(Bridge), UNCHANGED hostVars
  PROVE  HostInv'
<1> USE DEF HostIInv, HostInv, IInv, PassInv
<1>1. /\ passes' = passes /\ unregistering' = unregistering
      /\ registering[Bridge] # None /\ registering' = [registering EXCEPT ![Bridge].sequence = nextSequence]
      /\ UNCHANGED <<bindings, csWaits, target>>
  BY DEF DrawSequence, hostVars
<1>2. registering[Bridge] \in Pass
  BY <1>1 DEF TypeOK
<1>3. registering'[Bridge].token = registering[Bridge].token
  BY <1>1, <1>2 DEF TypeOK, Pass
<1>4. /\ hostPasses' = hostPasses /\ operation' = operation /\ suspended' = suspended
      /\ Bound' = Bound /\ Tokens(passes)' = Tokens(passes) /\ Binding' = Binding
      /\ \A y : Turn(y)' = Turn(y)
      /\ PassesDistinct' /\ BoundSoFar' /\ DeviceAttached' /\ TodoGone'
  BY <1>1, BindingsKept
<1>5. HostTypeOK' /\ EntriesBound'
  BY <1>1, <1>4 DEF HostTypeOK, EntriesBound, bindings
<1>6. CallInTurn'
  BY <1>1, <1>3, <1>4 DEF CallInTurn, Idle
<1> QED BY <1>4, <1>5, <1>6

\* The backend has the entry, the pass has the binding.
LEMMA FinishBindingInv ==
  ASSUME HostIInv, NEW x, FinishBinding(x)
  PROVE  HostInv'
<1> USE DEF HostIInv, HostInv, IInv, PassInv
<1> DEFINE e == registering[Bridge]
           z == [x EXCEPT !.binding = e.token]
<1>1. /\ Turn(x) /\ Binding /\ InsertPass(Bridge) /\ Done(x, e.token)
      /\ UNCHANGED <<nextPass, attached, suspended, device, unloaded, csWaits, target>>
  BY DEF FinishBinding
<1>2. /\ e # None /\ e \in Pass /\ e.token \in Token /\ e.token # None
      /\ passes' = passes \cup {e}
      /\ registering'[Bridge] = None /\ unregistering' = unregistering
  BY <1>1 DEF InsertPass, TypeOK, Pass
<1>3. /\ x \in hostPasses /\ operation # None /\ x.id \in operation.todo
      /\ target[e.token] = x.id /\ x.binding = None /\ ~suspended
      /\ unregistering[Bridge] = None
  BY <1>1, <1>2, CallArgument, TodoBound DEF CallInTurn
<1>4. /\ operation \in Operation /\ operation' \in Operation /\ operation' # None
      /\ operation'.kind = operation.kind /\ operation'.gone = operation.gone
      /\ operation'.todo = operation.todo \ {x.id}
      /\ hostPasses' \subseteq NativeVulkanPass
      /\ hostPasses' = (hostPasses \ {x}) \cup {z}
      /\ z.id = x.id /\ z.binding = e.token
  BY <1>1, <1>2, DoneType
<1> HIDE DEF e, z
<1>5. e.token \notin Tokens(passes)
  BY <1>2 DEF PendingFresh, Tokens, e
<1>6. Tokens(passes)' = Tokens(passes) \cup {e.token}
  BY <1>2 DEF Tokens
<1>7. Bound' = Bound \cup {z}
  BY <1>2, <1>3, <1>4 DEF Bound
<1>8. Binding'
  BY <1>1, <1>4 DEF Binding
<1>9. HostTypeOK'
  BY <1>1, <1>4 DEF HostTypeOK
<1>10. \A y \in hostPasses : y # x => y.id # x.id
  BY <1>3 DEF PassesDistinct
<1>11. PassesDistinct'
  <2>1. \A y \in Bound : y.binding # e.token
    BY <1>5 DEF EntriesBound
  <2>2. \A y \in hostPasses' : y.id < nextPass'
    BY <1>1, <1>3, <1>4 DEF PassesDistinct
  <2>3. \A y, w \in hostPasses' : y.id = w.id => y = w
    BY <1>4, <1>10 DEF PassesDistinct
  <2>4. \A y, w \in Bound' : y.binding = w.binding => y = w
    BY <1>4, <1>7, <2>1 DEF PassesDistinct
  <2> QED BY <2>2, <2>3, <2>4 DEF PassesDistinct
<1>12. EntriesBound'
  <2>1. Tokens(passes)' = {y.binding : y \in Bound'}
    BY <1>4, <1>6, <1>7 DEF EntriesBound
  <2>2. \A y \in Bound' : target'[y.binding] = y.id
    BY <1>1, <1>3, <1>4, <1>7 DEF EntriesBound
  <2> QED BY <2>1, <2>2 DEF EntriesBound
<1>13. BoundSoFar'
  <2>1. Usable /\ Usable'
    BY <1>1, <1>3 DEF Usable, DeviceAttached
  <2> SUFFICES ASSUME NEW y \in hostPasses'
               PROVE  y.binding # None <=> y.id \notin operation'.todo
    BY <1>4, <1>8, <2>1 DEF BoundSoFar
  <2>2. CASE y = z
    BY <2>2, <1>2, <1>4
  <2>3. CASE y \in hostPasses /\ y # x
    BY <2>3, <1>1, <1>3, <1>4, <1>10, <2>1 DEF BoundSoFar
  <2> QED BY <2>2, <2>3, <1>4
<1>14. CallInTurn'
  BY <1>2, <1>3, <1>4 DEF CallInTurn
<1>15. DeviceAttached' /\ TodoGone'
  BY <1>1, <1>3, <1>4, <1>8 DEF DeviceAttached, TodoGone, Binding
<1> QED BY <1>9, <1>11, <1>12, <1>13, <1>14, <1>15

LEMMA StartUnbindingInv ==
  ASSUME HostIInv, NEW x, StartUnbinding(x)
  PROVE  HostInv'
<1> USE DEF HostIInv, HostInv, IInv, PassInv
<1>1. /\ Turn(x) /\ ~Binding /\ UnregisterCall(Bridge, x.binding) /\ UNCHANGED hostVars
      /\ x \in hostPasses /\ operation # None
  BY DEF StartUnbinding, Turn
<1>2. /\ passes' = passes /\ registering' = registering /\ registering[Bridge] = None
      /\ unregistering'[Bridge] = x.binding
  BY <1>1 DEF UnregisterCall, Idle, TypeOK, shared
<1>3. UNCHANGED <<bindings, csWaits, target>>
  BY <1>1 DEF hostVars
<1>4. /\ hostPasses' = hostPasses /\ operation' = operation /\ suspended' = suspended
      /\ Bound' = Bound /\ Tokens(passes)' = Tokens(passes) /\ Binding' = Binding
      /\ \A y : Turn(y)' = Turn(y)
      /\ PassesDistinct' /\ BoundSoFar' /\ DeviceAttached' /\ TodoGone'
  BY <1>2, <1>3, BindingsKept
<1>5. HostTypeOK' /\ EntriesBound'
  BY <1>3, <1>4 DEF HostTypeOK, EntriesBound, bindings
<1>6. CallInTurn'
  BY <1>1, <1>2, <1>4 DEF CallInTurn
<1> QED BY <1>4, <1>5, <1>6

\* The backend's entry and the binding end together.
LEMMA FinishUnbindingInv ==
  ASSUME HostIInv, NEW x, FinishUnbinding(x)
  PROVE  HostInv'
<1> USE DEF HostIInv, HostInv, IInv, PassInv
<1> DEFINE z == [x EXCEPT !.binding = None]
<1>1. /\ Turn(x) /\ ~Binding /\ UnregisterReturn(Bridge) /\ Done(x, None)
      /\ UNCHANGED <<nextPass, attached, suspended, device, unloaded, csWaits, target>>
  BY DEF FinishUnbinding
<1>2. /\ x \in hostPasses /\ operation # None /\ x.id \in operation.todo
      /\ unregistering[Bridge] = x.binding /\ x.binding # None /\ x \in Bound
  BY <1>1, CallArgument, TodoBound DEF UnregisterReturn
<1>3. /\ passes' = passes \ Removed(x.binding) /\ unregistering'[Bridge] = None
      /\ registering' = registering /\ registering[Bridge] = None
  BY <1>1, <1>2 DEF UnregisterReturn, TypeOK, CallInTurn
<1>4. /\ operation \in Operation /\ operation' \in Operation /\ operation' # None
      /\ operation'.kind = operation.kind /\ operation'.gone = operation.gone
      /\ operation'.todo = operation.todo \ {x.id}
      /\ hostPasses' \subseteq NativeVulkanPass
      /\ hostPasses' = (hostPasses \ {x}) \cup {z}
      /\ z.id = x.id /\ z.binding = None
  BY <1>1, DoneType
<1> HIDE DEF z
<1>5. Tokens(passes)' = Tokens(passes) \ {x.binding}
  BY <1>3 DEF Tokens, Removed
<1>6. Bound' = Bound \ {x}
  BY <1>4 DEF Bound
<1>7. ~Binding' /\ Usable' = Usable
  BY <1>1, <1>4 DEF Binding, Usable
<1>8. HostTypeOK'
  BY <1>1, <1>4 DEF HostTypeOK
<1>9. \A y \in hostPasses : y # x => y.id # x.id
  BY <1>2 DEF PassesDistinct
<1>10. PassesDistinct'
  <2>1. \A y \in hostPasses' : y.id < nextPass'
    BY <1>1, <1>2, <1>4 DEF PassesDistinct
  <2>2. \A y, w \in hostPasses' : y.id = w.id => y = w
    BY <1>4, <1>9 DEF PassesDistinct
  <2> QED BY <1>6, <2>1, <2>2 DEF PassesDistinct
<1>11. EntriesBound'
  <2>1. \A y \in Bound : y # x => y.binding # x.binding
    BY <1>2 DEF PassesDistinct
  <2> QED BY <1>1, <1>5, <1>6, <2>1 DEF EntriesBound
<1>12. BoundSoFar'
  <2>1. operation.kind \in {"suspend", "detach", "unregister", "unload"}
    BY <1>1, <1>4 DEF Binding, Operation, OperationKind
  <2> SUFFICES ASSUME NEW y \in hostPasses'
               PROVE  y.binding # None <=>
                        IF operation.kind \in {"suspend", "detach"} \/ y.id \in operation.gone
                        THEN y.id \in operation'.todo ELSE Usable
    BY <1>4, <1>7 DEF BoundSoFar
  <2>2. CASE y = z
    <3>1. operation.kind \in {"suspend", "detach"} \/ y.id \in operation.gone
      BY <2>1, <2>2, <1>2, <1>4 DEF TodoGone
    <3> QED BY <2>2, <3>1, <1>4
  <2>3. CASE y \in hostPasses /\ y # x
    BY <2>3, <1>1, <1>2, <1>4, <1>9 DEF BoundSoFar
  <2> QED BY <2>2, <2>3, <1>4
<1>13. CallInTurn'
  BY <1>3, <1>4 DEF CallInTurn
<1>14. DeviceAttached' /\ TodoGone'
  BY <1>1, <1>2, <1>4, <1>7 DEF DeviceAttached, TodoGone, Binding
<1> QED BY <1>8, <1>10, <1>11, <1>12, <1>13, <1>14

\* Everything visited: what is freed is unbound, the rest as the device is.
LEMMA EndOperationInv ==
  ASSUME HostInv, EndOperation, UNCHANGED vars
  PROVE  HostInv'
<1> USE DEF HostInv
<1>1. /\ operation # None /\ operation.todo = {} /\ operation' = None
      /\ hostPasses' = {x \in hostPasses : x.id \notin operation.gone}
      /\ attached' = (attached /\ operation.kind # "detach")
      /\ UNCHANGED <<nextPass, suspended, device, unloaded, csWaits, target>>
  BY DEF EndOperation
<1>2. /\ passes' = passes /\ registering' = registering /\ unregistering' = unregistering
  BY DEF vars, shared, clients
<1>3. registering[Bridge] = None /\ unregistering[Bridge] = None
  BY <1>1 DEF CallInTurn, Turn
<1>4. operation.kind \in OperationKind
  BY <1>1, OperationTypes
<1>5. \A x \in hostPasses : x.id \in operation.gone => x.binding = None
  BY <1>1, <1>4 DEF BoundSoFar, DeviceAttached, Binding
<1>6. \A x \in hostPasses' : x.binding # None <=> Usable'
  BY <1>1, <1>4 DEF BoundSoFar, DeviceAttached, Usable, Binding
<1>7. Bound' = Bound
  BY <1>1, <1>5 DEF Bound
<1>8. HostTypeOK'
  BY <1>1 DEF HostTypeOK
<1>9. PassesDistinct' /\ EntriesBound'
  BY <1>1, <1>2, <1>7 DEF PassesDistinct, EntriesBound, Tokens
<1>10. BoundSoFar' /\ CallInTurn'
  BY <1>1, <1>2, <1>3, <1>6 DEF BoundSoFar, CallInTurn, Idle
<1>11. DeviceAttached' /\ TodoGone'
  BY <1>1 DEF DeviceAttached, TodoGone, Binding
<1> QED BY <1>8, <1>9, <1>10, <1>11

LEMMA ReleaseInv ==
  ASSUME HostInv, ReleaseDevice
  PROVE  HostInv'
<1> USE DEF HostInv
<1>1. /\ device = "released" /\ operation = None /\ passes' = {}
      /\ UNCHANGED <<bindings, csWaits, target, registering, unregistering>>
  BY DEF ReleaseDevice, DestroyDevice, hostVars, clients
<1>2. hostPasses' = hostPasses /\ operation' = None
  BY <1>1 DEF bindings
<1>3. Bound = {}
  BY <1>1, BoundWhenIdle DEF DeviceAttached, Usable
<1>4. Bound' = {} /\ Tokens(passes)' = {}
  BY <1>1, <1>2, <1>3 DEF Bound, Tokens
<1>5. HostTypeOK' /\ EntriesBound' /\ PassesDistinct'
  BY <1>1, <1>2, <1>4 DEF HostTypeOK, EntriesBound, PassesDistinct, bindings
<1>6. BoundSoFar' /\ CallInTurn' /\ DeviceAttached' /\ TodoGone'
  BY <1>1, <1>2 DEF BoundSoFar, CallInTurn, DeviceAttached, TodoGone, Binding, Usable, Idle, bindings
<1> QED BY <1>5, <1>6

-----------------------------------------------------------------------------
(* The CS thread. *)

\* A failure disables an entry, which keeps its token.
LEMMA FramesKeepTokens ==
  ASSUME RunVulkanPasses
  PROVE  Tokens(passes)' = Tokens(passes) /\ UNCHANGED clients
<1>1. CASE CallbackFails
  <2> DEFINE off(p) == IF p.token = recording.token THEN [p EXCEPT !.enabled = FALSE] ELSE p
  <2>1. passes' = {off(p) : p \in passes} /\ UNCHANGED clients
    BY <1>1 DEF CallbackFails
  <2>2. \A p \in passes : off(p).token = p.token
    OBVIOUS
  <2> QED BY <2>1, <2>2 DEF Tokens
<1>2. CASE CheckPasses \/ TakeSnapshot \/ CallbackReturns \/ EndFrame \/ \E p \in frame : InvokePass(p)
  BY <1>2 DEF CheckPasses, TakeSnapshot, CallbackReturns, EndFrame, InvokePass, shared, Tokens
<1> QED BY <1>1, <1>2 DEF RunVulkanPasses

LEMMA CsInvHost ==
  ASSUME HostInv, UNCHANGED <<bindings, target, clients>>, Tokens(passes)' = Tokens(passes),
         csWaits' \in BOOLEAN
  PROVE  HostInv'
<1> USE DEF HostInv
<1>1. /\ hostPasses' = hostPasses /\ operation' = operation /\ suspended' = suspended
      /\ Bound' = Bound /\ Binding' = Binding /\ \A y : Turn(y)' = Turn(y)
  BY DEF bindings, Bound, Binding, Turn
<1>2. HostTypeOK' /\ PassesDistinct' /\ EntriesBound'
  BY <1>1 DEF HostTypeOK, PassesDistinct, EntriesBound, bindings
<1>3. BoundSoFar' /\ DeviceAttached' /\ TodoGone'
  BY <1>1 DEF BoundSoFar, DeviceAttached, TodoGone, Usable, bindings
<1>4. CallInTurn'
  BY <1>1 DEF CallInTurn, Idle, clients
<1> QED BY <1>2, <1>3, <1>4

-----------------------------------------------------------------------------
(* Every step is a step of the registry, and preserves the invariant. *)

LEMMA HostInitInv == HostInit => HostIInv
<1> SUFFICES ASSUME HostInit PROVE HostIInv
  OBVIOUS
<1>1. IInv
  BY InitInv DEF HostInit
<1>2. /\ hostPasses = {} /\ operation = None /\ device = "none" /\ attached = FALSE
      /\ suspended = FALSE /\ nextPass = 1 /\ unloaded = {} /\ csWaits = FALSE
      /\ target = [t \in Token |-> None] /\ passes = {}
      /\ registering = [c \in Client |-> None] /\ unregistering = [c \in Client |-> None]
  BY DEF HostInit, Init
<1>3. Bound = {} /\ Tokens(passes) = {}
  BY <1>2 DEF Bound, Tokens
<1>4. HostTypeOK
  <2>1. target \in [Token -> PassId \cup {None}]
    BY <1>2
  <2>2. nextPass \in 1 .. MaxPass + 1
    BY <1>2
  <2>3. /\ attached \in BOOLEAN /\ suspended \in BOOLEAN /\ csWaits \in BOOLEAN
        /\ device \in {"none", "running", "resetting", "released"}
    BY <1>2
  <2>4. /\ hostPasses \subseteq NativeVulkanPass /\ operation \in Operation \cup {None}
        /\ unloaded \subseteq Plugin
    BY <1>2
  <2> QED BY <2>1, <2>2, <2>3, <2>4 DEF HostTypeOK
<1>5. PassesDistinct
  BY <1>2, <1>3 DEF PassesDistinct
<1>6. EntriesBound
  BY <1>3 DEF EntriesBound
<1>7. BoundSoFar /\ CallInTurn /\ DeviceAttached /\ TodoGone
  BY <1>2 DEF BoundSoFar, CallInTurn, Idle, DeviceAttached, TodoGone, Binding
<1> QED BY <1>1, <1>4, <1>5, <1>6, <1>7 DEF HostIInv, HostInv

\* The host calls the registry only as VulkanPassRegistry lets clients do: one
\* call at a time, with tokens the registry has given out.
LEMMA HostStepsRegistry ==
  ASSUME HostIInv, HostNext
  PROVE  [Next]_vars
<1> USE DEF HostIInv, HostInv
<1>1. CASE Request /\ UNCHANGED vars
  BY <1>1
<1>2. CASE ReleaseDevice
  BY <1>2 DEF ReleaseDevice, Next
<1>3. ASSUME NEW x \in hostPasses, StartBinding(x) PROVE Next
  BY <1>3, HostedTypes DEF StartBinding, Next
<1>4. ASSUME NEW x \in hostPasses, FinishBinding(x) PROVE Next
  BY <1>4 DEF FinishBinding, Next, Register
<1>5. ASSUME NEW x \in hostPasses, StartUnbinding(x) PROVE Next
  <2>1. Turn(x) /\ ~Binding /\ UnregisterCall(Bridge, x.binding)
    BY <1>5 DEF StartUnbinding
  <2>2. x \in Bound
    BY <2>1, TodoBound
  <2>3. PICK p \in passes : p.token = x.binding
    BY <2>2 DEF EntriesBound, Tokens
  <2>4. p.token \in Token /\ p.token < nextToken /\ nextToken \in Int
    BY <2>3 DEF IInv, PassInv, TypeOK, EntriesDistinct, Pass
  <2>5. x.binding \in 1 .. nextToken - 1
    BY <2>3, <2>4
  <2> QED BY <2>1, <2>5 DEF Next
<1>6. ASSUME NEW x \in hostPasses, FinishUnbinding(x) PROVE Next
  BY <1>6 DEF FinishUnbinding, Next
<1>7. ASSUME DrawSequence(Bridge) PROVE Next
  BY <1>7 DEF Next, Register
<1>8. ASSUME RunVulkanPasses PROVE Next
  BY <1>8 DEF Next
<1>9. CASE CallbackCallsHost \/ HostAnswersCallback
  BY <1>9 DEF CallbackCallsHost, HostAnswersCallback
<1> QED BY <1>1, <1>2, <1>3, <1>4, <1>5, <1>6, <1>7, <1>8, <1>9
        DEF HostNext, OperationStep, Unbind, CsThread

LEMMA HostNextInv == HostIInv /\ [HostNext]_allVars => HostIInv'
<1> SUFFICES ASSUME HostIInv, [HostNext]_allVars PROVE HostIInv'
  OBVIOUS
<1>1. [Next]_vars
  BY HostStepsRegistry DEF allVars
<1>2. IInv'
  BY <1>1, NextInv DEF HostIInv
<1> SUFFICES HostInv'
  BY <1>2 DEF HostIInv
<1> USE DEF HostIInv
<1>3. ASSUME Request, UNCHANGED vars PROVE HostInv'
  BY <1>3, HostRegisterInv, HostUnregisterInv, UnloadPluginInv, AttachInv, BeginResetInv,
     ResetFailedInv, ResetSucceededInv, DetachInv DEF Request
<1>4. ASSUME OperationStep PROVE HostInv'
  BY <1>4, SkipPassInv, StartBindingInv, FinishBindingInv, StartUnbindingInv, SequenceInv,
     EndOperationInv DEF OperationStep
<1>5. ASSUME Unbind PROVE HostInv'
  BY <1>5, FinishUnbindingInv DEF Unbind
<1>6. ASSUME RunVulkanPasses, UNCHANGED hostVars PROVE HostInv'
  BY <1>6, FramesKeepTokens, CsInvHost DEF hostVars, HostInv, HostTypeOK
<1>7. ASSUME CallbackCallsHost \/ HostAnswersCallback PROVE HostInv'
  <2>1. UNCHANGED <<vars, bindings, target>> /\ csWaits' \in BOOLEAN
    BY <1>7 DEF CallbackCallsHost, HostAnswersCallback, InVulkanPassRecord
  <2>2. UNCHANGED <<clients, passes>>
    BY <2>1 DEF vars, shared
  <2> QED BY <2>1, <2>2, CsInvHost DEF Tokens
<1>8. ASSUME UNCHANGED allVars PROVE HostInv'
  <2>1. UNCHANGED <<bindings, target, clients, passes, csWaits>>
    BY <1>8 DEF allVars, hostVars, vars, shared
  <2> QED BY <2>1, CsInvHost DEF Tokens, HostInv, HostTypeOK
<1> QED BY <1>3, <1>4, <1>5, <1>6, <1>7, <1>8, ReleaseInv DEF HostNext, CsThread

-----------------------------------------------------------------------------
(* The theorems. *)

\* What the backend has, what each entry's UserData points to and what the
\* Bridge believes bound agree at every step of every operation.
THEOREM HostInvInductive == HostSpec => []HostInv
<1>1. HostIInv => HostInv
  BY DEF HostIInv
<1> QED BY <1>1, HostInitInv, HostNextInv, PTL DEF HostSpec

\* Types of the Bridge's host state.
THEOREM HostTypeCorrect == HostSpec => []HostTypeOK
<1>1. HostInv => HostTypeOK
  BY DEF HostInv
<1> QED BY <1>1, HostInvInductive, PTL

\* The Bridge's host is a client the registry allows: everything proved of
\* RegisterVulkanPass, UnregisterVulkanPass and RunVulkanPasses holds of it.
THEOREM HostImplementsRegistry == HostSpec => Spec
<1>1. HostInit => Init
  BY DEF HostInit
<1>2. HostIInv /\ [HostNext]_allVars => [Next]_vars
  BY HostStepsRegistry DEF allVars
<1> QED BY <1>1, <1>2, HostInitInv, HostNextInv, PTL DEF HostSpec, Spec

\* A callback that runs reads a NativeVulkanPass still in its plugin's vector,
\* whatever is unregistered, unloaded or rebound meanwhile.
THEOREM RecordsLivePassAlways == HostSpec => []RecordsLivePass
<1>1. HostIInv => RecordsLivePass
  <2> SUFFICES ASSUME HostIInv, recording # None PROVE target[recording.token] \in Ids(hostPasses)
    BY DEF RecordsLivePass
  <2>1. recording \in passes
    BY DEF HostIInv, IInv, PassInv, FrameLive, Enabled
  <2>2. PICK x \in Bound : x.binding = recording.token
    BY <2>1 DEF HostIInv, HostInv, EntriesBound, Tokens
  <2> QED BY <2>2 DEF HostIInv, HostInv, EntriesBound, Ids, Bound
<1> QED BY <1>1, HostInitInv, HostNextInv, PTL DEF HostSpec

\* While the device is reset the backend has no pass and no callback runs.
THEOREM ResetIsQuiet == HostSpec => []QuietReset
<1>1. HostIInv => QuietReset
  <2> SUFFICES ASSUME HostIInv, device = "resetting", operation = None
               PROVE  passes = {} /\ recording = None
    BY DEF QuietReset
  <2>1. Bound = {}
    BY BoundWhenIdle DEF HostIInv, HostInv, DeviceAttached, Usable
  <2>2. passes = {}
    BY <2>1 DEF HostIInv, HostInv, EntriesBound, Tokens
  <2> QED BY <2>2 DEF HostIInv, IInv, PassInv, FrameLive, Enabled
<1> QED BY <1>1, HostInitInv, HostNextInv, PTL DEF HostSpec

\* One entry for each bound pass.
LEMMA SameNumber ==
  ASSUME HostIInv
  PROVE  Cardinality(passes) = Cardinality(Bound)
<1> USE DEF HostIInv, HostInv
<1> DEFINE id == [x \in Bound |-> x.id]
           entry == [x \in Bound |-> CHOOSE p \in passes : p.token = x.binding]
<1>1. IsFiniteSet(Bound)
  <2>1. \A x \in Bound : x.id \in 1 .. MaxPass
    BY HostedTypes DEF Bound
  <2>2. \A x, y \in Bound : id[x] = id[y] => x = y
    BY DEF PassesDistinct, Bound
  <2>3. id \in Injection(Bound, 1 .. MaxPass)
    BY <2>1, <2>2 DEF Injection, IsInjective
  <2>4. IsFiniteSet(1 .. MaxPass)
    BY FS_Interval
  <2> QED BY <2>3, <2>4, FS_Injection
<1>2. \A x \in Bound : entry[x] \in passes /\ entry[x].token = x.binding
  BY DEF EntriesBound, Tokens
<1>3. \A x, y \in Bound : entry[x] = entry[y] => x = y
  BY <1>2 DEF PassesDistinct
<1>4. \A p \in passes : \E x \in Bound : entry[x] = p
  <2> TAKE p \in passes
  <2>1. PICK x \in Bound : x.binding = p.token
    BY DEF EntriesBound, Tokens
  <2>2. entry[x] = p
    BY <1>2, <2>1 DEF IInv, PassInv, EntriesDistinct
  <2> QED BY <2>2
<1>5. entry \in Bijection(Bound, passes)
  BY <1>2, <1>3, <1>4 DEF Bijection, Injection, Surjection, IsInjective
<1>6. ExistsBijection(Bound, passes)
  BY <1>5 DEF ExistsBijection
<1> QED BY <1>1, <1>6, FS_Bijection

\* Between operations the backend's entries are those the bindings name, each
\* once, and every pass of a usable device is bound.
THEOREM BindingsAlwaysExact == HostSpec => []BindingsExact
<1>1. HostIInv => BindingsExact
  BY SameNumber, BoundWhenIdle DEF HostIInv, HostInv, EntriesBound, BindingsExact, Usable
<1> QED BY <1>1, HostInitInv, HostNextInv, PTL DEF HostSpec

=============================================================================
