--------------------------- MODULE VulkanPassHost ---------------------------
(***************************************************************************)
(* The Bridge's Vulkan pass host composed with one device's registry: API  *)
(* v2 plugins register passes with the Bridge, which binds them to the     *)
(* backend while the device is usable and unbinds them across Reset.       *)
(*                                                                         *)
(* Source: src/bridge/legacy/BridgeD3D9.cpp.  Every operation holds        *)
(* g_vulkanHostMutex from its first to its last step, so at most one is in *)
(* progress; its calls into the backend interleave with the CS thread.  A  *)
(* NativeVulkanPass keeps its place in its plugin's vector, which is the   *)
(* order of its bridge token; plugins are numbered in load order.          *)
(***************************************************************************)
EXTENDS VulkanPassRegistry

CONSTANTS
  Plugin,  \* API v2 plugins, numbered in load order
  Bridge,  \* the registry's only client
  MaxPass  \* bound on bridge tokens

ASSUME HostAssumption == Plugin \subseteq Nat /\ Client = {Bridge} /\ MaxPass \in Nat

PassId == 1 .. MaxPass

VARIABLES
  hostPasses, \* every plugin's vulkanPasses, with the binding of each
  nextPass,   \* g_nextVulkanPassToken
  attached,   \* the device has a VulkanHostDevice in g_vulkanHostDevices
  suspended,  \* VulkanHostDevice.suspended
  operation,  \* the operation that holds g_vulkanHostMutex, or None
  device,     \* the render thread: no device, running, resetting, released
  unloaded,   \* plugins whose library has been freed
  csWaits,    \* the CS thread waits for g_vulkanHostMutex in a callback
  target      \* UserData of a registry entry: the pass its callback reads

bindings == <<hostPasses, nextPass, attached, suspended, operation, device, unloaded>>
hostVars == <<bindings, csWaits, target>>
allVars == <<vars, hostVars>>

NativeVulkanPass ==
  [id : PassId, plugin : Plugin, priority : Priority, binding : Token \cup {None}]

OperationKind == {"register", "unregister", "attach", "suspend", "resume", "detach", "unload"}

\* todo holds the passes still to be bound or unbound, gone the ones erased
\* when the operation ends.
Operation == [kind : OperationKind, todo : SUBSET PassId, gone : SUBSET PassId]

ASSUME OperationAssumption == None \notin Operation

HostTypeOK ==
  /\ hostPasses \subseteq NativeVulkanPass
  /\ nextPass \in 1 .. MaxPass + 1
  /\ attached \in BOOLEAN
  /\ suspended \in BOOLEAN
  /\ operation \in Operation \cup {None}
  /\ device \in {"none", "running", "resetting", "released"}
  /\ unloaded \subseteq Plugin
  /\ csWaits \in BOOLEAN
  /\ target \in [Token -> PassId \cup {None}]

\* Mutant: bridge tokens start at 0, which HostUnregisterVulkanPass rejects.
HostInitFromZero ==
  /\ Init
  /\ hostPasses = {}
  /\ nextPass = 0
  /\ attached = FALSE
  /\ suspended = FALSE
  /\ operation = None
  /\ device = "none"
  /\ unloaded = {}
  /\ csWaits = FALSE
  /\ target = [t \in Token |-> None]

HostInit ==
  /\ Init
  /\ hostPasses = {}
  /\ nextPass = 1
  /\ attached = FALSE
  /\ suspended = FALSE
  /\ operation = None
  /\ device = "none"
  /\ unloaded = {}
  /\ csWaits = FALSE
  /\ target = [t \in Token |-> None]

Ids(hosted) == {x.id : x \in hosted}

Bound == {x \in hostPasses : x.binding # None}

\* The order the loops over g_plugins and vulkanPasses visit passes in.
VisitedBefore(x, y) == x.plugin < y.plugin \/ (x.plugin = y.plugin /\ x.id < y.id)

\* The pass whose turn it is.
Turn(x) ==
  /\ operation # None
  /\ x \in hostPasses /\ x.id \in operation.todo
  /\ \A y \in hostPasses : y.id \in operation.todo => ~VisitedBefore(y, x)

\* Bound on the registrations of a behaviour: a token is left for every pass
\* the host may still have to bind.
TokensLeft(n) == nextToken + n <= MaxToken + 1

Begin(kind, todo, gone) ==
  /\ operation = None /\ ~csWaits
  /\ operation' = [kind |-> kind, todo |-> todo, gone |-> gone]

Done(x, binding) ==
  /\ operation' = [operation EXCEPT !.todo = @ \ {x.id}]
  /\ hostPasses' = (hostPasses \ {x}) \cup {[x EXCEPT !.binding = binding]}

(***************************************************************************)
(* What plugins ask for, from any thread but the one recording a callback. *)
(***************************************************************************)
HostRegisterVulkanPass(plugin, priority) ==
  /\ plugin \notin unloaded
  /\ nextPass <= MaxPass
  /\ TokensLeft(Cardinality(hostPasses \ Bound) + 1)
  /\ Begin("register", IF attached THEN {nextPass} ELSE {}, {})
  /\ hostPasses' = hostPasses \cup
       {[id |-> nextPass, plugin |-> plugin, priority |-> priority, binding |-> None]}
  /\ nextPass' = nextPass + 1
  /\ UNCHANGED <<attached, suspended, device, unloaded, csWaits, target>>

\* Mutant: the pass is freed at once, its binding afterwards.
HostUnregisterFreesFirst(x) ==
  /\ x \in hostPasses
  /\ Begin("unregister", {}, {x.id})
  /\ UNCHANGED <<hostPasses, nextPass, attached, suspended, device, unloaded, csWaits, target>>

\* A plugin can only name its own passes; D3DERR_NOTFOUND changes nothing.
HostUnregisterVulkanPass(x) ==
  /\ x \in hostPasses
  /\ Begin("unregister", Ids({x} \cap Bound), {x.id})
  /\ UNCHANGED <<hostPasses, nextPass, attached, suspended, device, unloaded, csWaits, target>>

\* UnregisterPluginVulkanPasses, last plugin first; FreeLibrary follows.
UnloadPlugin(plugin) ==
  /\ plugin \notin unloaded
  /\ \A other \in Plugin \ unloaded : other <= plugin
  /\ LET own == {x \in hostPasses : x.plugin = plugin}
     IN  Begin("unload", Ids(own \cap Bound), Ids(own))
  /\ unloaded' = unloaded \cup {plugin}
  /\ UNCHANGED <<hostPasses, nextPass, attached, suspended, device, csWaits, target>>

(***************************************************************************)
(* The render thread.                                                      *)
(***************************************************************************)
AttachVulkanHost ==
  /\ device = "none"
  /\ Begin("attach", Ids(hostPasses), {})
  /\ attached' = TRUE
  /\ device' = "running"
  /\ UNCHANGED <<hostPasses, nextPass, suspended, unloaded, csWaits, target>>

\* Mutant: Reset leaves the passes bound.
BeginResetBound ==
  /\ device = "running"
  /\ operation = None /\ ~csWaits
  /\ suspended' = TRUE
  /\ device' = "resetting"
  /\ UNCHANGED <<hostPasses, nextPass, attached, operation, unloaded, csWaits, target>>

\* SuspendVulkanHost, on the way into Reset; a host that an earlier failed
\* Reset left suspended stays so.
BeginReset ==
  /\ device = "running"
  /\ TokensLeft(Cardinality(hostPasses))
  /\ operation = None /\ ~csWaits
  /\ operation' = IF suspended THEN None
                  ELSE [kind |-> "suspend", todo |-> Ids(Bound), gone |-> {}]
  /\ suspended' = TRUE
  /\ device' = "resetting"
  /\ UNCHANGED <<hostPasses, nextPass, attached, unloaded, csWaits, target>>

ResetFailed ==
  /\ device = "resetting" /\ operation = None
  /\ device' = "running"
  /\ UNCHANGED <<hostPasses, nextPass, attached, suspended, operation, unloaded, csWaits, target>>

\* ResumeVulkanHost, after a Reset that succeeded.
ResetSucceeded ==
  /\ device = "resetting"
  /\ Begin("resume", Ids(hostPasses), {})
  /\ suspended' = FALSE
  /\ device' = "running"
  /\ UNCHANGED <<hostPasses, nextPass, attached, unloaded, csWaits, target>>

\* Mutant: the passes keep the bindings of the device that ends.
DetachForgetting ==
  /\ device = "running"
  /\ Begin("detach", {}, {})
  /\ device' = "released"
  /\ UNCHANGED <<hostPasses, nextPass, attached, suspended, unloaded, csWaits, target>>

\* DetachVulkanHost, in the wrapper's destructor.
DetachVulkanHost ==
  /\ device = "running"
  /\ Begin("detach", Ids(Bound), {})
  /\ device' = "released"
  /\ UNCHANGED <<hostPasses, nextPass, attached, suspended, unloaded, csWaits, target>>

ReleaseDevice ==
  /\ device = "released" /\ operation = None
  /\ DestroyDevice
  /\ UNCHANGED hostVars

(***************************************************************************)
(* The steps of the operation in progress.                                 *)
(***************************************************************************)
Binding == operation # None /\ operation.kind \in {"register", "attach", "resume"}

\* RegisterPassOnHostLocked answers S_FALSE.
AlreadySettled(x) == suspended \/ x.binding # None

SkipPass(x) ==
  /\ Binding /\ Turn(x) /\ AlreadySettled(x)
  /\ Done(x, x.binding)
  /\ UNCHANGED <<nextPass, attached, suspended, device, unloaded, csWaits, target>>

StartBinding(x) ==
  /\ Binding /\ Turn(x) /\ ~AlreadySettled(x)
  /\ DrawToken(Bridge, x.priority)
  /\ target' = [target EXCEPT ![nextToken] = x.id]
  /\ UNCHANGED <<bindings, csWaits>>

FinishBinding(x) ==
  /\ Binding /\ Turn(x)
  /\ InsertPass(Bridge)
  /\ Done(x, registering[Bridge].token)
  /\ UNCHANGED <<nextPass, attached, suspended, device, unloaded, csWaits, target>>

StartUnbinding(x) ==
  /\ ~Binding /\ Turn(x)
  /\ UnregisterCall(Bridge, x.binding)
  /\ UNCHANGED hostVars

\* Mutant: the binding is forgotten only when the backend knew its entry as
\* enabled.
FinishUnbindingIfEnabled(x) ==
  /\ ~Binding /\ Turn(x)
  /\ UnregisterReturn(Bridge)
  /\ Done(x, IF x.binding \in Live THEN None ELSE x.binding)
  /\ UNCHANGED <<nextPass, attached, suspended, device, unloaded, csWaits, target>>

FinishUnbinding(x) ==
  /\ ~Binding /\ Turn(x)
  /\ UnregisterReturn(Bridge)
  /\ Done(x, None)
  /\ UNCHANGED <<nextPass, attached, suspended, device, unloaded, csWaits, target>>

EndOperation ==
  /\ operation # None /\ operation.todo = {}
  /\ hostPasses' = {x \in hostPasses : x.id \notin operation.gone}
  /\ attached' = (attached /\ operation.kind # "detach")
  /\ operation' = None
  /\ UNCHANGED <<nextPass, suspended, device, unloaded, csWaits, target>>

(***************************************************************************)
(* The CS thread, and a callback that calls back into the host.            *)
(***************************************************************************)
\* Mutant: the callback's thread is not marked.
NotMarked == FALSE

\* g_inVulkanPassRecord, on the thread that records.
InVulkanPassRecord == recording # None

\* The host's functions answer D3DERR_INVALIDCALL before they take the mutex.
CallbackCallsHost ==
  /\ recording # None
  /\ csWaits' = ~InVulkanPassRecord
  /\ UNCHANGED <<vars, bindings, target>>

HostAnswersCallback ==
  /\ operation = None
  /\ csWaits' = FALSE
  /\ UNCHANGED <<vars, bindings, target>>

OperationStep ==
  \/ \E x \in hostPasses :
       \/ SkipPass(x) /\ UNCHANGED vars
       \/ StartBinding(x) \/ FinishBinding(x)
       \/ StartUnbinding(x)
  \/ DrawSequence(Bridge) /\ UNCHANGED hostVars
  \/ EndOperation /\ UNCHANGED vars

Unbind == \E x \in hostPasses : FinishUnbinding(x)

CsThread ==
  \/ ~csWaits /\ RunVulkanPasses /\ UNCHANGED hostVars
  \/ HostAnswersCallback

Request ==
  \/ \E plugin \in Plugin :
       \/ \E priority \in Priority : HostRegisterVulkanPass(plugin, priority)
       \/ UnloadPlugin(plugin)
  \/ \E x \in hostPasses : HostUnregisterVulkanPass(x)
  \/ AttachVulkanHost
  \/ BeginReset \/ ResetFailed \/ ResetSucceeded
  \/ DetachVulkanHost

HostNext ==
  \/ Request /\ UNCHANGED vars
  \/ ReleaseDevice
  \/ OperationStep
  \/ Unbind
  \/ CsThread
  \/ CallbackCallsHost

HostSpec == HostInit /\ [][HostNext]_allVars

\* Frames keep coming, callbacks return, and the operation that waits for
\* m_passExecutionMutex gets it if it is free again and again.
HostFairSpec ==
  /\ HostSpec
  /\ WF_allVars(OperationStep) /\ SF_allVars(Unbind) /\ WF_allVars(CsThread)

(***************************************************************************)
(* Properties.                                                             *)
(***************************************************************************)
\* RecordNativeVulkanPass dereferences the NativeVulkanPass the backend kept
\* as UserData: it must still be in its plugin's vector, whatever plugin
\* unregisters, unloads or rebinds meanwhile.
RecordsLivePass ==
  recording # None => target[recording.token] \in Ids(hostPasses)

\* POSTFX_CHAIN.md:166-168: passes are unbound across Reset, also those that
\* another thread registers during it.
QuietReset ==
  device = "resetting" /\ operation = None => passes = {} /\ recording = None

\* With no operation in progress, the backend knows exactly the entries the
\* bindings name, each once, and a usable device has every pass bound.
BindingsExact ==
  operation = None =>
    /\ Tokens(passes) = {x.binding : x \in Bound}
    /\ Cardinality(passes) = Cardinality(Bound)
    /\ Bound = IF attached /\ ~suspended THEN hostPasses ELSE {}

\* Registration, Reset and unloading end even when a callback calls the host
\* back while they wait for that callback.
OperationCompletes == operation # None ~> operation = None

\* POSTFX_CHAIN.md:162-163: "equal priorities preserve registration order".
\* RunVulkanPasses calls no pass before one of the same priority that a plugin
\* registered with the Bridge earlier.
HostOrderKept ==
  [][recording = None /\ recording' # None =>
       \A q \in frame' :
         q.priority = recording'.priority => target[q.token] > target[recording'.token]]_allVars

(***************************************************************************)
(* The strengthening the safety properties rest on.                        *)
(***************************************************************************)
Usable == attached /\ ~suspended

\* Bridge tokens and bindings tell the passes apart.
PassesDistinct ==
  /\ \A x \in hostPasses : x.id < nextPass
  /\ \A x, y \in hostPasses : x.id = y.id => x = y
  /\ \A x, y \in Bound : x.binding = y.binding => x = y

\* The backend's entries and the bindings name each other, and the UserData of
\* an entry is the pass bound to it.
EntriesBound ==
  /\ Tokens(passes) = {x.binding : x \in Bound}
  /\ \A x \in Bound : target[x.binding] = x.id

\* Which passes are bound, whatever an operation still has to do.
BoundSoFar ==
  \A x \in hostPasses : x.binding # None <=>
    IF operation = None THEN Usable
    ELSE IF Binding THEN Usable /\ x.id \notin operation.todo
    ELSE IF operation.kind \in {"suspend", "detach"} \/ x.id \in operation.gone
    THEN x.id \in operation.todo
    ELSE Usable

\* The call into the backend is about the pass whose turn it is.
CallInTurn ==
  /\ operation = None => Idle(Bridge)
  /\ registering[Bridge] # None =>
       /\ Binding /\ ~suspended
       /\ \E x \in hostPasses : Turn(x) /\ target[registering[Bridge].token] = x.id
  /\ unregistering[Bridge] # None =>
       /\ ~Binding
       /\ \E x \in hostPasses : Turn(x) /\ unregistering[Bridge] = x.binding

\* A device is attached from its creation to the end of its destructor's
\* operation, and suspended in Reset.
DeviceAttached ==
  /\ device \in {"running", "resetting"} => attached
  /\ device = "none" => ~attached
  /\ device = "released" /\ attached => operation # None /\ operation.kind = "detach"
  /\ device = "resetting" => suspended
  /\ operation # None /\ operation.kind = "detach" => device = "released"
  /\ Binding /\ operation.todo # {} => attached
  /\ Binding \/ (operation # None /\ operation.kind \in {"suspend", "detach"}) => operation.gone = {}
  /\ operation # None /\ operation.kind = "suspend" => suspended

\* A pass that is freed is unbound first.
TodoGone ==
  operation # None /\ operation.kind \in {"unregister", "unload"} =>
    operation.todo \subseteq operation.gone

\* Which entries the backend has, whose pass each callback reads and which
\* passes are bound agree at every step of every operation, whatever frames,
\* failures and requests come in between.
HostInv ==
  /\ HostTypeOK
  /\ PassesDistinct
  /\ EntriesBound
  /\ BoundSoFar
  /\ CallInTurn
  /\ DeviceAttached
  /\ TodoGone

=============================================================================
