------------------------- MODULE VulkanPassRegistry -------------------------
(***************************************************************************)
(* The Vulkan pass registry of the GTA SA compatibility device: any thread *)
(* registers and unregisters passes while the DXVK CS thread records them  *)
(* after the presentation blit.                                            *)
(*                                                                         *)
(* Source: backend/dxvk/src/d3d9/d3d9_gta_sa_compat.cpp/.h.  A registration*)
(* is three atomic steps (two counters, then the locked insertion); what   *)
(* runs under a mutex is one step.  m_passExecutionMutex is held by the CS *)
(* thread exactly while it is "recording", and by the other two holders    *)
(* for one step each.  m_passes is a set: the vector is sorted by Before   *)
(* after every insertion, so its order is a function of its contents.      *)
(***************************************************************************)
EXTENDS Integers, FiniteSets

CONSTANTS
  Client,    \* threads that call the registry
  Priority,  \* values of D3D9GtaSaVulkanPassDesc.Priority
  MaxToken,  \* bound on the registrations of one behaviour
  None       \* no callback is running

ASSUME PriorityAssumption == Priority \subseteq Int

ASSUME MaxTokenAssumption == MaxToken \in Nat

Token == 1 .. MaxToken

\* Sequence 0 is one not drawn yet.
Pass == [token : Token, sequence : 0 .. MaxToken, priority : Priority, enabled : BOOLEAN]

ASSUME NoneAssumption == None \notin Pass /\ None \notin Token

VARIABLES
  nextToken,    \* m_nextPassToken
  nextSequence, \* m_nextPassSequence
  passes,       \* m_passes
  passCount,    \* m_passCount, read without a lock
  registering,  \* per client: the entry of its RegisterVulkanPass, or None
  unregistering,\* per client: the token of its UnregisterVulkanPass, or None
  cs,           \* where the CS thread is in its presentation command
  frame,        \* entries of the snapshot not called yet
  recording,    \* the entry whose callback runs, or None
  destroyed,    \* OnDeviceDestroy has run
  earlier,      \* history: passes registered before a registration began
  retired       \* history: passes that were live and no longer are

shared == <<nextToken, nextSequence, passes, passCount, destroyed>>
clients == <<registering, unregistering>>
csVars == <<cs, frame, recording>>
history == <<earlier, retired>>
vars == <<shared, clients, csVars, history>>

Tokens(entries) == {p.token : p \in entries}

Enabled == {p \in passes : p.enabled}

Live == Tokens(Enabled)

TypeOK ==
  /\ nextToken \in 1 .. MaxToken + 1
  /\ nextSequence \in 1 .. MaxToken + 1
  /\ passes \subseteq Pass
  /\ passCount \in Int
  /\ registering \in [Client -> Pass \cup {None}]
  /\ unregistering \in [Client -> Token \cup {None}]
  /\ cs \in {"idle", "checked", "recording"}
  /\ frame \subseteq Pass
  /\ recording \in Pass \cup {None}
  /\ destroyed \in BOOLEAN
  /\ earlier \in [Token -> SUBSET Token]
  /\ retired \subseteq Token

\* Mutant: tokens start at 0, which RegisterVulkanPass returns for a failure.
InitFromZero ==
  /\ nextToken = 0
  /\ nextSequence = 1
  /\ passes = {}
  /\ passCount = 0
  /\ registering = [c \in Client |-> None]
  /\ unregistering = [c \in Client |-> None]
  /\ cs = "idle"
  /\ frame = {}
  /\ recording = None
  /\ destroyed = FALSE
  /\ earlier = [t \in Token |-> {}]
  /\ retired = {}

Init ==
  /\ nextToken = 1
  /\ nextSequence = 1
  /\ passes = {}
  /\ passCount = 0
  /\ registering = [c \in Client |-> None]
  /\ unregistering = [c \in Client |-> None]
  /\ cs = "idle"
  /\ frame = {}
  /\ recording = None
  /\ destroyed = FALSE
  /\ earlier = [t \in Token |-> {}]
  /\ retired = {}

\* The comparison m_passes is sorted by.
\* Mutant: equal priorities are left in any order.
BeforeByPriority(p, q) == p.priority < q.priority

Before(p, q) ==
  \/ p.priority < q.priority
  \/ p.priority = q.priority /\ p.sequence < q.sequence

Idle(c) == registering[c] = None /\ unregistering[c] = None

Retire(tokens) == retired' = retired \cup tokens

(***************************************************************************)
(* RegisterVulkanPass.                                                     *)
(***************************************************************************)
DrawToken(c, priority) ==
  /\ ~destroyed /\ Idle(c)
  /\ nextToken <= MaxToken
  /\ nextToken' = nextToken + 1
  /\ registering' = [registering EXCEPT ![c] =
       [token |-> nextToken, sequence |-> 0, priority |-> priority, enabled |-> TRUE]]
  /\ earlier' = [earlier EXCEPT ![nextToken] = Tokens(passes)]
  /\ UNCHANGED <<nextSequence, passes, passCount, destroyed, unregistering, csVars, retired>>

DrawSequence(c) ==
  /\ registering[c] # None
  /\ registering[c].sequence = 0
  /\ nextSequence <= MaxToken
  /\ nextSequence' = nextSequence + 1
  /\ registering' = [registering EXCEPT ![c].sequence = nextSequence]
  /\ UNCHANGED <<nextToken, passes, passCount, destroyed, unregistering, csVars, history>>

InsertPass(c) ==
  /\ registering[c] # None
  /\ registering[c].sequence # 0
  /\ passes' = passes \cup {registering[c]}
  /\ passCount' = passCount + 1
  /\ registering' = [registering EXCEPT ![c] = None]
  /\ UNCHANGED <<nextToken, nextSequence, destroyed, unregistering, csVars, history>>

(***************************************************************************)
(* UnregisterVulkanPass: waits for the frame being recorded, then removes  *)
(* the entry and returns.  An unknown token is D3DERR_NOTFOUND.            *)
(***************************************************************************)
UnregisterCall(c, t) ==
  /\ ~destroyed /\ Idle(c)
  /\ unregistering' = [unregistering EXCEPT ![c] = t]
  /\ UNCHANGED <<shared, registering, csVars, history>>

Removed(t) == {p \in passes : p.token = t}

\* Mutant: unregistration does not wait for the recording of a frame.
UnregisterUnserialized(c) ==
  /\ unregistering[c] # None
  /\ LET gone == Removed(unregistering[c])
     IN  /\ passes' = passes \ gone
         /\ passCount' = passCount - Cardinality(gone \cap Enabled)
         /\ Retire(Tokens(gone \cap Enabled))
  /\ unregistering' = [unregistering EXCEPT ![c] = None]
  /\ UNCHANGED <<nextToken, nextSequence, destroyed, registering, csVars, earlier>>

\* Mutant: the count drops for an entry a failure already took out of it.
UnregisterMiscounted(c) ==
  /\ unregistering[c] # None
  /\ cs # "recording"
  /\ LET gone == Removed(unregistering[c])
     IN  /\ passes' = passes \ gone
         /\ passCount' = passCount - Cardinality(gone)
         /\ Retire(Tokens(gone \cap Enabled))
  /\ unregistering' = [unregistering EXCEPT ![c] = None]
  /\ UNCHANGED <<nextToken, nextSequence, destroyed, registering, csVars, earlier>>

UnregisterReturn(c) ==
  /\ unregistering[c] # None
  /\ cs # "recording"
  /\ LET gone == Removed(unregistering[c])
     IN  /\ passes' = passes \ gone
         /\ passCount' = passCount - Cardinality(gone \cap Enabled)
         /\ Retire(Tokens(gone \cap Enabled))
  /\ unregistering' = [unregistering EXCEPT ![c] = None]
  /\ UNCHANGED <<nextToken, nextSequence, destroyed, registering, csVars, earlier>>

\* ~D3D9DeviceEx: the last reference is gone, so no call is in progress; the
\* CS thread may still have a presentation to run.
DestroyDevice ==
  /\ ~destroyed /\ \A c \in Client : Idle(c)
  /\ cs # "recording"
  /\ passes' = {}
  /\ passCount' = 0
  /\ destroyed' = TRUE
  /\ Retire(Live)
  /\ UNCHANGED <<nextToken, nextSequence, clients, csVars, earlier>>

(***************************************************************************)
(* RunVulkanPasses, on the CS thread.                                      *)
(***************************************************************************)
\* HasVulkanPasses, before any lock is taken.
CheckPasses ==
  /\ cs = "idle"
  /\ passCount # 0
  /\ cs' = "checked"
  /\ UNCHANGED <<shared, clients, frame, recording, history>>

\* Mutant: the copied entries are called whether or not they are enabled.
SnapshotUnfiltered ==
  /\ cs = "checked"
  /\ cs' = "recording"
  /\ frame' = passes
  /\ UNCHANGED <<shared, clients, recording, history>>

TakeSnapshot ==
  /\ cs = "checked"
  /\ cs' = "recording"
  /\ frame' = Enabled
  /\ UNCHANGED <<shared, clients, recording, history>>

InvokePass(p) ==
  /\ cs = "recording" /\ recording = None
  /\ p \in frame
  /\ \A q \in frame : ~Before(q, p)
  /\ recording' = p
  /\ frame' = frame \ {p}
  /\ UNCHANGED <<shared, clients, cs, history>>

CallbackReturns ==
  /\ recording # None
  /\ recording' = None
  /\ UNCHANGED <<shared, clients, cs, frame, history>>

\* Mutant: a failure ends the count instead of lowering it.
FailureClearsCount ==
  /\ recording # None
  /\ recording' = None
  /\ passes' = {IF p.token = recording.token THEN [p EXCEPT !.enabled = FALSE] ELSE p : p \in passes}
  /\ passCount' = 0
  /\ Retire(Tokens(Removed(recording.token) \cap Enabled))
  /\ UNCHANGED <<nextToken, nextSequence, destroyed, clients, cs, frame, earlier>>

\* A failure, or an exception, disables the pass until it is unregistered.
CallbackFails ==
  /\ recording # None
  /\ recording' = None
  /\ passes' = {IF p.token = recording.token THEN [p EXCEPT !.enabled = FALSE] ELSE p : p \in passes}
  /\ passCount' = passCount - Cardinality(Removed(recording.token) \cap Enabled)
  /\ Retire(Tokens(Removed(recording.token) \cap Enabled))
  /\ UNCHANGED <<nextToken, nextSequence, destroyed, clients, cs, frame, earlier>>

\* Mutant: a frame that leaves no enabled pass keeps the execution mutex.
EndFrameLeaked ==
  /\ cs = "recording" /\ recording = None /\ frame = {}
  /\ Enabled # {}
  /\ cs' = "idle"
  /\ UNCHANGED <<shared, clients, frame, recording, history>>

EndFrame ==
  /\ cs = "recording" /\ recording = None /\ frame = {}
  /\ cs' = "idle"
  /\ UNCHANGED <<shared, clients, frame, recording, history>>

Register(c) == DrawSequence(c) \/ InsertPass(c)

RunVulkanPasses ==
  \/ CheckPasses \/ TakeSnapshot
  \/ \E p \in frame : InvokePass(p)
  \/ CallbackReturns \/ CallbackFails \/ EndFrame

Next ==
  \/ \E c \in Client :
       \/ \E priority \in Priority : DrawToken(c, priority)
       \/ Register(c)
       \/ \E t \in 1 .. nextToken - 1 : UnregisterCall(c, t)
       \/ UnregisterReturn(c)
  \/ DestroyDevice
  \/ RunVulkanPasses

Spec == Init /\ [][Next]_vars

\* The game keeps presenting, callbacks return, and a thread that waits for
\* m_passExecutionMutex gets it if it is free again and again.
Fairness ==
  /\ WF_vars(RunVulkanPasses)
  /\ \A c \in Client : WF_vars(Register(c)) /\ SF_vars(UnregisterReturn(c))

FairSpec == Spec /\ Fairness

(***************************************************************************)
(* Properties.                                                             *)
(***************************************************************************)
\* m_passCount is read without a lock to decide whether a frame records
\* anything, so it must count the enabled entries exactly, whatever order
\* failures, unregistrations and the device's end come in.
CountExact == passCount = Cardinality(Enabled)

\* POSTFX_CHAIN.md:162-163: lower priorities run first and equal ones keep
\* their registration order.  When RunVulkanPasses calls a pass, no pass left
\* in the frame has a lower priority, and none of the same priority was
\* registered before the call that registered this one began, although the
\* token and the sequence are drawn by two separate atomic steps.
OrderKept ==
  [][recording = None /\ recording' # None =>
       \A q \in frame' :
         /\ q.priority >= recording'.priority
         /\ q.priority = recording'.priority => q.token \notin earlier[recording'.token]]_vars

\* GTA_SA_COMPAT.md:26-31, PassContract: RunVulkanPasses calls a callback from
\* a snapshot taken earlier, yet never one that was unregistered, disabled or
\* destroyed since, and UnregisterVulkanPass never returns during a callback.
Contract ==
  INSTANCE PassContract WITH
    NoPass <- None,
    live <- Live,
    running <- IF recording = None THEN None ELSE recording.token

RefinesContract == Contract!Spec

\* A failing pass costs no other pass its place: a live pass is recorded or
\* stops being live, under the fairness stated above.
LivePassRecorded ==
  \A t \in Token :
    t \in Live ~> t \notin Live \/ (recording # None /\ recording.token = t)

\* UnregisterVulkanPass returns, also for a token that was never known and
\* for a pass a failure disabled.
UnregisterCompletes ==
  \A c \in Client : unregistering[c] # None ~> unregistering[c] = None

(***************************************************************************)
(* The strengthening the safety properties rest on.                        *)
(***************************************************************************)
\* Tokens and sequences tell the entries apart, and have all been drawn.
EntriesDistinct ==
  /\ \A p, q \in passes : p.token = q.token \/ p.sequence = q.sequence => p = q
  /\ \A p \in passes : p.token < nextToken /\ p.sequence \in 1 .. nextSequence - 1
  /\ \A t \in retired : t < nextToken /\ t \notin Live

\* An entry still being registered shares its token with nothing.
PendingFresh ==
  \A c \in Client : registering[c] # None =>
    /\ registering[c].enabled
    /\ registering[c].token < nextToken
    /\ registering[c].sequence < nextSequence
    /\ registering[c].token \notin retired
    /\ \A p \in passes : p.token # registering[c].token /\ p.sequence # registering[c].sequence
    /\ \A d \in Client \ {c} : registering[d] # None =>
         /\ registering[d].token # registering[c].token
         /\ registering[d].sequence = registering[c].sequence => registering[c].sequence = 0

\* What is left of the snapshot is still registered and enabled.
FrameLive ==
  /\ cs # "recording" => frame = {} /\ recording = None
  /\ frame \subseteq Enabled
  /\ recording # None => recording \in Enabled \ frame

\* A pass registered before a registration began has a smaller sequence.
EarlierSmaller ==
  /\ \A t \in Token : \A u \in earlier[t] : u < nextToken
  /\ \A p, q \in passes : q.token \in earlier[p.token] => q.sequence < p.sequence
  /\ \A c \in Client : registering[c] # None =>
       /\ \A t \in Token : registering[c].token \notin earlier[t]
       /\ registering[c].sequence # 0 =>
            \A q \in passes : q.token \in earlier[registering[c].token] =>
                               q.sequence < registering[c].sequence

\* RunVulkanPasses walks a copy of m_passes with m_passMutex released.  What
\* is left of the copy still matches the registry, token by token, whatever
\* registrations, failures and unregistrations go on meanwhile.
PassInv ==
  /\ TypeOK
  /\ CountExact
  /\ EntriesDistinct
  /\ PendingFresh
  /\ FrameLive
  /\ EarlierSmaller

=============================================================================
