--------------------------- MODULE EffectBindings ---------------------------
(***************************************************************************)
(* Which ProperShadersEffectBinding, and with it which state journal, the  *)
(* hooks of an effect find, when effects are created, used and released on *)
(* several threads (bridge/BridgeD3D9.cpp).  A registry behind a lock maps *)
(* the addresses of effects to bindings; every thread keeps the bindings   *)
(* it has met in a cache and a last hit, which it reads without the lock.  *)
(* D3DX may give the address of an effect that is gone to the next one.    *)
(*                                                                         *)
(* D3DX is external.  It does not allow two calls on one effect at a time; *)
(* calls on different effects overlap.  A binding is named by the effect   *)
(* it was made for.                                                        *)
(***************************************************************************)
CONSTANTS Thread, Effect, Address, None, Gone

ASSUME BindingsAssumption ==
  /\ None \notin Address \cup Effect \cup {Gone}
  /\ Gone \notin Address

VARIABLES
  at,        \* where an effect is; None before it is made, Gone after
  hooked,    \* its vtable is the Bridge's copy
  journal,   \* of its binding: "none", "attached" as state manager, "released"
  boundTo,   \* ProperShadersEffectBinding::effect; None for a tombstone
  registry,  \* g_properShadersEffectBindingRegistry
  cache,     \* g_properShadersEffectBindingCache of each thread
  lastHit,   \* g_properShadersEffectBindingLastHit of each thread
  call       \* what a thread is doing

vars == <<at, hooked, journal, boundTo, registry, cache, lastHit, call>>

Kind == {"acquire", "use", "release"}
Phase == {"find", "lookup", "create", "emplace", "hook", "use",
          "destroy", "erase", "drop", "tombstone"}

Call == [effect : Effect, address : Address, kind : Kind, phase : Phase,
         binding : Effect \cup {None}]

ASSUME CallAssumption == None \notin Call

\* Registry, caches and tombstones hold bindings of effects and their addresses
\* only (g_properShadersEffectBindingRegistry, ...BindingCache, ...LastHit).
TypeOK ==
  /\ at \in [Effect -> Address \cup {None, Gone}]
  /\ hooked \in [Effect -> BOOLEAN]
  /\ journal \in [Effect -> {"none", "attached", "released"}]
  /\ boundTo \in [Effect -> Address \cup {None}]
  /\ registry \in [Address -> Effect \cup {None}]
  /\ cache \in [Thread -> SUBSET Effect]
  /\ lastHit \in [Thread -> Effect \cup {None}]
  /\ call \in [Thread -> Call \cup {None}]

Init ==
  /\ at = [e \in Effect |-> None]
  /\ hooked = [e \in Effect |-> FALSE]
  /\ journal = [e \in Effect |-> "none"]
  /\ boundTo = [e \in Effect |-> None]
  /\ registry = [a \in Address |-> None]
  /\ cache = [t \in Thread |-> {}]
  /\ lastHit = [t \in Thread |-> None]
  /\ call = [t \in Thread |-> None]

Live(e) == at[e] \in Address

InCall(e) == \E t \in Thread : call[t] # None /\ call[t].effect = e

In(t, phase) == call[t] # None /\ call[t].phase = phase

\* The effect of the call is destroyed, its binding is not yet a tombstone.
Releasing(t) == call[t] # None /\ call[t].phase \in {"erase", "drop", "tombstone"}

GoOn(t, phase, b) ==
  call' = [call EXCEPT ![t] = [call[t] EXCEPT !.phase = phase, !.binding = b]]

Return(t) == call' = [call EXCEPT ![t] = None]

Start(e, a, kind) ==
  [effect |-> e, address |-> a, kind |-> kind, phase |-> "find", binding |-> None]

(***************************************************************************)
(* D3DX and the application.                                               *)
(***************************************************************************)
\* The hook of D3DXCreateEffect acquires a journal at once if general
\* journaling is on.
CreateEffect(t, e, a) ==
  /\ call[t] = None /\ at[e] = None
  /\ \A f \in Effect : at[f] # a
  /\ at' = [at EXCEPT ![e] = a]
  /\ \E journaled \in BOOLEAN :
       call' = IF journaled THEN [call EXCEPT ![t] = Start(e, a, "acquire")] ELSE call
  /\ UNCHANGED <<hooked, journal, boundTo, registry, cache, lastHit>>

\* A patched call site acquires; hooked entries of the vtable look the binding up.
BeginCall(t, e, kind) ==
  /\ call[t] = None /\ Live(e) /\ ~InCall(e)
  /\ kind \in {"use", "release"} => hooked[e]
  /\ call' = [call EXCEPT ![t] = Start(e, at[e], kind)]
  /\ UNCHANGED <<at, hooked, journal, boundTo, registry, cache, lastHit>>

ReleaseUnhooked(e) ==
  /\ Live(e) /\ ~InCall(e) /\ ~hooked[e]
  /\ at' = [at EXCEPT ![e] = Gone]
  /\ UNCHANGED <<hooked, journal, boundTo, registry, cache, lastHit, call>>

(***************************************************************************)
(* FindProperShadersEffectBinding.                                         *)
(***************************************************************************)
\* The last hit first, then the cache.
LocalMatch(t, a) ==
  IF lastHit[t] # None /\ boundTo[lastHit[t]] = a THEN {lastHit[t]}
  ELSE {b \in cache[t] : boundTo[b] = a}

AfterFind(t) == IF call[t].kind = "release" THEN "destroy" ELSE "use"

AfterMiss(t) == IF call[t].kind = "acquire" THEN "create" ELSE AfterFind(t)

FindLocal(t) ==
  /\ In(t, "find")
  /\ LET match == LocalMatch(t, call[t].address) IN
       \/ /\ match = {}
          /\ GoOn(t, "lookup", None)
          /\ UNCHANGED lastHit
       \/ \E b \in match :
            /\ lastHit' = [lastHit EXCEPT ![t] = b]
            /\ GoOn(t, AfterFind(t), b)
  /\ UNCHANGED <<at, hooked, journal, boundTo, registry, cache>>

\* What is pushed may not fit into memory.
Remember(t, b) ==
  /\ lastHit' = [lastHit EXCEPT ![t] = b]
  /\ \E fits \in BOOLEAN :
       cache' = IF fits THEN [cache EXCEPT ![t] = @ \cup {b}] ELSE cache

FindShared(t) ==
  /\ In(t, "lookup")
  /\ LET b == registry[call[t].address] IN
       \/ b # None /\ Remember(t, b) /\ GoOn(t, AfterFind(t), b)
       \/ b = None /\ GoOn(t, AfterMiss(t), None) /\ UNCHANGED <<cache, lastHit>>
  /\ UNCHANGED <<at, hooked, journal, boundTo, registry>>

(***************************************************************************)
(* AcquireProperShadersStateJournal, when nothing was found.               *)
(***************************************************************************)
\* There is no memory for a binding.
NoBinding(t) ==
  /\ In(t, "create")
  /\ Return(t)
  /\ UNCHANGED <<at, hooked, journal, boundTo, registry, cache, lastHit>>

\* An effect with a state manager of its own, or one that takes none, is bound
\* all the same, as unsupported.
CreateBinding(t) ==
  /\ In(t, "create")
  /\ LET e == call[t].effect IN
       /\ boundTo' = [boundTo EXCEPT ![e] = call[t].address]
       /\ \E supported \in BOOLEAN :
            journal' = IF supported THEN [journal EXCEPT ![e] = "attached"] ELSE journal
       /\ GoOn(t, "emplace", e)
  /\ UNCHANGED <<at, hooked, registry, cache, lastHit>>

\* The state manager is taken back, journal and binding are deleted.
DeleteBinding(e) ==
  /\ journal' = [journal EXCEPT ![e] = "none"]
  /\ boundTo' = [boundTo EXCEPT ![e] = None]

\* The registry may be out of memory.
Emplace(t) ==
  /\ In(t, "emplace")
  /\ LET a == call[t].address
         e == call[t].effect IN
       \/ /\ registry[a] = None
          /\ registry' = [registry EXCEPT ![a] = e]
          /\ GoOn(t, "hook", e)
          /\ UNCHANGED <<journal, boundTo>>
       \/ DeleteBinding(e) /\ Return(t) /\ UNCHANGED registry
  /\ UNCHANGED <<at, hooked, cache, lastHit>>

\* Mutant: a binding whose hooks could not be installed stays registered.
HookFailureKept(t) ==
  LET e == call[t].effect IN
    /\ DeleteBinding(e) /\ Return(t)
    /\ UNCHANGED <<hooked, registry, cache, lastHit>>

HookFailure(t) ==
  LET e == call[t].effect IN
    /\ registry' = [registry EXCEPT ![call[t].address] = None]
    /\ DeleteBinding(e) /\ Return(t)
    /\ UNCHANGED <<hooked, cache, lastHit>>

InstallHooks(t) ==
  /\ In(t, "hook")
  /\ LET e == call[t].effect IN
       \/ /\ hooked' = [hooked EXCEPT ![e] = TRUE]
          /\ Remember(t, e)
          /\ GoOn(t, "use", e)
          /\ UNCHANGED <<journal, boundTo, registry>>
       \/ HookFailure(t)
  /\ UNCHANGED <<at>>

\* The caller reads and uses the binding's journal.
EndUse(t) ==
  /\ In(t, "use")
  /\ Return(t)
  /\ UNCHANGED <<at, hooked, journal, boundTo, registry, cache, lastHit>>

(***************************************************************************)
(* HookedProperShadersRelease, for the last reference.                     *)
(***************************************************************************)
Destroy(t) ==
  /\ In(t, "destroy")
  /\ at' = [at EXCEPT ![call[t].effect] = Gone]
  /\ GoOn(t, "erase", None)
  /\ UNCHANGED <<hooked, journal, boundTo, registry, cache, lastHit>>

EraseBinding(t) ==
  /\ In(t, "erase")
  /\ registry' = [registry EXCEPT ![call[t].address] = None]
  /\ GoOn(t, "drop", registry[call[t].address])
  /\ UNCHANGED <<at, hooked, journal, boundTo, cache, lastHit>>

\* Mutant: the journal is not released.
DropJournalKept(t) ==
  /\ In(t, "drop")
  /\ LET removed == call[t].binding IN
       /\ cache' = [cache EXCEPT ![t] = @ \ {removed}]
       /\ lastHit' = IF lastHit[t] = removed THEN [lastHit EXCEPT ![t] = None] ELSE lastHit
       /\ GoOn(t, "tombstone", removed)
  /\ UNCHANGED <<at, hooked, journal, boundTo, registry>>

\* The thread's own caches, then the journal.
DropJournal(t) ==
  /\ In(t, "drop")
  /\ LET removed == call[t].binding IN
       /\ cache' = [cache EXCEPT ![t] = @ \ {removed}]
       /\ lastHit' = IF lastHit[t] = removed THEN [lastHit EXCEPT ![t] = None] ELSE lastHit
       /\ journal' = [e \in Effect |->
                        IF e = removed /\ journal[e] = "attached" THEN "released" ELSE journal[e]]
       /\ GoOn(t, "tombstone", removed)
  /\ UNCHANGED <<at, hooked, boundTo, registry>>

\* Mutant: other threads' caches are left to find the binding.
TombstoneOmitted(t) ==
  /\ In(t, "tombstone")
  /\ Return(t)
  /\ UNCHANGED <<at, hooked, journal, boundTo, registry, cache, lastHit>>

\* Mutant: a tombstone is marked instead of cleared.
TombstoneMarked(t) ==
  /\ In(t, "tombstone")
  /\ boundTo' = [e \in Effect |-> IF e = call[t].binding THEN Gone ELSE boundTo[e]]
  /\ Return(t)
  /\ UNCHANGED <<at, hooked, journal, registry, cache, lastHit>>

Tombstone(t) ==
  /\ In(t, "tombstone")
  /\ boundTo' = [e \in Effect |-> IF e = call[t].binding THEN None ELSE boundTo[e]]
  /\ Return(t)
  /\ UNCHANGED <<at, hooked, journal, registry, cache, lastHit>>

Step(t) ==
  \/ FindLocal(t) \/ FindShared(t)
  \/ NoBinding(t) \/ CreateBinding(t) \/ Emplace(t) \/ InstallHooks(t) \/ EndUse(t)
  \/ Destroy(t) \/ EraseBinding(t) \/ DropJournal(t) \/ Tombstone(t)

Next ==
  \/ \E t \in Thread :
       \/ \E e \in Effect :
            \/ \E a \in Address : CreateEffect(t, e, a)
            \/ \E kind \in Kind : BeginCall(t, e, kind)
       \/ Step(t)
  \/ \E e \in Effect : ReleaseUnhooked(e)

Spec == Init /\ [][Next]_vars

(***************************************************************************)
(* Properties.                                                             *)
(***************************************************************************)
\* A call finds the binding of its own effect, however stale the caches of its
\* thread are: the binding of an effect released on another thread is a tombstone
\* when its address is used again.  The exception is a call made while the release
\* of the address's last effect is still going on.
\* Code: FindProperShadersEffectBinding, HookedProperShadersRelease.
FindsOwnBinding ==
  [][\A t \in Thread :
       In(t, "use")' /\ ~In(t, "use") =>
         \/ call'[t].binding = call'[t].effect
         \/ \E u \in Thread : Releasing(u) /\ call[u].address = call'[t].address]_vars

\* Between calls, an effect that D3DX writes through a journal for, or whose
\* vtable is hooked, is the one registered at its address, with a journal that is
\* not released; and an effect that is gone leaves nothing but a tombstone.
\* Code: the failure paths of AcquireProperShadersStateJournal,
\* HookedProperShadersRelease.
BindingsInPlace ==
  \A e \in Effect : ~InCall(e) =>
    /\ Live(e) /\ (journal[e] = "attached" \/ hooked[e]) =>
         hooked[e] /\ registry[at[e]] = e /\ journal[e] # "released"
    /\ ~Live(e) =>
         /\ boundTo[e] = None /\ journal[e] # "attached"
         /\ \A a \in Address : registry[a] # e

(***************************************************************************)
(* The strengthening both rest on.                                         *)
(***************************************************************************)
\* D3DX makes one effect at an address and lets it have one call at a time.
OneAtATime ==
  /\ \A e, f \in Effect : Live(e) /\ at[e] = at[f] => e = f
  /\ \A t, u \in Thread :
       call[t] # None /\ call[u] # None /\ call[t].effect = call[u].effect => t = u

\* The effect of a call stays where it was, until the call releases it.
Placed(t) ==
  LET e == call[t].effect IN
    /\ at[e] = IF Releasing(t) THEN Gone ELSE call[t].address
    /\ call[t].kind \in {"use", "release"} => hooked[e]
    /\ call[t].phase \in {"create", "emplace", "hook"} =>
         call[t].kind = "acquire" /\ ~hooked[e]
    /\ call[t].phase \in {"emplace", "hook"} => boundTo[e] = call[t].address
    /\ call[t].phase \in {"destroy", "erase", "drop", "tombstone"} => call[t].kind = "release"
    /\ call[t].phase \in {"hook", "erase"} => registry[call[t].address] = e
    /\ call[t].phase \in {"drop", "tombstone"} => call[t].binding = e
    /\ call[t].phase = "tombstone" => journal[e] # "attached"

CallPlaced == \A t \in Thread : call[t] # None => Placed(t)

\* The call on e is in one of these phases.
CallIn(e, phases) ==
  \E t \in Thread : call[t] # None /\ call[t].effect = e /\ call[t].phase \in phases

ReleasedAt(e, a) ==
  \E t \in Thread : Releasing(t) /\ call[t].effect = e /\ call[t].address = a

\* A binding is found only where its effect is, or while it is being released.
BoundThere(e) ==
  boundTo[e] # None =>
    \/ at[e] = boundTo[e] /\ (hooked[e] \/ CallIn(e, {"emplace", "hook"}))
    \/ ReleasedAt(e, boundTo[e])

\* So is a journal that D3DX or a binding holds.
AttachedThere(e) ==
  journal[e] = "attached" =>
    \/ Live(e) /\ (hooked[e] \/ CallIn(e, {"emplace", "hook"}))
    \/ CallIn(e, {"erase", "drop"})

HookedThere(e) ==
  /\ Live(e) => journal[e] # "released"
  /\ Live(e) /\ hooked[e] => registry[at[e]] = e
  /\ at[e] = None => ~hooked[e] /\ journal[e] = "none"

RegisteredThere(a) ==
  registry[a] # None =>
    /\ boundTo[registry[a]] = a
    /\ \/ at[registry[a]] = a /\ (hooked[registry[a]] \/ CallIn(registry[a], {"hook"}))
       \/ CallIn(registry[a], {"erase"})

BoundPlaced == \A e \in Effect : BoundThere(e) /\ AttachedThere(e) /\ HookedThere(e)

RegistryPlaced == \A a \in Address : RegisteredThere(a)

\* Where every binding is and which call put it there.
BindingInv ==
  /\ TypeOK
  /\ OneAtATime
  /\ CallPlaced
  /\ BoundPlaced
  /\ RegistryPlaced
=============================================================================
