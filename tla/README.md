# Verification of SA.RenderStack

TLA+ models of the parts of SA.RenderStack whose correctness depends on the order
things happen in, the TLC configurations that check them on small instances, and
TLAPS proofs of the results that hold for every instance. Paths in this document are relative to
the repository; `d3d9/` is `backend/dxvk/src/d3d9/` and `bridge/` is
`src/bridge/legacy/`.

## 1. Inventory

SA.RenderStack replaces Direct3D 9 for one game. A Bridge DLL (`d3d9.dll`) loads
proxies and plugins and wraps the device; a fork of DXVK 3.0.1 renders on Vulkan
and exposes a private "GTA SA compatibility" interface that the Bridge drives.

| Component | State | Operations | Interacts with | What makes it hard | What makes it correct |
|---|---|---|---|---|---|
| Device state, state blocks, native state journal (`d3d9/d3d9_device.cpp`, `d3d9_stateblock.*`) | `m_state`, lights, `m_gtaSaStateSerial`, `m_recorder`, `m_gtaSaStateJournal`, its pooled cache, two switches | every setter, draws and targets with side effects, block create/begin/end/capture/apply, journal begin/enable/restore/discard, Reset | called by the application and the Bridge under the device lock | long legal call sequences; three readers of one state; a serial that stands for "unchanged" | a skipped Apply would have changed nothing; a restore gives back exactly what it owes |
| Vulkan pass registry (`d3d9/d3d9_gta_sa_compat.*`, `d3d9_swapchain.cpp`) | `m_passes`, `m_passCount`, two counters, two mutexes | Register, Unregister, RunVulkanPasses, OnDeviceDestroy | callbacks on the CS thread; any thread registers | a snapshot walked with the list unlocked, a count read without a lock, failures in the middle of a frame | no callback of a removed pass runs; the count is exact; priority and registration order |
| Vulkan pass host (`bridge/BridgeD3D9.cpp` 172-215, 3926-4197, 7830-7907) | passes of each plugin with their bindings, `g_vulkanHostDevices`, `suspended` | host register/unregister, attach, suspend, resume, detach, unload | drives the registry; called by plugins, by Reset, by the wrapper's destructor | holds its mutex while the backend waits for a callback | bindings match the registry; nothing bound during Reset; no freed pass is read; no deadlock |
| Effect hooks and their state journal (`bridge/BridgeD3D9.cpp`, `bridge/ProperShadersStateJournal.*`) | per effect: first-touch values with generation stamps, `m_active`, `m_nativeActive`, `m_disabled`, owning thread; what D3DX was begun with | Begin, BeginPass, CommitChanges, EndPass, End of an effect, each with its fallbacks; capture, restore, generation advance | the native journal, or its own local one; D3DX; the game between the calls | falls from native to local to D3DX's own saving in mid-effect; failures in every call; Reset discards the native half silently; 32-bit stamps | an effect puts back exactly what it found, or is never journaled again |
| Effect bindings (`bridge/BridgeD3D9.cpp` 621-672, 1110-1300, `ProperShadersEffectBindingCache.h`) | the registry from addresses to bindings; each thread's cache and last hit; a binding's journal, hooks and tombstone | find, acquire with its failure paths, hooked Release | D3DX creates and destroys effects; every hook looks its binding up | caches read without the lock on several threads; addresses used again; 40 lines between the last Release and the tombstone | a call finds its own effect's binding |
| Effect parameters (`bridge/BridgeD3D9.cpp` 1687-2095, 2281-2880) | the duplicate filters' last values; the direct context: what is seen, captured, copied | parameter writes, activation, direct submission, fallback, hand-over to D3DX | the same hooks; D3DX's own memory; Present | three holders of one value, written on different paths; fallbacks in mid-pass | a pass draws with the last values the game set |
| Deferred shader binding, input layout, view and sampler caches (`d3d9_gta_sa_deferred_binding.h`, `d3d9_device.*`) | token, valid, dirty of each stage; cached keys; dirty masks; what the context has bound | setters, release and creation of objects, draws, ProcessVertices, Reset | the CS command stream | a missed invalidation; an address used again; two masks in front of one cache | a draw uses what the state asks for at that moment |
| State and effect batches | none of their own | SubmitStateBatch and variants | setters | a batch failing half way | equal to the sequence of setters |
| State audit and status | counters | record, report | reads of the others | none that decides anything | – |
| Proxy entry, chain and claims (`bridge/BridgeD3D9.cpp`) | the proxy chain, claims by name | load, create | other DLLs | load order, re-entry | one owner for a claim |
| Device wrapper, plugin callbacks v1 | the plugin list, reference count | create, Reset, Present, destruction | every plugin | order of callbacks around Reset | callbacks see a usable device |
| State trace ring | ring, sequence | store, dump | – | – | – |
| Performance adapters and configuration | providers, settings | discover, reload | files, other modules | reload while in use | – |
| Render state guard, affinity, CPU profile | patches, samples | install, sample | the operating system | – | – |
| DXVK core; build and packaging | – | – | – | upstream or scripts | – |

The first seven rows are modelled. They carry the program's own
logic: the others are clients of them, diagnostics, or code whose behaviour is
decided by binaries that are not in the repository. The hazards of each, with the
line where each bites, are in `PROJECT.json`.

## 2. Modules

| Module | Models | Checked by | Proved in |
|---|---|---|---|
| `GtaSaStateJournal` | device state, state blocks, fast skip, journal | `state_journal`, `undefined_light` | `GtaSaStateJournal_proofs` |
| `StateJournalHistory` | the same with history variables, to say what a restore owes | the same | `StateJournalHistory_proofs` |
| `VulkanPassRegistry` | the backend's registry | `passes` | `VulkanPassRegistry_proofs` |
| `PassContract` | what the registry promises the owner of a callback (abstract) | through `RefinesContract` | through `ContractCorrect` |
| `VulkanPassHost` | the Bridge's host composed with one device's registry (EXTENDS it) | `host`, `host_order` | `VulkanPassHost_proofs` |
| `EffectJournal` | the effect hooks, their journal, the backend's selective journal and D3DX as they see it | `effects`, `effect_faults` | `EffectJournal_proofs` |
| `EffectContract` | what an effect promises the code around it (abstract) | `effects`, through `ImplementsContract` | through `ContractKept` |
| `EffectBindings` | which binding an effect's hooks find, on several threads | `effect_bindings` | `EffectBindings_proofs` |
| `EffectParameters` | parameter writes between the game, the duplicate filters, the direct context, D3DX and the device | `parameters`, `stale_duplicates` | `EffectParameters_proofs` |
| `DeviceBinding` | deferred and cached bindings, from the device's state to the context | `bindings`, `stale_instancing` | `DeviceBinding_proofs` |
| `BindingContract` | a draw uses what the state asks for (abstract) | through `ImplementsContract` | through `ContractCorrect` |
| `MCStateJournal`, `MCVulkanPass`, `MCVulkanPassHost`, `MCEffectJournal`, `MCEffectBindings`, `MCEffectParameters`, `MCDeviceBinding` | values of the constants | – | – |

Operators with a comment that begins "Mutant:" are
variants of the operator they precede with one plausible mistake. They are part of
no specification; each shows that some property would notice the mistake.

### 2.1 `GtaSaStateJournal`

A `Key` stands for one capturable slot: all scalar setters (render state, sampler,
texture, stream, shader, constants...) share the shape of `Set` - record if a
recorder is open, otherwise return early if the value is the same, otherwise
capture the old value into an open journal, write, and move the serial. What
differs between slots is which other code writes them, and that is a constant:
`UpDrawKey` (cleared by the UP draws), `TargetKey` (rewritten by
`SetRenderTarget(0)`), `ResetKey` and `ResetSetterKey` (cleared by `ResetState`
directly, and through setters that obey a recorder), `TransformKey`
(`MultiplyTransform`, never recorded), `StreamKey` (whose offset `Capture` leaves
alone, `KeepOffset`), `VertexDecl` (null is not applied by a user block).

Lights are modelled one by one since they alone can be undefined: `SetLight` and
`LightEnable` resize the vector, define lights, and are captured in two separate
bit vectors.

`m_gtaSaStateSerial` moves by one per changing call although the code may bump it several
times: a block's `lastSerial` is only compared between calls, and nothing depends
on how far it moved. It starts at 0 where the code starts at 1.

An `ApplyBlock` is one action: the device lock is held throughout. Its parts
(`AppliedKey`, `DescribedLight` then `SwitchedLight`, `AppliedCapture`) keep the
order of `ApplyOrCapture`, which matters where enabling a light after describing it
captures the light as it was before either.

Left out: hardware and CS commands, the values themselves, calls rejected before
they touch anything, the extended device's Reset (a device created with
`CreateDeviceEx`, which the game does not do). Two setters are modelled like any other although they differ:
`SetNPatchMode` is never recorded into a state block, and `SetViewport` stores a `MaxZ` above
`MinZ`, so that a viewport it clamped is not equal to the one set again. No property depends on either.

### 2.2 `VulkanPassRegistry`, `PassContract`

Any `Client` thread registers and unregisters; one CS thread records frames. A
registration is three steps because the token, the sequence and the locked
insertion are three separate atomic operations and two registrations may
cross. An unregistration has a call and a return; in between it
waits for `m_passExecutionMutex`, which the CS thread holds exactly while
`cs = "recording"`. `CheckPasses` and `TakeSnapshot` are apart because
`HasVulkanPasses` is read with no lock; the frame then walks the copy it took,
with `m_passMutex` free.

`m_passes` is a set: the vector is sorted by `Before` after each insertion, so its
order is a function of its contents.

`earlier` and `retired` are history variables: which passes were registered before
a registration began, and which were live once and no longer are.

`DestroyDevice` waits until no client has a call in progress (the last reference
is gone) but not for the presentation still in the command stream.

`PassContract` is the promise of `backend/dxvk/GTA_SA_COMPAT.md:26-31` with no mutexes, no snapshot
and no count: a callback runs only while its pass is live, one at a time; a pass
never stops being live while its callback runs, except by failing; a retired pass
never runs again. `RefinesContract` instantiates it with
`live <- Live` (tokens of enabled entries) and `running <-` the token being recorded.

Left out: descriptors the backend rejects and a disabled runtime (`m_enabled`
false), which change nothing. The 64-bit counters do not wrap.

### 2.3 `VulkanPassHost`

One wrapped device, plugins numbered in load order, the registry's only client
being the Bridge. `operation` is the holder of `g_vulkanHostMutex`: an operation
begins (attach, suspend, resume, detach, register, unregister, unload), visits its
`todo` passes in the order of the loops over `g_plugins` and `vulkanPasses`
(`VisitedBefore`), calling the registry's own steps for each, and ends. Frames,
failures and callbacks interleave with each of these steps.
`target` is the `UserData` pointer of a backend entry.

`CallbackCallsHost` is a callback that calls a host function: with
`g_inVulkanPassRecord` it is turned away before the mutex; `csWaits` is what would
happen otherwise.

Left out: several devices at once (each has its own registry; only bindings are
shared) and a device the Bridge does not wrap. For that one the Bridge attaches a host
(`bridge/BridgeD3D9.cpp:5948`) that nothing suspends or detaches, so the "passes are
unbound across Reset" of `bridge/POSTFX_CHAIN.md:165-168` does not apply; it is
listed as a hazard.

### 2.4 `EffectJournal`, `EffectContract`

D3DX effects save the whole device state at Begin. The Bridge asks them not to,
and installs a state manager that records what they overwrite: in the backend's
selective journal (section 2.1) when it is free, and slot by slot in a local journal
otherwise. Each effect has its own `ProperShadersStateJournal`; the backend has one
journal per device. `journal[e]` has the fields of the class, with the names of its
members; `fx[e]` is the ID3DXEffect, and its `mode` says how it was begun: saving by
itself, not saving because the game said so, or journaled by the hooks.

Each hook handler is one action. A handler is a chain of calls, each an operator from a
`World` (device, backend journal, this effect's journal and effect, the last
result) to the world it leaves, in the order of the code: `Begin` tries to start a
transaction and falls back to the saving Begin of D3DX (`BeginFallback`) when it
cannot; `BeginPass` of an effect whose journal failed restarts the whole effect
as a saving one (`RestartBaseline`). The depth of the capture scope (which switches
the backend's capturing on) is back to 0 between handlers and is part of no state; a scope
cannot fail in the handler that has just opened the transaction, and that branch is
left out. What D3DX does in one call is an `Attempt`: it writes some slots of the
effect's `Footprint`, the device refuses at most one more - before or after the
journal read it - and D3DX reports success or failure.

`AdvanceGeneration` is modular (`GenMod` for 2^32), with the clearing of all
stamps on the wrap. `stamp` and `captured` are two fields, as in the code: the
stamp says a slot was captured in this transaction, the captured value is what a
local restore replays. `StampsCurrent` is that they never disagree.

`Direct` effects are those hooked at their call sites; their original flags are taken to be
the saving ones. `ResetInside` and `Reentrant` are what the game may do between
Begin and End; with `ResetInside` FALSE a device is reset only between effects.
D3DX is external: it follows its own phase order (a Begin of a begun effect
fails), and is modelled by what the hooks rely on.

`EffectContract` knows neither journal nor fallback. It has the device state, the
set of open effects, what each must put back, and the set of trusted effects:
an open effect saves a slot it changes as it was before the change; closing puts
everything saved back; an effect that loses some of it is never trusted again. The
refinement maps `open` to the effects that save in either way, `saved` to what is
owed at End (`Pending`: the backend's journal, the local one, or the block of D3DX)
and `trusted` to the journals not disabled.

What the code does not promise, and the model shows by leaving the corresponding
property conditional: when the game resets the device inside an effect, the backend's journal
is gone, another effect can open a new one, and the first effect's End then
restores and closes a journal that is not its own; `OneBackendOwner` is therefore
claimed only without `ResetInside`, and so is the contract, since the Reset itself discards what an
open effect has saved. A Begin inside a Begin restores the transaction, and
D3DX stays begun in journaled mode with nothing to put back, so
`JournaledMeansActive` is claimed only without `Reentrant`; the contract holds with it, as the
transaction was replayed and the journal is disabled. And when a second thread's call of an effect
fails over to the baseline, it cannot replay a local transaction, which stays open while the effect
is idle; the next Begin then has D3DX save the state too, and its End puts back D3DX's copy while
the journal still owes its own. So the contract is claimed for one thread only, the one that renders. What is
claimed of a journal that is gone is that each loss costs a transaction its success. `CutOff` counts
the transactions that have lost theirs, and gets smaller only when a transaction ends failed and its
effect is never journaled again (`LossesReported`). Which transaction that is, is not said: if another
effect opened the journal anew after the Reset, the first End restores and closes that one unreported,
and it is the other's End, which has now lost its own, that reports. The open journal always has a
transaction that will close it (`BackendClaimed`). A transaction whose End comes from a foreign thread stays
"stranded" and is replayed at its owner's next call; until then it captures nothing
(`StrandedFrozen`).

Left out: pass-lite recording, the batching of states and of consecutive effects (all
shipped off, `config/SA.RenderStack.ini:138`), the probe and the statistics; the kinds
of state the manager distinguishes are alike. The lifetime of effects and their
bindings is section 2.6, the parameters and direct constants section 2.7.

### 2.5 `DeviceBinding`, `BindingContract`

From the device's state to what the `DxvkContext` has bound, with the options the
package ships on (`config/dxvk.conf:39`, `:46`, `:61`). Shaders are bound at the next draw: `tracker`
has for each stage the token last bound (`Unknown` when not valid) and whether it is
dirty; `Resolve` skips the bind when the desired token is already bound. The input
layout, each slot's view and each slot's sampler are bound when their dirty flag or
bit is set, unless their key is the cached one.

`Desired`, `LayoutKey`, `View` and `SamplerKey` are what the state asks for;
`context` is what is bound. The `context` fields are assigned only where the code
emits a command; a command acts at once, since the CS queue keeps order. The
application's calls are the setters with the early returns and the marks of the code,
`SetLOD` of a texture bound anywhere, the draws (any set of slots may be used by the
shaders), `ProcessVertices` (which binds a shader of its own and must invalidate the
tracker after it), and the two parts of Reset.

Shaders and declarations are objects at an address. `CreateShader` and
`CreateVertexDeclaration` put new contents at an address that neither the state nor the
input layout cache holds, which is what the reference held by each buys; the tracker holds
no reference, and is compared by module: the device caches shader modules, so one token
is one code. Textures and views are held by the reference in the state.

`BindingContract` has only `drawn`: each draw uses the pipeline and the resources the
state asks for at that call. The layout it speaks of has elements,
signature and step rates; the mask of instanced streams is deliberately not in it,
see 5.3. Sampler comparison mode follows the texture itself there (`Resource`), and
the slot mask `depth` in the code.

Left out: recording (calls are made while no state block is recorded; see the hazard at
`d3d9/d3d9_device.cpp:10283`), the extended device's `ResetEx` beyond its invalidation of the
shaders, the mip-mapped variant of a sampler key (a mip chain is treated like a cube map),
batches of binds, scalar state deferral and push data. `SetLOD` is one step, although it stores the level and
makes the view before it takes the lock to mark the binding dirty (`d3d9/d3d9_texture.h:65-67`).

### 2.6 `EffectBindings`

Effects are created, used and released on any thread; each hook first asks
`FindProperShadersEffectBinding` for the effect's binding, and an optimized call site acquires
one. A call is a record that goes through the `phase`s the code goes
through with no lock held in between: "find" in the thread's last hit and cache, "lookup" under the
registry's lock, "create", "emplace" and "hook" of an acquisition (each may fail, and then
takes back what was done), and "use", where the caller has a binding or none. A
release of the last reference is "destroy" (D3DX frees the effect, and the address may
be used again from here on), "erase" from the registry, "drop" from the thread's own
caches together with the journal, and "tombstone" (`binding->effect = nullptr`, which is how
the caches of other threads are told). `boundTo` is that field; a binding is named by
the effect it was made for, since bindings are never deleted once registered.

D3DX is external. It is taken to allow one call on an effect at a time, as D3DX effects
are not free-threaded, and to use addresses again. So an acquisition never meets a
binding another thread has just inserted for the same effect, and that branch
(`!inserted`) cannot be reached but by a stale entry, which `FindsOwnBinding` is about.

Left out: a Release that is not the last, which changes nothing; the reset of the
direct and batch contexts by a release inside a pass; the plans of the generic direct
path (off).

### 2.7 `EffectParameters`

One effect and its parameters. `value` is what D3DX holds, `dirty` what it has yet to
apply, `device` what the pass draws with, `cache` the duplicate filters
(`g_properShadersMatrixCaches`, `...ParameterCaches`), and `context`
`g_properShadersDirectContext` while it is active. A value on the device stands for
all the registers and stages computed from it. How a parameter is written follows
from the sets it is in: `Held` ones are captured by the direct context and do not
reach D3DX (`Capture`); `Copied` ones are written to D3DX and copied (the base texture,
the ambient light); `Required` ones have a `DirectSeen` bit; `Filtered` ones have call
sites that drop duplicates; `Matrix` ones keep their filter until `Present`, the others
until the end of the transaction. `filtered` and `direct` are the settings
(`SkipDuplicateMatrices`, `SkipDuplicateParameters`, `DirectConstants`), chosen in `Init`.

`Write` and `SkipDuplicate` are the two ways past the filter, and `WriteOther` the same call
site writing another effect's parameter, which takes the one entry. `CommitChanges`
submits directly when everything required has been seen since the last submission;
otherwise it hands what is captured to D3DX (`CloseContext`) and lets D3DX apply
what is dirty; or any of its calls fails and the pass is begun again without the
journal (`RestartBaselinePass`), where the new `Begin` or `BeginPass` may fail too. `End`
hands over as well. Activation is a choice: whether technique, handles and shader
hashes are the expected ones is not modelled.

`intended` and `missed` are history variables: the last value the game set, and the
parameters whose last write a filter dropped although D3DX held another value.

D3DX is external: BeginPass applies every parameter, CommitChanges those written
since. Its setters, called with handles it has resolved, do not fail. A technique
submitted directly has one pass (`techniqueDesc.Passes != 1` refuses others),
which the game begins once in a Begin, and one effect is begun at a time; see the notes in section 5
for what the code does otherwise. Left out: the register layouts of the four profiles, and the registers read back at
activation, which no parameter writes.

## 3. Runs

| Run | What it asks | Instance | Why it is enough |
|---|---|---|---|
| `state_journal` | a skipped Apply misses at most an undefined light; full and selective restores are exact; the fast skip's inductive invariant | a declaration, a stream, the viewport and a transform as slots, one light, undefined at first, one block, serial up to 4; `OneGroup` explores declaration and stream, viewport and transform, or the light, with the others as they were at first, and one step beyond | the slot `Apply` treats specially and the one draws, resets and `Capture` do; the viewport rewritten by targets; slots and lights interact only through the serial, the recorder and the journal, so mixtures of groups add nothing (`SkipMisses` is proved for all of them); four serial moves suffice for apply, change, change back and a second journal from the pool |
| `undefined_light` | FINDING: see 5.1 | a transform and one light, undefined at first, serial up to 3 | – |
| `passes` | count, order, invariant, contract; every live pass is recorded and every unregistration returns | two threads, three registrations, two priorities; no symmetry, since liveness is checked | two crossing registrations and a third pass that is already there, one failing while another waits; the safety part is proved in general |
| `host` | bindings, Reset, freed passes; operations end | two plugins, three passes of one priority, five backend registrations | a Reset and a rebind of every pass with a pass to spare |
| `host_order` | FINDING: see 5.2 | the same with six backend registrations | – |
| `effects` | an effect puts back what it found or is not journaled again (`ImplementsContract`); one effect has the backend's journal | two effects, one hooked in the vtable, one at call sites, sharing one slot, one of them with a second slot of its own, two values, one thread, generation modulo 2 | two effects compete for one backend journal; two values tell an old capture from a new one; with modulus 2 every second transaction wraps |
| `effect_faults` | stamps across wraps, stranded transactions, the backend's journal lost, opened anew and never orphaned | two effects, two threads, one slot, generation modulo 3, Reset and Begin inside an effect | a foreign End, a Reset and a second effect's journal in every order; the stamps are proved for every width and any number of slots |
| `effect_bindings` | a call finds its own effect's binding; failures leave nothing half done; the inductive invariant | two threads, three effects, two addresses, all interchangeable | an address used twice while two threads hold stale entries, and a third effect beside; proved for any number |
| `parameters` | captured values are never lost; a commit draws with the last values set; a wrong drop takes filters and direct constants together; the inductive invariant | a held matrix and a held vector, a copied parameter that is required and one that is not, one left to D3DX; two interchangeable values; both filters on; `Followed` lets at most one held filter remember, and follows what is left to D3DX while its pass lasts | every kind of parameter, every order of writes, submissions, fallbacks and restarts; filters do not read each other; proved for any parameters and settings. That direct constants without filters are exact is proved only (`EitherAloneExact`) |
| `stale_duplicates` | FINDING: see 5.4 | the same | – |
| `bindings` | the deferred shaders, the input layout cache and the view and sampler caches are invisible to draws | a shader of each stage, two declarations, one stream, two codes; one slot, three textures (cube, depth, plain), two sampler states (one with border color), two levels of detail; `OneSide` explores shaders and layout, or textures and samplers, with the other side as it was at first, and one step beyond | a shader released and created again at its address with other code; pretransformed vertices turn the vertex shader off; every part of a sampler key changes; the sides share no variable but the context's validity after Reset and ProcessVertices, and all mixtures and numbers of slots are proved |
| `stale_instancing` | FINDING: see 5.3 | the shader side of `bindings`, with two streams | – |

`MaxSerial`, `MaxToken` and `MaxPass` bound behaviours, not states: a guard stops
the next serial move or registration. `TokensLeft` stops the host from beginning
something whose registrations would not all fit, so that no operation is stuck
because of the bound. In the pass runs deadlock is allowed because after the
device is destroyed (and all plugins unloaded) nothing is left to do, and in
`effect_bindings` because nothing is left when every effect has been released. The models of
effects and bindings have no bound besides their constants. A state outside `OneGroup`,
`OneSide` or `Followed` is checked, and explored no further.

What the properties say, each against a hazard:

- `SkipMissesUndefinedOnly`: whatever setters, side effects, captures, restores and resets
  came between, an Apply that the serial lets pass would have changed nothing, but for
  lights that a restore has undefined. `FastSkipSound` is the same with no exception,
  which the code's comment claims; see 5.1.
- `FullRestoreExact`, `SelectiveRestoreExact`: action properties of
  `RestoreStateJournal`. A full journal gives every slot and light back as it was
  at begin, except slots a UP draw or a target change wrote past the journal before
  a journaled call changed them (the code does not capture those; a slot that was
  captured before is given back whatever the draw did to it); a selective one gives a slot back as it was before
  the first change made while capture was on, and leaves the others.
- `CountExact`, `OrderKept`, `RefinesContract`, `LivePassRecorded`,
  `UnregisterCompletes`: for the registry, see the comments at their definitions.
- `RecordsLivePass`, `QuietReset`, `BindingsExact`, `OperationCompletes`: for the
  host.
- `ImplementsContract` (effects), `JournaledMeansActive`, `OneBackendOwner`,
  `StampsCurrent`, `StrandedFrozen`, `LossesReported`, `BackendClaimed`: for the effect hooks.
- `FindsOwnBinding`: a call finds the binding of its own effect, unless the last
  effect at that address is still being released; `BindingsInPlace`: no failure leaves
  half a binding behind.
- `CommitApplies`: after CommitChanges a pass draws with the last value set of each
  parameter. Excepted are what a filter dropped wrongly and what D3DX has yet to apply because
  a direct submission went past it. `WritesKept`: outside a direct
  context D3DX knows all writes not dropped, so no hand-over loses one.
  `MissesNeedBoth`: a wrong drop needs a parameter both filtered and held, with
  direct constants on. `SkipsOnlyDuplicates`: there is none, as documented; see 5.4.
- `ImplementsContract` (bindings): for draws. `BindingsCurrent` is its inductive
  invariant: what is not dirty is bound, what a cache believes bound is bound.
- `PassInv`, `FastSkipInv`, `HostInv`, `BindingInv`, `ParamInv`: the inductive invariants the proofs use, checked first.
  In `state_journal` the light is undefined at first, so the part of `FastSkipInv` that assumes
  `LightsDefined` says nothing there and is proved only.

### Fairness

Only `passes` (`FairSpec`) and `host` (`HostFairSpec`) use it, and only for this:

- weak fairness of `RunVulkanPasses` (and `CsThread`): the game keeps presenting
  and callbacks return. A callback that never returns blocks unregistration in the
  code too;
- weak fairness of the steps of a registration or host operation already begun: a
  running thread goes on;
- strong fairness of `UnregisterReturn` (`Unbind`): a thread waiting on
  `m_passExecutionMutex`, which the CS thread releases at the end of each frame,
  gets it if it is free again and again. `std::mutex` does not promise this; it is
  an assumption on the platform's lock, and without it a CS thread that
  takes the lock again in time starves the caller for ever.

Nothing is assumed of applications, plugins or Reset: requests need never come. The
effect hooks, their bindings and parameters, and the device's bindings are called, never run by themselves: they have
nothing that must eventually happen.

## 4. Proofs

All proofs are for arbitrary constants under the named assumptions of each module
(`KeyAssumption`, `LightAssumption`, `PriorityAssumption`...), which say no more
than what the sets are. `MaxSerial` and `MaxToken` may be any natural number.

**`GtaSaStateJournal_proofs`**: `TypeCorrect` (`Spec => []TypeOK`),
`FastSkipInductive` (`Spec => []FastSkipInv`) and from it
`FastSkipCorrect` (`LightsDefined => (Spec => []FastSkipSound)`), and `Exclusive`
(a recorder and a journal are never open together). `FastSkipSound` alone is not
inductive. Three facts must be added: no block remembers a serial the device has
yet to reach (`SerialsPast`), so that a serial that moves cannot meet a remembered
one; recorder and journal exclude one another, so that no
setter is swallowed by a recorder after a journal took its capture; and, once all
lights are defined, no journal holds an undefined one (`LightsStayDefined`, with
`RecordersFresh` for the pooled object), since restoring an undefined light is the
one write that does not move the serial (5.1). The proof then has one lemma per
action: the action either moves the serial, which no block can match, or leaves
every slot and light as it was.

`SkipMisses` (`Spec => []SkipMissesUndefinedOnly`) needs no hypothesis: as long as a
block's serial matches, every step leaves the slots alone and can only undefine lights
(`StillMisses`, `MissesStep`).

The hypothesis `LightsDefined` of `FastSkipCorrect` - the application defines every light it uses
before it opens a journal - is necessary: `undefined_light` shows what happens
without it.

**`StateJournalHistory_proofs`**: `FullRestore` (`HSpec => FullRestoreExact`) and
`SelectiveRestore` (`HSpec => SelectiveRestoreExact`), with no hypothesis on what the
application does. `HistoryRefines` (`HSpec => Spec`) says the history variables
restrict nothing, so what is proved of the device may be used here. `RestoreInductive`
(`HSpec => []RestoreInv`) relates three tellings of the past: the journal's
captures, the history, and the device as it is. For slots:
the journal knows each slot from its first journaled change on, with the value it had
then (`TouchedCaptured`), and under a full journal a slot it does not know still has its
value from the beginning (`SlotsRestorable`). For lights the same holds field by field
(`LightRestorable`), because the definition and the switch of a light are captured in
two bit vectors at different moments, and `LightEnable` of an undefined light both defines and
switches it. Two more facts are needed: a light outside the vector is undefined, and an undefined
light is a default light that is off (`DeviceLights`), or restoring one would not give
back what was there; and a pooled journal object claims nothing (`PoolEmpty`), or
a new transaction would begin with the slots of an old one. `JournalExclusive` is
needed as well: a recorder open during a restore would swallow it.

**`VulkanPassRegistry_proofs`**: `TypeCorrect`, `PassInvInductive` (`Spec => []PassInv`),
`CountCorrect`, `OrderCorrect`, `ContractCorrect`. `PassInv` adds to `CountExact`
that tokens and sequences identify entries (`EntriesDistinct`), that an entry not
yet inserted clashes with none (`PendingFresh`), that what is left of a frame's
snapshot is still registered and enabled (`FrameLive` - this is what the execution
mutex buys), and that an earlier registration has a smaller sequence
(`EarlierSmaller`). `OrderCorrect` follows from the last two, `ContractCorrect`
from `FrameLive` for `Run` and from `EntriesDistinct` for "retired stays retired",
with one step of the refinement per action.

**`VulkanPassHost_proofs`**: `HostInvInductive` (`HostSpec => []HostInv`), and from it
`HostTypeCorrect`, `RecordsLivePassAlways`, `ResetIsQuiet` and `BindingsAlwaysExact`.
`HostInv` says what holds in the middle of an operation: passes have their own
bridge token and binding (`PassesDistinct`), the backend's entries and the bindings
name each other and an entry's `UserData` is the pass bound to it (`EntriesBound`),
which passes are bound at this point of the loop (`BoundSoFar`), the pending call is
about the pass whose turn it is (`CallInTurn`), and how device and operation go together
(`DeviceAttached`, `TodoGone`). `HostImplementsRegistry` (`HostSpec => Spec`) comes first: every host
step is a registry step or leaves the registry alone, so the registry's invariants hold here too.
`RecordsLivePass` then follows from `FrameLive` and `EntriesBound`, `QuietReset` from
`BoundSoFar`, and `BindingsExact` from the one-to-one match of bound passes and
entries. The proof assumes of the operation's `None` only that it is no operation
(`OperationAssumption`).

**`EffectJournal_proofs`**. The handlers are compositions of calls, and so are the
proofs: one lemma per call and per kind of fact, which the lemma of a handler chains.
The calls are followed three times.

First for soundness: `TypeCorrect`, `StampsAlwaysCurrent`, and `OneOwner`
(which assumes `~ResetInside`, see 2.4). An effect's world is `Ready` when stamps and captures agree and
no stamp is from a generation yet to come (`Stamped`), and the backend's journal is owned by at
most one effect (`Owns`, `Sound`); the wrap of the generation is a lemma of its own
(`AdvanceFresh`). The invariant `IInv` says that the world each effect would
see is `Ready`, given the others.

Then for what a broken transaction carries from call to call (`Carries`): a disabled
journal stays disabled, opens nothing and captures nothing more; a lost transaction stays
lost or ends reported (`Lost`); no effect gives up the backend's journal and leaves it open
(`Foreign`); D3DX has saved its footprint exactly when it saves by itself
(`FxSound`). Every step of the specification is a chain of such calls of one effect, or leaves journals
and effects alone (`NextMoved`), which gives the action properties `StrandedStayFrozen`
(`Spec => StrandedFrozen`) and the invariant `BackendAlwaysClaimed` (`Spec => []BackendClaimed`) with no
hypothesis at all, `LossesAlwaysReported` (`Spec => LossesReported`) for finitely many effects, since
the losses are counted, and, with `JInv` for invariant, `JournaledAlwaysActive`
(`Spec => []JournaledMeansActive`, assuming `~ResetInside` and `~Reentrant`).

Last for what the effect owes: `Pend` is what End would put back of the world a call
finds, `Undone` a slot once that is put back. A call within an open effect leaves `Undone`
as it was and forgets nothing (`Keeps`), stays within the effect's footprint and out
of another's backend journal (`Confined`), and leaves a world in which the next call can
do the same (`Fit`: an open journal is the calling thread's and not disabled). A handler then
keeps what is owed, puts it back or disables the journal, or begins to owe nothing
(`Answers`, `Promised`); in the invariant, `CInv`, a transaction is also open only
while D3DX runs under it (`Kempt`), since a Begin would otherwise find one and restore it.
`ContractKept` (`Spec => ImplementsContract`) is the
refinement, assuming one thread and `~ResetInside`; a counterexample to either
is described in 2.4. The game may begin an effect again. The contract's
`Write` would let an effect change the device without a word, as it must for an effect that saves nothing,
so the refinement alone does not say whose writes are saved; `HandlersAnswer` does:
each handler of an effect is the contract's Open, Draw, Close or Lose of that effect
whenever the effect saves before or after it.

**`EffectBindings_proofs`**: `BindingInvInductive` (`Spec => []BindingInv`), and from it
`TypeCorrect`, `BindingsAlwaysInPlace` and `FindsOwnBindingAlways`. `BindingInv` says
that D3DX keeps its promises (`OneAtATime`), that what a call in progress has done
so far agrees with its phase (`CallPlaced`), that a binding, a journal or a hook is where
its effect lives or in the hands of the call that is making or releasing it
(`BoundPlaced`), and that the registry has at an address the effect that lives there, or
one being released (`RegistryPlaced`). The caches need no invariant of their own: a
binding found in one matches by `boundTo`, and `BoundThere` says what that means. One
lemma per action (`...Keeps`). Assumed: `None` and `Gone` are no addresses, effects or calls
(`BindingsAssumption`, `CallAssumption`).

**`EffectParameters_proofs`**: `ParamInvAlways` (`Spec => []ParamInv`), and from it
`TypeCorrect`, `WritesAlwaysKept`, `EitherAloneExact` and `CommitAlwaysApplies`. `ParamInv` says that a
context lives in a journaled transaction and has a value for all it claims to have
captured (`ContextSound`), that a filter remembers what D3DX holds unless the context
may have written behind it (`CachesSound`), that the next submission of a
parameter, by either path, would use the last value set (`EffectiveIntended`), and that the device
shows what D3DX holds, except what is dirty or captured (`DeviceApplied`). `Closed` and
`ClosedInv` are the hand-over, which restart, fallback and End share; `DirectlyApplied` and
`D3dxApplied` the two ways a commit reaches the device. Assumed: `ParamAssumption` (how the kinds of
parameters overlap, read from the code) and that `None` is no context.

**`DeviceBinding_proofs`**: `TypeCorrect`, `BindingsAlwaysCurrent`
(`Spec => []BindingsCurrent`) and `ContractCorrect`
(`Spec => ImplementsContract`). `BindingsCurrent` is inductive with the type
invariant. It rests on `BindingAssumption` and `CacheAssumption`, which say that the sentinels
are no real objects. The setters keep it because whatever changes a desired
binding marks it (`SetTextureMarks`, `OtherSettersMark`, `SettersKeepShaders`); releasing and
creating objects because nothing cached is at the reused address
(`ObjectsKeepBindings`); draws because they resolve what is dirty
(`ShadersResolved`, `LayoutResolved`, `ViewsResolved`, `SamplersResolved`). Those four lemmas also give the
refinement: after resolving, what is bound is what is asked for.

Model-checked only: liveness (`LivePassRecorded`, `UnregisterCompletes`,
`OperationCompletes`), which needs fairness and ENABLED and is out of the prover's reach.
All invariants and all other action properties of the passing runs are proved,
the conditional ones under the hypotheses named above.

## 5. Where code and documents disagree

**5.1 A restore undefines a light behind the fast skip's back**
(`d3d9/d3d9_device.cpp:3497`). `RestoreGtaSaUndefinedLight` puts a light back to
undefined without `NotifyGtaSaStateChanged`. Run `undefined_light`: a light no one
defined is captured by a journal when the application defines it, without enabling it; a state
block that holds it so, defined but not enabled, is
applied inside the transaction; the restore undefines the light; if nothing else
the restore does moves the serial, the next Apply of the block is skipped although
it would define the light again. A light that was enabled too escapes this: the journal
captured the enable, and the `LightEnable(FALSE)` of its restore
(`d3d9/d3d9_stateblock.h:619-636`) moves the serial. `d3d9/d3d9_options.h:180-181` promises a skip
only "when neither the device logical state nor the state block contents changed
since its previous Apply". An application that defines its lights first cannot
meet this (`FastSkipCorrect`).

**5.2 Rebinding forgets registration order** (`bridge/BridgeD3D9.cpp:4081`, and
4044). Attaching and resuming a host register every pass again, plugin by plugin, and the
registry orders equal priorities by its own sequence. So once a device is created
or reset, an early registration of a late plugin runs after a late registration of
an early plugin. `bridge/POSTFX_CHAIN.md:162-163` and `config/SA.RenderStack.ini:355`
say equal priorities keep their registration order. Within one device's registry
they do (`OrderCorrect`).

**5.3 A Reset forgets which streams are instanced, halfway**
(`d3d9/d3d9_device.cpp:10280`). `ResetState` makes every stream vertex data
again in `m_state.streamFreq`, but leaves `m_vbSlotTracking.instanced`, which only
`SetStreamSourceFreq` clears, and that returns early when the setting is already
the same. Run `stale_instancing`: stream 1 is made instance data, the device is reset, stream
0 is given a count of 2; `GetInstanceCount` (8549) looks at the mask and answers 2, so an indexed draw
whose declaration reads stream 1 is made twice. `d3d9/d3d9_device.cpp:3843-3844` says "If instancing
is disabled, we don't need to do anything because any calls to
GetInstanceCount will have returned 1 anyway."

**5.4 The duplicate filters do not know what direct constants wrote**
(`bridge/BridgeD3D9.cpp:1832`). A captured write returns before the filter
is told (1820-1822), and the hand-over to D3DX calls D3DX's own setters behind the
filters (2367-2429). Run `stale_duplicates`: a matrix is written and remembered,
a pass is begun and activates direct constants, another value is captured, CommitChanges falls
back because not all parameters have been seen and hands that value to D3DX, and the first
value, written again, is dropped as a duplicate while D3DX holds the second. For
matrices this lasts until Present, for vectors and arrays until End.
`config/SA.RenderStack.ini:139` and `:146` promise to skip byte-identical writes;
either option alone keeps that (`EitherAloneExact`), and both are shipped on (`:145-150`). The
call sites in the table at `bridge/BridgeD3D9.cpp:3284-3316` write the same matrices before a
Begin (`WorldViewProjection-B`) and within a pass (`WorldViewProjection`); which of these
happen to one effect in one frame is decided by a binary that is not here.

Also seen: a pass the backend disabled after a failure is enabled again by the
next Reset, as rebinding makes a new entry. And, read in the code only: a Reset
while a state block is recorded lets the recorder take the `SetStateTexture(i, nullptr)` of
`d3d9/d3d9_device.cpp:10283` while the context's textures are unbound and their dirty
bits cleared. In the hooks: between the last Release of an effect and the tombstone
(`bridge/BridgeD3D9.cpp:1252-1295`) another thread that creates an effect at the freed address
finds the dead binding and its journal, though 1292-1293 says tombstones avoid a
cross-thread use after free - `FindsOwnBinding` names this as its exception. `ActivateProperShadersDirectConstants`
(2284) and `End` (2832) reset the thread's context whatever effect it belongs to, so a
second BeginPass in a Begin, or an effect inside another's pass, would lose captured values.
The packed texture is waited for (`DirectSeenPackedTexture`) but never submitted directly: like
every parameter left to D3DX it reaches the device at the next fallback or BeginPass only,
which is the second exception of `CommitApplies`.

## 6. Plan

1. `GtaSaStateJournal`, `StateJournalHistory` - done, fast skip and both restores proved.
2. `VulkanPassRegistry`, `PassContract`, `VulkanPassHost` - modelled and proved.
3. `EffectJournal`, `EffectContract` - modelled and proved.
4. `DeviceBinding`, `BindingContract` - modelled; the refinement proved.
5. `EffectBindings`, `EffectParameters` - modelled and proved.
6. Left: the host with several devices.
7. Left: the recorder composed with the bindings, for the Reset of 5.3's last note.

## 7. Not modelled

- State and effect batches of the backend call the setters in order under one lock and stop
  at the first failure; any behaviour of theirs is one of `GtaSaStateJournal`.
- The audit, the compatibility status and the trace ring are written and logged, and
  decide nothing.
- Pass-lite recording, the generic direct path and the batching of consecutive effects are
  shipped off, and coalesce calls of a binary that is not in the repository. The
  inspector draws and reads; it changes no effect's protocol.
- Proxies and claims are chosen once, by name, on one thread while loading.
- Performance adapters poll files and call into modules outside the repository; the render state
  guard patches machine code of a binary outside it; affinity and profiling are
  calls to the operating system. None has a protocol of its own in this code.
- DXVK's core is upstream; its CS thread appears as the actor that records a frame and as a queue
  that keeps order.
- Rendering itself, the values of states, logging, build and packaging.
