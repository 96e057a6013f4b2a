# A TLA+ development for HD-Elastos

HD-Elastos stacks three layers: `zener/` (the seL4 kernel and its libraries),
`mantle/` (drivers, file systems, network stacks and a linker, mostly RT-Thread,
lwIP and bionic code) and `crust/`, the Elastos CAR runtime. The first two are
vendored; the project's own logic is the runtime, about 46 000 lines under
`crust/Runtime`, and that is what this development is about.

## Inventory

| Part | State it keeps | Operations | What is hard | Modelled |
|---|---|---|---|---|
| Reference counting: `ElRefBase`, `WeakReferenceImpl` (`Library/eltypes/elrefbase`, `Library/elasys/elaatomics.cpp`) | per object: `mStrong`, `mWeak`, `mFlags`, the object and its `WeakRefImpl` | `AddRef`, `Release`, `ForceIncStrong`, `CreateWeak`, `IncWeak`/`DecWeak`, `Resolve` (`AttemptIncStrong`), `AttemptIncWeak`, `ExtendObjectLifetime`, destructor | lock-free counters used by every thread; two objects freed by whoever is last | `ElRefBase`, `ObjectLifetime`, `ElRefBaseProofs` |
| Callback events: `CCallbackContext` (`Core/carapi/CCallbackContext.cpp`, `cbapi.cpp`, `CarCallbackEvent` in `Core/inc/callback.h`) | the queue, `mCurrentEvents`, `mEventsCount`, two semaphores, exit flags; per event status, semaphore, count | post, post at a time, send with timeout, four cancels, `RequestToFinish`, the handler loop, destruction | flags read and written outside the lock, unlock-sleep-relock, timeouts racing completion, lost wake-ups | `CallbackContext`, `CallbackContextProofs` |
| Service registry: `ServiceManager` (`Core/marshal/seL4`) | name table, death recipients | add, get, remove, list, death notice | late death notices, weakly held recipients | `ServiceManager`, `ServiceManagerProofs` |
| Its clients: `CServiceManager` (`ServiceManagerClient.cpp`) | a cache of services | pack a transaction, fill the cache | the cache is never invalidated, by design | no (nothing to claim) |
| Marshalling over binder: `RegisterObjectTable.cpp`, `proxy.cpp`, `stub.cpp`, `android_linux/imarshal.cpp` | import and export tables, proxies, stubs | marshal, unmarshal, register, find, unregister, RELEASE | lookups racing the last release, on both sides | `Marshal`, `MarshalProofs` |
| Marshalling over sockets: `Core/marshal/linux_rpc` | a proxy's connection, lock, ping task and death recipients; the server's connections and workers; tables as above | call, connect, ping, link, unlink, accept, transact, RELEASE | a connection shared without a lock at its creation, replies without a name, timeouts, the death of the server, lookups racing the last release | `RpcChannel`, `RpcObjects`, `RpcChannelProofs`, `RpcObjectsProofs` |
| Component modules: `Core/carapi/locmod.cpp`, `Core/libusr/lib4car` | list of loaded modules with ask counts; per module `g_dllLockCount` | acquire class object, create and release objects, `StayResident`, unload unused modules | load outside the lock, unload while a class object is being asked for | `LocalModule`, `LocalModuleProofs` |
| Delegates: `DelegateContainer`, `CallbackContextContainer` in `callback.h` | per-object lists of delegates and contexts | add, remove, fire | removal while firing | no (generated code uses it) |
| `elapi.cpp`: thread slots, rendezvous | thread-local slots | start-up, wait | little | no |
| Reflection, strings, containers | metadata views, sequential data | queries | sequential | no |
| Zener kernel, Mantle | - | - | vendored | no |

How the parts interact. Every CAR object is an `ElRefBase`; `AutoPtr` and
`IWeakReference` are the handles of `ElRefBase.tla`. The proxies and stubs of
the marshalling layer override `OnLastStrongRef` to tell the other side, which is
why the number and the order of the hook's calls matter. A
callback event holds its sender through an `AutoPtr`, is counted itself by
`CarCallbackEvent::AddRef`/`Release`, and travels from the posting thread to the
handler's through the queue. A service reaches other processes through
`CServiceManager`, which marshals it and leaves it with the manager's table.

What makes each part correct. *Reference counting*: nobody reaches a freed
object or a freed `WeakRefImpl`, neither leaks, the hooks are called once, and a
dead object is not brought back. *Callbacks*: an event's references and the
event count are exact, the queue is ordered, a sender is told the truth, a
cancelled callback does not run, wake-ups are not lost, a finish takes effect.
*Registry*: every entry is watched, dead services leave, running ones stay.
*Marshalling*: who has a binder reaches a live stub, who holds a proxy holds a live
one, no lookup reaches into what was deleted. *Sockets*: a call gets its own answer,
a recipient hears of a death once and does hear of it. *Modules*: code in use is
mapped, every load is undone once, a walk over the list ends.

## Modules

### ElRefBase, ObjectLifetime

`ElRefBase.tla` models one object and a set `Ref` of handles (one `AutoPtr` or
one `WeakReferenceImpl` each). `pc[h]` is the operation in progress on `h`, and
every atomic access to a counter is a step: `IncStrong` (the weak count),
`IncStrongCount`, `FirstAdd` (the subtraction of `INITIAL_STRONG_VALUE`) and
`OnFirstRef` are the four parts of `ElRefBase::IncStrong`. `src[h]` is
the handle an operation copies, which C++ keeps held until the copy is made;
`raw` is the pointer `new` gave the creator, good for one first handle.
`ForceIncStrong` takes a weak handle as its source only when the lifetime was
extended, because that is the only case in which it may be called so.
`cur[h]` is `curCount`. `firstCalls` and `lastCalls` are history.

Two constants select the build and the use: `AtomicAdd` is TRUE where
`elaatomics.cpp` maps `atomic_add` and `atomic_or` to Android's and FALSE where they
return -1 and do nothing; `WeakFromRaw` lets the creator hand out a weak handle
before the first strong one.

`ObjectLifetime.tla` is what a holder of `AutoPtr`s is promised: the object is
there while somebody holds it, is destroyed once, and nobody acquires it again
after the last holder let go, unless its lifetime was extended. `ElRefBase`
implements it (property `ImplementsLifetime`, with the refinement mapping given at
`Lifetime`).

### CallbackContext

One `CCallbackContext`, one client thread per event and one handler thread. A
critical section of `mQueueLock` is one step; what happens outside it is split:
the `sem_post` after a post (`NotifyThread`), the sender's wait, its look at the
status, its `mStatus = Cancelled` and its release (`WaitSyncEvent`, `ReadStatus`,
`MarkCancelled`, `ReleaseEvent`), the three writes of `RequestToFinish`,
`CancelCallbackEvents` between its unlock and its `trylock`, and the handler's loop from
`CheckExit` to `PopEvent`. The handler keeps the lock between `CheckExit` and
`LookAtQueue` (`QueueUnlocked`), but the exit flags may change in between, since
`RequestToFinish` does not take it.

Time is in milliseconds. `When` keeps the conversion of `cbapi.cpp:105`: a post is
due now or, rounded up, in the next millisecond, while `GetEvent` rounds down; the time was
read before the lock was taken, so it may also have passed. `ReadWhen`
is the read of `mWhen` after the unlock; if the event has been freed, the sleep is arbitrary.
`list` records what becomes of the intrusive list when `GetEvent` detaches
its head: posts hang off `mCurrentEvents`, cancels do not terminate, and neither does the post of a
`Duplicated` event, whose walk over the list (198) has no end; it keeps the lock.

`DestroyContext` is the destructor. It comes only when nobody can reach the context: a client
in a call, a sender asleep among them, got there through a container that holds an `AutoPtr` to
it (`callback.h:513`).

`Sync`, `Timed`, `Delayed`, `Duplicated`, `Coalescing` and `Dying` say which events
are sent, may time out, are posted at a time, supersede their like, have a
coalesce function (whose verdict is any), and may find their receiver gone.

Simplifications: the callback itself returns and does not call back into the
context; `CancelCallbackEvents` is called from other threads than the handler's (in
the handler's own, its `trylock` of a recursive mutex always succeeds); the clock
does not go back; the caller of a send holds its own reference to the event
during the call, as the generated code does.

### ServiceManager

The manager's table and death recipients and the processes behind the registered
binders. A transaction is one step: the manager handles one at a time. A registration is
taken to arrive while its binder lives: what happens otherwise, the manager ignoring that
`linkToDeath` fails (84), is listed among the hazards. Binder is external and taken from how the code uses it: a linked
recipient, held weakly, hears of a death once, at any time after it. `owner` is
history: who registered last under a name, and was not removed.

### Marshal

One object of an owner process, used by the threads of a user process. `stub` and
`exports` are the owner's, `ownerLock`, `entry` and `toAsk` are the lookup it makes, and the rest is the
user's. `Marshal`, `AskEntry` and `CreateStub` are `StdMarshalInterface` for the answer to a call: the lookup
goes from entry to entry (`entry`, with those in `toAsk` to follow), takes the first whose count it can
increment, or makes a stub. The owner's `g_marshalLock` is held by `ownerLock` throughout, `g_exportTableLock`
while there is an `entry`. `FindImport` and
`CreateProxy` are the two halves of `StdUnmarshalInterface`: `marshalLock` is kept between
them, because the second may transact for the class information. A proxy's end has
the steps `Release` (the count falls to 0), `UnregisterImport` and `DeleteProxy`, none of
which takes `g_marshalLock`; a stub's has `BinderRelease` (the count falls to 0), `UnregisterExport` under `g_exportTableLock`, and
`DeleteStub` under no lock. The module is about the `_android` build, since in the others `OnLastStrongRef` is never called. The strong
count of a proxy is what `ElRefBase` shows it to be, so `Attemptable` is `proxy[p] = "live"`.
`UserDies` restarts the user; a marshalling for it goes on in the owner. To try an entry whose proxy was deleted leads to location `wild`:
the read of freed memory, after which nothing is claimed of that thread. `crossed` is history: the
binders for which the table is out of step, so that `ImportsExact` says where it is not.

The hash buckets are one list: entries are compared by binder whatever the bucket. Left
out: proxies that are marshalled on, custom marshalling, and the object coming home
to its owner (`FindExportObject` in `StdUnmarshalInterface`, which `ReferencedStubsFound` is the
condition for).

### LocalModule

The list of modules, the threads that load, use and unload them, and the dynamic
linker as far as `locmod.cpp` uses it: `handles` counts `dlopen`s, and with the last `dlclose` the module's
`g_dllLockCount` is lost. Acquiring a class object is `FindModule` under the lock, and `Dlopen`,
`GetClassObject`, `InsertModule` without it; the caller then creates an object or calls `StayResident`, and releases
the class object. `objects` counts both; no code of the repository calls `StayResident`, and a caller is taken to undo only
what was done. The four functions that go through the list hold the lock and
are walks with a `cursor`; each entry is a step (`Ask`, with `InUse` and `NotInUse` for
the two answers, and `Unload`), since objects come and go in other threads meanwhile.
`raced` and `idle` are history; `idle` counts *successive* asks that found the module unused, so a lookup and an ask that
finds it used (`InUse`) set it back.

### RpcChannel

One `CObjectProxy` of `linux_rpc` with its callers and ping tasks (`Client`), and the server
behind it. `ProxyEntry_RPC` is `BeginCall` (the unlocked look at `mSocketfd`), `Connect`, `TestPingTask`, `StartPing`, then
`Send`, `CallRecv` and `Receive` or `ReceiveFails` under `mLock`, which `PingRunnable::Run` shares. `CallRecv` reads `mSocketfd`
again, which another thread's `Connect` may have replaced since the send; from then on the receive waits on that connection (`recvOn`),
even if it is replaced too. `RunTask` may fail to start a ping task, which then is never started. After
a failed receive `StubDied` locks the recipient list, and `Tell` and `Erase` go through it. The
server's looper (`Accept`) gives each request to a worker, and the workers answer in any order
(`Transact`). `ServerDies` takes all connections with it. The first `LinkToDeath` has two steps (`CreateOrgue`), since
`StubDied` looks for the list in between. `late`, `timeouts`, `expects` and `links` are history.

Assumed of the rest: TCP keeps the order, messages are read whole (what a
misaligned read does is confined to connections that are `late`), SIGPIPE is ignored, recipients do
not come back into the proxy, the application links from one thread, and does not link a recipient that is linked.

### RpcObjects

The proxies for one stub of `linux_rpc`, from unmarshalling to deletion, and the stub's count.
It differs from `Marshal` where the code does: proxies are not `ElRefBase`s but have a plain `mRef`,
`FindImportObject` increments it whatever it is, and `CObjectProxy::Release` asks the import table afterwards
(`UnregisterImport`: another reference means S_FALSE). `FindImport` and `CreateProxy` are again the halves of
`StdUnmarshalInterface`, under `marshalLock`; `Release`, `UnregisterImport`, `SendRelease` and `DeleteProxy` are
the steps of the last release, none of which takes it; each section of `g_importTableLock` is one step. `Share` is an `AddRef`
by the application. The owner's side is `Marshal` (`StdMarshalInterface`), `StubRelease` and `DeleteStub`; the export
table needs no variable, because its entry is made with the stub and never removed. A process that reaches a deleted object
stops (`wild`, `ownerUp`). `marshals`, `remarshalled` and `doubled` are history.

Left out: a `GetInterface` that fails (the class information is that of the stub), proxies marshalled on to a third process,
and the object coming home. How a proxy connects and calls is `RpcChannel`.

## Runs

| Run | Instance | What it shows |
|---|---|---|
| `RefBaseAndroid` | 4 handles, symmetric | all safety properties and the refinement of `ObjectLifetime`, in the `_android` build; also the inductive invariants of the proofs |
| `RefBasePortable` | 4 handles | memory safety in the other builds, weak handles first included |
| `CallbackCancel` | 3 events (a timed send, a delayed and a coalescing post) of 2 priorities, 2 of them superseding, one with a dying receiver, every cancel | references, counts, truthful results, cancelled means over, the order of the queue |
| `CallbackFinish` | a send and a delayed, superseding post, a nice and an ASAP finish, fairness | liveness, a nice finish drains, references and results under a finish |
| `CallbackHeadTaken` | 2 events, one kind of cancel | *violated*: `GetEvent` returns the head of an emptied list |
| `Services` | 2 registrants, 2 names, fairness | entries watched, recipients kept, dead services leave |
| `ServicesReplaced` | 1 name | *violated*: a late death notice removes the service that replaced the dead one |
| `Marshal` | 3 threads, 3 stubs, 4 proxies, symmetric, restarts | referenced stubs are found, lookups reach no deleted stub, held proxies live, the import table is exact but for the finding |
| `MarshalStale` | 2 threads, 1 stub, 2 proxies | *violated*: the import table names a deleted proxy |
| `Modules` | 2 threads, 3 modules (one cannot be asked, one is the runtime), 1 object each, fairness | used code is mapped, handles and counts exact, the three-asks rule, walks end |
| `Rpc` | 2 callers with a ping task each, 2 calls, 1 recipient linked twice, 1 timeout, fairness | own answers, told once, a running ping makes the death known |
| `RpcObjects` | 4 threads, 3 proxies, 6 marshallings, symmetric | held proxies and the table are live, nothing is forgotten or destroyed twice but for the double delete among the remarks, the stub outlives its users |

Bounds. Four handles are enough for two operations that copy from two further
handles, or for three against one; `INITIAL_STRONG_VALUE` is 10, as only its
exceeding the number of handles matters (`RefAssumption`), and the theorems hold for
any number. Two events meet in every pair of operations (each has its own
client, cancellers and finishers come on top); three are used where order among
others matters. No run combines the application's cancels or a timeout with a finish (three events
with both take too long); the theorems do. `MaxTime` is 1: what matters of an event is whether it is due, and
a post rounded up is not. `MaxLinks` is 2, so that a binder can be registered again
under a name it already had. In `Marshal`, three threads let one destroy a proxy, one
create its successor and one look up; a fourth proxy lets the race happen twice.
In `Modules` two threads are enough to load one module twice and to unload
while the other loads. In `Rpc`, `MaxTimeouts` is 1: one request given up leaves one late
reply, which every later call and ping can meet. Two calls race for the connection, or the second uses
the first's; the ping tasks add any number of further exchanges. In `RpcObjects` four threads let two be in `Release` of one proxy while a third
registers its successor and a fourth looks it up. `CHECK_DEADLOCK FALSE` is said everywhere because
all of these systems may come to rest: handles are dropped, each event is posted
once, processes die.

Fairness (`FairSpec`). In `CallbackContext`: threads that can run do (weak fairness of
the handler and of each client that has begun its call), the clock advances, a
`RequestToFinish` that began completes. Nobody is obliged to post, cancel or ask for a finish, or to
destroy the context: nothing is promised by a destructor that a sender asleep would have to wait for.
In `ServiceManager`: binder delivers death notices. In `LocalModule`: a thread that has the list's lock
goes on with its walk. In `RpcChannel`: strong fairness of each caller and ping task once it has
something to send, because the lock it waits for is taken and given up by others; the
server is under no obligation, not even to answer.

The properties say what they exclude: `SendReturns` does not cover a send whose
event was superseded or whose receiver was gone (`silent`): there the code drops the
event without posting its semaphore. Nor do `SendReturns` and `QueueServed` claim anything of what is still queued when
the handler leaves by an ASAP finish: `RequestToFinish` sets flags and cancels nothing (see the remarks). Invariants of the queue are stated for a
`sound` list; the other case is the finding of `CallbackHeadTaken`. `ImportsExact` is stated
for binders that were not `crossed`, the other case being `MarshalStale`. `AnswersMatch` ends where a
request was given up on the connection: from then on the code cannot tell replies
apart, and a call may take the answer to another. `DeathMadeKnown` needs a ping task that runs: one that
timed out once is never started again. `RecentlyUsedStays` leaves out modules
loaded twice at once, whose second entry keeps its own count. `UnheldIsDestroyed` ends where a revived proxy
is released before the first `Release` has looked (`doubled`): both then delete it;
`StubOutlivesProxies` where the object is marshalled after its stub's count fell to 0 (`remarshalled`): the code then
uses a stub that is, or is about to be, deleted.

## Findings

1. `CCallbackContext.cpp:537`: `GetEvent` goes back to the queue after its sleep without
   testing whether it is empty. A cancel in that millisecond makes it detach and
   return the list head; from then on posts are lost. (The assertion at 621 lets it pass: the head is not NULL.)
2. `ServiceManager.cpp:18`: `binderDied` erases by name, whoever holds the name now.
3. `RegisterObjectTable.cpp:202`: a dying proxy unregisters the first entry for its binder. A proxy made
   for the same binder in between stands first: its entry goes, the dying one's
   stays and soon names freed memory.

Remarks that no run is about. Without `_android`, `atomic_add` (`elaatomics.cpp:63`) does nothing:
memory stays safe (`RefBasePortable`, and the theorems), but an object lives until its last
*weak* reference goes and `OnLastStrongRef` is never called, so `DestroyedWithLastStrong` and `HooksOnce` are
claimed, and `Marshal` is written, for `_android` builds only. After an ASAP finish
(`CCallbackContext.cpp:372`) the handler leaves what is queued where it is. A sender without timeout whose event is there is woken by `~CCallbackContext`
alone, and its own reference keeps that from coming: it hangs, unless somebody cancels its event. The cache of `CServiceManager` (`ServiceManagerClient.cpp:123`) is never
invalidated, so nothing is claimed of how current an answer of `GetService` is. In
`linux_rpc/proxy.cpp:1057`, a proxy that a lookup revives during its last `Release`, and that is released again before that `Release` asks
the import table, is deleted by both threads: E_NO_IMPORT_OBJECT, unlike S_FALSE, does not stop the second (`rot.cpp:203` has the same "BUGBUG" as
finding 3). `UnheldIsDestroyed` without its condition `~doubled` is violated by this. In `linux_rpc/proxy.cpp:690` a receive that gives up after its
minute keeps the connection, and the late reply is taken for the answer to the next call or ping: `AnswersMatch` without `sentOn[c] \notin late` is violated by this.
Neither has a run of its own, as no comment, assertion or test of the repository says of the program what it breaks, beyond the comment of finding 3. `RemoveService`
(`ServiceManager.cpp:178`) leaves the recipient linked and listed, so that list grows with every registration; `MaxLinks` bounds it in the
model. The thread that does the last decrement of `g_dllLockCount` (`baseclsobj.cpp:36`) is still in the module's code when an unload may unmap it; the
model counts references, not return addresses.

A restriction that is no finding: with `AtomicAdd` and `WeakFromRaw` both TRUE, TLC finds
a revival. Two `Resolve`s of a never-held object may both read
`INITIAL_STRONG_VALUE`; the second may still act on it after the object has been held and
dropped. No code of the repository makes a weak reference before a strong one
(`GetWeakReference` is called through an `AutoPtr`), hence the assumption `AtomicAdd => ~WeakFromRaw` of
the theorems.

## Proofs

`ElRefBaseProofs.tla` proves, for every set of handles and every `INITIAL_STRONG_VALUE`
greater than its size:

- `TypeCorrect`: `TypeOK`;
- `RefInvariant`: `RefInv`, given `AtomicAdd => ~WeakFromRaw`;
- `UseAfterFreeFree`, `LeakFree`: `NoUseAfterFree` and `NoLeak`, both builds;
- `DestroyedWithLast`, `RevivalFree`: `DestroyedWithLastStrong` and `NoRevival`, `_android` builds;
- `HooksInvariant`, `HooksCalledOnce`: `HooksInv` and `HooksOnce`, `_android` builds;
- `LifetimeImplemented`: `ImplementsLifetime`, `_android` builds.

None of these is inductive as stated. That nobody reaches a freed `WeakRefImpl`
rests on `mWeak` being the number of handles in certain program locations
(`CountsExact`): the step that brings `mWeak` to 0 is then alone. That in turn needs
the copied handle to stay held (`SourcesHeld`), and, for the object itself, that
`INITIAL_STRONG_VALUE` is subtracted before a second handle exists
and that at most one operation is about to delete the object (`AndroidInv`); in the
other builds, that the count never leaves the range above `INITIAL_STRONG_VALUE`
(`PortableInv`). Since the counts are cardinalities, the lemmas `Handles`,
`Recount` and `StepCounts` say how the counted sets change with one `pc`; `Positive` and
`Subtracted` turn counts into witnesses and back. `RefInvStep` then goes through the
actions one by one.

That the counters implement `ObjectLifetime` is shown step by step. `Stutters`, `Acquires`,
`Drops` and `Destroys` say what a change of one `pc` is under the refinement mapping; `LifetimeStep`
takes each action to one of them. An `Acquire` needs somebody who holds the object
already, or the longer lifetime, or an object never held. For `IncStrongCount` the first is the
copied handle; for the `cmpxchg` of `Resolve` it is whoever is behind the positive count, which in an
object of regular lifetime is a holder and not a handle on its way to being one, as `HooksInv` has
those alone. The phase "new" needs one more invariant, `FirstInv`: until `OnFirstRef` was called nobody but the
creator's operation is there, so nobody else can be the first to hold the object, and nobody
destroys what was never held.

`ServiceManagerProofs.tla` proves `TypeOK`, `RecipientsKept` and `EntryWatched` for any sets of
binders and names. Both are inductive together with the type invariant; the
interesting step is `BinderDied`, which takes a link away and keeps `EntryWatched`
because it empties the entry in the same step, whoever owns it (the very erasure
that finding 2 is about).

`MarshalProofs.tla` proves `ReferencedStubsFound`, `LookupsReachStubs` and `HeldProxiesLive` for any numbers of threads,
stubs and proxies. `LookupsReachStubs` needs that the entries a lookup has before it are still in the table (`StubsToAsk`), because the table's
lock is held meanwhile, and that an entry is that of a stub whose hook has not returned: the hook could leave it (S_FALSE) only for a stub that is
referred to again, which the refusal to revive a count of 0 excludes. `MarshalInv` adds the types, that a thread looking for a proxy has a
binder (`PackState`) and what each location says of the thread's proxy (`RefState`): without
it a `Release` could bring a deleted proxy, and with it a reference to a stub,
back into existence. `FirstExists` (every set of positions has a least one) is what the removal of an entry
needs to be well defined. `OneProxy` proves `ImportsExact`: `EntryState` adds that a binder that is not `crossed` has at
most one entry, so the first entry for the binder, which the code removes, is the dying proxy's own.

`RpcObjectsProofs.tla` proves `HeldNotDeleted` and `OneLiveEntry` for any finite set of threads (`RpcObjectsAssumption`) and any set
of proxies. The invariant `ObjectsInv` says that `mRef` is the number of holders (`CountsHolders`) and that a proxy with references is the one
in the import table (`Registered`): entries are only taken away at a count of 0, under the lock under which lookups increment it, so what has left
the table cannot be referred to again, and two threads that both delete it (see the remarks) still never delete it under a holder. `LockState` is what
`g_marshalLock` is for: a proxy is registered in an empty table.

`UnheldDies` proves `UnheldIsDestroyed` from `ReleaseState`: one thread at most is in the `Release` of a proxy, and the proxy's entry stays until
that thread has looked at the table, so a lookup in between is seen by it. `StubOutlives` proves `StubOutlivesProxies` from
`StubInv`: the stub's count is at least the RELEASEs under way, plus the threads that owe one (`Owing`: an answer not yet
unmarshalled, a last release not yet sent), plus one for the proxy in use. It is an inequality because a thread that finds the
proxy in the table drops what its answer was counted for.

`RpcChannelProofs.tla` proves `AnswersMatch` and `ToldOnce` for any threads and recipients and any bounds. `mLock` is held from
`Send` to `Receive`, but the connection may be replaced in between; what carries the proof is `WireState`: a connection in use (`Live`: the proxy's, or one that
a `recv` waits on), if no request was given up on it, carries nothing but the request or reply of the lock's holder, and nothing at all
if the holder sent on another, since a connection is new when it becomes the proxy's and never becomes so again. `ListState` (whoever is in `ProxyDied` has the list's lock and stands at
the first entry, the entries are distinct recipients that expect to be told) gives `ToldOnce`.

`LocalModuleProofs.tla` proves `CountsExact`, `UsedIsMapped` and the action property `RecentlyUsedStays` for any finite set of threads, any modules and any number of
objects. `CountsExact` is not inductive without the rule of who may use a module without a handle of its own: users of objects and
class objects rely on an entry (`InUseListed`), only the holder of the lock takes one away, from a module found unused (`UnloadState`), and a
thread that loads relies on its own `dlopen`. `RecentlyUsedStays` needs `OnceState` (without a race one entry at most, and none
while a thread loads) and `AskState` (`mAskCount` is bounded by the asks since the last use).

`CallbackContextProofs.tla` proves all seven safety properties of the queue for any finite set of events, any priorities and any
`MaxTime`, from `CallbackInv`. `QueueState` (an event is in one place at most, the queue is distinct and ordered) makes
`Superseded`, `InsertByPriority` and the cancels countable: each leaves a queue that is `Thinned`, or has one entry more at its place
(`InsertedAt`). `SendState` is the fact about the unlocked steps that `ReportsTruth` rests on: as long as the callback of a send may
still come and its client has not turned away, nobody has posted its `mSyncEvent` or marked it cancelled. `VoidState`, `SafeState` and `FinishState` are
what `GivenUpNeverRuns`, `CancelledIsOver` and `NiceDrains` need of the handler's location.

`NumberFacts.tla` has what these proofs need of positions: the least and the greatest of a set of numbers, and the renumbering of
a list from which some positions were dropped. The library's induction theorems cannot be instantiated here, so these go through the
well-foundedness of `<` instead, and `Without` is defined by the rank of a position rather than with a recursive filter.

Only model-checked: the liveness properties `QueueServed`, `SendReturns`, `FinishTakesEffect`, `DeadServiceLeaves`, `WalksEnd` and `DeathMadeKnown`, because
fairness and ENABLED are outside the prover. The three violated properties are counterexamples and need TLC. The invariants of the
proof modules that no run lists (`FirstInv`, `EntryState`, `ReleaseState`, `StubInv`, `ChannelInv`, `ListState`, `ModuleInv`, `OnceState`, `AskState`,
`CallbackInv`) hold in the runs' instances too; being proved, they are not checked there again.

## Plan and what is not modelled

1. Safety around the findings: what still holds of a queue that lost its head, and of the import
   table for `crossed` binders.
2. The safety half of the liveness properties: that a handler asleep with a non-empty queue has a post of its
   semaphore coming, from which `QueueServed` follows under `FairSpec`.
3. `DelegateContainer` on top of `CallbackContext`.

Not planned: argument encoding, reflection, strings and containers (sequential,
better tested), the kernel and the vendored layers.
