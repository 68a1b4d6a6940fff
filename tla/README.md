# FaST-GShare: TLA+ models and proofs

FaST-GShare shares GPUs between Kubernetes pods. A user writes a *FaSTPod* (a
custom resource with a pod template, a number of replicas and GPU annotations);
the *controller manager* creates its pods, books each of them on a GPU of a node
and gives it a port of the node's FaST manager; the *fast-configurator* on the
node carves MIG instances out of physical GPUs, starts and stops the MPS daemons,
keeps a connection to the manager and receives the shares of the pods; the
*operator* is an OpenFaaS gateway that writes FaSTPods, and a controller that
gives every function its Service; a *database client* is prepared for the
manager.

This directory holds the models of these parts, the configurations that check
them (TLC) and the proofs (TLAPS). Source paths below are relative to `src/`;
`mgr/` stands for `internal/apps/fastpod-controller-manager/`, `cfgr/` for
`internal/apps/fast-configurator/`, `fun/` for `pkg/controller/`, `gw/` for
`pkg/customized_openfaas/` and `ent/` for `internal/db/ent/`.

    cd tla
    tlc -workers 2 -config MCGpuLedger.cfg MCGpuLedger
    tlapm GpuLedgerProofs.tla        # and the other ...Proofs modules

## 1. Inventory

| component | source | state | operations | module |
|---|---|---|---|---|
| port allocator | `pkg/libs/bitmap/bitmap.go` | bits, next position | NewBitmap, FindFirstUnsetAndSet, Clear | `Bitmap` |
| GPU ledger and scheduler | `mgr/gpu_manager.go`, `mgr/scheduler.go` | `nodes`, `vGPUID2GPU` with usage, memory, mode and pod lists, under `nodesInfoMtx` | ScheduleRequest, RequestGPUAndUpdateConfig, removePodFromList, removeFaSTPodFromList, re-configuration of a pod | `GpuLedger` |
| FaSTPod controller | `mgr/controller.go`, `mgr/controller_util.go` | informer caches, work queue, `fstp2PodsMtx`, goroutines | event handlers, processNextWorkItem, syncHandler, reconcileResourceConfig, reconcileReplicas, slowStartbatch | `FaSTPodController` |
| pod construction | `mgr/new_pod.go` | none | getPodRequestFromPod, validatePodRequest, newPod | constants of `FaSTPodController` |
| node manager | `mgr/config_manager.go`, `mgr/node_init.go` | `nodesLiveness`, a handler goroutine and a gRPC client per connection | startConfigManager, handleNodeConnection, heartbeats, checkNodeLiveness, updatePodsGPUConfig | `NodeConnection` |
| configurator: virtual GPUs, MPS | `cfgr/virtual_resource.go`, `cfgr/server_methods.go`, `cfgr/mps.go` | physical, virtual and provisioned GPUs, MPS servers | RequestVirtualGPU, ReleaseVirtualGPU, EnableMPS, DisableMPS, GetAvailableGPUs, CleanUp, start | `Configurator` |
| configurator: connection | `cfgr/fastconfigurator.go`, `cfgr/fastpod_config.go` | socket, signal channel, two configuration files per GPU | maintainConnection, recvMsgAndWriteConfig, handleMsg, Run with its signal | `NodeConnection` |
| FaST function controller | `fun/controller.go` and the files beside it | informer cache, work queue, database of functions, DaemonSets, Services | addFaSTPod, handleDeletedFaSTPod, processNextWorkItem, syncHandler | `FunctionController` |
| OpenFaaS gateway: deploy, delete | `gw/server` | none | makeApplyHandler, makeDeleteHandler | `FunctionGateway` |
| OpenFaaS gateway: logs | `gw/k8s/log.go`, `gw/k8s/logs.go` | four kinds of goroutines, channels `added`, `finished`, `logs`, `msgStream`, a context | Query, GetLogs, podLogs, startFunctionPodInformer | `FunctionLogs` |
| database client | `ent/` | mutations of the builders, the transaction in a context, the tables | builders, Save, Tx, TxWrap, queries with eager loading | `Relations`, `EntClient`, `EntQuery` |
| gRPC client and protocol | `pkg/grpcclient`, `pkg/proto` | generated | | what its callers see, in `GpuLedger` and `NodeConnection` |
| MIG commands, API types, generated clients | `pkg/mig`, `pkg/apis`, `pkg/client` | none, or generated | | not modelled |

How the parts interact:

* The informers of the controller copy pods and FaSTPods from the API server
  into caches and put keys on the work queue. The handlers for added and updated
  pods are commented out, so only FaSTPod events, deleted pods and the periodic
  resync enqueue.
* A worker reads both caches, **then** takes `fstp2PodsMtx`, and works on what it
  read. The expectations that are to guard against stale caches are set and never
  looked at.
* Creating a pod is ScheduleRequest, RequestGPUAndUpdateConfig and a kube Create.
  The first two each take `nodesInfoMtx`; between them it is free, and what keeps
  a second ScheduleRequest out is `fstp2PodsMtx`.
* Deleting a pod is a goroutine: kube Delete, `wg.Done()`, removePodFromList. The
  worker goes on after `wg.Done()`, so the removal from the ledger comes later, at
  any time, without `fstp2PodsMtx`.
* The deletion of a FaSTPod starts a goroutine that lists the pods from the
  cache, takes `nodesInfoMtx` for all of them, and for each removes the booking and
  then deletes the pod, which may fail.
* The ledger and the node's configurator talk by RPC under `nodesInfoMtx`. The
  ledger lives in memory only.
* Clients of the configurator ask for virtual GPUs at any time. It serves calls
  concurrently; every RequestVirtualGPU, ReleaseVirtualGPU and GetAvailableGPUs
  ends with a refresh that replaces all objects the other calls may be working on.
* The configurator dials the manager and sends a hello, then heartbeats. For each
  connection the manager has a goroutine: it acknowledges, opens a gRPC client
  back to the node, asks for health and GPUs, records the node and reads the
  heartbeats. The goroutine of an old connection may still run when the next one
  is set up. A ticker marks nodes that have been silent.
* A configuration goes to the node by RPC, through the client the node holds at
  that moment, and is written into two files. Its callers hold `nodesInfoMtx`,
  except reconcileResourceConfig.
* Gateway, users, the auto-scaler and the function controller share the FaSTPods
  in the API server; each learns of the others by conflicts and by a watch.
* The goroutines of a log query hand lines from channel to channel and share one
  context, which the HTTP handler cancels.

What makes each part correct:

* port allocator: positions in range, never one that is in use, all of them before `-1`;
* ledger: one kind of pod per GPU; ports of recorded pods distinct; usage and
  memory within the GPU; what was found to fit fits when it is booked; the MPS
  daemon runs under recorded pods; booked amounts are the sums over the lists;
* controller: a running pod is booked, until the clean-up of its FaSTPod takes it off;
  a booked pod runs or will be removed; the
  replicas asked for are reached, after faults too; a deleted FaSTPod leaves nothing;
* node manager and connection: a node whose process runs becomes ready again
  whatever breaks, a silent one is noticed, the last configuration reaches both
  files;
* configurator: no GPU instance is lost by a failing step, every device can be
  released, MPS state survives a refresh, every call returns or ends with the process;
* function controller: the database and the Services follow the FaSTPods, whoever
  changes them, and a FaSTPod made with init containers gets its DaemonSet;
* logs: no line lost, doubled or out of order, the query ends, nobody sends on a
  closed channel;
* database client: operations and transactions are atomic, an update does what its
  calls say in their order (with one exception, section 6), a query loads every
  neighbour once.

The hazards, each with its line and the properties that cover it, are listed in
`PROJECT.json`. The hard ones: removals that come late, twice, or after the GPU
was given away; the window between scheduling and booking; stale caches; the
clean-up of a FaSTPod against a worker that still creates its pods; a wait
under a mutex for goroutines that were never started; a failing step after
others were done; objects of the configurator that are replaced under a call; a
nil answer of a failed RPC that ends the process; the handler of an old connection
against that of the new one; overlapping writers of two files; one signal for three
goroutines; a count of streams kept by a select; a Service that dies with one of
the FaSTPods that share it; a transaction whose inner error is late.

## 2. Modules

| module | what it is |
|---|---|
| `Bitmap` | the port allocator: the set of used positions and the round-robin start |
| `GpuLedger` | the ledger of one node; EXTENDS `Bitmap`; specification `LedgerSpec` |
| `GpuLedgerProofs` | its theorems and proofs |
| `BookingProofs` | what each ledger operation does to the bookings of the pods, with the theorem `BookingsAlwaysKept` |
| `FaSTPodControllerProofs` | theorems of `FaSTPodController`; with `BookingProofs` on top of `GpuLedgerProofs` |
| `FaSTPodController` | the controller around the ledger; EXTENDS `GpuLedger`; `Spec`, `FairSpec` |
| `Configurator` | the configurator of one node; `ConfSpec`, `FairConfSpec` |
| `NodeConnection` | the manager's side and the node's side of a connection; `Spec`, `FairSpec` |
| `LogChannel` | abstract: one bounded channel |
| `FunctionLogs` | a log query; implements `LogChannel`; `Spec`, `FairSpec` |
| `FaSTPodApi` | the FaSTPods in the API server with the watch (external) |
| `FunctionGateway` | the handlers that change FaSTPods; EXTENDS `FaSTPodApi` |
| `FunctionController` | the function controller; EXTENDS `FaSTPodApi` |
| `FunctionOperator` | the composition of the two with users and the auto-scaler; `FairSpec` |
| `Relations` | the tables, the operations on them and what each promises |
| `RelationStore` | abstract: sessions with atomic operations and transactions |
| `EntQuery` | the queries; EXTENDS `Relations` |
| `EntClient` | builders, mutations, statements, TxWrap; implements `RelationStore`; `Spec` |
| `ConfiguratorProofs`, `NodeConnectionProofs`, `FunctionLogsProofs`, `FunctionOperatorProofs`, `EntClientProofs` | the theorems of the module each is named for |
| `MC...` | instances for TLC, and the properties only they need |

Operators named "mutated" next to a definition are versions of it with a
plausible bug; they are used by no specification and show that the properties
would notice.

### GpuLedger

One action is one operation of `gpu_manager.go` or `scheduler.go`, split by
outcome (booked, refused, panic), because each holds `nodesInfoMtx` from first to
last access. The callers are left as free as possible: any pod may be scheduled;
any pod may be removed at any time, repeatedly, recorded or not; RPCs fail; the
process panics, crashes and restarts. The only thing assumed of the callers is
that `selections` is empty when ScheduleRequest starts, which is what
`fstp2PodsMtx` gives; `FaSTPodController` models that mutex, and is checked and proved
to implement `LedgerSpec`.

State: `vGPUID2GPU` is the map of the same name, an entry having the mode, memory,
usage, booked memory, the two lists (sets, their order is used nowhere) and the
Exclusive pod. `selections` are the SelectionResults between the two calls. `bits`
and `position` are `DaemonPortAlloc`. `provisioned` and `mpsOn` are the part of the
configurator the ledger relies on. Details of the code that matter and are kept:

* ScheduleRequest leaves a fresh entry in the map when the pod does not fit;
* the mode of a GPU is set, and MPS is started, before the request is checked;
* only the list of the removed pod's own type is searched, and the entry is
  dropped when *that* list is empty, whatever the mode of the GPU;
* the removal by a deletion goroutine releases a MIG instance and uses nil
  answers of failed RPCs; the removal by removeFaSTPodFromList does neither;
* an Exclusive pod's removal asks a nil list for its length; a second MPS pod
  meets a type assertion on the wrong type; canFitExclusive dereferences a
  missing percentage: these are panics, and end the process;
* a re-configuration rewrites the share of a pod and not the usage of the GPU.

### FaSTPodController

Every FaSTPod names its GPU, as ScheduleRequest requires, so type, GPU and size
are constants of a FaSTPod. The API server is `want`, `quota` (the share in the
annotations, and the one in Status.ResourceConfig) and `pod`; `podEvents` is
the pod watch, in order; FaSTPod events are not queued, an event brings the
cache to the present version (`current`), which loses nothing because the
handlers look at the last version only. `basis` says whether the version a
worker read is still the one of the API server: the Update at the end of the
sync fails otherwise.

A worker's `pc`: `config` (reconcileResourceConfig, pods `config` to come), `lock` (caches read, mutex not yet taken), `schedule`,
`request`, `create` (the three steps for one pod, repeated by slowStartbatch with
`left`, `size` and `batch` as its counters; the calls of a batch run one after
the other in the code), `wait` (for `wg` goroutines, `victims` are those whose
kube Delete is to come), `status`. `removals[p]` counts goroutines between
`wg.Done()` and removePodFromList. `collector[x]` is removeFaSTPodFromList: for each of
`pods` a step that takes it off the ledger (`CollectPod`, with the DisableMPS) and one for
the kube Delete of the `victim`, which may fail and is then only logged
(`DeleteCollected`, `failed`). In between, and after a failed Delete, the pod runs
unbooked, which is the exception `CleanedUp` of `LivePodsAreBooked`. A pod whose GPU has
no entry is neither removed nor deleted.

Steps end where another goroutine can come in: at a lock, an API call or RPC, the
end of a goroutine. Which pods getPodsToDelete picks is left open, and so is
whether the counts in the status differ from the spec, which only decides whether the
FaSTPod is written.

`ConfigurePod` rewrites the ledger and then updates the pod, in one step: only that
the pod is deleted matters to the Update, and a deletion between the two is one before
them. An Update fails for a deleted pod and by the fault `update` (a conflict with the
kubelet or a broken call). The re-configuration then ends with `manageReError`, and the
worker goes on with the replicas. If the FaSTPod is not written in the end, there is nothing to
enqueue but a nil, and the process ends (`EnqueuePanics`). `Fresh` FaSTPods have no
Status.ResourceConfig: their first sync, or the first whose write succeeds, finds the share
changed, with the pods of failed syncs there. `born` is a history variable, the pods that
the present process has created.

### Configurator

State: `instances` and `computes` are the GPU and compute instances the driver
has, `daemons` the MPS daemons, `pipes` the control pipes in `/tmp`, by which the
code tells whether a daemon runs. `heap` holds the VirtualGPU objects with their
mutex; `virtualGPUs` and `provisionedGPUs` are the list and the map of
ResourceManager. A call is a program counter with the pointer it looked up.

Objects need an identity because a refresh replaces them while calls hold the old
ones, and what such a call writes is then lost. After a refresh the objects of the
list are named by what they stand for (`device`, `free`), the old ones by who still
has them (a `device` entry left in the map, a call in `held`). The renaming keeps
all pointers and makes the state space finite without a bound on objects.

Steps end at a lock, an NVML call or a command: RequestVirtualGPU is lookup, GPU
instance, compute instance, record, MPS, and the refresh; ReleaseVirtualGPU is lookup,
stop of the daemon and the moment half a second later, the two destructions, the
delete from the map, and the refresh. EnableMPS and DisableMPS are lookup, command,
the write of isEnabled; they take no lock, so the ProvisionedGPU may be nil by
then, which ends the process (`MPSPanics`). A failing step returns as the code
does, with what it undoes and what it does not.

The refresh reads the devices (`Scan`), and at one of them it is overtaken: `LookUp` is
the load of `old`, `at` the device and `old` the object loaded. What follows is its use.
If a Release has set the ProvisionedGPU of that object to nil in between, which it does
under `v.mutex` and not `rm.mutex`, the handler panics (`RefreshPanics`); else the rest of
the refresh is one step (`Store`). A refresh that is overtaken at two devices is left out:
no call writes what the other lookups read but isEnabled, and the entry of the map.

`CleanUp` is one action: GracefulStop has waited for all calls. The daemons end
with the container; the chart has no hostPID and mounts the host's `/tmp`, so the
pipes stay.

### NodeConnection

One node with its configurator and the manager. Connections are numbered; `link`
is what is under way in each, `hdl` the place of its handler in
handleNodeConnection, `cg` that of maintainConnection. `live` is `nodesLiveness`,
where `last` says whether the heartbeat is recent, old or the zero time that a new
entry has. `client` and `closed` are the gRPC clients: a handler closes its client
when it ends, and the node keeps the pointer. A node whose daemon pod cannot be read
goes by the name of that pod (`Names`).

A configuration is a version number; `conf` and `ports` are the versions a file
holds, `writer` is handleMsg, which truncates both files and then writes one after
the other. `lost` remembers what went wrong with a configuration: it was dropped,
refused, overtaken or forgotten in a restart (`missed`), or writers overlapped or
were killed (`mixed`).

Kept: a handler marks the node not ready before it closes its client; the ticker
marks a node that has just connected, because its last heartbeat is the zero time;
a failed GetAvailableGPUs ends the manager; a handler that returns early leaves its
connection to the garbage collector (`Collect`); three goroutines wait for the one
signal, and only the main one stops the server.

### FunctionLogs

`added`, `logs` and `msgs` are the channels with their contents; `finished` has no
buffer, so that a send on it is the step `GetLogsFinished`. A closed `added` always
has the pod `""` to offer: GetLogs starts podLogs for it, which fails to open a
stream (`Ghosts` bounds how often that is looked at). A send on a closed channel is
`panicked`, and ends the process.

`known` are the pods that the informer is done with: it has called OnAdd for them, or they
were listed by startFunctionPodInformer and deleted before the informer's own list
(`InformerMisses`). A line is one that ends in a newline: what follows the last newline is
dropped by the reader (ReadBytes returns it with an error), and is not in the model.

The refinement `IsAChannel`: the queue of `LogChannel` is
`msgs.q \o fw.msg \o logs.q`, its capacity two buffers and the message in the
forwarder's hand.

### FunctionGateway, FunctionController, FunctionOperator

`FaSTPodApi` has creation and update with conflicts and a queue of changes per name. The
field `added` of an object is history: its init containers have come with an update. Users
create FaSTPods and edit them (`UserEdits`: another function, init containers added or
taken away); an update reaches only enqueueFaSTPod, which makes no DaemonSet.
A deployment is a read and a write. The controller has the informer with its list
after a broken watch (`Relist`, which reports a deleted object with an unknown final
state), the handlers, which run one event at a time, and the worker, one step per
call to the API server. A Service is its owner and the version of the FaSTPod that
its annotations show; the garbage collector of Kubernetes removes it with its owner.

### EntClient, EntQuery

Pods and resources are rows with a unique value (their name) and a many-to-many
relation. `PodMutation` and `ResourceMutation` turn the calls of a builder, one after
the other, into the sets that a mutation keeps (recursive functions over the calls, as
is the loading of a query over the rows of the join); `updateSpec` and `Statements` turn these into statements
in the order sqlgraph runs them. Each session is a goroutine with at most one
transaction: `lock` is what SQLite has granted it, `view` what it has written. Save
inside a transaction leaves what was done before an error in it; outside, it is
rolled back. sqlgraph and SQLite are external.

`Relations` says what an operation is meant to do: the last call that names an id decides
about its link, and a clear names all ids (`Linked`, `Effect`). The builders fall short of
that in one case, which has a name of its own: an id that is added before a clear, and not
named after it, stays linked (`StillAdded`), because `sqlSave` clears first and adds then.
`Outcome` is the effect with these links.

`RelationStore` says what is promised: an operation has its outcome, or no visible
effect; a transaction, with the ones nested in
it, is visible as a whole or not at all. It is assumed that a function given to
TxWrap returns the errors it has met (`wrapTxReturns`).

## 3. Runs

| run | instance | shows |
|---|---|---|
| `ledger` | 3 FastPods, 2 MPS and 2 Exclusive pods, a MIG and a physical GPU, 2 ports, usage 0..3 | the ledger invariants, `BooksStayBalanced` and `BookingsAreKept`, under every order of operations, failures, panics, restarts |
| `two_fastpods` | 2 FaSTPods on one GPU, 2 workers | `LedgerSpec` (every step of the controller on the ledger is one GpuLedger allows) and `LivePodsAreBooked` |
| `scale_and_delete` | 1 FaSTPod of 1 or 2 replicas, scaled or re-configured once and deleted, 2 concurrent removals; an Update fails where the pod is gone, a Delete of the clean-up may fail | `LivePodsAreBooked`, `NothingLeaks`, types |
| `faults` | 1 FaSTPod nobody has written yet, 1 replica, one fault of any kind at any point, fair | `ReplicasAreReached`, without faults and after a failed Create, Delete, Update, RPC, a crash |
| `configurator` | 1 slot, 2 calls of any kind, one failure of any kind at any point, then crashes, fair | `InstancesAreOwned`, `DevicesAreKnown`, `EntriesNameTheirGpu`, `CleanUpDestroysAll`, `CallsReturn`, types |
| `nodes` | 1 node, a caller with and one without `nodesInfoMtx`, 2 configurations, one fault of ten kinds, fair | `ConfigArrives`, `FilesWhole`, `ReadyByAnother`, `NodeRecovers`, `SilentNodeIsNoticed`, types |
| `logs` | a pod that exists and may be gone before the informer lists it, one that starts later, 2 lines each, buffers of 1, fair | `LinesInOrder`, `WholeLogs`, `PanicOnlyIfCancelled`, `IsAChannel`, `QueryEnds`, `LogsAreClosed` |
| `functions` | 2 FaSTPods, both always of one function, 3 writes (creations and edits) by anyone, one fault, fair | `DatabaseFollows`, `InitContainersStarted`, `ServiceConverges` |
| `database` | 1 pod, 2 resources, 2 sessions, nested transactions | `IsARelationStore`, `Consistent`, `CallsInOrder`, `QueriesAreRight`, types |
| `mps_refresh_race`, `scale_to_zero`, `deletion_race` | the smallest instance that shows it | disagreements, section 6 |

Bounds and why they are enough. Two ports make the bitmap wrap and run full with
three FastPods. Memory 2 and usage 3 with requests of size 1 and 2 give a pod
that fits and one that does not, in both dimensions. `MaxDrift` cuts off usages
below -1, which repeated re-configurations would push down without end; -1 is
already below what any sum can be. In the controller, names are the bound: a
sync starts only if there are unused names for the pods it would make
(`NamesFor`); two names are enough for stale caches to create a pod too many and
to delete one twice. A Create may fail, and users may scale up, only while names
are left (`NamesLeft`). With `MaxEvents` = 1 the caches lag by one event and by any number
of syncs, and the next change of a pod waits for it; `two_fastpods` has two events.
`MaxRemovals` = 2 lets the same pod be removed by two goroutines, `MaxScales` = 1 and,
in `faults`, `MaxFaults` = 1 are one change or fault at any point of the whole run. Larger
instances pass too and are left out for their time (three to four minutes):
`scale_and_delete` without the fault and `MaxEvents` = 2 (3.1 million states), and with
`update` as the one fault (2.15 million),
`faults` with `MaxEvents` = 2 (170,000 states), `faults` with `MaxEvents` = 2,
`MaxScales` = 1 and `Fresh` = {} (181,000). Symmetry
(pod names of one FaSTPod, workers) is used in the runs without liveness
properties. `scale_and_delete` and `deletion_race` do not check for deadlock:
once the only FaSTPod is deleted nothing is left to do.

In the configurator one slot is enough for two calls to meet on every object, to
find no room, and to have a UUID used again; a call takes at most one object, so
two calls show every pair of overlapping critical sections. `UseMps` = {TRUE} has
the calls without MPS too, where the daemon is enabled already. With a physical
GPU beside the slot (`Physical = {p1}`, `Failures = {"crash"}`, without
`CallsReturn`) the same properties pass on 0.6 million states; the cfg leaves it out
because the liveness check would take too long. `OneAtATime` serialises EnableMPS,
DisableMPS and ReleaseVirtualGPU in `mps_refresh_race`, as `nodesInfoMtx` does in
the controller manager; `configurator` does not rely on it.

In `nodes`, every connection after the first follows a fault, so `MaxFaults` = 1
gives two connections whose handlers overlap. Two configurations are enough for one
to overtake or overlap the other. One heartbeat under way (`MaxQueue`) is enough for
a heartbeat of the old connection to be read after the new one is set up. A new
connection after 2 failed heartbeats, 3 in the code, has the same cases: success
in between, or not. In `logs`, buffers of 1 (1000 in the code) run full; two lines
are the least that can change order, the second has no time stamp. In `functions`,
three writes let a function be created twice, updated, and one of the two deleted,
in all orders. In `database`, the requests of the sessions have at most one call beside the values
(one update has two, an add and a clear), and `CallsInOrder` looks at all updates of up to three calls (`MaxCalls`) on every
contents that is reached; a depth of 2 is one nested TxWrap. `nodes`, `logs`, `functions` and
`database` do not check for deadlock: writes, versions and lines run out, and a
session may wait for ever.

Fairness of `nodes`: the connection goroutine and the handlers run, tickers fire, the
kubelet restarts both processes and kills one that does not end. Nothing is assumed of
the callers, the writers, of `Stop` or of a stalled process: `NodeRecovers` is about
behaviours in which the node is not stalled for ever. Of `logs`: every goroutine runs,
and weak fairness of each branch of the select, since Go picks among the ready ones at
random; a listed pod is either handed to OnAdd or was deleted before the informer listed
it (`InformerMisses`), so `QueryEnds` has an exception: the informer missed all the pods
that were listed and no other pod comes. Nothing of the client. Of `functions`: informer, resync (every five minutes),
handlers, worker and garbage collector; nothing of users, requests and faults.

`BookingsAreKept` and `LivePodsAreBooked` share the work for late removals: the first has
pods of three types on one GPU and reaches the case in which the removal of a pod of
another type drops the entry of the new tenant, its one exception; the second has the
whole controller, with FaSTPods of one type.

Fairness of the configurator (`FairConfSpec`): strong for the steps of a call, for
the same reason (goroutines run, mutexes are handed over); starting calls, crashes
and the restart are not fair.

Fairness of the controller (`Fairness`). Weak for what the Go runtime, the informers, the kubelet
and the deployment keep running: goroutines that can take a step, events under
way, the resync (every 30 s), termination of pods, the node's connection, the
restart. Strong for taking a key of the work queue, which is first in first out,
and for `fstp2PodsMtx`, which Go hands over to a goroutine that has waited for a
millisecond. Faults and user actions are not fair.

`ReplicasAreReached` says that the number is reached, not that it stays: with
expectations that nobody looks at, a cache that lags for ever behind at the
wrong moments can make the controller create and delete in turn for ever. No
document of the repository promises more.

## 4. Proofs

Every invariant and every action property that a passing run checks, and every refinement, is also a theorem,
for all values of the constants: any sets of pods, GPUs, workers, calls, sessions and
rows, any sizes, buffers and bounds. Eight modules hold the proofs.

| module | theorems, each `Spec => []P` or `Spec => P` |
|---|---|
| `GpuLedgerProofs` | `TypeCorrect`, `OneModeAlways`, `PortsAlwaysDistinct`, `NeverOverCapacity`, `SelectionsAlwaysValid`, `MpsAlwaysRuns`, `BooksAlwaysBalanced` |
| `BookingProofs` | `BookingsAlwaysKept` |
| `FaSTPodControllerProofs` | `ControllerTypeCorrect`, `ControllerImplementsLedger` (`Spec => LedgerSpec`), `ControllerKeepsLedger`, `LivePodsKeepTheirBookings`, `LivePodsStayBooked`, `NoShareLeaks` |
| `NodeConnectionProofs` | `ConnectionTypeCorrect`, `FilesStayWhole`, `LastConfigArrives`, `ReadyOwedToAnother` |
| `ConfiguratorProofs` | `ConfTypeCorrect`, `InstancesKeepOwners`, `DevicesStayKnown`, `EntriesKeepTheirGpu`, `NothingOutlivesCleanUp` |
| `FunctionOperatorProofs` | `OperatorTypeCorrect`, `DatabaseFollowsFaSTPods`, `InitContainersAreStarted` |
| `FunctionLogsProofs` | `LinesArriveInOrder`, `PanicsOnlyIfCancelled`, `LogsAreWhole`, `LogsAreAChannel` (`Spec => IsAChannel`) |
| `EntClientProofs` | `ClientTypes`, `ContentsAreConsistent`, `CallsAreInOrder`, `QueriesStayRight`, `ClientIsARelationStore` (`Spec => IsARelationStore`) |

Each has one theorem `...Invariance` for its inductive invariant; below it there is one
lemma per action. None of the properties is inductive alone.

**Ledger** (`LedgerInv`). That a request is booked on a GPU of its own mode needs what
ScheduleRequest found to be still true (`SelectionStaysValid`); that needs at most one
selection at a time (`OneSelection`: no other booking comes in between) and that
removals only make room, because shares and memory are never negative (`TypeOK`).
`EntriesOK` ties an entry together: only the list of the GPU's mode is not empty, usage
is at most `Cap` and booked memory at most the memory. Ports need that a free position
is not one of a recorded pod: `PortsDistinct` holds both halves, recorded ports are set,
and distinct; since a removal takes one request out and clears its port only, no other
recorded port is cleared. `BooksAlwaysBalanced` is about sums: `TotalIs` and `TotalWithout`
say what a sum over a list with one pod more or less is, by induction over finite sets
(through the smallest set on which it fails), and `FiniteLists` is the invariant that the
lists are finite.

**Controller** (`ControllerInv`, `LiveInv`). `MutexOK` ties `fstp2PodsMtx` to the ledger:
one worker is between Lock and Unlock, and a selection waits only there. With it every
step maps to a step of the ledger, or to none, and what is proved of the ledger holds
here (`ControllerKeepsLedger`). `BookInv` says that the lists of an entry hold pods of
their own type, each once, and that a ledger with entries has a node. A live pod stays
booked because nobody is about to remove it; this needs that a pod is created under a
name that nobody has used (`Untouched`: not in a cache, an event, the victims of a
worker, a list of a collector) and is booked by then.

Three theorems have hypotheses, and they are needed:

* `LivePodsKeepTheirBookings`: no Delete of reconcileReplicas fails; after a failed one
  the goroutine goes on and removes the booking of a pod that still runs
  (`mgr/controller.go:633`). FaSTPods of any types may share a GPU. It says by which step
  alone a pod that runs, or is about to be created, can lose its booking: the clean-up of
  its own FaSTPod, or a removal of a pod of another type (or an Exclusive one) that finds
  its own list empty and drops the entry. The second does happen; the code does not keep
  running pods booked on a GPU that changes its mode.
* `LivePodsStayBooked`: moreover the pods of one GPU are of one type and none is Exclusive
  (`SharedByOneType`), so that the second case is ruled out; then a pod that runs is booked
  or `CleanedUp`. The clean-up may be at any point, and its Deletes may fail.
* `NoShareLeaks`: no Create fails, since a failed Create leaves the booking.

**Connection** (`ConnectionInv`). `InOrder` follows a configuration from its caller to the
files: each one is sent or about to be, only the last one sent is being written, and the
files hold it when it is. `OneWriter` says what the files hold while there is one writer.
`HandlersOK`: a client is closed by its handler, last of all, and a node that is Ready has
a handler in its loop; from which it follows that a Ready node with a closed client owes
it to another connection.

**Configurator** (`ConfInv` = `ObjectsInv`, whatever the hardware does, and
`HardwareInv`). `LocksOK` says which call holds which mutex, `HandlesOK` and `ProgressOK`
what an object has at each step of Access and Release. An object *claims* a GPU instance
that it has to give a compute instance or to destroy; `ClaimsOK`: what is claimed exists
and is claimed once, though old objects stay around with the same handles. `OwnersOK` and
`ListedOK`: an instance without a compute instance has its call, and a device that is not
in `provisionedGPUs` has a call that will list it. `EntriesKeepTheirGpu` is about the
moment of a lookup only: an object that was looked up may be released before it is used.

**Operator** (`OperatorInv`). A change is followed on its way: what waits in the watch
leads from the cache to the FaSTPod (`WatchLeadsOn`), the last event tells what the cache
holds (`LastEvent`), and with none waiting the database agrees with the cache but for
deletions on their way (`Recorded`, `Started`; a DaemonSet is owed to a FaSTPod whose init
containers were there when it was made, `Owed`). Nothing is said after a failed read of an
event's object or a new list, whose effects the properties exclude too.

**Logs** (`LogsInv`). The `Pipe`, what is delivered and what the channels and the
forwarder hold, has every line up to the one its reader is at, once and in order; GetLogs
counts the streams that are active (`WatchingOK`); only a cancellation closes `added`, or
leaves a reader without its podLogs.

**Database client** (`ClientInv`). The contents are `Sound`; a session that writes is
alone; the view of one that reads is the database; a view that no error has broken is
sound. The lemmas below it show that the statements of an operation together have the
outcome that `Relations` gives, for any number of calls and rows: the effect of the calls
in their order, and exactly the links of `StillAdded` besides. What a recursive
function computes is proved through the least place at which it would be wrong
(`LeastNat`, `PlacesInduction`), since the library's induction takes an operator as a
parameter.

Assumed of the constants: `SizeAssumption` (at least one port), `LedgerAssumption`
(types; `NoPod` is no pod), `ControllerAssumption` (types; first replicas are among the
replicas; finitely many pod names), `ConfiguratorAssumption` and `ApiAssumption` (types;
values that stand for nothing are none of the others), `LogsAssumption` (existing, later
and ghost pods differ; at least one line and one place in a buffer),
`ConnectionAssumption` (bounds are natural), `RelationsAssumption` (0 is no id; tables are
finite), `ClientAssumption` (requests are operations of the builders). TLC evaluates them
in every run.

Only model-checked: the liveness properties (`ReplicasAreReached`, `CallsReturn`,
`NodeRecovers`, `SilentNodeIsNoticed`, `QueryEnds`, `LogsAreClosed`, `ServiceConverges`),
which are out of the prover's reach, and the disagreements of section 6.

## 5. Left out

* Shares are integers (`QtRequest * SMPartition / 100` in units of 1/`Cap`): no
  rounding of floats. `QtLimit` and the text of the configurations are data.
* The packing of the bitmap into 64-bit words.
* Status maps of a FaSTPod, recorder events, the database, logging, the map
  `fastPodToPhysicalGPUs` and the list `fstp2Pods`, which nothing reads.
* Error code 2 of RequestGPUAndUpdateConfig ("Waiting4Dummy"): a node that
  ScheduleRequest found is never forgotten, so the branch is not reached.
* A Create that fails because the namespace is terminating counts as a failed one.
* reconcileResourceConfig without `nodesInfoMtx` is one action per pod; what a read
  of a list that is being changed may return is not modelled. syncHandler compares the
  quotas only, so a changed SM partition alone is not noticed; resourceValidityCheck
  looks at the annotations of the pod and is data.
* One node; nodes are independent of each other in the ledger. FaSTPods that have
  no selector, pods that fail or are deleted by others.
* The `functions` run has one function label (`Labels` = {f}), which all its FaSTPods
  share: no run has FaSTPods of two functions, or one that changes its label.
* After a restart the ledger is empty though pods run. The code does not rebuild
  it, nothing promises it, and `LivePodsAreBooked` is about the pods that the
  present process has created.
* The scheduling strategies of `scheduler.go` that nothing calls.
* Configurator: several MIG profiles and GPUs (each VirtualGPU belongs to one);
  NVML calls that fail during a refresh, which skip a device; two starts of the
  same daemon are one; a handle of a destroyed instance is taken to be one of the
  next instance in the slot; GetGPU and GetHealth only read; UpdateMPSConfigs
  writes configuration files. The concurrent map accesses, which the Go runtime
  may answer with a fatal error, are atomic here.
* `GpuLedger` takes a successful EnableMPS to mean that the daemon runs. After
  `mps_refresh_race` or a crash of the configurator that is not so:
  `MpsRunsWhileRecorded` is about what the manager was told.

* `NodeConnection`: the two RPCs of a new connection, Health and GetAvailableGPUs
  (`mgr/node_init.go:83`, 90), are one step with the outcomes of both; several nodes (each has its own entry, client and files); the
  text of the files; updateNodeGPUAnnotation and sendNodeHeartbeats, which nothing
  calls; the connection to the address of the function controller, which only
  competes for the signal. RequestVirtualGPU and the like use the same client and are
  part of `GpuLedger` and `Configurator`.
* Gateway: the list, replica, info and proxy handlers, which only read; request
  parsing and responses. The fields of Services and DaemonSets. deletePodInfo has an
  empty body. `OperatorTypeOK` and `TypeOK` of `FunctionLogs` are proved and not in the cfgs.
* Logs: what the API server does with tail and since; the times of messages; a last line
  without a newline, which the reader drops.
* Database: bulk upserts, predicates, aggregates, GroupBy, hooks, the scanning of
  rows. An upsert conflicts on its own id only: one whose `node_name` is that of another
  row is refused here, and updates that row in the code (`ent/resource_create.go:265`).
  Nothing in the repository stores anything in the database yet.
* Generated code: protocol buffers, deepcopy, clientset, informers, listers. MIG
  commands run nvidia-smi and parse what it prints.

## 6. Disagreements found

* `mps_refresh_race`: a refresh between the lookup of DisableMPS and its end keeps
  isEnabled of a stopped daemon (`cfgr/virtual_resource.go:357`), so that EnableMPS
  starts nothing, against `cfgr/mps.go:17` and `cfgr/server_methods.go:201`.
* `scale_to_zero`: getPodsToDelete returns nil when all pods have to go, and
  reconcileReplicas waits for ever with `fstp2PodsMtx` held
  (`mgr/controller.go:627`); `types.go:68` names zero as a value of its own.
* `deletion_race`: a worker books a pod after removeFaSTPodFromList has listed the
  pods (`mgr/gpu_manager.go:394`); it stays booked for ever.

Others that the models contain, without a run of their own:

* A re-configuration leaves `Usage` at the old share (`mgr/controller.go:696`), against
  the comment at `mgr/gpu_manager.go:69`.
* The second MPS pod of a GPU passes canFitMPSPod and panics in FindInQueue
  (`mgr/gpu_manager.go:185`), against `mgr/scheduler.go:349`.
* A removal that comes after the clean-up drops the entry of the GPU's next tenant
  (`mgr/gpu_manager.go:340`), against `Changes.md:94`.
* removeFaSTPodFromList takes a pod off the ledger before it deletes it, and only logs a
  failed Delete (`mgr/gpu_manager.go:488`), against "delete the pods of the fastpod" at
  `mgr/gpu_manager.go:387`: until the garbage collector comes the pod runs unbooked, with a
  port that is free.
* A refresh that has looked up an entry panics when a Release of it comes before
  `old.ProvisionedGPU` is used (`cfgr/virtual_resource.go:330`, 357, 637): `RefreshPanics`.
* A log query that does not follow, and whose listed pods are all deleted before the
  informer's own list, does not end by itself (`gw/k8s/logs.go:190`, 210, 74): the count of
  streams is never lowered.
* Init containers that are added to an existing FaSTPod get no DaemonSet: an update only
  reaches enqueueFaSTPod (`fun/controller.go:130`).
* An update whose builder is told to add a link and then to clear all links keeps the added
  one (`ent/mutation.go:274`, `ent/pod_update.go:150`), against "clears all" at
  `ent/pod_update.go:81`: `StillAdded`, the exception of `CallsInOrder`.
* The gateway writes FaSTPods without replicas (toFastpod), and `mgr/controller.go:152`
  dereferences the replicas of every FaSTPod it sees.
* The comment at `mgr/node_init.go:17` says that a new connection is sent the
  configuration of its pods; the code for it is commented out (`mgr/node_init.go:266`).
  Hence `missed` in `ConfigArrives`.
* `gw/k8s/log.go:48` says that the forwarder ends when the context is cancelled; when
  the client has gone and `msgStream` is full, it waits for ever.
* Three comments of `fun/controller.go` (273, 283, 301) say that a sync that fails is
  requeued; processNextWorkItem (222) only reports the error. `ServiceConverges`
  holds because of the resync.

## 7. Plan

1. Controller: failed and evicted pods; the status maps that the deletion goroutines
   write; FaSTPods without replicas, on which UpdateFunc panics; Exclusive and MIG instances in the controller runs.
2. `Configurator`: two slots and profiles, physical GPUs in a run of its own, the
   abstract node (`provisioned`, `mpsOn`) that `GpuLedger` assumes and how far the
   configurator implements it.
3. Connection and ledger together: `registered` and failing RPCs of `GpuLedger` as what
   `NodeConnection` gives, with the configuration as the pod list of the ledger.
4. Pure algorithms: the packed bitmap against the set of positions, slowStartbatch,
   the order of ActivePodsWithRanks.
5. Proofs: the port pool as an abstract set that `Bitmap` implements; the abstract
   node that `GpuLedger` assumes, implemented by `Configurator`, once 2 is modelled;
   `LivePodsAreBooked` with weaker hypotheses than one type per GPU (Exclusive pods
   whose FaSTPod is never deleted).
