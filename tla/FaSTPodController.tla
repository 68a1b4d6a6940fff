------------------------- MODULE FaSTPodController --------------------------
(***************************************************************************)
(* The FaSTPod controller (controller.go) on top of the GPU ledger: the    *)
(* work queue and its workers, the informer caches that lag behind the API *)
(* server, syncHandler with reconcileReplicas, the goroutines that delete  *)
(* pods, and the goroutine that cleans up after a deleted FaSTPod.         *)
(*                                                                         *)
(* Every FaSTPod names its GPU, so all of its pods have one GPU, type and  *)
(* size; their share is the quota annotation of the FaSTPod, which users   *)
(* change.  A worker step ends where another goroutine can come in: at a   *)
(* lock, at an RPC or API call, at the end of a goroutine.                 *)
(***************************************************************************)
EXTENDS GpuLedger, Sequences, FiniteSets

CONSTANTS
    FaSTPods,      \* keys of FaSTPods
    Workers,       \* the goroutines that run runWorker
    Gone,          \* the FaSTPod does not exist, or is not in the cache
    NoKey,         \* a worker without a FaSTPod
    Owner,         \* the FaSTPod a pod name belongs to
    UseOf,         \* the share annotated to a FaSTPod when the controller starts
    Fresh,         \* FaSTPods that the controller has never written, in no earlier life either
    Replicas,      \* values of spec.replicas users choose for a FaSTPod
    FirstReplicas, \* spec.replicas when the controller starts
    MaxScales,     \* how often users change spec.replicas or the share
    Deletable,     \* FaSTPods that users may delete
    Faults,        \* kinds of faults: a subset of FaultKinds
    MaxFaults,     \* how many faults happen
    MaxEvents,     \* pod events under way at a time
    MaxRemovals    \* goroutines that remove one pod from the ledger at a time

FaultKinds == {"rpc", "create", "delete", "cleanup", "update", "crash"}

NoShare == -1      \* Status.ResourceConfig is empty, as in a FaSTPod nobody has written yet
NotApplied == -2   \* it is empty, and the FaSTPod has been written

ASSUME ControllerAssumption ==
    /\ Gone \notin Nat
    /\ MaxEvents \in Nat \ {0} /\ MaxRemovals \in Nat \ {0}
    /\ NoKey \notin FaSTPods
    /\ NoPod \notin Workers
    /\ Owner \in [Pods -> FaSTPods]
    /\ UseOf \in [FaSTPods -> Uses]
    /\ Replicas \in [FaSTPods -> SUBSET Nat]
    /\ FirstReplicas \in [FaSTPods -> Nat]
    /\ \A x \in FaSTPods : FirstReplicas[x] \in Replicas[x]
    /\ IsFiniteSet(Pods)
    /\ Deletable \subseteq FaSTPods /\ Fresh \subseteq FaSTPods
    /\ Faults \subseteq FaultKinds
    /\ \A p, q \in Pods : Owner[p] = Owner[q] =>
          /\ TypeOf[p] = TypeOf[q]
          /\ GpuOf[p] = GpuOf[q]
          /\ MemOf[p] = MemOf[q]

VARIABLES
    want,          \* API server: spec.replicas
    quota,         \* API server: the share annotated to a FaSTPod, and the one in Status.ResourceConfig
    pod,           \* API server: pods
    podEvents,     \* events of the pod watch that are under way
    podCache,      \* the pod lister
    wantCache,     \* the FaSTPod lister: spec.replicas
    quotaCache,    \* the FaSTPod lister: quota
    current,       \* FaSTPods whose cached version is the one of the API server
    basis,         \* FaSTPods whose version at their worker is the one of the API server
    dirty,         \* work queue: keys to process
    processing,    \* work queue: keys that workers process
    worker,        \* what each worker does
    fstp2PodsMtx,  \* the worker that holds the mutex
    removals,      \* per pod, goroutines of reconcileReplicas after wg.Done()
    collector,     \* per FaSTPod, the goroutine of handleDeletedFaSTPod
    scales, faults,\* how many happened
    born           \* history: the pods that this process has created

apiVars   == <<want, quota, pod, podEvents>>
cacheVars == <<podCache, wantCache, quotaCache, current>>
queueVars == <<dirty, processing>>
boundVars == <<scales, faults, born>>

vars == <<ledgerVars, apiVars, cacheVars, basis, queueVars, worker, fstp2PodsMtx,
          removals, collector, boundVars>>

-----------------------------------------------------------------------------
PodStates == {"none", "active", "terminating"}
NoQuota == [share |-> NoShare, applied |-> NoShare]

Idle == [pc |-> "idle", key |-> NoKey, existed |-> {}, want |-> 0, share |-> NoShare,
         config |-> {}, manageReError |-> FALSE, synced |-> FALSE, failed |-> FALSE,
         pod |-> NoPod, left |-> 0, size |-> 0, batch |-> 0, victims |-> {}, wg |-> 0]

\* pods: those still to be taken off; victim: the one whose Delete is to come; failed: those whose Delete failed.
NoCollector == [pc |-> "none", pods |-> {}, victim |-> NoPod, failed |-> {}]

Free == NoPod      \* nobody holds the mutex

\* A pod of the FaSTPod that filterInactivePods keeps.
ActivePods(x, view) == {p \in Pods : Owner[p] = x /\ view[p] = "active"}

\* The request for pod p, with the share of the version that worker w has read.
Req(w, p) == [key |-> p, use |-> worker[w].share]

\* removeFaSTPodFromList holds nodesInfoMtx for all of its pods.
NodesInfoFree == \A x \in FaSTPods : collector[x].pc # "loop"

\* RandStr makes a name that nothing refers to.
Unused(p) ==
    /\ pod[p] = "none"
    /\ podCache[p] = "none"
    /\ removals[p] = 0
    /\ \A i \in 1 .. Len(podEvents) : podEvents[i].pod # p
    /\ \A g \in DOMAIN vGPUID2GPU : p \notin Keys(vGPUID2GPU[g])
    /\ \A w \in Workers : p \notin worker[w].existed \cup worker[w].config \cup worker[w].victims \cup {worker[w].pod}
    /\ \A x \in FaSTPods : p \notin collector[x].pods \cup collector[x].failed \cup {collector[x].victim}

\* A booked pod that runs, is about to run or is going to be removed.
AccountedFor(p) ==
    \/ pod[p] = "active"
    \/ removals[p] > 0
    \/ \E w \in Workers : worker[w].pod = p /\ worker[w].pc = "create"

\* The names left for x when failed Creates have left some booked (a bound of the model).
NamesLeft(x) == {p \in Pods : Owner[p] = x /\ (Booked(p) => AccountedFor(p))}

Fault(kind) ==
    /\ kind \in Faults
    /\ faults < MaxFaults
    /\ faults' = faults + 1

-----------------------------------------------------------------------------
(***************************************************************************)
(* The API server and the kubelet (external).                              *)
(***************************************************************************)
SetPod(p, state) ==
    /\ Len(podEvents) < MaxEvents
    /\ pod' = [pod EXCEPT ![p] = state]
    /\ podEvents' = IF up THEN Append(podEvents, [pod |-> p, state |-> state]) ELSE podEvents

\* Delete of a pod: it terminates, unless it does already or is gone.
DeletePod(p) ==
    IF pod[p] = "active" THEN SetPod(p, "terminating") ELSE UNCHANGED <<pod, podEvents>>

\* Any write to a FaSTPod makes the versions the controller holds old ones.
NewVersion(x) == current' = current \ {x} /\ basis' = basis \ {x}

Scale(x, n) ==
    /\ scales < MaxScales
    /\ want[x] \notin {n, Gone} /\ n <= Cardinality(NamesLeft(x))
    /\ want' = [want EXCEPT ![x] = n]
    /\ scales' = scales + 1
    /\ NewVersion(x)
    /\ UNCHANGED <<ledgerVars, quota, pod, podEvents, podCache, wantCache, quotaCache, queueVars,
                   worker, fstp2PodsMtx, removals, collector, faults, born>>

\* The quota annotations are changed.
Reconfigure(x, use) ==
    /\ scales < MaxScales
    /\ want[x] # Gone /\ quota[x].share # use
    /\ quota' = [quota EXCEPT ![x].share = use]
    /\ scales' = scales + 1
    /\ NewVersion(x)
    /\ UNCHANGED <<ledgerVars, want, pod, podEvents, podCache, wantCache, quotaCache, queueVars,
                   worker, fstp2PodsMtx, removals, collector, faults, born>>

DeleteFaSTPod(x) ==
    /\ x \in Deletable
    /\ want[x] # Gone
    /\ want' = [want EXCEPT ![x] = Gone]
    /\ NewVersion(x)
    /\ UNCHANGED <<ledgerVars, quota, pod, podEvents, podCache, wantCache, quotaCache, queueVars,
                   worker, fstp2PodsMtx, removals, collector, boundVars>>

\* The garbage collector deletes a pod whose owner is gone.
CollectGarbage(p) ==
    /\ want[Owner[p]] = Gone
    /\ pod[p] = "active"
    /\ SetPod(p, "terminating")
    /\ UNCHANGED <<ledgerVars, want, quota, cacheVars, basis, queueVars, worker,
                   fstp2PodsMtx, removals, collector, boundVars>>

\* The kubelet has stopped the containers.
Terminate(p) ==
    /\ pod[p] = "terminating"
    /\ SetPod(p, "none")
    /\ born' = born \ {p}
    /\ UNCHANGED <<ledgerVars, want, quota, cacheVars, basis, queueVars, worker,
                   fstp2PodsMtx, removals, collector, scales, faults>>

-----------------------------------------------------------------------------
(***************************************************************************)
(* The informers and their handlers.                                       *)
(***************************************************************************)
enqueueFaSTPod(x) == dirty' = dirty \cup {x}

\* The new version reaches the cache; a deletion starts removeFaSTPodFromList.
FaSTPodEvent(x) ==
    /\ up
    /\ x \notin current
    /\ want[x] # Gone \/ wantCache[x] # Gone
    /\ current' = current \cup {x}
    /\ wantCache' = [wantCache EXCEPT ![x] = want[x]]
    /\ quotaCache' = [quotaCache EXCEPT ![x] = quota[x]]
    /\ IF want[x] = Gone
       THEN /\ collector' = [collector EXCEPT ![x].pc = "started"]
            /\ UNCHANGED dirty
       ELSE /\ enqueueFaSTPod(x)
            /\ UNCHANGED collector
    /\ UNCHANGED <<ledgerVars, apiVars, podCache, basis, processing, worker,
                   fstp2PodsMtx, removals, boundVars>>

\* The handlers for added and updated pods are commented out, handleObject handles deleted ones.
handleObject(event) ==
    IF event.state = "none" /\ wantCache[Owner[event.pod]] # Gone
    THEN enqueueFaSTPod(Owner[event.pod])
    ELSE UNCHANGED dirty

PodEvent ==
    /\ up
    /\ podEvents # <<>>
    /\ podCache' = [podCache EXCEPT ![Head(podEvents).pod] = Head(podEvents).state]
    /\ podEvents' = Tail(podEvents)
    /\ handleObject(Head(podEvents))
    /\ UNCHANGED <<ledgerVars, want, quota, pod, wantCache, quotaCache, current, basis, processing, worker,
                   fstp2PodsMtx, removals, collector, boundVars>>

\* The periodic resync calls UpdateFunc, which enqueues a FaSTPod that has not changed too.
Resync(x) ==
    /\ up
    /\ wantCache[x] # Gone
    /\ enqueueFaSTPod(x)
    /\ UNCHANGED <<ledgerVars, apiVars, cacheVars, basis, processing, worker,
                   fstp2PodsMtx, removals, collector, boundVars>>

-----------------------------------------------------------------------------
(***************************************************************************)
(* processNextWorkItem and syncHandler                                     *)
(***************************************************************************)
\* There are names for the pods that a sync would create (a bound of the model).
NamesFor(x) ==
    wantCache[x] - Cardinality(ActivePods(x, podCache))
        <= Cardinality({p \in Pods : Owner[p] = x /\ Unused(p)})

\* The key is taken and syncHandler reads the two listers; it returns if the FaSTPod is gone.
\* The share is looked at if it is not the one that was applied.
processNextWorkItem(w, x) ==
    LET changed == quotaCache[x].share # quotaCache[x].applied
        existed == ActivePods(x, podCache)
        uncounted == quotaCache[x].applied = NoShare /\ wantCache[x] # 0   \* the counts are 0
    IN
    /\ up
    /\ worker[w].pc = "idle"
    /\ x \in dirty \ processing
    /\ dirty' = dirty \ {x}
    /\ IF wantCache[x] = Gone
       THEN UNCHANGED <<worker, processing, basis>>
       ELSE /\ NamesFor(x)
            /\ worker' = [worker EXCEPT ![w] =
                  [Idle EXCEPT !.pc = IF changed /\ existed # {} THEN "config" ELSE "lock",
                               !.key = x, !.want = wantCache[x], !.share = quotaCache[x].share,
                               !.config = IF changed THEN existed ELSE {},
                               !.synced = (changed /\ existed = {}) \/ uncounted,
                               !.existed = existed]]
            /\ processing' = processing \cup {x}
            /\ basis' = IF x \in current THEN basis \cup {x} ELSE basis \ {x}
    /\ UNCHANGED <<ledgerVars, apiVars, cacheVars, fstp2PodsMtx, removals, collector, boundVars>>

(***************************************************************************)
(* reconcileResourceConfig, without nodesInfoMtx: one pod after the other, *)
(* in any order.  A pod that is not in the ledger is passed over; for any  *)
(* other the ledger is rewritten, and then the pod updated, which fails    *)
(* for one that has been deleted meanwhile and ends the loop.  (The two    *)
(* are one step: what others do in between can be done before or after.)   *)
(***************************************************************************)
Configurable(p) == Recorded(p) /\ FindInQueue(p, vGPUID2GPU[GpuOf[p]].fastPodList)

\* The loop goes on; after the last pod the FaSTPod is to be written (syncReStatus).
NextPod(w, p) ==
    LET rest == worker[w].config \ {p} IN
    worker' = [worker EXCEPT ![w].config = rest, ![w].synced = @ \/ rest = {},
                             ![w].pc = IF rest = {} THEN "lock" ELSE "config"]

ConfigurePod(w, p) ==
    /\ up /\ p \in worker[w].config
    /\ \/ ~Configurable(p) /\ NextPod(w, p) /\ UNCHANGED <<ledgerVars, faults>>
       \/ /\ reconcileResourceConfig(p, worker[w].share)
          /\ \/ pod[p] = "active" /\ NextPod(w, p) /\ UNCHANGED faults
             \/ /\ IF pod[p] = "active" THEN Fault("update") ELSE UNCHANGED faults
                /\ worker' = [worker EXCEPT ![w].config = {}, ![w].pc = "lock",
                                            ![w].manageReError = TRUE]
    /\ UNCHANGED <<apiVars, cacheVars, basis, queueVars, fstp2PodsMtx, removals, collector, scales, born>>

\* getPodsToDelete: the sort only decides which pods, and nil when all would have to go.
getPodsToDelete(existed, diff) ==
    IF diff < Cardinality(existed)
    THEN {s \in SUBSET existed : Cardinality(s) = diff}
    ELSE {{}}

Lesser(a, b) == IF a < b THEN a ELSE b

\* What reconcileReplicas does once it has the lock, from what syncHandler read before.
Reconcile(w) ==
    LET old == worker[w]
        diff == Cardinality(old.existed) - old.want
    IN  /\ old.pc = "lock"
        /\ \/ /\ diff = 0
              /\ worker' = [worker EXCEPT ![w] = [old EXCEPT !.pc = "status", !.existed = {}, !.want = 0]]
              /\ UNCHANGED fstp2PodsMtx
           \/ /\ diff < 0
              /\ worker' = [worker EXCEPT ![w] =
                    [old EXCEPT !.pc = "schedule", !.existed = {}, !.want = 0, !.synced = TRUE,
                                !.left = -diff, !.size = 1, !.batch = 1]]
              /\ fstp2PodsMtx' = w
           \/ /\ diff > 0
              /\ \E podsToDelete \in getPodsToDelete(old.existed, diff) :
                    worker' = [worker EXCEPT ![w] =
                        [old EXCEPT !.pc = "wait", !.existed = {}, !.want = 0, !.synced = TRUE,
                                    !.victims = podsToDelete, !.wg = diff]]
              /\ fstp2PodsMtx' = w
        /\ UNCHANGED <<ledgerVars, apiVars, cacheVars, basis, queueVars, removals, collector,
                       boundVars>>

\* A mutated reconcileReplicas: it does not wait for the mutex.
ReconcileUnlocked(w) == Reconcile(w)

reconcileReplicas(w) == fstp2PodsMtx = Free /\ Reconcile(w)

\* A mutated CallReturns: an error returns without the unlock.
CallReturnsLocked(w, err) ==
    LET old == [worker[w] EXCEPT !.pod = NoPod, !.failed = @ \/ err, !.batch = @ - 1] IN
    /\ worker' = [worker EXCEPT ![w] = [old EXCEPT !.pc = "status"]]
    /\ fstp2PodsMtx' = IF err THEN w ELSE Free

\* slowStartbatch: the call is over, the next one of the batch, the next batch, or the end.
CallReturns(w, err) ==
    LET old  == [worker[w] EXCEPT !.pod = NoPod, !.failed = @ \/ err, !.batch = @ - 1]
        left == old.left - old.size
        size == Lesser(2 * old.size, left)
    IN  IF old.batch > 0
        THEN /\ worker' = [worker EXCEPT ![w] = [old EXCEPT !.pc = "schedule"]]
             /\ UNCHANGED fstp2PodsMtx
        ELSE IF old.failed \/ left = 0
        THEN /\ worker' = [worker EXCEPT ![w] =
                   [old EXCEPT !.pc = "status", !.left = 0, !.size = 0, !.batch = 0]]
             /\ fstp2PodsMtx' = Free
        ELSE /\ worker' = [worker EXCEPT ![w] =
                   [old EXCEPT !.pc = "schedule", !.left = left, !.size = size, !.batch = size]]
             /\ UNCHANGED fstp2PodsMtx

\* A panic or a crash: the goroutines, the queue and the caches are gone.
LoseGoroutines ==
    /\ podEvents' = <<>>
    /\ podCache' = [p \in Pods |-> "none"]
    /\ wantCache' = [x \in FaSTPods |-> Gone]
    /\ quotaCache' = [x \in FaSTPods |-> NoQuota]
    /\ current' = {}
    /\ basis' = {}
    /\ dirty' = {}
    /\ processing' = {}
    /\ worker' = [w \in Workers |-> Idle]
    /\ fstp2PodsMtx' = Free
    /\ removals' = [p \in Pods |-> 0]
    /\ collector' = [x \in FaSTPods |-> NoCollector]
    /\ born' = {}
    /\ UNCHANGED <<want, quota, pod, scales>>

\* GetGPU fails: the node did not connect yet, the GPU is not provisioned, or the RPC breaks.
GetGPUFails(req) ==
    /\ ScheduleNoGPU(req)
    /\ IF registered /\ GpuOf[req.key] \in provisioned THEN Fault("rpc") ELSE UNCHANGED faults

\* The closure of reconcileReplicas up to the answer of ScheduleRequest, for a new pod name.
Schedule(w, p) ==
    LET req == Req(w, p) IN
    /\ worker[w].pc = "schedule"
    /\ Owner[p] = worker[w].key
    /\ Unused(p)
    /\ NodesInfoFree
    /\ \/ /\ ScheduleOk(req)
          /\ worker' = [worker EXCEPT ![w].pc = "request", ![w].pod = p]
          /\ UNCHANGED <<fstp2PodsMtx, faults>>
       \/ /\ ScheduleNoFit(req)
          /\ CallReturns(w, TRUE)
          /\ UNCHANGED faults
       \/ /\ GetGPUFails(req)
          /\ CallReturns(w, TRUE)
    /\ UNCHANGED <<apiVars, cacheVars, basis, queueVars, removals, collector, scales, born>>

\* The pod is put into the ledger, or the request is refused.
Request(w) ==
    LET req == Req(w, worker[w].pod) IN
    /\ worker[w].pc = "request"
    /\ NodesInfoFree
    /\ \/ /\ RequestRecorded(req)
          /\ worker' = [worker EXCEPT ![w].pc = "create"]
          /\ UNCHANGED fstp2PodsMtx
       \/ /\ RequestRefused(req)
          /\ CallReturns(w, TRUE)
    /\ UNCHANGED <<apiVars, cacheVars, basis, queueVars, removals, collector, boundVars>>

\* The kube Create of the pod.  If it fails nothing is undone.
Create(w) ==
    /\ worker[w].pc = "create"
    /\ \/ /\ SetPod(worker[w].pod, "active")
          /\ CallReturns(w, FALSE)
          /\ born' = born \cup {worker[w].pod}
          /\ UNCHANGED faults
       \/ /\ Fault("create") /\ want[worker[w].key] # Gone
          /\ want[worker[w].key] < Cardinality(NamesLeft(worker[w].key))
          /\ CallReturns(w, TRUE)
          /\ UNCHANGED <<pod, podEvents, born>>
    /\ UNCHANGED <<ledgerVars, want, quota, cacheVars, basis, queueVars, removals, collector, scales>>

\* A mutated KubeDelete: the pod stays in the ledger.
KubeDeleteForgets(w, p) ==
    /\ p \in worker[w].victims
    /\ DeletePod(p)
    /\ worker' = [worker EXCEPT ![w].victims = @ \ {p}, ![w].wg = @ - 1]
    /\ UNCHANGED <<ledgerVars, want, quota, cacheVars, basis, queueVars, fstp2PodsMtx, removals,
                   collector, boundVars>>

\* A mutated KubeDelete: wg.Done() is called twice.
KubeDeleteDoneTwice(w, p) ==
    /\ p \in worker[w].victims
    /\ removals[p] < MaxRemovals
    /\ DeletePod(p)
    /\ worker' = [worker EXCEPT ![w].victims = @ \ {p}, ![w].wg = @ - 2]
    /\ removals' = [removals EXCEPT ![p] = @ + 1]
    /\ UNCHANGED <<ledgerVars, want, quota, cacheVars, basis, queueVars, fstp2PodsMtx, collector,
                   boundVars>>

\* A goroutine of the deletion: kube Delete, then wg.Done(), then removePodFromList.
KubeDelete(w, p) ==
    /\ p \in worker[w].victims
    /\ removals[p] < MaxRemovals
    /\ \/ /\ DeletePod(p)
          /\ worker' = [worker EXCEPT ![w].victims = @ \ {p}, ![w].wg = @ - 1]
          /\ UNCHANGED faults
       \/ /\ Fault("delete")
          /\ worker' = [worker EXCEPT ![w].victims = @ \ {p}, ![w].wg = @ - 1,
                                      ![w].failed = TRUE]
          /\ UNCHANGED <<pod, podEvents>>
    /\ removals' = [removals EXCEPT ![p] = @ + 1]
    /\ UNCHANGED <<ledgerVars, want, quota, cacheVars, basis, queueVars, fstp2PodsMtx, collector, scales, born>>

RemovePod(p) ==
    /\ removals[p] > 0
    /\ NodesInfoFree
    /\ RemoveAbsent(p) \/ RemoveShrinks(p) \/ RemoveLast(p)
    /\ removals' = [removals EXCEPT ![p] = @ - 1]
    /\ UNCHANGED <<apiVars, cacheVars, basis, queueVars, worker, fstp2PodsMtx, collector, boundVars>>

\* wg.Wait() returns.
WaitReturns(w) ==
    /\ worker[w].pc = "wait"
    /\ worker[w].wg = 0
    /\ worker' = [worker EXCEPT ![w].pc = "status"]
    /\ fstp2PodsMtx' = Free
    /\ UNCHANGED <<ledgerVars, apiVars, cacheVars, basis, queueVars, removals, collector, boundVars>>

\* Done of the work queue; a key whose sync failed is added again.
Done(w, err) ==
    LET x == worker[w].key IN
    /\ worker' = [worker EXCEPT ![w] = Idle]
    /\ processing' = processing \ {x}
    /\ dirty' = IF err THEN dirty \cup {x} ELSE dirty

(***************************************************************************)
(* The end of syncHandler.  The FaSTPod is written if its pods were        *)
(* re-configured, replicas were created or deleted, or the status counts   *)
(* differ from the spec; the write fails when the version is old, and is   *)
(* an event when it changes anything.  After a failed re-configuration     *)
(* the answer of the write is enqueued.                                    *)
(***************************************************************************)
UpdateStatus(w) ==
    LET x == worker[w].key IN
    /\ worker[w].pc = "status"
    /\ \/ /\ ~worker[w].synced /\ ~worker[w].manageReError
          /\ Done(w, FALSE)
          /\ UNCHANGED <<quota, current, basis>>
       \/ /\ x \in basis
          /\ Done(w, worker[w].failed \/ worker[w].manageReError)
          /\ quota' = [quota EXCEPT ![x].applied =
                CASE ~worker[w].manageReError -> worker[w].share
                  [] worker[w].manageReError -> IF @ = NoShare THEN NotApplied ELSE @]
          /\ NewVersion(x) \/ (quota' = quota /\ UNCHANGED <<current, basis>>)
       \/ /\ x \notin basis
          /\ Done(w, TRUE)
          /\ UNCHANGED <<quota, current, basis>>
    /\ UNCHANGED <<ledgerVars, want, pod, podEvents, podCache, wantCache, quotaCache, fstp2PodsMtx,
                   removals, collector, boundVars>>

\* Without a write there is no answer, and a nil is enqueued.
EnqueuePanics(w) ==
    /\ worker[w].pc = "status" /\ ~worker[w].synced /\ worker[w].manageReError
    /\ Crash
    /\ LoseGoroutines
    /\ UNCHANGED faults

-----------------------------------------------------------------------------
(***************************************************************************)
(* removeFaSTPodFromList: the pods are listed, then nodesInfoMtx is taken  *)
(* and each of them is taken off the ledger and deleted.                   *)
(***************************************************************************)
ListPods(x) ==
    /\ collector[x].pc = "started"
    /\ collector' = [collector EXCEPT ![x].pc = "listed",
                        ![x].pods = {p \in Pods : Owner[p] = x /\ podCache[p] # "none"}]
    /\ UNCHANGED <<ledgerVars, apiVars, cacheVars, basis, queueVars, worker, fstp2PodsMtx,
                   removals, boundVars>>

LockNodesInfo(x) ==
    /\ collector[x].pc = "listed"
    /\ NodesInfoFree
    /\ collector' = [collector EXCEPT ![x].pc = "loop"]
    /\ UNCHANGED <<ledgerVars, apiVars, cacheVars, basis, queueVars, worker, fstp2PodsMtx,
                   removals, boundVars>>

\* A pod whose GPU has no entry in the ledger is not deleted here.
CollectPod(x, p) ==
    /\ collector[x].pc = "loop" /\ collector[x].victim = NoPod
    /\ p \in collector[x].pods
    /\ removeFaSTPodFromList(p)
    /\ collector' = [collector EXCEPT ![x].pods = @ \ {p},
                                      ![x].victim = IF Recorded(p) THEN p ELSE NoPod]
    /\ UNCHANGED <<apiVars, cacheVars, basis, queueVars, worker, fstp2PodsMtx, removals, boundVars>>

\* The kube Delete of the pod just taken off; an error is only logged.
DeleteCollected(x) ==
    LET p == collector[x].victim IN
    /\ p # NoPod
    /\ \/ /\ DeletePod(p)
          /\ collector' = [collector EXCEPT ![x].victim = NoPod]
          /\ UNCHANGED faults
       \/ /\ Fault("cleanup")
          /\ collector' = [collector EXCEPT ![x].victim = NoPod, ![x].failed = @ \cup {p}]
          /\ UNCHANGED <<pod, podEvents>>
    /\ UNCHANGED <<ledgerVars, want, quota, cacheVars, basis, queueVars, worker, fstp2PodsMtx,
                   removals, scales, born>>

UnlockNodesInfo(x) ==
    /\ collector[x].pc = "loop"
    /\ collector[x].pods = {} /\ collector[x].victim = NoPod
    /\ collector' = [collector EXCEPT ![x].pc = "done"]
    /\ UNCHANGED <<ledgerVars, apiVars, cacheVars, basis, queueVars, worker, fstp2PodsMtx,
                   removals, boundVars>>

-----------------------------------------------------------------------------
(***************************************************************************)
(* Panics, crashes and restarts.                                           *)
(***************************************************************************)
\* nil answers of a failed RPC, a list with the wrong element, a missing percentage.
WorkerPanics(w) ==
    LET req == Req(w, worker[w].pod) IN
    /\ \/ /\ worker[w].pc = "schedule"
          /\ \E p \in Pods : Owner[p] = worker[w].key /\ SchedulePanic(Req(w, p))
          /\ UNCHANGED faults
       \/ worker[w].pc = "request" /\ RequestPanic(req) /\ UNCHANGED faults
       \/ worker[w].pc = "request" /\ RequestRpcPanic(req) /\ Fault("rpc")
    /\ NodesInfoFree
    /\ LoseGoroutines

RemovalPanics(p) ==
    /\ removals[p] > 0
    /\ NodesInfoFree
    /\ \/ RemovePanic(p) /\ UNCHANGED faults
       \/ RemoveRpcPanic(p) /\ Fault("rpc")
    /\ LoseGoroutines

ProcessCrashes ==
    /\ Fault("crash")
    /\ Crash
    /\ LoseGoroutines

\* The new process waits until its caches are filled.
ProcessRestarts ==
    /\ Restart
    /\ podCache' = pod
    /\ UNCHANGED <<apiVars, wantCache, quotaCache, current, basis, queueVars, worker, fstp2PodsMtx,
                   removals, collector, boundVars>>

NodeConnects ==
    /\ ~registered
    /\ handleNodeConnection
    /\ UNCHANGED <<apiVars, cacheVars, basis, queueVars, worker, fstp2PodsMtx, removals,
                   collector, boundVars>>

-----------------------------------------------------------------------------
Init ==
    /\ LedgerInit
    /\ want = FirstReplicas
    /\ quota = [x \in FaSTPods |->
          [share |-> UseOf[x], applied |-> IF x \in Fresh THEN NoShare ELSE UseOf[x]]]
    /\ quotaCache = [x \in FaSTPods |-> NoQuota]
    /\ pod = [p \in Pods |-> "none"]
    /\ podEvents = <<>>
    /\ podCache = [p \in Pods |-> "none"]
    /\ wantCache = [x \in FaSTPods |-> Gone]
    /\ current = {}
    /\ basis = {}
    /\ dirty = {}
    /\ processing = {}
    /\ worker = [w \in Workers |-> Idle]
    /\ fstp2PodsMtx = Free
    /\ removals = [p \in Pods |-> 0]
    /\ collector = [x \in FaSTPods |-> NoCollector]
    /\ scales = 0
    /\ faults = 0
    /\ born = {}

Sync(w) ==
    \/ \E p \in Pods : ConfigurePod(w, p) \/ Schedule(w, p)
    \/ Request(w)
    \/ Create(w)
    \/ WaitReturns(w)
    \/ UpdateStatus(w)

Collect(x) ==
    \/ ListPods(x)
    \/ LockNodesInfo(x)
    \/ \E p \in Pods : CollectPod(x, p)
    \/ DeleteCollected(x)
    \/ UnlockNodesInfo(x)

Next ==
    \/ \E x \in FaSTPods : \E n \in Replicas[x] : Scale(x, n)
    \/ \E x \in FaSTPods, use \in Uses : Reconfigure(x, use)
    \/ \E x \in FaSTPods :
          DeleteFaSTPod(x) \/ FaSTPodEvent(x) \/ Resync(x) \/ Collect(x)
    \/ \E p \in Pods : CollectGarbage(p) \/ Terminate(p) \/ RemovePod(p) \/ RemovalPanics(p)
    \/ PodEvent
    \/ \E w \in Workers, x \in FaSTPods : processNextWorkItem(w, x)
    \/ \E w \in Workers, p \in Pods : KubeDelete(w, p)
    \/ \E w \in Workers : reconcileReplicas(w) \/ Sync(w) \/ WorkerPanics(w) \/ EnqueuePanics(w)
    \/ ProcessCrashes \/ ProcessRestarts \/ NodeConnects

(***************************************************************************)
(* What runs goes on running: goroutines, watches, the kubelet and the     *)
(* garbage collector.  The work queue is first in first out and a Go mutex *)
(* hands over to a goroutine that has waited, so no key and no worker is   *)
(* passed over for ever.                                                   *)
(***************************************************************************)
Fairness ==
    /\ \A x \in FaSTPods :
          /\ WF_vars(FaSTPodEvent(x))
          /\ WF_vars(Resync(x))
          /\ WF_vars(Collect(x))
          /\ SF_vars(\E w \in Workers : processNextWorkItem(w, x))
    /\ \A p \in Pods :
          /\ WF_vars(CollectGarbage(p))
          /\ WF_vars(Terminate(p))
          /\ WF_vars(RemovePod(p))
    /\ WF_vars(PodEvent)
    /\ \A w \in Workers :
          /\ SF_vars(reconcileReplicas(w))
          /\ WF_vars(Sync(w))
          /\ \A p \in Pods : WF_vars(KubeDelete(w, p))
    /\ WF_vars(NodeConnects)
    /\ WF_vars(ProcessRestarts)

Spec == Init /\ [][Next]_vars

FairSpec == Spec /\ Fairness

-----------------------------------------------------------------------------
(***************************************************************************)
(* Properties                                                              *)
(***************************************************************************)
\* The objects, the caches, the queue and the goroutines have the shape of the Go declarations.
ControllerTypeOK ==
    /\ \A x \in FaSTPods : {want[x], wantCache[x]} \subseteq Replicas[x] \cup {Gone}
    /\ \A x \in FaSTPods : {quota[x], quotaCache[x]} \subseteq
          [share : Uses \cup {NoShare}, applied : Uses \cup {NoShare, NotApplied}]
    /\ pod \in [Pods -> PodStates]
    /\ podCache \in [Pods -> PodStates]
    /\ podEvents \in Seq([pod : Pods, state : PodStates])
    /\ current \subseteq FaSTPods /\ basis \subseteq FaSTPods
    /\ dirty \subseteq FaSTPods /\ processing \subseteq FaSTPods
    /\ \A w \in Workers :
          /\ worker[w].key \in FaSTPods \cup {NoKey}
          /\ worker[w].pod \in Pods \cup {NoPod}
          /\ worker[w].wg \in Nat /\ worker[w].left \in Nat
    /\ fstp2PodsMtx \in Workers \cup {Free}
    /\ removals \in [Pods -> 0 .. MaxRemovals]

\* The clean-up of a deleted FaSTPod has taken p off the ledger, and its Delete is to come or has failed.
CleanedUp(p) == \E x \in FaSTPods : p = collector[x].victim \/ p \in collector[x].failed

\* A pod that this process has created, that runs and that nobody has deleted is in the ledger, with its port and its share, unless removeFaSTPodFromList has just taken it off and its Delete is to come or has failed: neither a removal that comes late, after wg.Done(), nor one made twice from a stale cache takes the booking of another pod away.
LivePodsAreBooked == \A p \in born : pod[p] = "active" => Booked(p) \/ CleanedUp(p)

\* A pod that this process has created and nobody has deleted, or is about to create.
Lives(p) ==
    \/ p \in born /\ pod[p] = "active"
    \/ \E w \in Workers : worker[w].pc = "create" /\ worker[w].pod = p

\* With FaSTPods of any types on one GPU, a pod that lives loses its booking only to the clean-up of its own FaSTPod, or to a late removal of a pod of another type (or an Exclusive one) that drops the entry of the GPU: never to a removal of its own, nor to one of a pod of its type.
LivePodsKeepBookings ==
    [][\A p \in Pods : Lives(p) /\ Booked(p) /\ up' /\ ~Booked(p)' =>
          \/ \E x \in FaSTPods : CollectPod(x, p)
          \/ \E q \in Pods : /\ OtherTenant(q, p)
                             /\ RemovePod(q) \/ \E x \in FaSTPods : CollectPod(x, q)]_vars

\* A pod of a FaSTPod that exists and is in the ledger runs, or is about to be created, or a goroutine that will remove it is under way: scaling up and down through stale caches leaks no share of a GPU and no port.
NothingLeaks == \A p \in Pods : Booked(p) /\ want[Owner[p]] # Gone => AccountedFor(p)

\* Once removeFaSTPodFromList has returned and no worker is busy with the FaSTPod, none of its pods is in the ledger.
CollectorLeavesNothing ==
    \A x \in FaSTPods :
        collector[x].pc = "done" /\ x \notin processing =>
            \A p \in Pods : Owner[p] = x => ~Booked(p)

Reached(x, n) == want[x] # n \/ Cardinality(ActivePods(x, pod)) = n

\* The controller brings a FaSTPod to the number of replicas that is asked for, whatever the caches show on the way (unless the number is changed again).
ReplicasAreReached ==
    \A x \in FaSTPods : \A n \in Replicas[x] : (want[x] = n) ~> Reached(x, n)
=============================================================================
