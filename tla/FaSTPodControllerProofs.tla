----------------------- MODULE FaSTPodControllerProofs -----------------------
(***************************************************************************)
(* Proofs about the FaSTPod controller, for any number of FaSTPods, pods,  *)
(* workers and GPUs: it implements the GPU ledger, the pods that run are   *)
(* booked, and what is booked runs.                                        *)
(***************************************************************************)
EXTENDS BookingProofs, FiniteSetTheorems

(***************************************************************************)
(* The inductive invariant.                                                *)
(***************************************************************************)
PcValues == {"idle", "config", "lock", "schedule", "request", "create", "wait", "status"}

\* Where a worker holds fstp2PodsMtx, and where it creates replicas.
Locked  == {"schedule", "request", "create", "wait"}
Scaling == {"schedule", "request", "create"}

WorkerState ==
    [pc : PcValues, key : FaSTPods \cup {NoKey}, existed : SUBSET Pods, want : Nat,
     share : Uses \cup {NoShare}, config : SUBSET Pods, manageReError : BOOLEAN,
     synced : BOOLEAN, failed : BOOLEAN, pod : Pods \cup {NoPod}, left : Nat, size : Nat,
     batch : Nat, victims : SUBSET Pods, wg : Nat]

\* A worker with a FaSTPod has its share; a batch is not over and within what is left; the wait group counts at least the deletions that have not begun.
WorkerOK(r) ==
    /\ r \in WorkerState
    /\ r.pc # "idle" => r.key \in FaSTPods /\ r.share \in Uses
    /\ r.config # {} => r.pc = "config"
    /\ r.pc \in Scaling => r.batch > 0 /\ r.size > 0 /\ r.size <= r.left
    /\ r.pc \in {"request", "create"} => r.pod \in Pods
    /\ Cardinality(r.victims) <= r.wg

WorkersOK == worker \in [Workers -> WorkerState] /\ \A w \in Workers : WorkerOK(worker[w])

\* One worker at a time is between Lock and Unlock, and a selection waits only there.
MutexOK ==
    /\ fstp2PodsMtx \in Workers \cup {Free}
    /\ \A w \in Workers : worker[w].pc \in Locked => fstp2PodsMtx = w
    /\ selections # {} => \E w \in Workers : worker[w].pc = "request"

QuotaState == [share : Uses \cup {NoShare}, applied : Uses \cup {NoShare, NotApplied}]

\* A FaSTPod has a share, in the API server and, once it is there, in the cache.
FaSTPodsOK ==
    /\ want \in [FaSTPods -> Nat \cup {Gone}] /\ wantCache \in [FaSTPods -> Nat \cup {Gone}]
    /\ \A x \in FaSTPods : {want[x], wantCache[x]} \subseteq Replicas[x] \cup {Gone}
    /\ quota \in [FaSTPods -> QuotaState] /\ quotaCache \in [FaSTPods -> QuotaState]
    /\ \A x \in FaSTPods : /\ quota[x].share \in Uses
                           /\ wantCache[x] # Gone => quotaCache[x].share \in Uses
    /\ current \subseteq FaSTPods /\ basis \subseteq FaSTPods
    /\ dirty \subseteq FaSTPods /\ processing \subseteq FaSTPods

PodsOK ==
    /\ pod \in [Pods -> PodStates] /\ podCache \in [Pods -> PodStates]
    /\ podEvents \in Seq([pod : Pods, state : PodStates])
    /\ born \subseteq Pods

CollectorState ==
    [pc : {"none", "started", "listed", "loop", "done"}, pods : SUBSET Pods,
     victim : Pods \cup {NoPod}, failed : SUBSET Pods]

GoroutinesOK ==
    /\ removals \in [Pods -> 0 .. MaxRemovals]
    /\ collector \in [FaSTPods -> CollectorState]

ControllerInv ==
    /\ LedgerInv /\ BookInv
    /\ WorkersOK /\ MutexOK /\ FaSTPodsOK /\ PodsOK /\ GoroutinesOK

\* Nothing refers to the name p but the worker that has chosen it.
Untouched(p) ==
    /\ pod[p] = "none"
    /\ podCache[p] = "none"
    /\ removals[p] = 0
    /\ \A i \in 1 .. Len(podEvents) : podEvents[i].pod # p
    /\ \A w \in Workers : p \notin worker[w].existed \cup worker[w].victims
    /\ \A x \in FaSTPods : p \notin collector[x].pods \cup collector[x].failed \cup {collector[x].victim}

\* Nobody is about to remove a live pod; a pod about to be created is a name that nobody has used.
NamesInv ==
    /\ \A p \in born : pod[p] = "active" => removals[p] = 0
    /\ \A w \in Workers : worker[w].pc \in {"request", "create"} => Untouched(worker[w].pod)

\* A live pod is booked, or removeFaSTPodFromList has taken it off; a pod about to be created is booked by then.
BookedInv ==
    /\ \A p \in born : pod[p] = "active" => Booked(p) \/ CleanedUp(p)
    /\ \A w \in Workers : worker[w].pc = "create" => Booked(worker[w].pod)

\* The GPU of a pod has pods of one type, which is one of the shared types.
SharedByOneType ==
    /\ \A p \in Pods : TypeOf[p] # "Exclusive"
    /\ \A p, q \in Pods : GpuOf[p] = GpuOf[q] => TypeOf[p] = TypeOf[q]

\* removeFaSTPodFromList runs for FaSTPods that are gone, and lists and deletes their pods only.
CollectedAreGone ==
    \A x \in FaSTPods :
        /\ collector[x].pc # "none" => want[x] = Gone
        /\ \A p \in Pods : p \in collector[x].pods \cup {collector[x].victim} => want[Owner[p]] = Gone

-----------------------------------------------------------------------------
\* What the operators on sequences do to the events of a watch.
LEMMA EventFacts ==
    ASSUME NEW S, NEW s \in Seq(S)
    PROVE  /\ \A e \in S : Append(s, e) \in Seq(S)
           /\ s # <<>> => Head(s) \in S /\ Tail(s) \in Seq(S)
  OBVIOUS

(***************************************************************************)
(* Facts about the state of a worker.                                      *)
(***************************************************************************)
\* The sets of pods of a worker are finite, as names are.
LEMMA PodSetsFinite ==
    ASSUME NEW s \in SUBSET Pods
    PROVE  IsFiniteSet(s) /\ Cardinality(s) \in Nat
  BY FS_Subset, FS_CardinalityType, ControllerAssumption

\* A worker that has nothing to do.
LEMMA IdleOK == WorkerOK(Idle)
<1>1. Cardinality(Idle.victims) = 0
  BY FS_EmptySet DEF Idle
<1>2. Idle \in WorkerState
  BY DEF Idle, WorkerState, PcValues, NoShare
<1>. QED BY <1>1, <1>2 DEF WorkerOK, Idle, Scaling

\* What a step of worker w leaves to the others: their own state (each goroutine has its own stack).
Moves(w, r) ==
    /\ worker' \in [Workers -> WorkerState]
    /\ worker'[w] = r
    /\ \A v \in Workers \ {w} : worker'[v] = worker[v]

\* A worker that goes from one good state to another.
LEMMA MovesOK ==
    ASSUME WorkersOK, NEW w \in Workers, NEW r, WorkerOK(r), worker' = [worker EXCEPT ![w] = r]
    PROVE  Moves(w, r) /\ WorkersOK'
<1>1. r \in WorkerState
  BY DEF WorkerOK
<1>2. Moves(w, r)
  BY <1>1 DEF WorkersOK, Moves
<1>. QED BY <1>2 DEF WorkersOK, Moves

\* Two workers are never between Lock and Unlock, and a selection waits in the one that is.
LEMMA LockedAlone ==
    ASSUME MutexOK, NEW w \in Workers, worker[w].pc \in Locked
    PROVE  /\ \A v \in Workers \ {w} : worker[v].pc \notin Locked
           /\ selections # {} => worker[w].pc = "request"
  BY DEF MutexOK, Locked

\* A step of a worker that leaves the mutex and the selections alone, and has the mutex if it needs it.
LEMMA MutexKept ==
    ASSUME MutexOK, NEW w \in Workers, NEW r, Moves(w, r), UNCHANGED <<fstp2PodsMtx, selections>>,
           worker[w].pc # "request", r.pc \in Locked => fstp2PodsMtx = w
    PROVE  MutexOK'
<1>1. \A v \in Workers \ {w} : worker'[v] = worker[v]
  BY DEF Moves
<1>2. worker'[w] = r
  BY DEF Moves
<1>. QED BY <1>1, <1>2 DEF MutexOK

\* A step of the worker that holds the mutex, after which no selection waits.
LEMMA MutexHeld ==
    ASSUME MutexOK, NEW w \in Workers, NEW r, Moves(w, r), worker[w].pc \in Locked,
           selections' = {} \/ r.pc = "request",
           fstp2PodsMtx' = w \/ (fstp2PodsMtx' = Free /\ r.pc \notin Locked)
    PROVE  MutexOK'
<1>1. \A v \in Workers \ {w} : worker'[v] = worker[v]
  BY DEF Moves
<1>2. worker'[w] = r
  BY DEF Moves
<1>. QED BY <1>1, <1>2, LockedAlone DEF MutexOK

\* The end of a call of slowStartbatch: the worker goes on with the batch, begins a larger one, or unlocks.
LEMMA CallReturnsOK ==
    ASSUME WorkersOK, MutexOK, NEW w \in Workers, worker[w].pc \in Scaling,
           NEW err \in BOOLEAN, CallReturns(w, err), selections' = {}
    PROVE  /\ WorkersOK' /\ MutexOK'
           /\ \E r : /\ Moves(w, r) /\ r.pc \in {"schedule", "status"}
                     /\ r.existed = worker[w].existed /\ r.victims = worker[w].victims
<1>. DEFINE old  == [worker[w] EXCEPT !.pod = NoPod, !.failed = @ \/ err, !.batch = @ - 1]
            left == old.left - old.size
            size == Lesser(2 * old.size, left)
<1>1. WorkerOK(worker[w]) /\ worker[w] \in WorkerState
  BY DEF WorkersOK, WorkerOK
<1>2. /\ old \in WorkerState
      /\ old.victims = worker[w].victims /\ old.wg = worker[w].wg
      /\ old.existed = worker[w].existed
      /\ old.key = worker[w].key /\ old.share = worker[w].share
      /\ old.config = worker[w].config /\ old.pc = worker[w].pc
      /\ old.left = worker[w].left /\ old.size = worker[w].size
  <2>. DEFINE failed == worker[w].failed \/ err
              batch == worker[w].batch - 1
  <2>1. failed \in BOOLEAN
    OBVIOUS
  <2>2. batch \in Nat
    BY <1>1 DEF WorkerOK, WorkerState
  <2>. HIDE DEF failed, batch
  <2>3. old = [worker[w] EXCEPT !.pod = NoPod, !.failed = failed, !.batch = batch]
    BY DEF failed, batch
  <2>. HIDE DEF old
  <2>. QED BY <1>1, <2>1, <2>2, <2>3 DEF WorkerState
<1>3. /\ old.size > 0 /\ old.size <= old.left /\ old.size \in Nat /\ old.left \in Nat
      /\ old.key \in FaSTPods /\ old.share \in Uses /\ old.config = {}
      /\ Cardinality(old.victims) <= old.wg
  BY <1>1, <1>2 DEF WorkerOK, WorkerState, Scaling
<1>4. left \in Nat /\ (left # 0 => size \in Nat /\ size > 0 /\ size <= left)
  BY <1>3 DEF Lesser
<1>5. fstp2PodsMtx = w
  BY DEF MutexOK, Scaling, Locked
<1>6. CASE old.batch > 0
  <2>. DEFINE r == [old EXCEPT !.pc = "schedule"]
  <2>1. worker' = [worker EXCEPT ![w] = r] /\ fstp2PodsMtx' = w
    BY <1>5, <1>6 DEF CallReturns
  <2>. HIDE DEF old
  <2>2. WorkerOK(r) /\ r.pc = "schedule" /\ r.existed = old.existed /\ r.victims = old.victims
    BY <1>2, <1>3, <1>6 DEF WorkerOK, WorkerState, PcValues, Scaling
  <2>. HIDE DEF r
  <2>3. Moves(w, r) /\ WorkersOK'
    BY <2>1, <2>2, MovesOK
  <2>4. MutexOK'
    BY <2>1, <2>3, MutexHeld DEF Locked, Scaling
  <2>. QED BY <1>2, <2>2, <2>3, <2>4
<1>7. CASE ~(old.batch > 0) /\ (old.failed \/ left = 0)
  <2>. DEFINE r == [old EXCEPT !.pc = "status", !.left = 0, !.size = 0, !.batch = 0]
  <2>1. worker' = [worker EXCEPT ![w] = r] /\ fstp2PodsMtx' = Free
    BY <1>7 DEF CallReturns
  <2>. HIDE DEF old
  <2>2. WorkerOK(r) /\ r.pc = "status" /\ r.existed = old.existed /\ r.victims = old.victims
    BY <1>2, <1>3 DEF WorkerOK, WorkerState, PcValues, Scaling
  <2>. HIDE DEF r
  <2>3. Moves(w, r) /\ WorkersOK'
    BY <2>1, <2>2, MovesOK
  <2>4. MutexOK'
    BY <2>1, <2>2, <2>3, MutexHeld DEF Locked, Scaling
  <2>. QED BY <1>2, <2>2, <2>3, <2>4
<1>8. CASE ~(old.batch > 0) /\ ~(old.failed \/ left = 0)
  <2>. DEFINE r == [old EXCEPT !.pc = "schedule", !.left = left, !.size = size, !.batch = size]
  <2>1. worker' = [worker EXCEPT ![w] = r] /\ fstp2PodsMtx' = w
    BY <1>5, <1>8 DEF CallReturns
  <2>2. left \in Nat /\ size \in Nat /\ size > 0 /\ size <= left
    BY <1>4, <1>8
  <2>. HIDE DEF old, left, size
  <2>3. WorkerOK(r) /\ r.pc = "schedule" /\ r.existed = old.existed /\ r.victims = old.victims
    BY <1>2, <1>3, <2>2 DEF WorkerOK, WorkerState, PcValues, Scaling
  <2>. HIDE DEF r
  <2>4. Moves(w, r) /\ WorkersOK'
    BY <2>1, <2>3, MovesOK
  <2>5. MutexOK'
    BY <2>1, <2>4, MutexHeld DEF Locked, Scaling
  <2>. QED BY <1>2, <2>3, <2>4, <2>5
<1>. QED BY <1>6, <1>7, <1>8

\* A panic or a crash ends all workers.
LEMMA LoseWorkers ==
    ASSUME LoseMemory, LoseGoroutines
    PROVE  WorkersOK' /\ MutexOK'
<1>1. worker' = [w \in Workers |-> Idle] /\ fstp2PodsMtx' = Free /\ selections' = {}
  BY DEF LoseMemory, LoseGoroutines
<1>2. WorkersOK'
  BY <1>1, IdleOK DEF WorkersOK, WorkerOK
<1>3. Idle.pc \notin Locked
  BY DEF Idle, Locked
<1>4. MutexOK'
  BY <1>1, <1>3 DEF MutexOK
<1>. QED BY <1>2, <1>4

-----------------------------------------------------------------------------
(***************************************************************************)
(* What the steps of a worker do to the workers and the mutex.             *)
(***************************************************************************)
\* A key is taken from the queue.
LEMMA ProcessWorkers ==
    ASSUME ControllerInv, NEW w \in Workers, NEW x \in FaSTPods, processNextWorkItem(w, x)
    PROVE  /\ WorkersOK' /\ MutexOK'
           /\ \/ UNCHANGED worker
              \/ \E r : /\ Moves(w, r) /\ r.pc \in {"config", "lock"}
                        /\ r.existed = ActivePods(x, podCache) /\ r.victims = {}
<1>. DEFINE changed == quotaCache[x].share # quotaCache[x].applied
            existed == ActivePods(x, podCache)
            uncounted == quotaCache[x].applied = NoShare /\ wantCache[x] # 0
            r == [Idle EXCEPT !.pc = IF changed /\ existed # {} THEN "config" ELSE "lock",
                              !.key = x, !.want = wantCache[x], !.share = quotaCache[x].share,
                              !.config = IF changed THEN existed ELSE {},
                              !.synced = (changed /\ existed = {}) \/ uncounted,
                              !.existed = existed]
<1>1. /\ worker[w].pc = "idle"
      /\ UNCHANGED <<fstp2PodsMtx, selections>>
      /\ \/ UNCHANGED worker
         \/ wantCache[x] # Gone /\ worker' = [worker EXCEPT ![w] = r]
  BY DEF processNextWorkItem, ledgerVars
<1>2. WorkersOK /\ MutexOK /\ FaSTPodsOK
  BY DEF ControllerInv
<1>3. CASE UNCHANGED worker
  BY <1>1, <1>2, <1>3 DEF WorkersOK, MutexOK, WorkerOK
<1>4. CASE wantCache[x] # Gone /\ worker' = [worker EXCEPT ![w] = r]
  <2>1. wantCache[x] \in Nat /\ quotaCache[x].share \in Uses
    BY <1>2, <1>4 DEF FaSTPodsOK
  <2>2. existed \subseteq Pods
    BY DEF ActivePods
  <2>. HIDE DEF changed, existed, uncounted
  <2>3. /\ r.pc = (IF changed /\ existed # {} THEN "config" ELSE "lock")
        /\ r.key = x /\ r.want = wantCache[x] /\ r.share = quotaCache[x].share
        /\ r.config = (IF changed THEN existed ELSE {})
        /\ r.existed = existed /\ r.victims = {} /\ r.wg = 0
    BY DEF Idle
  <2>4. r \in WorkerState
    <3>1. Idle \in WorkerState
      BY IdleOK DEF WorkerOK
    <3>2. ((changed /\ existed = {}) \/ uncounted) \in BOOLEAN
      OBVIOUS
    <3>. QED BY <2>1, <2>2, <3>1, <3>2 DEF WorkerState, PcValues
  <2>. HIDE DEF r
  <2>5. Cardinality(r.victims) <= r.wg
    BY <2>3, FS_EmptySet
  <2>6. WorkerOK(r)
    BY <2>1, <2>3, <2>4, <2>5 DEF WorkerOK, Scaling
  <2>7. Moves(w, r) /\ WorkersOK'
    BY <1>2, <1>4, <2>6, MovesOK
  <2>8. r.pc \in {"config", "lock"} /\ r.pc \notin Locked
    BY <2>3 DEF Locked
  <2>9. MutexOK'
    BY <1>1, <1>2, <2>7, <2>8, MutexKept
  <2>. QED BY <2>3, <2>7, <2>8, <2>9 DEF existed
<1>. QED BY <1>1, <1>3, <1>4

\* A pod is re-configured or passed over, or its update fails.
LEMMA ConfigureWorkers ==
    ASSUME ControllerInv, NEW w \in Workers, NEW p \in Pods, ConfigurePod(w, p)
    PROVE  /\ WorkersOK' /\ MutexOK'
           /\ \E r : /\ Moves(w, r) /\ r.pc \in {"config", "lock"}
                     /\ r.existed = worker[w].existed /\ r.victims = worker[w].victims
<1>. DEFINE old == worker[w]
            rest == old.config \ {p}
            synced == old.synced \/ rest = {}
            pc == IF rest = {} THEN "lock" ELSE "config"
            next == [old EXCEPT !.config = rest, !.synced = synced, !.pc = pc]
            err == [old EXCEPT !.config = {}, !.pc = "lock", !.manageReError = TRUE]
<1>1. WorkersOK /\ MutexOK /\ worker \in [Workers -> WorkerState] /\ WorkerOK(old) /\ old \in WorkerState
  BY DEF ControllerInv, WorkersOK, WorkerOK
<1>2. worker' = [worker EXCEPT ![w] = next] \/ worker' = [worker EXCEPT ![w] = err]
  <2>1. \/ worker' = [worker EXCEPT ![w].config = rest, ![w].synced = @ \/ rest = {},
                                    ![w].pc = pc]
        \/ worker' = [worker EXCEPT ![w].config = {}, ![w].pc = "lock", ![w].manageReError = TRUE]
    BY DEF ConfigurePod, NextPod
  <2>. QED BY <1>1, <2>1 DEF WorkerState
<1>3. /\ p \in old.config /\ UNCHANGED <<fstp2PodsMtx, selections>>
  BY <1>1 DEF ConfigurePod, reconcileResourceConfig, ledgerVars
<1>4. old.pc = "config" /\ old.key \in FaSTPods /\ old.share \in Uses
  BY <1>1, <1>3 DEF WorkerOK
<1>5. synced \in BOOLEAN /\ rest \subseteq Pods /\ pc \in {"config", "lock"}
      /\ (rest # {} => pc = "config")
  BY <1>1 DEF WorkerState
<1>. HIDE DEF old, rest, synced, pc
<1>6. /\ WorkerOK(next) /\ next.pc \in {"config", "lock"}
      /\ next.existed = old.existed /\ next.victims = old.victims
  BY <1>1, <1>4, <1>5 DEF WorkerOK, WorkerState, PcValues, Scaling
<1>7. /\ WorkerOK(err) /\ err.pc \in {"config", "lock"}
      /\ err.existed = old.existed /\ err.victims = old.victims
  BY <1>1, <1>4, <1>5 DEF WorkerOK, WorkerState, PcValues, Scaling
<1>. HIDE DEF next, err
<1>8. ASSUME NEW r, r = next \/ r = err, worker' = [worker EXCEPT ![w] = r]
      PROVE  Moves(w, r) /\ WorkersOK' /\ MutexOK'
  <2>1. Moves(w, r) /\ WorkersOK'
    BY <1>1, <1>6, <1>7, <1>8, MovesOK
  <2>. QED BY <1>1, <1>3, <1>4, <1>6, <1>7, <1>8, <2>1, MutexKept DEF Locked, old
<1>. QED BY <1>2, <1>6, <1>7, <1>8 DEF old

\* reconcileReplicas takes the mutex unless the numbers agree, and plans what to create or to delete.
LEMMA ReconcileWorkers ==
    ASSUME ControllerInv, NEW w \in Workers, reconcileReplicas(w)
    PROVE  /\ WorkersOK' /\ MutexOK'
           /\ \E r : /\ Moves(w, r) /\ r.pc \in {"status", "schedule", "wait"}
                     /\ r.existed = {} /\ r.victims \subseteq worker[w].existed \cup worker[w].victims
<1>. DEFINE old == worker[w]
            diff == Cardinality(old.existed) - old.want
            left == -diff
            same == [old EXCEPT !.pc = "status", !.existed = {}, !.want = 0]
            more == [old EXCEPT !.pc = "schedule", !.existed = {}, !.want = 0, !.synced = TRUE,
                                !.left = left, !.size = 1, !.batch = 1]
            less(s) == [old EXCEPT !.pc = "wait", !.existed = {}, !.want = 0, !.synced = TRUE,
                                   !.victims = s, !.wg = diff]
<1>1. WorkersOK /\ MutexOK /\ worker \in [Workers -> WorkerState] /\ WorkerOK(old) /\ old \in WorkerState
  BY DEF ControllerInv, WorkersOK, WorkerOK
<1>2. /\ old.pc = "lock" /\ fstp2PodsMtx = Free /\ selections' = selections
      /\ \/ diff = 0 /\ worker' = [worker EXCEPT ![w] = same] /\ fstp2PodsMtx' = fstp2PodsMtx
         \/ diff < 0 /\ worker' = [worker EXCEPT ![w] = more] /\ fstp2PodsMtx' = w
         \/ /\ diff > 0 /\ fstp2PodsMtx' = w
            /\ \E s \in getPodsToDelete(old.existed, diff) : worker' = [worker EXCEPT ![w] = less(s)]
  BY DEF reconcileReplicas, Reconcile, ledgerVars
<1>3. /\ old.key \in FaSTPods /\ old.share \in Uses /\ old.config = {}
      /\ old.existed \subseteq Pods /\ old.want \in Nat
  BY <1>1, <1>2 DEF WorkerOK, WorkerState
<1>4. Cardinality(old.existed) \in Nat /\ diff \in Int
  BY <1>3, PodSetsFinite
<1>5. ASSUME NEW v \in Workers PROVE worker[v].pc \notin Locked
  BY <1>1, <1>2, ControllerAssumption DEF MutexOK, Free
<1>6. selections = {}
  BY <1>1, <1>5 DEF MutexOK, Locked
<1>7. ASSUME NEW r, Moves(w, r), r.pc \in {"status", "schedule", "wait"},
             r.pc \in Locked => fstp2PodsMtx' = w, fstp2PodsMtx' \in {w, Free}
      PROVE  MutexOK'
  <2>1. \A v \in Workers \ {w} : worker'[v] = worker[v]
    BY <1>7 DEF Moves
  <2>2. worker'[w] = r
    BY <1>7 DEF Moves
  <2>. QED BY <1>2, <1>5, <1>6, <1>7, <2>1, <2>2 DEF MutexOK
<1>8. CASE diff = 0 /\ worker' = [worker EXCEPT ![w] = same] /\ fstp2PodsMtx' = fstp2PodsMtx
  <2>. HIDE DEF old
  <2>1. WorkerOK(same) /\ same.pc = "status" /\ same.existed = {} /\ same.victims = old.victims
    BY <1>1, <1>3 DEF WorkerOK, WorkerState, PcValues, Scaling
  <2>. HIDE DEF same
  <2>2. Moves(w, same) /\ WorkersOK'
    BY <1>1, <1>8, <2>1, MovesOK
  <2>3. MutexOK'
    BY <1>2, <1>7, <1>8, <2>1, <2>2 DEF Locked
  <2>. QED BY <2>1, <2>2, <2>3 DEF old
<1>9. CASE diff < 0 /\ worker' = [worker EXCEPT ![w] = more] /\ fstp2PodsMtx' = w
  <2>1. left \in Nat /\ 1 <= left
    BY <1>4, <1>9
  <2>. HIDE DEF old, left
  <2>2. WorkerOK(more) /\ more.pc = "schedule" /\ more.existed = {} /\ more.victims = old.victims
    <3>1. more \in WorkerState
      BY <1>1, <2>1 DEF WorkerState, PcValues
    <3>2. /\ more.pc = "schedule" /\ more.existed = {} /\ more.victims = old.victims
          /\ more.wg = old.wg /\ more.key = old.key /\ more.share = old.share
          /\ more.config = old.config
          /\ more.left = left /\ more.size = 1 /\ more.batch = 1
      BY <1>1 DEF WorkerState
    <3>. HIDE DEF more
    <3>. QED BY <1>1, <1>3, <2>1, <3>1, <3>2 DEF WorkerOK
  <2>. HIDE DEF more
  <2>3. Moves(w, more) /\ WorkersOK'
    BY <1>1, <1>9, <2>2, MovesOK
  <2>4. MutexOK'
    BY <1>7, <1>9, <2>2, <2>3
  <2>. QED BY <2>2, <2>3, <2>4 DEF old
<1>10. ASSUME NEW s \in getPodsToDelete(old.existed, diff), diff > 0, fstp2PodsMtx' = w,
              worker' = [worker EXCEPT ![w] = less(s)]
       PROVE  /\ WorkersOK' /\ MutexOK'
              /\ \E r : /\ Moves(w, r) /\ r.pc \in {"status", "schedule", "wait"}
                        /\ r.existed = {} /\ r.victims \subseteq worker[w].existed \cup worker[w].victims
  <2>1. s \subseteq old.existed /\ Cardinality(s) <= diff /\ diff \in Nat
    <3>1. s \subseteq old.existed /\ (Cardinality(s) = diff \/ s = {})
      BY <1>10 DEF getPodsToDelete
    <3>2. Cardinality({}) = 0
      BY FS_EmptySet
    <3>. HIDE DEF diff
    <3>. QED BY <1>4, <1>10, <3>1, <3>2
  <2>. HIDE DEF old, diff
  <2>2. WorkerOK(less(s)) /\ less(s).pc = "wait" /\ less(s).existed = {} /\ less(s).victims = s
    BY <1>1, <1>3, <2>1 DEF WorkerOK, WorkerState, PcValues, Scaling
  <2>. HIDE DEF less
  <2>3. Moves(w, less(s)) /\ WorkersOK'
    BY <1>1, <1>10, <2>2, MovesOK
  <2>4. MutexOK'
    BY <1>7, <1>10, <2>2, <2>3
  <2>. QED BY <2>1, <2>2, <2>3, <2>4 DEF old
<1>. QED BY <1>2, <1>8, <1>9, <1>10

\* ScheduleRequest for a new name: a selection waits in the worker, or the call is over.
LEMMA ScheduleWorkers ==
    ASSUME ControllerInv, NEW w \in Workers, NEW p \in Pods, Schedule(w, p)
    PROVE  /\ WorkersOK' /\ MutexOK'
           /\ \E r : /\ Moves(w, r) /\ r.pc \in {"request", "schedule", "status"}
                     /\ r.pc = "request" => r.pod = p
                     /\ r.existed = worker[w].existed /\ r.victims = worker[w].victims
<1>. DEFINE old == worker[w]
            r == [old EXCEPT !.pc = "request", !.pod = p]
<1>1. WorkersOK /\ MutexOK /\ worker \in [Workers -> WorkerState] /\ WorkerOK(old) /\ old \in WorkerState
  BY DEF ControllerInv, WorkersOK, WorkerOK
<1>2. old.pc = "schedule" /\ old.pc \in Scaling /\ old.pc \in Locked
  BY DEF Schedule, Scaling, Locked
<1>3. selections = {} /\ fstp2PodsMtx = w
  BY <1>1, <1>2, LockedAlone DEF MutexOK
<1>4. CASE worker' = [worker EXCEPT ![w].pc = "request", ![w].pod = p] /\ UNCHANGED fstp2PodsMtx
  <2>1. worker' = [worker EXCEPT ![w] = r]
    BY <1>1, <1>4 DEF WorkerState
  <2>. HIDE DEF old
  <2>2. WorkerOK(r) /\ r.pc = "request" /\ r.pod = p /\ r.existed = old.existed /\ r.victims = old.victims
    BY <1>1, <1>2 DEF WorkerOK, WorkerState, PcValues, Scaling
  <2>. HIDE DEF r
  <2>3. Moves(w, r) /\ WorkersOK'
    BY <1>1, <2>1, <2>2, MovesOK
  <2>4. MutexOK'
    BY <1>1, <1>2, <1>3, <1>4, <2>2, <2>3, MutexHeld DEF old
  <2>. QED BY <2>2, <2>3, <2>4 DEF old
<1>5. CASE CallReturns(w, TRUE) /\ selections' = selections
  <2>1. /\ WorkersOK' /\ MutexOK'
        /\ \E s : /\ Moves(w, s) /\ s.pc \in {"schedule", "status"}
                  /\ s.existed = worker[w].existed /\ s.victims = worker[w].victims
    BY <1>1, <1>2, <1>3, <1>5, CallReturnsOK
  <2>. QED BY <2>1
<1>6. \/ worker' = [worker EXCEPT ![w].pc = "request", ![w].pod = p] /\ UNCHANGED fstp2PodsMtx
      \/ CallReturns(w, TRUE) /\ selections' = selections
  BY DEF Schedule, ScheduleNoFit, GetGPUFails, ScheduleNoGPU, ledgerVars
<1>. QED BY <1>4, <1>5, <1>6

\* RequestGPUAndUpdateConfig uses the selection: the pod is recorded, or the call is over.
LEMMA RequestWorkers ==
    ASSUME ControllerInv, NEW w \in Workers, Request(w)
    PROVE  /\ WorkersOK' /\ MutexOK'
           /\ \E r : /\ Moves(w, r)
                     /\ r.existed = worker[w].existed /\ r.victims = worker[w].victims
                     /\ \/ /\ RequestRecorded(Req(w, worker[w].pod))
                           /\ r.pc = "create" /\ r.pod = worker[w].pod
                        \/ /\ RequestRefused(Req(w, worker[w].pod))
                           /\ r.pc \in {"schedule", "status"}
<1>. DEFINE old == worker[w]
            req == Req(w, old.pod)
            r == [old EXCEPT !.pc = "create"]
<1>1. /\ WorkersOK /\ MutexOK /\ LedgerInv /\ worker \in [Workers -> WorkerState]
      /\ WorkerOK(old) /\ old \in WorkerState
  BY DEF ControllerInv, WorkersOK, WorkerOK
<1>2. old.pc = "request" /\ old.pc \in Scaling /\ old.pc \in Locked
  BY DEF Request, Scaling, Locked
<1>3. fstp2PodsMtx = w
  BY <1>1, <1>2, LockedAlone DEF MutexOK
<1>4. ASSUME RequestRecorded(req) \/ RequestRefused(req) PROVE selections' = {}
  <2>1. req \in selections /\ selections' = selections \ {req}
    BY <1>4 DEF RequestRecorded, RequestRefused, RequestMPS, RequestExclusive, RequestFastPod,
                RequestFastPodAgain, RequestNoGPU, RequestExceeds, Pending
  <2>. QED BY <1>1, <2>1 DEF LedgerInv, OneSelection
<1>5. CASE /\ RequestRecorded(req) /\ UNCHANGED fstp2PodsMtx
           /\ worker' = [worker EXCEPT ![w].pc = "create"]
  <2>1. worker' = [worker EXCEPT ![w] = r]
    BY <1>1, <1>5 DEF WorkerState
  <2>. HIDE DEF old
  <2>2. WorkerOK(r) /\ r.pc = "create" /\ r.pod = old.pod /\ r.existed = old.existed /\ r.victims = old.victims
    BY <1>1, <1>2 DEF WorkerOK, WorkerState, PcValues, Scaling
  <2>. HIDE DEF r
  <2>3. Moves(w, r) /\ WorkersOK'
    BY <1>1, <2>1, <2>2, MovesOK
  <2>4. MutexOK'
    BY <1>1, <1>2, <1>3, <1>4, <1>5, <2>3, MutexHeld DEF old
  <2>. QED BY <1>5, <2>2, <2>3, <2>4 DEF old
<1>6. CASE RequestRefused(req) /\ CallReturns(w, TRUE)
  <2>1. /\ WorkersOK' /\ MutexOK'
        /\ \E s : /\ Moves(w, s) /\ s.pc \in {"schedule", "status"}
                  /\ s.existed = worker[w].existed /\ s.victims = worker[w].victims
    BY <1>1, <1>2, <1>4, <1>6, CallReturnsOK
  <2>. QED BY <1>6, <2>1
<1>7. \/ /\ RequestRecorded(req) /\ UNCHANGED fstp2PodsMtx
         /\ worker' = [worker EXCEPT ![w].pc = "create"]
      \/ RequestRefused(req) /\ CallReturns(w, TRUE)
  BY DEF Request
<1>. QED BY <1>5, <1>6, <1>7

\* The Create of the pod ends the call, whether it fails or not.
LEMMA CreateWorkers ==
    ASSUME ControllerInv, NEW w \in Workers, Create(w)
    PROVE  /\ WorkersOK' /\ MutexOK'
           /\ \E r : /\ Moves(w, r) /\ r.pc \in {"schedule", "status"}
                     /\ r.existed = worker[w].existed /\ r.victims = worker[w].victims
<1>1. WorkersOK /\ MutexOK
  BY DEF ControllerInv
<1>2. worker[w].pc = "create" /\ worker[w].pc \in Scaling /\ worker[w].pc \in Locked
  BY DEF Create, Scaling, Locked
<1>3. selections' = {}
  BY <1>1, <1>2, LockedAlone DEF Create, ledgerVars
<1>4. CallReturns(w, TRUE) \/ CallReturns(w, FALSE)
  BY DEF Create
<1>. QED BY <1>1, <1>2, <1>3, <1>4, CallReturnsOK

\* A deletion goroutine is counted down once, after its Delete.
LEMMA KubeDeleteWorkers ==
    ASSUME ControllerInv, NEW w \in Workers, NEW p \in Pods, KubeDelete(w, p)
    PROVE  /\ WorkersOK' /\ MutexOK'
           /\ p \in worker[w].victims
           /\ \E r : /\ Moves(w, r) /\ r.pc = worker[w].pc /\ r.pod = worker[w].pod
                     /\ r.existed = worker[w].existed /\ r.victims = worker[w].victims \ {p}
<1>. DEFINE old == worker[w]
            victims == old.victims \ {p}
            wg == old.wg - 1
            r(failed) == [old EXCEPT !.victims = victims, !.wg = wg, !.failed = failed]
<1>1. WorkersOK /\ MutexOK /\ worker \in [Workers -> WorkerState] /\ WorkerOK(old) /\ old \in WorkerState
  BY DEF ControllerInv, WorkersOK, WorkerOK
<1>2. p \in old.victims /\ UNCHANGED <<fstp2PodsMtx, selections>>
  BY DEF KubeDelete, ledgerVars
<1>3. \E failed \in BOOLEAN : worker' = [worker EXCEPT ![w] = r(failed)]
  <2>1. \/ worker' = [worker EXCEPT ![w].victims = victims, ![w].wg = @ - 1]
        \/ worker' = [worker EXCEPT ![w].victims = victims, ![w].wg = @ - 1, ![w].failed = TRUE]
    BY DEF KubeDelete
  <2>2. CASE worker' = [worker EXCEPT ![w].victims = victims, ![w].wg = @ - 1]
    <3>1. worker' = [worker EXCEPT ![w] = r(old.failed)] /\ old.failed \in BOOLEAN
      BY <1>1, <2>2 DEF WorkerState
    <3>. QED BY <3>1
  <2>3. CASE worker' = [worker EXCEPT ![w].victims = victims, ![w].wg = @ - 1, ![w].failed = TRUE]
    <3>1. worker' = [worker EXCEPT ![w] = r(TRUE)]
      BY <1>1, <2>3 DEF WorkerState
    <3>. QED BY <3>1
  <2>. QED BY <2>1, <2>2, <2>3
<1>4. PICK failed \in BOOLEAN : worker' = [worker EXCEPT ![w] = r(failed)]
  BY <1>3
<1>5. victims \subseteq Pods /\ wg \in Nat /\ Cardinality(victims) <= wg
  <2>1. IsFiniteSet(old.victims) /\ Cardinality(old.victims) \in Nat
    BY <1>1, PodSetsFinite DEF WorkerState
  <2>2. IsFiniteSet(victims) /\ Cardinality(victims) = Cardinality(old.victims) - 1
    BY <1>2, <2>1, FS_RemoveElement
  <2>3. Cardinality(victims) \in Nat
    BY <2>2, FS_CardinalityType
  <2>4. old.wg \in Nat /\ Cardinality(old.victims) <= old.wg
    BY <1>1 DEF WorkerOK, WorkerState
  <2>5. victims \subseteq Pods
    BY <1>1 DEF WorkerState
  <2>. HIDE DEF old, victims
  <2>. QED BY <2>1, <2>2, <2>3, <2>4, <2>5
<1>. HIDE DEF old, victims, wg
<1>6. r(failed) \in WorkerState
  BY <1>1, <1>5 DEF WorkerState
<1>7. /\ r(failed).pc = old.pc /\ r(failed).pod = old.pod /\ r(failed).key = old.key
      /\ r(failed).share = old.share /\ r(failed).config = old.config
      /\ r(failed).existed = old.existed /\ r(failed).left = old.left /\ r(failed).size = old.size
      /\ r(failed).batch = old.batch /\ r(failed).victims = victims /\ r(failed).wg = wg
  BY <1>1 DEF WorkerState
<1>. HIDE DEF r
<1>8. WorkerOK(r(failed))
  BY <1>1, <1>5, <1>6, <1>7 DEF WorkerOK
<1>9. Moves(w, r(failed)) /\ WorkersOK'
  BY <1>1, <1>4, <1>8, MovesOK
<1>10. MutexOK'
  <2>1. \A v \in Workers : worker'[v].pc = worker[v].pc
    BY <1>7, <1>9 DEF Moves, old
  <2>. QED BY <1>1, <1>2, <2>1 DEF MutexOK
<1>. QED BY <1>2, <1>7, <1>9, <1>10 DEF old, victims

\* wg.Wait() returns, and the mutex is free.
LEMMA WaitWorkers ==
    ASSUME ControllerInv, NEW w \in Workers, WaitReturns(w)
    PROVE  /\ WorkersOK' /\ MutexOK'
           /\ \E r : /\ Moves(w, r) /\ r.pc = "status"
                     /\ r.existed = worker[w].existed /\ r.victims = worker[w].victims
<1>. DEFINE old == worker[w]
            r == [old EXCEPT !.pc = "status"]
<1>1. WorkersOK /\ MutexOK /\ worker \in [Workers -> WorkerState] /\ WorkerOK(old) /\ old \in WorkerState
  BY DEF ControllerInv, WorkersOK, WorkerOK
<1>2. /\ old.pc = "wait" /\ old.pc \in Locked /\ fstp2PodsMtx' = Free
      /\ worker' = [worker EXCEPT ![w].pc = "status"]
      /\ selections' = selections
  BY DEF WaitReturns, Locked, ledgerVars
<1>3. selections = {}
  BY <1>1, <1>2, LockedAlone
<1>4. worker' = [worker EXCEPT ![w] = r]
  BY <1>1, <1>2 DEF WorkerState
<1>. HIDE DEF old
<1>5. WorkerOK(r) /\ r.pc = "status" /\ r.existed = old.existed /\ r.victims = old.victims
  BY <1>1, <1>2 DEF WorkerOK, WorkerState, PcValues, Scaling
<1>. HIDE DEF r
<1>6. Moves(w, r) /\ WorkersOK'
  BY <1>1, <1>4, <1>5, MovesOK
<1>7. r.pc \notin Locked
  BY <1>5 DEF Locked
<1>8. MutexOK'
  BY <1>1, <1>2, <1>3, <1>6, <1>7, MutexHeld DEF old
<1>. QED BY <1>5, <1>6, <1>8 DEF old

\* The sync is over, whatever the write of the FaSTPod answers.
LEMMA UpdateWorkers ==
    ASSUME ControllerInv, NEW w \in Workers, UpdateStatus(w)
    PROVE  /\ WorkersOK' /\ MutexOK'
           /\ Moves(w, Idle)
<1>1. WorkersOK /\ MutexOK
  BY DEF ControllerInv
<1>2. /\ worker[w].pc = "status" /\ UNCHANGED <<fstp2PodsMtx, selections>>
      /\ worker' = [worker EXCEPT ![w] = Idle]
  BY DEF UpdateStatus, Done, ledgerVars
<1>3. Moves(w, Idle) /\ WorkersOK'
  BY <1>1, <1>2, IdleOK, MovesOK
<1>4. Idle.pc \notin Locked
  BY DEF Idle, Locked
<1>5. MutexOK'
  BY <1>1, <1>2, <1>3, <1>4, MutexKept
<1>. QED BY <1>3, <1>5

-----------------------------------------------------------------------------
(***************************************************************************)
(* Steps of the controller, part by part of the invariant.                 *)
(***************************************************************************)
\* A panic of any goroutine, or a crash: all memory is lost.
Dies ==
    \/ \E w \in Workers : WorkerPanics(w) \/ EnqueuePanics(w)
    \/ \E p \in Pods : RemovalPanics(p)
    \/ ProcessCrashes

\* A panic in a goroutine, or a crash, loses the memory of the whole process and changes nothing in the API server.
LEMMA DiesLoses ==
    ASSUME Dies
    PROVE  LoseMemory /\ LoseGoroutines /\ UNCHANGED <<want, quota, pod>>
<1>1. ASSUME NEW w \in Workers, WorkerPanics(w)
      PROVE  LoseMemory /\ LoseGoroutines
  BY <1>1 DEF WorkerPanics, SchedulePanic, RequestPanic, RequestRpcPanic, Panic
<1>2. ASSUME NEW w \in Workers, EnqueuePanics(w)
      PROVE  LoseMemory /\ LoseGoroutines
  BY <1>2 DEF EnqueuePanics, Crash, Panic
<1>3. ASSUME NEW p \in Pods, RemovalPanics(p)
      PROVE  LoseMemory /\ LoseGoroutines
  BY <1>3 DEF RemovalPanics, RemovePanic, RemoveRpcPanic, Panic
<1>4. ASSUME ProcessCrashes
      PROVE  LoseMemory /\ LoseGoroutines
  BY <1>4 DEF ProcessCrashes, Crash, Panic
<1>5. LoseMemory /\ LoseGoroutines
  BY <1>1, <1>2, <1>3, <1>4 DEF Dies
<1>. QED BY <1>5 DEF LoseGoroutines

\* The request of a worker that schedules or requests is one the ledger knows.
LEMMA ReqOK ==
    ASSUME WorkersOK, NEW w \in Workers, worker[w].pc # "idle", NEW p \in Pods
    PROVE  Req(w, p) \in ResourceRequest
<1>1. worker[w].share \in Uses
  BY DEF WorkersOK, WorkerOK
<1>. QED BY <1>1 DEF Req, ResourceRequest

\* The steps that work on the ledger; all others leave it alone.
LEMMA LedgerCases ==
    ASSUME [Next]_vars
    PROVE  \/ \E w \in Workers, p \in Pods : ConfigurePod(w, p) \/ Schedule(w, p)
           \/ \E w \in Workers : Request(w)
           \/ \E p \in Pods : RemovePod(p) \/ \E x \in FaSTPods : CollectPod(x, p)
           \/ Dies \/ ProcessRestarts \/ NodeConnects
           \/ UNCHANGED ledgerVars
<1>1. ASSUME NEW x \in FaSTPods, \/ \E n \in Replicas[x] : Scale(x, n)
                                 \/ \E use \in Uses : Reconfigure(x, use)
                                 \/ DeleteFaSTPod(x) \/ FaSTPodEvent(x) \/ Resync(x)
                                 \/ ListPods(x) \/ LockNodesInfo(x) \/ DeleteCollected(x) \/ UnlockNodesInfo(x)
                                 \/ \E w \in Workers : processNextWorkItem(w, x)
      PROVE  UNCHANGED ledgerVars
  BY <1>1 DEF Scale, Reconfigure, DeleteFaSTPod, FaSTPodEvent, Resync, ListPods, LockNodesInfo,
              DeleteCollected, UnlockNodesInfo, processNextWorkItem
<1>2. ASSUME \/ PodEvent
             \/ \E p \in Pods : \/ CollectGarbage(p) \/ Terminate(p)
                                \/ \E w \in Workers : KubeDelete(w, p)
             \/ \E w \in Workers : reconcileReplicas(w) \/ Create(w) \/ WaitReturns(w) \/ UpdateStatus(w)
             \/ UNCHANGED vars
      PROVE  UNCHANGED ledgerVars
  BY <1>2 DEF PodEvent, CollectGarbage, Terminate, KubeDelete, reconcileReplicas, Reconcile,
              Create, WaitReturns, UpdateStatus, vars
<1>. QED BY <1>1, <1>2 DEF Next, Sync, Collect, Dies

\* Every step of the controller is a step of the ledger or leaves it alone: the mutex keeps a second ScheduleRequest out until the selection of the first is used.
LEMMA LedgerStep ==
    ASSUME ControllerInv, [Next]_vars
    PROVE  [LedgerNext]_ledgerVars
<1>0. WorkersOK /\ MutexOK
  BY DEF ControllerInv
<1>1. ASSUME NEW w \in Workers, NEW p \in Pods, ConfigurePod(w, p)
      PROVE  [LedgerNext]_ledgerVars
  <2>1. worker[w].share \in Uses
    BY <1>0, <1>1 DEF ConfigurePod, WorkersOK, WorkerOK
  <2>2. UNCHANGED ledgerVars \/ reconcileResourceConfig(p, worker[w].share)
    BY <1>1 DEF ConfigurePod
  <2>. QED BY <2>1, <2>2 DEF LedgerNext
<1>2. ASSUME NEW w \in Workers, NEW p \in Pods, Schedule(w, p)
      PROVE  [LedgerNext]_ledgerVars
  <2>. DEFINE req == Req(w, p)
  <2>1. worker[w].pc = "schedule" /\ worker[w].pc \in Locked
    BY <1>2 DEF Schedule, Locked
  <2>2. selections = {} /\ req \in ResourceRequest
    BY <1>0, <2>1, LockedAlone, ReqOK
  <2>3. ScheduleOk(req) \/ ScheduleNoFit(req) \/ ScheduleNoGPU(req)
    BY <1>2 DEF Schedule, GetGPUFails
  <2>. HIDE DEF req
  <2>. QED BY <2>2, <2>3 DEF LedgerNext, ScheduleRequest
<1>3. ASSUME NEW w \in Workers, Request(w)
      PROVE  [LedgerNext]_ledgerVars
  <2>. DEFINE req == Req(w, worker[w].pod)
  <2>1. worker[w].pc = "request"
    BY <1>3 DEF Request
  <2>2. worker[w].pod \in Pods
    BY <1>0, <2>1 DEF WorkersOK, WorkerOK
  <2>3. req \in ResourceRequest
    BY <1>0, <2>1, <2>2, ReqOK
  <2>4. RequestRecorded(req) \/ RequestRefused(req)
    BY <1>3 DEF Request
  <2>. HIDE DEF req
  <2>. QED BY <2>3, <2>4 DEF LedgerNext, RequestGPUAndUpdateConfig
<1>4. ASSUME NEW p \in Pods, RemovePod(p)
      PROVE  [LedgerNext]_ledgerVars
  BY <1>4 DEF RemovePod, LedgerNext, removePodFromList
<1>5. ASSUME NEW x \in FaSTPods, NEW p \in Pods, CollectPod(x, p)
      PROVE  [LedgerNext]_ledgerVars
  BY <1>5 DEF CollectPod, LedgerNext
<1>6. ASSUME NEW w \in Workers, WorkerPanics(w)
      PROVE  [LedgerNext]_ledgerVars
  <2>1. CASE worker[w].pc = "schedule" /\ \E p \in Pods : SchedulePanic(Req(w, p))
    <3>1. PICK p \in Pods : SchedulePanic(Req(w, p))
      BY <2>1
    <3>2. selections = {} /\ Req(w, p) \in ResourceRequest
      BY <1>0, <2>1, LockedAlone, ReqOK DEF Locked
    <3>. QED BY <3>1, <3>2 DEF LedgerNext, ScheduleRequest
  <2>2. CASE worker[w].pc = "request" /\ \/ RequestPanic(Req(w, worker[w].pod))
                                         \/ RequestRpcPanic(Req(w, worker[w].pod))
    <3>1. worker[w].pod \in Pods
      BY <1>0, <2>2 DEF WorkersOK, WorkerOK
    <3>2. Req(w, worker[w].pod) \in ResourceRequest
      BY <1>0, <2>2, <3>1, ReqOK
    <3>. QED BY <2>2, <3>2 DEF LedgerNext, RequestGPUAndUpdateConfig
  <2>. QED BY <1>6, <2>1, <2>2 DEF WorkerPanics
<1>7. ASSUME NEW p \in Pods, RemovalPanics(p)
      PROVE  [LedgerNext]_ledgerVars
  BY <1>7 DEF RemovalPanics, LedgerNext, removePodFromList
<1>8. CASE \/ ProcessCrashes \/ ProcessRestarts \/ NodeConnects
           \/ \E w \in Workers : EnqueuePanics(w)
  BY <1>8 DEF ProcessCrashes, ProcessRestarts, NodeConnects, EnqueuePanics, LedgerNext
<1>. QED BY <1>1, <1>2, <1>3, <1>4, <1>5, <1>6, <1>7, <1>8, LedgerCases DEF Dies

\* What the steps of the environment, the informers, the removals and the collectors leave alone.
Around ==
    \/ \E x \in FaSTPods : \/ \E n \in Replicas[x] : Scale(x, n)
                           \/ \E use \in Uses : Reconfigure(x, use)
                           \/ DeleteFaSTPod(x) \/ FaSTPodEvent(x) \/ Resync(x) \/ Collect(x)
    \/ \E p \in Pods : CollectGarbage(p) \/ Terminate(p) \/ RemovePod(p)
    \/ PodEvent \/ ProcessRestarts \/ NodeConnects

\* The users, the API server, the informers, the removals and the collectors leave the workers, the mutex and the selections alone.
LEMMA AroundWorkers ==
    ASSUME Around
    PROVE  UNCHANGED <<worker, fstp2PodsMtx, selections>>
<1>1. ASSUME NEW x \in FaSTPods, \/ \E n \in Replicas[x] : Scale(x, n)
                                 \/ \E use \in Uses : Reconfigure(x, use)
                                 \/ DeleteFaSTPod(x) \/ FaSTPodEvent(x) \/ Resync(x)
      PROVE  UNCHANGED <<worker, fstp2PodsMtx, selections>>
  BY <1>1 DEF Scale, Reconfigure, DeleteFaSTPod, FaSTPodEvent, Resync, ledgerVars
<1>2. ASSUME NEW x \in FaSTPods, Collect(x)
      PROVE  UNCHANGED <<worker, fstp2PodsMtx, selections>>
  BY <1>2 DEF Collect, ListPods, LockNodesInfo, CollectPod, DeleteCollected, UnlockNodesInfo, ledgerVars,
              removeFaSTPodFromList, RemoveAbsent, RemoveShrinks, RemoveLastOfFaSTPod
<1>3. ASSUME NEW p \in Pods, CollectGarbage(p) \/ Terminate(p) \/ RemovePod(p)
      PROVE  UNCHANGED <<worker, fstp2PodsMtx, selections>>
  BY <1>3 DEF CollectGarbage, Terminate, RemovePod, ledgerVars,
              RemoveAbsent, RemoveShrinks, RemoveLast
<1>4. ASSUME PodEvent \/ ProcessRestarts \/ NodeConnects
      PROVE  UNCHANGED <<worker, fstp2PodsMtx, selections>>
  BY <1>4 DEF PodEvent, ProcessRestarts, NodeConnects, Restart, handleNodeConnection, ledgerVars
<1>. QED BY <1>1, <1>2, <1>3, <1>4 DEF Around

\* The steps of Next, by what they do to the workers.
LEMMA NextCases ==
    ASSUME [Next]_vars
    PROVE  \/ Around
           \/ Dies
           \/ \E w \in Workers :
                 \/ \E x \in FaSTPods : processNextWorkItem(w, x)
                 \/ \E p \in Pods : ConfigurePod(w, p) \/ Schedule(w, p) \/ KubeDelete(w, p)
                 \/ reconcileReplicas(w) \/ Request(w) \/ Create(w) \/ WaitReturns(w) \/ UpdateStatus(w)
           \/ UNCHANGED vars
  BY DEF Next, Sync, Around, Dies

\* Every step keeps the workers in good states and the mutex with one of them.
LEMMA WorkersStep ==
    ASSUME ControllerInv, [Next]_vars
    PROVE  WorkersOK' /\ MutexOK'
<1>1. CASE Around \/ UNCHANGED vars
  <2>1. UNCHANGED <<worker, fstp2PodsMtx, selections>>
    BY <1>1, AroundWorkers DEF vars, ledgerVars
  <2>. QED BY <2>1 DEF ControllerInv, WorkersOK, MutexOK
<1>2. CASE Dies
  BY <1>2, DiesLoses, LoseWorkers
<1>3. ASSUME NEW w \in Workers,
             \/ \E x \in FaSTPods : processNextWorkItem(w, x)
             \/ \E p \in Pods : ConfigurePod(w, p) \/ Schedule(w, p) \/ KubeDelete(w, p)
             \/ reconcileReplicas(w) \/ Request(w) \/ Create(w) \/ WaitReturns(w) \/ UpdateStatus(w)
      PROVE  WorkersOK' /\ MutexOK'
  BY <1>3, ProcessWorkers, ConfigureWorkers, ScheduleWorkers, KubeDeleteWorkers, ReconcileWorkers,
     RequestWorkers, CreateWorkers, WaitWorkers, UpdateWorkers
<1>. QED BY <1>1, <1>2, <1>3, NextCases

\* Every step keeps the books of the ledger in order.
LEMMA BooksStep ==
    ASSUME ControllerInv, [Next]_vars
    PROVE  BookInv'
<1>0. LedgerInv /\ BookInv /\ WorkersOK
  BY DEF ControllerInv
<1>1. ASSUME NEW w \in Workers, NEW p \in Pods, ConfigurePod(w, p) PROVE BookInv'
  <2>1. reconcileResourceConfig(p, worker[w].share) \/ UNCHANGED <<vGPUID2GPU, registered>>
    BY <1>1 DEF ConfigurePod, ledgerVars
  <2>. QED BY <1>0, <2>1, ReconfigBooks, QuietBooks
<1>2. ASSUME NEW w \in Workers, NEW p \in Pods, Schedule(w, p) PROVE BookInv'
  <2>1. \/ ScheduleOk(Req(w, p)) \/ ScheduleNoFit(Req(w, p))
        \/ UNCHANGED <<vGPUID2GPU, registered>>
    BY <1>2 DEF Schedule, GetGPUFails, ScheduleNoGPU, ledgerVars
  <2>. QED BY <1>0, <2>1, ScheduleBooks, QuietBooks
<1>3. ASSUME NEW w \in Workers, Request(w) PROVE BookInv'
  <2>. DEFINE req == Req(w, worker[w].pod)
  <2>1. worker[w].pc = "request" /\ (RequestRecorded(req) \/ RequestRefused(req))
    BY <1>3 DEF Request
  <2>2. worker[w].pod \in Pods
    BY <1>0, <2>1 DEF WorkersOK, WorkerOK
  <2>3. req \in ResourceRequest
    BY <1>0, <2>1, <2>2, ReqOK
  <2>. HIDE DEF req
  <2>4. RequestRecorded(req) => BookInv'
    BY <1>0, RecordBooks DEF Books
  <2>. QED BY <1>0, <2>1, <2>3, <2>4, RefusedBooks
<1>4. ASSUME NEW p \in Pods, RemovePod(p) \/ \E x \in FaSTPods : CollectPod(x, p) PROVE BookInv'
  <2>1. Removal(p)
    BY <1>4 DEF RemovePod, CollectPod, removeFaSTPodFromList, Removal
  <2>. QED BY <1>0, <2>1, RemoveBooks
<1>5. CASE Dies
  BY <1>5, DiesLoses, LoseMemoryBooks
<1>6. CASE ProcessRestarts \/ NodeConnects
  <2>1. vGPUID2GPU' = vGPUID2GPU /\ (registered => registered')
    BY <1>6 DEF ProcessRestarts, NodeConnects, Restart, handleNodeConnection
  <2>. QED BY <1>0, <2>1, QuietBooks
<1>7. ASSUME UNCHANGED ledgerVars PROVE BookInv'
  BY <1>0, <1>7, QuietBooks DEF ledgerVars
<1>. QED BY <1>1, <1>2, <1>3, <1>4, <1>5, <1>6, <1>7, LedgerCases

\* The FaSTPods in the API server, the cache and the queue keep their shape.
LEMMA FaSTPodsStep ==
    ASSUME ControllerInv, [Next]_vars
    PROVE  FaSTPodsOK'
<1>0. FaSTPodsOK /\ WorkersOK
  BY DEF ControllerInv
<1>1. ASSUME NEW x \in FaSTPods, NEW n \in Replicas[x], Scale(x, n) PROVE FaSTPodsOK'
  <2>1. n \in Nat
    BY ControllerAssumption
  <2>2. /\ want' = [want EXCEPT ![x] = n] /\ current' = current \ {x} /\ basis' = basis \ {x}
        /\ UNCHANGED <<wantCache, quota, quotaCache, dirty, processing>>
    BY <1>1 DEF Scale, NewVersion, queueVars
  <2>. QED BY <1>0, <2>1, <2>2 DEF FaSTPodsOK
<1>2. ASSUME NEW x \in FaSTPods, NEW use \in Uses, Reconfigure(x, use) PROVE FaSTPodsOK'
  <2>1. /\ quota' = [quota EXCEPT ![x].share = use]
        /\ current' = current \ {x} /\ basis' = basis \ {x}
        /\ UNCHANGED <<want, wantCache, quotaCache, dirty, processing>>
    BY <1>2 DEF Reconfigure, NewVersion, queueVars
  <2>2. quota' \in [FaSTPods -> QuotaState] /\ \A y \in FaSTPods : quota'[y].share \in Uses
    BY <1>0, <2>1 DEF FaSTPodsOK, QuotaState
  <2>. QED BY <1>0, <2>1, <2>2 DEF FaSTPodsOK
<1>3. ASSUME NEW x \in FaSTPods, DeleteFaSTPod(x) PROVE FaSTPodsOK'
  <2>1. /\ want' = [want EXCEPT ![x] = Gone] /\ current' = current \ {x} /\ basis' = basis \ {x}
        /\ UNCHANGED <<wantCache, quota, quotaCache, dirty, processing>>
    BY <1>3 DEF DeleteFaSTPod, NewVersion, queueVars
  <2>. QED BY <1>0, <2>1 DEF FaSTPodsOK
<1>4. ASSUME NEW x \in FaSTPods, FaSTPodEvent(x) PROVE FaSTPodsOK'
  <2>1. /\ wantCache' = [wantCache EXCEPT ![x] = want[x]]
        /\ quotaCache' = [quotaCache EXCEPT ![x] = quota[x]]
        /\ current' = current \cup {x}
        /\ dirty' \subseteq dirty \cup {x}
        /\ UNCHANGED <<want, quota, basis, processing>>
    BY <1>4 DEF FaSTPodEvent, enqueueFaSTPod, apiVars
  <2>. QED BY <1>0, <2>1 DEF FaSTPodsOK
<1>5. CASE PodEvent
  <2>. DEFINE event == Head(podEvents)
  <2>1. podEvents # <<>> /\ PodsOK
    BY <1>5 DEF PodEvent, ControllerInv
  <2>2. event.pod \in Pods
    <3>1. event \in [pod : Pods, state : PodStates]
      BY <2>1, EventFacts DEF PodsOK
    <3>. QED BY <3>1
  <2>3. Owner[event.pod] \in FaSTPods
    BY <2>2, ControllerAssumption
  <2>4. /\ dirty' \subseteq dirty \cup {Owner[event.pod]}
        /\ UNCHANGED <<want, quota, wantCache, quotaCache, current, basis, processing>>
    BY <1>5 DEF PodEvent, handleObject, enqueueFaSTPod
  <2>. QED BY <1>0, <2>3, <2>4 DEF FaSTPodsOK
<1>6. ASSUME NEW x \in FaSTPods, Resync(x) PROVE FaSTPodsOK'
  <2>1. /\ dirty' = dirty \cup {x}
        /\ UNCHANGED <<want, quota, wantCache, quotaCache, current, basis, processing>>
    BY <1>6 DEF Resync, enqueueFaSTPod, apiVars, cacheVars
  <2>. QED BY <1>0, <2>1 DEF FaSTPodsOK
<1>7. ASSUME NEW x \in FaSTPods, NEW w \in Workers, processNextWorkItem(w, x) PROVE FaSTPodsOK'
  <2>1. /\ dirty' \subseteq dirty /\ processing' \subseteq processing \cup {x}
        /\ basis' \subseteq basis \cup {x}
        /\ UNCHANGED <<want, quota, wantCache, quotaCache, current>>
    BY <1>7 DEF processNextWorkItem, apiVars, cacheVars
  <2>. QED BY <1>0, <2>1 DEF FaSTPodsOK
<1>8. ASSUME NEW w \in Workers, UpdateStatus(w) PROVE FaSTPodsOK'
  <2>. DEFINE x == worker[w].key
  <2>1. x \in FaSTPods /\ worker[w].share \in Uses
    BY <1>0, <1>8 DEF UpdateStatus, WorkersOK, WorkerOK
  <2>2. /\ dirty' \subseteq dirty \cup {x} /\ processing' \subseteq processing
        /\ current' \subseteq current /\ basis' \subseteq basis
        /\ UNCHANGED <<want, wantCache, quotaCache>>
    BY <1>8 DEF UpdateStatus, Done, NewVersion
  <2>3. \/ quota' = quota
        \/ \E applied \in {worker[w].share, NotApplied, quota[x].applied} :
              quota' = [quota EXCEPT ![x].applied = applied]
    <3>1. CASE quota' = quota
      BY <3>1
    <3>2. CASE quota' = [quota EXCEPT ![x].applied =
                CASE ~worker[w].manageReError -> worker[w].share
                  [] worker[w].manageReError -> IF @ = NoShare THEN NotApplied ELSE @]
      BY <3>2
    <3>. QED BY <1>8, <3>1, <3>2 DEF UpdateStatus
  <2>4. quota' \in [FaSTPods -> QuotaState] /\ \A y \in FaSTPods : quota'[y].share \in Uses
    <3>1. quota[x].applied \in Uses \cup {NoShare, NotApplied}
      BY <1>0, <2>1 DEF FaSTPodsOK, QuotaState
    <3>2. ASSUME NEW applied \in Uses \cup {NoShare, NotApplied},
                 quota' = [quota EXCEPT ![x].applied = applied]
          PROVE  quota' \in [FaSTPods -> QuotaState] /\ \A y \in FaSTPods : quota'[y].share \in Uses
      <4>. HIDE DEF x
      <4>. QED BY <1>0, <3>2 DEF FaSTPodsOK, QuotaState
    <3>. QED BY <1>0, <2>1, <2>3, <3>1, <3>2 DEF FaSTPodsOK
  <2>. QED BY <1>0, <2>1, <2>2, <2>4 DEF FaSTPodsOK
<1>9. CASE Dies
  <2>1. /\ wantCache' = [x \in FaSTPods |-> Gone] /\ quotaCache' = [x \in FaSTPods |-> NoQuota]
        /\ current' = {} /\ basis' = {} /\ dirty' = {} /\ processing' = {}
        /\ UNCHANGED <<want, quota>>
    BY <1>9, DiesLoses DEF LoseGoroutines
  <2>2. NoQuota \in QuotaState
    BY DEF NoQuota, QuotaState
  <2>. QED BY <1>0, <2>1, <2>2 DEF FaSTPodsOK
<1>10. ASSUME \/ \E p \in Pods : CollectGarbage(p) \/ Terminate(p) \/ RemovePod(p)
              \/ \E x \in FaSTPods : Collect(x)
              \/ ProcessRestarts \/ NodeConnects
              \/ \E w \in Workers :
                 \/ \E p \in Pods : ConfigurePod(w, p) \/ Schedule(w, p) \/ KubeDelete(w, p)
                 \/ reconcileReplicas(w) \/ Request(w) \/ Create(w) \/ WaitReturns(w)
              \/ UNCHANGED vars
       PROVE  FaSTPodsOK'
  <2>1. UNCHANGED <<want, quota, wantCache, quotaCache, current, basis, dirty, processing>>
    <3>1. ASSUME \/ \E p \in Pods : CollectGarbage(p) \/ Terminate(p) \/ RemovePod(p)
                 \/ \E x \in FaSTPods : Collect(x)
                 \/ ProcessRestarts \/ NodeConnects \/ UNCHANGED vars
          PROVE  UNCHANGED <<want, quota, wantCache, quotaCache, current, basis, dirty, processing>>
      BY <3>1 DEF CollectGarbage, Terminate, RemovePod, Collect, ListPods, LockNodesInfo, CollectPod,
         DeleteCollected, UnlockNodesInfo, ProcessRestarts, NodeConnects, vars, apiVars, cacheVars, queueVars
    <3>2. ASSUME NEW w \in Workers,
                 \/ \E p \in Pods : ConfigurePod(w, p) \/ Schedule(w, p) \/ KubeDelete(w, p)
                 \/ Request(w) \/ Create(w) \/ WaitReturns(w)
          PROVE  UNCHANGED <<want, quota, wantCache, quotaCache, current, basis, dirty, processing>>
      BY <3>2 DEF ConfigurePod, Schedule, KubeDelete, Request, Create, WaitReturns,
         apiVars, cacheVars, queueVars
    <3>3. ASSUME NEW w \in Workers, reconcileReplicas(w)
          PROVE  UNCHANGED <<want, quota, wantCache, quotaCache, current, basis, dirty, processing>>
      BY <3>3 DEF reconcileReplicas, Reconcile, apiVars, cacheVars, queueVars
    <3>. QED BY <1>10, <3>1, <3>2, <3>3
  <2>. QED BY <1>0, <2>1 DEF FaSTPodsOK
<1>. QED BY <1>1, <1>2, <1>3, <1>4, <1>5, <1>6, <1>7, <1>8, <1>9, <1>10, NextCases DEF Around

\* A write of a pod and the event that tells of it.
LEMMA SetPodOK ==
    ASSUME PodsOK, NEW p \in Pods, NEW state \in PodStates, SetPod(p, state)
    PROVE  pod' \in [Pods -> PodStates] /\ podEvents' \in Seq([pod : Pods, state : PodStates])
<1>. DEFINE event == [pod |-> p, state |-> state]
<1>1. event \in [pod : Pods, state : PodStates]
  OBVIOUS
<1>2. pod' = [pod EXCEPT ![p] = state] /\ podEvents' \in {podEvents, Append(podEvents, event)}
  BY DEF SetPod
<1>3. podEvents \in Seq([pod : Pods, state : PodStates]) /\ pod \in [Pods -> PodStates]
  BY DEF PodsOK
<1>. DEFINE S == [pod : Pods, state : PodStates]
<1>4. podEvents' \in Seq([pod : Pods, state : PodStates])
  <2>1. podEvents \in Seq(S) /\ event \in S
    BY <1>1, <1>3
  <2>. HIDE DEF event, S
  <2>2. podEvents' \in Seq(S)
    BY <1>2, <2>1, EventFacts
  <2>. QED BY <2>2 DEF S
<1>. QED BY <1>2, <1>3, <1>4

\* A kube Delete keeps the shape of the pods and of the watch.
LEMMA DeletePodOK ==
    ASSUME PodsOK, NEW p \in Pods, DeletePod(p)
    PROVE  pod' \in [Pods -> PodStates] /\ podEvents' \in Seq([pod : Pods, state : PodStates])
<1>1. CASE SetPod(p, "terminating")
  BY <1>1, SetPodOK DEF PodStates
<1>2. CASE UNCHANGED <<pod, podEvents>>
  BY <1>2 DEF PodsOK
<1>. QED BY <1>1, <1>2 DEF DeletePod

\* The kube Delete of removeFaSTPodFromList is that of a pod.
LEMMA VictimIsPod ==
    ASSUME ControllerInv, NEW x \in FaSTPods, DeleteCollected(x)
    PROVE  collector[x].victim \in Pods
<1>1. collector[x] \in CollectorState
  BY DEF ControllerInv, GoroutinesOK
<1>. QED BY <1>1 DEF DeleteCollected, CollectorState

\* The pods in the API server and the cache keep their shape.
LEMMA PodsStep ==
    ASSUME ControllerInv, [Next]_vars
    PROVE  PodsOK'
<1>0. PodsOK /\ WorkersOK
  BY DEF ControllerInv
<1>1. ASSUME NEW p \in Pods, CollectGarbage(p) \/ Terminate(p) PROVE PodsOK'
  <2>1. /\ SetPod(p, "terminating") \/ SetPod(p, "none")
        /\ podCache' = podCache /\ born' \subseteq born
    BY <1>1 DEF CollectGarbage, Terminate, cacheVars, boundVars
  <2>. QED BY <1>0, <2>1, SetPodOK DEF PodsOK, PodStates
<1>2. CASE PodEvent
  <2>1. podEvents # <<>> /\ podEvents' = Tail(podEvents)
        /\ podCache' = [podCache EXCEPT ![Head(podEvents).pod] = Head(podEvents).state]
        /\ UNCHANGED <<pod, born>>
    BY <1>2 DEF PodEvent, boundVars
  <2>2. /\ Head(podEvents) \in [pod : Pods, state : PodStates]
        /\ Tail(podEvents) \in Seq([pod : Pods, state : PodStates])
    BY <1>0, <2>1, EventFacts DEF PodsOK
  <2>3. podCache' \in [Pods -> PodStates]
    BY <1>0, <2>1, <2>2 DEF PodsOK
  <2>. QED BY <1>0, <2>1, <2>2, <2>3 DEF PodsOK
<1>3. ASSUME NEW w \in Workers, NEW p \in Pods, KubeDelete(w, p) PROVE PodsOK'
  <2>1. DeletePod(p) \/ UNCHANGED <<pod, podEvents>>
    BY <1>3 DEF KubeDelete
  <2>2. UNCHANGED <<podCache, born>>
    BY <1>3 DEF KubeDelete, cacheVars
  <2>. QED BY <1>0, <2>1, <2>2, DeletePodOK DEF PodsOK
<1>4. ASSUME NEW w \in Workers, Create(w) PROVE PodsOK'
  <2>1. worker[w].pod \in Pods
    BY <1>0, <1>4 DEF Create, WorkersOK, WorkerOK
  <2>2. CASE SetPod(worker[w].pod, "active") /\ born' = born \cup {worker[w].pod}
    <3>1. podCache' = podCache
      BY <1>4 DEF Create, cacheVars
    <3>. QED BY <1>0, <2>1, <2>2, <3>1, SetPodOK DEF PodsOK, PodStates
  <2>3. CASE UNCHANGED <<pod, podEvents, born>>
    <3>1. podCache' = podCache
      BY <1>4 DEF Create, cacheVars
    <3>. QED BY <1>0, <2>3, <3>1 DEF PodsOK
  <2>. QED BY <1>4, <2>2, <2>3 DEF Create
<1>5. ASSUME NEW x \in FaSTPods, DeleteCollected(x) PROVE PodsOK'
  <2>1. PICK p \in Pods : p = collector[x].victim
    BY <1>5, VictimIsPod
  <2>2. /\ DeletePod(p) \/ UNCHANGED <<pod, podEvents>>
        /\ UNCHANGED <<podCache, born>>
    BY <1>5, <2>1 DEF DeleteCollected, cacheVars
  <2>. QED BY <1>0, <2>2, DeletePodOK DEF PodsOK
<1>6. CASE Dies
  <2>1. podEvents' = <<>> /\ podCache' = [p \in Pods |-> "none"] /\ born' = {} /\ pod' = pod
    BY <1>6, DiesLoses DEF LoseGoroutines
  <2>2. podCache' \in [Pods -> PodStates]
    BY <2>1 DEF PodStates
  <2>3. podEvents' \in Seq([pod : Pods, state : PodStates])
    BY <2>1
  <2>. QED BY <1>0, <2>1, <2>2, <2>3 DEF PodsOK
<1>7. CASE ProcessRestarts
  <2>1. podCache' = pod /\ UNCHANGED <<pod, podEvents, born>>
    BY <1>7 DEF ProcessRestarts, apiVars, boundVars
  <2>. QED BY <1>0, <2>1 DEF PodsOK
<1>8. ASSUME \/ \E x \in FaSTPods : \/ \E n \in Replicas[x] : Scale(x, n)
                                    \/ \E use \in Uses : Reconfigure(x, use)
                                    \/ DeleteFaSTPod(x) \/ FaSTPodEvent(x) \/ Resync(x)
                                    \/ ListPods(x) \/ LockNodesInfo(x) \/ UnlockNodesInfo(x)
                                    \/ \E w \in Workers : processNextWorkItem(w, x)
             \/ \E p \in Pods : \/ RemovePod(p) \/ \E x \in FaSTPods : CollectPod(x, p)
                                \/ \E w \in Workers : ConfigurePod(w, p) \/ Schedule(w, p)
             \/ NodeConnects
             \/ \E w \in Workers : reconcileReplicas(w) \/ Request(w) \/ WaitReturns(w) \/ UpdateStatus(w)
             \/ UNCHANGED vars
      PROVE  PodsOK'
  <2>1. UNCHANGED <<pod, podEvents, podCache, born>>
    BY <1>8 DEF Scale, Reconfigure, DeleteFaSTPod, FaSTPodEvent, Resync, ListPods, LockNodesInfo,
       UnlockNodesInfo, processNextWorkItem, RemovePod, CollectPod, ConfigurePod, Schedule, NodeConnects,
       reconcileReplicas, Reconcile, Request, WaitReturns, UpdateStatus, vars, apiVars, cacheVars, boundVars
  <2>. QED BY <1>0, <2>1 DEF PodsOK
<1>. QED BY <1>1, <1>2, <1>3, <1>4, <1>5, <1>6, <1>7, <1>8, NextCases DEF Around, Collect

\* The removals that are under way and the collectors keep their shape.
LEMMA GoroutinesStep ==
    ASSUME ControllerInv, [Next]_vars
    PROVE  GoroutinesOK'
<1>0. GoroutinesOK
  BY DEF ControllerInv
<1>1. ASSUME NEW x \in FaSTPods, FaSTPodEvent(x) PROVE GoroutinesOK'
  <2>1. /\ removals' = removals
        /\ \/ collector' = collector
           \/ collector' = [collector EXCEPT ![x].pc = "started"]
    BY <1>1 DEF FaSTPodEvent
  <2>. QED BY <1>0, <2>1 DEF GoroutinesOK, CollectorState
<1>2. ASSUME NEW x \in FaSTPods, ListPods(x) PROVE GoroutinesOK'
  <2>. DEFINE pods == {p \in Pods : Owner[p] = x /\ podCache[p] # "none"}
  <2>1. /\ removals' = removals
        /\ collector' = [collector EXCEPT ![x].pc = "listed", ![x].pods = pods]
    BY <1>2 DEF ListPods
  <2>2. pods \subseteq Pods
    OBVIOUS
  <2>. HIDE DEF pods
  <2>. QED BY <1>0, <2>1, <2>2 DEF GoroutinesOK, CollectorState
<1>3. ASSUME NEW x \in FaSTPods, LockNodesInfo(x) \/ UnlockNodesInfo(x) PROVE GoroutinesOK'
  <2>1. /\ removals' = removals
        /\ \/ collector' = [collector EXCEPT ![x].pc = "loop"]
           \/ collector' = [collector EXCEPT ![x].pc = "done"]
    BY <1>3 DEF LockNodesInfo, UnlockNodesInfo
  <2>. QED BY <1>0, <2>1 DEF GoroutinesOK, CollectorState
<1>4. ASSUME NEW x \in FaSTPods, \/ \E p \in Pods : CollectPod(x, p)
                                 \/ DeleteCollected(x)
      PROVE  GoroutinesOK'
  <2>1. CASE \E p \in Pods : CollectPod(x, p)
    <3>1. PICK p \in Pods : CollectPod(x, p)
      BY <2>1
    <3>2. PICK victim \in {p, NoPod} :
             /\ removals' = removals
             /\ collector' = [collector EXCEPT ![x].pods = @ \ {p}, ![x].victim = victim]
      BY <3>1 DEF CollectPod
    <3>. QED BY <1>0, <3>2 DEF GoroutinesOK, CollectorState
  <2>2. CASE DeleteCollected(x)
    <3>1. PICK p \in Pods : p = collector[x].victim
      BY <2>2, VictimIsPod
    <3>2. /\ removals' = removals
          /\ \/ collector' = [collector EXCEPT ![x].victim = NoPod]
             \/ collector' = [collector EXCEPT ![x].victim = NoPod, ![x].failed = @ \cup {p}]
      BY <2>2, <3>1 DEF DeleteCollected
    <3>. QED BY <1>0, <3>2 DEF GoroutinesOK, CollectorState
  <2>. QED BY <1>4, <2>1, <2>2
<1>5. ASSUME NEW w \in Workers, NEW p \in Pods, KubeDelete(w, p) PROVE GoroutinesOK'
  <2>1. removals[p] < MaxRemovals /\ removals' = [removals EXCEPT ![p] = @ + 1] /\ collector' = collector
    BY <1>5 DEF KubeDelete
  <2>. QED BY <1>0, <2>1, ControllerAssumption DEF GoroutinesOK
<1>6. ASSUME NEW p \in Pods, RemovePod(p) PROVE GoroutinesOK'
  <2>1. removals[p] > 0 /\ removals' = [removals EXCEPT ![p] = @ - 1] /\ collector' = collector
    BY <1>6 DEF RemovePod
  <2>. QED BY <1>0, <2>1, ControllerAssumption DEF GoroutinesOK
<1>7. CASE Dies
  <2>1. removals' = [p \in Pods |-> 0] /\ collector' = [x \in FaSTPods |-> NoCollector]
    BY <1>7, DiesLoses DEF LoseGoroutines
  <2>. QED BY <2>1, ControllerAssumption DEF GoroutinesOK, CollectorState, NoCollector
<1>8. ASSUME \/ \E x \in FaSTPods : \/ \E n \in Replicas[x] : Scale(x, n)
                                    \/ \E use \in Uses : Reconfigure(x, use)
                                    \/ DeleteFaSTPod(x) \/ Resync(x)
                                    \/ \E w \in Workers : processNextWorkItem(w, x)
             \/ \E p \in Pods : CollectGarbage(p) \/ Terminate(p)
             \/ PodEvent \/ ProcessRestarts \/ NodeConnects
             \/ UNCHANGED vars
      PROVE  GoroutinesOK'
  <2>1. UNCHANGED <<removals, collector>>
    BY <1>8 DEF Scale, Reconfigure, DeleteFaSTPod, Resync, processNextWorkItem, CollectGarbage,
       Terminate, PodEvent, ProcessRestarts, NodeConnects, vars
  <2>. QED BY <1>0, <2>1 DEF GoroutinesOK
<1>9. ASSUME NEW w \in Workers, \/ \E p \in Pods : ConfigurePod(w, p) \/ Schedule(w, p)
                                \/ reconcileReplicas(w) \/ Request(w) \/ Create(w)
                                \/ WaitReturns(w) \/ UpdateStatus(w)
      PROVE  GoroutinesOK'
  <2>1. UNCHANGED <<removals, collector>>
    BY <1>9 DEF ConfigurePod, Schedule, reconcileReplicas, Reconcile, Request, Create,
       WaitReturns, UpdateStatus
  <2>. QED BY <1>0, <2>1 DEF GoroutinesOK
<1>. QED BY <1>1, <1>2, <1>3, <1>4, <1>5, <1>6, <1>7, <1>8, <1>9, NextCases DEF Around, Collect

-----------------------------------------------------------------------------
\* The invariant holds of a controller that has just started.
LEMMA ControllerInit ==
    ASSUME Init
    PROVE  ControllerInv
<1>1. LedgerInv /\ BookInv
  BY InitInv, InitBooks DEF Init
<1>2. WorkersOK /\ MutexOK
  <2>1. worker = [w \in Workers |-> Idle] /\ fstp2PodsMtx = Free /\ selections = {}
    BY DEF Init, LedgerInit
  <2>2. Idle.pc \notin Locked
    BY DEF Idle, Locked
  <2>. QED BY <2>1, <2>2, IdleOK DEF WorkersOK, MutexOK, WorkerOK
<1>3. FaSTPodsOK
  <2>1. want \in [FaSTPods -> Nat] /\ \A x \in FaSTPods : want[x] \in Replicas[x]
    BY ControllerAssumption DEF Init
  <2>2. wantCache = [x \in FaSTPods |-> Gone]
    BY DEF Init
  <2>3. quota \in [FaSTPods -> QuotaState] /\ \A x \in FaSTPods : quota[x].share \in Uses
    <3>1. UseOf \in [FaSTPods -> Uses]
      BY ControllerAssumption
    <3>2. quota = [x \in FaSTPods |->
              [share |-> UseOf[x], applied |-> IF x \in Fresh THEN NoShare ELSE UseOf[x]]]
      BY DEF Init
    <3>. QED BY <3>1, <3>2 DEF QuotaState
  <2>4. quotaCache \in [FaSTPods -> QuotaState]
    BY DEF Init, QuotaState, NoQuota
  <2>5. current = {} /\ basis = {} /\ dirty = {} /\ processing = {}
    BY DEF Init
  <2>. QED BY <2>1, <2>2, <2>3, <2>4, <2>5 DEF FaSTPodsOK
<1>4. PodsOK
  BY DEF Init, PodsOK, PodStates
<1>5. GoroutinesOK
  BY ControllerAssumption DEF Init, GoroutinesOK, CollectorState, NoCollector
<1>. QED BY <1>1, <1>2, <1>3, <1>4, <1>5 DEF ControllerInv

\* Every step of the controller keeps the invariant.
LEMMA ControllerStep ==
    ASSUME ControllerInv, [Next]_vars
    PROVE  ControllerInv'
<1>1. LedgerInv'
  BY LedgerStep, NextInv DEF ControllerInv
<1>. QED BY <1>1, BooksStep, WorkersStep, FaSTPodsStep, PodsStep, GoroutinesStep DEF ControllerInv

\* The controller always satisfies its invariant.
THEOREM ControllerInvariance == Spec => []ControllerInv
<1>1. Init => ControllerInv
  BY ControllerInit
<1>2. ControllerInv /\ [Next]_vars => ControllerInv'
  BY ControllerStep
<1>. QED BY <1>1, <1>2, PTL DEF Spec

\* Type correctness: the objects, the caches, the queue and the goroutines keep the shape of the Go declarations; the batch counters of slowStartbatch and the wait group of a deletion never go below zero.
THEOREM ControllerTypeCorrect == Spec => []ControllerTypeOK
<1>1. ControllerInv => ControllerTypeOK
  BY DEF ControllerInv, ControllerTypeOK, FaSTPodsOK, PodsOK, WorkersOK, MutexOK, GoroutinesOK,
         WorkerState, QuotaState
<1>. QED BY <1>1, ControllerInvariance, PTL

\* The controller implements the GPU ledger: with fstp2PodsMtx held from ScheduleRequest to the Create of the pod, every step of any worker, removal or collector is a step of the ledger, or none.
THEOREM ControllerImplementsLedger == Spec => LedgerSpec
<1>1. Init => LedgerInit
  BY DEF Init
<1>2. ControllerInv /\ [Next]_vars => [LedgerNext]_ledgerVars
  BY LedgerStep
<1>. QED BY <1>1, <1>2, ControllerInvariance, PTL DEF Spec, LedgerSpec

\* What is proved of the ledger holds under the controller: no two FastPods have one port, no GPU is booked beyond its capacity or by pods of two types, no daemon is stopped under a recorded pod, and the answer of a ScheduleRequest is not stale when it is used.
THEOREM ControllerKeepsLedger ==
    Spec => [](PortsDistinct /\ WithinCapacity /\ OneMode /\ MpsRunsWhileRecorded /\ SelectionStaysValid)
<1>1. LedgerInv =>
         PortsDistinct /\ WithinCapacity /\ OneMode /\ MpsRunsWhileRecorded /\ SelectionStaysValid
  BY InvImplies DEF LedgerInv
<1>2. ControllerInv => LedgerInv
  BY DEF ControllerInv
<1>. QED BY <1>1, <1>2, ControllerInvariance, PTL

-----------------------------------------------------------------------------
(***************************************************************************)
(* A pod that runs is in the ledger.                                       *)
(***************************************************************************)
\* Where a pod changes in the API server: a live one is deleted, a terminating one is gone, or a new one is created.
LEMMA PodWrites ==
    ASSUME ControllerInv, [Next]_vars
    PROVE  \/ /\ pod' = pod
              /\ \/ podEvents' = podEvents \/ podEvents' = <<>>
                 \/ podEvents # <<>> /\ podEvents' = Tail(podEvents)
           \/ \E p \in Pods : \/ pod[p] = "active" /\ SetPod(p, "terminating")
                              \/ pod[p] = "terminating" /\ SetPod(p, "none")
           \/ \E w \in Workers : Create(w) /\ SetPod(worker[w].pod, "active")
<1>1. ASSUME NEW p \in Pods, CollectGarbage(p) \/ Terminate(p)
      PROVE  \/ pod[p] = "active" /\ SetPod(p, "terminating")
             \/ pod[p] = "terminating" /\ SetPod(p, "none")
  BY <1>1 DEF CollectGarbage, Terminate
<1>2. ASSUME NEW p \in Pods, \/ \E w \in Workers : KubeDelete(w, p)
                             \/ \E x \in FaSTPods : p = collector[x].victim /\ DeleteCollected(x)
      PROVE  \/ pod[p] = "active" /\ SetPod(p, "terminating")
             \/ UNCHANGED <<pod, podEvents>>
  BY <1>2 DEF KubeDelete, DeleteCollected, DeletePod
<1>3. ASSUME NEW w \in Workers, Create(w)
      PROVE  SetPod(worker[w].pod, "active") \/ UNCHANGED <<pod, podEvents>>
  BY <1>3 DEF Create
<1>4. CASE PodEvent
  BY <1>4 DEF PodEvent
<1>5. CASE Dies
  BY <1>5, DiesLoses DEF LoseGoroutines
<1>6. ASSUME \/ \E x \in FaSTPods : \/ \E n \in Replicas[x] : Scale(x, n)
                                    \/ \E use \in Uses : Reconfigure(x, use)
                                    \/ DeleteFaSTPod(x) \/ FaSTPodEvent(x) \/ Resync(x)
                                    \/ ListPods(x) \/ LockNodesInfo(x) \/ UnlockNodesInfo(x)
                                    \/ \E w \in Workers : processNextWorkItem(w, x)
             \/ \E p \in Pods : \/ RemovePod(p) \/ \E x \in FaSTPods : CollectPod(x, p)
                                \/ \E w \in Workers : ConfigurePod(w, p) \/ Schedule(w, p)
             \/ ProcessRestarts \/ NodeConnects
             \/ \E w \in Workers : reconcileReplicas(w) \/ Request(w) \/ WaitReturns(w) \/ UpdateStatus(w)
             \/ UNCHANGED vars
      PROVE  UNCHANGED <<pod, podEvents>>
  BY <1>6 DEF Scale, Reconfigure, DeleteFaSTPod, FaSTPodEvent, Resync, ListPods, LockNodesInfo,
     UnlockNodesInfo, processNextWorkItem, RemovePod, CollectPod, ConfigurePod, Schedule, ProcessRestarts, NodeConnects,
     reconcileReplicas, Reconcile, Request, WaitReturns, UpdateStatus, vars, apiVars
<1>7. ASSUME NEW x \in FaSTPods, DeleteCollected(x)
      PROVE  \E p \in Pods : p = collector[x].victim /\ DeleteCollected(x)
  BY <1>7, VictimIsPod
<1>. QED BY <1>1, <1>2, <1>3, <1>4, <1>5, <1>6, <1>7, NextCases DEF Around, Collect

\* A booking outlives every step but a removal of its own pod or of a pod that had its GPU in another mode, unless the process dies.
LEMMA BookingStays ==
    ASSUME ControllerInv, [Next]_vars, ~Dies, NEW q \in Pods, Booked(q),
           ~RemovePod(q), \A x \in FaSTPods : ~CollectPod(x, q),
           \A p \in Pods : RemovePod(p) \/ (\E x \in FaSTPods : CollectPod(x, p)) => ~OtherTenant(p, q)
    PROVE  Booked(q)'
<1>0. LedgerInv /\ BookInv /\ WorkersOK
  BY DEF ControllerInv
<1>1. ASSUME NEW w \in Workers, NEW p \in Pods, ConfigurePod(w, p) PROVE Booked(q)'
  <2>1. reconcileResourceConfig(p, worker[w].share) \/ UNCHANGED <<vGPUID2GPU, registered>>
    BY <1>1 DEF ConfigurePod, ledgerVars
  <2>2. KeepsBookings
    BY <1>0, <2>1, ReconfigBooks, QuietBooks
  <2>. QED BY <2>2 DEF KeepsBookings
<1>2. ASSUME NEW w \in Workers, NEW p \in Pods, Schedule(w, p) PROVE Booked(q)'
  <2>1. \/ ScheduleOk(Req(w, p)) \/ ScheduleNoFit(Req(w, p))
        \/ UNCHANGED <<vGPUID2GPU, registered>>
    BY <1>2 DEF Schedule, GetGPUFails, ScheduleNoGPU, ledgerVars
  <2>2. KeepsBookings
    BY <1>0, <2>1, ScheduleBooks, QuietBooks
  <2>. QED BY <2>2 DEF KeepsBookings
<1>3. ASSUME NEW w \in Workers, Request(w) PROVE Booked(q)'
  <2>. DEFINE req == Req(w, worker[w].pod)
  <2>1. worker[w].pc = "request" /\ (RequestRecorded(req) \/ RequestRefused(req))
    BY <1>3 DEF Request
  <2>2. worker[w].pod \in Pods /\ req.key = worker[w].pod
    BY <1>0, <2>1 DEF WorkersOK, WorkerOK, Req
  <2>3. req \in ResourceRequest
    BY <1>0, <2>1, <2>2, ReqOK
  <2>. HIDE DEF req
  <2>5. RequestRecorded(req) => Booked(q)'
    BY <1>0, RecordBooks DEF Books
  <2>6. RequestRefused(req) => Booked(q)'
    BY <1>0, <2>3, RefusedBooks DEF KeepsBookings
  <2>. QED BY <2>1, <2>5, <2>6
<1>4. ASSUME NEW p \in Pods, RemovePod(p) \/ \E x \in FaSTPods : CollectPod(x, p) PROVE Booked(q)'
  <2>1. Removal(p) /\ p # q /\ ~OtherTenant(p, q)
    BY <1>4 DEF RemovePod, CollectPod, removeFaSTPodFromList, Removal
  <2>. QED BY <1>0, <2>1, RemoveKeepsOthers
<1>5. CASE ProcessRestarts \/ NodeConnects
  BY <1>5 DEF ProcessRestarts, NodeConnects, Restart, handleNodeConnection, Booked, Keys
<1>6. ASSUME UNCHANGED ledgerVars PROVE Booked(q)'
  BY <1>6 DEF ledgerVars, Booked, Keys
<1>. QED BY <1>1, <1>2, <1>3, <1>4, <1>5, <1>6, LedgerCases

\* No event of the watch is about pod p.
NoEvents(p, events) == \A i \in 1 .. Len(events) : events[i].pod # p

\* An event of another pod, or an event that has been handled, makes none of pod p.
LEMMA NoEventsFacts ==
    ASSUME NEW S, NEW s \in Seq(S), NEW p, NoEvents(p, s)
    PROVE  /\ \A e \in S : e.pod # p => NoEvents(p, Append(s, e))
           /\ s # <<>> => Head(s).pod # p /\ NoEvents(p, Tail(s))
  BY DEF NoEvents

\* A name that no pod has is not touched by the API server or the watch, unless its worker creates the pod.
LEMMA UntouchedPod ==
    ASSUME ControllerInv, [Next]_vars, NEW p \in Pods, pod[p] = "none", NoEvents(p, podEvents),
           \A w \in Workers : Create(w) => worker[w].pod # p
    PROVE  pod'[p] = "none" /\ NoEvents(p, podEvents')
<1>. DEFINE S == [pod : Pods, state : PodStates]
<1>1. podEvents \in Seq(S) /\ pod \in [Pods -> PodStates] /\ WorkersOK
  BY DEF ControllerInv, PodsOK
<1>2. ASSUME NEW q \in Pods, NEW state \in PodStates, SetPod(q, state), q # p
      PROVE  pod'[p] = "none" /\ NoEvents(p, podEvents')
  <2>. DEFINE event == [pod |-> q, state |-> state]
  <2>1. event \in S /\ event.pod # p
    BY <1>2
  <2>2. pod' = [pod EXCEPT ![q] = state] /\ podEvents' \in {podEvents, Append(podEvents, event)}
    BY <1>2 DEF SetPod
  <2>. HIDE DEF event, S
  <2>3. NoEvents(p, podEvents')
    BY <1>1, <2>1, <2>2, NoEventsFacts
  <2>. QED BY <1>1, <1>2, <2>2, <2>3
<1>3. CASE /\ pod' = pod
           /\ \/ podEvents' = podEvents \/ podEvents' = <<>>
              \/ podEvents # <<>> /\ podEvents' = Tail(podEvents)
  <2>1. NoEvents(p, <<>>)
    BY DEF NoEvents
  <2>. HIDE DEF S
  <2>2. podEvents # <<>> => NoEvents(p, Tail(podEvents))
    BY <1>1, NoEventsFacts
  <2>. QED BY <1>3, <2>1, <2>2
<1>4. ASSUME NEW q \in Pods, \/ pod[q] = "active" /\ SetPod(q, "terminating")
                             \/ pod[q] = "terminating" /\ SetPod(q, "none")
      PROVE  pod'[p] = "none" /\ NoEvents(p, podEvents')
  <2>1. q # p
    BY <1>4
  <2>. QED BY <1>2, <1>4, <2>1 DEF PodStates
<1>5. ASSUME NEW w \in Workers, Create(w) /\ SetPod(worker[w].pod, "active")
      PROVE  pod'[p] = "none" /\ NoEvents(p, podEvents')
  <2>1. worker[w].pod \in Pods
    BY <1>1, <1>5 DEF Create, WorkersOK, WorkerOK
  <2>2. worker[w].pod # p
    BY <1>5
  <2>. QED BY <1>2, <1>5, <2>1, <2>2 DEF PodStates
<1>. HIDE DEF S
<1>. QED BY <1>3, <1>4, <1>5, PodWrites

\* The pod lister does not show it either.
LEMMA UntouchedCache ==
    ASSUME ControllerInv, [Next]_vars, NEW p \in Pods, Untouched(p)
    PROVE  podCache'[p] = "none"
<1>0. PodsOK
  BY DEF ControllerInv
<1>1. podCache[p] = "none" /\ pod[p] = "none" /\ NoEvents(p, podEvents)
  BY DEF Untouched, NoEvents
<1>2. CASE PodEvent
  <2>1. podEvents # <<>> /\ podCache' = [podCache EXCEPT ![Head(podEvents).pod] = Head(podEvents).state]
    BY <1>2 DEF PodEvent
  <2>2. Head(podEvents).pod # p
    BY <1>0, <1>1, <2>1, NoEventsFacts DEF PodsOK
  <2>. QED BY <1>0, <1>1, <2>1, <2>2 DEF PodsOK
<1>3. CASE ProcessRestarts
  BY <1>1, <1>3 DEF ProcessRestarts
<1>4. CASE Dies
  BY <1>4, DiesLoses DEF LoseGoroutines
<1>5. ASSUME \/ \E x \in FaSTPods : \/ \E n \in Replicas[x] : Scale(x, n)
                                    \/ \E use \in Uses : Reconfigure(x, use)
                                    \/ DeleteFaSTPod(x) \/ FaSTPodEvent(x) \/ Resync(x) \/ Collect(x)
             \/ \E q \in Pods : CollectGarbage(q) \/ Terminate(q) \/ RemovePod(q)
             \/ NodeConnects \/ UNCHANGED vars
      PROVE  podCache' = podCache
  BY <1>5 DEF Scale, Reconfigure, DeleteFaSTPod, FaSTPodEvent, Resync, Collect, ListPods, LockNodesInfo,
     CollectPod, DeleteCollected, UnlockNodesInfo, CollectGarbage, Terminate, RemovePod, NodeConnects, vars, cacheVars
<1>6. ASSUME NEW w \in Workers,
             \/ \E x \in FaSTPods : processNextWorkItem(w, x)
             \/ \E q \in Pods : ConfigurePod(w, q) \/ Schedule(w, q) \/ KubeDelete(w, q)
             \/ reconcileReplicas(w) \/ Request(w) \/ Create(w) \/ WaitReturns(w) \/ UpdateStatus(w)
      PROVE  podCache' = podCache
  <2>1. CASE \/ \E x \in FaSTPods : processNextWorkItem(w, x)
             \/ \E q \in Pods : ConfigurePod(w, q) \/ Schedule(w, q) \/ KubeDelete(w, q)
    BY <2>1 DEF processNextWorkItem, ConfigurePod, Schedule, KubeDelete, cacheVars
  <2>2. CASE reconcileReplicas(w) \/ Request(w) \/ Create(w) \/ WaitReturns(w) \/ UpdateStatus(w)
    BY <2>2 DEF reconcileReplicas, Reconcile, Request, Create, WaitReturns, UpdateStatus, cacheVars
  <2>. QED BY <1>6, <2>1, <2>2
<1>. QED BY <1>1, <1>2, <1>3, <1>4, <1>5, <1>6, NextCases DEF Around

\* Only the deletion of its FaSTPod and its own steps change a collector.
LEMMA CollectorCases ==
    ASSUME [Next]_vars
    PROVE  \/ UNCHANGED collector
           \/ \E x \in FaSTPods : FaSTPodEvent(x) \/ Collect(x)
           \/ Dies
<1>1. ASSUME \/ \E x \in FaSTPods : \/ \E n \in Replicas[x] : Scale(x, n)
                                    \/ \E use \in Uses : Reconfigure(x, use)
                                    \/ DeleteFaSTPod(x) \/ Resync(x)
                                    \/ \E w \in Workers : processNextWorkItem(w, x)
             \/ \E q \in Pods : \/ CollectGarbage(q) \/ Terminate(q) \/ RemovePod(q)
                                \/ \E w \in Workers : KubeDelete(w, q)
             \/ PodEvent \/ ProcessRestarts \/ NodeConnects
             \/ UNCHANGED vars
      PROVE  UNCHANGED collector
  BY <1>1 DEF Scale, Reconfigure, DeleteFaSTPod, Resync, processNextWorkItem, CollectGarbage,
     Terminate, RemovePod, KubeDelete, PodEvent, ProcessRestarts, NodeConnects, vars
<1>2. ASSUME NEW w \in Workers, \/ \E q \in Pods : ConfigurePod(w, q) \/ Schedule(w, q)
                                \/ reconcileReplicas(w) \/ Request(w) \/ Create(w)
                                \/ WaitReturns(w) \/ UpdateStatus(w)
      PROVE  UNCHANGED collector
  BY <1>2 DEF ConfigurePod, Schedule, reconcileReplicas, Reconcile, Request, Create,
     WaitReturns, UpdateStatus
<1>. QED BY <1>1, <1>2, NextCases DEF Around

\* What one step does to a collector: it goes on, lists its pods, takes one off, or is through with its victim.
LEMMA CollectorMoves ==
    ASSUME ControllerInv, NEW x \in FaSTPods, FaSTPodEvent(x) \/ Collect(x),
           NEW old, NEW new, old = collector[x], new = collector'[x]
    PROVE  /\ removals' = removals
           /\ \A y \in FaSTPods \ {x} : collector'[y] = collector[y]
           /\ \/ new = old
              \/ /\ want[x] = Gone \/ old.pc # "none"
                 /\ new.pods = old.pods /\ new.victim = old.victim /\ new.failed = old.failed
              \/ /\ old.pc # "none"
                 /\ new.pods = {p \in Pods : Owner[p] = x /\ podCache[p] # "none"}
                 /\ new.victim = old.victim /\ new.failed = old.failed
              \/ /\ new.pc = old.pc /\ old.victim = NoPod
                 /\ new.pods \subseteq old.pods /\ new.victim \in old.pods \cup {NoPod}
                 /\ new.failed = old.failed
              \/ /\ new.pc = old.pc /\ old.victim # NoPod
                 /\ new.pods = old.pods /\ new.victim = NoPod
                 /\ \/ DeletePod(old.victim) /\ new.failed = old.failed
                    \/ new.failed = old.failed \cup {old.victim}
<1>0. old \in CollectorState /\ collector \in [FaSTPods -> CollectorState]
  BY DEF ControllerInv, GoroutinesOK
<1>1. CASE FaSTPodEvent(x)
  <2>1. /\ removals' = removals
        /\ \/ collector' = collector
           \/ want[x] = Gone /\ collector' = [collector EXCEPT ![x].pc = "started"]
    BY <1>1 DEF FaSTPodEvent
  <2>. QED BY <1>0, <2>1 DEF CollectorState
<1>2. CASE LockNodesInfo(x) \/ UnlockNodesInfo(x)
  <2>1. /\ removals' = removals /\ old.pc # "none"
        /\ \E pc \in {"loop", "done"} : collector' = [collector EXCEPT ![x].pc = pc]
    BY <1>2 DEF LockNodesInfo, UnlockNodesInfo
  <2>. QED BY <1>0, <2>1 DEF CollectorState
<1>3. CASE ListPods(x)
  <2>. DEFINE pods == {p \in Pods : Owner[p] = x /\ podCache[p] # "none"}
  <2>1. /\ removals' = removals /\ old.pc # "none"
        /\ collector' = [collector EXCEPT ![x].pc = "listed", ![x].pods = pods]
    BY <1>3 DEF ListPods
  <2>. HIDE DEF pods
  <2>2. new.pods = pods /\ new.victim = old.victim /\ new.failed = old.failed
    BY <1>0, <2>1 DEF CollectorState
  <2>. QED BY <1>0, <2>1, <2>2 DEF pods
<1>4. ASSUME NEW p \in Pods, CollectPod(x, p)
      PROVE  /\ removals' = removals
             /\ \A y \in FaSTPods \ {x} : collector'[y] = collector[y]
             /\ new.pc = old.pc /\ old.victim = NoPod
             /\ new.pods \subseteq old.pods /\ new.victim \in old.pods \cup {NoPod}
             /\ new.failed = old.failed
  <2>1. PICK v \in {p, NoPod} :
           /\ removals' = removals /\ p \in old.pods /\ old.victim = NoPod
           /\ collector' = [collector EXCEPT ![x].pods = @ \ {p}, ![x].victim = v]
    BY <1>4 DEF CollectPod
  <2>2. /\ new.pc = old.pc /\ new.pods = old.pods \ {p}
        /\ new.victim = v /\ new.failed = old.failed
    BY <1>0, <2>1 DEF CollectorState
  <2>. QED BY <1>0, <2>1, <2>2
<1>5. CASE DeleteCollected(x)
  <2>1. CASE DeletePod(old.victim) /\ collector' = [collector EXCEPT ![x].victim = NoPod]
    <3>1. removals' = removals /\ old.victim # NoPod
      BY <1>5 DEF DeleteCollected
    <3>2. new.pc = old.pc /\ new.pods = old.pods /\ new.victim = NoPod /\ new.failed = old.failed
      BY <1>0, <2>1 DEF CollectorState
    <3>. QED BY <1>0, <2>1, <3>1, <3>2
  <2>2. CASE collector' = [collector EXCEPT ![x].victim = NoPod, ![x].failed = @ \cup {old.victim}]
    <3>1. removals' = removals /\ old.victim # NoPod
      BY <1>5 DEF DeleteCollected
    <3>2. /\ new.pc = old.pc /\ new.pods = old.pods
          /\ new.victim = NoPod /\ new.failed = old.failed \cup {old.victim}
      BY <1>0, <2>2 DEF CollectorState
    <3>. QED BY <1>0, <2>2, <3>1, <3>2
  <2>. QED BY <1>5, <2>1, <2>2 DEF DeleteCollected
<1>. QED BY <1>1, <1>2, <1>3, <1>4, <1>5 DEF Collect

\* No goroutine that deletes or removes has it.
LEMMA UntouchedGoroutines ==
    ASSUME ControllerInv, [Next]_vars, NEW p \in Pods, Untouched(p)
    PROVE  /\ removals'[p] = 0
           /\ \A x \in FaSTPods :
                 p \notin collector'[x].pods \cup collector'[x].failed \cup {collector'[x].victim}
<1>. DEFINE Off(r) == p \notin r.pods \cup r.failed \cup {r.victim}
<1>0. /\ removals \in [Pods -> 0 .. MaxRemovals] /\ collector \in [FaSTPods -> CollectorState]
      /\ NoPod # p
  BY LedgerAssumption DEF ControllerInv, GoroutinesOK
<1>1. /\ removals[p] = 0 /\ podCache[p] = "none"
      /\ \A x \in FaSTPods : Off(collector[x])
      /\ \A w \in Workers : p \notin worker[w].victims
  BY DEF Untouched
<1>2. ASSUME NEW x \in FaSTPods, FaSTPodEvent(x) \/ Collect(x)
      PROVE  removals' = removals /\ \A y \in FaSTPods : Off(collector'[y])
  <2>1. Off(collector[x]) /\ p \notin {q \in Pods : Owner[q] = x /\ podCache[q] # "none"}
    BY <1>1
  <2>2. Off(collector'[x])
    BY <1>0, <1>2, <2>1, CollectorMoves
  <2>. QED BY <1>1, <1>2, <2>2, CollectorMoves
<1>3. ASSUME NEW w \in Workers, NEW q \in Pods, KubeDelete(w, q)
      PROVE  removals'[p] = 0 /\ collector' = collector
  <2>1. q # p /\ removals' = [removals EXCEPT ![q] = @ + 1] /\ collector' = collector
    BY <1>1, <1>3 DEF KubeDelete
  <2>. QED BY <1>0, <1>1, <2>1
<1>4. ASSUME NEW q \in Pods, RemovePod(q)
      PROVE  removals'[p] = 0 /\ collector' = collector
  <2>1. q # p /\ removals' = [removals EXCEPT ![q] = @ - 1] /\ collector' = collector
    BY <1>1, <1>4 DEF RemovePod
  <2>. QED BY <1>0, <1>1, <2>1
<1>5. CASE Dies
  <2>1. removals' = [q \in Pods |-> 0] /\ collector' = [x \in FaSTPods |-> NoCollector]
    BY <1>5, DiesLoses DEF LoseGoroutines
  <2>. QED BY <1>0, <2>1 DEF NoCollector
<1>6. ASSUME \/ \E x \in FaSTPods : \/ \E n \in Replicas[x] : Scale(x, n)
                                    \/ \E use \in Uses : Reconfigure(x, use)
                                    \/ DeleteFaSTPod(x) \/ Resync(x)
                                    \/ \E w \in Workers : processNextWorkItem(w, x)
             \/ \E q \in Pods : CollectGarbage(q) \/ Terminate(q)
             \/ PodEvent \/ ProcessRestarts \/ NodeConnects
             \/ UNCHANGED vars
      PROVE  UNCHANGED <<removals, collector>>
  BY <1>6 DEF Scale, Reconfigure, DeleteFaSTPod, Resync, processNextWorkItem, CollectGarbage,
     Terminate, PodEvent, ProcessRestarts, NodeConnects, vars
<1>7. ASSUME NEW w \in Workers, \/ \E q \in Pods : ConfigurePod(w, q) \/ Schedule(w, q)
                                \/ reconcileReplicas(w) \/ Request(w) \/ Create(w)
                                \/ WaitReturns(w) \/ UpdateStatus(w)
      PROVE  UNCHANGED <<removals, collector>>
  BY <1>7 DEF ConfigurePod, Schedule, reconcileReplicas, Reconcile, Request, Create,
     WaitReturns, UpdateStatus
<1>. QED BY <1>1, <1>2, <1>3, <1>4, <1>5, <1>6, <1>7, NextCases DEF Around

\* And no worker has it as a pod that exists or is to go: what a sync reads comes from the lister.
LEMMA UntouchedWorkers ==
    ASSUME ControllerInv, [Next]_vars, NEW p \in Pods, Untouched(p), NEW v \in Workers
    PROVE  p \notin worker'[v].existed \cup worker'[v].victims
<1>1. /\ podCache[p] = "none"
      /\ \A w \in Workers : p \notin worker[w].existed \cup worker[w].victims
  BY DEF Untouched
<1>2. CASE Around \/ UNCHANGED vars
  <2>1. worker' = worker
    BY <1>2, AroundWorkers DEF vars
  <2>. QED BY <1>1, <2>1
<1>3. CASE Dies
  <2>1. worker'[v] = Idle
    BY <1>3, DiesLoses DEF LoseGoroutines
  <2>. QED BY <2>1 DEF Idle
<1>4. ASSUME NEW w \in Workers, NEW r, Moves(w, r), p \notin r.existed \cup r.victims
      PROVE  p \notin worker'[v].existed \cup worker'[v].victims
  BY <1>1, <1>4 DEF Moves
<1>5. ASSUME NEW w \in Workers, NEW x \in FaSTPods, processNextWorkItem(w, x)
      PROVE  p \notin worker'[v].existed \cup worker'[v].victims
  <2>1. \/ UNCHANGED worker
        \/ \E r : Moves(w, r) /\ r.existed = ActivePods(x, podCache) /\ r.victims = {}
    BY <1>5, ProcessWorkers
  <2>2. p \notin ActivePods(x, podCache)
    BY <1>1 DEF ActivePods
  <2>. QED BY <1>1, <1>4, <2>1, <2>2
<1>6. ASSUME NEW w \in Workers,
             \/ \E q \in Pods : ConfigurePod(w, q) \/ Schedule(w, q) \/ KubeDelete(w, q)
             \/ reconcileReplicas(w) \/ Request(w) \/ Create(w) \/ WaitReturns(w) \/ UpdateStatus(w)
      PROVE  p \notin worker'[v].existed \cup worker'[v].victims
  <2>1. \E r : /\ Moves(w, r)
               /\ r.existed \subseteq worker[w].existed
               /\ r.victims \subseteq worker[w].existed \cup worker[w].victims
    <3>1. Idle.existed = {} /\ Idle.victims = {}
      BY DEF Idle
    <3>2. CASE \E q \in Pods : ConfigurePod(w, q)
      BY <3>2, ConfigureWorkers
    <3>3. CASE \E q \in Pods : Schedule(w, q)
      BY <3>3, ScheduleWorkers
    <3>4. CASE \E q \in Pods : KubeDelete(w, q)
      BY <3>4, KubeDeleteWorkers
    <3>5. CASE reconcileReplicas(w)
      BY <3>5, ReconcileWorkers
    <3>6. CASE Request(w)
      BY <3>6, RequestWorkers
    <3>7. CASE Create(w)
      BY <3>7, CreateWorkers
    <3>8. CASE WaitReturns(w)
      BY <3>8, WaitWorkers
    <3>9. CASE UpdateStatus(w)
      BY <3>1, <3>9, UpdateWorkers
    <3>. QED BY <1>6, <3>2, <3>3, <3>4, <3>5, <3>6, <3>7, <3>8, <3>9
  <2>. QED BY <1>1, <1>4, <2>1
<1>. QED BY <1>2, <1>3, <1>5, <1>6, NextCases

\* Only the Create of a worker adds a pod to those this process has created.
LEMMA BornWrites ==
    ASSUME [Next]_vars
    PROVE  \/ born' \subseteq born
           \/ \E w \in Workers : /\ Create(w) /\ SetPod(worker[w].pod, "active")
                                 /\ born' = born \cup {worker[w].pod}
<1>1. ASSUME NEW w \in Workers, Create(w)
      PROVE  \/ born' \subseteq born
             \/ SetPod(worker[w].pod, "active") /\ born' = born \cup {worker[w].pod}
  BY <1>1 DEF Create
<1>2. CASE Dies
  BY <1>2, DiesLoses DEF LoseGoroutines
<1>3. CASE Around
  <2>1. ASSUME NEW x \in FaSTPods, \/ \E n \in Replicas[x] : Scale(x, n)
                                   \/ \E use \in Uses : Reconfigure(x, use)
                                   \/ DeleteFaSTPod(x) \/ FaSTPodEvent(x) \/ Resync(x) \/ Collect(x)
        PROVE  born' \subseteq born
    BY <2>1 DEF Scale, Reconfigure, DeleteFaSTPod, FaSTPodEvent, Resync, Collect, ListPods, LockNodesInfo,
       CollectPod, DeleteCollected, UnlockNodesInfo, boundVars
  <2>2. ASSUME NEW q \in Pods, CollectGarbage(q) \/ Terminate(q) \/ RemovePod(q)
        PROVE  born' \subseteq born
    BY <2>2 DEF CollectGarbage, Terminate, RemovePod, boundVars
  <2>3. CASE PodEvent \/ ProcessRestarts \/ NodeConnects
    BY <2>3 DEF PodEvent, ProcessRestarts, NodeConnects, boundVars
  <2>. QED BY <1>3, <2>1, <2>2, <2>3 DEF Around
<1>4. ASSUME NEW w \in Workers,
             \/ \E x \in FaSTPods : processNextWorkItem(w, x)
             \/ \E q \in Pods : ConfigurePod(w, q) \/ Schedule(w, q) \/ KubeDelete(w, q)
             \/ reconcileReplicas(w) \/ Request(w) \/ WaitReturns(w) \/ UpdateStatus(w)
      PROVE  born' \subseteq born
  <2>1. CASE \/ \E x \in FaSTPods : processNextWorkItem(w, x)
             \/ \E q \in Pods : ConfigurePod(w, q) \/ Schedule(w, q) \/ KubeDelete(w, q)
    BY <2>1 DEF processNextWorkItem, ConfigurePod, Schedule, KubeDelete, boundVars
  <2>2. CASE reconcileReplicas(w) \/ Request(w) \/ WaitReturns(w) \/ UpdateStatus(w)
    BY <2>2 DEF reconcileReplicas, Reconcile, Request, WaitReturns, UpdateStatus, boundVars
  <2>. QED BY <1>4, <2>1, <2>2
<1>5. ASSUME UNCHANGED vars PROVE born' \subseteq born
  BY <1>5 DEF vars, boundVars
<1>. QED BY <1>1, <1>2, <1>3, <1>4, <1>5, NextCases

\* A removal of a pod gets under way only behind wg.Done(), in a goroutine that deletes this pod.
LEMMA RemovalsWrites ==
    ASSUME ControllerInv, [Next]_vars, NEW p \in Pods
    PROVE  \/ removals'[p] = removals[p]
           \/ RemovePod(p) /\ removals'[p] = removals[p] - 1
           \/ \E w \in Workers : KubeDelete(w, p) /\ removals'[p] = removals[p] + 1
           \/ Dies /\ removals'[p] = 0
<1>0. removals \in [Pods -> 0 .. MaxRemovals]
  BY DEF ControllerInv, GoroutinesOK
<1>1. ASSUME NEW w \in Workers, NEW q \in Pods, KubeDelete(w, q)
      PROVE  \/ removals'[p] = removals[p]
             \/ KubeDelete(w, p) /\ removals'[p] = removals[p] + 1
  <2>1. removals' = [removals EXCEPT ![q] = @ + 1]
    BY <1>1 DEF KubeDelete
  <2>. QED BY <1>0, <1>1, <2>1
<1>2. ASSUME NEW q \in Pods, RemovePod(q)
      PROVE  \/ removals'[p] = removals[p]
             \/ RemovePod(p) /\ removals'[p] = removals[p] - 1
  <2>1. removals' = [removals EXCEPT ![q] = @ - 1]
    BY <1>2 DEF RemovePod
  <2>. QED BY <1>0, <1>2, <2>1
<1>3. CASE Dies
  <2>1. removals' = [q \in Pods |-> 0]
    BY <1>3, DiesLoses DEF LoseGoroutines
  <2>. QED BY <1>3, <2>1
<1>4. ASSUME \/ \E x \in FaSTPods : \/ \E n \in Replicas[x] : Scale(x, n)
                                    \/ \E use \in Uses : Reconfigure(x, use)
                                    \/ DeleteFaSTPod(x) \/ FaSTPodEvent(x) \/ Resync(x) \/ Collect(x)
                                    \/ \E w \in Workers : processNextWorkItem(w, x)
             \/ \E q \in Pods : CollectGarbage(q) \/ Terminate(q)
             \/ PodEvent \/ ProcessRestarts \/ NodeConnects
             \/ UNCHANGED vars
      PROVE  removals' = removals
  <2>1. CASE \E x \in FaSTPods : \/ \E n \in Replicas[x] : Scale(x, n)
                                 \/ \E use \in Uses : Reconfigure(x, use)
                                 \/ DeleteFaSTPod(x) \/ FaSTPodEvent(x) \/ Resync(x) \/ Collect(x)
                                 \/ \E w \in Workers : processNextWorkItem(w, x)
    BY <2>1 DEF Scale, Reconfigure, DeleteFaSTPod, FaSTPodEvent, Resync, Collect, ListPods, LockNodesInfo,
       CollectPod, DeleteCollected, UnlockNodesInfo, processNextWorkItem
  <2>2. CASE \/ \E q \in Pods : CollectGarbage(q) \/ Terminate(q)
             \/ PodEvent \/ ProcessRestarts \/ NodeConnects
             \/ UNCHANGED vars
    BY <2>2 DEF CollectGarbage, Terminate, PodEvent, ProcessRestarts, NodeConnects, vars
  <2>. QED BY <1>4, <2>1, <2>2
<1>5. ASSUME NEW w \in Workers, \/ \E q \in Pods : ConfigurePod(w, q) \/ Schedule(w, q)
                                \/ reconcileReplicas(w) \/ Request(w) \/ Create(w)
                                \/ WaitReturns(w) \/ UpdateStatus(w)
      PROVE  removals' = removals
  BY <1>5 DEF ConfigurePod, Schedule, reconcileReplicas, Reconcile, Request, Create,
     WaitReturns, UpdateStatus
<1>. QED BY <1>1, <1>2, <1>3, <1>4, <1>5, NextCases DEF Around

\* Where deletions do not fail, nobody removes a pod that goes on running but removeFaSTPodFromList: who removes it in reconcileReplicas has deleted it before.
LEMMA RunningIsNotRemoved ==
    ASSUME ControllerInv, "delete" \notin Faults, [Next]_vars, ~Dies,
           NEW p \in Pods, pod[p] = "active", pod'[p] = "active", removals[p] = 0
    PROVE  ~RemovePod(p) /\ removals'[p] = 0
<1>0. pod \in [Pods -> PodStates] /\ removals \in [Pods -> 0 .. MaxRemovals]
  BY DEF ControllerInv, PodsOK, GoroutinesOK
<1>1. ~DeletePod(p)
  BY <1>0 DEF DeletePod, SetPod
<1>2. ASSUME NEW w \in Workers, KubeDelete(w, p) PROVE FALSE
  BY <1>1, <1>2 DEF KubeDelete, Fault
<1>3. ~RemovePod(p)
  BY DEF RemovePod
<1>4. removals'[p] = 0
  BY <1>2, <1>3, RemovalsWrites
<1>. QED BY <1>3, <1>4

\* The pod that a worker is about to create, or has just scheduled: its name stays untouched until the worker creates it.
LEMMA NameStaysUntouched ==
    ASSUME ControllerInv, [Next]_vars, ~Dies, NEW p \in Pods, Untouched(p),
           \A w \in Workers : Create(w) => worker[w].pod # p
    PROVE  Untouched(p)'
<1>1. pod[p] = "none" /\ NoEvents(p, podEvents)
  BY DEF Untouched, NoEvents
<1>2. pod'[p] = "none" /\ NoEvents(p, podEvents')
  BY <1>1, UntouchedPod
<1>3. podCache'[p] = "none"
  BY UntouchedCache
<1>4. /\ removals'[p] = 0
      /\ \A x \in FaSTPods :
            p \notin collector'[x].pods \cup collector'[x].failed \cup {collector'[x].victim}
  BY UntouchedGoroutines
<1>5. \A v \in Workers : p \notin worker'[v].existed \cup worker'[v].victims
  BY UntouchedWorkers
<1>. QED BY <1>2, <1>3, <1>4, <1>5 DEF Untouched, NoEvents

\* How a worker gets to Create: it has scheduled a pod under an unused name, then the pod is recorded; the mutex is held throughout.
LEMMA ToCreate ==
    ASSUME ControllerInv, [Next]_vars, ~Dies, NEW w \in Workers, worker'[w].pc \in {"request", "create"}
    PROVE  \/ /\ worker'[w].pc = worker[w].pc /\ worker'[w].pod = worker[w].pod
              /\ ~Request(w) /\ ~Create(w)
           \/ /\ worker'[w].pc = "request" /\ \E p \in Pods : Schedule(w, p) /\ worker'[w].pod = p
           \/ /\ worker[w].pc = "request" /\ worker'[w].pc = "create"
              /\ worker'[w].pod = worker[w].pod
              /\ Request(w) /\ RequestRecorded(Req(w, worker[w].pod))
<1>0. WorkersOK /\ worker \in [Workers -> WorkerState]
  BY DEF ControllerInv, WorkersOK
<1>1. ASSUME Around \/ UNCHANGED vars
      PROVE  worker' = worker
  BY <1>1, AroundWorkers DEF vars
<1>4. ASSUME worker'[w] = worker[w]
      PROVE  ~Request(w) /\ ~Create(w)
  <2>1. ASSUME Request(w) PROVE FALSE
    <3>1. \E r : Moves(w, r) /\ r.pc \in {"create", "schedule", "status"}
      BY <2>1, RequestWorkers
    <3>. QED BY <1>4, <2>1, <3>1 DEF Moves, Request
  <2>2. ASSUME Create(w) PROVE FALSE
    <3>1. \E r : Moves(w, r) /\ r.pc \in {"schedule", "status"}
      BY <2>2, CreateWorkers
    <3>. QED BY <1>4, <2>2, <3>1 DEF Moves, Create
  <2>. QED BY <2>1, <2>2
<1>5. ASSUME NEW v \in Workers,
             \/ \E x \in FaSTPods : processNextWorkItem(v, x)
             \/ \E q \in Pods : ConfigurePod(v, q)
             \/ reconcileReplicas(v) \/ Create(v) \/ WaitReturns(v) \/ UpdateStatus(v)
      PROVE  worker'[w] = worker[w]
  <2>1. UNCHANGED worker \/ \E r : Moves(v, r) /\ r.pc \notin {"request", "create"}
    <3>1. Idle.pc = "idle"
      BY DEF Idle
    <3>2. CASE \E x \in FaSTPods : processNextWorkItem(v, x)
      BY <3>2, ProcessWorkers
    <3>3. CASE \E q \in Pods : ConfigurePod(v, q)
      BY <3>3, ConfigureWorkers
    <3>4. CASE reconcileReplicas(v)
      BY <3>4, ReconcileWorkers
    <3>5. CASE Create(v)
      BY <3>5, CreateWorkers
    <3>6. CASE WaitReturns(v)
      BY <3>6, WaitWorkers
    <3>7. CASE UpdateStatus(v)
      BY <3>1, <3>7, UpdateWorkers
    <3>. QED BY <1>5, <3>2, <3>3, <3>4, <3>5, <3>6, <3>7
  <2>. QED BY <2>1 DEF Moves
<1>6. ASSUME NEW v \in Workers, NEW q \in Pods, Schedule(v, q)
      PROVE  worker'[w] = worker[w] \/ (v = w /\ worker'[w].pc = "request" /\ worker'[w].pod = q)
  <2>1. \E r : Moves(v, r) /\ r.pc \in {"request", "schedule", "status"} /\ (r.pc = "request" => r.pod = q)
    BY <1>6, ScheduleWorkers
  <2>. QED BY <2>1 DEF Moves
<1>7. ASSUME NEW v \in Workers, NEW q \in Pods, KubeDelete(v, q)
      PROVE  worker'[w].pc = worker[w].pc /\ worker'[w].pod = worker[w].pod
  <2>1. \E r : Moves(v, r) /\ r.pc = worker[v].pc /\ r.pod = worker[v].pod
    BY <1>7, KubeDeleteWorkers
  <2>. QED BY <2>1 DEF Moves
<1>8. ASSUME NEW v \in Workers, NEW q \in Pods, KubeDelete(v, q)
      PROVE  ~Request(w) /\ ~Create(w)
  <2>1. ASSUME Request(w) PROVE FALSE
    <3>1. \E r : Moves(w, r) /\ r.pc \in {"create", "schedule", "status"}
      BY <2>1, RequestWorkers
    <3>. QED BY <1>7, <1>8, <2>1, <3>1 DEF Moves, Request
  <2>2. ASSUME Create(w) PROVE FALSE
    <3>1. \E r : Moves(w, r) /\ r.pc \in {"schedule", "status"}
      BY <2>2, CreateWorkers
    <3>. QED BY <1>7, <1>8, <2>2, <3>1 DEF Moves, Create
  <2>. QED BY <2>1, <2>2
<1>9. ASSUME NEW v \in Workers, Request(v)
      PROVE  \/ worker'[w] = worker[w]
             \/ /\ v = w /\ worker[w].pc = "request" /\ worker'[w].pc = "create"
                /\ worker'[w].pod = worker[w].pod /\ RequestRecorded(Req(w, worker[w].pod))
  <2>1. worker[v].pc = "request"
    BY <1>9 DEF Request
  <2>2. \E r : /\ Moves(v, r)
               /\ \/ /\ RequestRecorded(Req(v, worker[v].pod))
                     /\ r.pc = "create" /\ r.pod = worker[v].pod
                  \/ r.pc \in {"schedule", "status"}
    BY <1>9, RequestWorkers
  <2>. QED BY <2>1, <2>2 DEF Moves
<1>. QED BY <1>1, <1>4, <1>5, <1>6, <1>7, <1>8, <1>9, NextCases

\* A pod that this process has created and that runs after a step has just been created, or ran before.
LEMMA BornAndRunning ==
    ASSUME ControllerInv, [Next]_vars, NEW p \in born', pod'[p] = "active"
    PROVE  \/ \E w \in Workers : Create(w) /\ worker[w].pod = p
           \/ p \in born /\ p \in Pods /\ pod[p] = "active"
<1>0. WorkersOK /\ PodsOK
  BY DEF ControllerInv
<1>1. ASSUME \A w \in Workers : Create(w) => worker[w].pod # p
      PROVE  p \in born /\ p \in Pods /\ pod[p] = "active"
  <2>1. p \in born /\ p \in Pods
    BY <1>0, <1>1, BornWrites DEF PodsOK
  <2>2. ASSUME NEW q \in Pods, NEW state, SetPod(q, state), p = q => state # "active"
        PROVE  pod[p] = "active"
    BY <1>0, <2>1, <2>2 DEF SetPod, PodsOK
  <2>3. ASSUME NEW w \in Workers, Create(w) PROVE worker[w].pod \in Pods
    BY <1>0, <2>3 DEF Create, WorkersOK, WorkerOK
  <2>4. pod[p] = "active"
    BY <1>1, <2>2, <2>3, PodWrites
  <2>. QED BY <2>1, <2>4
<1>. QED BY <1>1

\* Every step keeps the names that workers have chosen to themselves, and no goroutine of reconcileReplicas removes a pod that runs.
LEMMA NamesStep ==
    ASSUME ControllerInv, NamesInv, "delete" \notin Faults, [Next]_vars
    PROVE  NamesInv'
<1>0. /\ WorkersOK /\ MutexOK /\ PodsOK
      /\ worker \in [Workers -> WorkerState]
      /\ WorkersOK' /\ MutexOK'
  BY WorkersStep DEF ControllerInv, WorkersOK
<1>1. CASE Dies
  <2>1. born' = {} /\ worker' = [w \in Workers |-> Idle]
    BY <1>1, DiesLoses DEF LoseGoroutines
  <2>. QED BY <2>1 DEF NamesInv, Idle
<1>2. CASE ~Dies
  <2>1. ASSUME NEW p \in born', pod'[p] = "active" PROVE removals'[p] = 0
    <3>1. ASSUME NEW w \in Workers, Create(w), worker[w].pod = p PROVE removals'[p] = 0
      BY <3>1 DEF NamesInv, Untouched, Create
    <3>2. CASE p \in born /\ p \in Pods /\ pod[p] = "active"
      BY <1>2, <2>1, <3>2, RunningIsNotRemoved DEF NamesInv
    <3>. QED BY <2>1, <3>1, <3>2, BornAndRunning
  <2>2. ASSUME NEW w \in Workers, NEW p \in Pods, p = worker'[w].pod,
               worker'[w].pc \in {"request", "create"}
        PROVE  Untouched(p)'
    <3>1. ASSUME NEW v \in Workers \ {w}, Create(v) PROVE worker[w].pc \notin Locked
      BY <1>0, <3>1, LockedAlone DEF Create, Locked
    <3>2. Untouched(p)
      <4>1. ASSUME Schedule(w, p) PROVE Untouched(p)
        BY <4>1 DEF Schedule, Unused, Untouched
      <4>. QED BY <1>2, <2>2, <4>1, ToCreate DEF NamesInv
    <3>3. ~Create(w)
      BY <1>2, <2>2, ToCreate DEF Create, Schedule, Request
    <3>4. ASSUME NEW v \in Workers, Create(v) PROVE worker[v].pod # p
      <4>1. v # w /\ worker[w].pc \notin Locked
        BY <3>1, <3>3, <3>4
      <4>2. Schedule(w, p)
        BY <1>2, <2>2, <4>1, ToCreate DEF Locked
      <4>. QED BY <4>1, <4>2 DEF Schedule, Locked
    <3>. QED BY <1>2, <3>2, <3>4, NameStaysUntouched
  <2>3. ASSUME NEW w \in Workers, worker'[w].pc \in {"request", "create"}
        PROVE  worker'[w].pod \in Pods
    BY <1>0, <2>3 DEF WorkersOK, WorkerOK
  <2>. QED BY <2>1, <2>2, <2>3 DEF NamesInv
<1>. QED BY <1>1, <1>2

\* A process that has just started has created no pod.
LEMMA LiveInit ==
    ASSUME Init
    PROVE  NamesInv /\ BookedInv
  BY DEF Init, NamesInv, BookedInv, Idle

\* Where Deletes do not fail, a pod that lives loses its booking only to removeFaSTPodFromList of its own FaSTPod, or to the removal of a pod that had its GPU in another mode.
LEMMA LosesBooking ==
    ASSUME ControllerInv, NamesInv, "delete" \notin Faults, [Next]_vars, ~Dies,
           NEW p \in Pods, Lives(p), Booked(p), ~Booked(p)'
    PROVE  \/ \E x \in FaSTPods : CollectPod(x, p)
           \/ \E q \in Pods : /\ OtherTenant(q, p)
                              /\ RemovePod(q) \/ \E x \in FaSTPods : CollectPod(x, q)
<1>1. removals[p] = 0
  BY DEF Lives, NamesInv, Untouched
<1>2. ~RemovePod(p)
  BY <1>1 DEF RemovePod
<1>. QED BY <1>2, BookingStays

\* What removeFaSTPodFromList has taken off stays its victim until its Delete, which ends it or fails.
LEMMA CleanedUpStays ==
    ASSUME ControllerInv, [Next]_vars, ~Dies, NEW p \in Pods, CleanedUp(p), pod'[p] = "active"
    PROVE  CleanedUp(p)'
<1>0. /\ collector \in [FaSTPods -> CollectorState] /\ NoPod # p
      /\ pod \in [Pods -> PodStates]
  BY LedgerAssumption DEF ControllerInv, GoroutinesOK, PodsOK
<1>. DEFINE Has(r) == p = r.victim \/ p \in r.failed
<1>1. PICK z \in FaSTPods : Has(collector[z])
  BY DEF CleanedUp
<1>2. ~DeletePod(p)
  BY <1>0 DEF DeletePod, SetPod
<1>3. ASSUME NEW x \in FaSTPods, FaSTPodEvent(x) \/ Collect(x)
      PROVE  Has(collector'[z])
  <2>1. Has(collector[x]) => Has(collector'[x])
    BY <1>0, <1>2, <1>3, CollectorMoves
  <2>. QED BY <1>1, <1>3, <2>1, CollectorMoves
<1>4. collector' = collector => Has(collector'[z])
  BY <1>1
<1>5. Has(collector'[z])
  BY <1>3, <1>4, CollectorCases
<1>. QED BY <1>5 DEF CleanedUp

\* Where the pods of a GPU are of one type, every step keeps the bookings of the pods that run.
LEMMA BookedStep ==
    ASSUME ControllerInv, NamesInv, BookedInv, SharedByOneType, "delete" \notin Faults, [Next]_vars
    PROVE  BookedInv'
<1>0. WorkersOK /\ MutexOK /\ PodsOK /\ WorkersOK' /\ KnownNode
  BY WorkersStep DEF ControllerInv, BookInv
<1>1. CASE Dies
  <2>1. born' = {} /\ worker' = [w \in Workers |-> Idle]
    BY <1>1, DiesLoses DEF LoseGoroutines
  <2>. QED BY <2>1 DEF BookedInv, Idle
<1>2. ASSUME ~Dies, NEW p \in Pods, Lives(p), Booked(p)
      PROVE  Booked(p)' \/ \E x \in FaSTPods : CollectPod(x, p)
  <2>1. \A q \in Pods : ~OtherTenant(q, p)
    BY DEF OtherTenant, SharedByOneType
  <2>. QED BY <1>2, <2>1, LosesBooking
<1>3. ASSUME ~Dies, NEW p \in born', pod'[p] = "active" PROVE Booked(p)' \/ CleanedUp(p)'
  <2>1. ASSUME NEW w \in Workers, Create(w), worker[w].pod = p PROVE Booked(p)'
    <3>1. Booked(p) /\ vGPUID2GPU' = vGPUID2GPU
      BY <2>1 DEF BookedInv, Create, ledgerVars
    <3>. QED BY <3>1 DEF Booked, Keys
  <2>2. CASE p \in born /\ p \in Pods /\ pod[p] = "active"
    <3>1. CASE CleanedUp(p)
      BY <1>3, <2>2, <3>1, CleanedUpStays
    <3>2. CASE Booked(p)
      <4>1. ASSUME NEW x \in FaSTPods, CollectPod(x, p) PROVE CleanedUp(p)'
        <5>1. Recorded(p)
          BY <1>0, <3>2 DEF KnownNode, Booked, Recorded
        <5>2. collector \in [FaSTPods -> CollectorState]
          BY DEF ControllerInv, GoroutinesOK
        <5>3. collector'[x].victim = p
          BY <4>1, <5>1, <5>2 DEF CollectPod, CollectorState
        <5>. QED BY <5>3 DEF CleanedUp
      <4>. QED BY <1>2, <1>3, <2>2, <3>2, <4>1 DEF Lives
    <3>. QED BY <2>2, <3>1, <3>2 DEF BookedInv
  <2>. QED BY <1>3, <2>1, <2>2, BornAndRunning
<1>4. ASSUME ~Dies, NEW w \in Workers, NEW p, p = worker'[w].pod, worker'[w].pc = "create" PROVE Booked(p)'
  <2>1. p \in Pods
    BY <1>0, <1>4 DEF WorkersOK, WorkerOK
  <2>2. CASE worker[w].pc = "create" /\ worker[w].pod = p
    <3>1. Booked(p) /\ \A x \in FaSTPods : p \notin collector[x].pods
      BY <2>2 DEF BookedInv, NamesInv, Untouched
    <3>2. \A x \in FaSTPods : ~CollectPod(x, p)
      BY <3>1 DEF CollectPod
    <3>. QED BY <1>2, <1>4, <2>1, <2>2, <3>1, <3>2 DEF Lives
  <2>3. CASE worker[w].pod = p /\ RequestRecorded(Req(w, worker[w].pod))
    <3>1. Req(w, worker[w].pod).key = p /\ LedgerInv /\ BookInv
      BY <2>3 DEF Req, ControllerInv
    <3>2. Books(p)
      BY <2>1, <2>3, <3>1, RecordBooks
    <3>. QED BY <2>1, <3>2 DEF Books
  <2>. QED BY <1>4, <2>2, <2>3, ToCreate
<1>. QED BY <1>1, <1>3, <1>4 DEF BookedInv

\* Where Deletes in reconcileReplicas do not fail, a pod that lives, of whatever type and beside FaSTPods of other types on its GPU, loses its booking only to the clean-up of its own deleted FaSTPod, or to the removal of a pod of another type (or an Exclusive one) that drops the entry of the GPU: a removal that comes late, after wg.Done(), or one made twice from a stale cache takes nothing from a pod of its own type.
THEOREM LivePodsKeepTheirBookings ==
    ASSUME "delete" \notin Faults
    PROVE  Spec => LivePodsKeepBookings
<1>1. Init => NamesInv
  BY LiveInit
<1>2. ControllerInv /\ NamesInv /\ [Next]_vars =>
        /\ NamesInv'
        /\ [\A p \in Pods : Lives(p) /\ Booked(p) /\ up' /\ ~Booked(p)' =>
              \/ \E x \in FaSTPods : CollectPod(x, p)
              \/ \E q \in Pods : /\ OtherTenant(q, p)
                                 /\ RemovePod(q) \/ \E x \in FaSTPods : CollectPod(x, q)]_vars
  <2>1. Dies => ~up'
    BY DiesLoses DEF LoseMemory
  <2>. QED BY <2>1, NamesStep, LosesBooking
<1>. QED BY <1>1, <1>2, ControllerInvariance, PTL DEF Spec, LivePodsKeepBookings

\* Where moreover the FaSTPods of a GPU are of one shared type, a pod that this process has created, that runs and that nobody has deleted has its port and its share, unless removeFaSTPodFromList has taken it off and its Delete is to come or has failed.
THEOREM LivePodsStayBooked ==
    ASSUME SharedByOneType, "delete" \notin Faults
    PROVE  Spec => []LivePodsAreBooked
<1>1. Init => NamesInv /\ BookedInv
  BY LiveInit
<1>2. ControllerInv /\ NamesInv /\ BookedInv /\ [Next]_vars => NamesInv' /\ BookedInv'
  BY NamesStep, BookedStep
<1>3. BookedInv => LivePodsAreBooked
  BY DEF BookedInv, LivePodsAreBooked
<1>. QED BY <1>1, <1>2, <1>3, ControllerInvariance, PTL DEF Spec

-----------------------------------------------------------------------------
(***************************************************************************)
(* What is in the ledger runs.                                             *)
(***************************************************************************)
\* A pod gets into the ledger in one place only: when the request of its worker is recorded.
LEMMA NewBooking ==
    ASSUME ControllerInv, [Next]_vars, NEW p \in Pods, Booked(p)', ~Booked(p)
    PROVE  \E w \in Workers : worker'[w].pc = "create" /\ worker'[w].pod = p
<1>0. LedgerInv /\ BookInv /\ WorkersOK
  BY DEF ControllerInv
<1>1. ASSUME NEW w \in Workers, NEW q \in Pods, ConfigurePod(w, q) PROVE FALSE
  <2>1. reconcileResourceConfig(q, worker[w].share) \/ UNCHANGED <<vGPUID2GPU, registered>>
    BY <1>1 DEF ConfigurePod, ledgerVars
  <2>2. KeepsBookings
    BY <1>0, <2>1, ReconfigBooks, QuietBooks
  <2>. QED BY <2>2 DEF KeepsBookings
<1>2. ASSUME NEW w \in Workers, NEW q \in Pods, Schedule(w, q) PROVE FALSE
  <2>1. \/ ScheduleOk(Req(w, q)) \/ ScheduleNoFit(Req(w, q))
        \/ UNCHANGED <<vGPUID2GPU, registered>>
    BY <1>2 DEF Schedule, GetGPUFails, ScheduleNoGPU, ledgerVars
  <2>2. KeepsBookings
    BY <1>0, <2>1, ScheduleBooks, QuietBooks
  <2>. QED BY <2>2 DEF KeepsBookings
<1>3. ASSUME NEW w \in Workers, Request(w)
      PROVE  worker'[w].pc = "create" /\ worker'[w].pod = p
  <2>. DEFINE q == worker[w].pod
  <2>1. worker[w].pc = "request" /\ q \in Pods
    BY <1>0, <1>3 DEF Request, WorkersOK, WorkerOK
  <2>2. Req(w, q) \in ResourceRequest /\ Req(w, q).key = q
    BY <1>0, <2>1, ReqOK DEF Req
  <2>3. ~RequestRefused(Req(w, q))
    BY <1>0, <2>2, RefusedBooks DEF KeepsBookings
  <2>4. \E r : /\ Moves(w, r)
               /\ RequestRecorded(Req(w, q)) /\ r.pc = "create" /\ r.pod = q
    BY <1>3, <2>3, RequestWorkers
  <2>5. Books(q)
    BY <1>0, <2>2, <2>4, RecordBooks
  <2>6. p = q
    BY <2>5 DEF Books
  <2>. QED BY <2>4, <2>6 DEF Moves
<1>4. ASSUME NEW q \in Pods, RemovePod(q) \/ \E x \in FaSTPods : CollectPod(x, q) PROVE FALSE
  <2>1. Removal(q)
    BY <1>4 DEF RemovePod, CollectPod, removeFaSTPodFromList, Removal
  <2>. QED BY <1>0, <2>1, RemoveBooks
<1>5. CASE Dies
  BY <1>5, DiesLoses, LoseMemoryBooks
<1>6. CASE ProcessRestarts \/ NodeConnects
  BY <1>6 DEF ProcessRestarts, NodeConnects, Restart, handleNodeConnection, Booked, Keys
<1>7. ASSUME UNCHANGED ledgerVars PROVE FALSE
  BY <1>7 DEF ledgerVars, Booked, Keys
<1>. QED BY <1>1, <1>2, <1>3, <1>4, <1>5, <1>6, <1>7, LedgerCases

\* A pod that has been removed from the ledger is not in it, and neither is any after the process has died.
LEMMA RemovedIsGone ==
    ASSUME ControllerInv, NEW p \in Pods,
           Dies \/ RemovePod(p) \/ \E x \in FaSTPods : CollectPod(x, p)
    PROVE  ~Booked(p)'
<1>1. LedgerInv /\ BookInv
  BY DEF ControllerInv
<1>2. CASE Dies
  BY <1>2, DiesLoses, LoseMemoryBooks
<1>3. CASE RemovePod(p) \/ \E x \in FaSTPods : CollectPod(x, p)
  <2>1. Removal(p)
    BY <1>3 DEF RemovePod, CollectPod, removeFaSTPodFromList, Removal
  <2>. QED BY <1>1, <2>1, RemoveBooks
<1>. QED BY <1>2, <1>3

\* A pod stops running when the garbage collector, a goroutine of the deletion or removeFaSTPodFromList deletes it.
LEMMA PodStops ==
    ASSUME ControllerInv, [Next]_vars, NEW p \in Pods, pod[p] = "active", pod'[p] # "active"
    PROVE  \/ CollectGarbage(p)
           \/ \E w \in Workers : KubeDelete(w, p)
           \/ \E x \in FaSTPods : collector[x].victim = p /\ DeleteCollected(x)
<1>0. pod \in [Pods -> PodStates] /\ WorkersOK
  BY DEF ControllerInv, PodsOK
<1>1. ASSUME NEW q \in Pods, NEW state, SetPod(q, state), q # p \/ state = "active" PROVE FALSE
  BY <1>0, <1>1 DEF SetPod
<1>2. ASSUME NEW q \in Pods, q # p, DeletePod(q) PROVE FALSE
  BY <1>1, <1>2 DEF DeletePod
<1>3. ASSUME NEW q \in Pods, CollectGarbage(q) \/ Terminate(q) PROVE CollectGarbage(p)
  <2>1. CASE CollectGarbage(q)
    <3>1. p = q
      BY <1>1, <2>1 DEF CollectGarbage
    <3>. QED BY <2>1, <3>1
  <2>2. CASE Terminate(q)
    BY <1>1, <2>2 DEF Terminate
  <2>. QED BY <1>3, <2>1, <2>2
<1>4. ASSUME NEW w \in Workers, NEW q \in Pods, KubeDelete(w, q) PROVE KubeDelete(w, p)
  <2>1. DeletePod(q)
    BY <1>4 DEF KubeDelete
  <2>. QED BY <1>2, <1>4, <2>1
<1>5. ASSUME NEW x \in FaSTPods, DeleteCollected(x) PROVE collector[x].victim = p
  <2>1. collector[x].victim \in Pods /\ DeletePod(collector[x].victim)
    BY <1>5, VictimIsPod DEF DeleteCollected
  <2>. QED BY <1>2, <2>1
<1>6. ASSUME NEW w \in Workers, Create(w) PROVE FALSE
  <2>1. worker[w].pod \in Pods /\ SetPod(worker[w].pod, "active")
    BY <1>0, <1>6 DEF Create, WorkersOK, WorkerOK
  <2>. QED BY <1>1, <2>1
<1>7. CASE Dies
  BY <1>7, DiesLoses
<1>8. ASSUME \/ \E x \in FaSTPods : \/ \E n \in Replicas[x] : Scale(x, n)
                                    \/ \E use \in Uses : Reconfigure(x, use)
                                    \/ DeleteFaSTPod(x) \/ FaSTPodEvent(x) \/ Resync(x)
                                    \/ ListPods(x) \/ LockNodesInfo(x) \/ UnlockNodesInfo(x)
                                    \/ \E w \in Workers : processNextWorkItem(w, x)
             \/ \E q \in Pods : \/ RemovePod(q) \/ \E x \in FaSTPods : CollectPod(x, q)
                                \/ \E w \in Workers : ConfigurePod(w, q) \/ Schedule(w, q)
             \/ PodEvent \/ ProcessRestarts \/ NodeConnects
             \/ \E w \in Workers : reconcileReplicas(w) \/ Request(w) \/ WaitReturns(w) \/ UpdateStatus(w)
             \/ UNCHANGED vars
      PROVE  pod' = pod
  BY <1>8 DEF Scale, Reconfigure, DeleteFaSTPod, FaSTPodEvent, Resync, ListPods, LockNodesInfo,
     UnlockNodesInfo, processNextWorkItem, RemovePod, CollectPod, ConfigurePod, Schedule, PodEvent, ProcessRestarts,
     NodeConnects, reconcileReplicas, Reconcile, Request, WaitReturns, UpdateStatus, vars, apiVars
<1>. QED BY <1>3, <1>4, <1>5, <1>6, <1>7, <1>8, NextCases DEF Around, Collect

\* A worker that has a pod recorded goes nowhere but to the Create of this pod.
LEMMA CreateFollows ==
    ASSUME ControllerInv, [Next]_vars, ~Dies, NEW w \in Workers, worker[w].pc = "create", ~Create(w)
    PROVE  worker'[w].pc = "create" /\ worker'[w].pod = worker[w].pod
<1>1. CASE Around \/ UNCHANGED vars
  BY <1>1, AroundWorkers DEF vars
<1>2. ASSUME NEW v \in Workers, NEW r, Moves(v, r), v # w
      PROVE  worker'[w] = worker[w]
  BY <1>2 DEF Moves
<1>3. ASSUME NEW v \in Workers,
             \/ \E x \in FaSTPods : processNextWorkItem(v, x)
             \/ \E q \in Pods : ConfigurePod(v, q) \/ Schedule(v, q)
             \/ reconcileReplicas(v) \/ Request(v) \/ Create(v) \/ WaitReturns(v) \/ UpdateStatus(v)
      PROVE  worker'[w] = worker[w]
  <2>1. v # w
    <3>1. \A q \in Pods : ~ConfigurePod(w, q)
      BY DEF ConfigurePod, ControllerInv, WorkersOK, WorkerOK
    <3>. QED BY <1>3, <3>1 DEF processNextWorkItem, Schedule, reconcileReplicas, Reconcile, Request, WaitReturns,
                               UpdateStatus
  <2>2. UNCHANGED worker \/ \E r : Moves(v, r)
    <3>1. CASE \E x \in FaSTPods : processNextWorkItem(v, x)
      BY <3>1, ProcessWorkers
    <3>2. CASE \E q \in Pods : ConfigurePod(v, q)
      BY <3>2, ConfigureWorkers
    <3>3. CASE \E q \in Pods : Schedule(v, q)
      BY <3>3, ScheduleWorkers
    <3>4. CASE reconcileReplicas(v)
      BY <3>4, ReconcileWorkers
    <3>5. CASE Request(v)
      BY <3>5, RequestWorkers
    <3>6. CASE Create(v)
      BY <3>6, CreateWorkers
    <3>7. CASE WaitReturns(v)
      BY <3>7, WaitWorkers
    <3>8. CASE UpdateStatus(v)
      BY <3>8, UpdateWorkers
    <3>. QED BY <1>3, <3>1, <3>2, <3>3, <3>4, <3>5, <3>6, <3>7, <3>8
  <2>. QED BY <1>2, <2>1, <2>2
<1>4. ASSUME NEW v \in Workers, NEW q \in Pods, KubeDelete(v, q)
      PROVE  worker'[w].pc = worker[w].pc /\ worker'[w].pod = worker[w].pod
  <2>1. \E r : Moves(v, r) /\ r.pc = worker[v].pc /\ r.pod = worker[v].pod
    BY <1>4, KubeDeleteWorkers
  <2>. QED BY <2>1 DEF Moves
<1>. QED BY <1>1, <1>3, <1>4, NextCases

\* A FaSTPod that users have deleted does not come back.
LEMMA GoneStays ==
    ASSUME ControllerInv, [Next]_vars, NEW x \in FaSTPods, want[x] = Gone
    PROVE  want'[x] = Gone
<1>0. want \in [FaSTPods -> Nat \cup {Gone}]
  BY DEF ControllerInv, FaSTPodsOK
<1>1. ASSUME NEW y \in FaSTPods, \/ \E n \in Replicas[y] : Scale(y, n)
                                 \/ DeleteFaSTPod(y)
      PROVE  want'[x] = Gone
  BY <1>0, <1>1 DEF Scale, DeleteFaSTPod
<1>2. CASE Dies
  BY <1>2, DiesLoses
<1>3. ASSUME \/ \E y \in FaSTPods : \/ \E use \in Uses : Reconfigure(y, use)
                                    \/ FaSTPodEvent(y) \/ Resync(y) \/ Collect(y)
                                    \/ \E w \in Workers : processNextWorkItem(w, y)
             \/ \E q \in Pods : CollectGarbage(q) \/ Terminate(q) \/ RemovePod(q)
             \/ PodEvent \/ ProcessRestarts \/ NodeConnects
             \/ UNCHANGED vars
      PROVE  want' = want
  <2>1. CASE \E y \in FaSTPods : \/ \E use \in Uses : Reconfigure(y, use)
                                 \/ FaSTPodEvent(y) \/ Resync(y) \/ Collect(y)
                                 \/ \E w \in Workers : processNextWorkItem(w, y)
    BY <2>1 DEF Reconfigure, FaSTPodEvent, Resync, Collect, ListPods, LockNodesInfo,
       CollectPod, DeleteCollected, UnlockNodesInfo, processNextWorkItem, apiVars
  <2>2. CASE \/ \E q \in Pods : CollectGarbage(q) \/ Terminate(q) \/ RemovePod(q)
             \/ PodEvent \/ ProcessRestarts \/ NodeConnects
             \/ UNCHANGED vars
    BY <2>2 DEF CollectGarbage, Terminate, RemovePod, PodEvent, ProcessRestarts, NodeConnects, vars, apiVars
  <2>. QED BY <1>3, <2>1, <2>2
<1>4. ASSUME NEW w \in Workers, \/ \E q \in Pods : ConfigurePod(w, q) \/ Schedule(w, q) \/ KubeDelete(w, q)
                                \/ reconcileReplicas(w) \/ Request(w) \/ Create(w)
                                \/ WaitReturns(w) \/ UpdateStatus(w)
      PROVE  want' = want
  BY <1>4 DEF ConfigurePod, Schedule, KubeDelete, reconcileReplicas, Reconcile, Request, Create,
     WaitReturns, UpdateStatus, apiVars
<1>. QED BY <1>1, <1>2, <1>3, <1>4, NextCases DEF Around

\* What removeFaSTPodFromList takes off and deletes are pods of FaSTPods that are gone.
LEMMA CollectedStep ==
    ASSUME ControllerInv, CollectedAreGone, [Next]_vars
    PROVE  CollectedAreGone'
<1>. DEFINE Good(x, r) ==
              /\ r.pc # "none" => want'[x] = Gone
              /\ \A p \in Pods : p \in r.pods \cup {r.victim} => want'[Owner[p]] = Gone
<1>0. /\ collector \in [FaSTPods -> CollectorState]
      /\ NoPod \notin Pods /\ \A p \in Pods : Owner[p] \in FaSTPods
  BY LedgerAssumption, ControllerAssumption DEF ControllerInv, GoroutinesOK
<1>1. ASSUME NEW y \in FaSTPods PROVE Good(y, collector[y])
  BY <1>0, GoneStays DEF CollectedAreGone
<1>2. ASSUME NEW x \in FaSTPods, FaSTPodEvent(x) \/ Collect(x)
      PROVE  \A y \in FaSTPods : Good(y, collector'[y])
  <2>. DEFINE old == collector[x]
              new == collector'[x]
              pods == {q \in Pods : Owner[q] = x /\ podCache[q] # "none"}
  <2>1. /\ \A y \in FaSTPods \ {x} : collector'[y] = collector[y]
        /\ new.pc = old.pc \/ want[x] = Gone \/ old.pc # "none"
        /\ new.pods \subseteq old.pods \/ (old.pc # "none" /\ new.pods = pods)
        /\ new.victim \in old.pods \cup {NoPod, old.victim}
    BY <1>2, CollectorMoves
  <2>2. want[x] = Gone => \A q \in pods : want[Owner[q]] = Gone
    OBVIOUS
  <2>3. old.pc # "none" => want[x] = Gone
    BY DEF CollectedAreGone
  <2>. HIDE DEF pods, new
  <2>4. \A p \in Pods : p \in new.pods \cup {new.victim} => want[Owner[p]] = Gone
    BY <1>0, <2>1, <2>2, <2>3 DEF CollectedAreGone
  <2>5. new.pc # "none" => want[x] = Gone
    BY <2>1, <2>3
  <2>6. Good(x, new)
    BY <1>0, <2>4, <2>5, GoneStays
  <2>. QED BY <1>1, <2>1, <2>6 DEF new
<1>3. CASE Dies
  <2>1. collector' = [y \in FaSTPods |-> NoCollector]
    BY <1>3, DiesLoses DEF LoseGoroutines
  <2>. QED BY <1>0, <2>1 DEF CollectedAreGone, NoCollector
<1>4. CASE UNCHANGED collector
  BY <1>1, <1>4 DEF CollectedAreGone
<1>. QED BY <1>2, <1>3, <1>4, CollectorCases DEF CollectedAreGone

\* No step leaves a booking without a pod that runs, is about to run or is about to be removed.
LEMMA LeakStep ==
    ASSUME ControllerInv, CollectedAreGone, NothingLeaks, "create" \notin Faults, [Next]_vars
    PROVE  NothingLeaks'
<1>. SUFFICES ASSUME NEW p \in Pods, Booked(p)', want'[Owner[p]] # Gone
              PROVE  AccountedFor(p)'
  BY DEF NothingLeaks
<1>0. /\ GoroutinesOK /\ WorkersOK /\ pod \in [Pods -> PodStates]
      /\ removals \in [Pods -> 0 .. MaxRemovals] /\ Owner[p] \in FaSTPods
  BY ControllerAssumption DEF ControllerInv, PodsOK, GoroutinesOK
<1>1. want[Owner[p]] # Gone
  BY <1>0, GoneStays
<1>2. ~Dies /\ ~RemovePod(p) /\ \A x \in FaSTPods : ~CollectPod(x, p)
  BY RemovedIsGone
<1>3. CASE ~Booked(p)
  BY <1>3, NewBooking DEF AccountedFor
<1>4. CASE Booked(p) /\ pod[p] = "active"
  <2>1. CASE pod'[p] = "active"
    BY <2>1 DEF AccountedFor
  <2>2. CASE pod'[p] # "active"
    <3>1. ~CollectGarbage(p)
      BY <1>1 DEF CollectGarbage
    <3>2. PICK w \in Workers : KubeDelete(w, p)
      BY <1>1, <1>4, <2>2, <3>1, PodStops DEF CollectedAreGone
    <3>3. removals'[p] > 0
      BY <1>0, <3>2, ControllerAssumption DEF KubeDelete
    <3>. QED BY <3>3 DEF AccountedFor
  <2>. QED BY <2>1, <2>2
<1>5. CASE Booked(p) /\ removals[p] > 0
  <2>1. removals'[p] > 0
    BY <1>0, <1>2, <1>5, RemovalsWrites, ControllerAssumption
  <2>. QED BY <2>1 DEF AccountedFor
<1>6. ASSUME NEW w \in Workers, worker[w].pod = p, worker[w].pc = "create" PROVE AccountedFor(p)'
  <2>1. CASE Create(w)
    <3>1. SetPod(p, "active")
      BY <1>6, <2>1 DEF Create, Fault
    <3>2. pod'[p] = "active"
      BY <1>0, <3>1 DEF SetPod
    <3>. QED BY <3>2 DEF AccountedFor
  <2>2. CASE ~Create(w)
    BY <1>2, <1>6, <2>2, CreateFollows DEF AccountedFor
  <2>. QED BY <2>1, <2>2
<1>. QED BY <1>1, <1>3, <1>4, <1>5, <1>6 DEF NothingLeaks, AccountedFor

\* Where Creates do not fail, a pod of a FaSTPod that exists and is in the ledger runs, or is about to be created, or a goroutine that will remove it is under way: scaling up and down through stale caches, crashes and failed Deletes leak no share of a GPU and no port.
THEOREM NoShareLeaks ==
    ASSUME "create" \notin Faults
    PROVE  Spec => []NothingLeaks
<1>1. Init => NothingLeaks /\ CollectedAreGone
  <2>1. Init => \A p \in Pods : ~Booked(p)
    BY InitBooks DEF Init
  <2>2. Init => CollectedAreGone
    BY LedgerAssumption DEF Init, CollectedAreGone, NoCollector
  <2>. QED BY <2>1, <2>2 DEF NothingLeaks
<1>2. ControllerInv /\ CollectedAreGone /\ NothingLeaks /\ [Next]_vars => NothingLeaks' /\ CollectedAreGone'
  BY LeakStep, CollectedStep
<1>. QED BY <1>1, <1>2, ControllerInvariance, PTL DEF Spec
=============================================================================
