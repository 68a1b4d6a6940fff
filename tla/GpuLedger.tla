----------------------------- MODULE GpuLedger ------------------------------
(***************************************************************************)
(* The GPU ledger of the FaSTPod controller manager: the map vGPUID2GPU of *)
(* one node, its port allocator, and the operations of gpu_manager.go and  *)
(* scheduler.go on them.  Each operation holds nodesInfoMtx from its first *)
(* to its last access, so it is one action.                                *)
(*                                                                         *)
(* What may call these operations is as general as it can be: any pod may  *)
(* be scheduled, any pod may be removed at any time and more than once (a  *)
(* removal may come late, twice, or for a pod that was never recorded),    *)
(* RPCs to the node's configurator may fail, and the process may panic and *)
(* be restarted.  The one thing assumed of the callers is that a second    *)
(* ScheduleRequest does not come between a ScheduleRequest and the         *)
(* RequestGPUAndUpdateConfig that uses its answer: reconcileReplicas holds *)
(* fstp2PodsMtx across the two.  FaSTPodController has that lock and is    *)
(* checked to implement this specification.                                *)
(***************************************************************************)
EXTENDS Bitmap, FiniteSetsExt

CONSTANTS
    Pods,        \* pod keys
    GPUs,        \* UUIDs of the node's (virtual) GPUs
    MIG,         \* those of them that are MIG instances, the others are physical
    SMValueOnly, \* Exclusive pods that ask for an SM count and no SM percentage
    NoPod,       \* no exclusive pod
    TypeOf,      \* the pod annotation fastgshare/allocation_type
    GpuOf,       \* the pod annotation fastgshare/vgpu_uuid
    MemOf,       \* the pod annotation fastgshare/gpu_mem
    SmOf,        \* SMs an Exclusive pod asks for (a count or a percentage)
    Uses,        \* values of QtRequest * SMPartition / 100
    Cap,         \* the usage 1.0 in the unit of Uses
    MemTotal,    \* memory of each GPU, reported by the configurator
    SmTotal      \* SMs of each GPU, in the unit of SmOf

AllocationTypes == {"FastPod", "MPS", "Exclusive"}

ASSUME LedgerAssumption ==
    /\ MIG \subseteq GPUs
    /\ SMValueOnly \subseteq Pods
    /\ NoPod \notin Pods
    /\ TypeOf \in [Pods -> AllocationTypes]
    /\ GpuOf \in [Pods -> GPUs]
    /\ MemOf \in [Pods -> Nat]
    /\ SmOf \in [Pods -> Nat]
    /\ Uses \subseteq Nat
    /\ Cap \in Nat
    /\ MemTotal \in [GPUs -> Nat]
    /\ SmTotal \in [GPUs -> Nat]

VARIABLES
    up,          \* the controller manager process runs
    registered,  \* nodes[hostName] exists: the node said hello to this process
    vGPUID2GPU,  \* UUID -> GPUDevInfo
    selections,  \* SelectionResults not yet used by RequestGPUAndUpdateConfig
    provisioned, \* the configurator's provisionedGPUs
    mpsOn        \* GPUs whose MPS daemon is enabled at the configurator

ledgerVars == <<up, registered, vGPUID2GPU, selections, provisioned, mpsOn,
                bits, position>>

-----------------------------------------------------------------------------
(***************************************************************************)
(* State.  FastPodList and MPSPodList are sets: their order is used by no  *)
(* operation.                                                              *)
(***************************************************************************)
FastPodReq == [key : Pods, use : Uses, mem : Nat, port : Positions]
MPSPodReq  == [key : Pods, mem : Nat]

GPUDevInfo == [allocationType : AllocationTypes \cup {"None"},
               mem : Nat, usage : Int, usageMem : Int,
               fastPodList : SUBSET FastPodReq,
               mpsPodList : SUBSET MPSPodReq,
               exclusivePod : Pods \cup {NoPod}]

ResourceRequest == [key : Pods, use : Uses]

\* The GPUDevInfo that ScheduleRequest makes for a GPU it has not met.
FreshGPU(g) ==
    [allocationType |-> "None", mem |-> MemTotal[g], usage |-> 0, usageMem |-> 0,
     fastPodList |-> {}, mpsPodList |-> {}, exclusivePod |-> NoPod]

NoGPUs == [g \in {} |-> FreshGPU(g)]

Set(g, info) ==
    [h \in DOMAIN vGPUID2GPU \cup {g} |-> IF h = g THEN info ELSE vGPUID2GPU[h]]

Delete(g) == [h \in DOMAIN vGPUID2GPU \ {g} |-> vGPUID2GPU[h]]

FindInQueue(key, podlist) == \E req \in podlist : req.key = key

Keys(info) == {req.key : req \in info.fastPodList \cup info.mpsPodList}
                  \cup ({info.exclusivePod} \ {NoPod})

Booked(p) == GpuOf[p] \in DOMAIN vGPUID2GPU /\ p \in Keys(vGPUID2GPU[GpuOf[p]])

-----------------------------------------------------------------------------
(***************************************************************************)
(* scheduler.go                                                            *)
(***************************************************************************)
canFitExclusive(req, info) ==
    /\ info.allocationType = "None"
    /\ info.mem >= MemOf[req.key]
    /\ SmTotal[GpuOf[req.key]] >= SmOf[req.key]

canFitMPSPod(req, info) ==
    /\ info.allocationType \in {"MPS", "None"}
    /\ info.mem - info.usageMem >= MemOf[req.key]

canFitFastPod(req, info) ==
    /\ info.allocationType \in {"FastPod", "None"}
    /\ info.mem - info.usageMem >= MemOf[req.key]
    /\ info.usage + req.use <= Cap

canFit(req, info) ==
    \/ TypeOf[req.key] = "Exclusive" /\ canFitExclusive(req, info)
    \/ TypeOf[req.key] = "MPS" /\ canFitMPSPod(req, info)
    \/ TypeOf[req.key] = "FastPod" /\ canFitFastPod(req, info)

(***************************************************************************)
(* A panic in any goroutine ends the process: all of its memory is gone,   *)
(* the configurator keeps its own state.                                   *)
(***************************************************************************)
LoseMemory ==
    /\ up' = FALSE
    /\ registered' = FALSE
    /\ vGPUID2GPU' = NoGPUs
    /\ selections' = {}
    /\ bits' = {}
    /\ position' = 0

Panic == LoseMemory /\ UNCHANGED <<provisioned, mpsOn>>

Crash == up /\ Panic

Restart ==
    /\ ~up
    /\ up' = TRUE
    /\ UNCHANGED <<registered, vGPUID2GPU, selections, provisioned, mpsOn, bits, position>>

\* The configurator connects; a node that is known keeps its ledger.
handleNodeConnection ==
    /\ up
    /\ registered' = TRUE
    /\ UNCHANGED <<up, vGPUID2GPU, selections, provisioned, mpsOn, bits, position>>

\* The info that ScheduleRequest works on: the recorded one, or a fresh one.
Selected(g) ==
    IF g \in DOMAIN vGPUID2GPU THEN vGPUID2GPU[g] ELSE FreshGPU(g)

(***************************************************************************)
(* canFitExclusive logs *req.SMPercentage before it checks anything: nil   *)
(* for a pod that asks for an SM count.                                    *)
(***************************************************************************)
SMPercentageIsNil(req) == TypeOf[req.key] = "Exclusive" /\ req.key \in SMValueOnly

ScheduleOk(req) ==
    LET g == GpuOf[req.key] IN
    /\ up
    /\ registered
    /\ g \in provisioned
    /\ ~SMPercentageIsNil(req)
    /\ canFit(req, Selected(g))
    /\ vGPUID2GPU' = Set(g, Selected(g))
    /\ selections' = selections \cup {req}
    /\ UNCHANGED <<up, registered, provisioned, mpsOn, bits, position>>

\* The new entry stays in the map when the pod does not fit.
ScheduleNoFit(req) ==
    LET g == GpuOf[req.key] IN
    /\ up
    /\ registered
    /\ g \in provisioned
    /\ ~SMPercentageIsNil(req)
    /\ ~canFit(req, Selected(g))
    /\ vGPUID2GPU' = Set(g, Selected(g))
    /\ UNCHANGED <<up, registered, selections, provisioned, mpsOn, bits, position>>

SchedulePanic(req) ==
    /\ up
    /\ registered
    /\ GpuOf[req.key] \in provisioned
    /\ SMPercentageIsNil(req)
    /\ Panic

\* The node is unknown, or GetGPU fails (the GPU is not provisioned, or the RPC breaks).
ScheduleNoGPU(req) == up /\ UNCHANGED ledgerVars

-----------------------------------------------------------------------------
(***************************************************************************)
(* RequestGPUAndUpdateConfig (gpu_manager.go)                              *)
(***************************************************************************)
\* A GPU with no mode takes the mode of the request, before any check.
Typed(info, p) ==
    IF info.allocationType = "None"
    THEN [info EXCEPT !.allocationType = TypeOf[p]] ELSE info

UsesMPS(info) == info.allocationType \in {"MPS", "FastPod"}

\* A mutated EnableMPS: the answer is not looked at.
EnableMPSUnchecked(g) == g \in provisioned /\ UNCHANGED mpsOn

\* The RPC returns without error: the device is provisioned and its daemon runs.
EnableMPS(g) == g \in provisioned /\ mpsOn' = mpsOn \cup {g}

\* The request is over capacity (error codes 3, 4 and 5 of the FastPod branch, 4 of the MPS branch).
Exceeds(req, info) ==
    \/ /\ TypeOf[req.key] \in {"FastPod", "MPS"}
       /\ info.usageMem + MemOf[req.key] > info.mem
    \/ /\ TypeOf[req.key] = "FastPod"
       /\ info.usage + req.use > Cap \/ Full

\* FindInQueue asserts that every element is a *FastPodReq: it panics on an MPSPodReq.
WrongElement(req, info) == TypeOf[req.key] = "MPS" /\ info.mpsPodList # {}

\* mpsConfig is nil at the end of the FastPod branch.
NoMPSConfig(req, info) ==
    /\ TypeOf[req.key] = "FastPod"
    /\ ~UsesMPS(info)
    /\ FindInQueue(req.key, info.fastPodList) \/ ~Exceeds(req, info)

\* The pod is booked on the GPU and put into the list of its type.
WithMPSPod(info, req) ==
    [info EXCEPT !.usageMem = @ + MemOf[req.key],
                 !.mpsPodList = @ \cup {[key |-> req.key, mem |-> MemOf[req.key]]}]

NewFastPodReq(req, port) ==
    [key |-> req.key, use |-> req.use, mem |-> MemOf[req.key], port |-> port]

WithFastPod(info, req, port) ==
    [info EXCEPT !.usage = @ + req.use,
                 !.usageMem = @ + MemOf[req.key],
                 !.fastPodList = @ \cup {NewFastPodReq(req, port)}]

Pending(req) == up /\ req \in selections

\* Error codes 2 and 3: the entry was removed after ScheduleRequest returned.
RequestNoGPU(req) ==
    /\ Pending(req)
    /\ GpuOf[req.key] \notin DOMAIN vGPUID2GPU
    /\ selections' = selections \ {req}
    /\ UNCHANGED <<up, registered, vGPUID2GPU, provisioned, mpsOn, bits, position>>

\* EnableMPS fails, and its nil answer is used: the daemon may run or not.
RequestRpcPanic(req) ==
    LET g == GpuOf[req.key] IN
    /\ Pending(req)
    /\ g \in DOMAIN vGPUID2GPU
    /\ UsesMPS(Typed(vGPUID2GPU[g], req.key))
    /\ mpsOn' \in {mpsOn, mpsOn \cup {g}}
    /\ LoseMemory
    /\ UNCHANGED provisioned

\* EnableMPS succeeds, and the code panics after it.
RequestPanic(req) ==
    LET g == GpuOf[req.key]
        info == Typed(vGPUID2GPU[g], req.key)
    IN  /\ Pending(req)
        /\ g \in DOMAIN vGPUID2GPU
        /\ WrongElement(req, info) \/ NoMPSConfig(req, info)
        /\ IF UsesMPS(info) THEN EnableMPS(g) ELSE UNCHANGED mpsOn
        /\ LoseMemory
        /\ UNCHANGED provisioned

\* A refused request leaves the mode it set and the daemon it started.
RequestExceeds(req) ==
    LET g == GpuOf[req.key]
        info == Typed(vGPUID2GPU[g], req.key)
    IN  /\ Pending(req)
        /\ g \in DOMAIN vGPUID2GPU
        /\ ~WrongElement(req, info)
        /\ ~FindInQueue(req.key, info.fastPodList)
        /\ Exceeds(req, info)
        /\ IF UsesMPS(info) THEN EnableMPS(g) ELSE UNCHANGED mpsOn
        /\ vGPUID2GPU' = Set(g, info)
        /\ selections' = selections \ {req}
        /\ UNCHANGED <<up, registered, provisioned, bits, position>>

RequestMPS(req) ==
    LET g == GpuOf[req.key]
        info == Typed(vGPUID2GPU[g], req.key)
    IN  /\ Pending(req)
        /\ TypeOf[req.key] = "MPS"
        /\ g \in DOMAIN vGPUID2GPU
        /\ ~WrongElement(req, info)
        /\ ~Exceeds(req, info)
        /\ IF UsesMPS(info) THEN EnableMPS(g) ELSE UNCHANGED mpsOn
        /\ vGPUID2GPU' = Set(g, WithMPSPod(info, req))
        /\ selections' = selections \ {req}
        /\ UNCHANGED <<up, registered, provisioned, bits, position>>

RequestExclusive(req) ==
    LET g == GpuOf[req.key]
        info == Typed(vGPUID2GPU[g], req.key)
    IN  /\ Pending(req)
        /\ TypeOf[req.key] = "Exclusive"
        /\ g \in DOMAIN vGPUID2GPU
        /\ IF UsesMPS(info) THEN EnableMPS(g) ELSE UNCHANGED mpsOn
        /\ vGPUID2GPU' = Set(g, [info EXCEPT !.exclusivePod = req.key])
        /\ selections' = selections \ {req}
        /\ UNCHANGED <<up, registered, provisioned, bits, position>>

\* The pod is recorded and gets the next free port.
RequestFastPod(req) ==
    LET g == GpuOf[req.key]
        info == Typed(vGPUID2GPU[g], req.key)
    IN  /\ Pending(req)
        /\ TypeOf[req.key] = "FastPod"
        /\ g \in DOMAIN vGPUID2GPU
        /\ UsesMPS(info)
        /\ ~FindInQueue(req.key, info.fastPodList)
        /\ ~Exceeds(req, info)
        /\ EnableMPS(g)
        /\ \E port \in Positions :
              /\ FindFirstUnsetAndSet(port)
              /\ vGPUID2GPU' = Set(g, WithFastPod(info, req, port))
        /\ selections' = selections \ {req}
        /\ UNCHANGED <<up, registered, provisioned>>

\* The pod is recorded already: it keeps its port.
RequestFastPodAgain(req) ==
    LET g == GpuOf[req.key]
        info == Typed(vGPUID2GPU[g], req.key)
    IN  /\ Pending(req)
        /\ TypeOf[req.key] = "FastPod"
        /\ g \in DOMAIN vGPUID2GPU
        /\ UsesMPS(info)
        /\ FindInQueue(req.key, info.fastPodList)
        /\ EnableMPS(g)
        /\ vGPUID2GPU' = Set(g, info)
        /\ selections' = selections \ {req}
        /\ UNCHANGED <<up, registered, provisioned, bits, position>>

RequestRecorded(req) ==
    \/ RequestMPS(req)
    \/ RequestExclusive(req)
    \/ RequestFastPod(req)
    \/ RequestFastPodAgain(req)

RequestRefused(req) == RequestNoGPU(req) \/ RequestExceeds(req)

-----------------------------------------------------------------------------
(***************************************************************************)
(* removePodFromList and removeFaSTPodFromList (gpu_manager.go)            *)
(***************************************************************************)
ReqOf(key, podlist) == CHOOSE req \in podlist : req.key = key

InFastPodList(p, info) == TypeOf[p] = "FastPod" /\ FindInQueue(p, info.fastPodList)
InMPSPodList(p, info)  == TypeOf[p] = "MPS" /\ FindInQueue(p, info.mpsPodList)

\* A mutated Without: the memory is added instead of subtracted.
WithoutAdds(p, info) ==
    CASE InFastPodList(p, info) ->
            LET req == ReqOf(p, info.fastPodList) IN
            [info EXCEPT !.fastPodList = @ \ {req}, !.usage = @ - req.use,
                         !.usageMem = @ + req.mem]
      [] OTHER -> info

\* Only the list of the pod's own type is searched; an Exclusive pod is not compared with the recorded one.
Without(p, info) ==
    CASE InFastPodList(p, info) ->
            LET req == ReqOf(p, info.fastPodList) IN
            [info EXCEPT !.fastPodList = @ \ {req}, !.usage = @ - req.use,
                         !.usageMem = @ - req.mem]
      [] InMPSPodList(p, info) ->
            LET req == ReqOf(p, info.mpsPodList) IN
            [info EXCEPT !.mpsPodList = @ \ {req}, !.usageMem = @ - req.mem]
      [] TypeOf[p] = "Exclusive" ->
            [info EXCEPT !.exclusivePod = NoPod, !.usage = 0, !.usageMem = 0, !.mem = 0]
      [] OTHER -> info

\* A mutated FreedPorts: the ports of all pods of the GPU.
FreedPortsAll(p, info) == {req.port : req \in info.fastPodList}

FreedPorts(p, info) ==
    IF InFastPodList(p, info) THEN {ReqOf(p, info.fastPodList).port} ELSE {}

\* A mutated LastOfItsType: the length of the list is not looked at.
AlwaysLast(p, info) == TypeOf[p] \in AllocationTypes

\* The condition under which the entry of the GPU is dropped, after the pod was taken out.
LastOfItsType(p, info) ==
    \/ TypeOf[p] = "Exclusive"
    \/ TypeOf[p] = "FastPod" /\ Without(p, info).fastPodList = {}
    \/ TypeOf[p] = "MPS" /\ Without(p, info).mpsPodList = {}

Recorded(p) == registered /\ GpuOf[p] \in DOMAIN vGPUID2GPU

RemoveAbsent(p) == up /\ ~Recorded(p) /\ UNCHANGED ledgerVars

\* The part the two removals share: others of its type remain on the GPU.
RemoveShrinks(p) ==
    LET g == GpuOf[p] IN
    /\ up
    /\ Recorded(p)
    /\ ~LastOfItsType(p, vGPUID2GPU[g])
    /\ vGPUID2GPU' = Set(g, Without(p, vGPUID2GPU[g]))
    /\ Clear(FreedPorts(p, vGPUID2GPU[g]))
    /\ UNCHANGED <<up, registered, selections, provisioned, mpsOn>>

\* DisableMPS answers: the daemon is stopped, or it could not be.
DisableMPS(g) == mpsOn' \in {mpsOn, mpsOn \ {g}}

\* ReleaseVirtualGPU answers: a MIG instance may be destroyed, a physical GPU stays.
ReleaseVirtualGPU(g) ==
    provisioned' \in {provisioned, IF g \in MIG THEN provisioned \ {g} ELSE provisioned}

RemoveLast(p) ==
    LET g == GpuOf[p] IN
    /\ up
    /\ Recorded(p)
    /\ TypeOf[p] # "Exclusive"
    /\ LastOfItsType(p, vGPUID2GPU[g])
    /\ DisableMPS(g)
    /\ ReleaseVirtualGPU(g)
    /\ vGPUID2GPU' = Delete(g)
    /\ Clear(FreedPorts(p, vGPUID2GPU[g]))
    /\ UNCHANGED <<up, registered, selections>>

\* podlist is nil for an Exclusive pod, and its length is asked for.
RemovePanic(p) ==
    /\ up
    /\ Recorded(p)
    /\ TypeOf[p] = "Exclusive"
    /\ Panic

\* DisableMPS or ReleaseVirtualGPU fails, and its nil answer is used.
RemoveRpcPanic(p) ==
    LET g == GpuOf[p] IN
    /\ up
    /\ Recorded(p)
    /\ TypeOf[p] # "Exclusive"
    /\ LastOfItsType(p, vGPUID2GPU[g])
    /\ DisableMPS(g)
    /\ ReleaseVirtualGPU(g)
    /\ LoseMemory

removePodFromList(p) ==
    \/ RemoveAbsent(p)
    \/ RemoveShrinks(p)
    \/ RemoveLast(p)
    \/ RemovePanic(p)
    \/ RemoveRpcPanic(p)

\* The iteration of removeFaSTPodFromList for one pod: RPC errors are tolerated, the GPU is not released.
RemoveLastOfFaSTPod(p) ==
    LET g == GpuOf[p] IN
    /\ up
    /\ Recorded(p)
    /\ LastOfItsType(p, vGPUID2GPU[g])
    /\ IF TypeOf[p] = "Exclusive" THEN UNCHANGED mpsOn ELSE DisableMPS(g)
    /\ vGPUID2GPU' = Delete(g)
    /\ Clear(FreedPorts(p, vGPUID2GPU[g]))
    /\ UNCHANGED <<up, registered, selections, provisioned>>

removeFaSTPodFromList(p) ==
    \/ RemoveAbsent(p)
    \/ RemoveShrinks(p)
    \/ RemoveLastOfFaSTPod(p)

\* A mutated WithUse: the usage follows the new share, unchecked.
WithUseBooked(info, req, use) ==
    [info EXCEPT !.fastPodList = (@ \ {req}) \cup {[req EXCEPT !.use = use]},
                 !.usage = @ - req.use + use]

(***************************************************************************)
(* The iteration of reconcileResourceConfig for one pod: the request is    *)
(* rewritten in place, the usage of the GPU is not.                        *)
(***************************************************************************)
WithUse(info, req, use) ==
    [info EXCEPT !.fastPodList = (@ \ {req}) \cup {[req EXCEPT !.use = use]}]

reconcileResourceConfig(p, use) ==
    LET g == GpuOf[p]
        info == vGPUID2GPU[g]
        req == ReqOf(p, info.fastPodList)
    IN  /\ up
        /\ Recorded(p)
        /\ FindInQueue(p, info.fastPodList)
        /\ vGPUID2GPU' = Set(g, WithUse(info, req, use))
        /\ UNCHANGED <<up, registered, selections, provisioned, mpsOn, bits, position>>

-----------------------------------------------------------------------------
(***************************************************************************)
(* The FaST function controller provisions GPUs, and releases those that   *)
(* no entry uses.                                                          *)
(***************************************************************************)
Provision(g) ==
    /\ g \notin provisioned
    /\ provisioned' = provisioned \cup {g}
    /\ UNCHANGED <<up, registered, vGPUID2GPU, selections, mpsOn, bits, position>>

ReleaseByFastFunc(g) ==
    /\ g \in provisioned \cap MIG
    /\ g \notin DOMAIN vGPUID2GPU
    /\ provisioned' = provisioned \ {g}
    /\ mpsOn' = mpsOn \ {g}
    /\ UNCHANGED <<up, registered, vGPUID2GPU, selections, bits, position>>

-----------------------------------------------------------------------------
LedgerInit ==
    /\ up = TRUE
    /\ registered = FALSE
    /\ vGPUID2GPU = NoGPUs
    /\ selections = {}
    /\ provisioned = GPUs
    /\ mpsOn = {}
    /\ NewBitmap

\* A mutated ScheduleRequest: the lock is released before the answer is used.
ScheduleRequestUnlocked(req) ==
    \/ ScheduleOk(req)
    \/ ScheduleNoFit(req)
    \/ SchedulePanic(req)
    \/ ScheduleNoGPU(req)

\* fstp2PodsMtx: no ScheduleRequest while a selection waits to be used.
ScheduleRequest(req) ==
    /\ selections = {}
    /\ \/ ScheduleOk(req)
       \/ ScheduleNoFit(req)
       \/ SchedulePanic(req)
       \/ ScheduleNoGPU(req)

RequestGPUAndUpdateConfig(req) ==
    \/ RequestRecorded(req)
    \/ RequestRefused(req)
    \/ RequestPanic(req)
    \/ RequestRpcPanic(req)

LedgerNext ==
    \/ Crash
    \/ Restart
    \/ handleNodeConnection
    \/ \E req \in ResourceRequest : ScheduleRequest(req) \/ RequestGPUAndUpdateConfig(req)
    \/ \E p \in Pods : removePodFromList(p) \/ removeFaSTPodFromList(p)
    \/ \E p \in Pods, use \in Uses : reconcileResourceConfig(p, use)
    \/ \E g \in GPUs : Provision(g) \/ ReleaseByFastFunc(g)

LedgerSpec == LedgerInit /\ [][LedgerNext]_ledgerVars

-----------------------------------------------------------------------------
(***************************************************************************)
(* Properties                                                              *)
(***************************************************************************)
\* The state has the shape of the Go declarations of Node and GPUDevInfo.
TypeOK ==
    /\ up \in BOOLEAN
    /\ registered \in BOOLEAN
    /\ DOMAIN vGPUID2GPU \subseteq GPUs
    /\ vGPUID2GPU \in [DOMAIN vGPUID2GPU -> GPUDevInfo]
    /\ selections \subseteq ResourceRequest
    /\ provisioned \subseteq GPUs
    /\ mpsOn \subseteq GPUs
    /\ BitmapTypeOK

\* A GPU hosts pods of one allocation type only, its own mode, whatever removals come between ScheduleRequest and RequestGPUAndUpdateConfig: FastPods, MPS pods and an Exclusive pod never share it.
OneMode ==
    \A g \in DOMAIN vGPUID2GPU :
        LET info == vGPUID2GPU[g] IN
        /\ info.fastPodList # {} => info.allocationType = "FastPod"
        /\ info.mpsPodList # {} => info.allocationType = "MPS"
        /\ info.exclusivePod # NoPod => info.allocationType = "Exclusive"

\* No two recorded FastPods of a node have the same GPU client port, and a recorded port is set in the bitmap: late and repeated removals never free a port in use.
PortsDistinct ==
    \A g, h \in DOMAIN vGPUID2GPU :
        \A r \in vGPUID2GPU[g].fastPodList, s \in vGPUID2GPU[h].fastPodList :
            /\ r.port \in bits
            /\ r.port = s.port => g = h /\ r = s

\* The usage and the memory booked on a GPU stay within 1.0 and its memory: the checks of RequestGPUAndUpdateConfig are made on the values they are then added to.
WithinCapacity ==
    \A g \in DOMAIN vGPUID2GPU :
        /\ vGPUID2GPU[g].usage <= Cap
        /\ vGPUID2GPU[g].usageMem <= vGPUID2GPU[g].mem

\* What ScheduleRequest found to fit still fits when RequestGPUAndUpdateConfig uses it, unless the GPU's entry is gone by then: nodesInfoMtx is released in between, but only removals can come.
SelectionStaysValid ==
    \A req \in selections :
        GpuOf[req.key] \in DOMAIN vGPUID2GPU =>
            canFit(req, vGPUID2GPU[GpuOf[req.key]])

\* A GPU with a recorded FastPod or MPS pod has its MPS daemon: no removal, late or repeated, stops the daemon under a pod that stays recorded.
MpsRunsWhileRecorded ==
    \A g \in DOMAIN vGPUID2GPU :
        vGPUID2GPU[g].fastPodList # {} \/ vGPUID2GPU[g].mpsPodList # {} => g \in mpsOn

\* Pod q had, or has, the GPU of p in another mode than p, or is an Exclusive pod, which is not compared with the recorded one.
OtherTenant(q, p) == GpuOf[q] = GpuOf[p] /\ (TypeOf[q] # TypeOf[p] \/ TypeOf[q] = "Exclusive")

\* A pod loses its booking by its own removal only, however late or repeated the removals of other pods are (removePodFromList, removeFaSTPodFromList); the one exception is the removal of a pod of another type, or an Exclusive one, that finds its own list empty and drops the entry of a GPU that has been given to other pods since.
BookingsAreKept ==
    [][\A p \in Pods : Booked(p) /\ up' /\ ~Booked(p)' =>
          \E q \in Pods : /\ removePodFromList(q) \/ removeFaSTPodFromList(q)
                          /\ q = p \/ OtherTenant(q, p)]_ledgerVars

(***************************************************************************)
(* The sums over the pod lists of a GPU.                                   *)
(***************************************************************************)
Total(f, podlist) == MapThenSumSet(LAMBDA req : f[req], podlist)

Shares == [req \in FastPodReq |-> req.use]
FastPodMem == [req \in FastPodReq |-> req.mem]
MPSPodMem == [req \in MPSPodReq |-> req.mem]

Balanced(info) ==
    /\ info.usage = Total(Shares, info.fastPodList)
    /\ info.usageMem = Total(FastPodMem, info.fastPodList) + Total(MPSPodMem, info.mpsPodList)

Accounted == \A g \in DOMAIN vGPUID2GPU : Balanced(vGPUID2GPU[g])

\* Every operation but a reconfiguration keeps the usage and the memory of a GPU equal to the sums over its pod lists; removals subtract what was added (RequestGPUAndUpdateConfig and the two removals of gpu_manager.go).
BooksStayBalanced ==
    [][\/ Accounted => Accounted'
       \/ \E p \in Pods, use \in Uses : reconcileResourceConfig(p, use)]_ledgerVars
=============================================================================
