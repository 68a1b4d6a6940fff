--------------------------- MODULE GpuLedgerProofs --------------------------
(***************************************************************************)
(* Proofs about the GPU ledger, for any set of pods, GPUs, requests and    *)
(* ports.                                                                  *)
(***************************************************************************)
EXTENDS GpuLedger, FiniteSetTheorems, WellFoundedInduction, TLAPS

\* What the properties of GpuLedger say of one entry.
InfoOK(info) ==
    /\ info \in GPUDevInfo
    /\ info.fastPodList # {} => info.allocationType = "FastPod"
    /\ info.mpsPodList # {} => info.allocationType = "MPS"
    /\ info.exclusivePod # NoPod => info.allocationType = "Exclusive"
    /\ info.usage <= Cap
    /\ info.usageMem <= info.mem

\* reconcileReplicas uses a selection before it asks for the next one.
OneSelection == \A a, b \in selections : a = b

EntriesOK == \A g \in DOMAIN vGPUID2GPU : InfoOK(vGPUID2GPU[g])

(***************************************************************************)
(* The inductive invariant.                                                *)
(***************************************************************************)
LedgerInv ==
    /\ TypeOK
    /\ EntriesOK
    /\ PortsDistinct
    /\ OneSelection
    /\ SelectionStaysValid
    /\ MpsRunsWhileRecorded

-----------------------------------------------------------------------------
(***************************************************************************)
(* Facts about the operators.                                              *)
(***************************************************************************)

\* The entry ScheduleRequest makes for a GPU satisfies what is required of entries.
LEMMA FreshGPUOK ==
    ASSUME NEW g \in GPUs
    PROVE  /\ InfoOK(FreshGPU(g))
           /\ FreshGPU(g).fastPodList = {}
           /\ FreshGPU(g).mpsPodList = {}
  BY LedgerAssumption DEF InfoOK, FreshGPU, GPUDevInfo, AllocationTypes

\* An assignment to the map changes the entry of one GPU (the Go assignment vGPUID2GPU[g] = info).
LEMMA SetEntry ==
    ASSUME NEW g \in GPUs, NEW info \in GPUDevInfo, DOMAIN vGPUID2GPU \subseteq GPUs,
           vGPUID2GPU \in [DOMAIN vGPUID2GPU -> GPUDevInfo]
    PROVE  /\ DOMAIN Set(g, info) = DOMAIN vGPUID2GPU \cup {g}
           /\ DOMAIN Set(g, info) \subseteq GPUs
           /\ Set(g, info)[g] = info
           /\ \A h \in DOMAIN vGPUID2GPU \ {g} : Set(g, info)[h] = vGPUID2GPU[h]
           /\ Set(g, info) \in [DOMAIN Set(g, info) -> GPUDevInfo]
  BY DEF Set

\* A deletion from the map keeps the other entries (delete(node.vGPUID2GPU, vGPUID)).
LEMMA DeleteEntry ==
    ASSUME NEW g \in GPUs, DOMAIN vGPUID2GPU \subseteq GPUs,
           vGPUID2GPU \in [DOMAIN vGPUID2GPU -> GPUDevInfo]
    PROVE  /\ DOMAIN Delete(g) = DOMAIN vGPUID2GPU \ {g}
           /\ \A h \in DOMAIN vGPUID2GPU \ {g} : Delete(g)[h] = vGPUID2GPU[h]
           /\ Delete(g) \in [DOMAIN Delete(g) -> GPUDevInfo]
  BY DEF Delete

\* FindInQueue finds an element of the list with the key it was asked for.
LEMMA FoundReq ==
    ASSUME NEW key, NEW podlist, FindInQueue(key, podlist)
    PROVE  ReqOf(key, podlist) \in podlist /\ ReqOf(key, podlist).key = key
  BY DEF FindInQueue, ReqOf

\* Setting the mode of an entry that has none keeps what is required of entries.
LEMMA TypedOK ==
    ASSUME NEW info, InfoOK(info), NEW p \in Pods
    PROVE  /\ InfoOK(Typed(info, p))
           /\ Typed(info, p).fastPodList = info.fastPodList
           /\ Typed(info, p).mpsPodList = info.mpsPodList
           /\ Typed(info, p).exclusivePod = info.exclusivePod
           /\ Typed(info, p).usage = info.usage
           /\ Typed(info, p).usageMem = info.usageMem
           /\ Typed(info, p).mem = info.mem
           /\ info.allocationType = "None" => Typed(info, p).allocationType = TypeOf[p]
           /\ info.allocationType # "None" => Typed(info, p) = info
  BY LedgerAssumption DEF InfoOK, Typed, GPUDevInfo, AllocationTypes

\* A request that fits an entry fits the same entry with less in use.
LEMMA FitsMonotone ==
    ASSUME NEW old, NEW new, InfoOK(old), InfoOK(new),
           new.allocationType = old.allocationType, new.mem = old.mem,
           new.usage <= old.usage, new.usageMem <= old.usageMem,
           NEW req \in ResourceRequest, canFit(req, old)
    PROVE  canFit(req, new)
<1>1. /\ old.usage \in Int /\ old.usageMem \in Int /\ old.mem \in Int
      /\ new.usage \in Int /\ new.usageMem \in Int
  BY DEF InfoOK, GPUDevInfo
<1>2. req.key \in Pods /\ req.use \in Uses
  BY DEF ResourceRequest
<1>3. MemOf[req.key] \in Int /\ req.use \in Int /\ Cap \in Int
  <2>1. MemOf \in [Pods -> Nat] /\ Uses \subseteq Nat /\ Cap \in Nat
    BY LedgerAssumption
  <2>2. MemOf[req.key] \in Nat
    BY <1>2, <2>1
  <2>3. req.use \in Nat
    BY <1>2, <2>1
  <2>. QED BY <2>1, <2>2, <2>3
<1>4. canFitExclusive(req, old) => canFitExclusive(req, new)
  BY DEF canFitExclusive
<1>5. canFitMPSPod(req, old) => canFitMPSPod(req, new)
  BY <1>1, <1>3 DEF canFitMPSPod
<1>6. canFitFastPod(req, old) => canFitFastPod(req, new)
  BY <1>1, <1>3 DEF canFitFastPod
<1>. QED BY <1>4, <1>5, <1>6 DEF canFit

\* Taking a FastPod or an MPS pod out of an entry keeps what is required of entries, adds no pod, and leaves room for whatever fitted before.
LEMMA WithoutOK ==
    ASSUME NEW info, InfoOK(info), NEW p \in Pods, TypeOf[p] # "Exclusive"
    PROVE  /\ InfoOK(Without(p, info))
           /\ Without(p, info).fastPodList \subseteq info.fastPodList
           /\ Without(p, info).mpsPodList \subseteq info.mpsPodList
           /\ \A req \in ResourceRequest :
                 canFit(req, info) => canFit(req, Without(p, info))
<1>1. CASE InFastPodList(p, info)
  <2>. DEFINE r == ReqOf(p, info.fastPodList)
  <2>1. r \in info.fastPodList /\ r \in FastPodReq
    BY <1>1, FoundReq DEF InFastPodList, InfoOK, GPUDevInfo
  <2>2. Without(p, info) = [info EXCEPT !.fastPodList = @ \ {r}, !.usage = @ - r.use,
                                        !.usageMem = @ - r.mem]
    <3>1. ~InMPSPodList(p, info)
      BY <1>1 DEF InFastPodList, InMPSPodList
    <3>. QED BY <3>1, <1>1 DEF Without
  <2>3. r.use \in Nat /\ r.mem \in Nat
    BY <2>1, LedgerAssumption DEF FastPodReq
  <2>. HIDE DEF r
  <2>4. /\ Without(p, info) \in GPUDevInfo
        /\ Without(p, info).fastPodList = info.fastPodList \ {r}
        /\ Without(p, info).mpsPodList = info.mpsPodList
        /\ Without(p, info).exclusivePod = info.exclusivePod
        /\ Without(p, info).allocationType = info.allocationType
        /\ Without(p, info).mem = info.mem
        /\ Without(p, info).usage = info.usage - r.use
        /\ Without(p, info).usageMem = info.usageMem - r.mem
    <3>1. Without(p, info) =
             [allocationType |-> info.allocationType, mem |-> info.mem,
              usage |-> info.usage - r.use, usageMem |-> info.usageMem - r.mem,
              fastPodList |-> info.fastPodList \ {r}, mpsPodList |-> info.mpsPodList,
              exclusivePod |-> info.exclusivePod]
      BY <2>2 DEF InfoOK, GPUDevInfo
    <3>. QED BY <2>3, <3>1 DEF InfoOK, GPUDevInfo
  <2>5. InfoOK(Without(p, info))
    BY <2>3, <2>4, LedgerAssumption DEF InfoOK, GPUDevInfo
  <2>6. ASSUME NEW req \in ResourceRequest, canFit(req, info)
        PROVE  canFit(req, Without(p, info))
    BY <2>3, <2>4, <2>5, <2>6, FitsMonotone DEF InfoOK, GPUDevInfo
  <2>. QED BY <2>4, <2>5, <2>6
<1>2. CASE InMPSPodList(p, info)
  <2>. DEFINE r == ReqOf(p, info.mpsPodList)
  <2>1. r \in info.mpsPodList /\ r \in MPSPodReq
    BY <1>2, FoundReq DEF InMPSPodList, InfoOK, GPUDevInfo
  <2>2. Without(p, info) = [info EXCEPT !.mpsPodList = @ \ {r}, !.usageMem = @ - r.mem]
    <3>1. ~InFastPodList(p, info)
      BY <1>2 DEF InFastPodList, InMPSPodList
    <3>. QED BY <1>2, <3>1 DEF Without
  <2>3. r.mem \in Nat
    BY <2>1 DEF MPSPodReq
  <2>. HIDE DEF r
  <2>4. /\ Without(p, info) \in GPUDevInfo
        /\ Without(p, info).fastPodList = info.fastPodList
        /\ Without(p, info).mpsPodList = info.mpsPodList \ {r}
        /\ Without(p, info).exclusivePod = info.exclusivePod
        /\ Without(p, info).allocationType = info.allocationType
        /\ Without(p, info).mem = info.mem
        /\ Without(p, info).usage = info.usage
        /\ Without(p, info).usageMem = info.usageMem - r.mem
    <3>1. Without(p, info) =
             [allocationType |-> info.allocationType, mem |-> info.mem,
              usage |-> info.usage, usageMem |-> info.usageMem - r.mem,
              fastPodList |-> info.fastPodList, mpsPodList |-> info.mpsPodList \ {r},
              exclusivePod |-> info.exclusivePod]
      BY <2>2 DEF InfoOK, GPUDevInfo
    <3>. QED BY <2>3, <3>1 DEF InfoOK, GPUDevInfo
  <2>5. InfoOK(Without(p, info))
    BY <2>3, <2>4 DEF InfoOK, GPUDevInfo
  <2>6. ASSUME NEW req \in ResourceRequest, canFit(req, info)
        PROVE  canFit(req, Without(p, info))
    BY <2>3, <2>4, <2>5, <2>6, FitsMonotone DEF InfoOK, GPUDevInfo
  <2>. QED BY <2>4, <2>5, <2>6
<1>3. CASE ~InFastPodList(p, info) /\ ~InMPSPodList(p, info)
  <2>1. Without(p, info) = info
    BY <1>3 DEF Without
  <2>. QED BY <2>1
<1>. QED BY <1>1, <1>2, <1>3

\* The port of a pod that is taken out is not the port of any pod that stays recorded.
LEMMA FreedPortsUnused ==
    ASSUME TypeOK, PortsDistinct, NEW p \in Pods, NEW g \in DOMAIN vGPUID2GPU,
           NEW h \in DOMAIN vGPUID2GPU, NEW r \in vGPUID2GPU[h].fastPodList,
           g = h => r \in Without(p, vGPUID2GPU[g]).fastPodList
    PROVE  r.port \in bits \ FreedPorts(p, vGPUID2GPU[g])
<1>. DEFINE info == vGPUID2GPU[g]
<1>1. r.port \in bits
  BY DEF PortsDistinct
<1>2. CASE InFastPodList(p, info)
  <2>. DEFINE q == ReqOf(p, info.fastPodList)
  <2>1. q \in info.fastPodList
    BY <1>2, FoundReq DEF InFastPodList
  <2>2. info \in GPUDevInfo
    BY DEF TypeOK
  <2>3. Without(p, info).fastPodList = info.fastPodList \ {q}
    BY <1>2, <2>2 DEF Without, InFastPodList, InMPSPodList, GPUDevInfo
  <2>4. ~(g = h /\ q = r)
    BY <2>3
  <2>5. q.port # r.port
    BY <2>1, <2>4 DEF PortsDistinct
  <2>. QED BY <1>1, <1>2, <2>5 DEF FreedPorts
<1>3. CASE ~InFastPodList(p, info)
  BY <1>1, <1>3 DEF FreedPorts
<1>. QED BY <1>2, <1>3

\* The annotations of a pod and the values of its request, as declared.
LEMMA RequestFacts ==
    ASSUME NEW req \in ResourceRequest
    PROVE  /\ req.key \in Pods
           /\ req.use \in Uses
           /\ req.use \in Nat
           /\ Cap \in Nat
           /\ GpuOf[req.key] \in GPUs
           /\ TypeOf[req.key] \in AllocationTypes
           /\ MemOf[req.key] \in Nat
<1>1. req.key \in Pods /\ req.use \in Uses
  BY DEF ResourceRequest
<1>2. /\ GpuOf \in [Pods -> GPUs] /\ TypeOf \in [Pods -> AllocationTypes]
      /\ MemOf \in [Pods -> Nat] /\ Uses \subseteq Nat /\ Cap \in Nat
  BY LedgerAssumption
<1>3. req.use \in Nat
  BY <1>1, <1>2
<1>4. GpuOf[req.key] \in GPUs
  BY <1>1, <1>2
<1>5. TypeOf[req.key] \in AllocationTypes
  BY <1>1, <1>2
<1>6. MemOf[req.key] \in Nat
  BY <1>1, <1>2
<1>. QED BY <1>1, <1>2, <1>3, <1>4, <1>5, <1>6

\* The GPU of a pod is one of the node's GPUs.
LEMMA PodFacts ==
    ASSUME NEW p \in Pods
    PROVE  GpuOf[p] \in GPUs /\ TypeOf[p] \in AllocationTypes
<1>1. GpuOf \in [Pods -> GPUs] /\ TypeOf \in [Pods -> AllocationTypes]
  BY LedgerAssumption
<1>. QED BY <1>1

-----------------------------------------------------------------------------
(***************************************************************************)
(* How the three kinds of step on the map act on the invariant.            *)
(***************************************************************************)

\* A panic or a crash leaves a state that satisfies the invariant.
LEMMA LoseMemoryStep ==
    ASSUME LoseMemory, provisioned' \subseteq GPUs, mpsOn' \subseteq GPUs
    PROVE  LedgerInv'
<1>1. DOMAIN vGPUID2GPU' = {}
  BY DEF LoseMemory, NoGPUs
<1>2. TypeOK'
  <2>1. vGPUID2GPU' \in [DOMAIN vGPUID2GPU' -> GPUDevInfo]
    BY DEF LoseMemory, NoGPUs
  <2>2. BitmapTypeOK'
    BY SizeAssumption DEF LoseMemory, BitmapTypeOK, Positions
  <2>3. up' \in BOOLEAN /\ registered' \in BOOLEAN /\ selections' \subseteq ResourceRequest
    BY DEF LoseMemory
  <2>. QED BY <1>1, <2>1, <2>2, <2>3 DEF TypeOK
<1>3. EntriesOK' /\ PortsDistinct' /\ MpsRunsWhileRecorded'
  BY <1>1 DEF EntriesOK, PortsDistinct, MpsRunsWhileRecorded
<1>4. OneSelection' /\ SelectionStaysValid'
  BY DEF LoseMemory, OneSelection, SelectionStaysValid
<1>. QED BY <1>2, <1>3, <1>4 DEF LedgerInv

\* A write of a good entry keeps all entries good.
LEMMA SetStep ==
    ASSUME LedgerInv, NEW g \in GPUs, NEW info, InfoOK(info), vGPUID2GPU' = Set(g, info)
    PROVE  /\ DOMAIN vGPUID2GPU' = DOMAIN vGPUID2GPU \cup {g}
           /\ DOMAIN vGPUID2GPU' \subseteq GPUs
           /\ vGPUID2GPU' \in [DOMAIN vGPUID2GPU' -> GPUDevInfo]
           /\ vGPUID2GPU'[g] = info
           /\ \A h \in DOMAIN vGPUID2GPU \ {g} : vGPUID2GPU'[h] = vGPUID2GPU[h]
           /\ EntriesOK'
<1>1. DOMAIN vGPUID2GPU \subseteq GPUs /\ vGPUID2GPU \in [DOMAIN vGPUID2GPU -> GPUDevInfo]
  BY DEF LedgerInv, TypeOK
<1>2. info \in GPUDevInfo
  BY DEF InfoOK
<1>3. /\ DOMAIN vGPUID2GPU' = DOMAIN vGPUID2GPU \cup {g}
      /\ DOMAIN vGPUID2GPU' \subseteq GPUs
      /\ vGPUID2GPU' \in [DOMAIN vGPUID2GPU' -> GPUDevInfo]
      /\ vGPUID2GPU'[g] = info
      /\ \A h \in DOMAIN vGPUID2GPU \ {g} : vGPUID2GPU'[h] = vGPUID2GPU[h]
  BY <1>1, <1>2, SetEntry
<1>4. EntriesOK'
  BY <1>3 DEF EntriesOK, LedgerInv
<1>. QED BY <1>3, <1>4

\* A deletion keeps the other entries good.
LEMMA DeleteStep ==
    ASSUME LedgerInv, NEW g \in GPUs, vGPUID2GPU' = Delete(g)
    PROVE  /\ DOMAIN vGPUID2GPU' = DOMAIN vGPUID2GPU \ {g}
           /\ DOMAIN vGPUID2GPU' \subseteq GPUs
           /\ vGPUID2GPU' \in [DOMAIN vGPUID2GPU' -> GPUDevInfo]
           /\ \A h \in DOMAIN vGPUID2GPU \ {g} : vGPUID2GPU'[h] = vGPUID2GPU[h]
           /\ EntriesOK'
<1>1. DOMAIN vGPUID2GPU \subseteq GPUs /\ vGPUID2GPU \in [DOMAIN vGPUID2GPU -> GPUDevInfo]
  BY DEF LedgerInv, TypeOK
<1>2. /\ DOMAIN vGPUID2GPU' = DOMAIN vGPUID2GPU \ {g}
      /\ vGPUID2GPU' \in [DOMAIN vGPUID2GPU' -> GPUDevInfo]
      /\ \A h \in DOMAIN vGPUID2GPU \ {g} : vGPUID2GPU'[h] = vGPUID2GPU[h]
  BY <1>1, DeleteEntry
<1>3. EntriesOK'
  BY <1>2 DEF EntriesOK, LedgerInv
<1>. QED BY <1>1, <1>2, <1>3

\* A step that adds no FastPod and frees no port of a recorded one keeps the ports distinct.
LEMMA NoNewFastPod ==
    ASSUME LedgerInv,
           \A h \in DOMAIN vGPUID2GPU' : \A r \in vGPUID2GPU'[h].fastPodList :
               /\ h \in DOMAIN vGPUID2GPU
               /\ r \in vGPUID2GPU[h].fastPodList
               /\ r.port \in bits'
    PROVE  PortsDistinct'
  BY DEF PortsDistinct, LedgerInv

-----------------------------------------------------------------------------
(***************************************************************************)
(* ScheduleRequest                                                         *)
(***************************************************************************)

\* The entry a request is scheduled on, kept or new, is good and adds no pod.
LEMMA SelectedOK ==
    ASSUME LedgerInv, NEW g \in GPUs
    PROVE  /\ InfoOK(Selected(g))
           /\ g \in DOMAIN vGPUID2GPU => Selected(g) = vGPUID2GPU[g]
           /\ g \notin DOMAIN vGPUID2GPU =>
                 Selected(g).fastPodList = {} /\ Selected(g).mpsPodList = {}
  BY FreshGPUOK DEF Selected, LedgerInv, EntriesOK

\* Making sure that the GPU has an entry keeps the parts of the invariant that do not speak of selections.
LEMMA EnsureEntryStep ==
    ASSUME LedgerInv, NEW g \in GPUs, vGPUID2GPU' = Set(g, Selected(g)),
           UNCHANGED <<up, registered, provisioned, mpsOn, bits, position>>
    PROVE  /\ DOMAIN vGPUID2GPU' \subseteq GPUs
           /\ vGPUID2GPU' \in [DOMAIN vGPUID2GPU' -> GPUDevInfo]
           /\ EntriesOK' /\ PortsDistinct' /\ MpsRunsWhileRecorded'
           /\ BitmapTypeOK'
           /\ vGPUID2GPU'[g] = Selected(g)
<1>1. /\ InfoOK(Selected(g))
      /\ g \in DOMAIN vGPUID2GPU => Selected(g) = vGPUID2GPU[g]
      /\ g \notin DOMAIN vGPUID2GPU =>
            Selected(g).fastPodList = {} /\ Selected(g).mpsPodList = {}
  BY SelectedOK
<1>2. /\ DOMAIN vGPUID2GPU' = DOMAIN vGPUID2GPU \cup {g}
      /\ DOMAIN vGPUID2GPU' \subseteq GPUs
      /\ vGPUID2GPU' \in [DOMAIN vGPUID2GPU' -> GPUDevInfo]
      /\ vGPUID2GPU'[g] = Selected(g)
      /\ \A h \in DOMAIN vGPUID2GPU \ {g} : vGPUID2GPU'[h] = vGPUID2GPU[h]
      /\ EntriesOK'
  BY <1>1, SetStep
<1>3. \A h \in DOMAIN vGPUID2GPU' :
         \/ h \in DOMAIN vGPUID2GPU /\ vGPUID2GPU'[h] = vGPUID2GPU[h]
         \/ vGPUID2GPU'[h].fastPodList = {} /\ vGPUID2GPU'[h].mpsPodList = {}
  BY <1>1, <1>2
<1>4. PortsDistinct'
  BY <1>3 DEF PortsDistinct, LedgerInv
<1>5. MpsRunsWhileRecorded'
  BY <1>3 DEF MpsRunsWhileRecorded, LedgerInv
<1>6. BitmapTypeOK'
  BY DEF BitmapTypeOK, LedgerInv, TypeOK
<1>. QED BY <1>2, <1>4, <1>5, <1>6

\* A successful ScheduleRequest keeps the invariant.
LEMMA ScheduleOkStep ==
    ASSUME LedgerInv, NEW req \in ResourceRequest, selections = {}, ScheduleOk(req)
    PROVE  LedgerInv'
<1>. DEFINE g == GpuOf[req.key]
<1>1. g \in GPUs
  BY RequestFacts
<1>2. /\ vGPUID2GPU' = Set(g, Selected(g))
      /\ UNCHANGED <<up, registered, provisioned, mpsOn, bits, position>>
      /\ selections' = {req}
      /\ canFit(req, Selected(g))
  BY DEF ScheduleOk
<1>3. /\ DOMAIN vGPUID2GPU' \subseteq GPUs
      /\ vGPUID2GPU' \in [DOMAIN vGPUID2GPU' -> GPUDevInfo]
      /\ EntriesOK' /\ PortsDistinct' /\ MpsRunsWhileRecorded'
      /\ BitmapTypeOK'
      /\ vGPUID2GPU'[g] = Selected(g)
  BY <1>1, <1>2, EnsureEntryStep
<1>4. TypeOK'
  BY <1>2, <1>3 DEF TypeOK, LedgerInv
<1>5. OneSelection'
  BY <1>2 DEF OneSelection
<1>6. SelectionStaysValid'
  BY <1>2, <1>3 DEF SelectionStaysValid
<1>. QED BY <1>3, <1>4, <1>5, <1>6 DEF LedgerInv

\* A ScheduleRequest whose pod does not fit keeps the invariant.
LEMMA ScheduleNoFitStep ==
    ASSUME LedgerInv, NEW req \in ResourceRequest, selections = {}, ScheduleNoFit(req)
    PROVE  LedgerInv'
<1>. DEFINE g == GpuOf[req.key]
<1>1. g \in GPUs
  BY RequestFacts
<1>2. /\ vGPUID2GPU' = Set(g, Selected(g))
      /\ UNCHANGED <<up, registered, provisioned, mpsOn, bits, position>>
      /\ selections' = {}
  BY DEF ScheduleNoFit
<1>3. /\ DOMAIN vGPUID2GPU' \subseteq GPUs
      /\ vGPUID2GPU' \in [DOMAIN vGPUID2GPU' -> GPUDevInfo]
      /\ EntriesOK' /\ PortsDistinct' /\ MpsRunsWhileRecorded'
      /\ BitmapTypeOK'
  BY <1>1, <1>2, EnsureEntryStep
<1>4. TypeOK'
  BY <1>2, <1>3 DEF TypeOK, LedgerInv
<1>5. OneSelection' /\ SelectionStaysValid'
  BY <1>2 DEF OneSelection, SelectionStaysValid
<1>. QED BY <1>3, <1>4, <1>5 DEF LedgerInv

-----------------------------------------------------------------------------
(***************************************************************************)
(* RequestGPUAndUpdateConfig                                               *)
(***************************************************************************)

\* Adding an MPS pod to a GPU in MPS mode that has the memory.
LEMMA AddMPSOK ==
    ASSUME NEW info, InfoOK(info), NEW req \in ResourceRequest,
           info.allocationType = "MPS", info.usageMem + MemOf[req.key] <= info.mem
    PROVE  /\ InfoOK(WithMPSPod(info, req))
           /\ WithMPSPod(info, req).fastPodList = info.fastPodList
<1>1. req.key \in Pods /\ MemOf[req.key] \in Nat
  BY RequestFacts
<1>2. info \in GPUDevInfo
  BY DEF InfoOK
<1>3. WithMPSPod(info, req) =
         [allocationType |-> info.allocationType, mem |-> info.mem,
          usage |-> info.usage, usageMem |-> info.usageMem + MemOf[req.key],
          fastPodList |-> info.fastPodList,
          mpsPodList |-> info.mpsPodList \cup {[key |-> req.key, mem |-> MemOf[req.key]]},
          exclusivePod |-> info.exclusivePod]
  <2>1. PICK new : new = WithMPSPod(info, req)
    OBVIOUS
  <2>2. new = [info EXCEPT !.usageMem = @ + MemOf[req.key],
                  !.mpsPodList = @ \cup {[key |-> req.key, mem |-> MemOf[req.key]]}]
    BY <2>1 DEF WithMPSPod
  <2>. QED BY <1>2, <2>1, <2>2 DEF GPUDevInfo
<1>4. [key |-> req.key, mem |-> MemOf[req.key]] \in MPSPodReq
  BY <1>1 DEF MPSPodReq
<1>5. WithMPSPod(info, req) \in GPUDevInfo
  BY <1>1, <1>2, <1>3, <1>4 DEF GPUDevInfo
<1>. QED BY <1>3, <1>5 DEF InfoOK

\* Giving a GPU in Exclusive mode to a pod.
LEMMA AddExclusiveOK ==
    ASSUME NEW info, InfoOK(info), NEW p \in Pods, NEW new,
           info.allocationType = "Exclusive", new = [info EXCEPT !.exclusivePod = p]
    PROVE  InfoOK(new) /\ new.fastPodList = info.fastPodList /\ new.mpsPodList = info.mpsPodList
<1>1. info \in GPUDevInfo
  BY DEF InfoOK
<1>2. new = [allocationType |-> info.allocationType, mem |-> info.mem,
             usage |-> info.usage, usageMem |-> info.usageMem,
             fastPodList |-> info.fastPodList, mpsPodList |-> info.mpsPodList,
             exclusivePod |-> p]
  BY <1>1 DEF GPUDevInfo
<1>3. new \in GPUDevInfo
  BY <1>1, <1>2 DEF GPUDevInfo
<1>. QED BY <1>2, <1>3 DEF InfoOK

\* Adding a FastPod with a port to a GPU in FastPod mode that has the compute share and the memory.
LEMMA AddFastPodOK ==
    ASSUME NEW info, InfoOK(info), NEW req \in ResourceRequest, NEW port \in Positions,
           info.allocationType = "FastPod", info.usage + req.use <= Cap,
           info.usageMem + MemOf[req.key] <= info.mem
    PROVE  /\ InfoOK(WithFastPod(info, req, port))
           /\ WithFastPod(info, req, port).fastPodList
                 = info.fastPodList \cup {NewFastPodReq(req, port)}
           /\ NewFastPodReq(req, port).port = port
<1>1. req.key \in Pods /\ req.use \in Uses /\ req.use \in Nat /\ MemOf[req.key] \in Nat
  BY RequestFacts
<1>2. info \in GPUDevInfo
  BY DEF InfoOK
<1>3. WithFastPod(info, req, port) =
         [allocationType |-> info.allocationType, mem |-> info.mem,
          usage |-> info.usage + req.use, usageMem |-> info.usageMem + MemOf[req.key],
          fastPodList |-> info.fastPodList \cup {NewFastPodReq(req, port)},
          mpsPodList |-> info.mpsPodList, exclusivePod |-> info.exclusivePod]
  <2>1. PICK new : new = WithFastPod(info, req, port)
    OBVIOUS
  <2>2. new = [info EXCEPT !.usage = @ + req.use,
                           !.usageMem = @ + MemOf[req.key],
                           !.fastPodList = @ \cup {NewFastPodReq(req, port)}]
    BY <2>1 DEF WithFastPod
  <2>. QED BY <1>2, <2>1, <2>2 DEF GPUDevInfo
<1>4. NewFastPodReq(req, port) \in FastPodReq /\ NewFastPodReq(req, port).port = port
  BY <1>1 DEF FastPodReq, NewFastPodReq
<1>5. WithFastPod(info, req, port) \in GPUDevInfo
  BY <1>1, <1>2, <1>3, <1>4 DEF GPUDevInfo
<1>6. InfoOK(WithFastPod(info, req, port))
  BY <1>3, <1>5 DEF InfoOK
<1>. QED BY <1>3, <1>4, <1>6

\* What the branches of RequestGPUAndUpdateConfig that reach an entry share.
LEMMA RecordStep ==
    ASSUME LedgerInv, NEW req \in selections, NEW info, InfoOK(info),
           GpuOf[req.key] \in DOMAIN vGPUID2GPU,
           vGPUID2GPU' = Set(GpuOf[req.key], info),
           selections' = selections \ {req},
           mpsOn \subseteq mpsOn', mpsOn' \subseteq GPUs,
           info.fastPodList # {} \/ info.mpsPodList # {} => GpuOf[req.key] \in mpsOn',
           UNCHANGED <<up, registered, provisioned>>,
           BitmapTypeOK', PortsDistinct'
    PROVE  LedgerInv'
<1>. DEFINE g == GpuOf[req.key]
<1>1. g \in GPUs
  BY DEF LedgerInv, TypeOK
<1>2. /\ DOMAIN vGPUID2GPU' = DOMAIN vGPUID2GPU \cup {g}
      /\ DOMAIN vGPUID2GPU' \subseteq GPUs
      /\ vGPUID2GPU' \in [DOMAIN vGPUID2GPU' -> GPUDevInfo]
      /\ vGPUID2GPU'[g] = info
      /\ \A h \in DOMAIN vGPUID2GPU \ {g} : vGPUID2GPU'[h] = vGPUID2GPU[h]
      /\ EntriesOK'
  BY <1>1, SetStep
<1>3. selections' = {}
  BY DEF LedgerInv, OneSelection
<1>4. TypeOK'
  BY <1>2, <1>3 DEF TypeOK, LedgerInv
<1>5. OneSelection' /\ SelectionStaysValid'
  BY <1>3 DEF OneSelection, SelectionStaysValid
<1>6. MpsRunsWhileRecorded'
  BY <1>2 DEF MpsRunsWhileRecorded, LedgerInv
<1>. QED BY <1>2, <1>4, <1>5, <1>6 DEF LedgerInv

\* A write that adds no FastPod to its GPU, with the ports as they were.
LEMMA SamePorts ==
    ASSUME LedgerInv, NEW g \in DOMAIN vGPUID2GPU, NEW info, InfoOK(info),
           vGPUID2GPU' = Set(g, info), info.fastPodList \subseteq vGPUID2GPU[g].fastPodList,
           UNCHANGED <<bits, position>>
    PROVE  PortsDistinct' /\ BitmapTypeOK'
<1>1. g \in GPUs
  BY DEF LedgerInv, TypeOK
<1>2. /\ DOMAIN vGPUID2GPU' = DOMAIN vGPUID2GPU \cup {g}
      /\ vGPUID2GPU'[g] = info
      /\ \A h \in DOMAIN vGPUID2GPU \ {g} : vGPUID2GPU'[h] = vGPUID2GPU[h]
  BY <1>1, SetStep
<1>3. \A h \in DOMAIN vGPUID2GPU' : \A r \in vGPUID2GPU'[h].fastPodList :
          h \in DOMAIN vGPUID2GPU /\ r \in vGPUID2GPU[h].fastPodList
  BY <1>2
<1>4. \A h \in DOMAIN vGPUID2GPU : \A r \in vGPUID2GPU[h].fastPodList : r.port \in bits'
  BY DEF LedgerInv, PortsDistinct
<1>5. PortsDistinct'
  BY <1>3, <1>4, NoNewFastPod
<1>6. BitmapTypeOK'
  BY DEF LedgerInv, TypeOK, BitmapTypeOK
<1>. QED BY <1>5, <1>6

\* What is known of the entry when a pending selection is used.
LEMMA PendingFacts ==
    ASSUME LedgerInv, NEW req \in selections, GpuOf[req.key] \in DOMAIN vGPUID2GPU
    PROVE  /\ req \in ResourceRequest
           /\ GpuOf[req.key] \in GPUs
           /\ InfoOK(vGPUID2GPU[GpuOf[req.key]])
           /\ InfoOK(Typed(vGPUID2GPU[GpuOf[req.key]], req.key))
           /\ Typed(vGPUID2GPU[GpuOf[req.key]], req.key).fastPodList
                 = vGPUID2GPU[GpuOf[req.key]].fastPodList
           /\ Typed(vGPUID2GPU[GpuOf[req.key]], req.key).mpsPodList
                 = vGPUID2GPU[GpuOf[req.key]].mpsPodList
           /\ Typed(vGPUID2GPU[GpuOf[req.key]], req.key).allocationType = TypeOf[req.key]
<1>. DEFINE g == GpuOf[req.key]
            info == vGPUID2GPU[g]
<1>1. req \in ResourceRequest /\ InfoOK(info)
  BY DEF LedgerInv, TypeOK, EntriesOK
<1>2. req.key \in Pods /\ g \in GPUs /\ TypeOf[req.key] \in AllocationTypes
  BY <1>1, RequestFacts
<1>3. canFit(req, info)
  BY DEF LedgerInv, SelectionStaysValid
<1>4. info.allocationType = "None" \/ info.allocationType = TypeOf[req.key]
  BY <1>3 DEF canFit, canFitExclusive, canFitMPSPod, canFitFastPod
<1>. HIDE DEF info
<1>5. /\ InfoOK(Typed(info, req.key))
      /\ Typed(info, req.key).fastPodList = info.fastPodList
      /\ Typed(info, req.key).mpsPodList = info.mpsPodList
      /\ Typed(info, req.key).allocationType = TypeOf[req.key]
  BY <1>1, <1>2, <1>4, TypedOK
<1>. QED BY <1>1, <1>2, <1>5 DEF info

\* Error codes 2 and 3 keep the invariant.
LEMMA RequestNoGPUStep ==
    ASSUME LedgerInv, NEW req, RequestNoGPU(req)
    PROVE  LedgerInv'
<1>1. /\ UNCHANGED <<up, registered, vGPUID2GPU, provisioned, mpsOn, bits, position>>
      /\ selections' \subseteq selections
  BY DEF RequestNoGPU
<1>2. TypeOK'
  BY <1>1 DEF LedgerInv, TypeOK, BitmapTypeOK
<1>3. EntriesOK' /\ PortsDistinct' /\ MpsRunsWhileRecorded'
  BY <1>1 DEF LedgerInv, EntriesOK, PortsDistinct, MpsRunsWhileRecorded
<1>4. OneSelection' /\ SelectionStaysValid'
  BY <1>1 DEF LedgerInv, OneSelection, SelectionStaysValid
<1>. QED BY <1>2, <1>3, <1>4 DEF LedgerInv

\* A refused request keeps the invariant: it leaves a mode and a daemon, and no pod.
LEMMA RequestExceedsStep ==
    ASSUME LedgerInv, NEW req, RequestExceeds(req)
    PROVE  LedgerInv'
<1>. DEFINE g == GpuOf[req.key]
            info == Typed(vGPUID2GPU[g], req.key)
<1>1. req \in selections /\ g \in DOMAIN vGPUID2GPU
  BY DEF RequestExceeds, Pending
<1>2. /\ req \in ResourceRequest
      /\ g \in GPUs
      /\ InfoOK(info)
      /\ info.fastPodList = vGPUID2GPU[g].fastPodList
      /\ info.mpsPodList = vGPUID2GPU[g].mpsPodList
      /\ info.allocationType = TypeOf[req.key]
  BY <1>1, PendingFacts
<1>3. /\ vGPUID2GPU' = Set(g, info)
      /\ selections' = selections \ {req}
      /\ mpsOn' = mpsOn \cup {g}
      /\ UNCHANGED <<up, registered, provisioned, bits, position>>
  <2>1. UsesMPS(info)
    BY <1>2 DEF RequestExceeds, Exceeds, UsesMPS
  <2>. QED BY <2>1 DEF RequestExceeds, EnableMPS
<1>. HIDE DEF info
<1>4. PortsDistinct' /\ BitmapTypeOK'
  BY <1>1, <1>2, <1>3, SamePorts
<1>5. mpsOn' \subseteq GPUs
  BY <1>2, <1>3 DEF LedgerInv, TypeOK
<1>. QED BY <1>1, <1>2, <1>3, <1>4, <1>5, RecordStep

\* Recording an MPS pod keeps the invariant.
LEMMA RequestMPSStep ==
    ASSUME LedgerInv, NEW req, RequestMPS(req)
    PROVE  LedgerInv'
<1>. DEFINE g == GpuOf[req.key]
            info == Typed(vGPUID2GPU[g], req.key)
<1>1. req \in selections /\ g \in DOMAIN vGPUID2GPU
  BY DEF RequestMPS, Pending
<1>2. /\ req \in ResourceRequest
      /\ g \in GPUs
      /\ InfoOK(info)
      /\ info.fastPodList = vGPUID2GPU[g].fastPodList
      /\ info.mpsPodList = vGPUID2GPU[g].mpsPodList
      /\ info.allocationType = TypeOf[req.key]
  BY <1>1, PendingFacts
<1>. DEFINE new == WithMPSPod(info, req)
<1>3. /\ TypeOf[req.key] = "MPS"
      /\ vGPUID2GPU' = Set(g, new)
      /\ selections' = selections \ {req}
      /\ ~Exceeds(req, info)
      /\ IF UsesMPS(info) THEN EnableMPS(g) ELSE UNCHANGED mpsOn
      /\ UNCHANGED <<up, registered, provisioned, bits, position>>
  BY DEF RequestMPS
<1>. HIDE DEF info
<1>4. mpsOn' = mpsOn \cup {g}
  BY <1>2, <1>3 DEF UsesMPS, EnableMPS
<1>5. info.usageMem + MemOf[req.key] <= info.mem
  <2>1. ~(info.usageMem + MemOf[req.key] > info.mem)
    BY <1>3 DEF Exceeds
  <2>2. info.usageMem \in Int /\ info.mem \in Int /\ MemOf[req.key] \in Int
    BY <1>2, RequestFacts DEF InfoOK, GPUDevInfo
  <2>. QED BY <2>1, <2>2
<1>6. InfoOK(new) /\ new.fastPodList = info.fastPodList
  BY <1>2, <1>3, <1>5, AddMPSOK
<1>. HIDE DEF new
<1>7. PortsDistinct' /\ BitmapTypeOK'
  BY <1>1, <1>2, <1>3, <1>6, SamePorts
<1>8. mpsOn' \subseteq GPUs
  BY <1>2, <1>4 DEF LedgerInv, TypeOK
<1>. QED BY <1>1, <1>3, <1>4, <1>6, <1>7, <1>8, RecordStep

\* Giving the GPU to an Exclusive pod keeps the invariant: it hosts no other pod.
LEMMA RequestExclusiveStep ==
    ASSUME LedgerInv, NEW req, RequestExclusive(req)
    PROVE  LedgerInv'
<1>. DEFINE g == GpuOf[req.key]
            info == Typed(vGPUID2GPU[g], req.key)
<1>1. req \in selections /\ g \in DOMAIN vGPUID2GPU
  BY DEF RequestExclusive, Pending
<1>2. /\ req \in ResourceRequest
      /\ g \in GPUs
      /\ InfoOK(info)
      /\ info.fastPodList = vGPUID2GPU[g].fastPodList
      /\ info.mpsPodList = vGPUID2GPU[g].mpsPodList
      /\ info.allocationType = TypeOf[req.key]
  BY <1>1, PendingFacts
<1>. DEFINE new == [info EXCEPT !.exclusivePod = req.key]
<1>3. /\ TypeOf[req.key] = "Exclusive"
      /\ vGPUID2GPU' = Set(g, new)
      /\ selections' = selections \ {req}
      /\ IF UsesMPS(info) THEN EnableMPS(g) ELSE UNCHANGED mpsOn
      /\ UNCHANGED <<up, registered, provisioned, bits, position>>
  BY DEF RequestExclusive
<1>. HIDE DEF info
<1>4. mpsOn' = mpsOn
  BY <1>2, <1>3 DEF UsesMPS
<1>5. /\ InfoOK(new)
      /\ new.fastPodList = info.fastPodList /\ new.mpsPodList = info.mpsPodList
  BY <1>2, <1>3, RequestFacts, AddExclusiveOK
<1>6. info.fastPodList = {} /\ info.mpsPodList = {}
  BY <1>2, <1>3 DEF InfoOK
<1>. HIDE DEF new
<1>7. PortsDistinct' /\ BitmapTypeOK'
  BY <1>1, <1>2, <1>3, <1>5, SamePorts
<1>8. mpsOn' \subseteq GPUs
  BY <1>4 DEF LedgerInv, TypeOK
<1>. QED BY <1>1, <1>3, <1>4, <1>5, <1>6, <1>7, <1>8, RecordStep

\* A request for a FastPod that is recorded already keeps the invariant.
LEMMA RequestFastPodAgainStep ==
    ASSUME LedgerInv, NEW req, RequestFastPodAgain(req)
    PROVE  LedgerInv'
<1>. DEFINE g == GpuOf[req.key]
            info == Typed(vGPUID2GPU[g], req.key)
<1>1. req \in selections /\ g \in DOMAIN vGPUID2GPU
  BY DEF RequestFastPodAgain, Pending
<1>2. /\ req \in ResourceRequest
      /\ g \in GPUs
      /\ InfoOK(info)
      /\ info.fastPodList = vGPUID2GPU[g].fastPodList
      /\ info.mpsPodList = vGPUID2GPU[g].mpsPodList
      /\ info.allocationType = TypeOf[req.key]
  BY <1>1, PendingFacts
<1>3. /\ vGPUID2GPU' = Set(g, info)
      /\ selections' = selections \ {req}
      /\ mpsOn' = mpsOn \cup {g}
      /\ UNCHANGED <<up, registered, provisioned, bits, position>>
  BY DEF RequestFastPodAgain, EnableMPS
<1>. HIDE DEF info
<1>4. PortsDistinct' /\ BitmapTypeOK'
  BY <1>1, <1>2, <1>3, SamePorts
<1>5. mpsOn' \subseteq GPUs
  BY <1>2, <1>3 DEF LedgerInv, TypeOK
<1>. QED BY <1>1, <1>2, <1>3, <1>4, <1>5, RecordStep

\* Recording a FastPod keeps the invariant: the port it gets is nobody else's.
LEMMA RequestFastPodStep ==
    ASSUME LedgerInv, NEW req, RequestFastPod(req)
    PROVE  LedgerInv'
<1>. DEFINE g == GpuOf[req.key]
            info == Typed(vGPUID2GPU[g], req.key)
<1>1. req \in selections /\ g \in DOMAIN vGPUID2GPU
  BY DEF RequestFastPod, Pending
<1>2. /\ req \in ResourceRequest
      /\ g \in GPUs
      /\ InfoOK(info)
      /\ info.fastPodList = vGPUID2GPU[g].fastPodList
      /\ info.mpsPodList = vGPUID2GPU[g].mpsPodList
      /\ info.allocationType = TypeOf[req.key]
  BY <1>1, PendingFacts
<1>. DEFINE new(port) == WithFastPod(info, req, port)
            r(port) == NewFastPodReq(req, port)
<1>3. /\ TypeOf[req.key] = "FastPod"
      /\ selections' = selections \ {req}
      /\ ~Exceeds(req, info)
      /\ mpsOn' = mpsOn \cup {g}
      /\ UNCHANGED <<up, registered, provisioned>>
      /\ \E port \in Positions : FindFirstUnsetAndSet(port) /\ vGPUID2GPU' = Set(g, new(port))
  BY DEF RequestFastPod, EnableMPS
<1>4. PICK port \in Positions : FindFirstUnsetAndSet(port) /\ vGPUID2GPU' = Set(g, new(port))
  BY <1>3
<1>. HIDE DEF info
<1>5. /\ port \notin bits
      /\ bits' = bits \cup {port}
      /\ position' = (port + 1) % Size
  BY <1>4 DEF FindFirstUnsetAndSet, FindFirstUnset
<1>6. info.usageMem + MemOf[req.key] <= info.mem /\ info.usage + req.use <= Cap
  <2>1. ~(info.usageMem + MemOf[req.key] > info.mem) /\ ~(info.usage + req.use > Cap)
    BY <1>3 DEF Exceeds
  <2>2. /\ info.usageMem \in Int /\ info.mem \in Int /\ info.usage \in Int
        /\ MemOf[req.key] \in Int /\ req.use \in Int /\ Cap \in Int
    BY <1>2, RequestFacts DEF InfoOK, GPUDevInfo
  <2>. QED BY <2>1, <2>2
<1>7. /\ InfoOK(new(port)) /\ new(port).fastPodList = info.fastPodList \cup {r(port)}
      /\ r(port).port = port
  BY <1>2, <1>3, <1>6, AddFastPodOK
<1>. HIDE DEF new, r
<1>9. /\ DOMAIN vGPUID2GPU' = DOMAIN vGPUID2GPU \cup {g}
      /\ vGPUID2GPU'[g] = new(port)
      /\ \A h \in DOMAIN vGPUID2GPU \ {g} : vGPUID2GPU'[h] = vGPUID2GPU[h]
  BY <1>2, <1>4, <1>7, SetStep
<1>10. ASSUME NEW h \in DOMAIN vGPUID2GPU', NEW s \in vGPUID2GPU'[h].fastPodList
       PROVE  \/ h = g /\ s = r(port)
              \/ h \in DOMAIN vGPUID2GPU /\ s \in vGPUID2GPU[h].fastPodList
  BY <1>1, <1>2, <1>7, <1>9
<1>11. \A h \in DOMAIN vGPUID2GPU : \A s \in vGPUID2GPU[h].fastPodList : s.port \in bits
  BY DEF LedgerInv, PortsDistinct
<1>12. PortsDistinct'
  BY <1>5, <1>7, <1>10, <1>11 DEF PortsDistinct, LedgerInv
<1>13. BitmapTypeOK'
  <2>1. bits' \subseteq Positions
    BY <1>4, <1>5 DEF LedgerInv, TypeOK, BitmapTypeOK
  <2>2. position' \in 0 .. Size - 1
    BY <1>5, SizeAssumption DEF Positions
  <2>. QED BY <2>1, <2>2 DEF BitmapTypeOK, Positions
<1>14. mpsOn' \subseteq GPUs
  BY <1>2, <1>3 DEF LedgerInv, TypeOK
<1>. QED BY <1>1, <1>3, <1>4, <1>7, <1>12, <1>13, <1>14, RecordStep

-----------------------------------------------------------------------------
(***************************************************************************)
(* removePodFromList, removeFaSTPodFromList, reconcileResourceConfig       *)
(***************************************************************************)

\* A removal that leaves others of the pod's type on the GPU keeps the invariant: a pending selection still fits.
LEMMA RemoveShrinksStep ==
    ASSUME LedgerInv, NEW p \in Pods, RemoveShrinks(p)
    PROVE  LedgerInv'
<1>. DEFINE g == GpuOf[p]
            new == Without(p, vGPUID2GPU[g])
<1>1. /\ g \in DOMAIN vGPUID2GPU
      /\ TypeOf[p] # "Exclusive"
      /\ vGPUID2GPU' = Set(g, new)
      /\ bits' = bits \ FreedPorts(p, vGPUID2GPU[g])
      /\ UNCHANGED <<up, registered, selections, provisioned, mpsOn, position>>
  BY DEF RemoveShrinks, Recorded, LastOfItsType, Clear
<1>2. g \in GPUs /\ InfoOK(vGPUID2GPU[g])
  BY <1>1 DEF LedgerInv, TypeOK, EntriesOK
<1>3. /\ InfoOK(new)
      /\ new.fastPodList \subseteq vGPUID2GPU[g].fastPodList
      /\ new.mpsPodList \subseteq vGPUID2GPU[g].mpsPodList
      /\ \A req \in ResourceRequest : canFit(req, vGPUID2GPU[g]) => canFit(req, new)
  BY <1>1, <1>2, WithoutOK
<1>4. /\ DOMAIN vGPUID2GPU' = DOMAIN vGPUID2GPU \cup {g}
      /\ DOMAIN vGPUID2GPU' \subseteq GPUs
      /\ vGPUID2GPU' \in [DOMAIN vGPUID2GPU' -> GPUDevInfo]
      /\ vGPUID2GPU'[g] = new
      /\ \A h \in DOMAIN vGPUID2GPU \ {g} : vGPUID2GPU'[h] = vGPUID2GPU[h]
      /\ EntriesOK'
  BY <1>1, <1>2, <1>3, SetStep
<1>5. PortsDistinct'
  <2>1. ASSUME NEW h \in DOMAIN vGPUID2GPU', NEW r \in vGPUID2GPU'[h].fastPodList
        PROVE  /\ h \in DOMAIN vGPUID2GPU
               /\ r \in vGPUID2GPU[h].fastPodList
               /\ r.port \in bits'
    <3>1. h \in DOMAIN vGPUID2GPU /\ r \in vGPUID2GPU[h].fastPodList /\ (g = h => r \in new.fastPodList)
      BY <1>1, <1>3, <1>4
    <3>2. r.port \in bits \ FreedPorts(p, vGPUID2GPU[g])
      BY <1>1, <3>1, FreedPortsUnused DEF LedgerInv
    <3>. QED BY <1>1, <3>1, <3>2
  <2>. QED BY <2>1, NoNewFastPod
<1>. HIDE DEF new
<1>6. TypeOK'
  BY <1>1, <1>4 DEF LedgerInv, TypeOK, BitmapTypeOK
<1>7. OneSelection'
  BY <1>1 DEF LedgerInv, OneSelection
<1>8. SelectionStaysValid'
  <2>1. SUFFICES ASSUME NEW req \in selections, GpuOf[req.key] \in DOMAIN vGPUID2GPU'
                 PROVE  canFit(req, vGPUID2GPU'[GpuOf[req.key]])
    BY <1>1 DEF SelectionStaysValid
  <2>2. req \in ResourceRequest /\ GpuOf[req.key] \in DOMAIN vGPUID2GPU
    BY <1>1, <1>4, <2>1 DEF LedgerInv, TypeOK
  <2>3. canFit(req, vGPUID2GPU[GpuOf[req.key]])
    BY <2>2 DEF LedgerInv, SelectionStaysValid
  <2>. QED BY <1>3, <1>4, <2>2, <2>3
<1>9. MpsRunsWhileRecorded'
  BY <1>1, <1>3, <1>4 DEF LedgerInv, MpsRunsWhileRecorded
<1>. QED BY <1>4, <1>5, <1>6, <1>7, <1>8, <1>9 DEF LedgerInv

\* Dropping the entry of a GPU keeps the invariant, whatever it still recorded.
LEMMA DropEntryStep ==
    ASSUME LedgerInv, NEW p \in Pods, GpuOf[p] \in DOMAIN vGPUID2GPU,
           vGPUID2GPU' = Delete(GpuOf[p]),
           bits' = bits \ FreedPorts(p, vGPUID2GPU[GpuOf[p]]),
           mpsOn' \in {mpsOn, mpsOn \ {GpuOf[p]}},
           provisioned' \subseteq GPUs,
           UNCHANGED <<up, registered, selections, position>>
    PROVE  LedgerInv'
<1>. DEFINE g == GpuOf[p]
<1>1. g \in GPUs
  BY DEF LedgerInv, TypeOK
<1>2. /\ DOMAIN vGPUID2GPU' = DOMAIN vGPUID2GPU \ {g}
      /\ DOMAIN vGPUID2GPU' \subseteq GPUs
      /\ vGPUID2GPU' \in [DOMAIN vGPUID2GPU' -> GPUDevInfo]
      /\ \A h \in DOMAIN vGPUID2GPU \ {g} : vGPUID2GPU'[h] = vGPUID2GPU[h]
      /\ EntriesOK'
  BY <1>1, DeleteStep
<1>3. PortsDistinct'
  <2>1. ASSUME NEW h \in DOMAIN vGPUID2GPU', NEW r \in vGPUID2GPU'[h].fastPodList
        PROVE  /\ h \in DOMAIN vGPUID2GPU
               /\ r \in vGPUID2GPU[h].fastPodList
               /\ r.port \in bits'
    <3>1. h \in DOMAIN vGPUID2GPU /\ r \in vGPUID2GPU[h].fastPodList /\ g # h
      BY <1>2
    <3>2. r.port \in bits \ FreedPorts(p, vGPUID2GPU[g])
      BY <3>1, FreedPortsUnused DEF LedgerInv
    <3>. QED BY <3>1, <3>2
  <2>. QED BY <2>1, NoNewFastPod
<1>4. TypeOK'
  BY <1>2 DEF LedgerInv, TypeOK, BitmapTypeOK
<1>5. OneSelection'
  BY DEF LedgerInv, OneSelection
<1>6. SelectionStaysValid'
  BY <1>2 DEF LedgerInv, SelectionStaysValid
<1>7. MpsRunsWhileRecorded'
  BY <1>2 DEF LedgerInv, MpsRunsWhileRecorded
<1>. QED BY <1>2, <1>3, <1>4, <1>5, <1>6, <1>7 DEF LedgerInv

\* The two ways to drop an entry keep the invariant.
LEMMA RemoveLastStep ==
    ASSUME LedgerInv, NEW p \in Pods, RemoveLast(p) \/ RemoveLastOfFaSTPod(p)
    PROVE  LedgerInv'
<1>1. /\ GpuOf[p] \in DOMAIN vGPUID2GPU
      /\ vGPUID2GPU' = Delete(GpuOf[p])
      /\ bits' = bits \ FreedPorts(p, vGPUID2GPU[GpuOf[p]])
      /\ mpsOn' \in {mpsOn, mpsOn \ {GpuOf[p]}}
      /\ UNCHANGED <<up, registered, selections, position>>
  BY DEF RemoveLast, RemoveLastOfFaSTPod, Recorded, DisableMPS, Clear
<1>2. provisioned' \subseteq GPUs
  BY DEF RemoveLast, RemoveLastOfFaSTPod, ReleaseVirtualGPU, LedgerInv, TypeOK
<1>. QED BY <1>1, <1>2, DropEntryStep

\* A reconfiguration rewrites one request in place: the invariant does not speak of its share.
LEMMA ReconfigStep ==
    ASSUME LedgerInv, NEW p \in Pods, NEW use \in Uses, reconcileResourceConfig(p, use)
    PROVE  LedgerInv'
<1>. DEFINE g == GpuOf[p]
            info == vGPUID2GPU[g]
            req == ReqOf(p, info.fastPodList)
            new == WithUse(info, req, use)
            req2 == [req EXCEPT !.use = use]
<1>1. /\ g \in DOMAIN vGPUID2GPU
      /\ FindInQueue(p, info.fastPodList)
      /\ vGPUID2GPU' = Set(g, new)
      /\ UNCHANGED <<up, registered, selections, provisioned, mpsOn, bits, position>>
  BY DEF reconcileResourceConfig, Recorded
<1>2. g \in GPUs /\ InfoOK(info) /\ info \in GPUDevInfo
  BY <1>1 DEF LedgerInv, TypeOK, EntriesOK, InfoOK
<1>3. req \in info.fastPodList /\ req \in FastPodReq
  BY <1>1, <1>2, FoundReq DEF GPUDevInfo
<1>. HIDE DEF req
<1>4. req2 \in FastPodReq /\ req2.port = req.port
  BY <1>3 DEF FastPodReq
<1>. HIDE DEF req2, info
<1>5. new = [allocationType |-> info.allocationType, mem |-> info.mem,
             usage |-> info.usage, usageMem |-> info.usageMem,
             fastPodList |-> (info.fastPodList \ {req}) \cup {req2},
             mpsPodList |-> info.mpsPodList, exclusivePod |-> info.exclusivePod]
  <2>1. PICK x : x = new
    OBVIOUS
  <2>2. x = [info EXCEPT !.fastPodList = (@ \ {req}) \cup {req2}]
    BY <2>1 DEF WithUse, req2
  <2>. QED BY <1>2, <2>1, <2>2 DEF GPUDevInfo
<1>. HIDE DEF new
<1>6. new \in GPUDevInfo
  BY <1>2, <1>4, <1>5 DEF GPUDevInfo
<1>7. InfoOK(new)
  BY <1>2, <1>3, <1>5, <1>6 DEF InfoOK
<1>8. /\ DOMAIN vGPUID2GPU' = DOMAIN vGPUID2GPU \cup {g}
      /\ DOMAIN vGPUID2GPU' \subseteq GPUs
      /\ vGPUID2GPU' \in [DOMAIN vGPUID2GPU' -> GPUDevInfo]
      /\ vGPUID2GPU'[g] = new
      /\ \A h \in DOMAIN vGPUID2GPU \ {g} : vGPUID2GPU'[h] = vGPUID2GPU[h]
      /\ EntriesOK'
  BY <1>1, <1>2, <1>7, SetStep
<1>9. PortsDistinct'
  <2>1. ASSUME NEW h \in DOMAIN vGPUID2GPU', NEW r \in vGPUID2GPU'[h].fastPodList
        PROVE  \/ h = g /\ r = req2
               \/ h = g /\ r \in info.fastPodList \ {req}
               \/ h # g /\ h \in DOMAIN vGPUID2GPU /\ r \in vGPUID2GPU[h].fastPodList
    <3>1. new.fastPodList = (info.fastPodList \ {req}) \cup {req2}
      BY <1>5
    <3>2. CASE h = g
      BY <1>8, <2>1, <3>1, <3>2
    <3>3. CASE h # g
      BY <1>8, <2>1, <3>3
    <3>. QED BY <3>2, <3>3
  <2>2. \A h \in DOMAIN vGPUID2GPU, r \in info.fastPodList :
            \A s \in vGPUID2GPU[h].fastPodList :
                r.port \in bits /\ (r.port = s.port => h = g /\ s = r)
    BY <1>1 DEF LedgerInv, PortsDistinct, info
  <2>3. \A h, k \in DOMAIN vGPUID2GPU :
            \A r \in vGPUID2GPU[h].fastPodList, s \in vGPUID2GPU[k].fastPodList :
                r.port \in bits /\ (r.port = s.port => h = k /\ r = s)
    BY DEF LedgerInv, PortsDistinct
  <2>4. SUFFICES ASSUME NEW h \in DOMAIN vGPUID2GPU', NEW k \in DOMAIN vGPUID2GPU',
                        NEW r \in vGPUID2GPU'[h].fastPodList,
                        NEW s \in vGPUID2GPU'[k].fastPodList
                 PROVE  r.port \in bits /\ (r.port = s.port => h = k /\ r = s)
    BY <1>1 DEF PortsDistinct
  <2>5. CASE h = g /\ r = req2
    BY <1>1, <1>3, <1>4, <2>1, <2>2, <2>5 DEF info
  <2>6. CASE h = g /\ r \in info.fastPodList \ {req}
    BY <1>1, <1>3, <1>4, <2>1, <2>2, <2>6 DEF info
  <2>7. CASE h # g /\ h \in DOMAIN vGPUID2GPU /\ r \in vGPUID2GPU[h].fastPodList
    BY <1>1, <1>3, <1>4, <2>1, <2>2, <2>3, <2>7 DEF info
  <2>. QED BY <2>1, <2>5, <2>6, <2>7
<1>10. TypeOK'
  BY <1>1, <1>8 DEF LedgerInv, TypeOK, BitmapTypeOK
<1>11. OneSelection'
  BY <1>1 DEF LedgerInv, OneSelection
<1>12. SelectionStaysValid'
  <2>1. SUFFICES ASSUME NEW q \in selections, GpuOf[q.key] \in DOMAIN vGPUID2GPU'
                 PROVE  canFit(q, vGPUID2GPU'[GpuOf[q.key]])
    BY <1>1 DEF SelectionStaysValid
  <2>2. q \in ResourceRequest /\ GpuOf[q.key] \in DOMAIN vGPUID2GPU
    BY <1>1, <1>8, <2>1 DEF LedgerInv, TypeOK
  <2>3. canFit(q, vGPUID2GPU[GpuOf[q.key]])
    BY <2>2 DEF LedgerInv, SelectionStaysValid
  <2>4. /\ new.allocationType = info.allocationType /\ new.mem = info.mem
        /\ new.usage = info.usage /\ new.usageMem = info.usageMem
    BY <1>5
  <2>5. canFit(q, info) => canFit(q, new)
    BY <2>4 DEF canFit, canFitExclusive, canFitMPSPod, canFitFastPod
  <2>. QED BY <1>8, <2>2, <2>3, <2>5 DEF info
<1>13. MpsRunsWhileRecorded'
  <2>1. g \in mpsOn
    BY <1>1, <1>3 DEF LedgerInv, MpsRunsWhileRecorded, info
  <2>. QED BY <1>1, <1>8, <2>1 DEF LedgerInv, MpsRunsWhileRecorded
<1>. QED BY <1>8, <1>9, <1>10, <1>11, <1>12, <1>13 DEF LedgerInv

\* A step that leaves the entries, the selections, the daemons and the ports alone keeps the invariant.
LEMMA QuietStep ==
    ASSUME LedgerInv, UNCHANGED <<vGPUID2GPU, selections, bits, position>>,
           up' \in BOOLEAN, registered' \in BOOLEAN, provisioned' \subseteq GPUs,
           mpsOn' \subseteq GPUs, mpsOn \cap DOMAIN vGPUID2GPU \subseteq mpsOn'
    PROVE  LedgerInv'
<1>1. TypeOK'
  BY DEF LedgerInv, TypeOK, BitmapTypeOK
<1>2. EntriesOK' /\ PortsDistinct' /\ OneSelection'
  BY DEF LedgerInv, EntriesOK, PortsDistinct, OneSelection
<1>3. SelectionStaysValid'
  BY DEF LedgerInv, SelectionStaysValid
<1>4. MpsRunsWhileRecorded'
  BY DEF LedgerInv, MpsRunsWhileRecorded
<1>. QED BY <1>1, <1>2, <1>3, <1>4 DEF LedgerInv

\* The process ends or starts, a node says hello, the function controller provisions or releases a GPU.
LEMMA EnvironmentStep ==
    ASSUME LedgerInv,
           \/ Crash \/ Restart \/ handleNodeConnection
           \/ \E g \in GPUs : Provision(g) \/ ReleaseByFastFunc(g)
    PROVE  LedgerInv'
<1>1. up \in BOOLEAN /\ registered \in BOOLEAN /\ provisioned \subseteq GPUs /\ mpsOn \subseteq GPUs
  BY DEF LedgerInv, TypeOK
<1>2. CASE Crash
  BY <1>1, <1>2, LoseMemoryStep DEF Crash, Panic
<1>3. CASE Restart
  BY <1>1, <1>3, QuietStep DEF Restart
<1>4. CASE handleNodeConnection
  BY <1>1, <1>4, QuietStep DEF handleNodeConnection
<1>5. ASSUME NEW g \in GPUs, Provision(g)
      PROVE  LedgerInv'
  BY <1>1, <1>5, QuietStep DEF Provision
<1>6. ASSUME NEW g \in GPUs, ReleaseByFastFunc(g)
      PROVE  LedgerInv'
  BY <1>1, <1>6, QuietStep DEF ReleaseByFastFunc
<1>. QED BY <1>2, <1>3, <1>4, <1>5, <1>6

\* ScheduleRequest keeps the invariant, whatever it answers.
LEMMA ScheduleRequestStep ==
    ASSUME LedgerInv, NEW req \in ResourceRequest, ScheduleRequest(req)
    PROVE  LedgerInv'
<1>1. selections = {} /\ provisioned \subseteq GPUs /\ mpsOn \subseteq GPUs
  BY DEF LedgerInv, TypeOK, ScheduleRequest
<1>2. CASE ScheduleOk(req)
  BY <1>1, <1>2, ScheduleOkStep
<1>3. CASE ScheduleNoFit(req)
  BY <1>1, <1>3, ScheduleNoFitStep
<1>4. CASE SchedulePanic(req)
  BY <1>1, <1>4, LoseMemoryStep DEF SchedulePanic, Panic
<1>5. CASE ScheduleNoGPU(req)
  <2>1. up \in BOOLEAN /\ registered \in BOOLEAN
    BY DEF LedgerInv, TypeOK
  <2>. QED BY <1>1, <1>5, <2>1, QuietStep DEF ScheduleNoGPU, ledgerVars
<1>. QED BY <1>2, <1>3, <1>4, <1>5 DEF ScheduleRequest

\* RequestGPUAndUpdateConfig keeps the invariant, whether it records, refuses or panics.
LEMMA RequestStep ==
    ASSUME LedgerInv, NEW req \in ResourceRequest, RequestGPUAndUpdateConfig(req)
    PROVE  LedgerInv'
<1>. DEFINE g == GpuOf[req.key]
<1>1. g \in GPUs /\ provisioned \subseteq GPUs /\ mpsOn \subseteq GPUs
  BY RequestFacts DEF LedgerInv, TypeOK
<1>2. CASE RequestRecorded(req)
  BY <1>2, RequestMPSStep, RequestExclusiveStep, RequestFastPodStep, RequestFastPodAgainStep
  DEF RequestRecorded
<1>3. CASE RequestRefused(req)
  BY <1>3, RequestNoGPUStep, RequestExceedsStep DEF RequestRefused
<1>4. CASE RequestPanic(req)
  <2>1. LoseMemory /\ provisioned' = provisioned /\ mpsOn' \in {mpsOn, mpsOn \cup {g}}
    BY <1>4 DEF RequestPanic, EnableMPS
  <2>. QED BY <1>1, <2>1, LoseMemoryStep
<1>5. CASE RequestRpcPanic(req)
  <2>1. LoseMemory /\ provisioned' = provisioned /\ mpsOn' \in {mpsOn, mpsOn \cup {g}}
    BY <1>5 DEF RequestRpcPanic
  <2>. QED BY <1>1, <2>1, LoseMemoryStep
<1>. QED BY <1>2, <1>3, <1>4, <1>5 DEF RequestGPUAndUpdateConfig

\* The two removals keep the invariant, for any pod and at any time.
LEMMA RemoveStep ==
    ASSUME LedgerInv, NEW p \in Pods, removePodFromList(p) \/ removeFaSTPodFromList(p)
    PROVE  LedgerInv'
<1>1. /\ up \in BOOLEAN /\ registered \in BOOLEAN
      /\ provisioned \subseteq GPUs /\ mpsOn \subseteq GPUs
  BY DEF LedgerInv, TypeOK
<1>2. CASE RemoveAbsent(p)
  BY <1>1, <1>2, QuietStep DEF RemoveAbsent, ledgerVars
<1>3. CASE RemoveShrinks(p)
  BY <1>3, RemoveShrinksStep
<1>4. CASE RemoveLast(p) \/ RemoveLastOfFaSTPod(p)
  BY <1>4, RemoveLastStep
<1>5. CASE RemovePanic(p)
  BY <1>1, <1>5, LoseMemoryStep DEF RemovePanic, Panic
<1>6. CASE RemoveRpcPanic(p)
  <2>1. /\ LoseMemory
        /\ provisioned' \subseteq provisioned
        /\ mpsOn' \subseteq mpsOn
    BY <1>6 DEF RemoveRpcPanic, DisableMPS, ReleaseVirtualGPU
  <2>. QED BY <1>1, <2>1, LoseMemoryStep
<1>. QED BY <1>2, <1>3, <1>4, <1>5, <1>6 DEF removePodFromList, removeFaSTPodFromList

-----------------------------------------------------------------------------
\* The invariant holds of a controller manager that has just started.
LEMMA InitInv == LedgerInit => LedgerInv
<1>. SUFFICES ASSUME LedgerInit PROVE LedgerInv
  OBVIOUS
<1>1. DOMAIN vGPUID2GPU = {} /\ selections = {} /\ bits = {} /\ position = 0
  BY DEF LedgerInit, NoGPUs, NewBitmap
<1>2. TypeOK
  <2>1. vGPUID2GPU \in [DOMAIN vGPUID2GPU -> GPUDevInfo]
    BY DEF LedgerInit, NoGPUs
  <2>2. BitmapTypeOK
    BY <1>1, SizeAssumption DEF BitmapTypeOK, Positions
  <2>. QED BY <1>1, <2>1, <2>2 DEF LedgerInit, TypeOK
<1>3. EntriesOK /\ PortsDistinct /\ OneSelection /\ SelectionStaysValid /\ MpsRunsWhileRecorded
  BY <1>1 DEF EntriesOK, PortsDistinct, OneSelection, SelectionStaysValid, MpsRunsWhileRecorded
<1>. QED BY <1>2, <1>3 DEF LedgerInv

\* Every step of the ledger keeps the invariant.
LEMMA NextInv == LedgerInv /\ [LedgerNext]_ledgerVars => LedgerInv'
<1>. SUFFICES ASSUME LedgerInv, [LedgerNext]_ledgerVars PROVE LedgerInv'
  OBVIOUS
<1>1. CASE \/ Crash \/ Restart \/ handleNodeConnection
           \/ \E g \in GPUs : Provision(g) \/ ReleaseByFastFunc(g)
  BY <1>1, EnvironmentStep
<1>2. ASSUME NEW req \in ResourceRequest, ScheduleRequest(req) PROVE LedgerInv'
  BY <1>2, ScheduleRequestStep
<1>3. ASSUME NEW req \in ResourceRequest, RequestGPUAndUpdateConfig(req) PROVE LedgerInv'
  BY <1>3, RequestStep
<1>4. ASSUME NEW p \in Pods, removePodFromList(p) \/ removeFaSTPodFromList(p) PROVE LedgerInv'
  BY <1>4, RemoveStep
<1>5. ASSUME NEW p \in Pods, NEW use \in Uses, reconcileResourceConfig(p, use) PROVE LedgerInv'
  BY <1>5, ReconfigStep
<1>6. CASE UNCHANGED ledgerVars
  <2>1. /\ up \in BOOLEAN /\ registered \in BOOLEAN
        /\ provisioned \subseteq GPUs /\ mpsOn \subseteq GPUs
    BY DEF LedgerInv, TypeOK
  <2>. QED BY <1>6, <2>1, QuietStep DEF ledgerVars
<1>. QED BY <1>1, <1>2, <1>3, <1>4, <1>5, <1>6 DEF LedgerNext

\* The invariant implies the properties it was strengthened from.
LEMMA InvImplies == LedgerInv => OneMode /\ WithinCapacity
  BY DEF LedgerInv, EntriesOK, InfoOK, OneMode, WithinCapacity

\* The ledger always satisfies its invariant.
THEOREM LedgerInvariance == LedgerSpec => []LedgerInv
<1>1. LedgerInit => LedgerInv
  BY InitInv
<1>2. LedgerInv /\ [LedgerNext]_ledgerVars => LedgerInv'
  BY NextInv
<1>. QED BY <1>1, <1>2, PTL DEF LedgerSpec

\* Type correctness: the map, the port bitmap and the selections keep the shape the Go declarations give them.
THEOREM TypeCorrect == LedgerSpec => []TypeOK
<1>1. LedgerInv => TypeOK
  BY DEF LedgerInv
<1>. QED BY <1>1, LedgerInvariance, PTL

\* FastPods, MPS pods and an Exclusive pod never share a GPU: holding fstp2PodsMtx across ScheduleRequest and RequestGPUAndUpdateConfig is enough, whatever removals, panics and reconfigurations come between.
THEOREM OneModeAlways == LedgerSpec => []OneMode
<1>1. LedgerInv => OneMode
  BY InvImplies
<1>. QED BY <1>1, LedgerInvariance, PTL

\* No two recorded FastPods share a GPU client port, for any number of ports and any order of late and repeated removals.
THEOREM PortsAlwaysDistinct == LedgerSpec => []PortsDistinct
<1>1. LedgerInv => PortsDistinct
  BY DEF LedgerInv
<1>. QED BY <1>1, LedgerInvariance, PTL

\* RequestGPUAndUpdateConfig never books more than a GPU has.
THEOREM NeverOverCapacity == LedgerSpec => []WithinCapacity
<1>1. LedgerInv => WithinCapacity
  BY InvImplies
<1>. QED BY <1>1, LedgerInvariance, PTL

\* The answer of ScheduleRequest is not stale when it is used, unless the GPU's entry is gone.
THEOREM SelectionsAlwaysValid == LedgerSpec => []SelectionStaysValid
<1>1. LedgerInv => SelectionStaysValid
  BY DEF LedgerInv
<1>. QED BY <1>1, LedgerInvariance, PTL

\* No removal stops the MPS daemon under a pod that stays recorded.
THEOREM MpsAlwaysRuns == LedgerSpec => []MpsRunsWhileRecorded
<1>1. LedgerInv => MpsRunsWhileRecorded
  BY DEF LedgerInv
<1>. QED BY <1>1, LedgerInvariance, PTL

-----------------------------------------------------------------------------
(***************************************************************************)
(* Sums over finite sets.  What the recursive function in MapThenSumSet    *)
(* computes: it exists, it is the only one, and the order in which it      *)
(* takes the elements does not matter.                                     *)
(***************************************************************************)
First(s) == CHOOSE x \in s : TRUE

\* The sums of f over all subsets of S, the first element taken first.
IsSums(t, f, S) ==
    t = [s \in SUBSET S |-> IF s = {} THEN 0 ELSE f[First(s)] + t[s \ {First(s)}]]

\* A set of subsets of a finite set that is not empty has a smallest element.
LEMMA SmallestSet ==
    ASSUME NEW S, IsFiniteSet(S), NEW T, T \subseteq SUBSET S, T # {}
    PROVE  \E s \in T : \A u \in T : u \subseteq s => u = s
<1>1. IsWellFoundedOn(StrictSubsetOrdering(S), SUBSET S)
  BY FS_StrictSubsetOrderingWellFounded, FS_FiniteSubsetsOfFinite
<1>2. PICK s \in T : \A u \in T : ~(<<u, s>> \in StrictSubsetOrdering(S))
  BY <1>1, WFMin, Zenon
<1>. QED BY <1>2 DEF StrictSubsetOrdering

\* Taking the first element of a set leaves a smaller one.
LEMMA FirstOf ==
    ASSUME NEW s, s # {}
    PROVE  First(s) \in s /\ s \ {First(s)} \subseteq s /\ s \ {First(s)} # s
  BY DEF First

\* Two functions of sums agree where both are defined.
LEMMA SumsAgree ==
    ASSUME NEW f, NEW S, NEW R, IsFiniteSet(S), NEW t, IsSums(t, f, S), NEW u, IsSums(u, f, R),
           NEW s, s \subseteq S, s \subseteq R
    PROVE  t[s] = u[s]
<1>. DEFINE Bad == {x \in SUBSET S : x \subseteq R /\ t[x] # u[x]}
<1>1. SUFFICES ASSUME Bad # {} PROVE FALSE
  OBVIOUS
<1>2. PICK b \in Bad : \A x \in Bad : x \subseteq b => x = b
  <2>1. Bad \subseteq SUBSET S
    OBVIOUS
  <2>. HIDE DEF Bad
  <2>. QED BY <1>1, <2>1, SmallestSet
<1>3. b \in SUBSET S /\ b \in SUBSET R /\ t[b] # u[b]
  OBVIOUS
<1>4. /\ t[b] = IF b = {} THEN 0 ELSE f[First(b)] + t[b \ {First(b)}]
      /\ u[b] = IF b = {} THEN 0 ELSE f[First(b)] + u[b \ {First(b)}]
  BY <1>3 DEF IsSums
<1>5. b # {}
  BY <1>3, <1>4
<1>6. b \ {First(b)} \subseteq b /\ b \ {First(b)} # b
  BY <1>5, FirstOf
<1>7. b \ {First(b)} \notin Bad
  BY <1>2, <1>6
<1>8. t[b \ {First(b)}] = u[b \ {First(b)}]
  BY <1>3, <1>6, <1>7
<1>. QED BY <1>3, <1>4, <1>8

\* The sums exist for every finite set.
LEMMA SumsExist ==
    ASSUME NEW f, NEW S, IsFiniteSet(S)
    PROVE  \E t : IsSums(t, f, S)
<1>. DEFINE Bad == {x \in SUBSET S : ~ \E t : IsSums(t, f, x)}
<1>1. SUFFICES ASSUME Bad # {} PROVE FALSE
  OBVIOUS
<1>2. PICK b \in Bad : \A x \in Bad : x \subseteq b => x = b
  <2>1. Bad \subseteq SUBSET S
    OBVIOUS
  <2>. HIDE DEF Bad
  <2>. QED BY <1>1, <2>1, SmallestSet
<1>. DEFINE T(x) == CHOOSE t : IsSums(t, f, x)
            u == [s \in SUBSET b |-> IF s = {} THEN 0
                                     ELSE f[First(s)] + T(s \ {First(s)})[s \ {First(s)}]]
<1>3. ASSUME NEW x \in SUBSET b, x # b PROVE IsSums(T(x), f, x)
  <2>1. x \notin Bad /\ x \in SUBSET S
    BY <1>2, <1>3
  <2>2. \E t : IsSums(t, f, x)
    BY <2>1
  <2>. QED BY <2>2
<1>4. ASSUME NEW s \in SUBSET b, s # {}
      PROVE  u[s \ {First(s)}] = T(s \ {First(s)})[s \ {First(s)}]
  <2>. DEFINE r == s \ {First(s)}
              q == r \ {First(r)}
  <2>1. r \in SUBSET b /\ r # b
    BY <1>4, FirstOf
  <2>2. IsSums(T(r), f, r)
    BY <1>3, <2>1
  <2>3. T(r)[r] = IF r = {} THEN 0 ELSE f[First(r)] + T(r)[q]
    BY <2>2 DEF IsSums
  <2>4. u[r] = IF r = {} THEN 0 ELSE f[First(r)] + T(q)[q]
    BY <2>1
  <2>5. ASSUME r # {} PROVE T(r)[q] = T(q)[q]
    <3>1. q \subseteq r /\ q \in SUBSET b /\ q # b
      BY <2>1, <2>5, FirstOf
    <3>2. IsSums(T(q), f, q)
      BY <1>3, <3>1
    <3>3. IsFiniteSet(r)
      BY <2>1, <1>2, FS_Subset
    <3>. HIDE DEF T, q, r
    <3>. QED BY <2>2, <3>1, <3>2, <3>3, SumsAgree
  <2>. QED BY <2>3, <2>4, <2>5
<1>. HIDE DEF T
<1>5. u = [s \in SUBSET b |-> IF s = {} THEN 0 ELSE f[First(s)] + u[s \ {First(s)}]]
  BY <1>4
<1>6. IsSums(u, f, b)
  BY <1>5 DEF IsSums
<1>. QED BY <1>6

\* The sum over a set: zero if it is empty, and the first element taken away otherwise.
LEMMA TotalIs ==
    ASSUME NEW f, NEW S, IsFiniteSet(S)
    PROVE  \E t : IsSums(t, f, S) /\ \A s \in SUBSET S : Total(f, s) = t[s]
<1>. DEFINE T(x) == CHOOSE t : IsSums(t, f, x)
<1>1. ASSUME NEW s \in SUBSET S PROVE Total(f, s) = T(s)[s]
  BY DEF Total, MapThenSumSet, MapThenFoldSet, IsSums, First
<1>2. ASSUME NEW s \in SUBSET S PROVE IsSums(T(s), f, s)
  <2>1. IsFiniteSet(s)
    BY FS_Subset
  <2>. QED BY <2>1, SumsExist
<1>. HIDE DEF T
<1>3. IsSums(T(S), f, S)
  BY <1>2
<1>4. \A s \in SUBSET S : Total(f, s) = T(S)[s]
  <2>1. SUFFICES ASSUME NEW s \in SUBSET S PROVE T(s)[s] = T(S)[s]
    BY <1>1
  <2>2. IsFiniteSet(s)
    BY FS_Subset
  <2>. QED BY <1>2, <1>3, <2>2, SumsAgree
<1>. QED BY <1>3, <1>4

\* The sum over the empty list.
LEMMA TotalEmpty == \A f : Total(f, {}) = 0
<1>. SUFFICES ASSUME NEW f PROVE Total(f, {}) = 0
  OBVIOUS
<1>1. IsFiniteSet({})
  BY FS_EmptySet
<1>2. PICK t : IsSums(t, f, {}) /\ \A s \in SUBSET {} : Total(f, s) = t[s]
  BY <1>1, TotalIs
<1>. QED BY <1>2 DEF IsSums

\* The sum over a list is a number, and any of its elements may be taken out first.
LEMMA TotalWithout ==
    ASSUME NEW D, NEW f \in [D -> Int], NEW S, S \subseteq D, IsFiniteSet(S)
    PROVE  /\ Total(f, S) \in Int
           /\ \A r \in S : Total(f, S) = f[r] + Total(f, S \ {r})
<1>1. PICK t : IsSums(t, f, S) /\ \A s \in SUBSET S : Total(f, s) = t[s]
  BY TotalIs
<1>. DEFINE Right(s) == t[s] \in Int /\ \A r \in s : t[s] = f[r] + t[s \ {r}]
            Bad == {s \in SUBSET S : ~Right(s)}
<1>2. SUFFICES Bad = {}
  <2>1. S \in SUBSET S /\ \A r \in S : S \ {r} \in SUBSET S
    OBVIOUS
  <2>2. Bad = {} => Right(S)
    BY <2>1
  <2>. QED BY <1>1, <2>1, <2>2
<1>3. SUFFICES ASSUME Bad # {} PROVE FALSE
  OBVIOUS
<1>4. PICK b \in Bad : \A x \in Bad : x \subseteq b => x = b
  <2>1. Bad \subseteq SUBSET S
    OBVIOUS
  <2>. HIDE DEF Bad
  <2>. QED BY <1>3, <2>1, SmallestSet
<1>5. b \in SUBSET S /\ ~Right(b)
  OBVIOUS
<1>6. \A s \in SUBSET S : t[s] = IF s = {} THEN 0 ELSE f[First(s)] + t[s \ {First(s)}]
  BY <1>1 DEF IsSums
<1>7. ASSUME NEW s \in SUBSET b, s # b PROVE s \in SUBSET S /\ Right(s)
  BY <1>4, <1>5, <1>7
<1>. HIDE DEF Bad
<1>8. b # {}
  <2>1. SUFFICES ASSUME b = {} PROVE Right(b)
    BY <1>5
  <2>2. t[b] = 0
    BY <1>5, <1>6, <2>1
  <2>. QED BY <2>1, <2>2
<1>. DEFINE x == First(b)
<1>9. x \in b /\ b \ {x} \in SUBSET b /\ b \ {x} # b
  BY <1>8, FirstOf
<1>10. \A r \in b : f[r] \in Int
  BY <1>5
<1>11. t[b] = f[x] + t[b \ {x}] /\ t[b \ {x}] \in Int /\ Right(b \ {x})
  BY <1>5, <1>6, <1>7, <1>8, <1>9
<1>. HIDE DEF x
<1>12. t[b] \in Int
  BY <1>9, <1>10, <1>11
<1>13. ASSUME NEW r \in b, r # x PROVE t[b] = f[r] + t[b \ {r}]
  <2>. DEFINE rest == b \ {x, r}
  <2>1. (b \ {x}) \ {r} = rest /\ (b \ {r}) \ {x} = rest
    OBVIOUS
  <2>2. t[b \ {x}] = f[r] + t[rest]
    BY <1>11, <1>13, <2>1
  <2>3. b \ {r} \in SUBSET b /\ b \ {r} # b /\ x \in b \ {r} /\ rest \in SUBSET b /\ rest # b
    BY <1>9, <1>13
  <2>4. t[b \ {r}] = f[x] + t[rest] /\ t[rest] \in Int
    <3>1. Right(b \ {r}) /\ Right(rest)
      BY <1>7, <2>3
    <3>. QED BY <2>1, <2>3, <3>1
  <2>5. f[r] \in Int /\ f[x] \in Int
    BY <1>9, <1>10
  <2>. HIDE DEF rest
  <2>. QED BY <1>11, <2>2, <2>4, <2>5
<1>14. Right(b)
  BY <1>11, <1>12, <1>13
<1>. QED BY <1>5, <1>14

-----------------------------------------------------------------------------
(***************************************************************************)
(* The books: the usage and the memory of a GPU against its pod lists.     *)
(***************************************************************************)
\* The lists are finite: they grow by one request at a time.
ListsFinite(info) == IsFiniteSet(info.fastPodList) /\ IsFiniteSet(info.mpsPodList)

FiniteLists == \A g \in DOMAIN vGPUID2GPU : ListsFinite(vGPUID2GPU[g])

\* A change of an entry that the books survive.
Keeps(old, new) == ListsFinite(new) /\ (Balanced(old) => Balanced(new))

\* The sum over a list with one more request, or one less, and what is summed are numbers.
LEMMA ListTotals ==
    ASSUME NEW D, NEW f \in [D -> Int], NEW podlist \in SUBSET D, IsFiniteSet(podlist), NEW r \in D
    PROVE  /\ f[r] \in Int /\ Total(f, podlist) \in Int
           /\ IsFiniteSet(podlist \cup {r}) /\ IsFiniteSet(podlist \ {r})
           /\ r \in podlist => Total(f, podlist \ {r}) = Total(f, podlist) - f[r]
           /\ r \notin podlist => Total(f, podlist \cup {r}) = Total(f, podlist) + f[r]
<1>1. f[r] \in Int
  OBVIOUS
<1>2. IsFiniteSet(podlist \cup {r}) /\ IsFiniteSet(podlist \ {r})
  BY FS_AddElement, FS_RemoveElement
<1>3. Total(f, podlist) \in Int /\ Total(f, podlist \ {r}) \in Int
  <2>1. podlist \ {r} \subseteq D
    OBVIOUS
  <2>. QED BY <1>2, <2>1, TotalWithout
<1>4. ASSUME r \in podlist PROVE Total(f, podlist \ {r}) = Total(f, podlist) - f[r]
  <2>1. Total(f, podlist) = f[r] + Total(f, podlist \ {r})
    BY <1>4, TotalWithout
  <2>. QED BY <1>1, <1>3, <2>1
<1>5. ASSUME r \notin podlist PROVE Total(f, podlist \cup {r}) = Total(f, podlist) + f[r]
  <2>1. (podlist \cup {r}) \ {r} = podlist /\ podlist \cup {r} \subseteq D
    BY <1>5
  <2>2. Total(f, podlist \cup {r}) = f[r] + Total(f, podlist)
    BY <1>2, <2>1, TotalWithout
  <2>. QED BY <1>1, <1>3, <2>2
<1>. QED BY <1>1, <1>2, <1>3, <1>4, <1>5

\* What is summed: the shares and the memory of requests are natural numbers.
LEMMA SummandsAre ==
    /\ Shares \in [FastPodReq -> Int]
    /\ FastPodMem \in [FastPodReq -> Int]
    /\ MPSPodMem \in [MPSPodReq -> Int]
<1>1. Uses \subseteq Int
  BY LedgerAssumption
<1>2. \A r \in FastPodReq : r.use \in Int /\ r.mem \in Int
  <2>1. \A r \in FastPodReq : r.use \in Uses /\ r.mem \in Nat
    BY DEF FastPodReq
  <2>2. Nat \subseteq Int
    OBVIOUS
  <2>. QED BY <1>1, <2>1, <2>2, Zenon
<1>3. \A r \in MPSPodReq : r.mem \in Int
  BY DEF MPSPodReq
<1>. QED BY <1>2, <1>3 DEF Shares, FastPodMem, MPSPodMem

\* A new entry has balanced books.
LEMMA FreshBalanced ==
    ASSUME NEW g
    PROVE  ListsFinite(FreshGPU(g)) /\ Balanced(FreshGPU(g))
  BY TotalEmpty, FS_EmptySet DEF ListsFinite, Balanced, FreshGPU

\* So does an entry with the same lists and the same usage.
LEMMA SameBalance ==
    ASSUME NEW old, NEW new, ListsFinite(old),
           new.fastPodList = old.fastPodList, new.mpsPodList = old.mpsPodList,
           new.usage = old.usage, new.usageMem = old.usageMem
    PROVE  Keeps(old, new)
  BY DEF Keeps, ListsFinite, Balanced

\* An MPS pod that is booked where no other is.
LEMMA MPSPodBooked ==
    ASSUME NEW info \in GPUDevInfo, ListsFinite(info), NEW req \in ResourceRequest,
           info.mpsPodList = {}
    PROVE  Keeps(info, WithMPSPod(info, req))
<1>. DEFINE new == WithMPSPod(info, req)
            r == [key |-> req.key, mem |-> MemOf[req.key]]
<1>1. req.key \in Pods /\ MemOf[req.key] \in Nat
  BY RequestFacts
<1>2. r \in MPSPodReq /\ MPSPodMem[r] = MemOf[req.key]
  BY <1>1 DEF MPSPodReq, MPSPodMem
<1>3. /\ new.fastPodList = info.fastPodList /\ new.mpsPodList = info.mpsPodList \cup {r}
      /\ new.usage = info.usage /\ new.usageMem = info.usageMem + MemOf[req.key]
  BY DEF WithMPSPod, GPUDevInfo
<1>4. /\ info.usageMem \in Int /\ info.fastPodList \in SUBSET FastPodReq
      /\ info.mpsPodList \in SUBSET MPSPodReq
  BY DEF GPUDevInfo
<1>. HIDE DEF new, r
<1>5. /\ IsFiniteSet(info.mpsPodList \cup {r})
      /\ Total(MPSPodMem, info.mpsPodList) \in Int
      /\ Total(MPSPodMem, info.mpsPodList \cup {r}) = Total(MPSPodMem, info.mpsPodList) + MemOf[req.key]
  BY <1>2, <1>4, SummandsAre, ListTotals DEF ListsFinite
<1>6. Total(FastPodMem, info.fastPodList) \in Int
  BY <1>4, SummandsAre, TotalWithout DEF ListsFinite
<1>7. Balanced(info) => Balanced(new)
  BY <1>1, <1>3, <1>4, <1>5, <1>6 DEF Balanced
<1>. QED BY <1>3, <1>5, <1>7 DEF Keeps, ListsFinite, new

\* A FastPod that is booked where it is not recorded.
LEMMA FastPodBooked ==
    ASSUME NEW info \in GPUDevInfo, ListsFinite(info), NEW req \in ResourceRequest,
           NEW port \in Positions, ~FindInQueue(req.key, info.fastPodList)
    PROVE  Keeps(info, WithFastPod(info, req, port))
<1>. DEFINE new == WithFastPod(info, req, port)
            r == NewFastPodReq(req, port)
<1>1. req.key \in Pods /\ req.use \in Uses /\ req.use \in Nat /\ MemOf[req.key] \in Nat
  BY RequestFacts
<1>2. /\ r \in FastPodReq /\ Shares[r] = req.use /\ FastPodMem[r] = MemOf[req.key]
      /\ r \notin info.fastPodList
  BY <1>1 DEF FastPodReq, Shares, FastPodMem, NewFastPodReq, FindInQueue
<1>3. /\ new.fastPodList = info.fastPodList \cup {r} /\ new.mpsPodList = info.mpsPodList
      /\ new.usage = info.usage + req.use /\ new.usageMem = info.usageMem + MemOf[req.key]
  BY DEF WithFastPod, GPUDevInfo
<1>4. /\ info.usageMem \in Int /\ info.usage \in Int /\ info.fastPodList \in SUBSET FastPodReq
      /\ info.mpsPodList \in SUBSET MPSPodReq
  BY DEF GPUDevInfo
<1>. HIDE DEF new, r
<1>5. /\ IsFiniteSet(info.fastPodList \cup {r})
      /\ Total(Shares, info.fastPodList) \in Int
      /\ Total(Shares, info.fastPodList \cup {r}) = Total(Shares, info.fastPodList) + req.use
  <2>1. IsFiniteSet(info.fastPodList)
    BY DEF ListsFinite
  <2>2. /\ IsFiniteSet(info.fastPodList \cup {r}) /\ Total(Shares, info.fastPodList) \in Int
        /\ Total(Shares, info.fastPodList \cup {r}) = Total(Shares, info.fastPodList) + Shares[r]
    BY <1>2, <1>4, <2>1, SummandsAre, ListTotals
  <2>. QED BY <1>2, <2>2
<1>6. /\ Total(FastPodMem, info.fastPodList) \in Int
      /\ Total(FastPodMem, info.fastPodList \cup {r})
            = Total(FastPodMem, info.fastPodList) + MemOf[req.key]
  BY <1>2, <1>4, SummandsAre, ListTotals DEF ListsFinite
<1>7. Total(MPSPodMem, info.mpsPodList) \in Int
  BY <1>4, SummandsAre, TotalWithout DEF ListsFinite
<1>8. Balanced(info) => Balanced(new)
  BY <1>1, <1>3, <1>4, <1>5, <1>6, <1>7 DEF Balanced
<1>. QED BY <1>3, <1>5, <1>8 DEF Keeps, ListsFinite, new

\* A removal subtracts what the booking has added.
LEMMA RemovalBooked ==
    ASSUME NEW info \in GPUDevInfo, ListsFinite(info), NEW p \in Pods, TypeOf[p] # "Exclusive"
    PROVE  Keeps(info, Without(p, info))
<1>. DEFINE new == Without(p, info)
<1>1. /\ info.usageMem \in Int /\ info.usage \in Int /\ info.fastPodList \in SUBSET FastPodReq
      /\ info.mpsPodList \in SUBSET MPSPodReq
  BY DEF GPUDevInfo
<1>2. /\ Total(MPSPodMem, info.mpsPodList) \in Int
      /\ Total(FastPodMem, info.fastPodList) \in Int
      /\ Total(Shares, info.fastPodList) \in Int
  BY <1>1, SummandsAre, TotalWithout DEF ListsFinite
<1>3. CASE InFastPodList(p, info)
  <2>. DEFINE r == ReqOf(p, info.fastPodList)
  <2>1. r \in info.fastPodList /\ r \in FastPodReq
    BY <1>1, <1>3, FoundReq DEF InFastPodList
  <2>2. new = [info EXCEPT !.fastPodList = @ \ {r}, !.usage = @ - r.use, !.usageMem = @ - r.mem]
    <3>1. ~InMPSPodList(p, info)
      BY <1>3 DEF InFastPodList, InMPSPodList
    <3>. QED BY <3>1, <1>3 DEF Without
  <2>3. Shares[r] = r.use /\ FastPodMem[r] = r.mem
    BY <2>1 DEF Shares, FastPodMem
  <2>. HIDE DEF r, new
  <2>4. /\ new.fastPodList = info.fastPodList \ {r} /\ new.mpsPodList = info.mpsPodList
        /\ new.usage = info.usage - r.use /\ new.usageMem = info.usageMem - r.mem
    BY <2>2 DEF GPUDevInfo
  <2>5. /\ IsFiniteSet(info.fastPodList \ {r}) /\ r.use \in Int
        /\ Total(Shares, info.fastPodList \ {r}) = Total(Shares, info.fastPodList) - r.use
    <3>1. IsFiniteSet(info.fastPodList)
      BY DEF ListsFinite
    <3>2. /\ IsFiniteSet(info.fastPodList \ {r}) /\ Shares[r] \in Int
          /\ Total(Shares, info.fastPodList \ {r}) = Total(Shares, info.fastPodList) - Shares[r]
      <4>1. Shares \in [FastPodReq -> Int]
        BY SummandsAre
      <4>2. /\ IsFiniteSet(info.fastPodList \ {r}) /\ Shares[r] \in Int
            /\ r \in info.fastPodList =>
                  Total(Shares, info.fastPodList \ {r}) = Total(Shares, info.fastPodList) - Shares[r]
        BY <1>1, <2>1, <3>1, <4>1, ListTotals
      <4>. QED BY <2>1, <4>2, Zenon
    <3>. QED BY <2>3, <3>2
  <2>6. /\ r.mem \in Int
        /\ Total(FastPodMem, info.fastPodList \ {r}) = Total(FastPodMem, info.fastPodList) - r.mem
    BY <1>1, <2>1, <2>3, SummandsAre, ListTotals DEF ListsFinite
  <2>7. Balanced(info) => Balanced(new)
    BY <1>1, <1>2, <2>4, <2>5, <2>6 DEF Balanced
  <2>. QED BY <2>4, <2>5, <2>7 DEF Keeps, ListsFinite, new
<1>4. CASE InMPSPodList(p, info)
  <2>. DEFINE r == ReqOf(p, info.mpsPodList)
  <2>1. r \in info.mpsPodList /\ r \in MPSPodReq
    BY <1>1, <1>4, FoundReq DEF InMPSPodList
  <2>2. new = [info EXCEPT !.mpsPodList = @ \ {r}, !.usageMem = @ - r.mem]
    <3>1. ~InFastPodList(p, info)
      BY <1>4 DEF InFastPodList, InMPSPodList
    <3>. QED BY <3>1, <1>4 DEF Without
  <2>3. MPSPodMem[r] = r.mem
    BY <2>1 DEF MPSPodMem
  <2>. HIDE DEF r, new
  <2>4. /\ new.fastPodList = info.fastPodList /\ new.mpsPodList = info.mpsPodList \ {r}
        /\ new.usage = info.usage /\ new.usageMem = info.usageMem - r.mem
    BY <2>2 DEF GPUDevInfo
  <2>5. /\ IsFiniteSet(info.mpsPodList \ {r}) /\ r.mem \in Int
        /\ Total(MPSPodMem, info.mpsPodList \ {r}) = Total(MPSPodMem, info.mpsPodList) - r.mem
    BY <1>1, <2>1, <2>3, SummandsAre, ListTotals DEF ListsFinite
  <2>6. Balanced(info) => Balanced(new)
    BY <1>1, <1>2, <2>4, <2>5 DEF Balanced
  <2>. QED BY <2>4, <2>5, <2>6 DEF Keeps, ListsFinite, new
<1>5. CASE ~InFastPodList(p, info) /\ ~InMPSPodList(p, info)
  <2>1. new = info
    BY <1>5 DEF Without
  <2>. QED BY <2>1 DEF Keeps, new
<1>. QED BY <1>3, <1>4, <1>5

\* Where each entry is kept or balanced, the books of all are.
LEMMA BalanceStep ==
    ASSUME FiniteLists,
           \A h \in DOMAIN vGPUID2GPU' :
               \/ h \in DOMAIN vGPUID2GPU /\ Keeps(vGPUID2GPU[h], vGPUID2GPU'[h])
               \/ ListsFinite(vGPUID2GPU'[h]) /\ Balanced(vGPUID2GPU'[h])
    PROVE  FiniteLists' /\ (Accounted => Accounted')
<1>1. FiniteLists'
  BY DEF FiniteLists, Keeps
<1>2. Accounted => Accounted'
  BY DEF Accounted, Keeps
<1>. QED BY <1>1, <1>2

\* A write of one entry that keeps its books.
LEMMA SetBalance ==
    ASSUME LedgerInv, FiniteLists, NEW g \in GPUs, NEW info \in GPUDevInfo,
           vGPUID2GPU' = Set(g, info),
           \/ g \in DOMAIN vGPUID2GPU /\ Keeps(vGPUID2GPU[g], info)
           \/ ListsFinite(info) /\ Balanced(info)
    PROVE  FiniteLists' /\ (Accounted => Accounted')
<1>1. /\ DOMAIN vGPUID2GPU' = DOMAIN vGPUID2GPU \cup {g}
      /\ vGPUID2GPU'[g] = info
      /\ \A h \in DOMAIN vGPUID2GPU \ {g} : vGPUID2GPU'[h] = vGPUID2GPU[h]
  <2>1. DOMAIN vGPUID2GPU \subseteq GPUs /\ vGPUID2GPU \in [DOMAIN vGPUID2GPU -> GPUDevInfo]
    BY DEF LedgerInv, TypeOK
  <2>. QED BY <2>1, SetEntry
<1>2. \A h \in DOMAIN vGPUID2GPU : Keeps(vGPUID2GPU[h], vGPUID2GPU[h])
  BY DEF FiniteLists, Keeps
<1>. QED BY <1>1, <1>2, BalanceStep

\* A deletion keeps the books of the others.
LEMMA DeleteBalance ==
    ASSUME LedgerInv, FiniteLists, NEW g \in GPUs, vGPUID2GPU' = Delete(g)
    PROVE  FiniteLists' /\ (Accounted => Accounted')
<1>1. /\ DOMAIN vGPUID2GPU' = DOMAIN vGPUID2GPU \ {g}
      /\ \A h \in DOMAIN vGPUID2GPU \ {g} : vGPUID2GPU'[h] = vGPUID2GPU[h]
  BY DeleteEntry DEF LedgerInv, TypeOK
<1>2. \A h \in DOMAIN vGPUID2GPU : Keeps(vGPUID2GPU[h], vGPUID2GPU[h])
  BY DEF FiniteLists, Keeps
<1>. QED BY <1>1, <1>2, BalanceStep

\* A process that ends has no books.
LEMMA LossBalance ==
    ASSUME FiniteLists, LoseMemory
    PROVE  FiniteLists' /\ (Accounted => Accounted')
<1>1. DOMAIN vGPUID2GPU' = {}
  BY DEF LoseMemory, NoGPUs
<1>. QED BY <1>1, BalanceStep

\* A step that leaves the map alone leaves the books alone.
LEMMA QuietBalance ==
    ASSUME FiniteLists, UNCHANGED vGPUID2GPU
    PROVE  FiniteLists' /\ (Accounted => Accounted')
<1>1. \A h \in DOMAIN vGPUID2GPU : Keeps(vGPUID2GPU[h], vGPUID2GPU[h])
  BY DEF FiniteLists, Keeps
<1>. QED BY <1>1, BalanceStep

\* ScheduleRequest books nothing.
LEMMA ScheduleBalance ==
    ASSUME LedgerInv, FiniteLists, NEW req \in ResourceRequest, ScheduleRequest(req)
    PROVE  FiniteLists' /\ (Accounted => Accounted')
<1>. DEFINE g == GpuOf[req.key]
<1>1. CASE vGPUID2GPU' = Set(g, Selected(g))
  <2>1. g \in GPUs /\ Selected(g) \in GPUDevInfo
    BY RequestFacts, SelectedOK DEF InfoOK
  <2>2. CASE g \in DOMAIN vGPUID2GPU
    <3>1. Keeps(vGPUID2GPU[g], Selected(g))
      BY <2>2 DEF Selected, FiniteLists, Keeps
    <3>. QED BY <1>1, <2>1, <2>2, <3>1, SetBalance
  <2>3. CASE g \notin DOMAIN vGPUID2GPU
    <3>1. ListsFinite(Selected(g)) /\ Balanced(Selected(g))
      BY <2>3, FreshBalanced DEF Selected
    <3>. QED BY <1>1, <2>1, <3>1, SetBalance
  <2>. QED BY <2>2, <2>3
<1>2. CASE LoseMemory
  BY <1>2, LossBalance
<1>3. CASE UNCHANGED vGPUID2GPU
  BY <1>3, QuietBalance
<1>. QED BY <1>1, <1>2, <1>3
     DEF ScheduleRequest, ScheduleOk, ScheduleNoFit, SchedulePanic, ScheduleNoGPU, Panic, ledgerVars

\* The entry that RequestGPUAndUpdateConfig works on has the books of the recorded one, and what it becomes keeps them.
LEMMA PendingBalance ==
    ASSUME LedgerInv, FiniteLists, NEW req \in selections, GpuOf[req.key] \in DOMAIN vGPUID2GPU,
           NEW new \in GPUDevInfo, vGPUID2GPU' = Set(GpuOf[req.key], new),
           Keeps(Typed(vGPUID2GPU[GpuOf[req.key]], req.key), new)
    PROVE  FiniteLists' /\ (Accounted => Accounted')
<1>. DEFINE g == GpuOf[req.key]
<1>1. req \in ResourceRequest /\ g \in GPUs /\ InfoOK(vGPUID2GPU[g])
  BY PendingFacts
<1>2. Keeps(vGPUID2GPU[g], Typed(vGPUID2GPU[g], req.key))
  <2>1. req.key \in Pods
    BY <1>1, RequestFacts
  <2>2. ListsFinite(vGPUID2GPU[g])
    BY DEF FiniteLists
  <2>. QED BY <1>1, <2>1, <2>2, TypedOK, SameBalance
<1>3. Keeps(vGPUID2GPU[g], new)
  BY <1>2 DEF Keeps
<1>. QED BY <1>1, <1>3, SetBalance

\* RequestGPUAndUpdateConfig adds to the usage and the memory what it adds to a list.
LEMMA RequestBalance ==
    ASSUME LedgerInv, FiniteLists, NEW req \in ResourceRequest, RequestGPUAndUpdateConfig(req)
    PROVE  FiniteLists' /\ (Accounted => Accounted')
<1>. DEFINE g == GpuOf[req.key]
            info == Typed(vGPUID2GPU[g], req.key)
<1>1. ASSUME req \in selections, g \in DOMAIN vGPUID2GPU
      PROVE  /\ InfoOK(info) /\ info \in GPUDevInfo /\ ListsFinite(info)
             /\ info.allocationType = TypeOf[req.key]
  <2>1. /\ InfoOK(info)
        /\ info.fastPodList = vGPUID2GPU[g].fastPodList /\ info.mpsPodList = vGPUID2GPU[g].mpsPodList
        /\ info.allocationType = TypeOf[req.key]
    BY <1>1, PendingFacts
  <2>. QED BY <1>1, <2>1 DEF FiniteLists, ListsFinite, InfoOK
<1>2. CASE RequestExceeds(req) \/ RequestFastPodAgain(req)
  <2>1. req \in selections /\ g \in DOMAIN vGPUID2GPU /\ vGPUID2GPU' = Set(g, info)
    BY <1>2 DEF RequestExceeds, RequestFastPodAgain, Pending
  <2>2. info \in GPUDevInfo /\ Keeps(info, info)
    BY <1>1, <2>1 DEF Keeps
  <2>. QED BY <2>1, <2>2, PendingBalance
<1>3. CASE RequestMPS(req)
  <2>1. /\ req \in selections /\ g \in DOMAIN vGPUID2GPU
        /\ vGPUID2GPU' = Set(g, WithMPSPod(info, req))
        /\ TypeOf[req.key] = "MPS" /\ ~WrongElement(req, info) /\ ~Exceeds(req, info)
    BY <1>3 DEF RequestMPS, Pending
  <2>2. info.mpsPodList = {}
    BY <2>1 DEF WrongElement
  <2>3. InfoOK(info) /\ info \in GPUDevInfo /\ ListsFinite(info) /\ info.allocationType = "MPS"
    BY <1>1, <2>1
  <2>. HIDE DEF info
  <2>4. info.usageMem + MemOf[req.key] <= info.mem
    <3>1. ~(info.usageMem + MemOf[req.key] > info.mem)
      BY <2>1 DEF Exceeds
    <3>2. info.usageMem \in Int /\ info.mem \in Int /\ MemOf[req.key] \in Int
      BY <2>3, RequestFacts DEF GPUDevInfo
    <3>. QED BY <3>1, <3>2
  <2>5. WithMPSPod(info, req) \in GPUDevInfo
    BY <2>3, <2>4, AddMPSOK DEF InfoOK
  <2>6. Keeps(info, WithMPSPod(info, req))
    BY <2>2, <2>3, MPSPodBooked
  <2>. QED BY <2>1, <2>5, <2>6, PendingBalance DEF info
<1>4. CASE RequestExclusive(req)
  <2>. DEFINE new == [info EXCEPT !.exclusivePod = req.key]
  <2>1. req \in selections /\ g \in DOMAIN vGPUID2GPU /\ vGPUID2GPU' = Set(g, new)
        /\ TypeOf[req.key] = "Exclusive"
    BY <1>4 DEF RequestExclusive, Pending
  <2>2. InfoOK(info) /\ info \in GPUDevInfo /\ ListsFinite(info) /\ info.allocationType = "Exclusive"
    BY <1>1, <2>1
  <2>. HIDE DEF info
  <2>3. new \in GPUDevInfo
    BY <2>2, RequestFacts, AddExclusiveOK DEF InfoOK
  <2>4. /\ new.fastPodList = info.fastPodList /\ new.mpsPodList = info.mpsPodList
        /\ new.usage = info.usage /\ new.usageMem = info.usageMem
    BY <2>2 DEF GPUDevInfo
  <2>. HIDE DEF new
  <2>5. Keeps(info, new)
    BY <2>2, <2>4, SameBalance
  <2>. QED BY <2>1, <2>3, <2>5, PendingBalance DEF info
<1>5. CASE RequestFastPod(req)
  <2>1. /\ req \in selections /\ g \in DOMAIN vGPUID2GPU
        /\ TypeOf[req.key] = "FastPod" /\ ~FindInQueue(req.key, info.fastPodList) /\ ~Exceeds(req, info)
        /\ \E port \in Positions : vGPUID2GPU' = Set(g, WithFastPod(info, req, port))
    BY <1>5 DEF RequestFastPod, Pending
  <2>2. PICK port \in Positions : vGPUID2GPU' = Set(g, WithFastPod(info, req, port))
    BY <2>1
  <2>3. InfoOK(info) /\ info \in GPUDevInfo /\ ListsFinite(info) /\ info.allocationType = "FastPod"
    BY <1>1, <2>1
  <2>. HIDE DEF info
  <2>4. info.usageMem + MemOf[req.key] <= info.mem /\ info.usage + req.use <= Cap
    <3>1. ~(info.usageMem + MemOf[req.key] > info.mem) /\ ~(info.usage + req.use > Cap)
      BY <2>1 DEF Exceeds
    <3>2. /\ info.usageMem \in Int /\ info.mem \in Int /\ info.usage \in Int
          /\ MemOf[req.key] \in Int /\ req.use \in Int /\ Cap \in Int
      BY <2>3, RequestFacts DEF GPUDevInfo
    <3>. QED BY <3>1, <3>2
  <2>5. WithFastPod(info, req, port) \in GPUDevInfo
    BY <2>3, <2>4, AddFastPodOK DEF InfoOK
  <2>6. Keeps(info, WithFastPod(info, req, port))
    BY <2>1, <2>3, FastPodBooked
  <2>. QED BY <2>1, <2>2, <2>5, <2>6, PendingBalance DEF info
<1>6. CASE RequestNoGPU(req)
  BY <1>6, QuietBalance DEF RequestNoGPU
<1>7. CASE RequestPanic(req) \/ RequestRpcPanic(req)
  BY <1>7, LossBalance DEF RequestPanic, RequestRpcPanic
<1>. QED BY <1>2, <1>3, <1>4, <1>5, <1>6, <1>7
     DEF RequestGPUAndUpdateConfig, RequestRecorded, RequestRefused

\* The two removals subtract what they take out of a list, or drop the entry.
LEMMA RemoveBalance ==
    ASSUME LedgerInv, FiniteLists, NEW p \in Pods, removePodFromList(p) \/ removeFaSTPodFromList(p)
    PROVE  FiniteLists' /\ (Accounted => Accounted')
<1>. DEFINE g == GpuOf[p]
<1>1. g \in GPUs
  BY PodFacts
<1>2. CASE RemoveShrinks(p)
  <2>1. /\ g \in DOMAIN vGPUID2GPU /\ TypeOf[p] # "Exclusive"
        /\ vGPUID2GPU' = Set(g, Without(p, vGPUID2GPU[g]))
    BY <1>2 DEF RemoveShrinks, Recorded, LastOfItsType
  <2>2. InfoOK(vGPUID2GPU[g]) /\ vGPUID2GPU[g] \in GPUDevInfo /\ ListsFinite(vGPUID2GPU[g])
    BY <2>1 DEF LedgerInv, EntriesOK, InfoOK, FiniteLists
  <2>3. Without(p, vGPUID2GPU[g]) \in GPUDevInfo
    BY <2>1, <2>2, WithoutOK DEF InfoOK
  <2>4. Keeps(vGPUID2GPU[g], Without(p, vGPUID2GPU[g]))
    BY <2>1, <2>2, RemovalBooked
  <2>. QED BY <1>1, <2>1, <2>3, <2>4, SetBalance
<1>3. CASE RemoveLast(p) \/ RemoveLastOfFaSTPod(p)
  <2>1. vGPUID2GPU' = Delete(g)
    BY <1>3 DEF RemoveLast, RemoveLastOfFaSTPod
  <2>. QED BY <1>1, <2>1, DeleteBalance
<1>4. CASE RemovePanic(p) \/ RemoveRpcPanic(p)
  BY <1>4, LossBalance DEF RemovePanic, RemoveRpcPanic, Panic
<1>5. CASE RemoveAbsent(p)
  BY <1>5, QuietBalance DEF RemoveAbsent, ledgerVars
<1>. QED BY <1>2, <1>3, <1>4, <1>5 DEF removePodFromList, removeFaSTPodFromList

\* A re-configuration leaves the lists finite.
LEMMA ReconfigBalance ==
    ASSUME LedgerInv, FiniteLists, NEW p \in Pods, NEW use \in Uses, reconcileResourceConfig(p, use)
    PROVE  FiniteLists'
<1>. DEFINE g == GpuOf[p]
            info == vGPUID2GPU[g]
            req == ReqOf(p, info.fastPodList)
            new == WithUse(info, req, use)
            req2 == [req EXCEPT !.use = use]
<1>1. g \in DOMAIN vGPUID2GPU /\ vGPUID2GPU' = Set(g, new)
  BY DEF reconcileResourceConfig, Recorded
<1>2. info \in GPUDevInfo /\ ListsFinite(info)
  BY <1>1 DEF LedgerInv, EntriesOK, InfoOK, FiniteLists
<1>. HIDE DEF info, req
<1>3. new.fastPodList = (info.fastPodList \ {req}) \cup {req2} /\ new.mpsPodList = info.mpsPodList
  BY <1>2 DEF WithUse, GPUDevInfo
<1>. HIDE DEF new, req2
<1>4. ListsFinite(new)
  <2>1. IsFiniteSet(info.fastPodList \ {req})
    BY <1>2, FS_RemoveElement DEF ListsFinite
  <2>2. IsFiniteSet((info.fastPodList \ {req}) \cup {req2})
    BY <2>1, FS_AddElement
  <2>. QED BY <1>2, <1>3, <2>2 DEF ListsFinite
<1>5. \A h \in DOMAIN vGPUID2GPU' :
         \/ vGPUID2GPU'[h] = new
         \/ h \in DOMAIN vGPUID2GPU /\ vGPUID2GPU'[h] = vGPUID2GPU[h]
  BY <1>1 DEF Set
<1>. QED BY <1>4, <1>5 DEF FiniteLists

\* No step but a re-configuration upsets the books.
LEMMA NextBalance ==
    ASSUME LedgerInv, FiniteLists, [LedgerNext]_ledgerVars
    PROVE  /\ FiniteLists'
           /\ \/ Accounted => Accounted'
              \/ \E p \in Pods, use \in Uses : reconcileResourceConfig(p, use)
<1>1. CASE \/ Crash \/ Restart \/ handleNodeConnection
           \/ \E g \in GPUs : Provision(g) \/ ReleaseByFastFunc(g)
  <2>1. LoseMemory \/ UNCHANGED vGPUID2GPU
    BY <1>1 DEF Crash, Panic, Restart, handleNodeConnection, Provision, ReleaseByFastFunc
  <2>. QED BY <2>1, LossBalance, QuietBalance
<1>2. ASSUME NEW req \in ResourceRequest, ScheduleRequest(req) \/ RequestGPUAndUpdateConfig(req)
      PROVE  FiniteLists' /\ (Accounted => Accounted')
  BY <1>2, ScheduleBalance, RequestBalance
<1>3. ASSUME NEW p \in Pods, removePodFromList(p) \/ removeFaSTPodFromList(p)
      PROVE  FiniteLists' /\ (Accounted => Accounted')
  BY <1>3, RemoveBalance
<1>4. ASSUME NEW p \in Pods, NEW use \in Uses, reconcileResourceConfig(p, use)
      PROVE  FiniteLists'
  BY <1>4, ReconfigBalance
<1>5. CASE UNCHANGED ledgerVars
  BY <1>5, QuietBalance DEF ledgerVars
<1>. QED BY <1>1, <1>2, <1>3, <1>4, <1>5 DEF LedgerNext

\* Whatever is booked and removed, in any order, the usage and the memory of a GPU stay the sums over its lists; only re-configurations change a share and not the usage.
THEOREM BooksAlwaysBalanced == LedgerSpec => BooksStayBalanced
<1>1. LedgerInit => FiniteLists
  BY DEF LedgerInit, NoGPUs, FiniteLists
<1>2. LedgerInv /\ FiniteLists /\ [LedgerNext]_ledgerVars =>
        /\ FiniteLists'
        /\ [\/ Accounted => Accounted'
            \/ \E p \in Pods, use \in Uses : reconcileResourceConfig(p, use)]_ledgerVars
  BY NextBalance
<1>. QED BY <1>1, <1>2, LedgerInvariance, PTL DEF LedgerSpec, BooksStayBalanced
=============================================================================
