---------------------------- MODULE BookingProofs ----------------------------
(***************************************************************************)
(* What each step of the GPU ledger does to the bookings of pods, for any  *)
(* set of pods, GPUs and ports: the lemmas on which the proofs about the   *)
(* controller rest.                                                        *)
(***************************************************************************)
EXTENDS FaSTPodController, GpuLedgerProofs

\* The lists of an entry hold pods of their own type, each of them once.
InfoBooks(info) ==
    /\ \A r \in info.fastPodList : TypeOf[r.key] = "FastPod"
    /\ \A r \in info.mpsPodList : TypeOf[r.key] = "MPS"
    /\ info.exclusivePod # NoPod => TypeOf[info.exclusivePod] = "Exclusive"
    /\ \A r, s \in info.fastPodList : r.key = s.key => r = s
    /\ \A r, s \in info.mpsPodList : r.key = s.key => r = s

\* A ledger with an entry belongs to a node that has connected.
KnownNode == DOMAIN vGPUID2GPU # {} => registered

BookInv == KnownNode /\ \A g \in DOMAIN vGPUID2GPU : InfoBooks(vGPUID2GPU[g])

\* What a step does to the bookings: none is changed.
KeepsBookings == \A q \in Pods : Booked(q)' <=> Booked(q)

-----------------------------------------------------------------------------
\* The pods of an entry, list by list.
LEMMA KeysOfInfo ==
    ASSUME NEW info, NEW q
    PROVE  q \in Keys(info) <=> \/ \E r \in info.fastPodList : r.key = q
                                \/ \E r \in info.mpsPodList : r.key = q
                                \/ q = info.exclusivePod /\ q # NoPod
  BY DEF Keys

\* A pod that is booked on a GPU is in the list of its type.
LEMMA BookedInList ==
    ASSUME NEW info \in GPUDevInfo, InfoBooks(info), NEW q \in Pods, q \in Keys(info)
    PROVE  /\ TypeOf[q] = "FastPod" => InFastPodList(q, info)
           /\ TypeOf[q] = "MPS" => InMPSPodList(q, info)
           /\ TypeOf[q] = "Exclusive" => info.exclusivePod = q
<1>1. CASE \E r \in info.fastPodList : r.key = q
  BY <1>1 DEF InfoBooks, InFastPodList, FindInQueue
<1>2. CASE \E r \in info.mpsPodList : r.key = q
  BY <1>2 DEF InfoBooks, InMPSPodList, FindInQueue
<1>3. CASE q = info.exclusivePod /\ q # NoPod
  BY <1>3 DEF InfoBooks
<1>. QED BY <1>1, <1>2, <1>3, KeysOfInfo

\* A write of one entry changes the bookings on its GPU only (the Go assignment vGPUID2GPU[g] = info).
LEMMA SetBooks ==
    ASSUME BookInv, NEW g, NEW info, InfoBooks(info), vGPUID2GPU' = Set(g, info), registered'
    PROVE  /\ BookInv'
           /\ \A q \in Pods : GpuOf[q] # g => (Booked(q)' <=> Booked(q))
           /\ \A q \in Pods : GpuOf[q] = g => (Booked(q)' <=> q \in Keys(info))
<1>1. /\ DOMAIN vGPUID2GPU' = DOMAIN vGPUID2GPU \cup {g}
      /\ vGPUID2GPU'[g] = info
      /\ \A h \in DOMAIN vGPUID2GPU \ {g} : vGPUID2GPU'[h] = vGPUID2GPU[h]
  BY DEF Set
<1>2. BookInv'
  BY <1>1 DEF BookInv, KnownNode, InfoBooks
<1>3. ASSUME NEW q \in Pods, GpuOf[q] # g
      PROVE  Booked(q)' <=> Booked(q)
  BY <1>1, <1>3 DEF Booked, Keys
<1>4. ASSUME NEW q \in Pods, GpuOf[q] = g
      PROVE  Booked(q)' <=> q \in Keys(info)
  BY <1>1, <1>4 DEF Booked, Keys
<1>. QED BY <1>2, <1>3, <1>4

\* An entry with the same pods in its lists as before, or a first one without any.
LEMMA SetSameBooks ==
    ASSUME BookInv, NEW g, NEW info, vGPUID2GPU' = Set(g, info), registered',
           g \in DOMAIN vGPUID2GPU => /\ info.fastPodList = vGPUID2GPU[g].fastPodList
                                      /\ info.mpsPodList = vGPUID2GPU[g].mpsPodList
                                      /\ info.exclusivePod = vGPUID2GPU[g].exclusivePod,
           g \notin DOMAIN vGPUID2GPU => /\ info.fastPodList = {}
                                         /\ info.mpsPodList = {}
                                         /\ info.exclusivePod = NoPod
    PROVE  BookInv' /\ KeepsBookings
<1>1. InfoBooks(info)
  BY DEF InfoBooks, BookInv
<1>2. /\ BookInv'
      /\ \A q \in Pods : GpuOf[q] # g => (Booked(q)' <=> Booked(q))
      /\ \A q \in Pods : GpuOf[q] = g => (Booked(q)' <=> q \in Keys(info))
  BY <1>1, SetBooks
<1>3. ASSUME NEW q \in Pods, GpuOf[q] = g
      PROVE  Booked(q) <=> q \in Keys(info)
  BY <1>3 DEF Booked, Keys
<1>. QED BY <1>2, <1>3 DEF KeepsBookings

\* A panic or a crash leaves no booking.
LEMMA LoseMemoryBooks ==
    ASSUME LoseMemory
    PROVE  BookInv' /\ \A q \in Pods : ~Booked(q)'
<1>1. DOMAIN vGPUID2GPU' = {}
  BY DEF LoseMemory, NoGPUs
<1>. QED BY <1>1 DEF BookInv, KnownNode, Booked

-----------------------------------------------------------------------------
\* ScheduleRequest books nothing.
LEMMA ScheduleBooks ==
    ASSUME BookInv, NEW req, ScheduleOk(req) \/ ScheduleNoFit(req)
    PROVE  BookInv' /\ KeepsBookings
<1>. DEFINE g == GpuOf[req.key]
<1>1. vGPUID2GPU' = Set(g, Selected(g)) /\ registered'
  BY DEF ScheduleOk, ScheduleNoFit
<1>2. /\ FreshGPU(g).fastPodList = {} /\ FreshGPU(g).mpsPodList = {}
      /\ FreshGPU(g).exclusivePod = NoPod
  BY DEF FreshGPU
<1>3. CASE g \in DOMAIN vGPUID2GPU
  <2>1. Selected(g) = vGPUID2GPU[g]
    BY <1>3 DEF Selected
  <2>. QED BY <1>1, <1>3, <2>1, SetSameBooks
<1>4. CASE g \notin DOMAIN vGPUID2GPU
  <2>1. Selected(g) = FreshGPU(g)
    BY <1>4 DEF Selected
  <2>. QED BY <1>1, <1>2, <1>4, <2>1, SetSameBooks
<1>. QED BY <1>3, <1>4

\* A refused request books nothing.
LEMMA RefusedBooks ==
    ASSUME LedgerInv, BookInv, NEW req \in ResourceRequest, RequestRefused(req)
    PROVE  BookInv' /\ KeepsBookings
<1>. DEFINE g == GpuOf[req.key]
<1>1. CASE RequestNoGPU(req)
  BY <1>1 DEF RequestNoGPU, BookInv, KnownNode, KeepsBookings, Booked
<1>2. CASE RequestExceeds(req)
  <2>1. /\ g \in DOMAIN vGPUID2GPU /\ registered'
        /\ vGPUID2GPU' = Set(g, Typed(vGPUID2GPU[g], req.key))
    BY <1>2 DEF RequestExceeds, BookInv, KnownNode
  <2>2. InfoOK(vGPUID2GPU[g]) /\ req.key \in Pods
    BY <2>1, RequestFacts DEF LedgerInv, EntriesOK
  <2>3. /\ Typed(vGPUID2GPU[g], req.key).fastPodList = vGPUID2GPU[g].fastPodList
        /\ Typed(vGPUID2GPU[g], req.key).mpsPodList = vGPUID2GPU[g].mpsPodList
        /\ Typed(vGPUID2GPU[g], req.key).exclusivePod = vGPUID2GPU[g].exclusivePod
    BY <2>2, TypedOK
  <2>. QED BY <2>1, <2>3, SetSameBooks
<1>. QED BY <1>1, <1>2 DEF RequestRefused

\* What RequestGPUAndUpdateConfig does to the bookings when it records a pod.
Books(p) ==
    /\ BookInv'
    /\ Booked(p)'
    /\ \A q \in Pods \ {p} : Booked(q)' => Booked(q)
    /\ \A q \in Pods : Booked(q) => Booked(q)'

\* A write that adds pod p to the lists of the entry of its GPU.
LEMMA AddBooks ==
    ASSUME BookInv, NEW p \in Pods, GpuOf[p] \in DOMAIN vGPUID2GPU, NEW info, InfoBooks(info),
           vGPUID2GPU' = Set(GpuOf[p], info), registered',
           p \in Keys(info),
           \A q \in Pods \ {p} : q \in Keys(info) => q \in Keys(vGPUID2GPU[GpuOf[p]]),
           \A q \in Pods : q \in Keys(vGPUID2GPU[GpuOf[p]]) => q \in Keys(info)
    PROVE  Books(p)
<1>. DEFINE g == GpuOf[p]
<1>1. /\ BookInv'
      /\ \A q \in Pods : GpuOf[q] # g => (Booked(q)' <=> Booked(q))
      /\ \A q \in Pods : GpuOf[q] = g => (Booked(q)' <=> q \in Keys(info))
  BY SetBooks
<1>2. \A q \in Pods : GpuOf[q] = g => (Booked(q) <=> q \in Keys(vGPUID2GPU[g]))
  BY DEF Booked
<1>. QED BY <1>1, <1>2 DEF Books

\* An MPS pod is recorded.
LEMMA MPSBooks ==
    ASSUME LedgerInv, BookInv, NEW req, RequestMPS(req)
    PROVE  Books(req.key)
<1>. DEFINE g == GpuOf[req.key]
            info == Typed(vGPUID2GPU[g], req.key)
            new == WithMPSPod(info, req)
<1>1. /\ req \in selections /\ g \in DOMAIN vGPUID2GPU /\ registered'
      /\ TypeOf[req.key] = "MPS" /\ ~WrongElement(req, info)
      /\ vGPUID2GPU' = Set(g, new)
  BY DEF RequestMPS, Pending, BookInv, KnownNode
<1>2. /\ req \in ResourceRequest /\ req.key \in Pods
      /\ InfoOK(vGPUID2GPU[g]) /\ InfoOK(info)
      /\ info.fastPodList = vGPUID2GPU[g].fastPodList
      /\ info.mpsPodList = vGPUID2GPU[g].mpsPodList
  BY <1>1, PendingFacts, RequestFacts
<1>3. info.exclusivePod = vGPUID2GPU[g].exclusivePod
  BY <1>2, TypedOK
<1>4. info \in GPUDevInfo /\ InfoBooks(vGPUID2GPU[g])
  BY <1>1, <1>2 DEF InfoOK, BookInv
<1>5. info.mpsPodList = {}
  BY <1>1 DEF WrongElement
<1>. HIDE DEF info
<1>6. /\ new.fastPodList = info.fastPodList
      /\ new.mpsPodList = info.mpsPodList \cup {[key |-> req.key, mem |-> MemOf[req.key]]}
      /\ new.exclusivePod = info.exclusivePod
  <2>1. PICK x : x = new
    OBVIOUS
  <2>2. x = [info EXCEPT !.usageMem = @ + MemOf[req.key],
                  !.mpsPodList = @ \cup {[key |-> req.key, mem |-> MemOf[req.key]]}]
    BY <2>1 DEF WithMPSPod
  <2>. QED BY <1>4, <2>1, <2>2 DEF GPUDevInfo
<1>. HIDE DEF new
<1>7. InfoBooks(new)
  BY <1>1, <1>2, <1>3, <1>4, <1>5, <1>6 DEF InfoBooks
<1>8. req.key \in Keys(new)
  <2>. DEFINE r == [key |-> req.key, mem |-> MemOf[req.key]]
  <2>1. r \in new.mpsPodList /\ r.key = req.key
    BY <1>6
  <2>. HIDE DEF r
  <2>. QED BY <2>1, KeysOfInfo
<1>9. \A q \in Pods \ {req.key} : q \in Keys(new) => q \in Keys(vGPUID2GPU[g])
  BY <1>2, <1>3, <1>6, KeysOfInfo
<1>10. \A q \in Pods : q \in Keys(vGPUID2GPU[g]) => q \in Keys(new)
  BY <1>2, <1>3, <1>6, KeysOfInfo
<1>. QED BY <1>1, <1>2, <1>7, <1>8, <1>9, <1>10, AddBooks

\* An Exclusive pod takes the GPU, which nobody has: it was found without a mode, and still is.
LEMMA ExclusiveBooks ==
    ASSUME LedgerInv, BookInv, NEW req, RequestExclusive(req)
    PROVE  Books(req.key)
<1>. DEFINE g == GpuOf[req.key]
            info == Typed(vGPUID2GPU[g], req.key)
            new == [info EXCEPT !.exclusivePod = req.key]
<1>1. /\ req \in selections /\ g \in DOMAIN vGPUID2GPU /\ registered'
      /\ TypeOf[req.key] = "Exclusive"
      /\ vGPUID2GPU' = Set(g, new)
  BY DEF RequestExclusive, Pending, BookInv, KnownNode
<1>2. /\ req \in ResourceRequest /\ req.key \in Pods
      /\ InfoOK(vGPUID2GPU[g]) /\ InfoOK(info)
      /\ info.fastPodList = vGPUID2GPU[g].fastPodList
      /\ info.mpsPodList = vGPUID2GPU[g].mpsPodList
  BY <1>1, PendingFacts, RequestFacts
<1>3. info \in GPUDevInfo /\ InfoBooks(vGPUID2GPU[g])
  BY <1>1, <1>2 DEF InfoOK, BookInv
<1>. HIDE DEF info
<1>4. /\ new.fastPodList = info.fastPodList
      /\ new.mpsPodList = info.mpsPodList
      /\ new.exclusivePod = req.key
  BY <1>3 DEF GPUDevInfo
<1>. HIDE DEF new
<1>5. InfoBooks(new)
  BY <1>1, <1>2, <1>3, <1>4 DEF InfoBooks
<1>6. req.key \in Keys(new)
  BY <1>2, <1>4, KeysOfInfo, LedgerAssumption
<1>7. \A q \in Pods \ {req.key} : q \in Keys(new) => q \in Keys(vGPUID2GPU[g])
  BY <1>2, <1>4, KeysOfInfo
<1>8. vGPUID2GPU[g].exclusivePod = NoPod
  <2>1. canFit(req, vGPUID2GPU[g])
    BY <1>1 DEF LedgerInv, SelectionStaysValid
  <2>2. vGPUID2GPU[g].allocationType = "None"
    BY <1>1, <2>1 DEF canFit, canFitExclusive
  <2>. QED BY <1>2, <2>2 DEF InfoOK
<1>9. \A q \in Pods : q \in Keys(vGPUID2GPU[g]) => q \in Keys(new)
  BY <1>2, <1>4, <1>8, KeysOfInfo
<1>. QED BY <1>1, <1>2, <1>5, <1>6, <1>7, <1>9, AddBooks

\* A FastPod is recorded with its port, and no pod of its name is.
LEMMA FastPodBooks ==
    ASSUME LedgerInv, BookInv, NEW req, RequestFastPod(req)
    PROVE  Books(req.key)
<1>. DEFINE g == GpuOf[req.key]
            info == Typed(vGPUID2GPU[g], req.key)
            new(port) == WithFastPod(info, req, port)
<1>1. /\ req \in selections /\ g \in DOMAIN vGPUID2GPU /\ registered'
      /\ TypeOf[req.key] = "FastPod" /\ ~FindInQueue(req.key, info.fastPodList)
      /\ \E port \in Positions : vGPUID2GPU' = Set(g, new(port))
  BY DEF RequestFastPod, Pending, BookInv, KnownNode
<1>2. /\ req \in ResourceRequest /\ req.key \in Pods
      /\ InfoOK(vGPUID2GPU[g]) /\ InfoOK(info)
      /\ info.fastPodList = vGPUID2GPU[g].fastPodList
      /\ info.mpsPodList = vGPUID2GPU[g].mpsPodList
  BY <1>1, PendingFacts, RequestFacts
<1>3. info.exclusivePod = vGPUID2GPU[g].exclusivePod
  BY <1>2, TypedOK
<1>4. info \in GPUDevInfo /\ InfoBooks(vGPUID2GPU[g])
  BY <1>1, <1>2 DEF InfoOK, BookInv
<1>5. PICK port \in Positions : vGPUID2GPU' = Set(g, new(port))
  BY <1>1
<1>. HIDE DEF info
<1>6. /\ new(port).fastPodList = info.fastPodList \cup {NewFastPodReq(req, port)}
      /\ new(port).mpsPodList = info.mpsPodList
      /\ new(port).exclusivePod = info.exclusivePod
  <2>1. PICK x : x = new(port)
    OBVIOUS
  <2>2. x = [info EXCEPT !.usage = @ + req.use,
                         !.usageMem = @ + MemOf[req.key],
                         !.fastPodList = @ \cup {NewFastPodReq(req, port)}]
    BY <2>1 DEF WithFastPod
  <2>. QED BY <1>4, <2>1, <2>2 DEF GPUDevInfo
<1>7. NewFastPodReq(req, port).key = req.key
  BY DEF NewFastPodReq
<1>. HIDE DEF new
<1>8. InfoBooks(new(port))
  BY <1>1, <1>2, <1>3, <1>4, <1>6, <1>7 DEF InfoBooks, FindInQueue
<1>9. req.key \in Keys(new(port))
  BY <1>6, <1>7, KeysOfInfo
<1>10. \A q \in Pods \ {req.key} : q \in Keys(new(port)) => q \in Keys(vGPUID2GPU[g])
  BY <1>2, <1>3, <1>6, <1>7, KeysOfInfo
<1>11. \A q \in Pods : q \in Keys(vGPUID2GPU[g]) => q \in Keys(new(port))
  BY <1>2, <1>3, <1>6, KeysOfInfo
<1>. QED BY <1>1, <1>2, <1>5, <1>8, <1>9, <1>10, <1>11, AddBooks

\* A FastPod that is recorded stays recorded, once.
LEMMA FastPodAgainBooks ==
    ASSUME LedgerInv, BookInv, NEW req, RequestFastPodAgain(req)
    PROVE  Books(req.key)
<1>. DEFINE g == GpuOf[req.key]
            info == Typed(vGPUID2GPU[g], req.key)
<1>1. /\ req \in selections /\ g \in DOMAIN vGPUID2GPU /\ registered'
      /\ FindInQueue(req.key, info.fastPodList)
      /\ vGPUID2GPU' = Set(g, info)
  BY DEF RequestFastPodAgain, Pending, BookInv, KnownNode
<1>2. /\ req.key \in Pods /\ InfoOK(vGPUID2GPU[g])
      /\ info.fastPodList = vGPUID2GPU[g].fastPodList
      /\ info.mpsPodList = vGPUID2GPU[g].mpsPodList
  BY <1>1, PendingFacts, RequestFacts
<1>3. info.exclusivePod = vGPUID2GPU[g].exclusivePod
  BY <1>2, TypedOK
<1>. HIDE DEF info
<1>4. InfoBooks(info)
  BY <1>1, <1>2, <1>3 DEF InfoBooks, BookInv
<1>5. \A q \in Pods : q \in Keys(info) <=> q \in Keys(vGPUID2GPU[g])
  BY <1>2, <1>3, KeysOfInfo
<1>6. req.key \in Keys(info)
  BY <1>1, KeysOfInfo DEF FindInQueue
<1>. QED BY <1>1, <1>2, <1>4, <1>5, <1>6, AddBooks

\* A request that is recorded books its pod and no other.
LEMMA RecordBooks ==
    ASSUME LedgerInv, BookInv, NEW req, RequestRecorded(req)
    PROVE  Books(req.key)
  BY MPSBooks, ExclusiveBooks, FastPodBooks, FastPodAgainBooks DEF RequestRecorded

-----------------------------------------------------------------------------
\* Taking a FastPod or an MPS pod out of an entry takes that pod out of its lists, and no other.
LEMMA WithoutBooks ==
    ASSUME NEW info \in GPUDevInfo, InfoBooks(info), NEW p \in Pods, TypeOf[p] # "Exclusive"
    PROVE  /\ InfoBooks(Without(p, info))
           /\ p \notin Keys(Without(p, info))
           /\ \A q \in Pods \ {p} : q \in Keys(Without(p, info)) <=> q \in Keys(info)
<1>. DEFINE new == Without(p, info)
<1>1. CASE InFastPodList(p, info)
  <2>. DEFINE r == ReqOf(p, info.fastPodList)
  <2>1. r \in info.fastPodList /\ r.key = p /\ TypeOf[p] = "FastPod"
    BY <1>1, FoundReq DEF InFastPodList
  <2>2. /\ new.fastPodList = info.fastPodList \ {r}
        /\ new.mpsPodList = info.mpsPodList
        /\ new.exclusivePod = info.exclusivePod
    BY <1>1 DEF Without, InFastPodList, InMPSPodList, GPUDevInfo
  <2>. HIDE DEF r, new
  <2>3. InfoBooks(new)
    BY <2>2 DEF InfoBooks
  <2>4. p \notin Keys(new)
    BY <2>1, <2>2, KeysOfInfo DEF InfoBooks
  <2>5. \A q \in Pods \ {p} : q \in Keys(new) <=> q \in Keys(info)
    BY <2>1, <2>2, KeysOfInfo
  <2>. QED BY <2>3, <2>4, <2>5 DEF new
<1>2. CASE InMPSPodList(p, info)
  <2>. DEFINE r == ReqOf(p, info.mpsPodList)
  <2>1. r \in info.mpsPodList /\ r.key = p /\ TypeOf[p] = "MPS"
    BY <1>2, FoundReq DEF InMPSPodList
  <2>2. /\ new.fastPodList = info.fastPodList
        /\ new.mpsPodList = info.mpsPodList \ {r}
        /\ new.exclusivePod = info.exclusivePod
    BY <1>2 DEF Without, InFastPodList, InMPSPodList, GPUDevInfo
  <2>. HIDE DEF r, new
  <2>3. InfoBooks(new)
    BY <2>2 DEF InfoBooks
  <2>4. p \notin Keys(new)
    BY <2>1, <2>2, KeysOfInfo DEF InfoBooks
  <2>5. \A q \in Pods \ {p} : q \in Keys(new) <=> q \in Keys(info)
    BY <2>1, <2>2, KeysOfInfo
  <2>. QED BY <2>3, <2>4, <2>5 DEF new
<1>3. CASE ~InFastPodList(p, info) /\ ~InMPSPodList(p, info)
  <2>1. new = info
    BY <1>3 DEF Without
  <2>2. p \notin Keys(info)
    BY <1>3, BookedInList, PodFacts DEF AllocationTypes
  <2>. QED BY <2>1, <2>2
<1>. QED BY <1>1, <1>2, <1>3

\* The two removals of a pod, without the panics: whatever they find, the pod is booked no more, and no pod is that was not.
Removal(p) ==
    \/ RemoveAbsent(p)
    \/ RemoveShrinks(p)
    \/ RemoveLast(p)
    \/ RemoveLastOfFaSTPod(p)

\* The entry of GPU g is dropped.
LEMMA DeleteBooks ==
    ASSUME BookInv, NEW g, vGPUID2GPU' = Delete(g), registered' = registered
    PROVE  /\ BookInv'
           /\ \A q \in Pods : GpuOf[q] # g => (Booked(q)' <=> Booked(q))
           /\ \A q \in Pods : GpuOf[q] = g => ~Booked(q)'
<1>1. /\ DOMAIN vGPUID2GPU' = DOMAIN vGPUID2GPU \ {g}
      /\ \A h \in DOMAIN vGPUID2GPU \ {g} : vGPUID2GPU'[h] = vGPUID2GPU[h]
  BY DEF Delete
<1>2. BookInv'
  BY <1>1 DEF BookInv, KnownNode, InfoBooks
<1>3. ASSUME NEW q \in Pods, GpuOf[q] # g
      PROVE  Booked(q)' <=> Booked(q)
  BY <1>1, <1>3 DEF Booked, Keys
<1>4. ASSUME NEW q \in Pods, GpuOf[q] = g
      PROVE  ~Booked(q)'
  BY <1>1, <1>4 DEF Booked
<1>. QED BY <1>2, <1>3, <1>4

\* A removal takes the booking of its pod away and makes none.
LEMMA RemoveBooks ==
    ASSUME LedgerInv, BookInv, NEW p \in Pods, Removal(p)
    PROVE  /\ BookInv'
           /\ ~Booked(p)'
           /\ \A q \in Pods : Booked(q)' => Booked(q)
<1>. DEFINE g == GpuOf[p]
            info == vGPUID2GPU[g]
<1>1. CASE RemoveAbsent(p)
  <2>1. UNCHANGED <<vGPUID2GPU, registered>>
    BY <1>1 DEF RemoveAbsent, ledgerVars
  <2>2. ~Booked(p)
    BY <1>1 DEF RemoveAbsent, Recorded, BookInv, KnownNode, Booked
  <2>3. BookInv'
    BY <2>1 DEF BookInv, KnownNode, InfoBooks
  <2>. QED BY <2>1, <2>2, <2>3 DEF Booked, Keys
<1>2. CASE RemoveShrinks(p)
  <2>1. /\ registered' /\ g \in DOMAIN vGPUID2GPU
        /\ ~LastOfItsType(p, info)
        /\ vGPUID2GPU' = Set(g, Without(p, info))
    BY <1>2 DEF RemoveShrinks, Recorded
  <2>2. info \in GPUDevInfo /\ InfoBooks(info)
    BY <2>1 DEF LedgerInv, TypeOK, BookInv
  <2>3. TypeOf[p] # "Exclusive"
    BY <2>1 DEF LastOfItsType
  <2>4. /\ InfoBooks(Without(p, info))
        /\ p \notin Keys(Without(p, info))
        /\ \A q \in Pods \ {p} : q \in Keys(Without(p, info)) <=> q \in Keys(info)
    BY <2>2, <2>3, WithoutBooks
  <2>5. /\ BookInv'
        /\ \A q \in Pods : GpuOf[q] # g => (Booked(q)' <=> Booked(q))
        /\ \A q \in Pods : GpuOf[q] = g => (Booked(q)' <=> q \in Keys(Without(p, info)))
    BY <2>1, <2>4, SetBooks
  <2>. QED BY <2>1, <2>4, <2>5 DEF Booked
<1>3. CASE RemoveLast(p) \/ RemoveLastOfFaSTPod(p)
  <2>1. vGPUID2GPU' = Delete(g) /\ registered' = registered
    BY <1>3 DEF RemoveLast, RemoveLastOfFaSTPod
  <2>. QED BY <2>1, DeleteBooks
<1>. QED BY <1>1, <1>2, <1>3 DEF Removal

\* A removal takes no booking of another pod of its type away: the entry is dropped only when the list of that type is empty.
LEMMA RemoveKeepsOthers ==
    ASSUME LedgerInv, BookInv, NEW p \in Pods, Removal(p),
           NEW q \in Pods \ {p}, Booked(q), ~OtherTenant(p, q)
    PROVE  Booked(q)'
<1>. DEFINE g == GpuOf[p]
            info == vGPUID2GPU[g]
<1>0. GpuOf[q] = g => TypeOf[p] # "Exclusive" /\ TypeOf[q] = TypeOf[p]
  BY DEF OtherTenant
<1>1. CASE RemoveAbsent(p)
  BY <1>1 DEF RemoveAbsent, ledgerVars, Booked, Keys
<1>2. CASE Recorded(p) /\ GpuOf[q] # g
  <2>1. \/ registered' /\ vGPUID2GPU' = Set(g, Without(p, info))
        \/ vGPUID2GPU' = Delete(g)
    BY <1>2 DEF Removal, RemoveAbsent, RemoveShrinks, RemoveLast, RemoveLastOfFaSTPod, Recorded
  <2>2. vGPUID2GPU'[GpuOf[q]] = vGPUID2GPU[GpuOf[q]] /\ GpuOf[q] \in DOMAIN vGPUID2GPU'
    BY <1>2, <2>1 DEF Set, Delete, Booked
  <2>. QED BY <2>2 DEF Booked, Keys
<1>3. CASE Recorded(p) /\ GpuOf[q] = g
  <2>1. /\ g \in DOMAIN vGPUID2GPU /\ q \in Keys(info)
        /\ info \in GPUDevInfo /\ InfoBooks(info)
    BY <1>3 DEF Booked, LedgerInv, TypeOK, BookInv
  <2>2. /\ InfoBooks(Without(p, info))
        /\ q \in Keys(Without(p, info))
    BY <1>0, <1>3, <2>1, WithoutBooks
  <2>3. Without(p, info) \in GPUDevInfo
    BY <1>0, <1>3, <2>1, WithoutOK DEF LedgerInv, EntriesOK, InfoOK
  <2>. HIDE DEF info
  <2>4. ~LastOfItsType(p, info)
    <3>1. TypeOf[p] \in {"FastPod", "MPS"}
      BY <1>0, <1>3, PodFacts DEF AllocationTypes
    <3>2. TypeOf[q] = TypeOf[p]
      BY <1>0, <1>3
    <3>3. /\ TypeOf[q] = "FastPod" => Without(p, info).fastPodList # {}
          /\ TypeOf[q] = "MPS" => Without(p, info).mpsPodList # {}
      <4>. DEFINE new == Without(p, info)
      <4>1. new \in GPUDevInfo /\ InfoBooks(new) /\ q \in Keys(new)
        BY <2>2, <2>3
      <4>. HIDE DEF new
      <4>2. /\ TypeOf[q] = "FastPod" => InFastPodList(q, new)
            /\ TypeOf[q] = "MPS" => InMPSPodList(q, new)
        BY <4>1, BookedInList
      <4>3. /\ TypeOf[q] = "FastPod" => new.fastPodList # {}
            /\ TypeOf[q] = "MPS" => new.mpsPodList # {}
        BY <4>2 DEF InFastPodList, InMPSPodList, FindInQueue
      <4>. QED BY <4>3 DEF new
    <3>. QED BY <3>1, <3>2, <3>3 DEF LastOfItsType
  <2>5. registered' /\ vGPUID2GPU' = Set(g, Without(p, info))
    BY <1>3, <2>4 DEF Removal, RemoveAbsent, RemoveShrinks, RemoveLast, RemoveLastOfFaSTPod,
                      Recorded, info
  <2>6. vGPUID2GPU'[g] = Without(p, info) /\ g \in DOMAIN vGPUID2GPU'
    BY <2>5 DEF Set
  <2>. QED BY <1>3, <2>2, <2>6 DEF Booked, Keys
<1>. QED BY <1>1, <1>2, <1>3 DEF Removal, RemoveAbsent, RemoveShrinks, RemoveLast, RemoveLastOfFaSTPod

\* A re-configuration changes the share of a recorded pod and books nothing.
LEMMA ReconfigBooks ==
    ASSUME LedgerInv, BookInv, NEW p \in Pods, NEW use, reconcileResourceConfig(p, use)
    PROVE  BookInv' /\ KeepsBookings
<1>. DEFINE g == GpuOf[p]
            info == vGPUID2GPU[g]
            req == ReqOf(p, info.fastPodList)
            new == WithUse(info, req, use)
            req2 == [req EXCEPT !.use = use]
<1>1. /\ g \in DOMAIN vGPUID2GPU
      /\ FindInQueue(p, info.fastPodList)
      /\ vGPUID2GPU' = Set(g, new)
      /\ registered'
  BY DEF reconcileResourceConfig, Recorded
<1>2. info \in GPUDevInfo /\ InfoBooks(info)
  BY <1>1 DEF LedgerInv, TypeOK, BookInv
<1>3. req \in info.fastPodList /\ req \in FastPodReq /\ req.key = p
  BY <1>1, <1>2, FoundReq DEF GPUDevInfo
<1>. HIDE DEF req
<1>4. req2.key = p
  BY <1>3 DEF FastPodReq
<1>. HIDE DEF req2, info
<1>5. /\ new.fastPodList = (info.fastPodList \ {req}) \cup {req2}
      /\ new.mpsPodList = info.mpsPodList
      /\ new.exclusivePod = info.exclusivePod
  <2>1. PICK x : x = new
    OBVIOUS
  <2>2. x = [info EXCEPT !.fastPodList = (@ \ {req}) \cup {req2}]
    BY <2>1 DEF WithUse, req2
  <2>. QED BY <1>2, <2>1, <2>2 DEF GPUDevInfo
<1>. HIDE DEF new
<1>6. InfoBooks(new)
  BY <1>2, <1>3, <1>4, <1>5 DEF InfoBooks
<1>7. \A q \in Pods : q \in Keys(new) <=> q \in Keys(info)
  BY <1>3, <1>4, <1>5, KeysOfInfo
<1>8. /\ BookInv'
      /\ \A q \in Pods : GpuOf[q] # g => (Booked(q)' <=> Booked(q))
      /\ \A q \in Pods : GpuOf[q] = g => (Booked(q)' <=> q \in Keys(new))
  BY <1>1, <1>6, SetBooks
<1>. QED BY <1>1, <1>7, <1>8 DEF KeepsBookings, Booked, info

\* A step that leaves the map alone, as a restart or a node that connects.
LEMMA QuietBooks ==
    ASSUME BookInv, vGPUID2GPU' = vGPUID2GPU, registered => registered'
    PROVE  BookInv' /\ KeepsBookings
  BY DEF BookInv, KnownNode, InfoBooks, KeepsBookings, Booked, Keys

\* A manager that has just started has booked nothing.
LEMMA InitBooks ==
    ASSUME LedgerInit
    PROVE  BookInv /\ \A q \in Pods : ~Booked(q)
  BY DEF LedgerInit, NoGPUs, BookInv, KnownNode, Booked

-----------------------------------------------------------------------------
(***************************************************************************)
(* Who loses a booking.                                                    *)
(***************************************************************************)
\* A removal, a late or repeated one too, takes away the booking of its pod or of a pod that shares its GPU with it in another mode, unless the process panics.
LEMMA RemovalTakes ==
    ASSUME LedgerInv, BookInv, NEW p \in Pods, removePodFromList(p) \/ removeFaSTPodFromList(p)
    PROVE  /\ BookInv'
           /\ \A q \in Pods : Booked(q) /\ up' /\ ~Booked(q)' => p = q \/ OtherTenant(p, q)
<1>1. CASE Removal(p)
  BY <1>1, RemoveBooks, RemoveKeepsOthers
<1>2. CASE RemovePanic(p) \/ RemoveRpcPanic(p)
  <2>1. LoseMemory
    BY <1>2 DEF RemovePanic, RemoveRpcPanic, Panic
  <2>. QED BY <2>1, LoseMemoryBooks DEF LoseMemory
<1>. QED BY <1>1, <1>2 DEF removePodFromList, removeFaSTPodFromList, Removal

\* No other step of the ledger takes a booking away, unless the process ends.
LEMMA OthersTakeNothing ==
    ASSUME LedgerInv, BookInv, [LedgerNext]_ledgerVars,
           \A p \in Pods : ~removePodFromList(p) /\ ~removeFaSTPodFromList(p)
    PROVE  BookInv' /\ \A q \in Pods : Booked(q) /\ up' => Booked(q)'
<1>1. ASSUME LoseMemory PROVE BookInv' /\ ~up'
  BY <1>1, LoseMemoryBooks DEF LoseMemory
<1>2. CASE Crash \/ Restart \/ handleNodeConnection
  <2>1. LoseMemory \/ (vGPUID2GPU' = vGPUID2GPU /\ (registered => registered'))
    BY <1>2 DEF Crash, Panic, Restart, handleNodeConnection
  <2>. QED BY <1>1, <2>1, QuietBooks DEF KeepsBookings
<1>3. ASSUME NEW req \in ResourceRequest, ScheduleRequest(req)
      PROVE  BookInv' /\ \A q \in Pods : Booked(q) /\ up' => Booked(q)'
  <2>1. \/ ScheduleOk(req) \/ ScheduleNoFit(req) \/ LoseMemory
        \/ UNCHANGED <<vGPUID2GPU, registered>>
    BY <1>3 DEF ScheduleRequest, SchedulePanic, Panic, ScheduleNoGPU, ledgerVars
  <2>. QED BY <1>1, <2>1, ScheduleBooks, QuietBooks DEF KeepsBookings
<1>4. ASSUME NEW req \in ResourceRequest, RequestGPUAndUpdateConfig(req)
      PROVE  BookInv' /\ \A q \in Pods : Booked(q) /\ up' => Booked(q)'
  <2>1. RequestRecorded(req) \/ RequestRefused(req) \/ LoseMemory
    BY <1>4 DEF RequestGPUAndUpdateConfig, RequestPanic, RequestRpcPanic
  <2>2. CASE RequestRecorded(req)
    BY <2>2, RecordBooks DEF Books
  <2>3. CASE RequestRefused(req)
    BY <2>3, RefusedBooks DEF KeepsBookings
  <2>. QED BY <1>1, <2>1, <2>2, <2>3
<1>5. ASSUME NEW p \in Pods, NEW use \in Uses, reconcileResourceConfig(p, use)
      PROVE  BookInv' /\ \A q \in Pods : Booked(q) /\ up' => Booked(q)'
  BY <1>5, ReconfigBooks DEF KeepsBookings
<1>6. CASE (\E g \in GPUs : Provision(g) \/ ReleaseByFastFunc(g)) \/ UNCHANGED ledgerVars
  <2>1. UNCHANGED <<vGPUID2GPU, registered>>
    BY <1>6 DEF Provision, ReleaseByFastFunc, ledgerVars
  <2>. QED BY <2>1, QuietBooks DEF KeepsBookings
<1>. QED BY <1>2, <1>3, <1>4, <1>5, <1>6 DEF LedgerNext

\* For any pods and GPUs, a pod loses its booking by its own removal only, or to one of a pod of another type (or an Exclusive one) that drops the entry of the GPU: late and repeated removals take nothing from the pods of their type.
THEOREM BookingsAlwaysKept == LedgerSpec => BookingsAreKept
<1>1. LedgerInit => BookInv
  BY InitBooks
<1>2. LedgerInv /\ BookInv /\ [LedgerNext]_ledgerVars =>
        /\ BookInv'
        /\ [\A p \in Pods : Booked(p) /\ up' /\ ~Booked(p)' =>
              \E q \in Pods : /\ removePodFromList(q) \/ removeFaSTPodFromList(q)
                              /\ q = p \/ OtherTenant(q, p)]_ledgerVars
  BY RemovalTakes, OthersTakeNothing
<1>. QED BY <1>1, <1>2, LedgerInvariance, PTL DEF LedgerSpec, BookingsAreKept
=============================================================================
