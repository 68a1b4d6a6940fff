------------------------- MODULE ConfiguratorProofs -------------------------
(***************************************************************************)
(* Proofs about Configurator: of the objects that calls and refreshes pass *)
(* around, and of the instances and devices they stand for.                *)
(***************************************************************************)
EXTENDS Configurator, TLAPS

-----------------------------------------------------------------------------
(***************************************************************************)
(* The invariant                                                           *)
(***************************************************************************)
ObjectRecords ==
    [isProvisioned : BOOLEAN, gpu : UUIDs \cup {None}, isEnabled : BOOLEAN,
     gpuInstance : Slots \cup {None}, computeInstance : BOOLEAN, mutex : Calls \cup {None}]

CallRecords ==
    [method : OneAtATime \cup {None}, pc : CallPCs, v : Objects \cup {None}, useMps : BOOLEAN,
     m : UUIDs \cup {None}, scan : SUBSET Slots,
     at : Slots \cup {None}, old : Objects \cup {None}]

\* The types of what the calls work on,
ManagerTyped ==
    /\ heap \in [Objects -> ObjectRecords]
    /\ virtualGPUs \subseteq Objects
    /\ DOMAIN provisionedGPUs \subseteq UUIDs
    /\ \A u \in DOMAIN provisionedGPUs : provisionedGPUs[u] \in Objects
    /\ rmMutex \in Calls \cup {None}
    /\ call \in [Calls -> CallRecords]
    /\ \A c \in Calls : call[c].v = None <=> call[c].pc \in {"idle", "refresh", "store"}

\* and of the hardware and the process.
HardwareTyped ==
    /\ instances \subseteq Slots
    /\ computes \subseteq instances
    /\ daemons \subseteq UUIDs /\ pipes \subseteq UUIDs
    /\ up \in BOOLEAN
    /\ happened \in FailureKinds \cup {None}

\* Where a call holds the mutex of its object.
LockedPCs == {"compute", "query", "releaseStopped", "destroyCI", "destroyGI", "forget"}

\* v.mutex and rm.mutex are held by the calls that are between Lock and Unlock.
LocksOK ==
    /\ \A o \in Objects, c \in Calls :
          heap[o].mutex = c <=> call[c].v = o /\ call[c].pc \in LockedPCs
    /\ \A c \in Calls : rmMutex = c <=> call[c].pc = "store"

Forgetting(o) == \E c \in Calls : call[c].v = o /\ call[c].pc = "forget"

\* The handles of an object are those of its GPU, until its Release has destroyed them.
HandlesOK ==
    \A o \in Objects :
        /\ ~heap[o].isProvisioned => heap[o].gpu = None /\ ~heap[o].computeInstance
        /\ heap[o].gpu \in Physical => heap[o].gpuInstance = None
        /\ heap[o].gpu \in Slots => heap[o].gpuInstance = heap[o].gpu \/ Forgetting(o)

\* How far Access and Release are with the object that they have locked.
ProgressOK ==
    \A c \in Calls :
        /\ call[c].pc = "compute" => ~V(c).isProvisioned /\ V(c).gpuInstance \in Slots
        /\ call[c].pc = "query" =>
              /\ V(c).isProvisioned /\ V(c).computeInstance
              /\ V(c).gpu = None /\ V(c).gpuInstance \in Slots
        /\ call[c].pc \in {"releaseStopped", "destroyCI", "destroyGI", "forget"} => V(c).gpu \in Slots
        /\ call[c].pc \in {"destroyGI", "forget"} => ~V(c).computeInstance
        /\ call[c].pc = "forget" => V(c).gpuInstance = None

(***************************************************************************)
(* An object claims a GPU instance that it has to give a compute instance, *)
(* or to destroy.  Stale objects, of earlier refreshes, have the handle of *)
(* the compute instance as well and claim nothing.                         *)
(***************************************************************************)
Claims(o) ==
    /\ heap[o].gpuInstance \in Slots
    /\ ~heap[o].computeInstance
    /\ heap[o].isProvisioned \/ \E c \in Calls : call[c].v = o /\ call[c].pc = "compute"

\* What is claimed exists, has no compute instance, and is claimed once.
ClaimsOK ==
    /\ \A o \in Objects : Claims(o) => heap[o].gpuInstance \in instances \ computes
    /\ \A o, q \in Objects :
          Claims(o) /\ Claims(q) /\ heap[o].gpuInstance = heap[q].gpuInstance => o = q

\* The call that is at a GPU instance without a compute instance.
OwnersOK ==
    \A s \in instances \ computes :
        \/ \E c \in Calls : call[c].pc \in {"compute", "destroyGI"} /\ V(c).gpuInstance = s
        \/ happened \in {"crash", "query", "destroyGI"}

\* A call that will list device s.
WillList(c, s) ==
    \/ call[c].pc \in {"mps", "refresh", "forget"}
    \/ call[c].pc = "store" /\ s \in call[c].scan
    \/ call[c].pc = "query" /\ V(c).gpuInstance = s

ListedOK ==
    /\ up => /\ Physical \subseteq DOMAIN provisionedGPUs
             /\ \A s \in computes : s \in DOMAIN provisionedGPUs \/ \E c \in Calls : WillList(c, s)
    /\ ~up => provisionedGPUs = <<>> /\ virtualGPUs = {} /\ \A c \in Calls : call[c].pc = "idle"

\* What holds of the calls and the objects, whatever the hardware does,
ObjectsInv ==
    /\ ManagerTyped
    /\ LocksOK
    /\ HandlesOK
    /\ ProgressOK
    /\ EntriesNameTheirGpu

\* and of the hardware.
HardwareInv ==
    /\ HardwareTyped
    /\ ClaimsOK
    /\ OwnersOK
    /\ ListedOK

ConfInv == ObjectsInv /\ HardwareInv

-----------------------------------------------------------------------------
(***************************************************************************)
(* A call lets go of its object                                            *)
(***************************************************************************)
\* Nothing but the mutex of object o has changed.
SameButMutex(o) ==
    /\ heap'[o].isProvisioned = heap[o].isProvisioned
    /\ heap'[o].gpu = heap[o].gpu
    /\ heap'[o].isEnabled = heap[o].isEnabled
    /\ heap'[o].gpuInstance = heap[o].gpuInstance
    /\ heap'[o].computeInstance = heap[o].computeInstance

\* Drop frees the mutex of the call and keeps every object that something else refers to.
LEMMA DropKeeps ==
    ASSUME ManagerTyped, NEW c \in Calls, Drop(c)
    PROVE  /\ heap' \in [Objects -> ObjectRecords]
           /\ \A o \in Objects :
                 \/ heap'[o] = Unprovisioned
                 \/ /\ SameButMutex(o)
                    /\ heap'[o].mutex = IF heap[o].mutex = c THEN None ELSE heap[o].mutex
           /\ \A u \in DOMAIN provisionedGPUs :
                 LET o == provisionedGPUs[u] IN
                 /\ SameButMutex(o)
                 /\ heap'[o].mutex = IF heap[o].mutex = c THEN None ELSE heap[o].mutex
           /\ \A d \in Calls \ {c} :
                 LET o == call[d].v IN
                 o \in Objects =>
                 /\ SameButMutex(o)
                 /\ heap'[o].mutex = IF heap[o].mutex = c THEN None ELSE heap[o].mutex
<1> DEFINE kept(o) == [heap[o] EXCEPT !.mutex = IF @ = c THEN None ELSE @]
           stays == virtualGPUs \cup Range(provisionedGPUs) \cup HeldByOthers(c)
<1>1. heap' = [o \in Objects |-> IF o \in stays THEN kept(o) ELSE Unprovisioned]
  BY DEF Drop
<1>2. ASSUME NEW o \in Objects
      PROVE  /\ kept(o) \in ObjectRecords
             /\ kept(o).isProvisioned = heap[o].isProvisioned
             /\ kept(o).gpu = heap[o].gpu
             /\ kept(o).isEnabled = heap[o].isEnabled
             /\ kept(o).gpuInstance = heap[o].gpuInstance
             /\ kept(o).computeInstance = heap[o].computeInstance
             /\ kept(o).mutex = IF heap[o].mutex = c THEN None ELSE heap[o].mutex
  <2>1. heap[o] \in ObjectRecords
    BY DEF ManagerTyped
  <2> QED
    BY <2>1 DEF ObjectRecords
<1>3. Unprovisioned \in ObjectRecords
  BY DEF Unprovisioned, ObjectRecords
<1>4. \A u \in DOMAIN provisionedGPUs :
         provisionedGPUs[u] \in Objects /\ provisionedGPUs[u] \in Range(provisionedGPUs)
  BY DEF ManagerTyped, Range
<1>5. \A d \in Calls \ {c} : call[d].v \in HeldByOthers(c)
  BY DEF HeldByOthers
<1>6. /\ \A u \in DOMAIN provisionedGPUs : provisionedGPUs[u] \in stays
      /\ \A d \in Calls \ {c} : call[d].v \in stays
  BY <1>4, <1>5
<1> HIDE DEF kept, stays
<1>7. heap' \in [Objects -> ObjectRecords]
  BY <1>1, <1>2, <1>3
<1>8. \A o \in Objects : heap'[o] = IF o \in stays THEN kept(o) ELSE Unprovisioned
  BY <1>1
<1>9. \A o \in Objects : o \in stays =>
         /\ SameButMutex(o)
         /\ heap'[o].mutex = IF heap[o].mutex = c THEN None ELSE heap[o].mutex
  BY <1>2, <1>8 DEF SameButMutex
<1> QED
  BY <1>4, <1>6, <1>7, <1>8, <1>9

\* The other calls do not move, nor does what they have locked lose its GPU instance.
OthersStay(c) ==
    \A d \in Calls \ {c} :
        /\ call'[d] = call[d]
        /\ call[d].pc \in LockedPCs => heap'[call[d].v].gpuInstance = heap[call[d].v].gpuInstance

\* The calls when call c goes on as r.
LEMMA CallGoesOn ==
    ASSUME ManagerTyped, NEW c \in Calls, NEW r \in CallRecords, call' = [call EXCEPT ![c] = r]
    PROVE  /\ call' \in [Calls -> CallRecords]
           /\ call'[c] = r
           /\ \A d \in Calls \ {c} : call'[d] = call[d]
BY DEF ManagerTyped

\* A call that returns, or goes on to its refresh, leaves the objects consistent and claims
\* nothing any more.
LEMMA CallLetsGo ==
    ASSUME ObjectsInv, NEW c \in Calls, NEW r \in CallRecords,
           Drop(c), call' = [call EXCEPT ![c] = r], r.v = None, r.pc \in {"idle", "refresh"},
           call[c].pc \notin {"store", "forget"},
           UNCHANGED <<virtualGPUs, provisionedGPUs, rmMutex>>
    PROVE  /\ ObjectsInv'
           /\ OthersStay(c) /\ call'[c] = r
           /\ \A o \in Objects :
                 Claims(o)' => /\ Claims(o) /\ heap'[o].gpuInstance = heap[o].gpuInstance
                               /\ ~(call[c].v = o /\ call[c].pc = "compute")
<1>1. /\ ManagerTyped /\ LocksOK /\ HandlesOK /\ ProgressOK /\ EntriesNameTheirGpu
  BY DEF ObjectsInv
<1>2. /\ call' \in [Calls -> CallRecords] /\ call'[c] = r
      /\ \A d \in Calls \ {c} : call'[d] = call[d]
  BY <1>1, CallGoesOn
<1> DEFINE freed(o) == heap'[o].mutex = IF heap[o].mutex = c THEN None ELSE heap[o].mutex
<1>3. /\ heap' \in [Objects -> ObjectRecords]
      /\ \A o \in Objects : heap'[o] = Unprovisioned \/ (SameButMutex(o) /\ freed(o))
      /\ \A u \in DOMAIN provisionedGPUs : SameButMutex(provisionedGPUs[u])
      /\ \A d \in Calls \ {c} : call[d].v \in Objects => SameButMutex(call[d].v) /\ freed(call[d].v)
  BY <1>1, DropKeeps
<1>4. None \notin Objects /\ None \notin Calls /\ None \notin UUIDs
  BY ConfiguratorAssumption DEF UUIDs
<1>5. \A d \in Calls : call[d].v # None => call[d].v \in Objects
  BY <1>1 DEF ManagerTyped, CallRecords
<1>6. \A d \in Calls \ {c} : call'[d] = call[d] /\ (call[d].v # None => SameButMutex(call[d].v))
  BY <1>2, <1>3, <1>5
<1>7. ManagerTyped'
  <2>1. /\ virtualGPUs' \subseteq Objects /\ DOMAIN provisionedGPUs' \subseteq UUIDs
        /\ rmMutex' \in Calls \cup {None}
        /\ \A u \in DOMAIN provisionedGPUs' : provisionedGPUs'[u] \in Objects
    BY <1>1 DEF ManagerTyped
  <2>2. \A d \in Calls : call'[d].v = None <=> call'[d].pc \in {"idle", "refresh", "store"}
    BY <1>1, <1>2 DEF ManagerTyped
  <2> QED
    BY <1>2, <1>3, <2>1, <2>2 DEF ManagerTyped
<1>8. LocksOK'
  <2>1. ASSUME NEW o \in Objects, NEW d \in Calls
        PROVE  heap'[o].mutex = d <=> call'[d].v = o /\ call'[d].pc \in LockedPCs
    <3>1. CASE d = c
      <4>1. heap'[o].mutex # c
        BY <1>3, <1>4 DEF Unprovisioned
      <4> QED
        BY <1>2, <1>4, <3>1, <4>1
    <3>2. CASE d # c
      <4>1. heap[o].mutex = d <=> call[d].v = o /\ call[d].pc \in LockedPCs
        BY <1>1 DEF LocksOK
      <4>2. CASE call[d].v = o
        BY <1>2, <1>3, <1>4, <3>2, <4>1, <4>2
      <4>3. CASE call[d].v # o
        BY <1>2, <1>3, <1>4, <3>2, <4>1, <4>3 DEF Unprovisioned
      <4> QED
        BY <4>2, <4>3
    <3> QED
      BY <3>1, <3>2
  <2>2. \A d \in Calls : rmMutex' = d <=> call'[d].pc = "store"
    BY <1>1, <1>2 DEF LocksOK
  <2> QED
    BY <2>1, <2>2 DEF LocksOK
<1>9. HandlesOK'
  <2> SUFFICES ASSUME NEW o \in Objects
               PROVE  /\ ~heap'[o].isProvisioned => heap'[o].gpu = None /\ ~heap'[o].computeInstance
                      /\ heap'[o].gpu \in Physical => heap'[o].gpuInstance = None
                      /\ heap'[o].gpu \in Slots => heap'[o].gpuInstance = heap'[o].gpu \/ Forgetting(o)'
    BY DEF HandlesOK
  <2>1. Forgetting(o) => Forgetting(o)'
    BY <1>2 DEF Forgetting
  <2>2. CASE heap'[o] = Unprovisioned
    BY <1>4, <2>2 DEF Unprovisioned, UUIDs
  <2>3. CASE SameButMutex(o)
    BY <1>1, <2>1, <2>3 DEF HandlesOK, SameButMutex
  <2> QED
    BY <1>3, <2>2, <2>3
<1>10. ProgressOK'
  <2>1. \A d \in Calls \ {c} : call[d].pc \in LockedPCs => call[d].v # None
    BY <1>1 DEF ManagerTyped, LockedPCs
  <2> SUFFICES ASSUME NEW d \in Calls
               PROVE  /\ call'[d].pc = "compute" =>
                            ~heap'[call'[d].v].isProvisioned /\ heap'[call'[d].v].gpuInstance \in Slots
                      /\ call'[d].pc = "query" =>
                            /\ heap'[call'[d].v].isProvisioned /\ heap'[call'[d].v].computeInstance
                            /\ heap'[call'[d].v].gpu = None /\ heap'[call'[d].v].gpuInstance \in Slots
                      /\ call'[d].pc \in {"releaseStopped", "destroyCI", "destroyGI", "forget"} =>
                            heap'[call'[d].v].gpu \in Slots
                      /\ call'[d].pc \in {"destroyGI", "forget"} => ~heap'[call'[d].v].computeInstance
                      /\ call'[d].pc = "forget" => heap'[call'[d].v].gpuInstance = None
    BY DEF ProgressOK, V
  <2>2. CASE d = c
    BY <1>2, <2>2
  <2>3. CASE d # c /\ call[d].pc \in LockedPCs
    BY <1>1, <1>6, <2>1, <2>3 DEF ProgressOK, V, SameButMutex
  <2>4. CASE d # c /\ call[d].pc \notin LockedPCs
    BY <1>2, <2>4 DEF LockedPCs
  <2> QED
    BY <2>2, <2>3, <2>4
<1>11. EntriesNameTheirGpu'
  BY <1>1, <1>3 DEF EntriesNameTheirGpu, SameButMutex
<1>12. ASSUME NEW o \in Objects, Claims(o)'
       PROVE  /\ Claims(o) /\ heap'[o].gpuInstance = heap[o].gpuInstance
              /\ ~(call[c].v = o /\ call[c].pc = "compute")
  <2>1. heap'[o].gpuInstance \in Slots /\ ~heap'[o].computeInstance
    BY <1>12 DEF Claims
  <2>2. heap'[o] # Unprovisioned
    BY <2>1, <1>4 DEF Unprovisioned, UUIDs
  <2>3. SameButMutex(o)
    BY <1>3, <2>2
  <2>4. heap[o].isProvisioned \/ \E d \in Calls : d # c /\ call[d].v = o /\ call[d].pc = "compute"
    BY <1>2, <1>12, <2>3 DEF Claims, SameButMutex
  <2>5. Claims(o) /\ heap'[o].gpuInstance = heap[o].gpuInstance
    BY <2>1, <2>3, <2>4 DEF Claims, SameButMutex
  <2>6. ASSUME call[c].v = o, call[c].pc = "compute"
        PROVE  FALSE
    <3>1. ~heap[o].isProvisioned /\ heap[o].mutex = c
      BY <1>1, <2>6 DEF ProgressOK, V, LocksOK, LockedPCs
    <3> QED
      BY <1>1, <2>4, <3>1 DEF LocksOK, LockedPCs
  <2> QED
    BY <2>5, <2>6
<1>13. OthersStay(c)
  <2>1. \A d \in Calls : call[d].pc \in LockedPCs => call[d].v # None
    BY <1>1 DEF ManagerTyped, LockedPCs
  <2> QED
    BY <1>6, <2>1 DEF OthersStay, SameButMutex
<1> QED
  BY <1>2, <1>7, <1>8, <1>9, <1>10, <1>11, <1>12, <1>13 DEF ObjectsInv

-----------------------------------------------------------------------------
(***************************************************************************)
(* A call changes its object                                               *)
(***************************************************************************)
\* The mutex of the object of a call is free, or the call's own: no other call is where it
\* would hold the mutex.
LEMMA OthersAreNotAtIt ==
    ASSUME ObjectsInv, NEW c \in Calls, call[c].v # None, V(c).mutex \in {None, c}
    PROVE  \A d \in Calls \ {c} : call[d].v = call[c].v => call[d].pc \notin LockedPCs
<1>1. call[c].v \in Objects
  BY DEF ObjectsInv, ManagerTyped, CallRecords
<1> QED
  BY <1>1, ConfiguratorAssumption DEF ObjectsInv, LocksOK, V

\* Object x suits a call that goes on at pc with it: HandlesOK and ProgressOK of the two.
Suits(x, pc) ==
    /\ ~x.isProvisioned => x.gpu = None /\ ~x.computeInstance
    /\ x.gpu \in Physical => x.gpuInstance = None
    /\ x.gpu \in Slots => x.gpuInstance = x.gpu \/ pc = "forget"
    /\ pc = "compute" => ~x.isProvisioned /\ x.gpuInstance \in Slots
    /\ pc = "query" =>
          x.isProvisioned /\ x.computeInstance /\ x.gpu = None /\ x.gpuInstance \in Slots
    /\ pc \in {"releaseStopped", "destroyCI", "destroyGI", "forget"} => x.gpu \in Slots
    /\ pc \in {"destroyGI", "forget"} => ~x.computeInstance
    /\ pc = "forget" => x.gpuInstance = None

\* The call, which has the mutex of its object or finds it free, writes x to it and goes on as r.
Writes(c, x, r) ==
    /\ call[c].v # None /\ V(c).mutex \in {None, c}
    /\ heap' = [heap EXCEPT ![call[c].v] = x]
    /\ call' = [call EXCEPT ![c] = r]
    /\ x \in ObjectRecords /\ r \in CallRecords
    /\ r.v \in {call[c].v, None}
    /\ r.v = None <=> r.pc \in {"idle", "refresh"}
    /\ r.pc # "store"
    /\ Suits(x, r.pc)
    /\ x.mutex = IF r.pc \in LockedPCs THEN c ELSE None
    /\ \A u \in DOMAIN provisionedGPUs' :
          u \in UUIDs /\ provisionedGPUs'[u] \in Objects /\ heap'[provisionedGPUs'[u]].gpu = u
    /\ UNCHANGED <<virtualGPUs, rmMutex>>

\* Such a step keeps the objects consistent.
LEMMA CallWrites ==
    ASSUME ObjectsInv, NEW c \in Calls, NEW x, NEW r, Writes(c, x, r)
    PROVE  /\ ObjectsInv'
           /\ OthersStay(c) /\ call'[c] = r
           /\ \A o \in Objects : heap'[o] = IF o = call[c].v THEN x ELSE heap[o]
           /\ \A o \in Objects :
                 Claims(o)' <=> IF o = call[c].v
                                THEN /\ x.gpuInstance \in Slots /\ ~x.computeInstance
                                     /\ x.isProvisioned \/ r.pc = "compute"
                                ELSE Claims(o)
<1> USE DEF Writes
<1> DEFINE v == call[c].v
<1>1. /\ ManagerTyped /\ LocksOK /\ HandlesOK /\ ProgressOK /\ EntriesNameTheirGpu
  BY DEF ObjectsInv
<1>2. /\ call' \in [Calls -> CallRecords] /\ call'[c] = r
      /\ \A d \in Calls \ {c} : call'[d] = call[d]
  BY <1>1, CallGoesOn
<1>3. None \notin Objects /\ None \notin Calls /\ None \notin UUIDs
  BY ConfiguratorAssumption DEF UUIDs
<1>4. v \in Objects /\ heap[v].mutex \in {None, c}
  BY <1>1 DEF ManagerTyped, CallRecords, V
<1>5. \A d \in Calls \ {c} : call[d].v = v => call[d].pc \notin LockedPCs
  BY OthersAreNotAtIt
<1>6. /\ heap' \in [Objects -> ObjectRecords] /\ heap'[v] = x
      /\ \A o \in Objects : o # v => heap'[o] = heap[o]
  BY <1>1, <1>4 DEF ManagerTyped
<1>7. call[c].pc # "store"
  BY <1>1 DEF ManagerTyped
<1>8. r.v = v <=> r.pc \notin {"idle", "refresh"}
  OBVIOUS
<1>9. \A d \in Calls : call[d].pc \in LockedPCs => call[d].v \in Objects
  BY <1>1 DEF ManagerTyped, LockedPCs, CallRecords
<1> HIDE DEF v
<1>10. ManagerTyped'
  <2>1. \A d \in Calls : call'[d].v = None <=> call'[d].pc \in {"idle", "refresh", "store"}
    BY <1>1, <1>2 DEF ManagerTyped
  <2> QED
    BY <1>1, <1>2, <1>6, <2>1 DEF ManagerTyped
<1>11. LocksOK'
  <2>1. ASSUME NEW o \in Objects, NEW d \in Calls
        PROVE  heap'[o].mutex = d <=> call'[d].v = o /\ call'[d].pc \in LockedPCs
    <3>1. heap[o].mutex = d <=> call[d].v = o /\ call[d].pc \in LockedPCs
      BY <1>1 DEF LocksOK
    <3>2. CASE d = c /\ o = v
      BY <1>2, <1>3, <1>6, <1>8, <3>2 DEF LockedPCs
    <3>3. CASE d = c /\ o # v
      <4>1. heap'[o].mutex # c
        BY <1>6, <3>1, <3>3 DEF v
      <4>2. r.v # o
        BY <1>3, <3>3 DEF v
      <4> QED
        BY <1>2, <3>3, <4>1, <4>2
    <3>4. CASE d # c /\ o = v
      <4>1. x.mutex # d
        BY <1>3, <3>4
      <4> QED
        BY <1>2, <1>5, <1>6, <3>4, <4>1
    <3>5. CASE d # c /\ o # v
      BY <1>2, <1>6, <3>1, <3>5
    <3> QED
      BY <3>2, <3>3, <3>4, <3>5
  <2>2. \A d \in Calls : rmMutex' = d <=> call'[d].pc = "store"
    BY <1>1, <1>2, <1>7 DEF LocksOK
  <2> QED
    BY <2>1, <2>2 DEF LocksOK
<1>12. HandlesOK'
  <2> SUFFICES ASSUME NEW o \in Objects
               PROVE  /\ ~heap'[o].isProvisioned => heap'[o].gpu = None /\ ~heap'[o].computeInstance
                      /\ heap'[o].gpu \in Physical => heap'[o].gpuInstance = None
                      /\ heap'[o].gpu \in Slots => heap'[o].gpuInstance = heap'[o].gpu \/ Forgetting(o)'
    BY DEF HandlesOK
  <2>1. CASE o = v
    <3>1. r.pc = "forget" => Forgetting(o)'
      BY <1>2, <1>8, <2>1 DEF Forgetting
    <3> QED
      BY <1>6, <2>1, <3>1 DEF Suits
  <2>2. CASE o # v
    <3>1. Forgetting(o) => Forgetting(o)'
      BY <1>2, <2>2 DEF Forgetting, v
    <3> QED
      BY <1>1, <1>6, <2>2, <3>1 DEF HandlesOK
  <2> QED
    BY <2>1, <2>2
<1>13. ProgressOK'
  <2> SUFFICES ASSUME NEW d \in Calls
               PROVE  /\ call'[d].pc = "compute" =>
                            ~heap'[call'[d].v].isProvisioned /\ heap'[call'[d].v].gpuInstance \in Slots
                      /\ call'[d].pc = "query" =>
                            /\ heap'[call'[d].v].isProvisioned /\ heap'[call'[d].v].computeInstance
                            /\ heap'[call'[d].v].gpu = None /\ heap'[call'[d].v].gpuInstance \in Slots
                      /\ call'[d].pc \in {"releaseStopped", "destroyCI", "destroyGI", "forget"} =>
                            heap'[call'[d].v].gpu \in Slots
                      /\ call'[d].pc \in {"destroyGI", "forget"} => ~heap'[call'[d].v].computeInstance
                      /\ call'[d].pc = "forget" => heap'[call'[d].v].gpuInstance = None
    BY DEF ProgressOK, V
  <2>1. CASE d = c
    <3>1. r.pc \in LockedPCs => r.v = v
      BY <1>8 DEF LockedPCs
    <3> QED
      BY <1>2, <1>6, <2>1, <3>1 DEF Suits, LockedPCs
  <2>2. CASE d # c /\ call[d].pc \in LockedPCs
    <3>1. call[d].v # v /\ call[d].v \in Objects
      BY <1>5, <1>9, <2>2
    <3> QED
      BY <1>1, <1>2, <1>6, <2>2, <3>1 DEF ProgressOK, V
  <2>3. CASE d # c /\ call[d].pc \notin LockedPCs
    BY <1>2, <2>3 DEF LockedPCs
  <2> QED
    BY <2>1, <2>2, <2>3
<1>14. EntriesNameTheirGpu'
  BY DEF EntriesNameTheirGpu
<1>15. ASSUME NEW o \in Objects, o # v
       PROVE  Claims(o)' <=> Claims(o)
  <2>1. heap'[o] = heap[o]
    BY <1>6, <1>15
  <2>2. \A d \in Calls : call'[d].v = o /\ call'[d].pc = "compute" <=> call[d].v = o /\ call[d].pc = "compute"
    BY <1>2, <1>3, <1>15 DEF v
  <2> QED
    BY <2>1, <2>2 DEF Claims
<1>16. ASSUME NEW o \in Objects, o = v
       PROVE  Claims(o)' <=> /\ x.gpuInstance \in Slots /\ ~x.computeInstance
                             /\ x.isProvisioned \/ r.pc = "compute"
  <2>1. (\E d \in Calls : call'[d].v = o /\ call'[d].pc = "compute") <=> r.pc = "compute"
    BY <1>2, <1>5, <1>8, <1>16 DEF LockedPCs
  <2> QED
    BY <1>6, <1>16, <2>1 DEF Claims
<1>17. OthersStay(c)
  BY <1>2, <1>5, <1>6, <1>9 DEF OthersStay
<1> QED
  BY <1>2, <1>6, <1>10, <1>11, <1>12, <1>13, <1>14, <1>15, <1>16, <1>17 DEF ObjectsInv, v

-----------------------------------------------------------------------------
(***************************************************************************)
(* A refresh                                                               *)
(***************************************************************************)
\* What getAvailableVirtualResources makes for device u.
NewDevice(u) == {ProvisionedObject(u, b) : b \in BOOLEAN}

\* The objects that outlive a refresh: of entries whose device is gone, and those of calls.
Outliving(map, devices) ==
    {map[u] : u \in DOMAIN map \ devices} \cup ({call[d].v : d \in Calls} \ {None})

\* The refresh moves object o to at[o], with all that refers to it, and makes the rest anew.
Moves(at, map, devices) ==
    /\ \A o, q \in Outliving(map, devices) : at[o] = at[q] => o = q
    /\ \A o \in Outliving(map, devices) : heap'[at[o]] = heap[o]
    /\ \A u \in DOMAIN map \ devices : provisionedGPUs'[u] = at[map[u]]
    /\ \A a \in Objects :
          \/ \E o \in Outliving(map, devices) : a = at[o]
          \/ heap'[a] = Unprovisioned
          \/ \E u \in devices : heap'[a] \in NewDevice(u)
    /\ call' = [d \in Calls |->
          IF call[d].pc = "store" THEN NotServed
          ELSE [call[d] EXCEPT !.v = IF @ = None THEN None ELSE at[@]]]

\* The object that is made for a device.
LEMMA NewDeviceIs ==
    ASSUME NEW u \in UUIDs, NEW x \in NewDevice(u)
    PROVE  /\ x \in ObjectRecords /\ x.isProvisioned /\ x.gpu = u /\ x.mutex = None
           /\ u \in Slots => x.gpuInstance = u /\ x.computeInstance
           /\ u \notin Slots => x.gpuInstance = None
<1>1. PICK b \in BOOLEAN : x = ProvisionedObject(u, b)
  BY DEF NewDevice
<1>2. /\ u \in Slots \/ u \notin Slots
      /\ (u \in Slots) \in BOOLEAN
  OBVIOUS
<1>3. (IF u \in Slots THEN u ELSE None) \in Slots \cup {None}
  OBVIOUS
<1> QED
  BY <1>1, <1>2, <1>3 DEF ProvisionedObject, ObjectRecords

\* The new addresses differ from each other and from those of the devices that were found.
LEMMA NewAddressesDiffer ==
    ASSUME ManagerTyped, NEW map, NEW devices \in SUBSET UUIDs, DOMAIN map \subseteq UUIDs,
           \A u \in DOMAIN map : map[u] \in Objects /\ heap[map[u]].gpu = u
    PROVE  /\ \A o \in Outliving(map, devices) :
                 /\ NewAddress(o, map, devices) \in Objects
                 /\ \A u \in devices : NewAddress(o, map, devices) # <<"device", u>>
           /\ \A o, q \in Outliving(map, devices) :
                 NewAddress(o, map, devices) = NewAddress(q, map, devices) => o = q
           /\ \A u \in DOMAIN map \ devices : NewAddress(map[u], map, devices) = <<"device", u>>
<1> DEFINE gone == DOMAIN map \ devices
           inMap(o) == \E u \in gone : map[u] = o
           key(o) == CHOOSE u \in gone : map[u] = o
           holder(o) == CHOOSE d \in Calls : call[d].v = o
<1>1. \A o : NewAddress(o, map, devices) =
              IF inMap(o) THEN <<"device", key(o)>> ELSE <<"held", holder(o)>>
  BY DEF NewAddress
<1>2. ASSUME NEW o, inMap(o)
      PROVE  key(o) \in gone /\ map[key(o)] = o
  BY <1>2
<1>3. ASSUME NEW o \in Outliving(map, devices), ~inMap(o)
      PROVE  holder(o) \in Calls /\ call[holder(o)].v = o
  <2>1. \E d \in Calls : call[d].v = o
    BY <1>3 DEF Outliving
  <2> QED
    BY <2>1
<1>4. \A u \in gone : inMap(map[u]) /\ key(map[u]) = u
  <2> SUFFICES ASSUME NEW u \in gone PROVE inMap(map[u]) /\ key(map[u]) = u
    OBVIOUS
  <2>1. inMap(map[u])
    OBVIOUS
  <2>2. key(map[u]) \in gone /\ map[key(map[u])] = map[u]
    BY <1>2, <2>1
  <2> QED
    BY <2>1, <2>2
<1>5. gone \subseteq UUIDs /\ \A u \in devices : u \notin gone
  OBVIOUS
<1> HIDE DEF gone, inMap, key, holder
<1>6. ASSUME NEW o \in Outliving(map, devices)
      PROVE  /\ NewAddress(o, map, devices) \in Objects
             /\ \A u \in devices : NewAddress(o, map, devices) # <<"device", u>>
  <2>1. CASE inMap(o)
    BY <1>1, <1>2, <1>5, <2>1 DEF Objects
  <2>2. CASE ~inMap(o)
    BY <1>1, <1>3, <2>2 DEF Objects
  <2> QED
    BY <2>1, <2>2
<1>7. ASSUME NEW o \in Outliving(map, devices), NEW q \in Outliving(map, devices),
             NewAddress(o, map, devices) = NewAddress(q, map, devices)
      PROVE  o = q
  <2>1. CASE inMap(o) /\ inMap(q)
    <3>1. key(o) = key(q)
      BY <1>1, <1>7, <2>1
    <3> QED
      BY <1>2, <2>1, <3>1
  <2>2. CASE ~inMap(o) /\ ~inMap(q)
    <3>1. holder(o) = holder(q)
      BY <1>1, <1>7, <2>2
    <3> QED
      BY <1>3, <2>2, <3>1
  <2>3. CASE inMap(o) /\ ~inMap(q)
    BY <1>1, <1>7, <2>3
  <2>4. CASE ~inMap(o) /\ inMap(q)
    BY <1>1, <1>7, <2>4
  <2> QED
    BY <2>1, <2>2, <2>3, <2>4
<1>8. \A u \in DOMAIN map \ devices : NewAddress(map[u], map, devices) = <<"device", u>>
  BY <1>1, <1>4 DEF gone
<1> QED
  BY <1>6, <1>7, <1>8

\* A refresh makes new objects for the devices it found, and moves every other object that is
\* referred to, once, with all that refers to it.
LEMMA DiscoverMoves ==
    ASSUME ManagerTyped, NEW map, NEW scan \in SUBSET Slots, DOMAIN map \subseteq UUIDs,
           \A u \in DOMAIN map : map[u] \in Objects /\ heap[map[u]].gpu = u,
           NEW enabled, Discover(scan, map, enabled),
           NEW devices, devices = scan \cup Physical, NEW outliving, outliving = Outliving(map, devices)
    PROVE  /\ DOMAIN provisionedGPUs' = devices \cup DOMAIN map
           /\ virtualGPUs' \subseteq Objects
           /\ heap' \in [Objects -> ObjectRecords]
           /\ \A u \in devices :
                 provisionedGPUs'[u] \in Objects /\ heap'[provisionedGPUs'[u]] \in NewDevice(u)
           /\ \E at \in [outliving -> Objects] : Moves(at, map, devices)
<1> DEFINE N(o) == NewAddress(o, map, devices)
           at == [o \in outliving |-> N(o)]
           moved(a) == {o \in outliving : N(o) = a}
           new(u) == ProvisionedObject(u, u \in enabled)
<1>1. devices \subseteq UUIDs
  BY DEF UUIDs
<1>2. /\ \A o \in outliving : N(o) \in Objects /\ \A u \in devices : N(o) # <<"device", u>>
      /\ \A o, q \in outliving : N(o) = N(q) => o = q
      /\ \A u \in DOMAIN map \ devices : N(map[u]) = <<"device", u>>
  <2>1. devices \in SUBSET UUIDs
    BY <1>1
  <2>2. /\ \A o \in Outliving(map, devices) :
              /\ NewAddress(o, map, devices) \in Objects
              /\ \A u \in devices : NewAddress(o, map, devices) # <<"device", u>>
        /\ \A o, q \in Outliving(map, devices) :
              NewAddress(o, map, devices) = NewAddress(q, map, devices) => o = q
        /\ \A u \in DOMAIN map \ devices : NewAddress(map[u], map, devices) = <<"device", u>>
    BY <2>1, NewAddressesDiffer
  <2> QED
    BY <2>2
<1>3. \A o \in outliving : o \in Objects /\ o # None
  BY ConfiguratorAssumption DEF Outliving, ManagerTyped, CallRecords
<1>4. \A d \in Calls : call[d].v # None => call[d].v \in outliving
  BY DEF Outliving
<1>5. \A u \in DOMAIN map \ devices : map[u] \in outliving
  BY DEF Outliving
<1>6. /\ virtualGPUs' = Found(devices)
      /\ provisionedGPUs' = Entries(devices, map)
      /\ heap' = [a \in Objects |->
            IF a[1] = "device" /\ a[2] \in devices THEN new(a[2])
            ELSE IF moved(a) # {} THEN heap[CHOOSE o \in moved(a) : TRUE] ELSE Unprovisioned]
      /\ call' = [d \in Calls |->
            [(IF call[d].pc = "store" THEN NotServed ELSE call[d]) EXCEPT
                !.v = IF @ = None THEN None ELSE N(@)]]
  BY DEF Discover, Outliving
<1>7. \A u \in devices : new(u) \in NewDevice(u)
  <2> SUFFICES ASSUME NEW u \in devices PROVE new(u) \in NewDevice(u)
    OBVIOUS
  <2>1. ProvisionedObject(u, TRUE) \in NewDevice(u) /\ ProvisionedObject(u, FALSE) \in NewDevice(u)
    BY DEF NewDevice
  <2>2. CASE u \in enabled
    <3>1. (u \in enabled) = TRUE
      BY <2>2
    <3> QED
      BY <2>1, <3>1
  <2>3. CASE u \notin enabled
    <3>1. (u \in enabled) = FALSE
      BY <2>3
    <3> QED
      BY <2>1, <3>1
  <2> QED
    BY <2>2, <2>3
<1>8. \A u \in devices : new(u) \in NewDevice(u) /\ new(u) \in ObjectRecords
  BY <1>1, <1>7, NewDeviceIs
<1>9. \A u \in UUIDs : <<"device", u>> \in Objects
  BY DEF Objects
<1>10. Unprovisioned \in ObjectRecords
  BY DEF Unprovisioned, ObjectRecords
<1>11. \A a \in Objects : \A o \in moved(a) : (CHOOSE q \in moved(a) : TRUE) = o
  BY <1>2
<1>12. \A a \in Objects : moved(a) # {} => \E o \in outliving : a = N(o) /\ (CHOOSE q \in moved(a) : TRUE) = o
  BY <1>11
<1>13. \A o \in outliving : moved(N(o)) # {} /\ (CHOOSE q \in moved(N(o)) : TRUE) = o
  BY <1>2, <1>11
<1>14. virtualGPUs' \subseteq Objects
  BY <1>1, <1>6 DEF Found, Objects
<1>15. /\ DOMAIN provisionedGPUs' = devices \cup DOMAIN map
       /\ \A u \in devices \cup DOMAIN map : provisionedGPUs'[u] = <<"device", u>>
  BY <1>6 DEF Entries
<1> HIDE DEF N, moved, new
<1>16. \A u \in devices : heap'[<<"device", u>>] = new(u)
  <2> SUFFICES ASSUME NEW u \in devices, NEW a, a = <<"device", u>>
               PROVE  heap'[a] = new(u)
    OBVIOUS
  <2>1. a \in Objects /\ a[1] = "device" /\ a[2] = u
    BY <1>1, <1>9
  <2> QED
    BY <1>6, <2>1
<1>17. \A a \in Objects : a[1] = "device" => a = <<"device", a[2]>>
  BY DEF Objects
<1>18. \A o \in outliving : heap'[N(o)] = heap[o]
  <2> SUFFICES ASSUME NEW o \in outliving, NEW a, a = N(o)
               PROVE  heap'[a] = heap[o]
    OBVIOUS
  <2>1. a \in Objects /\ ~(a[1] = "device" /\ a[2] \in devices)
    BY <1>2, <1>17
  <2> QED
    BY <1>6, <1>13, <2>1
<1>19. \A a \in Objects :
          \/ \E o \in outliving : a = N(o)
          \/ heap'[a] = Unprovisioned
          \/ \E u \in devices : heap'[a] \in NewDevice(u)
  <2> SUFFICES ASSUME NEW a \in Objects
               PROVE  \/ \E o \in outliving : a = N(o)
                      \/ heap'[a] = Unprovisioned
                      \/ \E u \in devices : heap'[a] \in NewDevice(u)
    OBVIOUS
  <2>1. CASE a[1] = "device" /\ a[2] \in devices
    BY <1>6, <1>8, <2>1
  <2>2. CASE ~(a[1] = "device" /\ a[2] \in devices) /\ moved(a) # {}
    BY <1>12, <2>2
  <2>3. CASE ~(a[1] = "device" /\ a[2] \in devices) /\ moved(a) = {}
    BY <1>6, <2>3
  <2> QED
    BY <2>1, <2>2, <2>3
<1>20. heap' \in [Objects -> ObjectRecords]
  <2>1. \A a \in Objects : heap'[a] \in ObjectRecords
    <3>1. \A o \in outliving : heap[o] \in ObjectRecords
      BY <1>3 DEF ManagerTyped
    <3>2. \A u \in devices : \A x \in NewDevice(u) : x \in ObjectRecords
      BY <1>1, NewDeviceIs
    <3> SUFFICES ASSUME NEW a \in Objects PROVE heap'[a] \in ObjectRecords
      OBVIOUS
    <3>3. CASE \E o \in outliving : a = N(o)
      BY <1>18, <3>1, <3>3, Zenon
    <3>4. CASE heap'[a] = Unprovisioned
      BY <1>10, <3>4
    <3>5. CASE \E u \in devices : heap'[a] \in NewDevice(u)
      BY <3>2, <3>5, Zenon
    <3> QED
      BY <1>19, <3>3, <3>4, <3>5, Zenon
  <2>2. heap' = [a \in Objects |-> heap'[a]]
    BY <1>6
  <2> QED
    BY <2>1, <2>2
<1>21. at \in [outliving -> Objects] /\ \A o \in outliving : at[o] = N(o)
  BY <1>2
<1>22. call' = [d \in Calls |->
          IF call[d].pc = "store" THEN NotServed
          ELSE [call[d] EXCEPT !.v = IF @ = None THEN None ELSE at[@]]]
  <2>1. [NotServed EXCEPT !.v = IF @ = None THEN None ELSE N(@)] = NotServed
    BY DEF NotServed
  <2>2. \A d \in Calls : (IF call[d].v = None THEN None ELSE N(call[d].v))
                         = IF call[d].v = None THEN None ELSE at[call[d].v]
    BY <1>4, <1>21
  <2> HIDE DEF at
  <2>3. \A d \in Calls :
          [(IF call[d].pc = "store" THEN NotServed ELSE call[d]) EXCEPT
                !.v = IF @ = None THEN None ELSE N(@)]
          = IF call[d].pc = "store" THEN NotServed
            ELSE [call[d] EXCEPT !.v = IF @ = None THEN None ELSE at[@]]
    BY <2>1, <2>2
  <2> QED
    BY <1>6, <2>3
<1>23. \A u \in devices : provisionedGPUs'[u] \in Objects /\ heap'[provisionedGPUs'[u]] \in NewDevice(u)
  BY <1>1, <1>8, <1>9, <1>15, <1>16
<1>24. \A u \in DOMAIN map \ devices : provisionedGPUs'[u] = at[map[u]]
  BY <1>2, <1>5, <1>15, <1>21
<1>25. /\ \A o, q \in outliving : at[o] = at[q] => o = q
       /\ \A o \in outliving : heap'[at[o]] = heap[o]
       /\ \A a \in Objects :
            \/ \E o \in outliving : a = at[o]
            \/ heap'[a] = Unprovisioned
            \/ \E u \in devices : heap'[a] \in NewDevice(u)
  BY <1>2, <1>18, <1>19, <1>21
<1> HIDE DEF at
<1>26. Moves(at, map, devices)
  BY <1>22, <1>24, <1>25 DEF Moves
<1> QED
  BY <1>14, <1>15, <1>20, <1>21, <1>23, <1>26

\* A refresh keeps the objects consistent with the calls, and no claim is new or doubled.
LEMMA DiscoverKeeps ==
    ASSUME ObjectsInv, ClaimsOK, NEW map, NEW scan \in SUBSET Slots, DOMAIN map \subseteq UUIDs,
           \A u \in DOMAIN map : map[u] \in Objects /\ heap[map[u]].gpu = u,
           NEW enabled, Discover(scan, map, enabled), rmMutex' = None,
           UNCHANGED <<instances, computes>>
    PROVE  /\ ObjectsInv' /\ ClaimsOK'
           /\ DOMAIN provisionedGPUs' = scan \cup Physical \cup DOMAIN map
           /\ \A d \in Calls :
                 IF call[d].pc = "store" THEN call'[d].pc = "idle"
                 ELSE /\ call'[d].pc = call[d].pc /\ call'[d].scan = call[d].scan
                      /\ call[d].v # None => heap'[call'[d].v] = heap[call[d].v]
<1> DEFINE devices == scan \cup Physical
           outliving == Outliving(map, devices)
<1>1. /\ ManagerTyped /\ LocksOK /\ HandlesOK /\ ProgressOK /\ EntriesNameTheirGpu
  BY DEF ObjectsInv
<1>2. /\ DOMAIN provisionedGPUs' = devices \cup DOMAIN map
      /\ virtualGPUs' \subseteq Objects
      /\ heap' \in [Objects -> ObjectRecords]
      /\ \A u \in devices :
            provisionedGPUs'[u] \in Objects /\ heap'[provisionedGPUs'[u]] \in NewDevice(u)
      /\ \E at \in [outliving -> Objects] : Moves(at, map, devices)
  BY <1>1, DiscoverMoves
<1>3. PICK at \in [outliving -> Objects] : Moves(at, map, devices)
  BY <1>2
<1> HIDE DEF outliving
<1>3a. /\ \A o, q \in outliving : at[o] = at[q] => o = q
       /\ \A o \in outliving : heap'[at[o]] = heap[o]
       /\ \A o \in outliving : at[o] \in Objects
       /\ \A u \in DOMAIN map \ devices : provisionedGPUs'[u] = at[map[u]]
       /\ \A a \in Objects :
             \/ \E o \in outliving : a = at[o]
             \/ heap'[a] = Unprovisioned
             \/ \E u \in devices : heap'[a] \in NewDevice(u)
  BY <1>3 DEF Moves, outliving
<1>3b. call' = [d \in Calls |->
          IF call[d].pc = "store" THEN NotServed
          ELSE [call[d] EXCEPT !.v = IF @ = None THEN None ELSE at[@]]]
  BY <1>3 DEF Moves
<1>4. None \notin Objects /\ None \notin Calls /\ None \notin UUIDs /\ Slots \cap Physical = {}
  BY ConfiguratorAssumption DEF UUIDs
<1>5. devices \subseteq UUIDs
  BY DEF UUIDs
<1>6. \A o \in outliving : o \in Objects
  BY <1>1, <1>4 DEF outliving, Outliving, ManagerTyped, CallRecords
<1>7. \A d \in Calls : call[d].v # None => call[d].v \in outliving
  BY DEF outliving, Outliving
<1>8. \A u \in DOMAIN map \ devices : map[u] \in outliving
  BY DEF outliving, Outliving
<1>9. ASSUME NEW d \in Calls
      PROVE  /\ call[d].pc = "store" => call'[d] = NotServed
             /\ call[d].pc # "store" =>
                   /\ call'[d].method = call[d].method /\ call'[d].pc = call[d].pc
                   /\ call'[d].useMps = call[d].useMps /\ call'[d].m = call[d].m
                   /\ call'[d].scan = call[d].scan /\ call'[d].at = call[d].at
                   /\ call'[d].old = call[d].old
                   /\ call'[d].v = IF call[d].v = None THEN None ELSE at[call[d].v]
             /\ call'[d] \in CallRecords
  <2>1. call[d] \in CallRecords
    BY <1>1 DEF ManagerTyped
  <2>2. (IF call[d].v = None THEN None ELSE at[call[d].v]) \in Objects \cup {None}
    BY <1>7, <1>3a
  <2>3. NotServed \in CallRecords
    BY DEF NotServed, CallRecords, CallPCs
  <2> QED
    BY <1>3b, <2>1, <2>2, <2>3 DEF CallRecords
<1>10. \A d \in Calls : call[d].pc = "store" => call[d].v = None
  BY <1>1 DEF ManagerTyped
<1>11. ASSUME NEW d \in Calls, NEW o \in outliving
       PROVE  call'[d].v = at[o] <=> call[d].v = o
  <2>1. at[o] # None /\ o # None
    BY <1>4, <1>6, <1>3a
  <2>2. CASE call[d].pc = "store"
    BY <1>9, <1>10, <2>1, <2>2 DEF NotServed
  <2>3. CASE call[d].pc # "store"
    BY <1>3a, <1>7, <1>9, <2>1, <2>3
  <2> QED
    BY <2>2, <2>3
<1>12. ASSUME NEW d \in Calls, call'[d].v # None
       PROVE  /\ call[d].v \in outliving /\ call'[d].v = at[call[d].v] /\ call'[d].pc = call[d].pc
              /\ heap'[call'[d].v] = heap[call[d].v]
  <2>1. call[d].pc # "store"
    BY <1>9, <1>12 DEF NotServed
  <2> QED
    BY <1>3a, <1>7, <1>9, <1>12, <2>1
<1>13. \A d \in Calls : call[d].pc # "store" /\ call[d].v # None => call'[d].v # None
  BY <1>4, <1>7, <1>9, <1>3a
<1>14. \A u \in devices : \A x \in NewDevice(u) :
           /\ x.isProvisioned /\ x.gpu = u /\ x.mutex = None
           /\ u \in Slots => x.gpuInstance = u /\ x.computeInstance
           /\ u \notin Slots => x.gpuInstance = None
  BY <1>5, NewDeviceIs
<1>15. /\ Unprovisioned.isProvisioned = FALSE /\ Unprovisioned.gpu = None /\ Unprovisioned.mutex = None
       /\ Unprovisioned.gpuInstance = None /\ Unprovisioned.computeInstance = FALSE
  BY DEF Unprovisioned
<1>16. ASSUME NEW a \in Objects
       PROVE  \/ \E o \in outliving : a = at[o] /\ heap'[a] = heap[o]
              \/ heap'[a] = Unprovisioned
              \/ \E u \in devices : heap'[a] \in NewDevice(u)
  BY <1>3a
<1>17. ManagerTyped'
  <2>1. call' \in [Calls -> CallRecords]
    <3>1. call' = [d \in Calls |-> call'[d]]
      BY <1>3b
    <3> QED
      BY <1>9, <3>1
  <2>2. \A d \in Calls : call'[d].v = None <=> call'[d].pc \in {"idle", "refresh", "store"}
    <3> SUFFICES ASSUME NEW d \in Calls
                 PROVE  call'[d].v = None <=> call'[d].pc \in {"idle", "refresh", "store"}
      OBVIOUS
    <3>1. CASE call[d].pc = "store"
      BY <1>9, <3>1 DEF NotServed
    <3>2. CASE call[d].pc # "store"
      <4>1. call'[d].v = None <=> call[d].v = None
        BY <1>9, <1>13, <3>2
      <4> QED
        BY <1>1, <1>9, <3>2, <4>1 DEF ManagerTyped
    <3> QED
      BY <3>1, <3>2
  <2>3. DOMAIN provisionedGPUs' \subseteq UUIDs
    BY <1>2, <1>5
  <2>4. \A u \in DOMAIN provisionedGPUs' : provisionedGPUs'[u] \in Objects
    BY <1>2, <1>3a, <1>8
  <2> QED
    BY <1>2, <2>1, <2>2, <2>3, <2>4 DEF ManagerTyped
<1>18. LocksOK'
  <2>1. ASSUME NEW a \in Objects, NEW d \in Calls
        PROVE  heap'[a].mutex = d <=> call'[d].v = a /\ call'[d].pc \in LockedPCs
    <3>1. CASE \E o \in outliving : a = at[o]
      <4>1. PICK o \in outliving : a = at[o]
        BY <3>1
      <4>2. heap[o].mutex = d <=> call[d].v = o /\ call[d].pc \in LockedPCs
        BY <1>1, <1>6 DEF LocksOK
      <4>3. call'[d].v = a <=> call[d].v = o
        BY <1>11, <4>1
      <4>4. call'[d].v = a => call'[d].pc = call[d].pc
        BY <1>4, <1>12
      <4> QED
        BY <1>3a, <4>1, <4>2, <4>3, <4>4
    <3>2. CASE ~\E o \in outliving : a = at[o]
      <4>1. heap'[a].mutex = None
        BY <1>14, <1>15, <1>16, <3>2
      <4>2. call'[d].v # a
        BY <1>4, <1>12, <3>2
      <4> QED
        BY <1>4, <4>1, <4>2
    <3> QED
      BY <3>1, <3>2
  <2>2. \A d \in Calls : rmMutex' = d <=> call'[d].pc = "store"
    BY <1>4, <1>9 DEF NotServed
  <2> QED
    BY <2>1, <2>2 DEF LocksOK
<1>19. HandlesOK'
  <2> SUFFICES ASSUME NEW a \in Objects
               PROVE  /\ ~heap'[a].isProvisioned => heap'[a].gpu = None /\ ~heap'[a].computeInstance
                      /\ heap'[a].gpu \in Physical => heap'[a].gpuInstance = None
                      /\ heap'[a].gpu \in Slots => heap'[a].gpuInstance = heap'[a].gpu \/ Forgetting(a)'
    BY DEF HandlesOK
  <2>1. CASE \E o \in outliving : a = at[o] /\ heap'[a] = heap[o]
    <3>1. PICK o \in outliving : a = at[o] /\ heap'[a] = heap[o]
      BY <2>1
    <3>2. Forgetting(o) => Forgetting(a)'
      BY <1>9, <1>11, <3>1 DEF Forgetting
    <3> QED
      BY <1>1, <1>6, <3>1, <3>2 DEF HandlesOK
  <2>2. CASE heap'[a] = Unprovisioned
    BY <1>4, <1>15, <2>2 DEF UUIDs
  <2>3. CASE \E u \in devices : heap'[a] \in NewDevice(u)
    BY <1>4, <1>14, <2>3
  <2> QED
    BY <1>16, <2>1, <2>2, <2>3
<1>20. ProgressOK'
  <2> SUFFICES ASSUME NEW d \in Calls
               PROVE  /\ call'[d].pc = "compute" =>
                            ~heap'[call'[d].v].isProvisioned /\ heap'[call'[d].v].gpuInstance \in Slots
                      /\ call'[d].pc = "query" =>
                            /\ heap'[call'[d].v].isProvisioned /\ heap'[call'[d].v].computeInstance
                            /\ heap'[call'[d].v].gpu = None /\ heap'[call'[d].v].gpuInstance \in Slots
                      /\ call'[d].pc \in {"releaseStopped", "destroyCI", "destroyGI", "forget"} =>
                            heap'[call'[d].v].gpu \in Slots
                      /\ call'[d].pc \in {"destroyGI", "forget"} => ~heap'[call'[d].v].computeInstance
                      /\ call'[d].pc = "forget" => heap'[call'[d].v].gpuInstance = None
    BY DEF ProgressOK, V
  <2>1. CASE call'[d].v = None
    <3>1. call'[d].pc \in {"idle", "refresh", "store"}
      BY <1>17, <2>1 DEF ManagerTyped
    <3> QED
      BY <3>1
  <2>2. CASE call'[d].v # None
    <3>1. call'[d].pc = call[d].pc /\ heap'[call'[d].v] = heap[call[d].v]
      BY <1>12, <2>2
    <3> QED
      BY <1>1, <3>1 DEF ProgressOK, V
  <2> QED
    BY <2>1, <2>2
<1>21. EntriesNameTheirGpu'
  <2>1. \A u \in devices : heap'[provisionedGPUs'[u]].gpu = u
    BY <1>2, <1>14
  <2>2. \A u \in DOMAIN map \ devices : heap'[provisionedGPUs'[u]].gpu = u
    BY <1>3a, <1>8
  <2> QED
    BY <1>2, <2>1, <2>2 DEF EntriesNameTheirGpu
<1>22. ASSUME NEW a \in Objects, Claims(a)'
       PROVE  \E o \in outliving : a = at[o] /\ heap'[a] = heap[o] /\ Claims(o)
  <2>1. heap'[a].gpuInstance \in Slots /\ ~heap'[a].computeInstance
    BY <1>22 DEF Claims
  <2>2. heap'[a] # Unprovisioned
    BY <1>4, <1>15, <2>1 DEF UUIDs
  <2>3. ~\E u \in devices : heap'[a] \in NewDevice(u)
    BY <1>4, <1>14, <2>1 DEF UUIDs
  <2>4. PICK o \in outliving : a = at[o] /\ heap'[a] = heap[o]
    BY <1>16, <2>2, <2>3
  <2>5. (\E d \in Calls : call'[d].v = a /\ call'[d].pc = "compute") =>
           \E d \in Calls : call[d].v = o /\ call[d].pc = "compute"
    BY <1>4, <1>11, <1>12, <2>4
  <2>6. Claims(o)
    BY <1>22, <2>4, <2>5 DEF Claims
  <2> QED
    BY <2>4, <2>6
<1>23. ClaimsOK'
  <2>1. ASSUME NEW a \in Objects, Claims(a)'
        PROVE  heap'[a].gpuInstance \in instances' \ computes'
    <3>1. PICK o \in outliving : a = at[o] /\ heap'[a] = heap[o] /\ Claims(o)
      BY <1>22, <2>1
    <3> QED
      BY <1>6, <3>1 DEF ClaimsOK
  <2>2. ASSUME NEW a \in Objects, NEW b \in Objects, Claims(a)', Claims(b)',
               heap'[a].gpuInstance = heap'[b].gpuInstance
        PROVE  a = b
    <3>1. PICK o \in outliving : a = at[o] /\ heap'[a] = heap[o] /\ Claims(o)
      BY <1>22, <2>2
    <3>2. PICK q \in outliving : b = at[q] /\ heap'[b] = heap[q] /\ Claims(q)
      BY <1>22, <2>2
    <3> QED
      BY <1>6, <2>2, <3>1, <3>2 DEF ClaimsOK
  <2> QED
    BY <2>1, <2>2 DEF ClaimsOK
<1>24. ASSUME NEW d \in Calls
       PROVE  IF call[d].pc = "store" THEN call'[d].pc = "idle"
              ELSE /\ call'[d].pc = call[d].pc /\ call'[d].scan = call[d].scan
                   /\ call[d].v # None => heap'[call'[d].v] = heap[call[d].v]
  BY <1>9, <1>12, <1>13 DEF NotServed
<1> QED
  BY <1>2, <1>17, <1>18, <1>19, <1>20, <1>21, <1>23, <1>24 DEF ObjectsInv

-----------------------------------------------------------------------------
(***************************************************************************)
(* The hardware while a call takes a step                                  *)
(***************************************************************************)
IncompleteFailure == {"crash", "query", "destroyGI"}

\* The instances without a compute instance keep their calls, but for what call c does.
LEMMA OwnersStay ==
    ASSUME OwnersOK, NEW c \in Calls, OthersStay(c), happened \in {happened', None},
           \A s \in instances' \ computes' :
              \/ call'[c].pc \in {"compute", "destroyGI"} /\ heap'[call'[c].v].gpuInstance = s
              \/ happened' \in IncompleteFailure
              \/ /\ s \in instances \ computes
                 /\ ~(call[c].pc \in {"compute", "destroyGI"} /\ V(c).gpuInstance = s)
    PROVE  OwnersOK'
<1>1. SUFFICES ASSUME NEW s \in instances' \ computes', happened' \notin IncompleteFailure
               PROVE  \E d \in Calls : call'[d].pc \in {"compute", "destroyGI"} /\ heap'[call'[d].v].gpuInstance = s
  BY DEF OwnersOK, V, IncompleteFailure
<1>2. CASE call'[c].pc \in {"compute", "destroyGI"} /\ heap'[call'[c].v].gpuInstance = s
  BY <1>2
<1>3. CASE /\ s \in instances \ computes
           /\ ~(call[c].pc \in {"compute", "destroyGI"} /\ V(c).gpuInstance = s)
  <2>1. happened \notin IncompleteFailure
    BY <1>1, ConfiguratorAssumption DEF IncompleteFailure, FailureKinds
  <2>2. PICK d \in Calls : call[d].pc \in {"compute", "destroyGI"} /\ V(d).gpuInstance = s
    BY <1>3, <2>1 DEF OwnersOK, IncompleteFailure
  <2>3. d # c /\ call[d].pc \in LockedPCs
    BY <1>3, <2>2 DEF LockedPCs
  <2>4. call'[d] = call[d] /\ heap'[call[d].v].gpuInstance = heap[call[d].v].gpuInstance
    BY <2>3 DEF OthersStay
  <2> QED
    BY <2>2, <2>4 DEF V
<1> QED
  BY <1>1, <1>2, <1>3

\* The devices stay listed or owed to a call that will list them.
LEMMA ListingStays ==
    ASSUME ListedOK, NEW c \in Calls, OthersStay(c), up, up' = up,
           Physical \subseteq DOMAIN provisionedGPUs',
           \A s \in computes' :
              \/ s \in DOMAIN provisionedGPUs'
              \/ call'[c].pc \in {"mps", "refresh", "forget"}
              \/ call'[c].pc = "store" /\ s \in call'[c].scan
              \/ call'[c].pc = "query" /\ heap'[call'[c].v].gpuInstance = s
              \/ s \in computes \ DOMAIN provisionedGPUs /\ ~WillList(c, s)
    PROVE  ListedOK'
<1>1. SUFFICES ASSUME NEW s \in computes', s \notin DOMAIN provisionedGPUs'
               PROVE  \E d \in Calls : WillList(d, s)'
  BY DEF ListedOK
<1>2. CASE \/ call'[c].pc \in {"mps", "refresh", "forget"}
           \/ call'[c].pc = "store" /\ s \in call'[c].scan
           \/ call'[c].pc = "query" /\ heap'[call'[c].v].gpuInstance = s
  BY <1>2 DEF WillList, V
<1>3. CASE s \in computes \ DOMAIN provisionedGPUs /\ ~WillList(c, s)
  <2>1. PICK d \in Calls : WillList(d, s)
    BY <1>3 DEF ListedOK
  <2>2. call'[d] = call[d]
    BY <1>3, <2>1 DEF OthersStay
  <2>3. call[d].pc = "query" => heap'[call[d].v].gpuInstance = heap[call[d].v].gpuInstance
    BY <1>3, <2>1 DEF OthersStay, LockedPCs
  <2> QED
    BY <2>1, <2>2, <2>3 DEF WillList, V
<1> QED
  BY <1>1, <1>2, <1>3

\* Claims are still right when none is new and the instances they are for are where they were.
LEMMA ClaimsStay ==
    ASSUME ClaimsOK,
           \A o \in Objects :
              Claims(o)' => /\ Claims(o) /\ heap'[o].gpuInstance = heap[o].gpuInstance
                            /\ \/ heap[o].gpuInstance \in instances' \ computes'
                               \/ UNCHANGED <<instances, computes>>
    PROVE  ClaimsOK'
BY DEF ClaimsOK

\* A call that has come somewhere has a process.
LEMMA BusyIsUp ==
    ASSUME HardwareInv, NEW c \in Calls, call[c].pc # "idle"
    PROVE  up
BY DEF HardwareInv, HardwareTyped, ListedOK

\* A step of a call that changes neither instances nor entries.
LEMMA HardwareStays ==
    ASSUME HardwareInv, NEW c \in Calls, OthersStay(c), up,
           \A o \in Objects : Claims(o)' => Claims(o) /\ heap'[o].gpuInstance = heap[o].gpuInstance,
           UNCHANGED <<instances, computes, up, provisionedGPUs>>,
           daemons' \subseteq UUIDs, pipes' \subseteq UUIDs,
           happened' \in FailureKinds \cup {None}, happened \in {happened', None},
           call[c].pc \in {"compute", "destroyGI"} /\ V(c).gpuInstance \in instances \ computes
              => happened' \in IncompleteFailure,
           call[c].pc \notin {"store", "query"},
           call[c].pc \in {"mps", "refresh", "forget"} => call'[c].pc \in {"mps", "refresh", "forget"}
    PROVE  HardwareInv'
<1>1. HardwareTyped /\ ClaimsOK /\ OwnersOK /\ ListedOK
  BY DEF HardwareInv
<1>2. HardwareTyped'
  BY <1>1 DEF HardwareTyped
<1>3. ClaimsOK'
  BY <1>1, ClaimsStay
<1>4. OwnersOK'
  BY <1>1, OwnersStay
<1>5. ListedOK'
  <2>1. \A s : WillList(c, s) => call'[c].pc \in {"mps", "refresh", "forget"}
    BY DEF WillList
  <2>2. Physical \subseteq DOMAIN provisionedGPUs'
    BY <1>1 DEF ListedOK
  <2>3. \A s \in computes' :
           \/ s \in DOMAIN provisionedGPUs'
           \/ call'[c].pc \in {"mps", "refresh", "forget"}
           \/ s \in computes \ DOMAIN provisionedGPUs /\ ~WillList(c, s)
    BY <2>1
  <2> QED
    BY <1>1, <2>2, <2>3, ListingStays
<1> QED
  BY <1>2, <1>3, <1>4, <1>5 DEF HardwareInv

-----------------------------------------------------------------------------
(***************************************************************************)
(* A call begins, or goes on without a lock                                *)
(***************************************************************************)
LEMMA CallMoves ==
    ASSUME ObjectsInv, NEW c \in Calls, NEW r \in CallRecords,
           call' = [call EXCEPT ![c] = r], UNCHANGED <<manager, rmMutex>>,
           call[c].pc \notin LockedPCs \cup {"store"}, r.pc \notin LockedPCs \cup {"store"},
           r.v = None <=> r.pc \in {"idle", "refresh"}
    PROVE  /\ ObjectsInv'
           /\ OthersStay(c) /\ call'[c] = r
           /\ \A o \in Objects : Claims(o)' <=> Claims(o)
<1>1. /\ ManagerTyped /\ LocksOK /\ HandlesOK /\ ProgressOK /\ EntriesNameTheirGpu
  BY DEF ObjectsInv
<1>2. /\ call' \in [Calls -> CallRecords] /\ call'[c] = r
      /\ \A d \in Calls \ {c} : call'[d] = call[d]
  BY <1>1, CallGoesOn
<1>3. UNCHANGED heap /\ UNCHANGED virtualGPUs /\ UNCHANGED provisionedGPUs /\ UNCHANGED rmMutex
  BY DEF manager
<1>4. ManagerTyped'
  <2>1. \A d \in Calls : call'[d].v = None <=> call'[d].pc \in {"idle", "refresh", "store"}
    BY <1>1, <1>2 DEF ManagerTyped
  <2> QED
    BY <1>1, <1>2, <1>3, <2>1 DEF ManagerTyped
<1>5. LocksOK'
  <2>1. \A o \in Objects, d \in Calls : heap'[o].mutex = d <=> call'[d].v = o /\ call'[d].pc \in LockedPCs
    BY <1>1, <1>2, <1>3 DEF LocksOK
  <2>2. \A d \in Calls : rmMutex' = d <=> call'[d].pc = "store"
    BY <1>1, <1>2, <1>3 DEF LocksOK
  <2> QED
    BY <2>1, <2>2 DEF LocksOK
<1>6. HandlesOK'
  <2>1. \A o \in Objects : Forgetting(o) => Forgetting(o)'
    BY <1>2 DEF Forgetting, LockedPCs
  <2> QED
    BY <1>1, <1>3, <2>1 DEF HandlesOK
<1>7. ProgressOK'
  <2>1. \A d \in Calls : call'[d].pc \in LockedPCs => d # c /\ call'[d] = call[d]
    BY <1>2
  <2> QED
    BY <1>1, <1>3, <2>1 DEF ProgressOK, V, LockedPCs
<1>8. EntriesNameTheirGpu'
  BY <1>1, <1>3 DEF EntriesNameTheirGpu
<1>9. OthersStay(c)
  BY <1>2, <1>3 DEF OthersStay
<1>10. \A o \in Objects : Claims(o)' <=> Claims(o)
  <2>1. \A o \in Objects : (\E d \in Calls : call'[d].v = o /\ call'[d].pc = "compute") <=>
                              \E d \in Calls : call[d].v = o /\ call[d].pc = "compute"
    BY <1>2 DEF LockedPCs
  <2> QED
    BY <1>3, <2>1 DEF Claims
<1> QED
  BY <1>2, <1>4, <1>5, <1>6, <1>7, <1>8, <1>9, <1>10 DEF ObjectsInv

\* The object that a call begins with is one that the manager knows.
LEMMA StartFindsObject ==
    ASSUME ObjectsInv, NEW c \in Calls, CallStart(c)
    PROVE  \E pc \in {"access", "mps", "release", "enable", "disable", "refresh"},
              v \in Objects \cup {None}, useMps \in BOOLEAN :
              Serve(c, pc, v, useMps) /\ (v = None <=> pc = "refresh")
<1> DEFINE begins == \E pc \in {"access", "mps", "release", "enable", "disable", "refresh"},
              v \in Objects \cup {None}, useMps \in BOOLEAN :
              Serve(c, pc, v, useMps) /\ (v = None <=> pc = "refresh")
<1>1. /\ None \notin Objects /\ UseMps \subseteq BOOLEAN
      /\ virtualGPUs \subseteq Objects
      /\ \A u \in DOMAIN provisionedGPUs : provisionedGPUs[u] \in Objects
  BY ConfiguratorAssumption DEF ObjectsInv, ManagerTyped
<1>2. ASSUME NEW useMps \in UseMps, FindVirtualGPU(c, useMps)
      PROVE  begins
  <2>1. PICK o \in virtualGPUs : Serve(c, "access", o, useMps)
    BY <1>2 DEF FindVirtualGPU
  <2> QED
    BY <1>1, <2>1
<1>3. ASSUME NEW u \in UUIDs, NEW useMps \in UseMps, GetVirtualGPU(c, u, useMps)
      PROVE  begins
  BY <1>1, <1>3 DEF GetVirtualGPU
<1>4. ASSUME NEW u \in UUIDs, ReleaseVirtualGPU(c, u) \/ EnableMPS(c, u) \/ DisableMPS(c, u)
      PROVE  begins
  BY <1>1, <1>4 DEF ReleaseVirtualGPU, EnableMPS, DisableMPS
<1>5. ASSUME GetAvailableGPUs(c)
      PROVE  begins
  BY <1>1, <1>5 DEF GetAvailableGPUs
<1> QED
  BY <1>2, <1>3, <1>4, <1>5 DEF CallStart

\* The caller fills in its call; what it asks for is known to the manager.
LEMMA StartKeeps ==
    ASSUME ConfInv, NEW c \in Calls, CallStart(c)
    PROVE  ConfInv'
<1>1. ObjectsInv /\ HardwareInv
  BY DEF ConfInv
<1>2. PICK pc \in {"access", "mps", "release", "enable", "disable", "refresh"},
              v \in Objects \cup {None}, useMps \in BOOLEAN :
              Serve(c, pc, v, useMps) /\ (v = None <=> pc = "refresh")
  BY <1>1, StartFindsObject
<1> DEFINE r == [NotServed EXCEPT !.method = IF pc \in OneAtATime THEN pc ELSE None,
                                  !.pc = pc, !.v = v, !.useMps = useMps]
<1>3. r \in CallRecords /\ r.pc = pc /\ r.v = v
  BY DEF NotServed, CallRecords, CallPCs
<1>4. /\ up /\ call[c].pc = "idle" /\ call' = [call EXCEPT ![c] = r]
      /\ UNCHANGED hardware /\ UNCHANGED up /\ UNCHANGED manager /\ UNCHANGED rmMutex /\ UNCHANGED happened
  BY <1>2 DEF Serve
<1> HIDE DEF r
<1>5. /\ call[c].pc \notin LockedPCs \cup {"store"} /\ r.pc \notin LockedPCs \cup {"store"}
      /\ r.v = None <=> r.pc \in {"idle", "refresh"}
  BY <1>2, <1>3, <1>4 DEF LockedPCs
<1>6. /\ ObjectsInv' /\ OthersStay(c) /\ call'[c] = r
      /\ \A o \in Objects : Claims(o)' <=> Claims(o)
  BY <1>1, <1>3, <1>4, <1>5, CallMoves
<1>7. HardwareInv'
  <2>1. UNCHANGED <<instances, computes, provisionedGPUs>> /\ UNCHANGED heap
    BY <1>4 DEF hardware, manager
  <2>2. /\ daemons' \subseteq UUIDs /\ pipes' \subseteq UUIDs /\ happened' \in FailureKinds \cup {None}
    BY <1>1, <1>4 DEF HardwareInv, HardwareTyped, hardware, mps
  <2> QED
    BY <1>1, <1>4, <1>6, <2>1, <2>2, HardwareStays
<1> QED
  BY <1>6, <1>7 DEF ConfInv

-----------------------------------------------------------------------------
(***************************************************************************)
(* The refresh and the start of the process                                *)
(***************************************************************************)
LEMMA ScanKeeps ==
    ASSUME ConfInv, NEW c \in Calls, Scan(c)
    PROVE  ConfInv'
<1>1. /\ ManagerTyped /\ LocksOK /\ HandlesOK /\ ProgressOK /\ EntriesNameTheirGpu
      /\ HardwareInv /\ HardwareTyped /\ ClaimsOK /\ OwnersOK /\ ListedOK
  BY DEF ConfInv, ObjectsInv, HardwareInv
<1> DEFINE r == [call[c] EXCEPT !.pc = "store", !.scan = computes]
<1>2. /\ call[c].pc = "refresh" /\ rmMutex = None /\ rmMutex' = c /\ call' = [call EXCEPT ![c] = r]
      /\ UNCHANGED hardware /\ UNCHANGED up /\ UNCHANGED manager /\ UNCHANGED happened
  BY <1>1 DEF Scan, ManagerTyped, CallRecords
<1>3. /\ r \in CallRecords /\ r.pc = "store" /\ r.v = call[c].v /\ r.scan = computes
  BY <1>1 DEF ManagerTyped, HardwareTyped, CallRecords, CallPCs
<1> HIDE DEF r
<1>4. /\ call' \in [Calls -> CallRecords] /\ call'[c] = r
      /\ \A d \in Calls \ {c} : call'[d] = call[d]
  BY <1>1, <1>2, <1>3, CallGoesOn
<1>5. UNCHANGED heap /\ UNCHANGED virtualGPUs /\ UNCHANGED provisionedGPUs /\ UNCHANGED instances /\ UNCHANGED computes
  BY <1>2 DEF manager, hardware
<1>6. ManagerTyped'
  <2>1. \A d \in Calls : call'[d].v = None <=> call'[d].pc \in {"idle", "refresh", "store"}
    BY <1>1, <1>2, <1>3, <1>4 DEF ManagerTyped
  <2> QED
    BY <1>1, <1>2, <1>4, <1>5, <2>1 DEF ManagerTyped
<1>7. LocksOK'
  <2>1. \A o \in Objects, d \in Calls : heap'[o].mutex = d <=> call'[d].v = o /\ call'[d].pc \in LockedPCs
    BY <1>1, <1>2, <1>3, <1>4, <1>5 DEF LocksOK, LockedPCs
  <2>2. \A d \in Calls : rmMutex' = d <=> call'[d].pc = "store"
    BY <1>1, <1>2, <1>3, <1>4, ConfiguratorAssumption DEF LocksOK
  <2> QED
    BY <2>1, <2>2 DEF LocksOK
<1>8. HandlesOK'
  <2>1. \A o \in Objects : Forgetting(o) => Forgetting(o)'
    BY <1>2, <1>4 DEF Forgetting
  <2> QED
    BY <1>1, <1>5, <2>1 DEF HandlesOK
<1>9. ProgressOK'
  <2>1. \A d \in Calls : call'[d].pc \in LockedPCs => d # c /\ call'[d] = call[d]
    BY <1>3, <1>4 DEF LockedPCs
  <2> QED
    BY <1>1, <1>5, <2>1 DEF ProgressOK, V, LockedPCs
<1>10. EntriesNameTheirGpu'
  BY <1>1, <1>5 DEF EntriesNameTheirGpu
<1>11. OthersStay(c)
  BY <1>4, <1>5 DEF OthersStay
<1>12. \A o \in Objects : Claims(o)' <=> Claims(o)
  <2>1. \A o \in Objects : (\E d \in Calls : call'[d].v = o /\ call'[d].pc = "compute") <=>
                              \E d \in Calls : call[d].v = o /\ call[d].pc = "compute"
    BY <1>2, <1>3, <1>4
  <2> QED
    BY <1>5, <2>1 DEF Claims
<1>13. up
  BY <1>1, <1>2, BusyIsUp
<1>14. HardwareInv'
  <2>1. HardwareTyped'
    BY <1>1, <1>2 DEF HardwareTyped, hardware, mps
  <2>2. ClaimsOK'
    BY <1>1, <1>5, <1>12, ClaimsStay
  <2>3. OwnersOK'
    BY <1>1, <1>2, <1>5, <1>11, OwnersStay
  <2>4. ListedOK'
    <3>1. Physical \subseteq DOMAIN provisionedGPUs'
      BY <1>1, <1>5, <1>13 DEF ListedOK
    <3>2. \A s \in computes' : call'[c].pc = "store" /\ s \in call'[c].scan
      BY <1>3, <1>4, <1>5
    <3> QED
      BY <1>1, <1>2, <1>11, <1>13, <3>1, <3>2, ListingStays
  <2> QED
    BY <2>1, <2>2, <2>3, <2>4 DEF HardwareInv
<1> QED
  BY <1>6, <1>7, <1>8, <1>9, <1>10, <1>14 DEF ConfInv, ObjectsInv

\* A refresh reads an entry of the map.
LEMMA LookUpKeeps ==
    ASSUME ConfInv, NEW c \in Calls, NEW u \in Slots, LookUp(c, u)
    PROVE  ConfInv'
<1>1. /\ ManagerTyped /\ LocksOK /\ HandlesOK /\ ProgressOK /\ EntriesNameTheirGpu
      /\ HardwareInv /\ HardwareTyped /\ ClaimsOK /\ OwnersOK /\ ListedOK
  BY DEF ConfInv, ObjectsInv, HardwareInv
<1> DEFINE entry == IF u \in DOMAIN provisionedGPUs THEN provisionedGPUs[u] ELSE None
           r == [call[c] EXCEPT !.at = u, !.old = entry]
<1>2. /\ call[c].pc = "store" /\ UNCHANGED rmMutex /\ call' = [call EXCEPT ![c] = r]
      /\ UNCHANGED hardware /\ UNCHANGED up /\ UNCHANGED manager /\ UNCHANGED happened
  BY <1>1 DEF LookUp, ManagerTyped, CallRecords
<1>2a. entry \in Objects \cup {None} /\ call[c] \in CallRecords
  BY <1>1 DEF ManagerTyped
<1> HIDE DEF entry
<1>3. /\ r \in CallRecords /\ r.pc = "store" /\ r.v = call[c].v /\ r.scan = call[c].scan
  BY <1>2, <1>2a DEF CallRecords
<1> HIDE DEF r
<1>4. /\ call' \in [Calls -> CallRecords] /\ call'[c] = r
      /\ \A d \in Calls \ {c} : call'[d] = call[d]
  BY <1>1, <1>2, <1>3, CallGoesOn
<1>5. UNCHANGED heap /\ UNCHANGED virtualGPUs /\ UNCHANGED provisionedGPUs /\ UNCHANGED instances /\ UNCHANGED computes
  BY <1>2 DEF manager, hardware
<1>6. ManagerTyped'
  <2>1. \A d \in Calls : call'[d].v = None <=> call'[d].pc \in {"idle", "refresh", "store"}
    BY <1>1, <1>2, <1>3, <1>4 DEF ManagerTyped
  <2> QED
    BY <1>1, <1>2, <1>4, <1>5, <2>1 DEF ManagerTyped
<1>7. LocksOK'
  <2>1. \A o \in Objects, d \in Calls : heap'[o].mutex = d <=> call'[d].v = o /\ call'[d].pc \in LockedPCs
    BY <1>1, <1>2, <1>3, <1>4, <1>5 DEF LocksOK, LockedPCs
  <2>2. \A d \in Calls : rmMutex' = d <=> call'[d].pc = "store"
    BY <1>1, <1>2, <1>3, <1>4 DEF LocksOK
  <2> QED
    BY <2>1, <2>2 DEF LocksOK
<1>8. HandlesOK'
  <2>1. \A o \in Objects : Forgetting(o) => Forgetting(o)'
    BY <1>2, <1>4 DEF Forgetting
  <2> QED
    BY <1>1, <1>5, <2>1 DEF HandlesOK
<1>9. ProgressOK'
  <2>1. \A d \in Calls : call'[d].pc \in LockedPCs => d # c /\ call'[d] = call[d]
    BY <1>3, <1>4 DEF LockedPCs
  <2> QED
    BY <1>1, <1>5, <2>1 DEF ProgressOK, V, LockedPCs
<1>10. EntriesNameTheirGpu'
  BY <1>1, <1>5 DEF EntriesNameTheirGpu
<1>11. OthersStay(c)
  BY <1>4, <1>5 DEF OthersStay
<1>12. \A o \in Objects : Claims(o)' <=> Claims(o)
  <2>1. \A o \in Objects : (\E d \in Calls : call'[d].v = o /\ call'[d].pc = "compute") <=>
                              \E d \in Calls : call[d].v = o /\ call[d].pc = "compute"
    BY <1>2, <1>3, <1>4
  <2> QED
    BY <1>5, <2>1 DEF Claims
<1>13. up
  BY <1>1, <1>2, BusyIsUp
<1>14. HardwareInv'
  <2>1. HardwareTyped'
    BY <1>1, <1>2 DEF HardwareTyped, hardware, mps
  <2>2. ClaimsOK'
    BY <1>1, <1>5, <1>12, ClaimsStay
  <2>3. OwnersOK'
    BY <1>1, <1>2, <1>5, <1>11, OwnersStay
  <2>4. ListedOK'
    <3>1. Physical \subseteq DOMAIN provisionedGPUs'
      BY <1>1, <1>5, <1>13 DEF ListedOK
    <3>2. \A s \in computes' :
             \/ s \in DOMAIN provisionedGPUs'
             \/ call'[c].pc = "store" /\ s \in call'[c].scan
             \/ s \in computes \ DOMAIN provisionedGPUs /\ ~WillList(c, s)
      BY <1>2, <1>3, <1>4, <1>5 DEF WillList
    <3> QED
      BY <1>1, <1>2, <1>11, <1>13, <3>1, <3>2, ListingStays
  <2> QED
    BY <2>1, <2>2, <2>3, <2>4 DEF HardwareInv
<1> QED
  BY <1>6, <1>7, <1>8, <1>9, <1>10, <1>14 DEF ConfInv, ObjectsInv

\* A discovery under way stores its list: devices that were kept stay the same objects.
LEMMA StoreKeeps ==
    ASSUME ConfInv, NEW c \in Calls, Store(c)
    PROVE  ConfInv'
<1>1. /\ ObjectsInv /\ ManagerTyped /\ LocksOK /\ EntriesNameTheirGpu
      /\ HardwareInv /\ HardwareTyped /\ ClaimsOK /\ OwnersOK /\ ListedOK
  BY DEF ConfInv, ObjectsInv, HardwareInv
<1>2. /\ call[c].pc = "store" /\ Discover(call[c].scan, provisionedGPUs, FoundEnabled(c)) /\ rmMutex' = None
      /\ UNCHANGED hardware /\ UNCHANGED up /\ UNCHANGED happened
  BY DEF Store
<1>3. call[c].scan \in SUBSET Slots
  BY <1>1 DEF ManagerTyped, CallRecords
<1>4. /\ DOMAIN provisionedGPUs \subseteq UUIDs
      /\ \A u \in DOMAIN provisionedGPUs :
            provisionedGPUs[u] \in Objects /\ heap[provisionedGPUs[u]].gpu = u
  BY <1>1 DEF ManagerTyped, EntriesNameTheirGpu
<1>5. UNCHANGED instances /\ UNCHANGED computes
  BY <1>2 DEF hardware
<1>6. /\ ObjectsInv' /\ ClaimsOK'
      /\ DOMAIN provisionedGPUs' = call[c].scan \cup Physical \cup DOMAIN provisionedGPUs
      /\ \A d \in Calls :
            IF call[d].pc = "store" THEN call'[d].pc = "idle"
            ELSE /\ call'[d].pc = call[d].pc /\ call'[d].scan = call[d].scan
                 /\ call[d].v # None => heap'[call'[d].v] = heap[call[d].v]
  BY <1>1, <1>2, <1>3, <1>4, <1>5, DiscoverKeeps
<1>7. \A d \in Calls : call[d].pc = "store" => d = c
  BY <1>1, <1>2 DEF LocksOK
<1>8. \A d \in Calls : call[d].pc \in {"compute", "destroyGI", "query"} => call[d].v # None
  BY <1>1 DEF ManagerTyped
<1>9. OwnersOK'
  <2> SUFFICES ASSUME NEW s \in instances' \ computes', happened' \notin IncompleteFailure
               PROVE  \E d \in Calls : call'[d].pc \in {"compute", "destroyGI"} /\ heap'[call'[d].v].gpuInstance = s
    BY DEF OwnersOK, V, IncompleteFailure
  <2>1. PICK d \in Calls : call[d].pc \in {"compute", "destroyGI"} /\ heap[call[d].v].gpuInstance = s
    BY <1>1, <1>2, <1>5 DEF OwnersOK, V, IncompleteFailure
  <2> QED
    BY <1>6, <1>8, <2>1
<1>10. ListedOK'
  <2>1. up
    BY <1>1, <1>2, BusyIsUp
  <2> SUFFICES ASSUME NEW s \in computes', s \notin DOMAIN provisionedGPUs'
               PROVE  \E d \in Calls : WillList(d, s)'
    BY <1>2, <1>6, <2>1 DEF ListedOK
  <2>2. PICK d \in Calls : WillList(d, s)
    BY <1>1, <1>5, <1>6, <2>1 DEF ListedOK
  <2>3. call[d].pc # "store"
    BY <1>6, <1>7, <2>2 DEF WillList
  <2>4. call'[d].pc = call[d].pc /\ (call[d].pc = "query" => heap'[call'[d].v] = heap[call[d].v])
    BY <1>6, <1>8, <2>3
  <2> QED
    BY <2>2, <2>3, <2>4 DEF WillList, V
<1>11. HardwareTyped'
  BY <1>1, <1>2 DEF HardwareTyped, hardware, mps
<1> QED
  BY <1>6, <1>9, <1>10, <1>11 DEF ConfInv, HardwareInv

\* A new process discovers all compute instances; no old object claims any of them.
LEMMA NewResourceManagerKeeps ==
    ASSUME ConfInv, NewResourceManager
    PROVE  ConfInv'
<1>1. /\ ObjectsInv /\ ManagerTyped /\ LocksOK
      /\ HardwareInv /\ HardwareTyped /\ ClaimsOK /\ OwnersOK /\ ListedOK
  BY DEF ConfInv, ObjectsInv, HardwareInv
<1>2. /\ ~up /\ up' = TRUE /\ Discover(computes, <<>>, {})
      /\ UNCHANGED hardware /\ UNCHANGED rmMutex /\ UNCHANGED happened
  BY DEF NewResourceManager
<1>3. UNCHANGED instances /\ UNCHANGED computes
  BY <1>2 DEF hardware
<1>4. \A d \in Calls : call[d].pc = "idle"
  BY <1>1, <1>2 DEF ListedOK
<1>5. rmMutex' = None
  BY <1>1, <1>2, <1>4 DEF LocksOK, ManagerTyped
<1>6. computes \in SUBSET Slots
  BY <1>1 DEF HardwareTyped
<1>7. DOMAIN <<>> = {}
  OBVIOUS
<1>8. /\ ObjectsInv' /\ ClaimsOK'
      /\ DOMAIN provisionedGPUs' = computes \cup Physical \cup DOMAIN <<>>
  BY <1>1, <1>2, <1>3, <1>5, <1>6, <1>7, DiscoverKeeps
<1>9. OwnersOK'
  BY <1>1, <1>2, <1>3, <1>4 DEF OwnersOK
<1>10. ListedOK'
  BY <1>2, <1>3, <1>8 DEF ListedOK
<1>11. HardwareTyped'
  BY <1>1, <1>2 DEF HardwareTyped, hardware, mps
<1> QED
  BY <1>8, <1>9, <1>10, <1>11 DEF ConfInv, HardwareInv

-----------------------------------------------------------------------------
(***************************************************************************)
(* The end of the process                                                  *)
(***************************************************************************)
LEMMA LoseProcessKeeps ==
    ASSUME ManagerTyped, LoseProcess
    PROVE  /\ ObjectsInv' /\ ListedOK'
           /\ \A o \in Objects : ~Claims(o)'
           /\ \A d \in Calls : call'[d].pc = "idle"
<1>1. /\ up' = FALSE /\ heap' = [o \in Objects |-> Unprovisioned] /\ virtualGPUs' = {}
      /\ provisionedGPUs' = <<>> /\ rmMutex' = None /\ call' = [c \in Calls |-> NotServed]
  BY DEF LoseProcess
<1>2. None \notin Objects /\ None \notin Calls /\ None \notin UUIDs
  BY ConfiguratorAssumption DEF UUIDs
<1>3. Unprovisioned \in ObjectRecords /\ NotServed \in CallRecords
  BY DEF Unprovisioned, ObjectRecords, NotServed, CallRecords, CallPCs
<1>4. /\ Unprovisioned.isProvisioned = FALSE /\ Unprovisioned.gpu = None /\ Unprovisioned.mutex = None
      /\ Unprovisioned.gpuInstance = None /\ Unprovisioned.computeInstance = FALSE
      /\ NotServed.pc = "idle" /\ NotServed.v = None
  BY DEF Unprovisioned, NotServed
<1>5. /\ \A o \in Objects : heap'[o] = Unprovisioned
      /\ \A d \in Calls : call'[d] = NotServed
  BY <1>1
<1>6. DOMAIN provisionedGPUs' = {}
  BY <1>1
<1>7. ManagerTyped'
  <2>1. heap' \in [Objects -> ObjectRecords] /\ call' \in [Calls -> CallRecords]
    BY <1>1, <1>3
  <2> QED
    BY <1>1, <1>4, <1>5, <1>6, <2>1 DEF ManagerTyped
<1>8. LocksOK'
  BY <1>1, <1>2, <1>4, <1>5 DEF LocksOK, LockedPCs
<1>9. HandlesOK'
  BY <1>2, <1>4, <1>5 DEF HandlesOK, UUIDs
<1>10. ProgressOK'
  BY <1>4, <1>5 DEF ProgressOK
<1>11. EntriesNameTheirGpu'
  BY <1>6 DEF EntriesNameTheirGpu
<1>12. ListedOK'
  BY <1>1, <1>4, <1>5 DEF ListedOK
<1>13. \A o \in Objects : ~Claims(o)'
  BY <1>2, <1>4, <1>5 DEF Claims, UUIDs
<1> QED
  BY <1>4, <1>5, <1>7, <1>8, <1>9, <1>10, <1>11, <1>12, <1>13 DEF ObjectsInv

\* A crash, and a panic of a handler.
LEMMA CrashKeeps ==
    ASSUME ConfInv, LoseProcess, happened' = "crash", UNCHANGED <<instances, computes, pipes>>
    PROVE  ConfInv'
<1>1. ManagerTyped /\ HardwareTyped
  BY DEF ConfInv, ObjectsInv, HardwareInv
<1>2. /\ ObjectsInv' /\ ListedOK'
      /\ \A o \in Objects : ~Claims(o)'
  BY <1>1, LoseProcessKeeps
<1>3. HardwareTyped'
  BY <1>1 DEF HardwareTyped, LoseProcess, FailureKinds
<1> QED
  BY <1>2, <1>3 DEF ConfInv, HardwareInv, ClaimsOK, OwnersOK

\* CleanUp destroys what is provisioned, when no call runs and with it no claim.
LEMMA CleanUpKeeps ==
    ASSUME ConfInv, CleanUp
    PROVE  ConfInv'
<1>1. /\ ManagerTyped /\ HardwareTyped /\ OwnersOK
  BY DEF ConfInv, ObjectsInv, HardwareInv
<1>2. /\ Idle /\ LoseProcess /\ UNCHANGED happened
      /\ computes' = computes \ Releasable /\ instances' = instances \ Releasable
      /\ pipes' \subseteq pipes
  BY DEF CleanUp
<1>3. /\ ObjectsInv' /\ ListedOK'
      /\ \A o \in Objects : ~Claims(o)'
  BY <1>1, <1>2, LoseProcessKeeps
<1>4. HardwareTyped'
  BY <1>1, <1>2 DEF HardwareTyped, LoseProcess
<1>5. OwnersOK'
  BY <1>1, <1>2 DEF OwnersOK, Idle
<1> QED
  BY <1>3, <1>4, <1>5 DEF ConfInv, HardwareInv, ClaimsOK

-----------------------------------------------------------------------------
(***************************************************************************)
(* Access                                                                  *)
(***************************************************************************)
\* The object of a call, and what is known of it.
LEMMA ObjectOf ==
    ASSUME ConfInv, NEW c \in Calls, call[c].pc \notin {"idle", "refresh", "store"}
    PROVE  /\ call[c] \in CallRecords /\ call[c].v # None /\ call[c].v \in Objects
           /\ V(c) \in ObjectRecords /\ up
           /\ call[c].pc \in LockedPCs <=> V(c).mutex = c
           /\ ~V(c).isProvisioned => V(c).gpu = None /\ ~V(c).computeInstance
           /\ V(c).gpu \in Physical => V(c).gpuInstance = None
           /\ V(c).mutex = None \/ (V(c).mutex = c /\ call[c].pc # "forget") =>
                 (V(c).gpu \in Slots => V(c).gpuInstance = V(c).gpu)
<1>1. /\ ManagerTyped /\ LocksOK /\ HandlesOK /\ HardwareInv /\ ObjectsInv
  BY DEF ConfInv, ObjectsInv
<1>2. call[c] \in CallRecords /\ call[c].v # None
  BY <1>1 DEF ManagerTyped
<1>3. call[c].v \in Objects
  BY <1>2 DEF CallRecords
<1>4. V(c) \in ObjectRecords
  BY <1>1, <1>3 DEF ManagerTyped, V
<1>5. up
  BY <1>1, BusyIsUp
<1>6. call[c].pc \in LockedPCs <=> V(c).mutex = c
  BY <1>1, <1>3 DEF LocksOK, V
<1>7. /\ ~V(c).isProvisioned => V(c).gpu = None /\ ~V(c).computeInstance
      /\ V(c).gpu \in Physical => V(c).gpuInstance = None
      /\ V(c).gpu \in Slots => V(c).gpuInstance = V(c).gpu \/ Forgetting(call[c].v)
  BY <1>1, <1>3 DEF HandlesOK, V
<1>8. V(c).mutex = None \/ (V(c).mutex = c /\ call[c].pc # "forget") => ~Forgetting(call[c].v)
  <2> SUFFICES ASSUME V(c).mutex = None \/ (V(c).mutex = c /\ call[c].pc # "forget"),
                      NEW d \in Calls, call[d].v = call[c].v, call[d].pc = "forget"
               PROVE  FALSE
    BY DEF Forgetting
  <2>1. heap[call[c].v].mutex = d
    BY <1>1, <1>3 DEF LocksOK, LockedPCs
  <2> QED
    BY <2>1, ConfiguratorAssumption DEF V
<1> QED
  BY <1>2, <1>3, <1>4, <1>5, <1>6, <1>7, <1>8

\* AccessVirtualGPU returns at once for a device that is provisioned.
LEMMA AccessNothingKeeps ==
    ASSUME ConfInv, NEW c \in Calls, AccessNothing(c)
    PROVE  ConfInv'
<1> DEFINE r == [call[c] EXCEPT !.pc = "mps"]
<1>1. ObjectsInv /\ HardwareInv
  BY DEF ConfInv
<1>2. /\ call[c].pc = "access" /\ call' = [call EXCEPT ![c].pc = "mps"]
      /\ UNCHANGED <<manager, rmMutex>> /\ UNCHANGED hardware /\ UNCHANGED up /\ UNCHANGED happened
  BY DEF AccessNothing, Goto
<1>3. call[c] \in CallRecords /\ call[c].v # None /\ up
  BY <1>2, ObjectOf
<1>4. /\ r \in CallRecords /\ r.pc = "mps" /\ r.v = call[c].v
  BY <1>3 DEF CallRecords, CallPCs
<1>5. call' = [call EXCEPT ![c] = r]
  BY <1>1, <1>2 DEF ObjectsInv, ManagerTyped, CallRecords
<1> HIDE DEF r
<1>6. /\ ObjectsInv' /\ OthersStay(c) /\ call'[c] = r
      /\ \A o \in Objects : Claims(o)' <=> Claims(o)
  BY <1>1, <1>2, <1>3, <1>4, <1>5, CallMoves DEF LockedPCs
<1>7. HardwareInv'
  <2>1. UNCHANGED <<instances, computes, provisionedGPUs>> /\ UNCHANGED heap
    BY <1>2 DEF hardware, manager
  <2>2. /\ daemons' \subseteq UUIDs /\ pipes' \subseteq UUIDs /\ happened' \in FailureKinds \cup {None}
    BY <1>1, <1>2 DEF HardwareInv, HardwareTyped, hardware, mps
  <2> QED
    BY <1>1, <1>2, <1>3, <1>6, <2>1, <2>2, HardwareStays
<1> QED
  BY <1>6, <1>7 DEF ConfInv

\* A failure and the absence of one.
LEMMA FailureOrNot ==
    ASSUME HardwareTyped, NEW kind, Fails(kind) \/ UNCHANGED happened
    PROVE  /\ happened' \in FailureKinds \cup {None}
           /\ happened \in {happened', None}
           /\ Fails(kind) => happened' = kind
BY ConfiguratorAssumption DEF HardwareTyped, Fails

\* NotServed is where a call returns to.
LEMMA NotServedIs ==
    /\ NotServed \in CallRecords /\ NotServed.v = None /\ NotServed.pc = "idle"
    /\ \A c \in Calls : ManagerTyped =>
          /\ RefreshNext(call[c]) \in CallRecords
          /\ RefreshNext(call[c]).v = None /\ RefreshNext(call[c]).pc = "refresh"
BY DEF NotServed, RefreshNext, CallRecords, CallPCs, ManagerTyped

\* A step in which the call returns, or goes to its refresh, with its object.
LEMMA ReturnKeeps ==
    ASSUME ConfInv, NEW c \in Calls, Return(c) \/ Refresh(c),
           call[c].pc \notin {"idle", "refresh", "store", "forget", "query"},
           call[c].pc = "mps" => Refresh(c),
           call[c].pc \in {"compute", "destroyGI"} /\ V(c).gpuInstance \in instances \ computes
              => happened' \in IncompleteFailure,
           UNCHANGED <<instances, computes, up, virtualGPUs, provisionedGPUs, rmMutex>>,
           daemons' \subseteq UUIDs, pipes' \subseteq UUIDs,
           happened' \in FailureKinds \cup {None}, happened \in {happened', None}
    PROVE  ConfInv'
<1>1. ObjectsInv /\ HardwareInv /\ ManagerTyped
  BY DEF ConfInv, ObjectsInv
<1>2. PICK r \in CallRecords : /\ Drop(c) /\ call' = [call EXCEPT ![c] = r]
                               /\ r.v = None /\ r.pc \in {"idle", "refresh"}
                               /\ Refresh(c) => r.pc = "refresh"
  <2>1. CASE Refresh(c)
    BY <1>1, <2>1, NotServedIs DEF Refresh
  <2>2. CASE Return(c) /\ ~Refresh(c)
    BY <1>1, <2>2, NotServedIs DEF Return
  <2> QED
    BY <2>1, <2>2
<1>3. /\ ObjectsInv' /\ OthersStay(c) /\ call'[c] = r
      /\ \A o \in Objects :
            Claims(o)' => /\ Claims(o) /\ heap'[o].gpuInstance = heap[o].gpuInstance
                          /\ ~(call[c].v = o /\ call[c].pc = "compute")
  BY <1>1, <1>2, CallLetsGo
<1>4. up
  BY <1>1, BusyIsUp
<1>5. HardwareInv'
  BY <1>1, <1>2, <1>3, <1>4, HardwareStays
<1> QED
  BY <1>3, <1>5 DEF ConfInv

\* The new GPU instance is claimed by the virtual GPU that made it, and by no other.
LEMMA CreateGpuInstanceKeeps ==
    ASSUME ConfInv, NEW c \in Calls, CreateGpuInstance(c)
    PROVE  ConfInv'
<1>1. ObjectsInv /\ HardwareInv /\ ManagerTyped /\ HardwareTyped /\ ClaimsOK /\ OwnersOK /\ ListedOK
      /\ EntriesNameTheirGpu
  BY DEF ConfInv, ObjectsInv, HardwareInv
<1>2. /\ call[c].pc = "access" /\ ~V(c).isProvisioned /\ V(c).mutex = None
      /\ UNCHANGED mps /\ UNCHANGED <<computes, up, virtualGPUs, provisionedGPUs, rmMutex>>
  BY DEF CreateGpuInstance
<1>3. /\ call[c] \in CallRecords /\ call[c].v # None /\ call[c].v \in Objects
      /\ V(c) \in ObjectRecords /\ up /\ V(c).gpu = None /\ ~V(c).computeInstance
  BY <1>2, ObjectOf
<1>4. daemons' \subseteq UUIDs /\ pipes' \subseteq UUIDs
  BY <1>1, <1>2 DEF HardwareTyped, mps
<1>5. CASE /\ IF Slots = instances THEN UNCHANGED happened ELSE Fails("instance")
           /\ Return(c)
           /\ UNCHANGED instances
  <2>1. Fails("instance") \/ UNCHANGED happened
    BY <1>5
  <2>2. happened' \in FailureKinds \cup {None} /\ happened \in {happened', None}
    BY <1>1, <2>1, FailureOrNot
  <2> QED
    BY <1>2, <1>4, <1>5, <2>2, ReturnKeeps
<1>6. ASSUME NEW s \in Slots, s \notin instances,
             instances' = instances \cup {s},
             heap' = [heap EXCEPT ![call[c].v].gpuInstance = s, ![call[c].v].mutex = c],
             Goto(c, "compute"), UNCHANGED happened
      PROVE  ConfInv'
  <2> DEFINE x == [V(c) EXCEPT !.gpuInstance = s, !.mutex = c]
             r == [call[c] EXCEPT !.pc = "compute"]
  <2>1. heap' = [heap EXCEPT ![call[c].v] = x] /\ call' = [call EXCEPT ![c] = r]
    BY <1>1, <1>3, <1>6 DEF ManagerTyped, ObjectRecords, CallRecords, V, Goto
  <2>2. /\ x \in ObjectRecords /\ x.gpuInstance = s /\ x.mutex = c /\ x.gpu = None
        /\ ~x.isProvisioned /\ ~x.computeInstance
    BY <1>2, <1>3 DEF ObjectRecords
  <2>3. /\ r \in CallRecords /\ r.pc = "compute" /\ r.v = call[c].v
    BY <1>3 DEF CallRecords, CallPCs
  <2> HIDE DEF x, r
  <2>4. None \notin UUIDs /\ Suits(x, r.pc) /\ r.pc \in LockedPCs
    BY <2>2, <2>3, ConfiguratorAssumption DEF Suits, UUIDs, LockedPCs
  <2>5. \A u \in DOMAIN provisionedGPUs' :
           u \in UUIDs /\ provisionedGPUs'[u] \in Objects /\ heap'[provisionedGPUs'[u]].gpu = u
    <3> SUFFICES ASSUME NEW u \in DOMAIN provisionedGPUs
                 PROVE  u \in UUIDs /\ provisionedGPUs[u] \in Objects /\ heap'[provisionedGPUs[u]].gpu = u
      BY <1>2
    <3>1. u \in UUIDs /\ provisionedGPUs[u] \in Objects /\ heap[provisionedGPUs[u]].gpu = u
      BY <1>1 DEF ManagerTyped, EntriesNameTheirGpu
    <3>2. provisionedGPUs[u] # call[c].v
      BY <1>3, <2>4, <3>1 DEF V
    <3> QED
      BY <1>1, <2>1, <3>1, <3>2 DEF ManagerTyped
  <2>6. /\ ObjectsInv' /\ OthersStay(c) /\ call'[c] = r
        /\ \A o \in Objects : heap'[o] = IF o = call[c].v THEN x ELSE heap[o]
        /\ \A o \in Objects :
              Claims(o)' <=> IF o = call[c].v
                             THEN /\ x.gpuInstance \in Slots /\ ~x.computeInstance
                                  /\ x.isProvisioned \/ r.pc = "compute"
                             ELSE Claims(o)
    <3>1. /\ V(c).mutex \in {None, c} /\ r.v \in {call[c].v, None}
          /\ r.v = None <=> r.pc \in {"idle", "refresh"}
          /\ r.pc # "store" /\ x.mutex = IF r.pc \in LockedPCs THEN c ELSE None
      BY <1>2, <1>3, <2>2, <2>3, <2>4
    <3>2. ObjectsInv /\ call[c].v # None /\ UNCHANGED <<virtualGPUs, rmMutex>>
      BY <1>1, <1>2, <1>3
    <3>3. x \in ObjectRecords /\ r \in CallRecords /\ Suits(x, r.pc)
      BY <2>2, <2>3, <2>4
    <3>4. Writes(c, x, r)
      BY <2>1, <2>5, <3>1, <3>2, <3>3 DEF Writes
    <3> QED
      BY <1>1, <3>4, CallWrites
  <2>7. HardwareTyped'
    BY <1>1, <1>2, <1>4, <1>6 DEF HardwareTyped
  <2>8. ClaimsOK'
    <3>1. \A o \in Objects : Claims(o)' =>
             \/ o = call[c].v /\ heap'[o].gpuInstance = s
             \/ /\ o # call[c].v /\ Claims(o) /\ heap'[o].gpuInstance = heap[o].gpuInstance
                /\ heap[o].gpuInstance \in instances \ computes
      BY <1>1, <2>2, <2>6 DEF ClaimsOK
    <3>2. /\ s \notin computes /\ s \notin instances
          /\ instances' = instances \cup {s} /\ UNCHANGED computes
      BY <1>1, <1>2, <1>6 DEF HardwareTyped
    <3>3. ASSUME NEW o \in Objects, Claims(o)'
          PROVE  heap'[o].gpuInstance \in instances' \ computes'
      BY <3>1, <3>2, <3>3
    <3>4. ASSUME NEW o \in Objects, NEW q \in Objects, Claims(o)', Claims(q)',
                 heap'[o].gpuInstance = heap'[q].gpuInstance
          PROVE  o = q
      <4>1. CASE o = call[c].v \/ q = call[c].v
        BY <3>1, <3>2, <3>4, <4>1
      <4>2. CASE o # call[c].v /\ q # call[c].v
        BY <1>1, <3>1, <3>4, <4>2 DEF ClaimsOK
      <4> QED
        BY <4>1, <4>2
    <3> QED
      BY <3>3, <3>4 DEF ClaimsOK
  <2>9. OwnersOK'
    <3>1. \A t \in instances' \ computes' :
             \/ call'[c].pc \in {"compute", "destroyGI"} /\ heap'[call'[c].v].gpuInstance = t
             \/ /\ t \in instances \ computes
                /\ ~(call[c].pc \in {"compute", "destroyGI"} /\ V(c).gpuInstance = t)
      BY <1>2, <1>3, <1>6, <2>2, <2>3, <2>6
    <3> QED
      BY <1>1, <1>6, <2>6, <3>1, OwnersStay
  <2>10. ListedOK'
    <3>1. \A t \in computes' : t \in DOMAIN provisionedGPUs' \/ (t \in computes \ DOMAIN provisionedGPUs /\ ~WillList(c, t))
      BY <1>2 DEF WillList
    <3>2. Physical \subseteq DOMAIN provisionedGPUs'
      BY <1>1, <1>2, <1>3 DEF ListedOK
    <3> QED
      BY <1>1, <1>2, <1>3, <2>6, <3>1, <3>2, ListingStays
  <2> QED
    BY <2>6, <2>7, <2>8, <2>9, <2>10 DEF ConfInv, HardwareInv
<1> QED
  BY <1>5, <1>6 DEF CreateGpuInstance

\* The compute instance discharges the claim; when it fails, the GPU instance is destroyed.
LEMMA CreateComputeInstanceKeeps ==
    ASSUME ConfInv, NEW c \in Calls, CreateComputeInstance(c)
    PROVE  ConfInv'
<1>1. ObjectsInv /\ HardwareInv /\ ManagerTyped /\ HardwareTyped /\ ClaimsOK /\ OwnersOK /\ ListedOK
      /\ EntriesNameTheirGpu /\ ProgressOK
  BY DEF ConfInv, ObjectsInv, HardwareInv
<1>2. /\ call[c].pc = "compute" /\ ~V(c).isProvisioned /\ V(c).gpuInstance \in Slots
      /\ UNCHANGED mps /\ UNCHANGED <<up, virtualGPUs, provisionedGPUs, rmMutex>>
  BY <1>1 DEF CreateComputeInstance, ProgressOK
<1>3. /\ call[c] \in CallRecords /\ call[c].v # None /\ call[c].v \in Objects
      /\ V(c) \in ObjectRecords /\ up /\ V(c).gpu = None /\ ~V(c).computeInstance /\ V(c).mutex = c
  BY <1>2, ObjectOf DEF LockedPCs
<1>4. /\ daemons' \subseteq UUIDs /\ pipes' \subseteq UUIDs
      /\ Physical \subseteq DOMAIN provisionedGPUs'
  BY <1>1, <1>2, <1>3 DEF HardwareTyped, mps, ListedOK
<1>5. Claims(call[c].v) /\ V(c).gpuInstance \in instances \ computes
  BY <1>1, <1>2, <1>3 DEF Claims, ClaimsOK, V
<1>6. CASE /\ computes' = computes \cup {V(c).gpuInstance}
           /\ heap' = [heap EXCEPT ![call[c].v].computeInstance = TRUE,
                                   ![call[c].v].isProvisioned = TRUE]
           /\ Goto(c, "query")
           /\ UNCHANGED <<instances, happened>>
  <2> DEFINE x == [V(c) EXCEPT !.computeInstance = TRUE, !.isProvisioned = TRUE]
             r == [call[c] EXCEPT !.pc = "query"]
  <2>1. heap' = [heap EXCEPT ![call[c].v] = x] /\ call' = [call EXCEPT ![c] = r]
    BY <1>1, <1>3, <1>6 DEF ManagerTyped, ObjectRecords, CallRecords, V, Goto
  <2>2. /\ x \in ObjectRecords /\ x.gpuInstance = V(c).gpuInstance /\ x.mutex = c /\ x.gpu = None
        /\ x.isProvisioned /\ x.computeInstance
    BY <1>2, <1>3 DEF ObjectRecords
  <2>3. /\ r \in CallRecords /\ r.pc = "query" /\ r.v = call[c].v
    BY <1>3 DEF CallRecords, CallPCs
  <2> HIDE DEF x, r
  <2>4. None \notin UUIDs /\ Suits(x, r.pc) /\ r.pc \in LockedPCs
    BY <1>2, <2>2, <2>3, ConfiguratorAssumption DEF Suits, UUIDs, LockedPCs
  <2>5. \A u \in DOMAIN provisionedGPUs' :
           u \in UUIDs /\ provisionedGPUs'[u] \in Objects /\ heap'[provisionedGPUs'[u]].gpu = u
    <3> SUFFICES ASSUME NEW u \in DOMAIN provisionedGPUs
                 PROVE  u \in UUIDs /\ provisionedGPUs[u] \in Objects /\ heap'[provisionedGPUs[u]].gpu = u
      BY <1>2
    <3>1. u \in UUIDs /\ provisionedGPUs[u] \in Objects /\ heap[provisionedGPUs[u]].gpu = u
      BY <1>1 DEF ManagerTyped, EntriesNameTheirGpu
    <3>2. provisionedGPUs[u] # call[c].v
      BY <1>3, <2>4, <3>1 DEF V
    <3> QED
      BY <1>1, <2>1, <3>1, <3>2 DEF ManagerTyped
  <2>6. /\ ObjectsInv' /\ OthersStay(c) /\ call'[c] = r
        /\ \A o \in Objects : heap'[o] = IF o = call[c].v THEN x ELSE heap[o]
        /\ \A o \in Objects :
              Claims(o)' <=> IF o = call[c].v
                             THEN /\ x.gpuInstance \in Slots /\ ~x.computeInstance
                                  /\ x.isProvisioned \/ r.pc = "compute"
                             ELSE Claims(o)
    <3>1. Writes(c, x, r)
      BY <1>2, <1>3, <2>1, <2>2, <2>3, <2>4, <2>5 DEF Writes
    <3> QED
      BY <1>1, <3>1, CallWrites
  <2>7. HardwareTyped'
    BY <1>1, <1>2, <1>4, <1>5, <1>6 DEF HardwareTyped
  <2>8. ClaimsOK'
    <3>1. \A o \in Objects : Claims(o)' =>
             /\ o # call[c].v /\ Claims(o) /\ heap'[o].gpuInstance = heap[o].gpuInstance
      BY <2>2, <2>6
    <3>2. \A o \in Objects : Claims(o) /\ o # call[c].v => heap[o].gpuInstance # V(c).gpuInstance
      BY <1>1, <1>3, <1>5 DEF ClaimsOK, V
    <3> QED
      BY <1>1, <1>6, <3>1, <3>2, ClaimsStay DEF ClaimsOK
  <2>9. OwnersOK'
    <3>1. \A t \in instances' \ computes' :
             /\ t \in instances \ computes
             /\ ~(call[c].pc \in {"compute", "destroyGI"} /\ V(c).gpuInstance = t)
      BY <1>6
    <3> QED
      BY <1>1, <1>6, <2>6, <3>1, OwnersStay
  <2>10. ListedOK'
    <3>1. \A t \in computes' :
             \/ call'[c].pc = "query" /\ heap'[call'[c].v].gpuInstance = t
             \/ t \in DOMAIN provisionedGPUs'
             \/ (t \in computes \ DOMAIN provisionedGPUs /\ ~WillList(c, t))
      BY <1>2, <1>3, <1>6, <2>2, <2>3, <2>6 DEF WillList
    <3> QED
      BY <1>1, <1>2, <1>3, <1>4, <2>6, <3>1, ListingStays
  <2> QED
    BY <2>6, <2>7, <2>8, <2>9, <2>10 DEF ConfInv, HardwareInv
<1>7. CASE /\ Fails("compute")
           /\ instances' = instances \ {V(c).gpuInstance}
           /\ Return(c)
           /\ UNCHANGED computes
  <2>1. happened' \in FailureKinds \cup {None} /\ happened \in {happened', None}
    BY <1>1, <1>7, FailureOrNot
  <2>2. /\ Drop(c) /\ call' = [call EXCEPT ![c] = NotServed]
        /\ NotServed \in CallRecords /\ NotServed.v = None /\ NotServed.pc = "idle"
    BY <1>7, NotServedIs DEF Return
  <2>3. /\ ObjectsInv' /\ OthersStay(c) /\ call'[c] = NotServed
        /\ \A o \in Objects :
              Claims(o)' => /\ Claims(o) /\ heap'[o].gpuInstance = heap[o].gpuInstance
                            /\ ~(call[c].v = o /\ call[c].pc = "compute")
    BY <1>1, <1>2, <2>2, CallLetsGo
  <2>4. HardwareTyped'
    BY <1>1, <1>2, <1>4, <1>5, <1>7, <2>1 DEF HardwareTyped
  <2>5. ClaimsOK'
    <3>1. \A o \in Objects : Claims(o) /\ o # call[c].v => heap[o].gpuInstance # V(c).gpuInstance
      BY <1>1, <1>3, <1>5 DEF ClaimsOK, V
    <3> QED
      BY <1>1, <1>2, <1>7, <2>3, <3>1, ClaimsStay DEF ClaimsOK
  <2>6. OwnersOK'
    <3>1. \A t \in instances' \ computes' :
             /\ t \in instances \ computes
             /\ ~(call[c].pc \in {"compute", "destroyGI"} /\ V(c).gpuInstance = t)
      BY <1>7
    <3> QED
      BY <1>1, <2>1, <2>3, <3>1, OwnersStay
  <2>7. ListedOK'
    <3>1. \A t \in computes' :
             \/ t \in DOMAIN provisionedGPUs'
             \/ (t \in computes \ DOMAIN provisionedGPUs /\ ~WillList(c, t))
      BY <1>2, <1>7 DEF WillList
    <3> QED
      BY <1>1, <1>2, <1>3, <1>4, <2>3, <3>1, ListingStays
  <2> QED
    BY <2>3, <2>4, <2>5, <2>6, <2>7 DEF ConfInv, HardwareInv
<1> QED
  BY <1>6, <1>7 DEF CreateComputeInstance

\* The entries keep naming their GPU when a call writes an object of the same GPU.
LEMMA EntriesStay ==
    ASSUME ManagerTyped, EntriesNameTheirGpu, NEW v \in Objects, NEW x, x.gpu = heap[v].gpu,
           heap' = [heap EXCEPT ![v] = x], UNCHANGED provisionedGPUs
    PROVE  \A u \in DOMAIN provisionedGPUs' :
              u \in UUIDs /\ provisionedGPUs'[u] \in Objects /\ heap'[provisionedGPUs'[u]].gpu = u
<1> SUFFICES ASSUME NEW u \in DOMAIN provisionedGPUs
             PROVE  u \in UUIDs /\ provisionedGPUs[u] \in Objects /\ heap'[provisionedGPUs[u]].gpu = u
  OBVIOUS
<1>1. u \in UUIDs /\ provisionedGPUs[u] \in Objects /\ heap[provisionedGPUs[u]].gpu = u
  BY DEF ManagerTyped, EntriesNameTheirGpu
<1>2. \A o \in Objects : heap'[o] = IF o = v THEN x ELSE heap[o]
  BY DEF ManagerTyped
<1> QED
  BY <1>1, <1>2

\* Recording the device makes it known to the manager; when it fails, the object claims what is left.
LEMMA RecordKeeps ==
    ASSUME ConfInv, NEW c \in Calls, Record(c)
    PROVE  ConfInv'
<1> DEFINE s == V(c).gpuInstance
<1>1. ObjectsInv /\ HardwareInv /\ ManagerTyped /\ HardwareTyped /\ ClaimsOK /\ OwnersOK /\ ListedOK
      /\ EntriesNameTheirGpu /\ ProgressOK
  BY DEF ConfInv, ObjectsInv, HardwareInv
<1>2. /\ call[c].pc = "query" /\ UNCHANGED <<instances, up, virtualGPUs, rmMutex>> /\ UNCHANGED mps
  BY DEF Record
<1>3. /\ V(c).isProvisioned /\ V(c).computeInstance /\ V(c).gpu = None /\ s \in Slots
  BY <1>1, <1>2 DEF ProgressOK
<1>4. /\ call[c] \in CallRecords /\ call[c].v # None /\ call[c].v \in Objects
      /\ V(c) \in ObjectRecords /\ up /\ V(c).mutex = c
  BY <1>2, ObjectOf DEF LockedPCs
<1>5. daemons' \subseteq UUIDs /\ pipes' \subseteq UUIDs
  BY <1>1, <1>2 DEF HardwareTyped, mps
<1>6. CASE /\ heap' = [heap EXCEPT ![call[c].v].gpu = s, ![call[c].v].isEnabled = FALSE,
                                   ![call[c].v].mutex = None]
           /\ provisionedGPUs' = [u \in DOMAIN provisionedGPUs \cup {s} |->
                 IF u = s THEN call[c].v ELSE provisionedGPUs[u]]
           /\ Goto(c, "mps")
           /\ UNCHANGED <<computes, happened>>
  <2> DEFINE x == [V(c) EXCEPT !.gpu = s, !.isEnabled = FALSE, !.mutex = None]
             r == [call[c] EXCEPT !.pc = "mps"]
  <2>1. heap' = [heap EXCEPT ![call[c].v] = x] /\ call' = [call EXCEPT ![c] = r]
    BY <1>1, <1>4, <1>6 DEF ManagerTyped, ObjectRecords, CallRecords, V, Goto
  <2>2. /\ x \in ObjectRecords /\ x.gpuInstance = s /\ x.mutex = None /\ x.gpu = s
        /\ x.isProvisioned /\ x.computeInstance
    BY <1>3, <1>4 DEF ObjectRecords, UUIDs
  <2>3. /\ r \in CallRecords /\ r.pc = "mps" /\ r.v = call[c].v
    BY <1>4 DEF CallRecords, CallPCs
  <2> HIDE DEF x, r
  <2>4. None \notin UUIDs /\ Suits(x, r.pc) /\ r.pc \notin LockedPCs
    BY <1>3, <2>2, <2>3, ConfiguratorAssumption DEF Suits, UUIDs, LockedPCs
  <2>5. \A u \in DOMAIN provisionedGPUs' :
           u \in UUIDs /\ provisionedGPUs'[u] \in Objects /\ heap'[provisionedGPUs'[u]].gpu = u
    <3>1. \A o \in Objects : heap'[o] = IF o = call[c].v THEN x ELSE heap[o]
      BY <1>1, <2>1 DEF ManagerTyped
    <3>2. \A u \in DOMAIN provisionedGPUs :
             u \in UUIDs /\ provisionedGPUs[u] \in Objects /\ heap[provisionedGPUs[u]].gpu = u
      BY <1>1 DEF ManagerTyped, EntriesNameTheirGpu
    <3>3. \A u \in DOMAIN provisionedGPUs : provisionedGPUs[u] # call[c].v
      BY <1>3, <2>4, <3>2 DEF V
    <3>4. DOMAIN provisionedGPUs' = DOMAIN provisionedGPUs \cup {s} /\ provisionedGPUs'[s] = call[c].v
          /\ \A u \in DOMAIN provisionedGPUs : u # s => provisionedGPUs'[u] = provisionedGPUs[u]
      BY <1>6
    <3> HIDE DEF s
    <3> QED
      BY <1>3, <1>4, <2>2, <3>1, <3>2, <3>3, <3>4 DEF UUIDs
  <2>6. /\ ObjectsInv' /\ OthersStay(c) /\ call'[c] = r
        /\ \A o \in Objects : heap'[o] = IF o = call[c].v THEN x ELSE heap[o]
        /\ \A o \in Objects :
              Claims(o)' <=> IF o = call[c].v
                             THEN /\ x.gpuInstance \in Slots /\ ~x.computeInstance
                                  /\ x.isProvisioned \/ r.pc = "compute"
                             ELSE Claims(o)
    <3>1. /\ V(c).mutex \in {None, c} /\ r.v \in {call[c].v, None}
          /\ r.v = None <=> r.pc \in {"idle", "refresh"}
          /\ r.pc # "store" /\ x.mutex = IF r.pc \in LockedPCs THEN c ELSE None
      BY <1>4, <2>2, <2>3, <2>4
    <3>2. ObjectsInv /\ call[c].v # None /\ UNCHANGED <<virtualGPUs, rmMutex>>
      BY <1>1, <1>2, <1>4
    <3>3. x \in ObjectRecords /\ r \in CallRecords /\ Suits(x, r.pc)
      BY <2>2, <2>3, <2>4
    <3>4. Writes(c, x, r)
      BY <2>1, <2>5, <3>1, <3>2, <3>3 DEF Writes
    <3> QED
      BY <1>1, <3>4, CallWrites
  <2>7. HardwareTyped'
    BY <1>1, <1>2, <1>5, <1>6 DEF HardwareTyped
  <2>8. ClaimsOK'
    <3>1. \A o \in Objects : Claims(o)' => Claims(o) /\ heap'[o].gpuInstance = heap[o].gpuInstance
      BY <2>2, <2>6
    <3> QED
      BY <1>1, <1>2, <1>6, <3>1, ClaimsStay
  <2>9. OwnersOK'
    <3>1. \A t \in instances' \ computes' :
             /\ t \in instances \ computes
             /\ ~(call[c].pc \in {"compute", "destroyGI"} /\ V(c).gpuInstance = t)
      BY <1>2, <1>6
    <3> QED
      BY <1>1, <1>6, <2>6, <3>1, OwnersStay
  <2>10. ListedOK'
    <3>1. Physical \subseteq DOMAIN provisionedGPUs' /\ call'[c].pc = "mps"
      BY <1>1, <1>4, <1>6, <2>3, <2>6 DEF ListedOK
    <3> QED
      BY <1>1, <1>2, <1>4, <2>6, <3>1, ListingStays
  <2> QED
    BY <2>6, <2>7, <2>8, <2>9, <2>10 DEF ConfInv, HardwareInv
<1>7. CASE /\ Fails("query")
           /\ computes' = computes \ {s}
           /\ Return(c)
           /\ UNCHANGED provisionedGPUs
  <2>1. /\ happened' \in FailureKinds \cup {None} /\ happened \in {happened', None}
        /\ happened' = "query"
    BY <1>1, <1>7, FailureOrNot
  <2>2. /\ Drop(c) /\ call' = [call EXCEPT ![c] = NotServed]
        /\ NotServed \in CallRecords /\ NotServed.v = None /\ NotServed.pc = "idle"
    BY <1>7, NotServedIs DEF Return
  <2>3. /\ ObjectsInv' /\ OthersStay(c) /\ call'[c] = NotServed
        /\ \A o \in Objects :
              Claims(o)' => /\ Claims(o) /\ heap'[o].gpuInstance = heap[o].gpuInstance
                            /\ ~(call[c].v = o /\ call[c].pc = "compute")
    BY <1>1, <1>2, <1>7, <2>2, CallLetsGo
  <2>4. HardwareTyped'
    BY <1>1, <1>2, <1>5, <1>7, <2>1 DEF HardwareTyped
  <2>5. ClaimsOK'
    BY <1>1, <1>2, <1>7, <2>3, ClaimsStay DEF ClaimsOK
  <2>6. OwnersOK'
    BY <2>1 DEF OwnersOK
  <2>7. ListedOK'
    <3>1. \A t \in computes' :
             \/ t \in DOMAIN provisionedGPUs'
             \/ (t \in computes \ DOMAIN provisionedGPUs /\ ~WillList(c, t))
      BY <1>2, <1>7 DEF WillList
    <3>2. Physical \subseteq DOMAIN provisionedGPUs'
      BY <1>1, <1>4, <1>7 DEF ListedOK
    <3> QED
      BY <1>1, <1>2, <1>4, <2>3, <3>1, <3>2, ListingStays
  <2> QED
    BY <2>3, <2>4, <2>5, <2>6, <2>7 DEF ConfInv, HardwareInv
<1> QED
  BY <1>6, <1>7 DEF Record

\* RequestVirtualGPU sets up MPS of a copy: the manager's objects stay as they are.
LEMMA SetupMPSOfCopyKeeps ==
    ASSUME ConfInv, NEW c \in Calls, SetupMPSOfCopy(c)
    PROVE  ConfInv'
<1>1. ManagerTyped /\ HardwareTyped
  BY DEF ConfInv, ObjectsInv, HardwareInv
<1>2. /\ call[c].pc = "mps" /\ Refresh(c)
      /\ UNCHANGED <<instances, computes, up, virtualGPUs, provisionedGPUs, rmMutex>>
      /\ Fails("start") \/ UNCHANGED happened
      /\ (V(c).gpu # None /\ StartDaemon(V(c).gpu)) \/ UNCHANGED mps
  BY DEF SetupMPSOfCopy
<1>3. V(c) \in ObjectRecords
  BY <1>2, ObjectOf
<1>4. daemons' \subseteq UUIDs /\ pipes' \subseteq UUIDs
  BY <1>1, <1>2, <1>3 DEF HardwareTyped, mps, StartDaemon, ObjectRecords
<1>5. happened' \in FailureKinds \cup {None} /\ happened \in {happened', None}
  BY <1>1, <1>2, FailureOrNot
<1> QED
  BY <1>2, <1>4, <1>5, ReturnKeeps

-----------------------------------------------------------------------------
(***************************************************************************)
(* Release                                                                 *)
(***************************************************************************)
\* A call writes flags of its object; instances and entries stay.
WritesFlags(c, x, r) ==
    /\ x \in ObjectRecords /\ r \in CallRecords
    /\ call[c].v # None /\ V(c).mutex \in {None, c}
    /\ heap' = [heap EXCEPT ![call[c].v] = x] /\ call' = [call EXCEPT ![c] = r]
    /\ r.v = call[c].v /\ call[c].pc \in {"release", "releaseStopped", "destroyCI"}
    /\ r.pc \in {"releaseStopped", "destroyCI", "destroyGI"}
    /\ V(c).gpu \in Slots /\ V(c).isProvisioned /\ (r.pc = "destroyGI" => ~x.computeInstance)
    /\ x.isProvisioned = V(c).isProvisioned /\ x.gpu = V(c).gpu
    /\ x.gpuInstance = V(c).gpuInstance /\ x.computeInstance = V(c).computeInstance /\ x.mutex = c
    /\ UNCHANGED <<instances, computes, up, virtualGPUs, provisionedGPUs, rmMutex>>

\* A step that writes only flags of its device, and MPS, preserves the invariant.
LEMMA FlagsKeep ==
    ASSUME ConfInv, NEW c \in Calls, NEW x, NEW r, WritesFlags(c, x, r),
           daemons' \subseteq UUIDs, pipes' \subseteq UUIDs,
           happened' \in FailureKinds \cup {None}, happened \in {happened', None}
    PROVE  ConfInv'
<1>1. ObjectsInv /\ HardwareInv /\ ManagerTyped /\ EntriesNameTheirGpu
  BY DEF ConfInv, ObjectsInv
<1>2. /\ call[c].v \in Objects /\ up
      /\ V(c).gpuInstance = V(c).gpu
  <2>1. /\ call[c].pc \notin {"idle", "refresh", "store", "forget"}
        /\ V(c).mutex \in {None, c} /\ V(c).gpu \in Slots
    BY DEF WritesFlags
  <2> QED
    BY <2>1, ObjectOf
<1>3. \A u \in DOMAIN provisionedGPUs' :
         u \in UUIDs /\ provisionedGPUs'[u] \in Objects /\ heap'[provisionedGPUs'[u]].gpu = u
  BY <1>1, <1>2, EntriesStay DEF V, WritesFlags
<1>4. /\ r.v \in {call[c].v, None} /\ (r.v = None <=> r.pc \in {"idle", "refresh"})
      /\ r.pc # "store" /\ x.mutex = IF r.pc \in LockedPCs THEN c ELSE None
  BY DEF LockedPCs, WritesFlags
<1>5. Suits(x, r.pc)
  BY <1>2, ConfiguratorAssumption DEF Suits, WritesFlags
<1>6. Writes(c, x, r)
  BY <1>3, <1>4, <1>5 DEF Writes, WritesFlags
<1>7. /\ ObjectsInv' /\ OthersStay(c) /\ call'[c] = r
      /\ \A o \in Objects : heap'[o] = IF o = call[c].v THEN x ELSE heap[o]
      /\ \A o \in Objects :
            Claims(o)' <=> IF o = call[c].v
                           THEN /\ x.gpuInstance \in Slots /\ ~x.computeInstance
                                /\ x.isProvisioned \/ r.pc = "compute"
                           ELSE Claims(o)
  BY <1>1, <1>6, CallWrites
<1>8. \A o \in Objects : Claims(o)' => Claims(o) /\ heap'[o].gpuInstance = heap[o].gpuInstance
  BY <1>7 DEF Claims, V, WritesFlags
<1>9. /\ UNCHANGED <<instances, computes, up, provisionedGPUs>>
      /\ call[c].pc \notin {"compute", "destroyGI", "store", "query", "mps", "refresh", "forget"}
  BY DEF WritesFlags
<1>10. HardwareInv'
  BY <1>1, <1>2, <1>7, <1>8, <1>9, HardwareStays
<1> QED
  BY <1>7, <1>10 DEF ConfInv

\* ReleaseVirtualGPU returns at once for a device that is not provisioned.
LEMMA ReleaseNothingKeeps ==
    ASSUME ConfInv, NEW c \in Calls, ReleaseNothing(c)
    PROVE  ConfInv'
<1>1. HardwareTyped
  BY DEF ConfInv, HardwareInv
<1>2. /\ call[c].pc = "release" /\ Refresh(c) /\ UNCHANGED hardware
      /\ UNCHANGED <<up, virtualGPUs, provisionedGPUs, rmMutex, happened>>
  BY DEF ReleaseNothing
<1>3. /\ UNCHANGED <<instances, computes, up, virtualGPUs, provisionedGPUs, rmMutex>>
      /\ daemons' \subseteq UUIDs /\ pipes' \subseteq UUIDs
      /\ happened' \in FailureKinds \cup {None} /\ happened \in {happened', None}
  BY <1>1, <1>2 DEF hardware, mps, HardwareTyped
<1> QED
  BY <1>2, <1>3, ReturnKeeps

\* Releasing begins with the MPS server, under the mutex of the device.
LEMMA ReleaseStopsMPSKeeps ==
    ASSUME ConfInv, NEW c \in Calls, ReleaseStopsMPS(c)
    PROVE  ConfInv'
<1>1. ManagerTyped /\ HardwareTyped
  BY DEF ConfInv, ObjectsInv, HardwareInv
<1>2. /\ call[c].pc = "release" /\ V(c).mutex = None /\ V(c).isProvisioned /\ V(c).gpu \in Slots
      /\ heap' = [heap EXCEPT ![call[c].v].mutex = c]
      /\ \/ QuitDaemon(V(c).gpu) /\ call' = [call EXCEPT ![c].pc = "releaseStopped", ![c].m = V(c).gpu]
         \/ QuitFails(V(c).gpu) /\ Goto(c, "destroyCI")
         \/ UNCHANGED <<mps, happened>> /\ Goto(c, "destroyCI")
      /\ UNCHANGED <<instances, computes, up, virtualGPUs, provisionedGPUs, rmMutex>>
  BY DEF ReleaseStopsMPS
<1>3. call[c] \in CallRecords /\ call[c].v # None /\ call[c].v \in Objects /\ V(c) \in ObjectRecords
  BY <1>2, ObjectOf
<1>4. /\ daemons' \subseteq UUIDs /\ pipes' \subseteq UUIDs
      /\ Fails("stop") \/ UNCHANGED happened
  BY <1>1, <1>2 DEF HardwareTyped, mps, QuitDaemon, QuitFails
<1>5. happened' \in FailureKinds \cup {None} /\ happened \in {happened', None}
  BY <1>1, <1>4, FailureOrNot
<1>6. PICK r \in CallRecords : /\ call' = [call EXCEPT ![c] = r]
                               /\ r.v = call[c].v /\ r.pc \in {"releaseStopped", "destroyCI"}
  <2>1. CASE call' = [call EXCEPT ![c].pc = "releaseStopped", ![c].m = V(c).gpu]
    <3> DEFINE r == [call[c] EXCEPT !.pc = "releaseStopped", !.m = V(c).gpu]
    <3>1. r \in CallRecords /\ r.v = call[c].v /\ r.pc = "releaseStopped"
      BY <1>2, <1>3 DEF CallRecords, CallPCs, UUIDs
    <3>2. call' = [call EXCEPT ![c] = r]
      BY <1>1, <1>3, <2>1 DEF ManagerTyped, CallRecords
    <3> QED
      BY <3>1, <3>2
  <2>2. CASE Goto(c, "destroyCI")
    <3> DEFINE r == [call[c] EXCEPT !.pc = "destroyCI"]
    <3>1. r \in CallRecords /\ r.v = call[c].v /\ r.pc = "destroyCI"
      BY <1>3 DEF CallRecords, CallPCs
    <3>2. call' = [call EXCEPT ![c] = r]
      BY <1>1, <1>3, <2>2 DEF ManagerTyped, CallRecords, Goto
    <3> QED
      BY <3>1, <3>2
  <2> QED
    BY <1>2, <2>1, <2>2
<1> DEFINE x == [V(c) EXCEPT !.mutex = c]
<1>7. heap' = [heap EXCEPT ![call[c].v] = x]
  BY <1>1, <1>2, <1>3 DEF ManagerTyped, ObjectRecords, V
<1>8. /\ x \in ObjectRecords /\ x.mutex = c /\ x.isProvisioned = V(c).isProvisioned /\ x.gpu = V(c).gpu
      /\ x.gpuInstance = V(c).gpuInstance /\ x.computeInstance = V(c).computeInstance
  BY <1>3 DEF ObjectRecords
<1> HIDE DEF x
<1> QED
  BY <1>2, <1>3, <1>4, <1>5, <1>6, <1>7, <1>8, FlagsKeep DEF WritesFlags

\* The MPS server has been stopped; the instances are still there.
LEMMA ReleaseStoppedKeeps ==
    ASSUME ConfInv, NEW c \in Calls, ReleaseStopped(c)
    PROVE  ConfInv'
<1>1. ManagerTyped /\ HardwareTyped /\ ProgressOK
  BY DEF ConfInv, ObjectsInv, HardwareInv
<1>2. /\ call[c].pc = "releaseStopped"
      /\ heap' = [heap EXCEPT ![call[c].v].isEnabled = @ /\ call[c].m \in pipes]
      /\ call' = [call EXCEPT ![c].pc = "destroyCI", ![c].m = None]
      /\ UNCHANGED hardware /\ UNCHANGED <<up, virtualGPUs, provisionedGPUs, rmMutex, happened>>
  BY DEF ReleaseStopped
<1>3. /\ call[c] \in CallRecords /\ call[c].v # None /\ call[c].v \in Objects /\ V(c) \in ObjectRecords
      /\ V(c).mutex = c
  BY <1>2, ObjectOf DEF LockedPCs
<1>4. V(c).gpu \in Slots /\ V(c).isProvisioned
  BY <1>1, <1>2, <1>3, ObjectOf, ConfiguratorAssumption DEF ProgressOK
<1>5. /\ UNCHANGED <<instances, computes, up, virtualGPUs, provisionedGPUs, rmMutex>>
      /\ daemons' \subseteq UUIDs /\ pipes' \subseteq UUIDs
      /\ happened' \in FailureKinds \cup {None} /\ happened \in {happened', None}
  BY <1>1, <1>2 DEF hardware, mps, HardwareTyped
<1> DEFINE e == V(c).isEnabled /\ call[c].m \in pipes
           x == [V(c) EXCEPT !.isEnabled = e]
           r == [call[c] EXCEPT !.pc = "destroyCI", !.m = None]
<1>6. heap' = [heap EXCEPT ![call[c].v] = x]
  BY <1>1, <1>2, <1>3 DEF ManagerTyped, ObjectRecords, V
<1>7. call' = [call EXCEPT ![c] = r]
  BY <1>1, <1>2, <1>3 DEF ManagerTyped, CallRecords
<1>8. e \in BOOLEAN
  OBVIOUS
<1> HIDE DEF e
<1>9. /\ x \in ObjectRecords /\ x.mutex = c /\ x.isProvisioned = V(c).isProvisioned /\ x.gpu = V(c).gpu
      /\ x.gpuInstance = V(c).gpuInstance /\ x.computeInstance = V(c).computeInstance
  BY <1>3, <1>8 DEF ObjectRecords
<1>10. r \in CallRecords /\ r.v = call[c].v /\ r.pc = "destroyCI"
  BY <1>3 DEF CallRecords, CallPCs
<1> HIDE DEF x, r
<1> QED
  BY <1>2, <1>3, <1>4, <1>5, <1>6, <1>7, <1>9, <1>10, FlagsKeep DEF WritesFlags

\* Destroying the compute instance makes the object claim the GPU instance that is left.
LEMMA DestroyComputeInstanceKeeps ==
    ASSUME ConfInv, NEW c \in Calls, DestroyComputeInstance(c)
    PROVE  ConfInv'
<1> DEFINE s == V(c).gpuInstance
<1>1. ObjectsInv /\ HardwareInv /\ ManagerTyped /\ HardwareTyped /\ ClaimsOK /\ OwnersOK /\ ListedOK
      /\ EntriesNameTheirGpu /\ ProgressOK
  BY DEF ConfInv, ObjectsInv, HardwareInv
<1>2. /\ call[c].pc = "destroyCI" /\ UNCHANGED <<instances, up, virtualGPUs, provisionedGPUs, rmMutex>>
      /\ UNCHANGED mps
  BY DEF DestroyComputeInstance
<1>3. /\ call[c] \in CallRecords /\ call[c].v # None /\ call[c].v \in Objects
      /\ V(c) \in ObjectRecords /\ up /\ V(c).mutex = c
  BY <1>2, ObjectOf DEF LockedPCs
<1>4. V(c).gpu \in Slots /\ V(c).isProvisioned /\ s = V(c).gpu
  BY <1>1, <1>2, <1>3, ObjectOf, ConfiguratorAssumption DEF ProgressOK
<1>5. daemons' \subseteq UUIDs /\ pipes' \subseteq UUIDs
  BY <1>1, <1>2 DEF HardwareTyped, mps
<1>6. CASE /\ V(c).computeInstance => s \in computes
           /\ computes' = IF V(c).computeInstance THEN computes \ {s} ELSE computes
           /\ heap' = [heap EXCEPT ![call[c].v].computeInstance = FALSE]
           /\ Goto(c, "destroyGI")
           /\ UNCHANGED happened
  <2> DEFINE x == [V(c) EXCEPT !.computeInstance = FALSE]
             r == [call[c] EXCEPT !.pc = "destroyGI"]
  <2>1. heap' = [heap EXCEPT ![call[c].v] = x] /\ call' = [call EXCEPT ![c] = r]
    BY <1>1, <1>3, <1>6 DEF ManagerTyped, ObjectRecords, CallRecords, V, Goto
  <2>2. /\ x \in ObjectRecords /\ x.gpuInstance = s /\ x.mutex = c /\ x.gpu = V(c).gpu
        /\ x.isProvisioned = V(c).isProvisioned /\ x.computeInstance = FALSE
    BY <1>3 DEF ObjectRecords
  <2>3. /\ r \in CallRecords /\ r.pc = "destroyGI" /\ r.v = call[c].v
    BY <1>3 DEF CallRecords, CallPCs
  <2>4. happened' \in FailureKinds \cup {None} /\ happened \in {happened', None}
    BY <1>1, <1>6 DEF HardwareTyped
  <2> HIDE DEF x, r
  <2>5. CASE ~V(c).computeInstance
    <3>1. V(c).computeInstance = FALSE
      BY <1>3, <2>5 DEF ObjectRecords
    <3>2. WritesFlags(c, x, r)
      BY <1>2, <1>3, <1>4, <1>6, <2>1, <2>2, <2>3, <3>1 DEF WritesFlags
    <3> QED
      BY <1>5, <2>4, <3>2, FlagsKeep
  <2>6. CASE V(c).computeInstance
    <3>1. s \in computes /\ computes' = computes \ {s}
      BY <1>6, <2>6
    <3>2. \A u \in DOMAIN provisionedGPUs' :
             u \in UUIDs /\ provisionedGPUs'[u] \in Objects /\ heap'[provisionedGPUs'[u]].gpu = u
      BY <1>1, <1>2, <1>3, <2>1, <2>2, EntriesStay DEF V
    <3>3. Writes(c, x, r)
      BY <1>2, <1>3, <1>4, <2>1, <2>2, <2>3, <3>2, ConfiguratorAssumption DEF Writes, Suits, LockedPCs
    <3>4. /\ ObjectsInv' /\ OthersStay(c) /\ call'[c] = r
          /\ \A o \in Objects : heap'[o] = IF o = call[c].v THEN x ELSE heap[o]
          /\ \A o \in Objects :
                Claims(o)' <=> IF o = call[c].v
                               THEN /\ x.gpuInstance \in Slots /\ ~x.computeInstance
                                    /\ x.isProvisioned \/ r.pc = "compute"
                               ELSE Claims(o)
      BY <1>1, <3>3, CallWrites
    <3> HIDE DEF s
    <3>5. HardwareTyped'
      BY <1>1, <1>2, <1>5, <2>4, <3>1 DEF HardwareTyped
    <3>6. ClaimsOK'
      <4>1. \A o \in Objects : Claims(o) => heap[o].gpuInstance \in instances \ computes
        BY <1>1 DEF ClaimsOK
      <4>2. \A o \in Objects : Claims(o)' =>
               \/ o = call[c].v /\ heap'[o].gpuInstance = s
               \/ /\ o # call[c].v /\ Claims(o) /\ heap'[o].gpuInstance = heap[o].gpuInstance
                  /\ heap[o].gpuInstance \in instances \ computes /\ heap[o].gpuInstance # s
        BY <2>2, <3>1, <3>4, <4>1
      <4>3. s \in instances' \ computes' /\ instances \ computes \subseteq instances' \ computes'
        BY <1>1, <1>2, <3>1 DEF HardwareTyped
      <4>4. ASSUME NEW o \in Objects, Claims(o)'
            PROVE  heap'[o].gpuInstance \in instances' \ computes'
        BY <4>2, <4>3, <4>4
      <4>5. ASSUME NEW o \in Objects, NEW q \in Objects, Claims(o)', Claims(q)',
                   heap'[o].gpuInstance = heap'[q].gpuInstance
            PROVE  o = q
        <5>1. CASE o = call[c].v \/ q = call[c].v
          BY <4>2, <4>5, <5>1
        <5>2. CASE o # call[c].v /\ q # call[c].v
          BY <1>1, <4>2, <4>5, <5>2 DEF ClaimsOK
        <5> QED
          BY <5>1, <5>2
      <4> QED
        BY <4>4, <4>5 DEF ClaimsOK
    <3>7. OwnersOK'
      <4>1. \A t \in instances' \ computes' :
               \/ call'[c].pc \in {"compute", "destroyGI"} /\ heap'[call'[c].v].gpuInstance = t
               \/ /\ t \in instances \ computes
                  /\ ~(call[c].pc \in {"compute", "destroyGI"} /\ V(c).gpuInstance = t)
        BY <1>2, <1>3, <2>2, <2>3, <3>1, <3>4
      <4> QED
        BY <1>1, <2>4, <3>4, <4>1, OwnersStay
    <3>8. ListedOK'
      <4>1. \A t \in computes' :
               t \in DOMAIN provisionedGPUs' \/ (t \in computes \ DOMAIN provisionedGPUs /\ ~WillList(c, t))
        BY <1>2, <3>1 DEF WillList
      <4>2. Physical \subseteq DOMAIN provisionedGPUs'
        BY <1>1, <1>2, <1>3 DEF ListedOK
      <4> QED
        BY <1>1, <1>2, <1>3, <3>4, <4>1, <4>2, ListingStays
    <3> QED
      BY <3>4, <3>5, <3>6, <3>7, <3>8 DEF ConfInv, HardwareInv
  <2> QED
    BY <2>5, <2>6
<1>7. CASE /\ IF s \in computes THEN Fails("destroyCI") ELSE UNCHANGED happened
           /\ Return(c)
           /\ UNCHANGED computes
  <2>1. happened' \in FailureKinds \cup {None} /\ happened \in {happened', None}
    BY <1>1, <1>7, FailureOrNot
  <2> QED
    BY <1>2, <1>5, <1>7, <2>1, ReturnKeeps
<1> QED
  BY <1>6, <1>7 DEF DestroyComputeInstance

\* Destroying the GPU instance ends the claim; on failure the object keeps it.
LEMMA DestroyGpuInstanceKeeps ==
    ASSUME ConfInv, NEW c \in Calls, DestroyGpuInstance(c)
    PROVE  ConfInv'
<1> DEFINE s == V(c).gpuInstance
<1>1. ObjectsInv /\ HardwareInv /\ ManagerTyped /\ HardwareTyped /\ ClaimsOK /\ OwnersOK /\ ListedOK
      /\ EntriesNameTheirGpu /\ ProgressOK
  BY DEF ConfInv, ObjectsInv, HardwareInv
<1>2. /\ call[c].pc = "destroyGI" /\ UNCHANGED <<computes, up, virtualGPUs, provisionedGPUs, rmMutex>>
      /\ UNCHANGED mps
  BY DEF DestroyGpuInstance
<1>3. /\ call[c] \in CallRecords /\ call[c].v # None /\ call[c].v \in Objects
      /\ V(c) \in ObjectRecords /\ up /\ V(c).mutex = c
  BY <1>2, ObjectOf DEF LockedPCs
<1>4. V(c).gpu \in Slots /\ V(c).isProvisioned /\ s = V(c).gpu /\ ~V(c).computeInstance
  BY <1>1, <1>2, <1>3, ObjectOf, ConfiguratorAssumption DEF ProgressOK
<1>5. daemons' \subseteq UUIDs /\ pipes' \subseteq UUIDs
  BY <1>1, <1>2 DEF HardwareTyped, mps
<1>6. Claims(call[c].v) /\ s = heap[call[c].v].gpuInstance
  BY <1>4 DEF Claims, V
<1>7. CASE /\ s \in instances \ computes
           /\ instances' = instances \ {s}
           /\ heap' = [heap EXCEPT ![call[c].v].gpuInstance = None]
           /\ Goto(c, "forget")
           /\ UNCHANGED happened
  <2> DEFINE x == [V(c) EXCEPT !.gpuInstance = None]
             r == [call[c] EXCEPT !.pc = "forget"]
  <2>1. heap' = [heap EXCEPT ![call[c].v] = x] /\ call' = [call EXCEPT ![c] = r]
    BY <1>1, <1>3, <1>7 DEF ManagerTyped, ObjectRecords, CallRecords, V, Goto
  <2>2. /\ x \in ObjectRecords /\ x.gpuInstance = None /\ x.mutex = c /\ x.gpu = V(c).gpu
        /\ x.isProvisioned = V(c).isProvisioned /\ x.computeInstance = V(c).computeInstance
    BY <1>3 DEF ObjectRecords
  <2>3. /\ r \in CallRecords /\ r.pc = "forget" /\ r.v = call[c].v
    BY <1>3 DEF CallRecords, CallPCs
  <2>4. happened' \in FailureKinds \cup {None} /\ happened \in {happened', None}
    BY <1>1, <1>7 DEF HardwareTyped
  <2> HIDE DEF x, r
  <2>5. \A u \in DOMAIN provisionedGPUs' :
           u \in UUIDs /\ provisionedGPUs'[u] \in Objects /\ heap'[provisionedGPUs'[u]].gpu = u
    BY <1>1, <1>2, <1>3, <2>1, <2>2, EntriesStay DEF V
  <2>6. Writes(c, x, r)
    BY <1>2, <1>3, <1>4, <2>1, <2>2, <2>3, <2>5, ConfiguratorAssumption DEF Writes, Suits, LockedPCs
  <2>7. /\ ObjectsInv' /\ OthersStay(c) /\ call'[c] = r
        /\ \A o \in Objects : heap'[o] = IF o = call[c].v THEN x ELSE heap[o]
        /\ \A o \in Objects :
              Claims(o)' <=> IF o = call[c].v
                             THEN /\ x.gpuInstance \in Slots /\ ~x.computeInstance
                                  /\ x.isProvisioned \/ r.pc = "compute"
                             ELSE Claims(o)
    BY <1>1, <2>6, CallWrites
  <2>8. HardwareTyped'
    BY <1>1, <1>2, <1>5, <1>7, <2>4 DEF HardwareTyped
  <2>9. ClaimsOK'
    <3>1. \A o \in Objects : Claims(o) /\ o # call[c].v => heap[o].gpuInstance # s
      BY <1>1, <1>3, <1>6 DEF ClaimsOK
    <3>2. None \notin Slots
      BY ConfiguratorAssumption
    <3>3. \A o \in Objects : Claims(o)' => o # call[c].v /\ Claims(o) /\ heap'[o] = heap[o]
      BY <2>2, <2>7, <3>2
    <3>4. \A o \in Objects : Claims(o) => heap[o].gpuInstance \in instances \ computes
      BY <1>1 DEF ClaimsOK
    <3>5. \A o \in Objects :
             Claims(o)' => /\ Claims(o) /\ heap'[o].gpuInstance = heap[o].gpuInstance
                           /\ heap[o].gpuInstance \in instances' \ computes'
      BY <1>2, <1>7, <3>1, <3>3, <3>4
    <3> QED
      BY <1>1, <3>5, ClaimsStay
  <2>10. OwnersOK'
    <3>1. \A t \in instances' \ computes' :
             /\ t \in instances \ computes
             /\ ~(call[c].pc \in {"compute", "destroyGI"} /\ V(c).gpuInstance = t)
      BY <1>2, <1>7
    <3> QED
      BY <1>1, <2>4, <2>7, <3>1, OwnersStay
  <2>11. ListedOK'
    <3>1. Physical \subseteq DOMAIN provisionedGPUs' /\ call'[c].pc = "forget"
      BY <1>1, <1>2, <1>3, <2>3, <2>7 DEF ListedOK
    <3> QED
      BY <1>1, <1>2, <1>3, <2>7, <3>1, ListingStays
  <2> QED
    BY <2>7, <2>8, <2>9, <2>10, <2>11 DEF ConfInv, HardwareInv
<1>8. CASE /\ IF s \in instances \ computes THEN Fails("destroyGI") ELSE UNCHANGED happened
           /\ Return(c)
           /\ UNCHANGED instances
  <2>1. /\ happened' \in FailureKinds \cup {None} /\ happened \in {happened', None}
        /\ s \in instances \ computes => happened' \in IncompleteFailure
    BY <1>1, <1>8, FailureOrNot DEF IncompleteFailure
  <2> QED
    BY <1>2, <1>5, <1>8, <2>1, ReturnKeeps
<1> QED
  BY <1>7, <1>8 DEF DestroyGpuInstance

\* The released device leaves the list of the provisioned, and the object is as good as new.
LEMMA ForgetKeeps ==
    ASSUME ConfInv, NEW c \in Calls, Forget(c)
    PROVE  ConfInv'
<1>1. ObjectsInv /\ HardwareInv /\ ManagerTyped /\ HardwareTyped /\ ClaimsOK /\ OwnersOK /\ ListedOK
      /\ EntriesNameTheirGpu /\ ProgressOK
  BY DEF ConfInv, ObjectsInv, HardwareInv
<1> DEFINE r == RefreshNext(call[c])
<1>2. /\ call[c].pc = "forget" /\ UNCHANGED hardware /\ UNCHANGED <<up, virtualGPUs, rmMutex, happened>>
      /\ heap' = [heap EXCEPT ![call[c].v] = Unprovisioned] /\ call' = [call EXCEPT ![c] = r]
      /\ provisionedGPUs' = [u \in DOMAIN provisionedGPUs \ {V(c).gpu} |-> provisionedGPUs[u]]
  BY DEF Forget, Restrict
<1>3. /\ call[c].v # None /\ call[c].v \in Objects /\ up /\ V(c).mutex = c
  BY <1>2, ObjectOf DEF LockedPCs
<1>4. V(c).gpu \in Slots
  BY <1>1, <1>2 DEF ProgressOK
<1>5. /\ UNCHANGED instances /\ UNCHANGED computes
      /\ HardwareTyped'
  BY <1>1, <1>2 DEF hardware, mps, HardwareTyped
<1>6. /\ r \in CallRecords /\ r.pc = "refresh" /\ r.v = None
  BY <1>1, NotServedIs
<1> HIDE DEF r
<1>7. /\ Unprovisioned \in ObjectRecords /\ ~Unprovisioned.isProvisioned /\ Unprovisioned.gpu = None
      /\ Unprovisioned.gpuInstance = None /\ ~Unprovisioned.computeInstance /\ Unprovisioned.mutex = None
  BY DEF Unprovisioned, ObjectRecords
<1>8. None \notin UUIDs /\ None \notin Slots /\ None \notin Physical /\ Slots \cap Physical = {}
  BY ConfiguratorAssumption DEF UUIDs
<1>9. \A u \in DOMAIN provisionedGPUs' :
         u \in UUIDs /\ provisionedGPUs'[u] \in Objects /\ heap'[provisionedGPUs'[u]].gpu = u
  <2>1. \A o \in Objects : o # call[c].v => heap'[o] = heap[o]
    BY <1>1, <1>2 DEF ManagerTyped
  <2>2. \A u \in DOMAIN provisionedGPUs :
           u \in UUIDs /\ provisionedGPUs[u] \in Objects /\ heap[provisionedGPUs[u]].gpu = u
    BY <1>1 DEF ManagerTyped, EntriesNameTheirGpu
  <2>3. \A u \in DOMAIN provisionedGPUs : u # V(c).gpu => provisionedGPUs[u] # call[c].v
    BY <2>2 DEF V
  <2> QED
    BY <1>2, <2>1, <2>2, <2>3
<1>10. Writes(c, Unprovisioned, r)
  BY <1>2, <1>3, <1>6, <1>7, <1>8, <1>9 DEF Writes, Suits, LockedPCs
<1>11. /\ ObjectsInv' /\ OthersStay(c) /\ call'[c] = r
       /\ \A o \in Objects : heap'[o] = IF o = call[c].v THEN Unprovisioned ELSE heap[o]
       /\ \A o \in Objects :
             Claims(o)' <=> IF o = call[c].v
                            THEN /\ Unprovisioned.gpuInstance \in Slots /\ ~Unprovisioned.computeInstance
                                 /\ Unprovisioned.isProvisioned \/ r.pc = "compute"
                            ELSE Claims(o)
  BY <1>1, <1>10, CallWrites
<1>12. ClaimsOK'
  <2>1. \A o \in Objects : Claims(o)' => Claims(o) /\ heap'[o].gpuInstance = heap[o].gpuInstance
    BY <1>7, <1>8, <1>11
  <2> QED
    BY <1>1, <1>5, <2>1, ClaimsStay
<1>13. OwnersOK'
  <2>1. \A t \in instances' \ computes' :
           /\ t \in instances \ computes
           /\ ~(call[c].pc \in {"compute", "destroyGI"} /\ V(c).gpuInstance = t)
    BY <1>2, <1>5
  <2> QED
    BY <1>1, <1>2, <1>11, <2>1, OwnersStay
<1>14. ListedOK'
  <2>1. Physical \subseteq DOMAIN provisionedGPUs' /\ call'[c].pc = "refresh"
    BY <1>1, <1>2, <1>3, <1>4, <1>6, <1>8, <1>11 DEF ListedOK
  <2> QED
    BY <1>1, <1>2, <1>3, <1>11, <2>1, ListingStays
<1> QED
  BY <1>5, <1>11, <1>12, <1>13, <1>14 DEF ConfInv, HardwareInv

-----------------------------------------------------------------------------
(***************************************************************************)
(* EnableMPS and DisableMPS                                                *)
(***************************************************************************)
\* isEnabled is written without a lock, while another call may have the mutex of the object.
LEMMA EnabledKeeps ==
    ASSUME ConfInv, NEW c \in Calls, NEW e \in BOOLEAN,
           call[c].pc \in {"started", "disableStopped"},
           heap' = [heap EXCEPT ![call[c].v].isEnabled = e],
           call' = [call EXCEPT ![c] = NotServed],
           UNCHANGED <<instances, computes, up, virtualGPUs, provisionedGPUs, rmMutex, happened>>,
           UNCHANGED mps
    PROVE  ConfInv'
<1>1. /\ ManagerTyped /\ LocksOK /\ HandlesOK /\ ProgressOK /\ EntriesNameTheirGpu
      /\ HardwareInv
  BY DEF ConfInv, ObjectsInv
<1>2. NotServed \in CallRecords /\ NotServed.v = None /\ NotServed.pc = "idle"
  BY NotServedIs
<1>3. /\ call' \in [Calls -> CallRecords] /\ call'[c] = NotServed
      /\ \A d \in Calls \ {c} : call'[d] = call[d]
  BY <1>1, <1>2, CallGoesOn
<1>4. /\ heap' \in [Objects -> ObjectRecords]
      /\ \A o \in Objects :
            /\ heap'[o].isProvisioned = heap[o].isProvisioned /\ heap'[o].gpu = heap[o].gpu
            /\ heap'[o].gpuInstance = heap[o].gpuInstance
            /\ heap'[o].computeInstance = heap[o].computeInstance /\ heap'[o].mutex = heap[o].mutex
  <2>1. call[c].v \in Objects
    BY ObjectOf
  <2>2. \A o \in Objects : heap[o] \in ObjectRecords
    BY <1>1 DEF ManagerTyped
  <2> DEFINE x == [heap[call[c].v] EXCEPT !.isEnabled = e]
  <2>3. /\ x \in ObjectRecords
        /\ x.isProvisioned = heap[call[c].v].isProvisioned /\ x.gpu = heap[call[c].v].gpu
        /\ x.gpuInstance = heap[call[c].v].gpuInstance
        /\ x.computeInstance = heap[call[c].v].computeInstance /\ x.mutex = heap[call[c].v].mutex
    BY <2>1, <2>2 DEF ObjectRecords
  <2>4. heap' = [heap EXCEPT ![call[c].v] = x]
    BY <1>1, <2>1, <2>2 DEF ManagerTyped, ObjectRecords
  <2> HIDE DEF x
  <2> QED
    BY <1>1, <2>1, <2>3, <2>4 DEF ManagerTyped
<1>5. None \notin Objects
  BY ConfiguratorAssumption
<1>6. \A d \in Calls : call[d].pc \in LockedPCs => d # c /\ call'[d] = call[d] /\ call[d].v \in Objects
  BY <1>1, <1>3 DEF LockedPCs, ManagerTyped, CallRecords
<1>7. ManagerTyped'
  <2>1. \A d \in Calls : call'[d].v = None <=> call'[d].pc \in {"idle", "refresh", "store"}
    BY <1>1, <1>2, <1>3 DEF ManagerTyped
  <2> QED
    BY <1>1, <1>3, <1>4, <2>1 DEF ManagerTyped
<1>8. LocksOK'
  <2>1. \A o \in Objects, d \in Calls : heap'[o].mutex = d <=> call'[d].v = o /\ call'[d].pc \in LockedPCs
    BY <1>1, <1>2, <1>3, <1>4, <1>5 DEF LocksOK, LockedPCs
  <2>2. \A d \in Calls : rmMutex' = d <=> call'[d].pc = "store"
    BY <1>1, <1>2, <1>3 DEF LocksOK
  <2> QED
    BY <2>1, <2>2 DEF LocksOK
<1>9. HandlesOK'
  <2>1. \A o \in Objects : Forgetting(o) => Forgetting(o)'
    BY <1>6 DEF Forgetting, LockedPCs
  <2> QED
    BY <1>1, <1>4, <2>1 DEF HandlesOK
<1>10. ProgressOK'
  <2> SUFFICES ASSUME NEW d \in Calls
               PROVE  /\ call'[d].pc = "compute" =>
                            ~heap'[call'[d].v].isProvisioned /\ heap'[call'[d].v].gpuInstance \in Slots
                      /\ call'[d].pc = "query" =>
                            /\ heap'[call'[d].v].isProvisioned /\ heap'[call'[d].v].computeInstance
                            /\ heap'[call'[d].v].gpu = None /\ heap'[call'[d].v].gpuInstance \in Slots
                      /\ call'[d].pc \in {"releaseStopped", "destroyCI", "destroyGI", "forget"} =>
                            heap'[call'[d].v].gpu \in Slots
                      /\ call'[d].pc \in {"destroyGI", "forget"} => ~heap'[call'[d].v].computeInstance
                      /\ call'[d].pc = "forget" => heap'[call'[d].v].gpuInstance = None
    BY DEF ProgressOK, V
  <2>1. CASE call[d].pc \in LockedPCs
    BY <1>1, <1>4, <1>6, <2>1 DEF ProgressOK, V
  <2>2. CASE call[d].pc \notin LockedPCs
    <3>1. call'[d].pc \notin LockedPCs
      BY <1>2, <1>3, <2>2 DEF LockedPCs
    <3> QED
      BY <3>1 DEF LockedPCs
  <2> QED
    BY <2>1, <2>2
<1>11. EntriesNameTheirGpu'
  <2>1. \A u \in DOMAIN provisionedGPUs : provisionedGPUs[u] \in Objects
    BY <1>1 DEF ManagerTyped
  <2> QED
    BY <1>1, <1>4, <2>1 DEF EntriesNameTheirGpu
<1>12. OthersStay(c)
  BY <1>3, <1>4, <1>6 DEF OthersStay
<1>13. \A o \in Objects : Claims(o)' => Claims(o) /\ heap'[o].gpuInstance = heap[o].gpuInstance
  <2>1. \A o \in Objects : (\E d \in Calls : call'[d].v = o /\ call'[d].pc = "compute") =>
                              \E d \in Calls : call[d].v = o /\ call[d].pc = "compute"
    BY <1>2, <1>3
  <2> QED
    BY <1>4, <2>1 DEF Claims
<1>14. HardwareInv'
  <2>1. /\ daemons' \subseteq UUIDs /\ pipes' \subseteq UUIDs
        /\ happened' \in FailureKinds \cup {None} /\ happened \in {happened', None} /\ up
    BY <1>1, BusyIsUp DEF HardwareInv, HardwareTyped, mps
  <2> QED
    BY <1>1, <1>12, <1>13, <2>1, HardwareStays
<1> QED
  BY <1>7, <1>8, <1>9, <1>10, <1>11, <1>14 DEF ConfInv, ObjectsInv

\* A call of EnableMPS or DisableMPS goes on after its command.
LEMMA CommandKeeps ==
    ASSUME ConfInv, NEW c \in Calls, NEW r \in CallRecords,
           call[c].pc \in {"enable", "disable"}, r.pc \in {"started", "disableStopped"},
           r.v = call[c].v, call' = [call EXCEPT ![c] = r],
           UNCHANGED <<instances, computes, up, heap, virtualGPUs, provisionedGPUs, rmMutex, happened>>,
           daemons' \subseteq UUIDs, pipes' \subseteq UUIDs
    PROVE  ConfInv'
<1>1. ObjectsInv /\ HardwareInv /\ HardwareTyped
  BY DEF ConfInv, HardwareInv
<1>2. call[c].v # None /\ up
  BY ObjectOf
<1>3. /\ ObjectsInv' /\ OthersStay(c) /\ call'[c] = r
      /\ \A o \in Objects : Claims(o)' <=> Claims(o)
  <2>1. UNCHANGED <<manager, rmMutex>>
    BY DEF manager
  <2> QED
    BY <1>1, <1>2, <2>1, CallMoves DEF LockedPCs
<1>4. HardwareInv'
  <2>1. happened' \in FailureKinds \cup {None} /\ happened \in {happened', None}
    BY <1>1 DEF HardwareTyped
  <2>2. UNCHANGED <<instances, computes, up, provisionedGPUs>> /\ UNCHANGED heap
    OBVIOUS
  <2> QED
    BY <1>1, <1>2, <1>3, <2>1, <2>2, HardwareStays
<1> QED
  BY <1>3, <1>4 DEF ConfInv

\* enableMPS and disableMPS write flags, or end the process when the GPU has no MPS server.
LEMMA SwitchMPSKeeps ==
    ASSUME ConfInv, NEW c \in Calls, SwitchMPS(c)
    PROVE  ConfInv'
<1>1. ManagerTyped /\ HardwareTyped
  BY DEF ConfInv, ObjectsInv, HardwareInv
<1>2. CASE MPSPanics(c)
  BY <1>2, CrashKeeps DEF MPSPanics, HandlerPanics
<1>3. CASE MPSAsWanted(c)
  <2>1. /\ call[c].pc \in {"enable", "disable"} /\ Return(c) /\ UNCHANGED hardware
        /\ UNCHANGED <<up, virtualGPUs, provisionedGPUs, rmMutex, happened>>
    BY <1>3 DEF MPSAsWanted
  <2>2. /\ UNCHANGED <<instances, computes, up, virtualGPUs, provisionedGPUs, rmMutex>>
        /\ daemons' \subseteq UUIDs /\ pipes' \subseteq UUIDs
        /\ happened' \in FailureKinds \cup {None} /\ happened \in {happened', None}
    BY <1>1, <2>1 DEF hardware, mps, HardwareTyped
  <2> QED
    BY <2>1, <2>2, ReturnKeeps
<1>4. CASE SetupMPSEnvironment(c)
  <2>1. /\ call[c].pc = "enable" /\ V(c).gpu # None
        /\ UNCHANGED <<instances, computes, up, virtualGPUs, provisionedGPUs, rmMutex>>
    BY <1>4 DEF SetupMPSEnvironment
  <2>2. call[c] \in CallRecords /\ V(c) \in ObjectRecords
    BY <2>1, ObjectOf
  <2>3. CASE StartDaemon(V(c).gpu) /\ Goto(c, "started") /\ UNCHANGED <<heap, happened>>
    <3> DEFINE r == [call[c] EXCEPT !.pc = "started"]
    <3>1. r \in CallRecords /\ r.pc = "started" /\ r.v = call[c].v
      BY <2>2 DEF CallRecords, CallPCs
    <3>2. call' = [call EXCEPT ![c] = r]
      BY <1>1, <2>2, <2>3 DEF Goto, ManagerTyped, CallRecords
    <3>3. daemons' \subseteq UUIDs /\ pipes' \subseteq UUIDs
      BY <1>1, <2>1, <2>2, <2>3 DEF StartDaemon, HardwareTyped, ObjectRecords
    <3>4. UNCHANGED <<instances, computes, up, heap, virtualGPUs, provisionedGPUs, rmMutex, happened>>
      BY <2>1, <2>3
    <3> HIDE DEF r
    <3> QED
      BY <2>1, <3>1, <3>2, <3>3, <3>4, CommandKeeps
  <2>4. CASE Fails("start") /\ Return(c) /\ UNCHANGED mps
    <3>1. /\ daemons' \subseteq UUIDs /\ pipes' \subseteq UUIDs
          /\ happened' \in FailureKinds \cup {None} /\ happened \in {happened', None}
      BY <1>1, <2>4, FailureOrNot DEF HardwareTyped, mps
    <3> QED
      BY <2>1, <2>4, <3>1, ReturnKeeps
  <2> QED
    BY <1>4, <2>3, <2>4 DEF SetupMPSEnvironment
<1>5. CASE StopMPSDaemon(c)
  <2>1. /\ call[c].pc = "disable" /\ V(c).gpu # None
        /\ UNCHANGED <<instances, computes, up, virtualGPUs, provisionedGPUs, rmMutex>>
    BY <1>5 DEF StopMPSDaemon
  <2>2. call[c] \in CallRecords /\ V(c) \in ObjectRecords
    BY <2>1, ObjectOf
  <2>3. CASE /\ QuitDaemon(V(c).gpu) /\ UNCHANGED heap
             /\ call' = [call EXCEPT ![c].pc = "disableStopped", ![c].m = V(c).gpu]
    <3> DEFINE r == [call[c] EXCEPT !.pc = "disableStopped", !.m = V(c).gpu]
    <3>1. r \in CallRecords /\ r.pc = "disableStopped" /\ r.v = call[c].v
      BY <2>2 DEF CallRecords, ObjectRecords, CallPCs
    <3>2. call' = [call EXCEPT ![c] = r]
      BY <1>1, <2>2, <2>3 DEF ManagerTyped, CallRecords
    <3>3. daemons' \subseteq UUIDs /\ pipes' \subseteq UUIDs
      BY <1>1, <2>3 DEF QuitDaemon, HardwareTyped
    <3>4. UNCHANGED <<instances, computes, up, heap, virtualGPUs, provisionedGPUs, rmMutex, happened>>
      BY <2>1, <2>3 DEF QuitDaemon
    <3> HIDE DEF r
    <3> QED
      BY <2>1, <3>1, <3>2, <3>3, <3>4, CommandKeeps
  <2>4. CASE QuitFails(V(c).gpu) /\ Return(c)
    <3>1. UNCHANGED mps /\ (Fails("stop") \/ UNCHANGED happened)
      BY <2>4 DEF QuitFails
    <3>2. /\ daemons' \subseteq UUIDs /\ pipes' \subseteq UUIDs
          /\ happened' \in FailureKinds \cup {None} /\ happened \in {happened', None}
      BY <1>1, <3>1, FailureOrNot DEF HardwareTyped, mps
    <3> QED
      BY <2>1, <2>4, <3>2, ReturnKeeps
  <2> QED
    BY <1>5, <2>3, <2>4 DEF StopMPSDaemon
<1>6. CASE Started(c)
  <2>1. /\ UNCHANGED <<instances, computes, up, virtualGPUs, provisionedGPUs, rmMutex, happened>>
        /\ UNCHANGED mps
    BY <1>6 DEF Started, hardware
  <2> QED
    BY <1>6, <2>1, EnabledKeeps DEF Started
<1>7. CASE Stopped(c)
  <2>1. /\ UNCHANGED <<instances, computes, up, virtualGPUs, provisionedGPUs, rmMutex, happened>>
        /\ UNCHANGED mps
    BY <1>7 DEF Stopped, hardware
  <2>2. PICK e \in BOOLEAN : e = (heap[call[c].v].isEnabled /\ call[c].m \in pipes)
    OBVIOUS
  <2>3. heap' = [heap EXCEPT ![call[c].v].isEnabled = e]
    BY <1>7, <2>2 DEF Stopped
  <2> QED
    BY <1>7, <2>1, <2>3, EnabledKeeps DEF Stopped
<1> QED
  BY <1>2, <1>3, <1>4, <1>5, <1>6, <1>7 DEF SwitchMPS

-----------------------------------------------------------------------------
(***************************************************************************)
(* The theorems                                                            *)
(***************************************************************************)
LEMMA ConfInitOK ==
    ASSUME ConfInit
    PROVE  ConfInv
<1>1. None \notin Objects /\ None \notin Calls /\ None \notin UUIDs
  BY ConfiguratorAssumption DEF UUIDs
<1>2. /\ Unprovisioned \in ObjectRecords /\ NotServed \in CallRecords
      /\ Unprovisioned.isProvisioned = FALSE /\ Unprovisioned.gpu = None /\ Unprovisioned.mutex = None
      /\ Unprovisioned.gpuInstance = None /\ Unprovisioned.computeInstance = FALSE
      /\ NotServed.pc = "idle" /\ NotServed.v = None
  BY DEF Unprovisioned, ObjectRecords, NotServed, CallRecords, CallPCs
<1>3. /\ instances = {} /\ computes = {} /\ daemons = {} /\ pipes = {} /\ up = FALSE
      /\ heap = [o \in Objects |-> Unprovisioned] /\ virtualGPUs = {} /\ provisionedGPUs = <<>>
      /\ rmMutex = None /\ call = [c \in Calls |-> NotServed] /\ happened = None
  BY DEF ConfInit
<1>4. /\ \A o \in Objects : heap[o] = Unprovisioned
      /\ \A d \in Calls : call[d] = NotServed
      /\ DOMAIN provisionedGPUs = {}
  BY <1>3
<1>5. ManagerTyped
  <2>1. heap \in [Objects -> ObjectRecords] /\ call \in [Calls -> CallRecords]
    BY <1>2, <1>3
  <2> QED
    BY <1>2, <1>3, <1>4, <2>1 DEF ManagerTyped
<1>6. LocksOK
  BY <1>1, <1>2, <1>3, <1>4 DEF LocksOK, LockedPCs
<1>7. HandlesOK
  BY <1>1, <1>2, <1>4 DEF HandlesOK, UUIDs
<1>8. ProgressOK /\ EntriesNameTheirGpu
  BY <1>2, <1>4 DEF ProgressOK, EntriesNameTheirGpu
<1>9. HardwareTyped /\ OwnersOK
  BY <1>3 DEF HardwareTyped, OwnersOK
<1>10. ClaimsOK
  <2>1. \A o \in Objects : ~Claims(o)
    BY <1>1, <1>2, <1>4 DEF Claims, UUIDs
  <2> QED
    BY <2>1 DEF ClaimsOK
<1>11. ListedOK
  BY <1>2, <1>3, <1>4 DEF ListedOK
<1> QED
  BY <1>5, <1>6, <1>7, <1>8, <1>9, <1>10, <1>11 DEF ConfInv, ObjectsInv, HardwareInv

\* Every step of the specification preserves the invariant: one case per action.
LEMMA ConfStep ==
    ASSUME ConfInv, [ConfNext]_confVars
    PROVE  ConfInv'
<1>1. CASE UNCHANGED confVars
  <2>1. /\ UNCHANGED <<instances, computes, daemons, pipes, up, heap, virtualGPUs, provisionedGPUs,
                       rmMutex, call, happened>>
    BY <1>1 DEF confVars, hardware, mps, manager
  <2>2. ObjectsInv'
    BY <2>1 DEF ConfInv, ObjectsInv, ManagerTyped, LocksOK, HandlesOK, Forgetting, ProgressOK, V,
                EntriesNameTheirGpu
  <2>3. HardwareInv'
    BY <2>1 DEF ConfInv, HardwareInv, HardwareTyped, ClaimsOK, Claims, OwnersOK, V, ListedOK, WillList
  <2> QED
    BY <2>2, <2>3 DEF ConfInv
<1>2. ASSUME NEW c \in Calls, CallStart(c)
      PROVE  ConfInv'
  BY <1>2, StartKeeps
<1>3. ASSUME NEW c \in Calls, CallStep(c)
      PROVE  ConfInv'
  <2>1. CASE Access(c)
    BY <2>1, AccessNothingKeeps, CreateGpuInstanceKeeps, CreateComputeInstanceKeeps, RecordKeeps
       DEF Access
  <2>2. CASE Release(c)
    BY <2>2, ReleaseNothingKeeps, ReleaseStopsMPSKeeps, ReleaseStoppedKeeps,
       DestroyComputeInstanceKeeps, DestroyGpuInstanceKeeps, ForgetKeeps DEF Release
  <2>3. CASE SetupMPSOfCopy(c)
    BY <2>3, SetupMPSOfCopyKeeps
  <2>4. CASE SwitchMPS(c)
    BY <2>4, SwitchMPSKeeps
  <2>5. CASE Scan(c)
    BY <2>5, ScanKeeps
  <2>6. ASSUME NEW u \in Slots, LookUp(c, u)
        PROVE  ConfInv'
    BY <2>6, LookUpKeeps
  <2>7. CASE RefreshPanics(c)
    BY <2>7, CrashKeeps DEF RefreshPanics, HandlerPanics
  <2>8. CASE Store(c)
    BY <2>8, StoreKeeps
  <2> QED
    BY <1>3, <2>1, <2>2, <2>3, <2>4, <2>5, <2>6, <2>7, <2>8 DEF CallStep, RefreshStep
<1>4. CASE Crash
  BY <1>4, CrashKeeps DEF Crash
<1>5. CASE CleanUp
  BY <1>5, CleanUpKeeps
<1>6. CASE NewResourceManager
  BY <1>6, NewResourceManagerKeeps
<1> QED
  BY <1>1, <1>2, <1>3, <1>4, <1>5, <1>6 DEF ConfNext

\* The invariant holds in every state, for every number of slots, GPUs and concurrent calls.
THEOREM ConfInvariance == ConfSpec => []ConfInv
<1>1. ConfInit => ConfInv
  BY ConfInitOK
<1>2. ConfInv /\ [ConfNext]_confVars => ConfInv'
  BY ConfStep
<1> QED
  BY <1>1, <1>2, PTL DEF ConfSpec

\* The types of the configurator's state.
THEOREM ConfTypeCorrect == ConfSpec => []ConfTypeOK
<1>1. ConfInv => ConfTypeOK
  BY DEF ConfInv, ObjectsInv, HardwareInv, ManagerTyped, HardwareTyped, ConfTypeOK, ObjectRecords,
         CallRecords, Range
<1> QED
  BY <1>1, ConfInvariance, PTL

\* An entry of provisionedGPUs has the GPU of its key when EnableMPS, DisableMPS or a refresh
\* looks it up, who all dereference it: a call that panics has been overtaken by a Release
\* between its lookup and its use, which the model has as steps of their own.
THEOREM EntriesKeepTheirGpu == ConfSpec => []EntriesNameTheirGpu
<1>1. ConfInv => EntriesNameTheirGpu
  BY DEF ConfInv, ObjectsInv
<1> QED
  BY <1>1, ConfInvariance, PTL

\* No GPU instance without a compute instance is lost by Access and Release.
THEOREM InstancesKeepOwners == ConfSpec => []InstancesAreOwned
<1>1. ConfInv => InstancesAreOwned
  BY DEF ConfInv, ObjectsInv, HardwareInv, OwnersOK, InstancesAreOwned, ManagerTyped
<1> QED
  BY <1>1, ConfInvariance, PTL

\* When no call is under way every device is in provisionedGPUs, where Release finds it.
THEOREM DevicesStayKnown == ConfSpec => []DevicesAreKnown
<1>1. ConfInv => DevicesAreKnown
  <2> SUFFICES ASSUME ConfInv, up, Idle
               PROVE  computes \cup Physical \subseteq DOMAIN provisionedGPUs
    BY DEF DevicesAreKnown
  <2> QED
    BY DEF ConfInv, HardwareInv, ListedOK, WillList, Idle
<1> QED
  BY <1>1, ConfInvariance, PTL

\* CleanUp destroys all instances unless something has failed before: the entry of each is in
\* the map, and none has a stale handle, as an object without the handle of the compute instance
\* would claim an instance that has one.
THEOREM NothingOutlivesCleanUp == ConfSpec => CleanUpDestroysAll
<1>1. ConfInv /\ [ConfNext]_confVars => [CleanUp /\ happened = None => instances' = {}]_confVars
  <2> SUFFICES ASSUME ConfInv, CleanUp, happened = None, NEW s \in instances
               PROVE  s \in Releasable
    BY DEF CleanUp
  <2>1. /\ ManagerTyped /\ HandlesOK /\ EntriesNameTheirGpu /\ HardwareTyped
        /\ ClaimsOK /\ OwnersOK /\ ListedOK
    BY DEF ConfInv, ObjectsInv, HardwareInv
  <2>2. up /\ Idle /\ \A c \in Calls : call[c].pc = "idle"
    BY DEF CleanUp, Idle
  <2>3. None \notin FailureKinds /\ None \notin Slots
    BY ConfiguratorAssumption
  <2>4. s \in computes /\ s \in Slots
    BY <2>1, <2>2, <2>3 DEF OwnersOK, HardwareTyped, FailureKinds
  <2>5. s \in DOMAIN provisionedGPUs
    BY <2>1, <2>2, <2>4 DEF ListedOK, WillList
  <2> DEFINE o == provisionedGPUs[s]
  <2>6. o \in Objects /\ heap[o].gpu = s /\ heap[o] \in ObjectRecords
    BY <2>1, <2>5 DEF ManagerTyped, EntriesNameTheirGpu
  <2>7. heap[o].isProvisioned /\ heap[o].gpuInstance = s
    BY <2>1, <2>2, <2>3, <2>4, <2>6 DEF HandlesOK, Forgetting
  <2>8. heap[o].computeInstance
    BY <2>1, <2>4, <2>6, <2>7 DEF ClaimsOK, Claims
  <2>9. heap[o].computeInstance = TRUE /\ (s \in computes) = TRUE
    BY <2>4, <2>6, <2>8 DEF ObjectRecords
  <2> QED
    BY <2>4, <2>5, <2>9 DEF Releasable
<1> QED
  BY <1>1, ConfInvariance, PTL DEF ConfSpec, CleanUpDestroysAll

=============================================================================
