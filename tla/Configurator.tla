---------------------------- MODULE Configurator ----------------------------
(***************************************************************************)
(* The virtual GPUs of one node: ResourceManager (virtual_resource.go), its*)
(* gRPC methods (server_methods.go) and the MPS daemons (mps.go).          *)
(*                                                                         *)
(* Calls are served concurrently.  rm.mutex protects the lists, v.mutex one*)
(* VirtualGPU; Access and Release do not take the first, a refresh does not*)
(* take the second and makes new VirtualGPU objects, and EnableMPS and     *)
(* DisableMPS take none.  A step ends at an NVML call, at a command, at a  *)
(* lock: where a call can be overtaken by another one.                     *)
(*                                                                         *)
(* The node has one GPU with MIG, of which every slot takes an instance of *)
(* the one profile, and GPUs without MIG.  The driver names the device of  *)
(* an instance after its slot: a new instance has the UUID of an old one.  *)
(* The daemons are processes of the configurator's container, their pipes  *)
(* are files of the host.                                                  *)
(***************************************************************************)
EXTENDS Functions

CONSTANTS
    Slots,       \* places for GPU instances, and UUIDs of their MIG devices
    Physical,    \* UUIDs of GPUs without MIG
    Calls,       \* gRPC calls that are served at a time
    UseMps,      \* values of the use_mps flag of RequestVirtualGPU
    OneAtATime,  \* methods of which one call is made at a time: the controller manager
                 \* calls them under nodesInfoMtx
    Failures,    \* what may fail; one of them happens at most, then perhaps crashes
    None

FailureKinds == {"instance", "compute", "query", "start", "stop",
                 "destroyCI", "destroyGI", "crash"}

UUIDs == Slots \cup Physical

(***************************************************************************)
(* Addresses of VirtualGPU objects.  A refresh makes an object for each    *)
(* device and for the capacity that is left; objects of earlier refreshes  *)
(* exist as long as a call holds them, or the map an entry of a device that*)
(* is not there any more.  A refresh gives those the other addresses.      *)
(***************************************************************************)
Objects == ({"device"} \X UUIDs) \cup ({"free"} \X Slots) \cup ({"held"} \X Calls)

ASSUME ConfiguratorAssumption ==
    /\ Slots \cap Physical = {}
    /\ None \notin Slots \cup Physical \cup Calls \cup FailureKinds \cup OneAtATime
    /\ UseMps \subseteq BOOLEAN
    /\ OneAtATime \subseteq {"release", "enable", "disable"}
    /\ Failures \subseteq FailureKinds
    /\ None \notin Objects

VARIABLES
    instances,       \* NVML: slots with a GPU instance
    computes,        \* NVML: slots whose GPU instance has a compute instance
    daemons,         \* devices whose MPS daemon runs
    pipes,           \* devices whose MPS control pipe is in /tmp
    up,              \* the configurator runs
    heap,            \* the VirtualGPU objects
    virtualGPUs,     \* rm.VirtualGPUs
    provisionedGPUs, \* rm.provisionedGPUs, UUID -> object
    rmMutex,         \* the call that holds rm.mutex
    call,            \* the calls
    happened         \* the failure that happened

mps      == <<daemons, pipes>>
hardware == <<instances, computes, mps>>
manager  == <<heap, virtualGPUs, provisionedGPUs>>
confVars == <<hardware, up, manager, rmMutex, call, happened>>

-----------------------------------------------------------------------------
\* m is the device of the MPSServer that the call has a pointer to; old is what a refresh has
\* looked up for the device at and not used yet.
NotServed == [method |-> None, pc |-> "idle", v |-> None, useMps |-> FALSE, m |-> None,
              scan |-> {}, at |-> None, old |-> None]

\* A VirtualGPU without instances; also an address that nothing refers to.
Unprovisioned ==
    [isProvisioned |-> FALSE, gpu |-> None, isEnabled |-> FALSE,
     gpuInstance |-> None, computeInstance |-> FALSE, mutex |-> None]

ProvisionedObject(u, isEnabled) ==
    [isProvisioned |-> TRUE, gpu |-> u, isEnabled |-> isEnabled,
     gpuInstance |-> IF u \in Slots THEN u ELSE None, computeInstance |-> u \in Slots,
     mutex |-> None]

HeldByOthers(c) == UNION {{call[d].v, call[d].old} : d \in Calls \ {c}}

V(c) == heap[call[c].v]

Fails(kind) ==
    /\ kind \in Failures
    /\ happened = None
    /\ happened' = kind

Goto(c, pc) == call' = [call EXCEPT ![c].pc = pc]

\* The call unlocks and lets go of its object; one that nothing else refers to is garbage.
Drop(c) ==
    heap' = [o \in Objects |->
        IF o \in virtualGPUs \cup Range(provisionedGPUs) \cup HeldByOthers(c)
        THEN [heap[o] EXCEPT !.mutex = IF @ = c THEN None ELSE @]
        ELSE Unprovisioned]

Return(c) == Drop(c) /\ call' = [call EXCEPT ![c] = NotServed]

RefreshNext(r) == [NotServed EXCEPT !.method = r.method, !.pc = "refresh"]

\* A mutated Refresh: the call goes on with its pointer to the old object.
RefreshKeeps(c) == Drop(c) /\ call' = [call EXCEPT ![c].pc = "refresh"]

Refresh(c) == Drop(c) /\ call' = [call EXCEPT ![c] = RefreshNext(call[c])]

\* A panic in a handler, as any end of the process, ends the container and its daemons.
LoseProcess ==
    /\ up' = FALSE
    /\ daemons' = {}
    /\ heap' = [o \in Objects |-> Unprovisioned]
    /\ virtualGPUs' = {}
    /\ provisionedGPUs' = <<>>
    /\ rmMutex' = None
    /\ call' = [c \in Calls |-> NotServed]

HandlerPanics ==
    /\ LoseProcess
    /\ happened' = "crash"
    /\ UNCHANGED <<instances, computes, pipes>>

-----------------------------------------------------------------------------
(***************************************************************************)
(* getAvailableVirtualResources: new objects for the MIG devices in scan,  *)
(* the physical GPUs and the capacity that is left.  Entries of devices    *)
(* that are not there any more stay in the map.  The servers of the enabled*)
(* devices count as enabled.                                               *)
(***************************************************************************)
Found(devices) == ({"device"} \X devices) \cup ({"free"} \X (Slots \ instances))

\* The new address of an object that stays in the map, or that only calls refer to.
NewAddress(o, map, devices) ==
    IF \E u \in DOMAIN map \ devices : map[u] = o
    THEN <<"device", CHOOSE u \in DOMAIN map \ devices : map[u] = o>>
    ELSE <<"held", CHOOSE d \in Calls : call[d].v = o>>

\* A mutated Entries: the devices are listed and not written to the map.
EntriesNotWritten(devices, map) == [u \in DOMAIN map |-> <<"device", u>>]

Entries(devices, map) == [u \in devices \cup DOMAIN map |-> <<"device", u>>]

Discover(scan, map, enabled) ==
    LET devices == scan \cup Physical
        left == {map[u] : u \in DOMAIN map \ devices}
        held == {call[d].v : d \in Calls} \ {None}
        moved(a) == {o \in left \cup held : NewAddress(o, map, devices) = a}
    IN
    /\ virtualGPUs' = Found(devices)
    /\ provisionedGPUs' = Entries(devices, map)
    /\ heap' = [a \in Objects |->
          IF a[1] = "device" /\ a[2] \in devices
          THEN ProvisionedObject(a[2], a[2] \in enabled)
          ELSE IF moved(a) # {} THEN heap[CHOOSE o \in moved(a) : TRUE] ELSE Unprovisioned]
    /\ call' = [d \in Calls |->
          [(IF call[d].pc = "store" THEN NotServed ELSE call[d]) EXCEPT
              !.v = IF @ = None THEN None ELSE NewAddress(@, map, devices)]]

\* getAndSetAvailableVirtualResources: the devices are read,
Scan(c) ==
    /\ call[c].pc = "refresh"
    /\ rmMutex = None
    /\ rmMutex' = c
    /\ call' = [call EXCEPT ![c].pc = "store", ![c].scan = computes]
    /\ UNCHANGED <<hardware, up, manager, happened>>

\* for each the entry is looked up that it replaces; at one of them the refresh is overtaken,
LookUp(c, u) ==
    /\ call[c].pc = "store"
    /\ call[c].at = None
    /\ u \in call[c].scan
    /\ call' = [call EXCEPT ![c].at = u,
          ![c].old = IF u \in DOMAIN provisionedGPUs THEN provisionedGPUs[u] ELSE None]
    /\ UNCHANGED <<hardware, up, manager, rmMutex, happened>>

OldIsNil(c) == call[c].old # None /\ heap[call[c].old].gpu = None

\* by a Release of the object it has looked up, whose ProvisionedGPU is nil when it is used;
RefreshPanics(c) ==
    /\ call[c].pc = "store"
    /\ OldIsNil(c)
    /\ HandlerPanics

\* The devices whose MPS server the refresh finds enabled: of physical GPUs it does not ask.
FoundEnabled(c) ==
    LET entry(u) == IF u = call[c].at THEN call[c].old
                    ELSE IF u \in DOMAIN provisionedGPUs THEN provisionedGPUs[u] ELSE None
    IN {u \in Slots : entry(u) # None /\ heap[entry(u)].isEnabled}

\* else they are stored, and the call answers with them.
Store(c) ==
    /\ call[c].pc = "store"
    /\ ~OldIsNil(c)
    /\ Discover(call[c].scan, provisionedGPUs, FoundEnabled(c))
    /\ rmMutex' = None
    /\ UNCHANGED <<hardware, up, happened>>

-----------------------------------------------------------------------------
(***************************************************************************)
(* The calls, up to the pointer they look up.  A call that finds nothing   *)
(* answers with an error and changes nothing.                              *)
(***************************************************************************)
Serve(c, pc, v, useMps) ==
    /\ up
    /\ call[c].pc = "idle"
    /\ pc \in OneAtATime => \A d \in Calls : call[d].method = None
    /\ call' = [call EXCEPT ![c] = [NotServed EXCEPT
          !.method = IF pc \in OneAtATime THEN pc ELSE None,
          !.pc = pc, !.v = v, !.useMps = useMps]]
    /\ UNCHANGED <<hardware, up, manager, rmMutex, happened>>

\* RequestVirtualGPU with a profile: always the first object that is not provisioned.
FindVirtualGPU(c, useMps) ==
    LET free == {o \in virtualGPUs : ~heap[o].isProvisioned} IN
    /\ rmMutex = None
    /\ free # {}
    /\ Serve(c, "access", CHOOSE o \in free : TRUE, useMps)

\* RequestVirtualGPU with a UUID.
GetVirtualGPU(c, u, useMps) ==
    /\ rmMutex = None
    /\ u \in DOMAIN provisionedGPUs
    /\ Serve(c, "mps", provisionedGPUs[u], useMps)

ReleaseVirtualGPU(c, u) ==
    /\ rmMutex = None
    /\ u \in DOMAIN provisionedGPUs
    /\ Serve(c, "release", provisionedGPUs[u], FALSE)

EnableMPS(c, u) ==
    /\ u \in DOMAIN provisionedGPUs
    /\ Serve(c, "enable", provisionedGPUs[u], FALSE)

DisableMPS(c, u) ==
    /\ u \in DOMAIN provisionedGPUs
    /\ Serve(c, "disable", provisionedGPUs[u], FALSE)

GetAvailableGPUs(c) == Serve(c, "refresh", None, FALSE)

-----------------------------------------------------------------------------
(***************************************************************************)
(* RequestVirtualGPU: Access, MPS, refresh                                 *)
(***************************************************************************)
\* Another call has provisioned the VirtualGPU meanwhile.
AccessNothing(c) ==
    /\ call[c].pc = "access"
    /\ V(c).isProvisioned
    /\ Goto(c, "mps")
    /\ UNCHANGED <<hardware, up, manager, rmMutex, happened>>

\* A mutated CreateGpuInstance: an error return that does not unlock.
CreateGpuInstanceLocked(c) ==
    /\ call[c].pc = "access"
    /\ ~V(c).isProvisioned
    /\ V(c).mutex = None
    /\ \/ \E s \in Slots \ instances :
             /\ instances' = instances \cup {s}
             /\ heap' = [heap EXCEPT ![call[c].v].gpuInstance = s, ![call[c].v].mutex = c]
             /\ Goto(c, "compute")
             /\ UNCHANGED happened
       \/ /\ IF Slots = instances THEN UNCHANGED happened ELSE Fails("instance")
          /\ heap' = [heap EXCEPT ![call[c].v].mutex = c]
          /\ call' = [call EXCEPT ![c] = NotServed]
          /\ UNCHANGED instances
    /\ UNCHANGED <<computes, mps, up, virtualGPUs, provisionedGPUs, rmMutex>>

CreateGpuInstance(c) ==
    /\ call[c].pc = "access"
    /\ ~V(c).isProvisioned
    /\ V(c).mutex = None
    /\ \/ \E s \in Slots \ instances :
             /\ instances' = instances \cup {s}
             /\ heap' = [heap EXCEPT ![call[c].v].gpuInstance = s, ![call[c].v].mutex = c]
             /\ Goto(c, "compute")
             /\ UNCHANGED happened
       \/ /\ IF Slots = instances THEN UNCHANGED happened ELSE Fails("instance")
          /\ Return(c)
          /\ UNCHANGED instances
    /\ UNCHANGED <<computes, mps, up, virtualGPUs, provisionedGPUs, rmMutex>>

\* A mutated CreateComputeInstance: the GPU instance is not destroyed on failure.
CreateComputeInstanceLeaks(c) ==
    /\ call[c].pc = "compute"
    /\ \/ /\ computes' = computes \cup {V(c).gpuInstance}
          /\ heap' = [heap EXCEPT ![call[c].v].computeInstance = TRUE,
                                  ![call[c].v].isProvisioned = TRUE]
          /\ Goto(c, "query")
          /\ UNCHANGED happened
       \/ /\ Fails("compute")
          /\ Return(c)
          /\ UNCHANGED computes
    /\ UNCHANGED <<instances, mps, up, virtualGPUs, provisionedGPUs, rmMutex>>

CreateComputeInstance(c) ==
    /\ call[c].pc = "compute"
    /\ \/ /\ computes' = computes \cup {V(c).gpuInstance}
          /\ heap' = [heap EXCEPT ![call[c].v].computeInstance = TRUE,
                                  ![call[c].v].isProvisioned = TRUE]
          /\ Goto(c, "query")
          /\ UNCHANGED <<instances, happened>>
       \/ /\ Fails("compute")
          /\ instances' = instances \ {V(c).gpuInstance}
          /\ Return(c)
          /\ UNCHANGED computes
    /\ UNCHANGED <<mps, up, virtualGPUs, provisionedGPUs, rmMutex>>

(***************************************************************************)
(* The properties of the new device are read and it is recorded.  If one   *)
(* cannot be read, the GPU instance is destroyed first, which NVML refuses *)
(* as long as it has a compute instance, and the compute instance second.  *)
(***************************************************************************)
Record(c) ==
    LET s == V(c).gpuInstance IN
    /\ call[c].pc = "query"
    /\ \/ /\ heap' = [heap EXCEPT ![call[c].v].gpu = s, ![call[c].v].isEnabled = FALSE,
                                  ![call[c].v].mutex = None]
          /\ provisionedGPUs' = [u \in DOMAIN provisionedGPUs \cup {s} |->
                IF u = s THEN call[c].v ELSE provisionedGPUs[u]]
          /\ Goto(c, "mps")
          /\ UNCHANGED <<computes, happened>>
       \/ /\ Fails("query")
          /\ computes' = computes \ {s}
          /\ Return(c)
          /\ UNCHANGED provisionedGPUs
    /\ UNCHANGED <<instances, mps, up, virtualGPUs, rmMutex>>

\* SetupMPSEnvironment for device u: nothing is started if the control pipe is there.
StartDaemon(u) ==
    /\ daemons' = IF u \in pipes THEN daemons ELSE daemons \cup {u}
    /\ pipes' = pipes \cup {u}

\* The MPSServer is a copy: that it is enabled now is lost.
SetupMPSOfCopy(c) ==
    LET wanted == call[c].useMps /\ V(c).gpu # None /\ ~V(c).isEnabled IN
    /\ call[c].pc = "mps"
    /\ \/ wanted /\ StartDaemon(V(c).gpu) /\ UNCHANGED happened
       \/ wanted /\ Fails("start") /\ UNCHANGED mps
       \/ ~wanted /\ UNCHANGED <<mps, happened>>
    /\ Refresh(c)
    /\ UNCHANGED <<instances, computes, up, virtualGPUs, provisionedGPUs, rmMutex>>

-----------------------------------------------------------------------------
(***************************************************************************)
(* ReleaseVirtualGPU: Release under v.mutex, refresh                       *)
(***************************************************************************)
ReleaseNothing(c) ==
    /\ call[c].pc = "release"
    /\ V(c).mutex = None
    /\ ~V(c).isProvisioned \/ V(c).gpu \in Physical \cup {None}
    /\ Refresh(c)
    /\ UNCHANGED <<hardware, up, virtualGPUs, provisionedGPUs, rmMutex, happened>>

\* StopMPSDaemon up to the command, which fails where no daemon listens.
QuitDaemon(u) ==
    /\ u \in daemons
    /\ daemons' = daemons \ {u}
    /\ pipes' = pipes \ {u}
    /\ UNCHANGED happened

QuitFails(u) ==
    /\ IF u \in daemons THEN Fails("stop") ELSE UNCHANGED happened
    /\ UNCHANGED mps

\* A failure to stop the daemon is only logged.
ReleaseStopsMPS(c) ==
    LET v == call[c].v IN
    /\ call[c].pc = "release"
    /\ V(c).mutex = None
    /\ V(c).isProvisioned
    /\ V(c).gpu \in Slots
    /\ heap' = [heap EXCEPT ![v].mutex = c]
    /\ \/ /\ V(c).isEnabled
          /\ QuitDaemon(V(c).gpu)
          /\ call' = [call EXCEPT ![c].pc = "releaseStopped", ![c].m = V(c).gpu]
       \/ /\ V(c).isEnabled
          /\ QuitFails(V(c).gpu)
          /\ Goto(c, "destroyCI")
       \/ /\ ~V(c).isEnabled
          /\ Goto(c, "destroyCI")
          /\ UNCHANGED <<mps, happened>>
    /\ UNCHANGED <<instances, computes, up, virtualGPUs, provisionedGPUs, rmMutex>>

\* Half a second later: the daemon counts as stopped unless there is a pipe again.
ReleaseStopped(c) ==
    /\ call[c].pc = "releaseStopped"
    /\ heap' = [heap EXCEPT ![call[c].v].isEnabled = @ /\ call[c].m \in pipes]
    /\ call' = [call EXCEPT ![c].pc = "destroyCI", ![c].m = None]
    /\ UNCHANGED <<hardware, up, virtualGPUs, provisionedGPUs, rmMutex, happened>>

DestroyComputeInstance(c) ==
    LET s == V(c).gpuInstance IN
    /\ call[c].pc = "destroyCI"
    /\ \/ /\ V(c).computeInstance => s \in computes
          /\ computes' = IF V(c).computeInstance THEN computes \ {s} ELSE computes
          /\ heap' = [heap EXCEPT ![call[c].v].computeInstance = FALSE]
          /\ Goto(c, "destroyGI")
          /\ UNCHANGED happened
       \/ /\ V(c).computeInstance
          /\ IF s \in computes THEN Fails("destroyCI") ELSE UNCHANGED happened
          /\ Return(c)
          /\ UNCHANGED computes
    /\ UNCHANGED <<instances, mps, up, virtualGPUs, provisionedGPUs, rmMutex>>

DestroyGpuInstance(c) ==
    LET s == V(c).gpuInstance
        there == s \in instances \ computes
    IN
    /\ call[c].pc = "destroyGI"
    /\ \/ /\ there
          /\ instances' = instances \ {s}
          /\ heap' = [heap EXCEPT ![call[c].v].gpuInstance = None]
          /\ Goto(c, "forget")
          /\ UNCHANGED happened
       \/ /\ IF there THEN Fails("destroyGI") ELSE UNCHANGED happened
          /\ Return(c)
          /\ UNCHANGED instances
    /\ UNCHANGED <<computes, mps, up, virtualGPUs, provisionedGPUs, rmMutex>>

\* A mutated Forget: the GPU is cleared and the map is left to the refresh.
ForgetGpu(c) ==
    /\ call[c].pc = "forget"
    /\ heap' = [heap EXCEPT ![call[c].v] = Unprovisioned]
    /\ call' = [call EXCEPT ![c] = RefreshNext(call[c])]
    /\ UNCHANGED <<hardware, up, virtualGPUs, provisionedGPUs, rmMutex, happened>>

Forget(c) ==
    /\ call[c].pc = "forget"
    /\ provisionedGPUs' = Restrict(provisionedGPUs, DOMAIN provisionedGPUs \ {V(c).gpu})
    /\ heap' = [heap EXCEPT ![call[c].v] = Unprovisioned]
    /\ call' = [call EXCEPT ![c] = RefreshNext(call[c])]
    /\ UNCHANGED <<hardware, up, virtualGPUs, rmMutex, happened>>

-----------------------------------------------------------------------------
(***************************************************************************)
(* EnableMPS and DisableMPS, without a lock: a Release of the same object  *)
(* may have set its ProvisionedGPU to nil, which they dereference.         *)
(***************************************************************************)
MPSPanics(c) ==
    /\ \/ call[c].pc \in {"enable", "started", "disable"}
       \/ call[c].pc = "disableStopped" /\ call[c].m \notin pipes
    /\ V(c).gpu = None
    /\ HandlerPanics

\* EnableMPS of a GPU that counts as enabled, DisableMPS of one that does not.
MPSAsWanted(c) ==
    /\ \/ call[c].pc = "enable" /\ V(c).isEnabled
       \/ call[c].pc = "disable" /\ ~V(c).isEnabled
    /\ V(c).gpu # None
    /\ Return(c)
    /\ UNCHANGED <<hardware, up, virtualGPUs, provisionedGPUs, rmMutex, happened>>

SetupMPSEnvironment(c) ==
    /\ call[c].pc = "enable"
    /\ V(c).gpu # None
    /\ ~V(c).isEnabled
    /\ \/ /\ StartDaemon(V(c).gpu)
          /\ Goto(c, "started")
          /\ UNCHANGED <<heap, happened>>
       \/ /\ Fails("start")
          /\ Return(c)
          /\ UNCHANGED mps
    /\ UNCHANGED <<instances, computes, up, virtualGPUs, provisionedGPUs, rmMutex>>

StopMPSDaemon(c) ==
    /\ call[c].pc = "disable"
    /\ V(c).gpu # None
    /\ V(c).isEnabled
    /\ \/ /\ QuitDaemon(V(c).gpu)
          /\ call' = [call EXCEPT ![c].pc = "disableStopped", ![c].m = V(c).gpu]
          /\ UNCHANGED heap
       \/ /\ QuitFails(V(c).gpu)
          /\ Return(c)
    /\ UNCHANGED <<instances, computes, up, virtualGPUs, provisionedGPUs, rmMutex>>

\* isEnabled is set in the object that was looked up, which may not be the one of the map any more.
Started(c) ==
    /\ call[c].pc = "started"
    /\ V(c).gpu # None
    /\ call' = [call EXCEPT ![c] = NotServed]
    /\ heap' = [heap EXCEPT ![call[c].v].isEnabled = TRUE]
    /\ UNCHANGED <<hardware, up, virtualGPUs, provisionedGPUs, rmMutex, happened>>

Stopped(c) ==
    /\ call[c].pc = "disableStopped"
    /\ V(c).gpu # None \/ call[c].m \in pipes
    /\ call' = [call EXCEPT ![c] = NotServed]
    /\ heap' = [heap EXCEPT ![call[c].v].isEnabled = @ /\ call[c].m \in pipes]
    /\ UNCHANGED <<hardware, up, virtualGPUs, provisionedGPUs, rmMutex, happened>>

-----------------------------------------------------------------------------
(***************************************************************************)
(* The end of the process and its start                                    *)
(***************************************************************************)
Crash ==
    /\ up
    /\ "crash" \in Failures
    /\ happened' = "crash"
    /\ LoseProcess
    /\ UNCHANGED <<instances, computes, pipes>>

Idle == \A c \in Calls : call[c].pc = "idle"

\* A mutated Releasable: a daemon that cannot be stopped ends the Release.
ReleasableIfStopped ==
    {s \in Slots \cap DOMAIN provisionedGPUs :
        /\ s \in instances
        /\ heap[provisionedGPUs[s]].computeInstance = (s \in computes)
        /\ heap[provisionedGPUs[s]].isEnabled => s \in daemons}

\* Devices whose Release by CleanUp succeeds: the handles of the object are those of instances.
Releasable ==
    {s \in Slots \cap DOMAIN provisionedGPUs :
        /\ s \in instances
        /\ heap[provisionedGPUs[s]].computeInstance = (s \in computes)}

\* Stop: GracefulStop waits for the calls, CleanUp stops the daemons and releases the devices.
CleanUp ==
    LET stopped == {u \in DOMAIN provisionedGPUs \cap daemons :
                       heap[provisionedGPUs[u]].isEnabled} IN
    /\ up
    /\ Idle
    /\ pipes' = pipes \ stopped
    /\ computes' = computes \ Releasable
    /\ instances' = instances \ Releasable
    /\ LoseProcess
    /\ UNCHANGED happened

\* NewResourceManager: what the hardware has, and nothing of the MPS daemons.
NewResourceManager ==
    /\ ~up
    /\ up' = TRUE
    /\ Discover(computes, <<>>, {})
    /\ UNCHANGED <<hardware, rmMutex, happened>>

ConfInit ==
    /\ instances = {} /\ computes = {} /\ daemons = {} /\ pipes = {}
    /\ up = FALSE
    /\ heap = [o \in Objects |-> Unprovisioned]
    /\ virtualGPUs = {}
    /\ provisionedGPUs = <<>>
    /\ rmMutex = None
    /\ call = [c \in Calls |-> NotServed]
    /\ happened = None

Access(c) == AccessNothing(c) \/ CreateGpuInstance(c) \/ CreateComputeInstance(c) \/ Record(c)

Release(c) ==
    \/ ReleaseNothing(c) \/ ReleaseStopsMPS(c) \/ ReleaseStopped(c)
    \/ DestroyComputeInstance(c) \/ DestroyGpuInstance(c) \/ Forget(c)

SwitchMPS(c) ==
    \/ MPSPanics(c) \/ MPSAsWanted(c) \/ SetupMPSEnvironment(c) \/ StopMPSDaemon(c)
    \/ Started(c) \/ Stopped(c)

RefreshStep(c) == Scan(c) \/ (\E u \in Slots : LookUp(c, u)) \/ RefreshPanics(c) \/ Store(c)

CallStep(c) == Access(c) \/ SetupMPSOfCopy(c) \/ Release(c) \/ SwitchMPS(c) \/ RefreshStep(c)

CallStart(c) ==
    \/ \E useMps \in UseMps : FindVirtualGPU(c, useMps)
    \/ \E u \in UUIDs, useMps \in UseMps : GetVirtualGPU(c, u, useMps)
    \/ \E u \in UUIDs : ReleaseVirtualGPU(c, u) \/ EnableMPS(c, u) \/ DisableMPS(c, u)
    \/ GetAvailableGPUs(c)

ConfNext ==
    \/ \E c \in Calls : CallStart(c) \/ CallStep(c)
    \/ Crash
    \/ CleanUp
    \/ NewResourceManager

ConfSpec == ConfInit /\ [][ConfNext]_confVars

(***************************************************************************)
(* Goroutines of calls go on; a mutex is handed over to a goroutine that   *)
(* has waited for a millisecond (the starvation mode of sync.Mutex).       *)
(***************************************************************************)
FairConfSpec ==
    /\ ConfSpec
    /\ \A c \in Calls : SF_confVars(CallStep(c))

-----------------------------------------------------------------------------
CallPCs == {"idle", "access", "compute", "query", "mps", "refresh", "store", "release",
            "releaseStopped", "destroyCI", "destroyGI", "forget", "enable", "started",
            "disable", "disableStopped"}

\* The types; a call that works on a VirtualGPU has one, and an instance is in a slot.
ConfTypeOK ==
    /\ instances \subseteq Slots
    /\ computes \subseteq instances
    /\ daemons \subseteq UUIDs /\ pipes \subseteq UUIDs
    /\ up \in BOOLEAN
    /\ heap \in [Objects ->
          [isProvisioned : BOOLEAN, gpu : UUIDs \cup {None}, isEnabled : BOOLEAN,
           gpuInstance : Slots \cup {None}, computeInstance : BOOLEAN,
           mutex : Calls \cup {None}]]
    /\ virtualGPUs \subseteq Objects
    /\ DOMAIN provisionedGPUs \subseteq UUIDs
    /\ Range(provisionedGPUs) \subseteq Objects
    /\ rmMutex \in Calls \cup {None}
    /\ happened \in FailureKinds \cup {None}
    /\ \A c \in Calls :
          /\ call[c] \in [method : OneAtATime \cup {None}, pc : CallPCs, v : Objects \cup {None}, useMps : BOOLEAN,
                          m : UUIDs \cup {None}, scan : SUBSET Slots,
                          at : Slots \cup {None}, old : Objects \cup {None}]
          /\ call[c].v = None <=> call[c].pc \in {"idle", "refresh", "store"}

(***************************************************************************)
(* Access and Release lose no GPU instance: one without a compute instance,*)
(* which no refresh finds, belongs to an object of the map or to a call    *)
(* that is still at it.  Not so when the process crashed meanwhile, when   *)
(* Access destroyed the two instances in the wrong order (Record), or when *)
(* NVML refused to destroy a GPU instance: the Release is tried again with *)
(* the object of a refresh, whose compute instance is gone.                *)
(***************************************************************************)
InstancesAreOwned ==
    \A s \in instances \ computes :
        \/ \E u \in DOMAIN provisionedGPUs : heap[provisionedGPUs[u]].gpuInstance = s
        \/ \E c \in Calls : call[c].v # None /\ V(c).gpuInstance = s
        \/ happened \in {"crash", "query", "destroyGI"}

\* When no call is under way every MIG device is in provisionedGPUs, where it can be released: a late delete of Release does not take the entry of a new device with it.
DevicesAreKnown == up /\ Idle => computes \cup Physical \subseteq DOMAIN provisionedGPUs

\* An entry of provisionedGPUs has the GPU of its key: what EnableMPS, DisableMPS and a refresh look up, without v.mutex and without a test for nil, is not nil when they look it up.  It may be when they use it (MPSPanics, RefreshPanics).
EntriesNameTheirGpu ==
    \A u \in DOMAIN provisionedGPUs : heap[provisionedGPUs[u]].gpu = u

\* CleanUp destroys all instances ("destroy all virtual instances"), unless something failed before: none is missing in the map and no handle in it is stale.
CleanUpDestroysAll == [][CleanUp /\ happened = None => instances' = {}]_confVars

\* Every gRPC call returns, or ends with the process: no mutex is left locked by an error path.
CallsReturn == \A c \in Calls : call[c].pc # "idle" ~> call[c].pc = "idle"

\* "Track if MPS is currently enabled" (mps.go): a GPU that counts as enabled, so that EnableMPS answers with success and does nothing, has a daemon.
EnabledMpsRuns ==
    up /\ Idle => \A u \in DOMAIN provisionedGPUs :
                     heap[provisionedGPUs[u]].isEnabled => u \in daemons
=============================================================================
