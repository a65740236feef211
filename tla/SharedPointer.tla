--------------------------- MODULE SharedPointer ---------------------------
(***************************************************************************)
(* TNL::Pointers::SharedPointer< Object, Devices::Cuda > and the           *)
(* SmartPointersRegister: pointers that share an object on the host, an    *)
(* image of it on the device, and a register of the pointers through which *)
(* all images are brought up to date before a kernel is launched.          *)
(*                                                                         *)
(* The program is one thread that calls the operations in any order.       *)
(* cuda_pointer always belongs to the object pd refers to (it is never used*)
(* while pd is null), so the device image is a field of the object.        *)
(***************************************************************************)
EXTENDS Integers, FiniteSets

CONSTANTS
  Handles,         (* variables of type SharedPointer                      *)
  Objects,         (* addresses of PointerData, reused after delete        *)
  Values,          (* states of an Object                                  *)
  Devices,         (* CUDA devices                                         *)
  Calls,           (* the operations the program uses                      *)
  ReusedMemory,    (* may new memory hold the bytes of an equal object?    *)
  Null,            (* the null pointer                                     *)
  Unallocated,     (* what is at an address where there is no object       *)
  Garbage          (* bytes that equal those of no object                  *)

AllCalls ==
  {"construct", "nullptr", "copyConstruct", "moveConstruct", "copyAssign",
   "moveAssign", "swap", "clear", "clearUnshared", "recreate", "modify",
   "setDevice"}

ASSUME ConstantsAssumption ==
  /\ IsFiniteSet(Handles)
  /\ Calls \subseteq AllCalls
  /\ ReusedMemory \in BOOLEAN
  /\ Null \notin Objects
  /\ Garbage \notin Values

(* PointerData and the device image of its data.                           *)
PointerData ==
  [data : Values, data_image : Values \union {Garbage},
   counter : Nat \ {0}, maybe_modified : BOOLEAN,
   device : Values \union {Garbage}]

ASSUME UnallocatedAssumption == Unallocated \notin PointerData

VARIABLES
  built,      (* pointers that exist: constructed and not destroyed        *)
  pd,         (* pd[h]: the object of pointer h                            *)
  heap,       (* heap[o]: the PointerData at address o                     *)
  pointersOnDevices,   (* pointersOnDevices[d]: registered for device d    *)
  known,      (* devices that have an entry in the register                *)
  active,     (* the active CUDA device                                    *)
  terminated  (* a destructor has thrown                                   *)

vars == <<built, pd, heap, pointersOnDevices, known, active, terminated>>
register == <<pointersOnDevices, known>>

TypeOK ==
  /\ built \subseteq Handles
  /\ pd \in [Handles -> Objects \union {Null}]
  /\ heap \in [Objects -> PointerData \union {Unallocated}]
  /\ pointersOnDevices \in [Devices -> SUBSET Handles]
  /\ known \subseteq Devices
  /\ active \in Devices
  /\ terminated \in BOOLEAN

Init ==
  /\ built = {}
  /\ pd = [h \in Handles |-> Null]
  /\ heap = [o \in Objects |-> Unallocated]
  /\ pointersOnDevices = [d \in Devices |-> {}]
  /\ known = {}
  /\ active \in Devices
  /\ terminated = FALSE

-----------------------------------------------------------------------------
(* Helpers, as functions of the memory m: [heap, pd].                      *)

Memory == [heap |-> heap, pd |-> pd]

(* synchronize() of one object: it is copied to the device if it may have  *)
(* been modified and differs from the state of the last synchronization.   *)
modified(data) == data.maybe_modified /\ data.data_image # data.data

set_last_sync_state(data) ==
  [data EXCEPT !.data_image = data.data, !.maybe_modified = FALSE]

synchronize(data) ==
  IF modified(data)
  THEN set_last_sync_state([data EXCEPT !.device = data.data])
  ELSE data

(* Faulty: the counter is tested before it is decremented.                 *)
free_PostDecrement(m, h) ==
  LET o == m.pd[h] IN
  IF o = Null THEN m
  ELSE IF m.heap[o].counter = 0
  THEN [heap |-> [m.heap EXCEPT ![o] = Unallocated],
        pd   |-> [m.pd EXCEPT ![h] = Null]]
  ELSE [m EXCEPT !.heap[o].counter = @ - 1]

(* free(): the last pointer deletes the object and becomes null, any other *)
(* pointer only decrements the counter.                                    *)
free(m, h) ==
  LET o == m.pd[h] IN
  IF o = Null THEN m
  ELSE IF m.heap[o].counter = 1
  THEN [heap |-> [m.heap EXCEPT ![o] = Unallocated],
        pd   |-> [m.pd EXCEPT ![h] = Null]]
  ELSE [m EXCEPT !.heap[o].counter = @ - 1]

(* The bytes that data_image may have when the object is allocated: it is  *)
(* not initialized.                                                        *)
Uninitialized(v) == {Garbage} \union (IF ReusedMemory THEN {v} ELSE {})

(* allocate(): a new object with value v at address o.                     *)
allocate(m, h, o, v, image) ==
  [heap |-> [m.heap EXCEPT ![o] =
     synchronize([data |-> v, data_image |-> image, counter |-> 1,
                  maybe_modified |-> TRUE, device |-> Garbage])],
   pd   |-> [m.pd EXCEPT ![h] = o]]

(* Pointer h refers to object o, which is not null, or to null.            *)
refer(m, h, o) ==
  [heap |-> IF o = Null THEN m.heap ELSE [m.heap EXCEPT ![o].counter = @ + 1],
   pd   |-> [m.pd EXCEPT ![h] = o]]

SetMemory(m) == heap' = m.heap /\ pd' = m.pd

(* SmartPointersRegister::insert for the active device.                    *)
insert(h) ==
  /\ pointersOnDevices' = [pointersOnDevices EXCEPT ![active] = @ \union {h}]
  /\ known' = known \union {active}

Shared(h) == pd[h] # Null /\ heap[pd[h]].counter > 1

(* The program can call an operation.                                      *)
CanCall(call) == call \in Calls /\ ~terminated

-----------------------------------------------------------------------------
(* Constructors.                                                           *)

Construct(h) ==
  /\ CanCall("construct")
  /\ h \notin built
  /\ built' = built \union {h}
  /\ \E o \in Objects, v \in Values :
       /\ heap[o] = Unallocated
       /\ \E image \in Uninitialized(v) :
            SetMemory(allocate(Memory, h, o, v, image))
  /\ insert(h)
  /\ UNCHANGED <<active, terminated>>

ConstructNull(h) ==
  /\ CanCall("nullptr")
  /\ h \notin built
  /\ built' = built \union {h}
  /\ pd' = [pd EXCEPT ![h] = Null]
  /\ UNCHANGED <<heap, register, active, terminated>>

(* The copy constructor dereferences the object of its argument.  It does  *)
(* not register the copy.                                                  *)
CopyConstruct(h, ptr) ==
  /\ CanCall("copyConstruct")
  /\ h \notin built
  /\ ptr \in built
  /\ pd[ptr] # Null
  /\ built' = built \union {h}
  /\ SetMemory(refer(Memory, h, pd[ptr]))
  /\ UNCHANGED <<register, active, terminated>>

(* Faulty: the source keeps its object.                                    *)
MoveConstruct_KeepsSource(h, ptr) ==
  /\ CanCall("moveConstruct")
  /\ h \notin built
  /\ ptr \in built
  /\ built' = built \union {h}
  /\ pd' = [pd EXCEPT ![h] = pd[ptr]]
  /\ UNCHANGED <<heap, register, active, terminated>>

MoveConstruct(h, ptr) ==
  /\ CanCall("moveConstruct")
  /\ h \notin built
  /\ ptr \in built
  /\ built' = built \union {h}
  /\ pd' = [pd EXCEPT ![h] = pd[ptr], ![ptr] = Null]
  /\ UNCHANGED <<heap, register, active, terminated>>

-----------------------------------------------------------------------------
(* Assignments and the other operations of a pointer.                      *)

(* The object of ptr is read after free(), which matters if h = ptr.       *)
CopyAssign(h, ptr) ==
  LET freed == free(Memory, h) IN
  /\ CanCall("copyAssign")
  /\ {h, ptr} \subseteq built
  /\ SetMemory(refer(freed, h, freed.pd[ptr]))
  /\ UNCHANGED <<built, register, active, terminated>>

MoveAssign(h, ptr) ==
  LET freed == free(Memory, h) IN
  /\ CanCall("moveAssign")
  /\ {h, ptr} \subseteq built
  /\ heap' = freed.heap
  /\ pd' = [freed.pd EXCEPT ![h] = freed.pd[ptr], ![ptr] = Null]
  /\ UNCHANGED <<built, register, active, terminated>>

Swap(h, ptr2) ==
  /\ CanCall("swap")
  /\ {h, ptr2} \subseteq built
  /\ pd' = [pd EXCEPT ![h] = pd[ptr2], ![ptr2] = pd[h]]
  /\ UNCHANGED <<built, heap, register, active, terminated>>

(* A program may take care to clear only pointers that are not shared.     *)
Clear(h) ==
  /\ \/ CanCall("clear")
     \/ CanCall("clearUnshared") /\ ~Shared(h)
  /\ h \in built
  /\ SetMemory(free(Memory, h))
  /\ UNCHANGED <<built, register, active, terminated>>

(* Faulty: a shared object is recreated in place, too.                     *)
Recreate_InPlace(h) ==
  /\ CanCall("recreate")
  /\ h \in built
  /\ \E v \in Values :
       IF pd[h] # Null
       THEN /\ heap' = [heap EXCEPT ![pd[h]] =
                 set_last_sync_state([@ EXCEPT !.data = v, !.device = v])]
            /\ UNCHANGED <<pd, register>>
       ELSE \E o \in Objects, image \in Uninitialized(v) :
              /\ heap[o] = Unallocated
              /\ SetMemory(allocate(Memory, h, o, v, image))
              /\ insert(h)
  /\ UNCHANGED <<built, active, terminated>>

(* An object that is not shared is recreated in place and copied to the    *)
(* device; otherwise the pointer leaves its object and allocates a new one.*)
Recreate(h) ==
  LET freed == free(Memory, h) IN
  /\ CanCall("recreate")
  /\ h \in built
  /\ \E v \in Values :
       IF pd[h] # Null /\ ~Shared(h)
       THEN /\ heap' = [heap EXCEPT ![pd[h]] =
                 set_last_sync_state([@ EXCEPT !.data = v, !.device = v])]
            /\ UNCHANGED <<pd, register>>
       ELSE \E o \in Objects, image \in Uninitialized(v) :
              /\ freed.heap[o] = Unallocated
              /\ SetMemory(allocate(freed, h, o, v, image))
              /\ insert(h)
  /\ UNCHANGED <<built, active, terminated>>

(* Faulty: the object is changed but not marked.                           *)
Modify_NotMarked(h) ==
  /\ CanCall("modify")
  /\ h \in built
  /\ pd[h] # Null
  /\ \E v \in Values : heap' = [heap EXCEPT ![pd[h]].data = v]
  /\ UNCHANGED <<built, pd, register, active, terminated>>

(* A change of the object through a non-constant operator->, operator* or  *)
(* modifyData; the reference is not used later.                            *)
Modify(h) ==
  /\ CanCall("modify")
  /\ h \in built
  /\ pd[h] # Null
  /\ \E v \in Values :
       heap' = [heap EXCEPT ![pd[h]].data = v, ![pd[h]].maybe_modified = TRUE]
  /\ UNCHANGED <<built, pd, register, active, terminated>>

(* Faulty: the destroyed pointer stays in the register.                    *)
Destroy_NotRemoved(h) ==
  /\ ~terminated
  /\ h \in built
  /\ built' = built \ {h}
  /\ SetMemory([free(Memory, h) EXCEPT !.pd[h] = Null])
  /\ UNCHANGED <<register, active, terminated>>

(* The destructor removes the pointer from the register of the device that *)
(* is active now.  If that device has no entry, remove throws, and the     *)
(* program terminates because destructors are noexcept.                    *)
Destroy(h) ==
  /\ ~terminated
  /\ h \in built
  /\ built' = built \ {h}
  /\ SetMemory([free(Memory, h) EXCEPT !.pd[h] = Null])
  /\ pointersOnDevices' = [pointersOnDevices EXCEPT ![active] = @ \ {h}]
  /\ terminated' = (active \notin known)
  /\ UNCHANGED <<known, active>>

-----------------------------------------------------------------------------
(* synchronizeDevice: synchronize() of every pointer registered for the    *)
(* active device.                                                          *)
synchronizeDevice ==
  [o \in Objects |-> IF \E h \in pointersOnDevices[active] : pd[h] = o
                     THEN synchronize(heap[o])
                     ELSE heap[o]]

(* synchronizeSmartPointersOnDevice.                                       *)
SynchronizeDevice ==
  /\ ~terminated
  /\ heap' = synchronizeDevice
  /\ UNCHANGED <<built, pd, register, active, terminated>>

SetDevice ==
  /\ CanCall("setDevice")
  /\ active' \in Devices \ {active}
  /\ UNCHANGED <<built, pd, heap, register, terminated>>

Terminated == terminated /\ UNCHANGED vars

Next ==
  \/ \E h \in Handles :
       \/ Construct(h)
       \/ ConstructNull(h)
       \/ Clear(h)
       \/ Recreate(h)
       \/ Modify(h)
       \/ Destroy(h)
  \/ \E h, ptr \in Handles :
       \/ CopyConstruct(h, ptr)
       \/ MoveConstruct(h, ptr)
       \/ CopyAssign(h, ptr)
       \/ MoveAssign(h, ptr)
       \/ Swap(h, ptr)
  \/ SynchronizeDevice
  \/ SetDevice
  \/ Terminated

Spec == Init /\ [][Next]_vars

-----------------------------------------------------------------------------
(* Correctness.                                                            *)

Owners(o) == {h \in built : pd[h] = o}

(* The counter of an object is the number of pointers that refer to it, so *)
(* free() deletes it exactly when its last pointer lets it go: an object   *)
(* that nobody refers to is deleted, and no pointer refers to a deleted    *)
(* object.                                                                 *)
CounterMatches ==
  \A o \in Objects :
    IF heap[o] = Unallocated
    THEN Owners(o) = {}
    ELSE heap[o].counter = Cardinality(Owners(o)) /\ Owners(o) # {}

(* No pointer refers to a deleted object, not even after clear(), which    *)
(* should "reset the pointer to empty state".                              *)
NoDangling == \A h \in built : pd[h] # Null => heap[pd[h]] # Unallocated

(* As long as one device is in use, the register holds no pointer that has *)
(* been destroyed: synchronizeDevice calls synchronize() of living pointers*)
(* only.  (A pointer that is destroyed while another device is active is   *)
(* removed from the wrong set.)                                            *)
RegisteredAlive ==
  Cardinality(known) <= 1 /\ ~terminated =>
    \A d \in Devices : pointersOnDevices[d] \subseteq built

(* The image of what pointer h refers to is current after the program calls*)
(* synchronizeSmartPointersOnDevice.                                       *)
Synchronized(h) ==
  pd[h] # Null =>
    synchronizeDevice[pd[h]].device = synchronizeDevice[pd[h]].data

(* After a synchronization the device image of every object with an owner  *)
(* in the register equals the host image, whoever modified or replaced the *)
(* object, and through whichever of its owners.                            *)
RegisteredSynchronized ==
  \A h \in built \intersect pointersOnDevices[active] : Synchronized(h)

(* The same for every pointer: "all modified images of the objects in the  *)
(* host memory are transferred on the GPU".                                *)
AllSynchronized == \A h \in built : Synchronized(h)

(* recreate() of a shared pointer changes nothing for the pointers it was  *)
(* sharing its object with.                                                *)
RecreateIsolates ==
  [][\A h \in Handles : Recreate(h) =>
       \A g \in built \ {h} :
         /\ pd'[g] = pd[g]
         /\ pd[g] # Null => heap'[pd[g]].data = heap[pd[g]].data]_vars

(* Assignment "assigns object owned by the pointer ptr to this pointer":   *)
(* afterwards this pointer refers to the object that ptr owned.            *)
AssignmentShares ==
  [][\A h, ptr \in Handles : CopyAssign(h, ptr) => pd'[h] = pd[ptr]]_vars

(* No destructor throws: the register knows the device of every pointer    *)
(* that is removed.                                                        *)
NoDestructorThrows == ~terminated
=============================================================================
