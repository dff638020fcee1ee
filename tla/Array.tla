------------------------------- MODULE Array -------------------------------
(***************************************************************************)
(* The copies of a tensor kept on several devices: class Array of          *)
(* src/include/driver/array.h and src/src/driver/array.cc.                 *)
(*                                                                         *)
(* An Array is a list of ArrayCopy (device, pointer, borrowed).  At most   *)
(* one copy is on a device, because every request first looks for a copy   *)
(* on the requested device, so the list is modelled as a function from     *)
(* devices to buffers.  A copy is `borrowed_' exactly when its buffer is   *)
(* the user's (UserBufs): the flag is set by borrowFromRaw and by nothing  *)
(* else.  Which of several equal copies is the source of a transfer (the   *)
(* first of the list) is left open.                                        *)
(*                                                                         *)
(* A request hands a raw pointer to a caller, who then reads or writes the *)
(* memory behind it before it requests anything else: the variable `grant' *)
(* is that pointer.  What happens when pointers are kept longer is the     *)
(* subject of module Driver.                                               *)
(***************************************************************************)
EXTENDS Naturals, FiniteSets

CONSTANTS
  Arrays,     \* the Array objects
  Devices,    \* the devices, each with a type and a number
  CPUs,       \* those whose type is TargetType::CPU
  HostCPU,    \* Ref<Device>::make(TargetType::CPU): where transfers are staged
  Bufs,       \* the memory that allocOn can return
  UserBufs,   \* the memory of user objects (NumPy arrays, PyTorch tensors)
  Values,     \* what a buffer can hold
  Undef,      \* the content of memory nobody has written
  NoBuf,      \* no copy on this device
  MaxFailures \* bound: how many allocations and transfers may fail

ASSUME DeviceAssumption ==
  /\ HostCPU \in CPUs
  /\ CPUs \subseteq Devices

ASSUME BufAssumption ==
  /\ NoBuf \notin Bufs \cup UserBufs
  /\ Bufs \cap UserBufs = {}
  /\ Undef \notin Values
  /\ NoBuf \notin Values \cup {Undef}

ASSUME FailureAssumption == MaxFailures \in Nat

VARIABLES
  copy,       \* ptrs_: copy[a][d] is the buffer of the copy of a on d
  dontDrop,   \* dontDropBorrow_
  heap,       \* the buffers allocated and not yet freed
  data,       \* what each buffer holds
  grant,      \* the pointer handed out by the last request, if it is in use
  outcome,    \* how the last operation ended
  lender,     \* history: the user object an array was borrowed from
  reported,   \* history: the arrays that have reported a dropped borrow
  lost,       \* history: the buffers a failed transfer left behind
  failures    \* history: how many operations failed

vars == <<copy, dontDrop, heap, data, grant, outcome,
          lender, reported, lost, failures>>

AllBufs == Bufs \cup UserBufs
Memory == Values \cup {Undef}
AccessType == {"Input", "Output", "InOut"}
NoGrant == [buf |-> NoBuf, atype |-> "Input"]

\* The devices that have a copy of a.
Present(a) == {d \in Devices : copy[a][d] # NoBuf}

\* The buffers the array frees in its destructor.
Owned(a) == {copy[a][d] : d \in Devices} \cap Bufs

\* Whether a has a copy with borrowed_ set.
Borrows(a) == \E d \in Devices : copy[a][d] \in UserBufs

Free == Bufs \ heap

Only(d, b) == [e \in Devices |-> IF e = d THEN b ELSE NoBuf]
NoCopy == [e \in Devices |-> NoBuf]

\* A loop over ptrs_ that looks for a source: any copy for a CPU, a CPU copy
\* for a GPU, and any copy again when the transfer is staged on the host.
Sources(a, d) ==
  IF d \notin CPUs /\ Present(a) \cap CPUs # {} THEN Present(a) \cap CPUs
                                                 ELSE Present(a)

\* rawSharedTo(Ref<Device>::make(TargetType::CPU)) inside a request of a GPU.
Staged(a, d) == d \notin CPUs /\ Present(a) \cap CPUs = {}

\* mem after v was copied to the buffers in bufs.
Fill(mem, bufs, v) == [b \in AllBufs |-> IF b \in bufs THEN v ELSE mem[b]]

\* Memory that is freed holds nothing any more.
Forget(mem, bufs) == Fill(mem, bufs, Undef)

-----------------------------------------------------------------------------
Init ==
  /\ copy = [a \in Arrays |-> NoCopy]
  /\ dontDrop = [a \in Arrays |-> FALSE]
  /\ heap = {}
  /\ data \in {mem \in [AllBufs -> Memory] :
                 /\ \A b \in Bufs : mem[b] = Undef
                 /\ \A u \in UserBufs : mem[u] # Undef}
  /\ grant = NoGrant
  /\ outcome = "ok"
  /\ lender = [a \in Arrays |-> NoBuf]
  /\ reported = {}
  /\ lost = {}
  /\ failures = 0

Idle == grant.buf = NoBuf

\* Array::borrowFromRaw.  A user object is lent to one array at a time.
BorrowFromRaw(a, u, d, flag) ==
  /\ Idle
  /\ Present(a) = {}
  /\ \A other \in Arrays : lender[other] # u
  /\ copy' = [copy EXCEPT ![a] = Only(d, u)]
  /\ dontDrop' = [dontDrop EXCEPT ![a] = flag]
  /\ lender' = [lender EXCEPT ![a] = u]
  /\ reported' = reported \ {a}
  /\ outcome' = "ok"
  /\ UNCHANGED <<heap, data, grant, lost, failures>>

\* Array::moveFromRaw: a buffer that native code allocated and filled.
MoveFromRaw(a, b, d, v) ==
  /\ Idle
  /\ Present(a) = {}
  /\ b \in Free
  /\ copy' = [copy EXCEPT ![a] = Only(d, b)]
  /\ dontDrop' = [dontDrop EXCEPT ![a] = FALSE]
  /\ heap' = heap \cup {b}
  /\ data' = Fill(data, {b}, v)
  /\ lender' = [lender EXCEPT ![a] = NoBuf]
  /\ reported' = reported \ {a}
  /\ outcome' = "ok"
  /\ UNCHANGED <<grant, lost, failures>>

\* The destructor.
Destroy(a) ==
  /\ Idle
  /\ Present(a) # {}
  /\ heap' = heap \ Owned(a)
  /\ data' = Forget(data, Owned(a))
  /\ copy' = [copy EXCEPT ![a] = NoCopy]
  /\ lender' = [lender EXCEPT ![a] = NoBuf]
  /\ reported' = reported \ {a}
  /\ outcome' = "ok"
  /\ UNCHANGED <<dontDrop, grant, lost, failures>>

-----------------------------------------------------------------------------
\* A request that finds a copy on d and keeps the others.
SharedHit(a, d) ==
  /\ Idle
  /\ d \in Present(a)
  /\ grant' = [buf |-> copy[a][d], atype |-> "Input"]
  /\ outcome' = "ok"
  /\ UNCHANGED <<copy, dontDrop, heap, data, lender, reported, lost, failures>>

\* A request that has to make a copy b on d, from any of the copies.
SharedMiss(a, d, src, b) ==
  /\ Idle
  /\ d \notin Present(a) /\ src \in Sources(a, d) /\ ~Staged(a, d)
  /\ b \in Free
  /\ copy' = [copy EXCEPT ![a] = [copy[a] EXCEPT ![d] = b]]
  /\ heap' = heap \cup {b}
  /\ data' = Fill(data, {b}, data[copy[a][src]])
  /\ grant' = [buf |-> b, atype |-> "Input"]
  /\ outcome' = "ok"
  /\ UNCHANGED <<dontDrop, lender, reported, lost, failures>>

\* The same through a new copy h on HostCPU, which stays in ptrs_.
SharedStaged(a, d, src, b, h) ==
  /\ Idle
  /\ d \notin Present(a) /\ src \in Sources(a, d) /\ Staged(a, d)
  /\ {b, h} \subseteq Free /\ b # h
  /\ copy' = [copy EXCEPT ![a] = [copy[a] EXCEPT ![HostCPU] = h, ![d] = b]]
  /\ heap' = heap \cup {b, h}
  /\ data' = Fill(data, {b, h}, data[copy[a][src]])
  /\ grant' = [buf |-> b, atype |-> "Input"]
  /\ outcome' = "ok"
  /\ UNCHANGED <<dontDrop, lender, reported, lost, failures>>

\* Array::rawSharedTo
RawSharedTo(a, d) ==
  \/ SharedHit(a, d)
  \/ \E src \in Devices, b \in Bufs : SharedMiss(a, d, src, b)
  \/ \E src \in Devices, b, h \in Bufs : SharedStaged(a, d, src, b, h)

\* Mutant: the other copies are neither freed nor dropped.
KeepOnlyShared(a, d, atype) ==
  /\ Idle
  /\ d \in Present(a)
  /\ grant' = [buf |-> copy[a][d], atype |-> atype]
  /\ outcome' = "ok"
  /\ UNCHANGED <<copy, dontDrop, heap, data, lender, reported, lost, failures>>

\* rawMovedTo and rawInitTo when there is a copy on d: the other copies are
\* dropped, and those that are owned are freed.  The test that should notice a
\* dropped borrow compares the device that was found with the one requested
\* (`*d != *device'), so it never holds.
KeepOnly(a, d, atype) ==
  /\ Idle
  /\ d \in Present(a)
  /\ copy' = [copy EXCEPT ![a] = Only(d, copy[a][d])]
  /\ heap' = heap \ (Owned(a) \ {copy[a][d]})
  /\ data' = Forget(data, Owned(a) \ {copy[a][d]})
  /\ grant' = [buf |-> copy[a][d], atype |-> atype]
  /\ outcome' = "ok"
  /\ UNCHANGED <<dontDrop, lender, reported, lost, failures>>

\* Mutant: the replaced copies are dropped without being freed.
ReplaceByLeaking(a, d, b, v, atype) ==
  LET err == dontDrop[a] /\ Borrows(a) IN
  /\ copy' = [copy EXCEPT ![a] = Only(d, b)]
  /\ heap' = heap \cup {b}
  /\ data' = [data EXCEPT ![b] = v]
  /\ grant' = IF err THEN NoGrant ELSE [buf |-> b, atype |-> atype]
  /\ outcome' = IF err THEN "InvalidIO" ELSE "ok"
  /\ reported' = IF err THEN reported \cup {a} ELSE reported
  /\ UNCHANGED <<dontDrop, lender, lost, failures>>

\* The end of rawMovedTo and rawInitTo when there was no copy on d: the new
\* buffer b with content v replaces every copy, and only then is the error of
\* a dropped borrow thrown.
ReplaceBy(a, d, b, v, atype) ==
  LET err == dontDrop[a] /\ Borrows(a) IN
  /\ copy' = [copy EXCEPT ![a] = Only(d, b)]
  /\ heap' = (heap \ Owned(a)) \cup {b}
  /\ data' = Fill(Forget(data, Owned(a)), {b}, v)
  /\ grant' = IF err THEN NoGrant ELSE [buf |-> b, atype |-> atype]
  /\ outcome' = IF err THEN "InvalidIO" ELSE "ok"
  /\ reported' = IF err THEN reported \cup {a} ELSE reported
  /\ UNCHANGED <<dontDrop, lender, lost, failures>>

\* Mutant: an update that moves the array to a new device does not copy it.
MovedMissUncopied(a, d) ==
  /\ Idle
  /\ Present(a) # {}
  /\ d \notin Present(a)
  /\ \E b \in Free : ReplaceBy(a, d, b, Undef, "InOut")

\* A staged move allocates a host copy too and frees it with the others.
MovedMiss(a, d) ==
  /\ Idle
  /\ Present(a) # {}
  /\ d \notin Present(a)
  /\ \E src \in Sources(a, d), b \in Free :
       /\ Staged(a, d) => Free # {b}
       /\ ReplaceBy(a, d, b, data[copy[a][src]], "InOut")

\* Array::rawMovedTo
RawMovedTo(a, d) == KeepOnly(a, d, "InOut") \/ MovedMiss(a, d)

InitMiss(a, d) ==
  /\ Idle
  /\ Present(a) # {}
  /\ d \notin Present(a)
  /\ \E b \in Free : ReplaceBy(a, d, b, Undef, "Output")

\* Array::rawInitTo
RawInitTo(a, d) == KeepOnly(a, d, "Output") \/ InitMiss(a, d)

\* Mutant: a failed transfer gives the buffer back although ptrs_ holds it.
FailedTransferFreed(a, d) ==
  /\ Idle
  /\ failures < MaxFailures
  /\ Present(a) # {}
  /\ d \notin Present(a)
  /\ failures' = failures + 1
  /\ outcome' = "DriverError"
  /\ \E b \in Owned(a) :
       /\ heap' = heap \ {b}
       /\ lost' = lost \cup {b}
       /\ data' = Forget(data, {b})
  /\ UNCHANGED <<copy, dontDrop, grant, lender, reported>>

\* The buffers that are in no ptrs_ yet when allocOn or a copy throws: none at
\* the first allocation, the new buffer at the copy, and the new host buffer
\* too when the copy to the host fails.
Abandoned(a, d) ==
  {{}} \cup {{b} : b \in Free}
       \cup (IF Staged(a, d) THEN {{b, h} : b, h \in Free} ELSE {})

\* A request that has to make a copy throws.
FailedTransfer(a, d) ==
  /\ Idle
  /\ failures < MaxFailures
  /\ Present(a) # {}
  /\ d \notin Present(a)
  /\ failures' = failures + 1
  /\ outcome' = "DriverError"
  /\ \E leak \in Abandoned(a, d) :
       heap' = heap \cup leak /\ lost' = lost \cup leak
  /\ UNCHANGED <<copy, dontDrop, data, grant, lender, reported>>

\* The last copy of a staged transfer throws: the host copy h stays.
FailedStaged(a, d, src, b, h) ==
  /\ Idle
  /\ failures < MaxFailures
  /\ d \notin Present(a) /\ src \in Sources(a, d) /\ Staged(a, d)
  /\ {b, h} \subseteq Free /\ b # h
  /\ failures' = failures + 1
  /\ outcome' = "DriverError"
  /\ copy' = [copy EXCEPT ![a] = [copy[a] EXCEPT ![HostCPU] = h]]
  /\ heap' = heap \cup {b, h}
  /\ lost' = lost \cup {b}
  /\ data' = Fill(data, {h}, data[copy[a][src]])
  /\ UNCHANGED <<dontDrop, grant, lender, reported>>

\* Array::makePrivateCopy: the copy f of a remains, b is new, and only then
\* the error of a dropped borrow is thrown.
Privatize(a, f) ==
  LET err == dontDrop[a] /\ Borrows(a) IN
  /\ Idle
  /\ copy' = [copy EXCEPT ![a] = f]
  /\ outcome' = IF err THEN "InvalidIO" ELSE "ok"
  /\ reported' = IF err THEN reported \cup {a} ELSE reported
  /\ UNCHANGED <<dontDrop, grant, lender, lost, failures>>

DropBorrowed(a) ==
  /\ Owned(a) # {}
  /\ Privatize(a, [d \in Devices |-> IF copy[a][d] \in UserBufs
                                     THEN NoBuf ELSE copy[a][d]])
  /\ UNCHANGED <<heap, data>>

CopyBorrowed(a, src, b) ==
  /\ Owned(a) = {}
  /\ src \in Present(a)
  /\ b \in Free
  /\ Privatize(a, Only(HostCPU, b))
  /\ heap' = heap \cup {b}
  /\ data' = Fill(data, {b}, data[copy[a][src]])

MakePrivateCopy(a) ==
  \/ DropBorrowed(a)
  \/ \E src \in Devices, b \in Bufs : CopyBorrowed(a, src, b)

\* The caller uses the pointer (external: the native code behind it).
UseGrant ==
  /\ ~Idle
  /\ IF grant.atype = "Input"
     THEN UNCHANGED data
     ELSE \E v \in Values : data' = [data EXCEPT ![grant.buf] = v]
  /\ grant' = NoGrant
  /\ UNCHANGED <<copy, dontDrop, heap, outcome, lender, reported, lost,
                 failures>>

-----------------------------------------------------------------------------
Next ==
  \/ UseGrant
  \/ \E a \in Arrays :
       \/ Destroy(a)
       \/ MakePrivateCopy(a)
       \/ \E d \in Devices :
            \/ RawSharedTo(a, d)
            \/ RawMovedTo(a, d)
            \/ RawInitTo(a, d)
            \/ FailedTransfer(a, d)
            \/ \E src \in Devices, b, h \in Bufs : FailedStaged(a, d, src, b, h)
            \/ \E b \in Bufs, v \in Values : MoveFromRaw(a, b, d, v)
            \/ \E u \in UserBufs, flag \in BOOLEAN : BorrowFromRaw(a, u, d, flag)

Spec == Init /\ [][Next]_vars

-----------------------------------------------------------------------------
TypeOK ==
  /\ copy \in [Arrays -> [Devices -> AllBufs \cup {NoBuf}]]
  /\ dontDrop \in [Arrays -> BOOLEAN]
  /\ heap \subseteq Bufs
  /\ data \in [AllBufs -> Memory]
  /\ grant \in [buf : AllBufs \cup {NoBuf}, atype : AccessType]
  /\ outcome \in {"ok", "InvalidIO", "DriverError"}
  /\ lender \in [Arrays -> UserBufs \cup {NoBuf}]
  /\ reported \subseteq Arrays
  /\ lost \subseteq heap
  /\ failures \in Nat

\* Whatever mix of requests was served, all the copies of an array hold the
\* same content, so a request may take any of them as its source
\* (rawSharedTo, rawMovedTo and makePrivateCopy all take the first).
Coherent ==
  \A a \in Arrays : \A d, e \in Present(a) :
    data[copy[a][d]] = data[copy[a][e]]

\* A buffer belongs to one copy of one array, so nothing is freed twice and
\* no pointer outlives its memory.
Exclusive ==
  \A a, c \in Arrays : \A d, e \in Devices :
    copy[a][d] = copy[c][e] /\ copy[a][d] # NoBuf => a = c /\ d = e

\* Memory is leaked by a transfer that throws, and by nothing else: every
\* other buffer that is allocated is the copy of some array.
HeapAccounted ==
  /\ \A a \in Arrays : Owned(a) \subseteq heap
  /\ \A b \in heap \ lost : \E a \in Arrays : b \in Owned(a)

\* Every buffer has one owner, who frees it once: each copy is one array's on
\* one device, and what is allocated is somebody's, unless a transfer threw.
Ownership == Exclusive /\ HeapAccounted

-----------------------------------------------------------------------------
Holder == CHOOSE a \in Arrays : grant.buf \in {copy[a][d] : d \in Devices}

\* What an array holds: the content of any of its copies.
Content(a) ==
  IF Present(a) = {} THEN NoBuf
                     ELSE data[copy[a][CHOOSE d \in Devices : d \in Present(a)]]

Contents == [a \in Arrays |-> Content(a)]

\* What the pointer in use shows.
Shown ==
  IF Idle
  THEN [arr |-> NoBuf, atype |-> "Input", val |-> NoBuf]
  ELSE [arr |-> Holder, atype |-> grant.atype, val |-> data[grant.buf]]

\* The tensor behind the copies.
OneTensor == INSTANCE Tensor WITH
  None <- NoBuf, content <- Contents, view <- Shown

\* An Array behaves as one tensor: every request, on whatever device and after
\* whatever history, shows what was last written on any device (the class
\* comment of driver/array.h:24-43), and a request that fails changes nothing
\* but the content of an array that was about to be overwritten.
ImplementsTensor == OneTensor!Spec

=============================================================================
