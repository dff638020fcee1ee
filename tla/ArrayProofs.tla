---------------------------- MODULE ArrayProofs ----------------------------
(***************************************************************************)
(* Proofs about module Array, for any number of arrays, devices, buffers   *)
(* and values.                                                             *)
(*                                                                         *)
(* The argument: a buffer that is free is the copy of no array, because    *)
(* every copy that is owned is in heap (HeapAccounted); so a request never *)
(* hands one array the memory of another (Exclusive), so a write through   *)
(* the pointer of one array disturbs no other, and it disturbs no other    *)
(* copy of the same array because a request that may write leaves only one *)
(* (GrantCovers).                                                          *)
(***************************************************************************)
EXTENDS Array, TLAPS

USE DeviceAssumption, BufAssumption, FailureAssumption

\* A borrowed copy is the memory of the object the array was made from.
BorrowsFromLender ==
  \A a \in Arrays : \A d \in Devices :
    copy[a][d] \in UserBufs => lender[a] = copy[a][d]

\* A buffer lost by a failed transfer is the copy of no array.
LostApart ==
  \A a \in Arrays : \A d \in Devices : copy[a][d] \notin lost

\* A pointer in use is a copy of some array, and its only copy if the pointer
\* may be written through.
GrantCovers ==
  grant.buf # NoBuf =>
    \E a \in Arrays : \E d \in Devices :
      /\ copy[a][d] = grant.buf
      /\ grant.atype # "Input" =>
           \A e \in Devices : e # d => copy[a][e] = NoBuf

\* Nobody takes the memory of a user object for fresh memory.
UserFilled == \A u \in UserBufs : data[u] \in Values

IInv ==
  /\ TypeOK
  /\ UserFilled
  /\ Exclusive
  /\ HeapAccounted
  /\ LostApart
  /\ BorrowsFromLender
  /\ GrantCovers
  /\ Coherent

-----------------------------------------------------------------------------
\* An array with a copy on one device, and one without a copy.
LEMMA OnlyType ==
  ASSUME NEW d \in Devices, NEW b \in AllBufs \cup {NoBuf}
  PROVE  Only(d, b) \in [Devices -> AllBufs \cup {NoBuf}]
BY DEF Only

LEMMA NoCopyType == NoCopy \in [Devices -> AllBufs \cup {NoBuf}]
BY DEF NoCopy

\* A copy into some buffers, and freeing some, leaves every buffer with a
\* content.
LEMMA FillType ==
  ASSUME NEW mem \in [AllBufs -> Memory], NEW bufs, NEW v \in Memory
  PROVE  Fill(mem, bufs, v) \in [AllBufs -> Memory]
BY DEF Fill

LEMMA ForgetType ==
  ASSUME NEW mem \in [AllBufs -> Memory], NEW bufs
  PROVE  Forget(mem, bufs) \in [AllBufs -> Memory]
BY FillType DEF Forget, Memory

\* One step per action: what it does is well typed, and what a failed transfer
\* lost is still allocated.
LEMMA TypeStep == IInv /\ [Next]_vars => TypeOK'
<1> SUFFICES ASSUME IInv, [Next]_vars PROVE TypeOK'
  OBVIOUS
<1> USE DEF IInv, TypeOK
<1>0. /\ Bufs \subseteq AllBufs /\ UserBufs \subseteq AllBufs
      /\ Values \subseteq Memory /\ Undef \in Memory
      /\ {"Input", "Output", "InOut"} = AccessType
  BY DEF AllBufs, Memory, AccessType
<1>1. ASSUME NEW a \in Arrays, Destroy(a) PROVE TypeOK'
  <2>1. copy' \in [Arrays -> [Devices -> AllBufs \cup {NoBuf}]]
    BY <1>1, NoCopyType DEF Destroy
  <2>2. data' \in [AllBufs -> Memory]
    BY <1>1, ForgetType DEF Destroy
  <2>3. lost' \subseteq heap'
    BY <1>1 DEF Destroy, Owned, LostApart
  <2> QED BY <1>1, <2>1, <2>2, <2>3 DEF Destroy
<1>2. ASSUME NEW a \in Arrays, DropBorrowed(a) PROVE TypeOK'
  BY <1>2 DEF DropBorrowed, Privatize
<1>3. ASSUME NEW a \in Arrays, NEW src \in Devices, NEW b \in Bufs,
             CopyBorrowed(a, src, b)
      PROVE TypeOK'
  <2>1. copy' \in [Arrays -> [Devices -> AllBufs \cup {NoBuf}]]
    BY <1>0, <1>3, OnlyType DEF CopyBorrowed, Privatize
  <2>2. data' \in [AllBufs -> Memory]
    BY <1>0, <1>3, FillType DEF CopyBorrowed, Present
  <2> QED BY <1>3, <2>1, <2>2 DEF CopyBorrowed, Privatize
<1>4. ASSUME NEW a \in Arrays, NEW d \in Devices, SharedHit(a, d) PROVE TypeOK'
  BY <1>0, <1>4 DEF SharedHit, Present
<1>5. ASSUME NEW a \in Arrays, NEW d \in Devices, NEW src \in Devices,
             NEW b \in Bufs, SharedMiss(a, d, src, b)
      PROVE TypeOK'
  <2>1. data' \in [AllBufs -> Memory]
    BY <1>5, FillType DEF SharedMiss, Sources, Present
  <2>2. copy' \in [Arrays -> [Devices -> AllBufs \cup {NoBuf}]]
    BY <1>0, <1>5 DEF SharedMiss
  <2> QED BY <1>0, <1>5, <2>1, <2>2 DEF SharedMiss
<1>6. ASSUME NEW a \in Arrays, NEW d \in Devices, NEW src \in Devices,
             NEW b \in Bufs, NEW h \in Bufs, SharedStaged(a, d, src, b, h)
      PROVE TypeOK'
  <2>1. data' \in [AllBufs -> Memory]
    BY <1>6, FillType DEF SharedStaged, Sources, Present
  <2>2. copy' \in [Arrays -> [Devices -> AllBufs \cup {NoBuf}]]
    BY <1>0, <1>6 DEF SharedStaged
  <2> QED BY <1>0, <1>6, <2>1, <2>2 DEF SharedStaged
<1>7. ASSUME NEW a \in Arrays, NEW d \in Devices, NEW m \in AccessType,
             KeepOnly(a, d, m)
      PROVE TypeOK'
  <2>1. copy[a][d] \in AllBufs
    BY <1>7 DEF KeepOnly, Present
  <2>2. copy' \in [Arrays -> [Devices -> AllBufs \cup {NoBuf}]]
    BY <1>7, <2>1, OnlyType DEF KeepOnly
  <2>3. data' \in [AllBufs -> Memory]
    BY <1>7, ForgetType DEF KeepOnly
  <2>4. lost' \subseteq heap' /\ heap' \subseteq Bufs
    BY <1>7 DEF KeepOnly, Owned, LostApart
  <2> QED BY <1>7, <2>1, <2>2, <2>3, <2>4 DEF KeepOnly
<1>8. ASSUME NEW a \in Arrays, NEW d \in Devices, NEW b \in Free,
             NEW v \in Memory, NEW m \in AccessType, ReplaceBy(a, d, b, v, m)
      PROVE TypeOK'
  <2>1. b \in Bufs
    BY DEF Free
  <2>2. copy' \in [Arrays -> [Devices -> AllBufs \cup {NoBuf}]]
    BY <1>0, <1>8, <2>1, OnlyType DEF ReplaceBy
  <2>3. data' \in [AllBufs -> Memory]
    BY <1>8, ForgetType, FillType DEF ReplaceBy
  <2>4. lost' \subseteq heap' /\ heap' \subseteq Bufs
    BY <1>8, <2>1 DEF ReplaceBy, Owned, LostApart
  <2>5. grant' \in [buf : AllBufs \cup {NoBuf}, atype : AccessType]
    BY <1>0, <1>8, <2>1 DEF ReplaceBy, NoGrant
  <2> QED BY <1>8, <2>2, <2>3, <2>4, <2>5 DEF ReplaceBy
<1>9. ASSUME NEW a \in Arrays, NEW d \in Devices, MovedMiss(a, d) PROVE TypeOK'
  <2>1. PICK src \in Sources(a, d), b \in Free :
               ReplaceBy(a, d, b, data[copy[a][src]], "InOut")
    BY <1>9 DEF MovedMiss
  <2>2. data[copy[a][src]] \in Memory
    BY DEF Sources, Present
  <2> QED BY <1>0, <2>1, <2>2, <1>8
<1>10. ASSUME NEW a \in Arrays, NEW d \in Devices, InitMiss(a, d) PROVE TypeOK'
  BY <1>0, <1>10, <1>8 DEF InitMiss
<1>11. ASSUME NEW a \in Arrays, NEW d \in Devices, FailedTransfer(a, d)
       PROVE TypeOK'
  <2>1. PICK leak \in Abandoned(a, d) :
               heap' = heap \cup leak /\ lost' = lost \cup leak
    BY <1>11 DEF FailedTransfer
  <2>2. leak \subseteq Bufs
    BY DEF Abandoned, Free
  <2>3. heap' \subseteq Bufs /\ lost' \subseteq heap'
    BY <2>1, <2>2
  <2> QED BY <1>11, <2>3 DEF FailedTransfer
<1>12. ASSUME NEW a \in Arrays, NEW d \in Devices, NEW src \in Devices,
              NEW b \in Bufs, NEW h \in Bufs, FailedStaged(a, d, src, b, h)
       PROVE TypeOK'
  <2>1. data' \in [AllBufs -> Memory]
    BY <1>12, FillType DEF FailedStaged, Sources, Present
  <2>2. copy' \in [Arrays -> [Devices -> AllBufs \cup {NoBuf}]]
    BY <1>0, <1>12 DEF FailedStaged
  <2>3. heap' \subseteq Bufs /\ lost' \subseteq heap' /\ failures' \in Nat
    BY <1>12 DEF FailedStaged
  <2> QED BY <1>12, <2>1, <2>2, <2>3 DEF FailedStaged
<1>13. ASSUME NEW a \in Arrays, NEW d \in Devices, NEW b \in Bufs,
              NEW v \in Values, MoveFromRaw(a, b, d, v)
       PROVE TypeOK'
  <2>1. data' \in [AllBufs -> Memory]
    BY <1>0, <1>13, FillType DEF MoveFromRaw
  <2>2. copy' \in [Arrays -> [Devices -> AllBufs \cup {NoBuf}]]
    BY <1>0, <1>13, OnlyType DEF MoveFromRaw
  <2> QED BY <1>13, <2>1, <2>2 DEF MoveFromRaw
<1>14. ASSUME NEW a \in Arrays, NEW d \in Devices, NEW u \in UserBufs,
              NEW flag \in BOOLEAN, BorrowFromRaw(a, u, d, flag)
       PROVE TypeOK'
  BY <1>0, <1>14, OnlyType DEF BorrowFromRaw
<1>15. CASE UseGrant
  BY <1>0, <1>15 DEF UseGrant, NoGrant, Idle
<1>16. CASE UNCHANGED vars
  BY <1>16 DEF vars
<1> QED
  BY <1>0, <1>1, <1>2, <1>3, <1>4, <1>5, <1>6, <1>7, <1>9, <1>10, <1>11, <1>12,
     <1>13, <1>14, <1>15, <1>16
     DEF Next, RawSharedTo, RawMovedTo, RawInitTo, MakePrivateCopy

-----------------------------------------------------------------------------
\* No copy is in the buffer b.
Fresh(b) == \A c \in Arrays : \A e \in Devices : copy[c][e] # b

\* What is not allocated is the copy of no array, and what no array was
\* borrowed from is not either.
LEMMA FreeIsFresh ==
  ASSUME IInv
  PROVE  /\ \A b \in Free : Fresh(b)
         /\ \A u \in UserBufs : (\A c \in Arrays : lender[c] # u) => Fresh(u)
<1>1. ASSUME NEW b \in Free, NEW c \in Arrays, NEW e \in Devices, copy[c][e] = b
      PROVE FALSE
  <2>1. b \in Owned(c)
    BY <1>1 DEF Owned, Free
  <2> QED BY <2>1 DEF IInv, HeapAccounted, Free
<1>2. ASSUME NEW u \in UserBufs, NEW c \in Arrays, NEW e \in Devices,
             copy[c][e] = u, lender[c] # u
      PROVE FALSE
  BY <1>2 DEF IInv, BorrowsFromLender
<1> QED BY <1>1, <1>2 DEF Fresh

\* An action that changes the copies of one array only, and gives it nothing
\* but distinct fresh buffers, keeps every buffer with one copy.
LEMMA ExclusiveFrame ==
  ASSUME Exclusive, NEW a \in Arrays,
         \A c \in Arrays : c # a => copy'[c] = copy[c],
         \A d \in Devices : \/ copy'[a][d] \in {NoBuf, copy[a][d]}
                            \/ Fresh(copy'[a][d]),
         \A d, e \in Devices :
           copy'[a][d] = copy'[a][e] /\ Fresh(copy'[a][d]) /\ copy'[a][d] # NoBuf => d = e
  PROVE  Exclusive'
BY DEF Exclusive, Fresh

LEMMA ExclusiveStep == IInv /\ [Next]_vars => Exclusive'
<1> SUFFICES ASSUME IInv, [Next]_vars PROVE Exclusive'
  OBVIOUS
<1> USE DEF IInv, TypeOK
<1>1. ASSUME NEW a \in Arrays, Destroy(a) PROVE Exclusive'
  BY <1>1, ExclusiveFrame DEF Destroy, NoCopy
<1>2. ASSUME NEW a \in Arrays, DropBorrowed(a) PROVE Exclusive'
  BY <1>2, ExclusiveFrame DEF DropBorrowed, Privatize, Fresh
<1>3. ASSUME NEW a \in Arrays, NEW src \in Devices, NEW b \in Bufs,
             CopyBorrowed(a, src, b)
      PROVE Exclusive'
  BY <1>3, ExclusiveFrame, FreeIsFresh DEF CopyBorrowed, Privatize, Only
<1>4. ASSUME NEW a \in Arrays, NEW d \in Devices, SharedHit(a, d) PROVE Exclusive'
  BY <1>4 DEF SharedHit, Exclusive
<1>5. ASSUME NEW a \in Arrays, NEW d \in Devices, NEW src \in Devices,
             NEW b \in Bufs, SharedMiss(a, d, src, b)
      PROVE Exclusive'
  BY <1>5, ExclusiveFrame, FreeIsFresh DEF SharedMiss, Fresh
<1>6. ASSUME NEW a \in Arrays, NEW d \in Devices, NEW src \in Devices,
             NEW b \in Bufs, NEW h \in Bufs, SharedStaged(a, d, src, b, h)
      PROVE Exclusive'
  BY <1>6, ExclusiveFrame, FreeIsFresh DEF SharedStaged, Fresh, Staged
<1>7. ASSUME NEW a \in Arrays, NEW d \in Devices, NEW m \in AccessType,
             KeepOnly(a, d, m)
      PROVE Exclusive'
  BY <1>7, ExclusiveFrame DEF KeepOnly, Only, Fresh
<1>8. ASSUME NEW a \in Arrays, NEW d \in Devices, NEW b \in Free,
             NEW v, NEW m, ReplaceBy(a, d, b, v, m)
      PROVE Exclusive'
  BY <1>8, ExclusiveFrame, FreeIsFresh DEF ReplaceBy, Only
<1>9. ASSUME NEW a \in Arrays, NEW d \in Devices, MovedMiss(a, d) PROVE Exclusive'
  BY <1>8, <1>9 DEF MovedMiss
<1>10. ASSUME NEW a \in Arrays, NEW d \in Devices, InitMiss(a, d) PROVE Exclusive'
  BY <1>8, <1>10 DEF InitMiss
<1>11. ASSUME NEW a \in Arrays, NEW d \in Devices, FailedTransfer(a, d)
       PROVE Exclusive'
  BY <1>11 DEF FailedTransfer, Exclusive
<1>12. ASSUME NEW a \in Arrays, NEW d \in Devices, NEW src \in Devices,
              NEW b \in Bufs, NEW h \in Bufs, FailedStaged(a, d, src, b, h)
       PROVE Exclusive'
  BY <1>12, ExclusiveFrame, FreeIsFresh DEF FailedStaged, Fresh
<1>13. ASSUME NEW a \in Arrays, NEW d \in Devices, NEW b \in Bufs,
              NEW v \in Values, MoveFromRaw(a, b, d, v)
       PROVE Exclusive'
  BY <1>13, ExclusiveFrame, FreeIsFresh DEF MoveFromRaw, Only
<1>14. ASSUME NEW a \in Arrays, NEW d \in Devices, NEW u \in UserBufs,
              NEW flag \in BOOLEAN, BorrowFromRaw(a, u, d, flag)
       PROVE Exclusive'
  BY <1>14, ExclusiveFrame, FreeIsFresh DEF BorrowFromRaw, Only
<1>15. CASE UseGrant
  BY <1>15 DEF UseGrant, Exclusive
<1>16. CASE UNCHANGED vars
  BY <1>16 DEF vars, Exclusive
<1> QED
  BY <1>1, <1>2, <1>3, <1>4, <1>5, <1>6, <1>7, <1>9, <1>10, <1>11, <1>12,
     <1>13, <1>14, <1>15, <1>16
     DEF Next, RawSharedTo, RawMovedTo, RawInitTo, MakePrivateCopy, AccessType

-----------------------------------------------------------------------------
\* What an action on one array does to the heap: it allocates the copies it
\* adds, frees those it drops, and loses what it allocates besides.
Rehouses(a, leak) ==
  /\ \A c \in Arrays : c # a => copy'[c] = copy[c]
  /\ heap' = (heap \ Owned(a)) \cup Owned(a)' \cup leak
  /\ lost' = lost \cup leak

LEMMA HeapFrame ==
  ASSUME Exclusive, HeapAccounted, LostApart, NEW a \in Arrays, NEW leak,
         Rehouses(a, leak)
  PROVE  HeapAccounted'
<1>1. \A c \in Arrays : c # a => Owned(c)' = Owned(c)
  BY DEF Owned, Rehouses
<1>2. \A c \in Arrays : c # a => Owned(c) \cap Owned(a) = {}
  BY DEF Owned, Exclusive
<1>3. ASSUME NEW c \in Arrays PROVE Owned(c)' \subseteq heap'
  BY <1>1, <1>2 DEF HeapAccounted, Rehouses
<1>4. ASSUME NEW b \in heap' \ lost' PROVE \E c \in Arrays : b \in Owned(c)'
  BY <1>1 DEF HeapAccounted, Rehouses
<1> QED BY <1>3, <1>4 DEF HeapAccounted

LEMMA HeapStep == IInv /\ [Next]_vars => HeapAccounted'
<1> SUFFICES ASSUME IInv, [Next]_vars PROVE HeapAccounted'
  OBVIOUS
<1> USE DEF IInv, TypeOK
<1>1. ASSUME NEW a \in Arrays, Destroy(a) PROVE HeapAccounted'
  <2>1. Owned(a)' = {}
    BY <1>1 DEF Destroy, Owned, NoCopy
  <2>2. Rehouses(a, {})
    BY <1>1, <2>1 DEF Destroy, Rehouses
  <2> QED BY <2>2, HeapFrame
<1>2. ASSUME NEW a \in Arrays, DropBorrowed(a) PROVE HeapAccounted'
  <2>1. Owned(a)' = Owned(a)
    BY <1>2 DEF DropBorrowed, Privatize, Owned
  <2>2. Rehouses(a, {})
    BY <1>2, <2>1 DEF HeapAccounted, DropBorrowed, Privatize, Rehouses
  <2> QED BY <2>2, HeapFrame
<1>3. ASSUME NEW a \in Arrays, NEW src \in Devices, NEW b \in Bufs,
             CopyBorrowed(a, src, b)
      PROVE HeapAccounted'
  <2>1. Owned(a)' = {b}
    BY <1>3 DEF CopyBorrowed, Privatize, Owned, Only
  <2>2. Rehouses(a, {})
    BY <1>3, <2>1 DEF CopyBorrowed, Privatize, Rehouses
  <2> QED BY <2>2, HeapFrame
<1>4. ASSUME NEW a \in Arrays, NEW d \in Devices, SharedHit(a, d)
      PROVE HeapAccounted'
  BY <1>4 DEF SharedHit, HeapAccounted, Owned
<1>5. ASSUME NEW a \in Arrays, NEW d \in Devices, NEW src \in Devices,
             NEW b \in Bufs, SharedMiss(a, d, src, b)
      PROVE HeapAccounted'
  <2>1. Owned(a)' = Owned(a) \cup {b}
    BY <1>5 DEF SharedMiss, Owned, Present
  <2>2. Rehouses(a, {})
    BY <1>5, <2>1 DEF HeapAccounted, SharedMiss, Rehouses
  <2> QED BY <2>2, HeapFrame
<1>6. ASSUME NEW a \in Arrays, NEW d \in Devices, NEW src \in Devices,
             NEW b \in Bufs, NEW h \in Bufs, SharedStaged(a, d, src, b, h)
      PROVE HeapAccounted'
  <2>1. copy[a][HostCPU] = NoBuf /\ copy[a][d] = NoBuf /\ HostCPU # d
    BY <1>6 DEF SharedStaged, Staged, Present
  <2>2. Owned(a)' = Owned(a) \cup {b, h}
    BY <1>6, <2>1 DEF SharedStaged, Owned
  <2>3. Rehouses(a, {})
    BY <1>6, <2>2 DEF HeapAccounted, SharedStaged, Rehouses
  <2> QED BY <2>3, HeapFrame
<1>7. ASSUME NEW a \in Arrays, NEW d \in Devices, NEW m \in AccessType,
             KeepOnly(a, d, m)
      PROVE HeapAccounted'
  <2>1. Owned(a)' = {copy[a][d]} \cap Bufs
    BY <1>7 DEF KeepOnly, Only, Owned
  <2>2. Owned(a)' \subseteq Owned(a)
    BY <2>1 DEF Owned
  <2>3. Rehouses(a, {})
    BY <1>7, <2>1, <2>2 DEF HeapAccounted, KeepOnly, Rehouses
  <2> QED BY <2>3, HeapFrame
<1>8. ASSUME NEW a \in Arrays, NEW d \in Devices, NEW b \in Free,
             NEW v, NEW m, ReplaceBy(a, d, b, v, m)
      PROVE HeapAccounted'
  <2>1. Owned(a)' = {b}
    BY <1>8 DEF ReplaceBy, Only, Owned, Free
  <2>2. Rehouses(a, {})
    BY <1>8, <2>1 DEF ReplaceBy, Rehouses
  <2> QED BY <2>2, HeapFrame
<1>9. ASSUME NEW a \in Arrays, NEW d \in Devices, MovedMiss(a, d)
      PROVE HeapAccounted'
  BY <1>8, <1>9 DEF MovedMiss
<1>10. ASSUME NEW a \in Arrays, NEW d \in Devices, InitMiss(a, d)
       PROVE HeapAccounted'
  BY <1>8, <1>10 DEF InitMiss
<1>11. ASSUME NEW a \in Arrays, NEW d \in Devices, FailedTransfer(a, d)
       PROVE HeapAccounted'
  <2>1. PICK leak : heap' = heap \cup leak /\ lost' = lost \cup leak
    BY <1>11 DEF FailedTransfer
  <2>2. Owned(a)' = Owned(a)
    BY <1>11 DEF FailedTransfer, Owned
  <2>3. Rehouses(a, leak)
    BY <1>11, <2>1, <2>2 DEF HeapAccounted, FailedTransfer, Rehouses
  <2> QED BY <2>3, HeapFrame
<1>12. ASSUME NEW a \in Arrays, NEW d \in Devices, NEW src \in Devices,
              NEW b \in Bufs, NEW h \in Bufs, FailedStaged(a, d, src, b, h)
       PROVE HeapAccounted'
  <2>1. copy[a][HostCPU] = NoBuf
    BY <1>12 DEF FailedStaged, Staged, Present
  <2>2. Owned(a)' = Owned(a) \cup {h}
    BY <1>12, <2>1 DEF FailedStaged, Owned
  <2>3. Rehouses(a, {b})
    BY <1>12, <2>2 DEF HeapAccounted, FailedStaged, Rehouses
  <2> QED BY <2>3, HeapFrame
<1>13. ASSUME NEW a \in Arrays, NEW d \in Devices, NEW b \in Bufs,
              NEW v \in Values, MoveFromRaw(a, b, d, v)
       PROVE HeapAccounted'
  <2>1. Owned(a)' = {b} /\ Owned(a) = {}
    BY <1>13 DEF MoveFromRaw, Only, Owned, Present
  <2>2. Rehouses(a, {})
    BY <1>13, <2>1 DEF MoveFromRaw, Rehouses
  <2> QED BY <2>2, HeapFrame
<1>14. ASSUME NEW a \in Arrays, NEW d \in Devices, NEW u \in UserBufs,
              NEW flag \in BOOLEAN, BorrowFromRaw(a, u, d, flag)
       PROVE HeapAccounted'
  <2>1. Owned(a)' = {} /\ Owned(a) = {}
    BY <1>14 DEF BorrowFromRaw, Only, Owned, Present
  <2>2. Rehouses(a, {})
    BY <1>14, <2>1 DEF BorrowFromRaw, Rehouses
  <2> QED BY <2>2, HeapFrame
<1>15. CASE UseGrant
  BY <1>15 DEF UseGrant, HeapAccounted, Owned
<1>16. CASE UNCHANGED vars
  BY <1>16 DEF vars, HeapAccounted, Owned
<1> QED
  BY <1>1, <1>2, <1>3, <1>4, <1>5, <1>6, <1>7, <1>9, <1>10, <1>11, <1>12,
     <1>13, <1>14, <1>15, <1>16
     DEF Next, RawSharedTo, RawMovedTo, RawInitTo, MakePrivateCopy, AccessType

-----------------------------------------------------------------------------
\* A buffer that is lost was free, and no array ever gets it.
LEMMA LostStep == IInv /\ [Next]_vars => LostApart'
<1> SUFFICES ASSUME IInv, [Next]_vars PROVE LostApart'
  OBVIOUS
<1> USE DEF IInv, TypeOK
<1>1. ASSUME NEW a \in Arrays, Destroy(a) PROVE LostApart'
  BY <1>1 DEF Destroy, LostApart, NoCopy
<1>2. ASSUME NEW a \in Arrays, DropBorrowed(a) PROVE LostApart'
  BY <1>2 DEF DropBorrowed, Privatize, LostApart
<1>3. ASSUME NEW a \in Arrays, NEW src \in Devices, NEW b \in Bufs,
             CopyBorrowed(a, src, b)
      PROVE LostApart'
  BY <1>3 DEF CopyBorrowed, Privatize, LostApart, Only, Free
<1>4. ASSUME NEW a \in Arrays, NEW d \in Devices, SharedHit(a, d)
      PROVE LostApart'
  BY <1>4 DEF SharedHit, LostApart, Free
<1>5. ASSUME NEW a \in Arrays, NEW d \in Devices, NEW src \in Devices,
             NEW b \in Bufs,
             SharedMiss(a, d, src, b)
      PROVE LostApart'
  BY <1>5 DEF SharedMiss, LostApart, Free
<1>6. ASSUME NEW a \in Arrays, NEW d \in Devices, NEW src \in Devices,
             NEW b \in Bufs, NEW h \in Bufs,
             SharedStaged(a, d, src, b, h)
      PROVE LostApart'
  BY <1>6 DEF SharedStaged, LostApart, Free
<1>7. ASSUME NEW a \in Arrays, NEW d \in Devices, NEW m \in AccessType,
             KeepOnly(a, d, m)
      PROVE LostApart'
  BY <1>7 DEF KeepOnly, LostApart, Only
<1>8. ASSUME NEW a \in Arrays, NEW d \in Devices, NEW b \in Free,
             NEW v, NEW m,
             ReplaceBy(a, d, b, v, m)
      PROVE LostApart'
  BY <1>8 DEF ReplaceBy, LostApart, Only, Free
<1>9. ASSUME NEW a \in Arrays, NEW d \in Devices, MovedMiss(a, d)
      PROVE LostApart'
  BY <1>8, <1>9 DEF MovedMiss
<1>10. ASSUME NEW a \in Arrays, NEW d \in Devices, InitMiss(a, d)
      PROVE LostApart'
  BY <1>8, <1>10 DEF InitMiss
<1>11. ASSUME NEW a \in Arrays, NEW d \in Devices, FailedTransfer(a, d)
      PROVE LostApart'
  <2>1. PICK leak \in Abandoned(a, d) : lost' = lost \cup leak
    BY <1>11 DEF FailedTransfer
  <2>2. \A b \in leak : Fresh(b)
    BY FreeIsFresh DEF Abandoned
  <2> QED BY <1>11, <2>1, <2>2 DEF FailedTransfer, LostApart, Fresh
<1>12. ASSUME NEW a \in Arrays, NEW d \in Devices, NEW src \in Devices,
             NEW b \in Bufs, NEW h \in Bufs,
             FailedStaged(a, d, src, b, h)
      PROVE LostApart'
  <2>1. Fresh(b)
    BY <1>12, FreeIsFresh DEF FailedStaged
  <2> QED BY <1>12, <2>1 DEF FailedStaged, LostApart, Fresh, Free
<1>13. ASSUME NEW a \in Arrays, NEW d \in Devices, NEW b \in Bufs,
             NEW v \in Values,
             MoveFromRaw(a, b, d, v)
      PROVE LostApart'
  BY <1>13 DEF MoveFromRaw, LostApart, Only, Free
<1>14. ASSUME NEW a \in Arrays, NEW d \in Devices, NEW u \in UserBufs,
             NEW flag \in BOOLEAN,
             BorrowFromRaw(a, u, d, flag)
      PROVE LostApart'
  BY <1>14 DEF BorrowFromRaw, LostApart, Only
<1>15. CASE UseGrant
  BY <1>15 DEF UseGrant, LostApart
<1>16. CASE UNCHANGED vars
  BY <1>16 DEF vars, LostApart
<1> QED
  BY <1>1, <1>2, <1>3, <1>4, <1>5, <1>6, <1>7, <1>9, <1>10, <1>11, <1>12,
     <1>13, <1>14, <1>15, <1>16
     DEF Next, RawSharedTo, RawMovedTo, RawInitTo, MakePrivateCopy, AccessType

\* Only borrowFromRaw gives an array a copy that is not its own.
LEMMA LenderStep == IInv /\ [Next]_vars => BorrowsFromLender'
<1> SUFFICES ASSUME IInv, [Next]_vars PROVE BorrowsFromLender'
  OBVIOUS
<1> USE DEF IInv, TypeOK
<1>1. ASSUME NEW a \in Arrays, Destroy(a) PROVE BorrowsFromLender'
  BY <1>1 DEF Destroy, BorrowsFromLender, NoCopy
<1>2. ASSUME NEW a \in Arrays, DropBorrowed(a) PROVE BorrowsFromLender'
  BY <1>2 DEF DropBorrowed, Privatize, BorrowsFromLender
<1>3. ASSUME NEW a \in Arrays, NEW src \in Devices, NEW b \in Bufs,
             CopyBorrowed(a, src, b)
      PROVE BorrowsFromLender'
  BY <1>3 DEF CopyBorrowed, Privatize, BorrowsFromLender, Only
<1>4. ASSUME NEW a \in Arrays, NEW d \in Devices, SharedHit(a, d)
      PROVE BorrowsFromLender'
  BY <1>4 DEF SharedHit, BorrowsFromLender
<1>5. ASSUME NEW a \in Arrays, NEW d \in Devices, NEW src \in Devices,
             NEW b \in Bufs,
             SharedMiss(a, d, src, b)
      PROVE BorrowsFromLender'
  BY <1>5 DEF SharedMiss, BorrowsFromLender
<1>6. ASSUME NEW a \in Arrays, NEW d \in Devices, NEW src \in Devices,
             NEW b \in Bufs, NEW h \in Bufs,
             SharedStaged(a, d, src, b, h)
      PROVE BorrowsFromLender'
  BY <1>6 DEF SharedStaged, BorrowsFromLender
<1>7. ASSUME NEW a \in Arrays, NEW d \in Devices, NEW m \in AccessType,
             KeepOnly(a, d, m)
      PROVE BorrowsFromLender'
  BY <1>7 DEF KeepOnly, BorrowsFromLender, Only
<1>8. ASSUME NEW a \in Arrays, NEW d \in Devices, NEW b \in Free,
             NEW v, NEW m,
             ReplaceBy(a, d, b, v, m)
      PROVE BorrowsFromLender'
  BY <1>8 DEF ReplaceBy, BorrowsFromLender, Only, Free
<1>9. ASSUME NEW a \in Arrays, NEW d \in Devices, MovedMiss(a, d)
      PROVE BorrowsFromLender'
  BY <1>8, <1>9 DEF MovedMiss
<1>10. ASSUME NEW a \in Arrays, NEW d \in Devices, InitMiss(a, d)
      PROVE BorrowsFromLender'
  BY <1>8, <1>10 DEF InitMiss
<1>11. ASSUME NEW a \in Arrays, NEW d \in Devices, FailedTransfer(a, d)
      PROVE BorrowsFromLender'
  BY <1>11 DEF FailedTransfer, BorrowsFromLender
<1>12. ASSUME NEW a \in Arrays, NEW d \in Devices, NEW src \in Devices,
             NEW b \in Bufs, NEW h \in Bufs,
             FailedStaged(a, d, src, b, h)
      PROVE BorrowsFromLender'
  BY <1>12 DEF FailedStaged, BorrowsFromLender
<1>13. ASSUME NEW a \in Arrays, NEW d \in Devices, NEW b \in Bufs,
             NEW v \in Values,
             MoveFromRaw(a, b, d, v)
      PROVE BorrowsFromLender'
  BY <1>13 DEF MoveFromRaw, BorrowsFromLender, Only
<1>14. ASSUME NEW a \in Arrays, NEW d \in Devices, NEW u \in UserBufs,
             NEW flag \in BOOLEAN,
             BorrowFromRaw(a, u, d, flag)
      PROVE BorrowsFromLender'
  BY <1>14 DEF BorrowFromRaw, BorrowsFromLender, Only
<1>15. CASE UseGrant
  BY <1>15 DEF UseGrant, BorrowsFromLender
<1>16. CASE UNCHANGED vars
  BY <1>16 DEF vars, BorrowsFromLender
<1> QED
  BY <1>1, <1>2, <1>3, <1>4, <1>5, <1>6, <1>7, <1>9, <1>10, <1>11, <1>12,
     <1>13, <1>14, <1>15, <1>16
     DEF Next, RawSharedTo, RawMovedTo, RawInitTo, MakePrivateCopy, AccessType

\* A request hands out a copy it has just found or made, and a pointer for
\* writing only when it dropped every other copy.
LEMMA GrantStep == IInv /\ [Next]_vars => GrantCovers'
<1> SUFFICES ASSUME IInv, [Next]_vars PROVE GrantCovers'
  OBVIOUS
<1> USE DEF IInv, TypeOK
<1>1. ASSUME NEW a \in Arrays, Destroy(a) PROVE GrantCovers'
  BY <1>1 DEF Destroy, GrantCovers, Idle
<1>2. ASSUME NEW a \in Arrays, DropBorrowed(a) PROVE GrantCovers'
  BY <1>2 DEF DropBorrowed, Privatize, GrantCovers, Idle
<1>3. ASSUME NEW a \in Arrays, NEW src \in Devices, NEW b \in Bufs,
             CopyBorrowed(a, src, b)
      PROVE GrantCovers'
  BY <1>3 DEF CopyBorrowed, Privatize, GrantCovers, Idle
<1>4. ASSUME NEW a \in Arrays, NEW d \in Devices, SharedHit(a, d)
      PROVE GrantCovers'
  BY <1>4 DEF SharedHit, GrantCovers
<1>5. ASSUME NEW a \in Arrays, NEW d \in Devices, NEW src \in Devices,
             NEW b \in Bufs,
             SharedMiss(a, d, src, b)
      PROVE GrantCovers'
  BY <1>5 DEF SharedMiss, GrantCovers
<1>6. ASSUME NEW a \in Arrays, NEW d \in Devices, NEW src \in Devices,
             NEW b \in Bufs, NEW h \in Bufs,
             SharedStaged(a, d, src, b, h)
      PROVE GrantCovers'
  BY <1>6 DEF SharedStaged, GrantCovers
<1>7. ASSUME NEW a \in Arrays, NEW d \in Devices, NEW m \in AccessType,
             KeepOnly(a, d, m)
      PROVE GrantCovers'
  BY <1>7 DEF KeepOnly, GrantCovers, Only
<1>8. ASSUME NEW a \in Arrays, NEW d \in Devices, NEW b \in Free,
             NEW v, NEW m,
             ReplaceBy(a, d, b, v, m)
      PROVE GrantCovers'
  BY <1>8 DEF ReplaceBy, GrantCovers, Only, NoGrant
<1>9. ASSUME NEW a \in Arrays, NEW d \in Devices, MovedMiss(a, d)
      PROVE GrantCovers'
  BY <1>8, <1>9 DEF MovedMiss
<1>10. ASSUME NEW a \in Arrays, NEW d \in Devices, InitMiss(a, d)
      PROVE GrantCovers'
  BY <1>8, <1>10 DEF InitMiss
<1>11. ASSUME NEW a \in Arrays, NEW d \in Devices, FailedTransfer(a, d)
      PROVE GrantCovers'
  BY <1>11 DEF FailedTransfer, GrantCovers, Idle
<1>12. ASSUME NEW a \in Arrays, NEW d \in Devices, NEW src \in Devices,
             NEW b \in Bufs, NEW h \in Bufs,
             FailedStaged(a, d, src, b, h)
      PROVE GrantCovers'
  BY <1>12 DEF FailedStaged, GrantCovers, Idle
<1>13. ASSUME NEW a \in Arrays, NEW d \in Devices, NEW b \in Bufs,
             NEW v \in Values,
             MoveFromRaw(a, b, d, v)
      PROVE GrantCovers'
  BY <1>13 DEF MoveFromRaw, GrantCovers, Idle
<1>14. ASSUME NEW a \in Arrays, NEW d \in Devices, NEW u \in UserBufs,
             NEW flag \in BOOLEAN,
             BorrowFromRaw(a, u, d, flag)
      PROVE GrantCovers'
  BY <1>14 DEF BorrowFromRaw, GrantCovers, Idle
<1>15. CASE UseGrant
  BY <1>15 DEF UseGrant,  GrantCovers, NoGrant
<1>16. CASE UNCHANGED vars
  BY <1>16 DEF vars, GrantCovers
<1> QED
  BY <1>1, <1>2, <1>3, <1>4, <1>5, <1>6, <1>7, <1>9, <1>10, <1>11, <1>12,
     <1>13, <1>14, <1>15, <1>16
     DEF Next, RawSharedTo, RawMovedTo, RawInitTo, MakePrivateCopy, AccessType

-----------------------------------------------------------------------------
\* The buffers an action on array a allocates or frees are the copies of no
\* other array.
LEMMA OthersApart ==
  ASSUME IInv, NEW a \in Arrays, NEW c \in Arrays \ {a}, NEW e \in Devices,
         copy[c][e] # NoBuf
  PROVE  copy[c][e] \notin Owned(a) /\ copy[c][e] \notin Free
BY FreeIsFresh DEF IInv, Exclusive, Owned, Fresh

\* What an action on array a does to what the arrays hold: every copy of a
\* holds v after it, and the other arrays keep their copies and contents.
Puts(a, v) ==
  /\ \A c \in Arrays \ {a} :
       /\ copy'[c] = copy[c]
       /\ \A e \in Devices :
            copy[c][e] # NoBuf => data'[copy[c][e]] = data[copy[c][e]]
  /\ \A e \in Devices : copy'[a][e] # NoBuf => data'[copy'[a][e]] = v

\* The content of an array is that of any of its copies.
LEMMA ContentIs ==
  ASSUME Coherent, NEW a \in Arrays, NEW d \in Devices, copy[a][d] # NoBuf
  PROVE  Content(a) = data[copy[a][d]]
BY DEF Coherent, Content, Present

\* An operation that makes no other change than to add or to drop copies puts
\* the old content of the array.
LEMMA DropPuts ==
  ASSUME IInv, NEW a \in Arrays, DropBorrowed(a)
  PROVE  Puts(a, Content(a))
BY ContentIs DEF IInv, TypeOK, DropBorrowed, Privatize, Puts

LEMMA CopyPuts ==
  ASSUME IInv, NEW a \in Arrays, NEW src \in Devices, NEW b \in Bufs,
         CopyBorrowed(a, src, b)
  PROVE  Puts(a, Content(a))
<1> USE DEF IInv, TypeOK
<1>1. \A c \in Arrays \ {a} : \A e \in Devices :
        copy[c][e] # NoBuf => data'[copy[c][e]] = data[copy[c][e]]
  BY OthersApart DEF CopyBorrowed, Privatize, Fill, AllBufs
<1>2. data[copy[a][src]] = Content(a)
  BY ContentIs DEF CopyBorrowed, Present
<1> QED BY <1>1, <1>2 DEF CopyBorrowed, Privatize, Fill, AllBufs, Only, Puts

LEMMA HitPuts ==
  ASSUME IInv, NEW a \in Arrays, NEW d \in Devices, SharedHit(a, d)
  PROVE  Puts(a, Content(a))
BY ContentIs DEF IInv, TypeOK, SharedHit, Puts

LEMMA MissPuts ==
  ASSUME IInv, NEW a \in Arrays, NEW d \in Devices, NEW src \in Devices,
         NEW b \in Bufs, SharedMiss(a, d, src, b)
  PROVE  Puts(a, Content(a))
<1> USE DEF IInv, TypeOK
<1>1. \A c \in Arrays \ {a} : \A e \in Devices :
        copy[c][e] # NoBuf => data'[copy[c][e]] = data[copy[c][e]]
  BY OthersApart DEF SharedMiss, Fill, AllBufs
<1>2. data[copy[a][src]] = Content(a)
  BY ContentIs DEF SharedMiss, Sources, Present
<1>3. \A e \in Devices : copy[a][e] # NoBuf => data'[copy[a][e]] = Content(a)
  BY <1>2, ContentIs DEF SharedMiss, Fill, AllBufs
<1> QED BY <1>1, <1>2, <1>3 DEF SharedMiss, Fill, AllBufs, Puts

LEMMA StagedPuts ==
  ASSUME IInv, NEW a \in Arrays, NEW d \in Devices, NEW src \in Devices,
         NEW b \in Bufs, NEW h \in Bufs,
         \/ SharedStaged(a, d, src, b, h)
         \/ FailedStaged(a, d, src, b, h)
  PROVE  Puts(a, Content(a))
<1> USE DEF IInv, TypeOK
<1>1. \A c \in Arrays \ {a} : \A e \in Devices :
        copy[c][e] # NoBuf => data'[copy[c][e]] = data[copy[c][e]]
  BY OthersApart DEF SharedStaged, FailedStaged, Fill, AllBufs
<1>2. data[copy[a][src]] = Content(a)
  BY ContentIs DEF SharedStaged, FailedStaged, Sources, Present
<1>3. \A e \in Devices : copy[a][e] # NoBuf => data'[copy[a][e]] = Content(a)
  BY <1>2, ContentIs DEF SharedStaged, FailedStaged, Fill, AllBufs
<1> QED
  BY <1>1, <1>2, <1>3 DEF SharedStaged, FailedStaged, Fill, AllBufs, Puts

LEMMA KeepPuts ==
  ASSUME IInv, NEW a \in Arrays, NEW d \in Devices, NEW m, KeepOnly(a, d, m)
  PROVE  Puts(a, Content(a))
<1> USE DEF IInv, TypeOK
<1>1. \A c \in Arrays \ {a} : \A e \in Devices :
        copy[c][e] # NoBuf => data'[copy[c][e]] = data[copy[c][e]]
  BY OthersApart DEF KeepOnly, Fill, Forget, AllBufs
<1>2. data[copy[a][d]] = Content(a)
  BY ContentIs DEF KeepOnly, Present
<1>3. data'[copy[a][d]] = data[copy[a][d]]
  BY DEF KeepOnly, Fill, Forget, Present
<1>4. copy' = [copy EXCEPT ![a] = Only(d, copy[a][d])]
  BY DEF KeepOnly
<1> QED BY <1>1, <1>2, <1>3, <1>4 DEF Only, Puts

LEMMA FailPuts ==
  ASSUME IInv, NEW a \in Arrays, NEW d \in Devices, FailedTransfer(a, d)
  PROVE  Puts(a, Content(a))
BY ContentIs DEF IInv, TypeOK, FailedTransfer, Puts

\* The other operations put a content of their own.
LEMMA ReplacePuts ==
  ASSUME IInv, NEW a \in Arrays, NEW d \in Devices, NEW b \in Free, NEW v,
         NEW m, ReplaceBy(a, d, b, v, m)
  PROVE  Puts(a, v)
<1> USE DEF IInv, TypeOK
<1>1. \A c \in Arrays \ {a} : \A e \in Devices :
        copy[c][e] # NoBuf => data'[copy[c][e]] = data[copy[c][e]]
  BY OthersApart DEF ReplaceBy, Fill, Forget, AllBufs
<1> QED BY <1>1 DEF ReplaceBy, Fill, Forget, AllBufs, Only, Free, Puts

LEMMA DestroyPuts ==
  ASSUME IInv, NEW a \in Arrays, NEW v, Destroy(a)
  PROVE  Puts(a, v)
<1> USE DEF IInv, TypeOK
<1>1. \A c \in Arrays \ {a} : \A e \in Devices :
        copy[c][e] # NoBuf => data'[copy[c][e]] = data[copy[c][e]]
  BY OthersApart DEF Destroy, Fill, Forget, AllBufs
<1> QED BY <1>1 DEF Destroy, NoCopy, Puts

LEMMA MoveInPuts ==
  ASSUME IInv, NEW a \in Arrays, NEW b \in Bufs, NEW d \in Devices,
         NEW v \in Values, MoveFromRaw(a, b, d, v)
  PROVE  Puts(a, v)
<1> USE DEF IInv, TypeOK
<1>1. \A c \in Arrays \ {a} : \A e \in Devices :
        copy[c][e] # NoBuf => data'[copy[c][e]] = data[copy[c][e]]
  BY OthersApart DEF MoveFromRaw, Fill, AllBufs
<1> QED BY <1>1 DEF MoveFromRaw, Fill, AllBufs, Only, Puts

LEMMA BorrowPuts ==
  ASSUME IInv, NEW a \in Arrays, NEW u \in UserBufs, NEW d \in Devices,
         NEW flag, BorrowFromRaw(a, u, d, flag)
  PROVE  Puts(a, data[u])
BY DEF IInv, TypeOK, BorrowFromRaw, Only, Puts

\* A write reaches the only copy of the array whose pointer is in use.
LEMMA WritePuts ==
  ASSUME IInv, NEW a \in Arrays, NEW d \in Devices, NEW v,
         grant.buf = copy[a][d], grant.buf # NoBuf, grant.atype # "Input",
         copy' = copy, data' = [data EXCEPT ![grant.buf] = v]
  PROVE  Puts(a, v)
<1> USE DEF IInv, TypeOK
<1>1. PICK c \in Arrays : \E e \in Devices :
        /\ copy[c][e] = grant.buf
        /\ \A f \in Devices : f # e => copy[c][f] = NoBuf
  BY DEF GrantCovers
<1>2. \A e \in Devices : e # d => copy[a][e] = NoBuf
  BY <1>1 DEF Exclusive
<1>3. \A c2 \in Arrays \ {a} : \A e \in Devices : copy[c2][e] # grant.buf
  BY DEF Exclusive
<1> QED BY <1>2, <1>3 DEF Puts

-----------------------------------------------------------------------------
\* An action that puts one content into the copies of one array keeps the
\* copies coherent.
LEMMA CoherentFrame ==
  ASSUME Coherent, NEW a \in Arrays, NEW v, Puts(a, v)
  PROVE  Coherent'
BY DEF Coherent, Present, Puts

\* A new copy gets the content of a copy the array had, and what is written
\* is written to an only copy.
LEMMA CoherentStep == IInv /\ [Next]_vars => Coherent'
<1> SUFFICES ASSUME IInv, [Next]_vars PROVE Coherent'
  OBVIOUS
<1>0. Coherent
  BY DEF IInv
<1>1. ASSUME NEW a \in Arrays, Destroy(a) PROVE Coherent'
  BY <1>0, <1>1, DestroyPuts, CoherentFrame
<1>2. ASSUME NEW a \in Arrays, MakePrivateCopy(a) PROVE Coherent'
  BY <1>0, <1>2, DropPuts, CopyPuts, CoherentFrame DEF MakePrivateCopy
<1>3. ASSUME NEW a \in Arrays, NEW d \in Devices, RawSharedTo(a, d)
      PROVE Coherent'
  BY <1>0, <1>3, HitPuts, MissPuts, StagedPuts, CoherentFrame DEF RawSharedTo
<1>4. ASSUME NEW a \in Arrays, NEW d \in Devices, NEW m, KeepOnly(a, d, m)
      PROVE Coherent'
  BY <1>0, <1>4, KeepPuts, CoherentFrame
<1>5. ASSUME NEW a \in Arrays, NEW d \in Devices,
             MovedMiss(a, d) \/ InitMiss(a, d)
      PROVE Coherent'
  BY <1>0, <1>5, ReplacePuts, CoherentFrame DEF MovedMiss, InitMiss
<1>6. ASSUME NEW a \in Arrays, NEW d \in Devices, FailedTransfer(a, d)
      PROVE Coherent'
  BY <1>0, <1>6, FailPuts, CoherentFrame
<1>7. ASSUME NEW a \in Arrays, NEW d \in Devices, NEW src \in Devices,
             NEW b \in Bufs, NEW h \in Bufs, FailedStaged(a, d, src, b, h)
      PROVE Coherent'
  BY <1>0, <1>7, StagedPuts, CoherentFrame
<1>8. ASSUME NEW a \in Arrays, NEW d \in Devices, NEW b \in Bufs,
             NEW v \in Values, MoveFromRaw(a, b, d, v)
      PROVE Coherent'
  BY <1>0, <1>8, MoveInPuts, CoherentFrame
<1>9. ASSUME NEW a \in Arrays, NEW d \in Devices, NEW u \in UserBufs,
             NEW flag \in BOOLEAN, BorrowFromRaw(a, u, d, flag)
      PROVE Coherent'
  BY <1>0, <1>9, BorrowPuts, CoherentFrame
<1>10. CASE UseGrant
  <2>1. CASE grant.atype = "Input"
    BY <1>0, <1>10, <2>1 DEF UseGrant, Coherent, Present
  <2>2. CASE grant.atype # "Input"
    <3>1. PICK v \in Values : data' = [data EXCEPT ![grant.buf] = v]
      BY <1>10, <2>2 DEF UseGrant
    <3>2. PICK a \in Arrays, d \in Devices : copy[a][d] = grant.buf
      BY <1>10 DEF IInv, UseGrant, Idle, GrantCovers
    <3>3. Puts(a, v)
      BY <1>10, <2>2, <3>1, <3>2, WritePuts DEF UseGrant, Idle
    <3> QED BY <1>0, <3>3, CoherentFrame
  <2> QED BY <2>1, <2>2
<1>11. CASE UNCHANGED vars
  BY <1>0, <1>11 DEF vars, Coherent, Present
<1> QED
  BY <1>1, <1>2, <1>3, <1>4, <1>5, <1>6, <1>7, <1>8, <1>9, <1>10, <1>11
     DEF Next, RawMovedTo, RawInitTo

\* Only the pointer in use is written through, and what is freed is the
\* array's own.
LEMMA FilledStep == IInv /\ [Next]_vars => UserFilled'
<1> SUFFICES ASSUME IInv, [Next]_vars PROVE UserFilled'
  OBVIOUS
<1> USE DEF IInv, TypeOK, UserFilled
<1>0. \A u \in UserBufs : u \in AllBufs /\ u \notin Bufs
  BY DEF AllBufs
<1>1. ASSUME NEW a \in Arrays, Destroy(a) PROVE UserFilled'
  BY <1>0, <1>1 DEF Destroy, Forget, Fill, Owned
<1>2. ASSUME NEW a \in Arrays, MakePrivateCopy(a) PROVE UserFilled'
  BY <1>0, <1>2
     DEF MakePrivateCopy, DropBorrowed, CopyBorrowed, Privatize, Fill
<1>3. ASSUME NEW a \in Arrays, NEW d \in Devices, RawSharedTo(a, d)
      PROVE UserFilled'
  BY <1>0, <1>3 DEF RawSharedTo, SharedHit, SharedMiss, SharedStaged, Fill
<1>4. ASSUME NEW a \in Arrays, NEW d \in Devices, NEW m, KeepOnly(a, d, m)
      PROVE UserFilled'
  BY <1>0, <1>4 DEF KeepOnly, Forget, Fill, Owned
<1>5. ASSUME NEW a \in Arrays, NEW d \in Devices,
             MovedMiss(a, d) \/ InitMiss(a, d)
      PROVE UserFilled'
  BY <1>0, <1>5 DEF MovedMiss, InitMiss, ReplaceBy, Forget, Fill, Owned, Free
<1>6. ASSUME NEW a \in Arrays, NEW d \in Devices, FailedTransfer(a, d)
      PROVE UserFilled'
  BY <1>6 DEF FailedTransfer
<1>7. ASSUME NEW a \in Arrays, NEW d \in Devices, NEW src \in Devices,
             NEW b \in Bufs, NEW h \in Bufs, FailedStaged(a, d, src, b, h)
      PROVE UserFilled'
  BY <1>0, <1>7 DEF FailedStaged, Fill
<1>8. ASSUME NEW a \in Arrays, NEW d \in Devices, NEW b \in Bufs,
             NEW v \in Values, MoveFromRaw(a, b, d, v)
      PROVE UserFilled'
  BY <1>0, <1>8 DEF MoveFromRaw, Fill
<1>9. ASSUME NEW a \in Arrays, NEW d \in Devices, NEW u \in UserBufs,
             NEW flag \in BOOLEAN, BorrowFromRaw(a, u, d, flag)
      PROVE UserFilled'
  BY <1>9 DEF BorrowFromRaw
<1>10. CASE UseGrant
  BY <1>0, <1>10 DEF UseGrant
<1>11. CASE UNCHANGED vars
  BY <1>11 DEF vars
<1> QED
  BY <1>1, <1>2, <1>3, <1>4, <1>5, <1>6, <1>7, <1>8, <1>9, <1>10, <1>11
     DEF Next, RawMovedTo, RawInitTo

-----------------------------------------------------------------------------
LEMMA InitIInv == Init => IInv
<1> SUFFICES ASSUME Init PROVE IInv
  OBVIOUS
<1>1. UserFilled
  BY DEF Init, UserFilled, AllBufs, Memory
<1> QED
  BY <1>1 DEF Init, IInv, TypeOK, Exclusive, HeapAccounted, LostApart,
     GrantCovers, BorrowsFromLender, Coherent, Present, Owned, NoCopy, NoGrant,
     AccessType

LEMMA InductiveStep == IInv /\ [Next]_vars => IInv'
BY TypeStep, ExclusiveStep, HeapStep, LostStep, LenderStep, GrantStep,
   CoherentStep, FilledStep DEF IInv

LEMMA Inductive == Spec => []IInv
BY InitIInv, InductiveStep, PTL DEF Spec

\* Every state of the arrays is well typed, whatever requests are served and
\* whichever of them fail (all of driver/array.cc).
THEOREM TypeCorrect == Spec => []TypeOK
<1>1. IInv => TypeOK
  BY DEF IInv
<1> QED BY <1>1, Inductive, PTL

\* No buffer is the copy of two arrays or of two devices, so none is freed
\* twice or used after it was freed through another copy.
THEOREM NoSharing == Spec => []Exclusive
<1>1. IInv => Exclusive
  BY DEF IInv
<1> QED BY <1>1, Inductive, PTL

\* Nothing but a transfer that throws leaks memory.
THEOREM NoLeak == Spec => []HeapAccounted
<1>1. IInv => HeapAccounted
  BY DEF IInv
<1> QED BY <1>1, Inductive, PTL

\* All the copies of an array hold the same content at every moment, so it
\* does not matter which of them a request takes as its source.
THEOREM CopiesAgree == Spec => []Coherent
<1>1. IInv => Coherent
  BY DEF IInv
<1> QED BY <1>1, Inductive, PTL

\* Every buffer of the heap has exactly one owner, for any arrays, devices and
\* failures: driver/array.cc frees each once, and loses none but in a transfer
\* that throws.
THEOREM OwnsEach == Spec => []Ownership
<1>1. Exclusive /\ HeapAccounted => Ownership
  BY DEF Ownership
<1> QED BY <1>1, NoSharing, NoLeak, PTL

-----------------------------------------------------------------------------
\* The arrays implement one tensor each: the mapping takes what an array holds
\* from any of its copies, and the view from the pointer in use.

\* After an action that puts v, the array holds v if it still has a copy, and
\* the others hold what they did.
LEMMA PutsContents ==
  ASSUME NEW a \in Arrays, NEW v, Puts(a, v)
  PROVE  /\ Present(a)' # {} => Contents' = [Contents EXCEPT ![a] = v]
         /\ Present(a)' = {} => Contents' = [Contents EXCEPT ![a] = NoBuf]
<1>1. ASSUME NEW c \in Arrays \ {a} PROVE Content(c)' = Content(c)
  <2>1. Present(c)' = Present(c)
    BY DEF Puts, Present
  <2>2. \A e \in Present(c) : data'[copy'[c][e]] = data[copy[c][e]]
    BY DEF Puts, Present
  <2>3. Present(c) # {} => (CHOOSE d \in Devices : d \in Present(c)) \in Present(c)
    BY DEF Present
  <2> QED BY <2>1, <2>2, <2>3 DEF Content
<1>2. Present(a)' # {} => Content(a)' = v
  <2>1. \A e \in Present(a)' : data'[copy'[a][e]] = v
    BY DEF Puts, Present
  <2>2. Present(a)' # {} =>
          (CHOOSE d \in Devices : d \in Present(a)') \in Present(a)'
    BY DEF Present
  <2> QED BY <2>1, <2>2 DEF Content
<1>3. Present(a)' = {} => Content(a)' = NoBuf
  BY DEF Content
<1> QED BY <1>1, <1>2, <1>3 DEF Contents

\* Putting the content an array has is no change, as long as it has a copy.
LEMMA SameContents ==
  ASSUME NEW a \in Arrays, Puts(a, Content(a)),
         Present(a)' # {} \/ Present(a) = {}
  PROVE  Contents' = Contents
<1>1. Contents = [Contents EXCEPT ![a] = Content(a)]
  BY DEF Contents
<1>2. CASE Present(a)' # {}
  BY <1>1, <1>2, PutsContents
<1>3. CASE Present(a)' = {}
  <2>1. Content(a) = NoBuf
    BY <1>3 DEF Content
  <2> QED BY <1>1, <1>3, <2>1, PutsContents
<1> QED BY <1>2, <1>3

\* An array exists exactly when it has a copy.
LEMMA ContentType ==
  ASSUME TypeOK, NEW a \in Arrays
  PROVE  /\ Contents[a] = Content(a)
         /\ Present(a) # {} => Content(a) \in Memory
         /\ Content(a) # NoBuf <=> Present(a) # {}
<1>1. Present(a) # {} => (CHOOSE d \in Devices : d \in Present(a)) \in Present(a)
  BY DEF Present
<1>2. Present(a) # {} => Content(a) \in Memory
  BY <1>1 DEF Content, Present, TypeOK
<1> QED BY <1>2 DEF Contents, Content, Memory

\* The pointer in use belongs to one array.
LEMMA HolderIs ==
  ASSUME Exclusive, NEW a \in Arrays, NEW d \in Devices,
         grant.buf = copy[a][d], grant.buf # NoBuf
  PROVE  Holder = a
BY DEF Exclusive, Holder

\* A request that puts what the array held shows it.
LEMMA Opens ==
  ASSUME IInv, IInv', Idle, NEW a \in Arrays, NEW d \in Devices,
         NEW m \in AccessType, Present(a) # {}, Puts(a, Content(a)),
         copy'[a][d] # NoBuf, grant' = [buf |-> copy'[a][d], atype |-> m]
  PROVE  OneTensor!Open(a, m)
<1>1. Contents' = Contents
  BY SameContents DEF Present
<1>2. Holder' = a
  BY HolderIs DEF IInv, Exclusive, Holder
<1>3. data'[grant'.buf] = Content(a)
  BY DEF Puts
<1>4. ~Idle'
  BY DEF Idle
<1>5. Shown' = [arr |-> a, atype |-> m, val |-> Contents[a]]
  BY <1>2, <1>3, <1>4 DEF Shown, Contents
<1>6. Contents[a] # NoBuf
  BY ContentType DEF IInv
<1>7. Shown = OneTensor!NoView
  BY DEF Shown, OneTensor!NoView, OneTensor!View
<1> QED BY <1>1, <1>5, <1>6, <1>7 DEF OneTensor!Open, OneTensor!View

\* A step that puts what the array held and hands out nothing is not seen.
LEMMA Unseen ==
  ASSUME Idle, grant' = grant, NEW a \in Arrays, Puts(a, Content(a)),
         Present(a)' # {} \/ Present(a) = {}
  PROVE  UNCHANGED <<Contents, Shown>>
<1>1. Contents' = Contents
  BY SameContents
<1>2. Shown' = Shown
  BY DEF Shown, Idle
<1> QED BY <1>1, <1>2

\* A request that finds no copy to reuse replaces the content, and the error of
\* a dropped borrow leaves the array with the new content and no pointer.
LEMMA Replaces ==
  ASSUME IInv, IInv', Idle, NEW a \in Arrays, NEW d \in Devices,
         NEW b \in Free, NEW v, NEW m \in AccessType, ReplaceBy(a, d, b, v, m)
  PROVE  /\ Contents' = [Contents EXCEPT ![a] = v]
         /\ Shown' \in {OneTensor!View(a, m, v), OneTensor!NoView}
<1> USE DEF IInv, TypeOK
<1>1. Puts(a, v)
  BY ReplacePuts
<1>2. copy'[a][d] = b /\ b # NoBuf
  BY DEF ReplaceBy, Only, Free
<1>3. Contents' = [Contents EXCEPT ![a] = v]
  BY <1>1, <1>2, PutsContents DEF Present
<1> HIDE DEF IInv, TypeOK
<1>4. CASE grant' = NoGrant
  <2>1. Idle'
    BY <1>4 DEF Idle, NoGrant
  <2> QED BY <1>3, <2>1 DEF Shown, OneTensor!NoView, OneTensor!View
<1>5. CASE grant' = [buf |-> b, atype |-> m]
  <2>1. Holder' = a
    BY <1>2, <1>5 DEF IInv, Exclusive, Holder
  <2>2. data'[b] = v
    BY <1>1, <1>2 DEF Puts
  <2>3. ~Idle' /\ grant'.buf = b /\ grant'.atype = m
    BY <1>2, <1>5 DEF Idle
  <2> QED BY <1>3, <2>1, <2>2, <2>3 DEF Shown, OneTensor!View
<1> QED BY <1>3, <1>4, <1>5 DEF ReplaceBy

\* One step per action: what the tensor does meanwhile.
LEMMA TensorStep ==
  IInv /\ IInv' /\ [Next]_vars => [OneTensor!Next]_(OneTensor!vars)
<1> SUFFICES ASSUME IInv, IInv', [Next]_vars
             PROVE  OneTensor!Next \/ UNCHANGED <<Contents, Shown>>
  BY DEF OneTensor!vars
<1> USE DEF IInv, TypeOK
<1>0. /\ OneTensor!Modes = AccessType
      /\ Idle => Shown = OneTensor!NoView
  BY DEF OneTensor!Modes, AccessType, Shown, OneTensor!NoView, OneTensor!View
<1>1. ASSUME NEW a \in Arrays, Destroy(a) PROVE OneTensor!Destroy(a)
  <2>1. Contents' = [Contents EXCEPT ![a] = NoBuf]
    BY <1>1, DestroyPuts, PutsContents DEF Destroy, Present, NoCopy
  <2>2. Shown' = Shown /\ Shown = OneTensor!NoView
    BY <1>0, <1>1 DEF Destroy, Shown, Idle
  <2> QED BY <1>1, <2>1, <2>2, ContentType DEF Destroy, OneTensor!Destroy
<1>2. ASSUME NEW a \in Arrays, MakePrivateCopy(a)
      PROVE  UNCHANGED <<Contents, Shown>>
  <2>1. CASE DropBorrowed(a)
    <3>1. PICK d \in Devices : copy[a][d] \in Bufs
      BY <2>1 DEF DropBorrowed, Owned
    <3>2. copy'[a][d] = copy[a][d]
      BY <2>1, <3>1 DEF DropBorrowed, Privatize
    <3>3. Present(a)' # {}
      BY <3>1, <3>2 DEF Present
    <3> QED BY <2>1, <3>3, DropPuts, Unseen DEF DropBorrowed, Privatize
  <2>2. ASSUME NEW src \in Devices, NEW b \in Bufs, CopyBorrowed(a, src, b)
        PROVE  UNCHANGED <<Contents, Shown>>
    <3>1. Present(a)' # {}
      BY <2>2 DEF CopyBorrowed, Privatize, Present, Only
    <3> QED BY <2>2, <3>1, CopyPuts, Unseen DEF CopyBorrowed, Privatize
  <2> QED BY <1>2, <2>1, <2>2 DEF MakePrivateCopy
<1>3. ASSUME NEW a \in Arrays, NEW d \in Devices, RawSharedTo(a, d)
      PROVE  OneTensor!Open(a, "Input")
  <2>0. "Input" \in AccessType
    BY DEF AccessType
  <2>1. CASE SharedHit(a, d)
    <3>1. /\ Idle /\ Present(a) # {} /\ copy'[a][d] # NoBuf
          /\ grant' = [buf |-> copy'[a][d], atype |-> "Input"]
      BY <2>1 DEF SharedHit, Present
    <3> QED BY <2>0, <2>1, <3>1, HitPuts, Opens
  <2>2. ASSUME NEW src \in Devices, NEW b \in Bufs, SharedMiss(a, d, src, b)
        PROVE  OneTensor!Open(a, "Input")
    <3>1. /\ Idle /\ Present(a) # {} /\ copy'[a][d] # NoBuf
          /\ grant' = [buf |-> copy'[a][d], atype |-> "Input"]
      BY <2>2 DEF SharedMiss, Present, Sources
    <3> QED BY <2>0, <2>2, <3>1, MissPuts, Opens
  <2>3. ASSUME NEW src \in Devices, NEW b \in Bufs, NEW h \in Bufs,
               SharedStaged(a, d, src, b, h)
        PROVE  OneTensor!Open(a, "Input")
    <3>1. /\ Idle /\ Present(a) # {} /\ copy'[a][d] # NoBuf
          /\ grant' = [buf |-> copy'[a][d], atype |-> "Input"]
      BY <2>3 DEF SharedStaged, Present, Sources
    <3> QED BY <2>0, <2>3, <3>1, StagedPuts, Opens
  <2> QED BY <1>3, <2>1, <2>2, <2>3 DEF RawSharedTo
<1>4. ASSUME NEW a \in Arrays, NEW d \in Devices, NEW m \in AccessType,
             KeepOnly(a, d, m)
      PROVE  OneTensor!Open(a, m)
  <2>1. Idle /\ Present(a) # {} /\ copy'[a][d] # NoBuf
    BY <1>4 DEF KeepOnly, Present, Only
  <2>2. grant' = [buf |-> copy'[a][d], atype |-> m]
    BY <1>4 DEF KeepOnly, Only
  <2> QED BY <1>4, <2>1, <2>2, KeepPuts, Opens
<1>5. ASSUME NEW a \in Arrays, NEW d \in Devices, MovedMiss(a, d)
      PROVE  OneTensor!Open(a, "InOut") \/ UNCHANGED <<Contents, Shown>>
  <2>1. PICK src \in Sources(a, d), b \in Free :
               ReplaceBy(a, d, b, data[copy[a][src]], "InOut")
    BY <1>5 DEF MovedMiss
  <2>2. data[copy[a][src]] = Content(a)
    BY ContentIs DEF Sources, Present
  <2>3. Idle /\ Present(a) # {} /\ "InOut" \in AccessType
    BY <1>5 DEF MovedMiss, AccessType
  <2>4. /\ Contents' = [Contents EXCEPT ![a] = Content(a)]
        /\ Shown' \in {OneTensor!View(a, "InOut", Content(a)),
                       OneTensor!NoView}
    BY <2>1, <2>2, <2>3, Replaces
  <2>5. Contents' = Contents
    BY <2>4 DEF Contents
  <2>6. Contents[a] = Content(a) /\ Contents[a] # NoBuf
    BY <2>3, ContentType
  <2> QED BY <1>0, <2>3, <2>4, <2>5, <2>6 DEF OneTensor!Open
<1>6. ASSUME NEW a \in Arrays, NEW d \in Devices, InitMiss(a, d)
      PROVE  OneTensor!Overwrite(a)
  <2>1. PICK b \in Free : ReplaceBy(a, d, b, Undef, "Output")
    BY <1>6 DEF InitMiss
  <2>2. Idle /\ Present(a) # {} /\ "Output" \in AccessType
    BY <1>6 DEF InitMiss, AccessType
  <2>3. /\ Contents' = [Contents EXCEPT ![a] = Undef]
        /\ Shown' \in {OneTensor!View(a, "Output", Undef), OneTensor!NoView}
    BY <2>1, <2>2, Replaces
  <2> QED BY <1>0, <2>2, <2>3, ContentType DEF OneTensor!Overwrite
<1>7. ASSUME NEW a \in Arrays, NEW d \in Devices, FailedTransfer(a, d)
      PROVE  UNCHANGED <<Contents, Shown>>
  <2>1. Idle /\ grant' = grant /\ Present(a)' # {}
    BY <1>7 DEF FailedTransfer, Present
  <2> QED BY <1>7, <2>1, FailPuts, Unseen
<1>8. ASSUME NEW a \in Arrays, NEW d \in Devices, NEW src \in Devices,
             NEW b \in Bufs, NEW h \in Bufs, FailedStaged(a, d, src, b, h)
      PROVE  UNCHANGED <<Contents, Shown>>
  <2>1. Idle /\ grant' = grant /\ Present(a)' # {}
    BY <1>8 DEF FailedStaged, Present
  <2> QED BY <1>8, <2>1, StagedPuts, Unseen
<1>9. ASSUME NEW a \in Arrays, NEW v \in Values, NEW d \in Devices,
             Puts(a, v), Idle, grant' = grant, Present(a) = {},
             copy'[a][d] # NoBuf
      PROVE  OneTensor!Create(a, v)
  <2>1. Contents' = [Contents EXCEPT ![a] = v]
    BY <1>9, PutsContents DEF Present
  <2>2. Contents[a] = NoBuf
    BY <1>9, ContentType
  <2>3. Shown' = Shown
    BY <1>9 DEF Shown, Idle
  <2> QED BY <1>0, <1>9, <2>1, <2>2, <2>3 DEF OneTensor!Create
<1>10. ASSUME NEW a \in Arrays, NEW d \in Devices, NEW b \in Bufs,
              NEW v \in Values, MoveFromRaw(a, b, d, v)
       PROVE  OneTensor!Create(a, v)
  <2>1. /\ Idle /\ grant' = grant /\ Present(a) = {}
        /\ copy'[a][d] # NoBuf
    BY <1>10 DEF MoveFromRaw, Only
  <2> QED BY <1>9, <1>10, <2>1, MoveInPuts
<1>11. ASSUME NEW a \in Arrays, NEW d \in Devices, NEW u \in UserBufs,
              NEW flag \in BOOLEAN, BorrowFromRaw(a, u, d, flag)
       PROVE  OneTensor!Create(a, data[u])
  <2>1. data[u] \in Values
    BY DEF UserFilled
  <2>2. /\ Idle /\ grant' = grant /\ Present(a) = {}
        /\ copy'[a][d] # NoBuf
    BY <1>11 DEF BorrowFromRaw, Only
  <2> QED BY <1>9, <1>11, <2>1, <2>2, BorrowPuts
<1>12. CASE UseGrant
  <2>1. PICK a \in Arrays, d \in Devices : copy[a][d] = grant.buf
    BY <1>12 DEF UseGrant, Idle, GrantCovers
  <2>2. grant.buf # NoBuf /\ Holder = a
    BY <1>12, <2>1, HolderIs DEF UseGrant, Idle
  <2>3. /\ Shown # OneTensor!NoView
        /\ Shown.atype = grant.atype /\ Shown.arr = a
    BY <2>1, <2>2 DEF Shown, Idle, OneTensor!NoView, OneTensor!View, Memory
  <2>4. Shown' = OneTensor!NoView
    BY <1>12 DEF UseGrant, Shown, Idle, NoGrant, OneTensor!NoView,
                 OneTensor!View
  <2>5. CASE grant.atype = "Input"
    <3>1. copy' = copy /\ data' = data
      BY <1>12, <2>5 DEF UseGrant
    <3>2. Contents' = Contents
      BY <3>1 DEF Contents, Content, Present
    <3> QED BY <2>3, <2>4, <2>5, <3>2 DEF OneTensor!Use, OneTensor!Next
  <2>6. CASE grant.atype # "Input"
    <3>1. PICK v \in Values : data' = [data EXCEPT ![grant.buf] = v]
      BY <1>12, <2>6 DEF UseGrant
    <3>2. copy' = copy
      BY <1>12 DEF UseGrant
    <3>3. Puts(a, v)
      BY <2>1, <2>2, <2>6, <3>1, <3>2, WritePuts
    <3>4. Contents' = [Contents EXCEPT ![a] = v]
      BY <2>1, <2>2, <3>2, <3>3, PutsContents DEF Present
    <3> QED BY <2>3, <2>4, <2>6, <3>4 DEF OneTensor!Use, OneTensor!Next
  <2> QED BY <2>5, <2>6
<1>13. CASE UNCHANGED vars
  BY <1>13 DEF vars, Contents, Content, Present, Shown, Idle, Holder
<1> HIDE DEF IInv, TypeOK
<1>14. ASSUME NEW a \in Arrays,
              \/ \E v \in Values : OneTensor!Create(a, v)
              \/ OneTensor!Destroy(a)
              \/ \E m \in AccessType : OneTensor!Open(a, m)
              \/ OneTensor!Overwrite(a)
       PROVE  OneTensor!Next
  BY <1>0, <1>14 DEF OneTensor!Next
<1>15. {"Input", "Output", "InOut"} = AccessType
  BY DEF AccessType
<1>16. ASSUME NEW a \in Arrays, NEW d \in Devices,
              \/ RawSharedTo(a, d)
              \/ RawMovedTo(a, d)
              \/ RawInitTo(a, d)
       PROVE  OneTensor!Next \/ UNCHANGED <<Contents, Shown>>
  BY <1>3, <1>4, <1>5, <1>6, <1>14, <1>15, <1>16 DEF RawMovedTo, RawInitTo
<1>17. ASSUME NEW a \in Arrays, NEW d \in Devices,
              \/ FailedTransfer(a, d)
              \/ \E src \in Devices, b, h \in Bufs : FailedStaged(a, d, src, b, h)
              \/ \E b \in Bufs, v \in Values : MoveFromRaw(a, b, d, v)
              \/ \E u \in UserBufs, flag \in BOOLEAN : BorrowFromRaw(a, u, d, flag)
       PROVE  OneTensor!Next \/ UNCHANGED <<Contents, Shown>>
  <2>1. \A u \in UserBufs : data[u] \in Values
    BY DEF IInv, UserFilled
  <2> QED BY <1>7, <1>8, <1>10, <1>11, <1>14, <1>17, <2>1
<1> QED
  BY <1>1, <1>2, <1>12, <1>13, <1>14, <1>16, <1>17 DEF Next

LEMMA TensorInit == Init => OneTensor!Init
BY DEF Init, NoCopy, NoGrant, OneTensor!Init, OneTensor!NoView,
       OneTensor!View, Contents, Content, Present, Shown, Idle

\* An Array is one tensor, for any number of arrays, devices and buffers and
\* whatever requests fail: each step of driver/array.cc is a step of module
\* Tensor under the mapping of OneTensor, or is not seen.
THEOREM Implements == Spec => ImplementsTensor
<1>1. Spec => OneTensor!Init
  BY TensorInit DEF Spec
<1>2. IInv /\ IInv' /\ [Next]_vars => [OneTensor!Next]_(OneTensor!vars)
  BY TensorStep
<1> QED BY <1>1, <1>2, Inductive, PTL DEF Spec, ImplementsTensor, OneTensor!Spec
=============================================================================
