---------------------------- MODULE DriverProofs ----------------------------
(***************************************************************************)
(* Proofs about module Driver, for any functions, Arrays, closures and     *)
(* liberties of the callers.                                               *)
(*                                                                         *)
(* The argument: an argument is held by the Driver it was given to (Holds) *)
(* so its copies stay, and unless a liberty was taken only one Driver is   *)
(* between set_args and collect_returns (OneAtATime), so nothing but its   *)
(* own requests moves them; and these leave the copy that a parameter of   *)
(* the same device got.  A pointer that was taken from a closure stays     *)
(* good because no function writes a closure it reads (OwnClosures), and   *)
(* what is in a closure is held by the Driver that put it there            *)
(* (ClosuresHeld).                                                         *)
(***************************************************************************)
EXTENDS Driver, TLAPS

\* The Drivers between set_args and collect_returns.
Calls(d) == call # NoCall /\ call.drv = d
Active(d) == d \in Loaded \/ Calls(d)

\* The parameters whose arguments set_args has taken.
Todo(d) == IF Calls(d) THEN call.todo ELSE {}
Served(d) == DOMAIN given[d] \ Todo(d)

Mem == Bufs \cup UserBufs \cup {NoBuf}
CallType == [drv : Drivers, todo : SUBSET Nat, next : Nat, pos : SUBSET Nat]

DriverType(d) ==
  /\ args[d] \in [PIds(d) -> Arrays \cup {NoArray}]
  /\ raw[d] \in [PIds(d) -> Mem]
  /\ rets[d] \in [RIds(d) -> Bufs \cup {NoBuf}]
  /\ DOMAIN given[d] \subseteq PIds(d)
  /\ \A i \in DOMAIN given[d] : given[d][i] \in Arrays

TypeOK ==
  /\ copy \in [Arrays -> [Devices -> Mem]]
  /\ closure \in [Closures -> Arrays \cup {NoArray}]
  /\ kept \subseteq Arrays
  /\ holder \in [Drivers -> SUBSET Arrays]
  /\ state \in [Drivers -> {"idle", "ready", "ran", "deleted"}]
  /\ DOMAIN args = Drivers /\ DOMAIN raw = Drivers
  /\ DOMAIN rets = Drivers /\ DOMAIN given = Drivers
  /\ \A d \in Drivers : DriverType(d)
  /\ call \in CallType \cup {NoCall}
  /\ call # NoCall => /\ call.todo \subseteq DOMAIN given[call.drv]
                      /\ state[call.drv] = "idle"

-----------------------------------------------------------------------------
\* An Array that nobody refers to has been destroyed.
DeadEmpty == \A a \in Arrays \ Live : copy[a] = NoCopy

\* The memory that was allocated has one owner: one copy of an Array ...
CopiesApart ==
  \A a, b \in Arrays : \A d, e \in Devices :
    copy[a][d] = copy[b][e] /\ copy[a][d] \in Bufs => a = b /\ d = e

\* ... or one return of a Driver.
ReturnsApart ==
  \A d \in Drivers : \A i \in RIds(d) : rets[d][i] # NoBuf =>
    /\ \A a \in Arrays : \A e \in Devices : copy[a][e] # rets[d][i]
    /\ \A e \in Drivers : \A j \in RIds(e) :
         rets[e][j] = rets[d][i] => e = d /\ j = i

Owned == DeadEmpty /\ CopiesApart /\ ReturnsApart

-----------------------------------------------------------------------------
\* What was given to a Driver is held by it, and forgotten with the call.
Holds ==
  \A d \in Drivers :
    /\ \A i \in DOMAIN given[d] : given[d][i] \in holder[d]
    /\ ~Active(d) => DOMAIN given[d] = {}
    /\ Served(d) \subseteq Settable(d)

\* A parameter whose turn has come has its pointer.
HasPointer ==
  \A d \in Drivers : \A i \in Used(d) :
    \/ i \in Served(d)
    \/ d \in Loaded
    \/ Calls(d) /\ i < call.next
    => raw[d][i] # NoBuf

OneAtATime ==
  "interleave" \notin taken =>
    \A d, e \in Drivers : Active(d) /\ Active(e) => d = e

\* The pointer of an argument is to its copy on the device of the parameter.
PointsToGiven ==
  taken \cap {"interleave", "alias"} = {} =>
    \A d \in Drivers : \A i \in Served(d) \cap Used(d) :
      raw[d][i] = copy[given[d][i]][Params[d][i].dev]

\* So is the pointer of a parameter that took what is in its closure.
PointsToClosure ==
  taken \subseteq {"delete"} =>
    \A d \in Drivers :
      IF Active(d)
      THEN /\ DOMAIN given[d] = Settable(d)
           /\ \A i \in Used(d) \ Settable(d) : raw[d][i] # NoBuf =>
                LET c == Params[d][i].closure IN
                /\ closure[c] # NoArray
                /\ raw[d][i] = copy[closure[c]][Params[d][i].dev]
      ELSE raw[d] = Cleared(d)

\* An argument is in the closure it updates.
InItsClosure ==
  removed = {} =>
  \A d \in Drivers : \A i \in Served(d) :
    LET c == Params[d][i].closure IN
    /\ c # NoClosure
    /\ "interleave" \in taken => \A e \in Drivers \ {d} : c \notin Writes(e)
    => closure[c] = given[d][i]

-----------------------------------------------------------------------------
\* An Array without user memory needs no Python object.
Native(a) == \A d \in Devices : copy[a][d] \notin UserBufs

\* What is in a closure is held by the Driver that put it there, or about to
\* be replaced.
EnclosedHeld ==
  \A c \in Closures :
    \/ closure[c] = NoArray
    \/ Native(closure[c])
    \/ \E d \in Drivers : c \in Writes(d) /\ (closure[c] \in holder[d] \/ Active(d))

\* What an argument put into a closure is held already.
ServedHeld ==
  \A d \in Drivers : \A i \in Served(d) :
    InClosure(Params[d][i]) =>
      closure[Params[d][i].closure] \in holder[d] \cup {NoArray}

\* So is what args_ refers to, once its parameter is served.
ArgsHeld ==
  \A d \in Drivers : \A i \in PIds(d) : args[d][i] # NoArray =>
    /\ i \in Settable(d) \cap Used(d)
    /\ i \in Todo(d) \/ args[d][i] \in holder[d]

ClosuresHeld == taken = {} => EnclosedHeld /\ ServedHeld /\ ArgsHeld

IInv ==
  /\ TypeOK
  /\ Owned
  /\ Holds
  /\ HasPointer
  /\ OneAtATime
  /\ PointsToGiven
  /\ PointsToClosure
  /\ InItsClosure
  /\ ClosuresHeld

-----------------------------------------------------------------------------
\* Who keeps an Array.
LiveMeans ==
  \A a \in Arrays : a \in Live <=>
    \/ a \in kept
    \/ \E d \in Drivers : a \in holder[d]
    \/ \E d \in Drivers : \E i \in PIds(d) : args[d][i] = a
    \/ \E c \in Closures : closure[c] = a

LEMMA LiveIs == TypeOK => LiveMeans
<1> SUFFICES ASSUME TypeOK, NEW a \in Arrays
             PROVE  a \in Live <=>
                      \/ a \in kept
                      \/ \E d \in Drivers : a \in holder[d]
                      \/ \E d \in Drivers : \E i \in PIds(d) : args[d][i] = a
                      \/ \E c \in Closures : closure[c] = a
  BY DEF LiveMeans
<1>1. a \in PyAlive <=> a \in kept \/ \E d \in Drivers : a \in holder[d]
  BY DEF PyAlive
<1>2. ASSUME NEW d \in Drivers
      PROVE  a \in Image(args[d]) <=> \E i \in PIds(d) : args[d][i] = a
  <2>1. DOMAIN args[d] = PIds(d)
    BY DEF TypeOK, DriverType
  <2> QED BY <2>1 DEF Image
<1>3. a \in Image(closure) <=> \E c \in Closures : closure[c] = a
  BY DEF Image, TypeOK
<1>4. a # NoArray
  BY DriverAssumption
<1>5. a \in All(args) <=>
        \E d \in Drivers : \E i \in PIds(d) : args[d][i] = a
  BY <1>2 DEF All, TypeOK
<1> QED BY <1>1, <1>3, <1>4, <1>5 DEF Live

LEMMA LiveNext == TypeOK' => LiveMeans'
BY LiveIs, PTL

\* The parameters are what FuncAssumption says.
LEMMA ParamIs ==
  ASSUME NEW d \in Drivers, NEW i \in PIds(d)
  PROVE  Params[d][i] \in Param
BY FuncAssumption DEF PIds

LEMMA DevIs ==
  ASSUME NEW d \in Drivers, NEW i \in PIds(d)
  PROVE  Params[d][i].dev \in Devices
BY ParamIs DEF Param

LEMMA ClosureIs ==
  ASSUME NEW d \in Drivers, NEW i \in PIds(d), InClosure(Params[d][i])
  PROVE  Params[d][i].closure \in Closures
BY ParamIs DEF Param, InClosure

\* The copies of an Array after a request: the others stay or are dropped.
LEMMA RequestedIs ==
  ASSUME NEW cp \in [Devices -> Mem], NEW p \in Param, NEW b \in Bufs
  PROVE  /\ Requested(cp, p, b) \in [Devices -> Mem]
         /\ Requested(cp, p, b)[p.dev] # NoBuf
         /\ cp[p.dev] # NoBuf => Requested(cp, p, b)[p.dev] = cp[p.dev]
         /\ \A e \in Devices :
              \/ Requested(cp, p, b)[e] \in {cp[e], NoBuf}
              \/ e = p.dev /\ Requested(cp, p, b)[e] = b
<1>1. p.dev \in Devices /\ NoBuf \notin Bufs
  BY DriverAssumption DEF Param
<1>2. NoCopy \in [Devices -> Mem]
  BY DEF NoCopy, Mem
<1>3. NoBuf \in Mem /\ b \in Mem
  BY DEF Mem
<1>4. CASE p.atype = "Input"
  BY <1>1, <1>3, <1>4 DEF Requested
<1>5. CASE p.atype # "Input"
  BY <1>1, <1>2, <1>3, <1>5 DEF Requested, Only, NoCopy
<1> QED BY <1>4, <1>5

\* A buffer that is free is nobody's.
LEMMA FreshIs ==
  ASSUME TypeOK, NEW b \in FreshBufs
  PROVE  /\ b \in Bufs
         /\ \A a \in Arrays : \A e \in Devices : copy[a][e] # b
         /\ \A d \in Drivers : \A i \in RIds(d) : rets[d][i] # b
<1>1. b \in Bufs /\ b \notin InUse
  BY DEF FreshBufs
<1>2. ASSUME NEW a \in Arrays, NEW e \in Devices PROVE copy[a][e] \in InUse
  <2>1. copy[a][e] \in Image(copy[a])
    BY DEF TypeOK, Image
  <2>2. copy[a][e] \in All(copy)
    BY <2>1 DEF All, TypeOK
  <2> QED BY <2>2 DEF InUse
<1>3. ASSUME NEW d \in Drivers, NEW i \in RIds(d) PROVE rets[d][i] \in InUse
  <2>1. rets[d][i] \in Image(rets[d])
    BY DEF TypeOK, DriverType, Image
  <2>2. rets[d][i] \in All(rets)
    BY <2>1 DEF All, TypeOK
  <2> QED BY <2>2 DEF InUse
<1> QED BY <1>1, <1>2, <1>3

LEMMA NoCopyType == NoCopy \in [Devices -> Mem]
BY DEF NoCopy, Mem

LEMMA OnlyIs ==
  ASSUME NEW dev \in Devices, NEW b \in Mem
  PROVE  /\ Only(dev, b) \in [Devices -> Mem]
         /\ \A e \in Devices : Only(dev, b)[e] = IF e = dev THEN b ELSE NoBuf
BY NoCopyType DEF Only, NoCopy

LEMMA SurvivorsType ==
  ASSUME NEW cp \in [Arrays -> [Devices -> Mem]]
  PROVE  Survivors(cp) \in [Arrays -> [Devices -> Mem]]
BY NoCopyType DEF Survivors

LEMMA NothingGiven == DOMAIN <<>> = {}
OBVIOUS

\* A request for the pointer of parameter i of Driver d.
LEMMA StoreType ==
  ASSUME TypeOK, NEW d \in Drivers, NEW i \in PIds(d), NEW a \in Arrays,
         NEW b \in FreshBufs, Store(d, i, a, b)
  PROVE  /\ copy' \in [Arrays -> [Devices -> Mem]]
         /\ DOMAIN args' = Drivers /\ DOMAIN raw' = Drivers
         /\ \A e \in Drivers : /\ args'[e] \in [PIds(e) -> Arrays \cup {NoArray}]
                               /\ raw'[e] \in [PIds(e) -> Mem]
<1> DEFINE cp == Requested(copy[a], Params[d][i], b)
<1>1. cp \in [Devices -> Mem]
  BY ParamIs, FreshIs, RequestedIs DEF TypeOK
<1>2. cp[Params[d][i].dev] \in Mem
  BY <1>1, DevIs
<1>3. copy' = Survivors([copy EXCEPT ![a] = cp])
  BY DEF Store
<1>4. [copy EXCEPT ![a] = cp] \in [Arrays -> [Devices -> Mem]]
  BY <1>1 DEF TypeOK
<1>5. copy' \in [Arrays -> [Devices -> Mem]]
  BY <1>3, <1>4, SurvivorsType
<1>6. raw' = [raw EXCEPT ![d] = [@ EXCEPT ![i] = cp[Params[d][i].dev]]]
  BY DEF Store
<1>7. args' = [args EXCEPT ![d] = [@ EXCEPT ![i] = a]]
  BY DEF Store
<1> QED BY <1>2, <1>5, <1>6, <1>7 DEF TypeOK, DriverType

-----------------------------------------------------------------------------
\* A parameter whose turn has come, in a call that is running.
LEMMA TurnIs ==
  ASSUME TypeOK, NEW i, Turn(i)
  PROVE  /\ call \in CallType /\ call.drv \in Drivers
         /\ i \in call.todo /\ i \in DOMAIN given[call.drv]
         /\ i \in PIds(call.drv)
         /\ Given(i) \in Arrays
         /\ state[call.drv] = "idle"
BY DEF TypeOK, DriverType, Turn, Given, CallType

LEMMA EndIs ==
  ASSUME TypeOK, NEW i, AtEnd(i)
  PROVE  call \in CallType /\ call.drv \in Drivers
BY DEF TypeOK, AtEnd, CallType

\* What a step on one parameter leaves of the call.
LEMMA ServedType ==
  ASSUME TypeOK, NEW i, Turn(i), call' = [call EXCEPT !.todo = @ \ {i}],
         given' = given, state' = state
  PROVE  /\ call' \in CallType
         /\ call'.todo \subseteq DOMAIN given'[call'.drv]
         /\ state'[call'.drv] = "idle"
<1>1. /\ call \in CallType /\ call.todo \subseteq DOMAIN given[call.drv]
      /\ state[call.drv] = "idle"
  BY TurnIs DEF TypeOK, Turn
<1>2. call.todo \ {i} \in SUBSET Nat
  BY <1>1 DEF CallType
<1>3. call' = [drv |-> call.drv, todo |-> call.todo \ {i}, next |-> call.next,
               pos |-> call.pos]
  BY <1>1 DEF CallType
<1>4. call' \in CallType
  BY <1>1, <1>2, <1>3 DEF CallType
<1> QED BY <1>1, <1>3, <1>4

LEMMA TypeStep == TypeOK /\ [Next]_vars => TypeOK'
<1> SUFFICES ASSUME TypeOK, [Next]_vars PROVE TypeOK'
  OBVIOUS
<1>1. ASSUME NEW a \in Arrays, NEW u \in UserBufs, UserBorrows(a, u)
      PROVE  TypeOK'
  <2>1. Only(HostCPU, u) \in [Devices -> Mem]
    BY DriverAssumption, OnlyIs DEF Mem
  <2> QED BY <1>1, <2>1 DEF UserBorrows, TypeOK, DriverType
<1>2. ASSUME NEW a \in Arrays, UserDrops(a) PROVE TypeOK'
  BY <1>2, SurvivorsType DEF UserDrops, TypeOK, DriverType
<1>3. ASSUME NEW d \in Drivers, SetArgs(d) PROVE TypeOK'
  <2>1. PICK s \in SUBSET PIds(d) :
          \E pos \in Positional(d, s), g \in [s -> kept] :
            /\ given' = [given EXCEPT ![d] = g]
            /\ holder' = [holder EXCEPT ![d] = Held(g)]
            /\ call' = [drv |-> d, todo |-> s, next |-> 1, pos |-> pos]
    BY <1>3 DEF SetArgs
  <2>2. PICK pos \in Positional(d, s), g \in [s -> kept] :
          /\ given' = [given EXCEPT ![d] = g]
          /\ holder' = [holder EXCEPT ![d] = Held(g)]
          /\ call' = [drv |-> d, todo |-> s, next |-> 1, pos |-> pos]
    BY <2>1
  <2>3. Held(g) \subseteq Arrays
    BY DEF Held, Image, TypeOK
  <2>4. call' \in CallType
    BY <2>2 DEF CallType, Positional, PIds
  <2>5. copy' \in [Arrays -> [Devices -> Mem]]
    BY <1>3, SurvivorsType DEF SetArgs, TypeOK
  <2>6. /\ UNCHANGED <<closure, kept, args, raw, rets>>
        /\ state' = [state EXCEPT ![d] = "idle"]
    BY <1>3 DEF SetArgs
  <2> QED BY <2>2, <2>3, <2>4, <2>5, <2>6 DEF TypeOK, DriverType
<1>4. ASSUME NEW d \in Drivers, Run(d) PROVE TypeOK'
  <2> DEFINE new == {i \in Allocated(d) : rets[d][i] = NoBuf}
  <2>1. PICK f \in [new -> FreshBufs] :
          rets' = [rets EXCEPT ![d] = [i \in RIds(d) |->
                                        IF i \in new THEN f[i] ELSE @[i]]]
    BY <1>4 DEF Run
  <2>2. \A e \in Drivers : rets'[e] \in [RIds(e) -> Bufs \cup {NoBuf}]
    BY <2>1 DEF TypeOK, DriverType, FreshBufs
  <2>3. DOMAIN rets' = Drivers
    BY <2>1 DEF TypeOK
  <2>4. /\ UNCHANGED <<copy, closure, kept, holder, args, raw, given, call>>
        /\ call = NoCall /\ state' = [state EXCEPT ![d] = "ran"]
    BY <1>4 DEF Run
  <2> QED BY <2>2, <2>3, <2>4 DEF TypeOK, DriverType
<1>5. ASSUME NEW d \in Drivers, Collect(d) PROVE TypeOK'
  <2>1. PICK new \in [Allocated(d) -> Arrays \ Live] :
          LET val == [i \in RIds(d) |-> IF i \in Allocated(d) THEN new[i]
                                        ELSE args[d][Returns[d][i].arg]]
              own == {i \in RIds(d) : ~InClosure(Returns[d][i]) \/ Returns[d][i].give}
          IN
          /\ closure' = [c \in Closures |->
                           IF \E i \in RIds(d) : Returns[d][i].closure = c
                           THEN val[CHOOSE i \in RIds(d) : Returns[d][i].closure = c]
                           ELSE closure[c]]
          /\ kept' = kept \cup ({val[i] : i \in own} \ {NoArray})
          /\ copy' = Survivors([a \in Arrays |->
                        IF a \in Image(new)
                        THEN Only(Dev[d], rets[d][CHOOSE i \in Allocated(d) : new[i] = a])
                        ELSE copy[a]])
    BY <1>5 DEF Collect
  <2> DEFINE val == [i \in RIds(d) |-> IF i \in Allocated(d) THEN new[i]
                                       ELSE args[d][Returns[d][i].arg]]
  <2>2. ASSUME NEW i \in RIds(d) PROVE val[i] \in Arrays \cup {NoArray}
    <3>1. CASE i \in Allocated(d)
      BY <3>1
    <3>2. CASE i \notin Allocated(d)
      <4>1. Returns[d][i].arg \in PIds(d)
        BY <3>2, FuncAssumption DEF Allocated, PIds
      <4> QED BY <3>2, <4>1 DEF TypeOK, DriverType
    <3> QED BY <3>1, <3>2
  <2>3. closure' \in [Closures -> Arrays \cup {NoArray}]
    BY <2>1, <2>2 DEF TypeOK
  <2>4. kept' \subseteq Arrays
    BY <2>1, <2>2 DEF TypeOK
  <2>5. ASSUME NEW a \in Image(new)
        PROVE  Only(Dev[d], rets[d][CHOOSE i \in Allocated(d) : new[i] = a])
                 \in [Devices -> Mem]
    <3>1. (CHOOSE i \in Allocated(d) : new[i] = a) \in Allocated(d)
      BY DEF Image
    <3>2. rets[d][CHOOSE i \in Allocated(d) : new[i] = a] \in Mem
      BY <3>1 DEF TypeOK, DriverType, Allocated, Mem
    <3> QED BY <3>2, OnlyIs, FuncAssumption
  <2> DEFINE cp == [a \in Arrays |->
                     IF a \in Image(new)
                     THEN Only(Dev[d], rets[d][CHOOSE i \in Allocated(d) : new[i] = a])
                     ELSE copy[a]]
  <2>9. cp \in [Arrays -> [Devices -> Mem]]
    BY <2>5 DEF TypeOK
  <2>6. copy' \in [Arrays -> [Devices -> Mem]]
    BY <2>1, <2>9, SurvivorsType
  <2>7. /\ raw' = [raw EXCEPT ![d] = Cleared(d)]
        /\ rets' = [rets EXCEPT ![d] = Emptied(d)]
        /\ state' = [state EXCEPT ![d] = "idle"]
        /\ given' = [given EXCEPT ![d] = <<>>]
        /\ args' = [args EXCEPT ![d] = [i \in PIds(d) |-> NoArray]]
        /\ UNCHANGED <<holder, call>> /\ call = NoCall
    BY <1>5 DEF Collect
  <2>8. \A e \in Drivers : DriverType(e)'
    BY <2>7, NothingGiven DEF TypeOK, DriverType, Cleared, Emptied, Mem
  <2> QED BY <2>3, <2>4, <2>6, <2>7, <2>8 DEF TypeOK
<1>6. ASSUME NEW d \in Drivers, Delete(d) PROVE TypeOK'
  <2>1. /\ raw' = [raw EXCEPT ![d] = [i \in PIds(d) |-> NoBuf]]
        /\ holder' = [holder EXCEPT ![d] = {}]
        /\ state' = [state EXCEPT ![d] = "deleted"]
        /\ given' = [given EXCEPT ![d] = <<>>]
        /\ args' = [args EXCEPT ![d] = [i \in PIds(d) |-> NoArray]]
        /\ UNCHANGED <<closure, kept, rets, call>> /\ call = NoCall
    BY <1>6 DEF Delete, Calling
  <2>2. copy' \in [Arrays -> [Devices -> Mem]]
    BY <1>6, SurvivorsType DEF Delete, TypeOK
  <2>3. \A e \in Drivers : DriverType(e)'
    BY <2>1, NothingGiven DEF TypeOK, DriverType, Mem
  <2> QED BY <2>1, <2>2, <2>3 DEF TypeOK
<1>7. ASSUME NEW i, TakeArg(i) PROVE TypeOK'
  <2>1. /\ i \in PIds(call.drv) /\ call.drv \in Drivers /\ Given(i) \in Arrays
        /\ call # NoCall
    BY <1>7, TurnIs DEF TakeArg, Turn
  <2>2. PICK b \in FreshBufs : Store(call.drv, i, Given(i), b)
    BY <1>7 DEF TakeArg
  <2>3. closure' \in [Closures -> Arrays \cup {NoArray}]
    BY <1>7, <2>1 DEF TakeArg, Enclose, TypeOK
  <2>4. UNCHANGED <<kept, holder, rets, state, given>>
    BY <1>7 DEF TakeArg
  <2> QED
    BY <1>7, <2>1, <2>2, <2>3, <2>4, StoreType, ServedType
       DEF TakeArg, TypeOK, DriverType
<1>8. ASSUME NEW i, TakeUnused(i) PROVE TypeOK'
  <2>1. /\ i \in PIds(call.drv) /\ call.drv \in Drivers /\ Given(i) \in Arrays
        /\ call # NoCall
    BY <1>8, TurnIs DEF TakeUnused, Turn
  <2>2. args[call.drv][i] \in Arrays \cup {NoArray}
    BY <2>1 DEF TypeOK, DriverType
  <2>3. closure' \in [Closures -> Arrays \cup {NoArray}]
    BY <1>8, <2>1, <2>2 DEF TakeUnused, Enclose, TypeOK
  <2>4. UNCHANGED <<kept, holder, args, raw, rets, state, given>>
    BY <1>8 DEF TakeUnused
  <2>5. copy' \in [Arrays -> [Devices -> Mem]]
    BY <1>8, SurvivorsType DEF TakeUnused, TypeOK
  <2> QED
    BY <1>8, <2>1, <2>3, <2>4, <2>5, ServedType DEF TakeUnused, TypeOK, DriverType
<1>9. ASSUME NEW i, RefuseArg(i) PROVE TypeOK'
  <2>1. /\ i \in PIds(call.drv) /\ call.drv \in Drivers /\ Given(i) \in Arrays
    BY <1>9, TurnIs DEF RefuseArg
  <2>2. /\ DOMAIN args' = Drivers
        /\ \A e \in Drivers : args'[e] \in [PIds(e) -> Arrays \cup {NoArray}]
    <3>1. \/ args' = args
          \/ args' = [args EXCEPT ![call.drv] = [@ EXCEPT ![i] = Given(i)]]
      BY <1>9 DEF RefuseArg
    <3>2. CASE args' = args
      BY <3>2 DEF TypeOK, DriverType
    <3>3. CASE args' = [args EXCEPT ![call.drv] = [@ EXCEPT ![i] = Given(i)]]
      BY <2>1, <3>3 DEF TypeOK, DriverType
    <3> QED BY <3>1, <3>2, <3>3
  <2>3. /\ UNCHANGED <<raw, closure, kept, holder, rets, state>>
        /\ call' = NoCall /\ given' = [given EXCEPT ![call.drv] = <<>>]
    BY <1>9 DEF RefuseArg, Throw
  <2>4. copy' \in [Arrays -> [Devices -> Mem]]
    BY <1>9, SurvivorsType DEF RefuseArg, TypeOK
  <2> QED BY <2>1, <2>2, <2>3, <2>4, NothingGiven DEF TypeOK, DriverType
<1>10. ASSUME NEW i, RefuseEnclosed(i) PROVE TypeOK'
  <2>1. /\ i \in PIds(call.drv) /\ call.drv \in Drivers /\ Given(i) \in Arrays
    BY <1>10, TurnIs DEF RefuseEnclosed
  <2>2. /\ UNCHANGED <<closure, kept, holder, rets, state>>
        /\ call' = NoCall /\ given' = [given EXCEPT ![call.drv] = <<>>]
    BY <1>10 DEF RefuseEnclosed, Throw
  <2>3. /\ copy' \in [Arrays -> [Devices -> Mem]]
        /\ DOMAIN args' = Drivers /\ DOMAIN raw' = Drivers
        /\ \A e \in Drivers : /\ args'[e] \in [PIds(e) -> Arrays \cup {NoArray}]
                              /\ raw'[e] \in [PIds(e) -> Mem]
    <3>1. CASE i \in Used(call.drv)
      BY <1>10, <2>1, <3>1, StoreType DEF RefuseEnclosed
    <3>2. CASE i \notin Used(call.drv)
      BY <1>10, <3>2 DEF RefuseEnclosed, TypeOK, DriverType
    <3> QED BY <3>1, <3>2
  <2> QED BY <2>1, <2>2, <2>3, NothingGiven DEF TypeOK, DriverType
<1>11. ASSUME NEW i, Skip(i) PROVE TypeOK'
  <2>1. call \in CallType /\ i \in Nat /\ call # NoCall
    BY <1>11, EndIs DEF Skip, AtEnd, PIds
  <2>2. call' = [call EXCEPT !.next = i + 1]
    BY <1>11 DEF Skip
  <2>3. /\ call' \in CallType /\ call'.todo = call.todo /\ call'.drv = call.drv
    BY <2>1, <2>2 DEF CallType
  <2>4. UNCHANGED <<copy, closure, kept, holder, args, raw, rets, state, given>>
    BY <1>11 DEF Skip
  <2> QED BY <2>1, <2>3, <2>4 DEF TypeOK, DriverType
<1>12. ASSUME NEW i, TakeClosure(i) PROVE TypeOK'
  <2> DEFINE d == call.drv
             p == Params[d][i]
             a == closure[p.closure]
  <2>1. d \in Drivers /\ i \in PIds(d) /\ call \in CallType /\ call # NoCall
    BY <1>12, EndIs DEF TakeClosure, AtEnd
  <2>2. p \in Param /\ p.closure \in Closures /\ a \in Arrays
    BY <1>12, <2>1, ParamIs, ClosureIs DEF TakeClosure, TypeOK
  <2>3. PICK b \in FreshBufs :
          LET cp == Requested(copy[a], p, b) IN
          /\ raw' = [raw EXCEPT ![d] = [@ EXCEPT ![i] = cp[p.dev]]]
          /\ copy' = [copy EXCEPT ![a] = cp]
    BY <1>12 DEF TakeClosure
  <2> DEFINE cp == Requested(copy[a], p, b)
  <2>4. cp \in [Devices -> Mem]
    BY <2>2, RequestedIs, FreshIs DEF TypeOK
  <2>5. cp[p.dev] \in Mem
    BY <2>1, <2>4, DevIs
  <2>6. copy' \in [Arrays -> [Devices -> Mem]]
    BY <2>2, <2>3, <2>4 DEF TypeOK
  <2>7. /\ DOMAIN raw' = Drivers
        /\ \A e \in Drivers : raw'[e] \in [PIds(e) -> Mem]
    BY <2>1, <2>3, <2>5 DEF TypeOK, DriverType
  <2>8. /\ UNCHANGED <<closure, kept, holder, args, rets, state, given>>
        /\ call' = [call EXCEPT !.next = i + 1]
    BY <1>12 DEF TakeClosure
  <2>9. /\ call' \in CallType /\ call'.todo = call.todo /\ call'.drv = call.drv
    BY <2>1, <2>8 DEF CallType, PIds
  <2> QED BY <2>1, <2>6, <2>7, <2>8, <2>9 DEF TypeOK, DriverType
<1>13. ASSUME NEW i, RefuseMissing(i) PROVE TypeOK'
  <2>1. call.drv \in Drivers
    BY <1>13, EndIs DEF RefuseMissing
  <2> QED BY <1>13, <2>1, NothingGiven DEF RefuseMissing, Throw, TypeOK, DriverType
<1>14. CASE SetArgsDone
  BY <1>14, EndIs DEF SetArgsDone, TypeOK, DriverType
<1>15. CASE UNCHANGED vars
  BY <1>15 DEF vars, TypeOK, DriverType
<1> QED
  BY <1>1, <1>2, <1>3, <1>4, <1>5, <1>6, <1>7, <1>8, <1>9, <1>10, <1>11,
     <1>12, <1>13, <1>14, <1>15 DEF Next

-----------------------------------------------------------------------------
\* What a step does to the copies: it drops some, and adds at most the copy b
\* of the Array a on the device dev.
Moves(a, dev, b) ==
  \A x \in Arrays : \A e \in Devices :
    \/ copy'[x][e] \in {copy[x][e], NoBuf}
    \/ x = a /\ e = dev /\ copy'[x][e] = b

Keeps ==
  \A x \in Arrays : \A e \in Devices : copy'[x][e] \in {copy[x][e], NoBuf}

LEMMA SurvivorsKeep ==
  ASSUME TypeOK, copy' = Survivors(copy)
  PROVE  Keeps
BY DEF TypeOK, Survivors, NoCopy, Keeps

LEMMA StoreMoves ==
  ASSUME TypeOK, NEW d \in Drivers, NEW i \in PIds(d), NEW a \in Arrays,
         NEW b \in FreshBufs, Store(d, i, a, b)
  PROVE  Moves(a, Params[d][i].dev, b)
<1> DEFINE cp == Requested(copy[a], Params[d][i], b)
<1>1. copy' = Survivors([copy EXCEPT ![a] = cp])
  BY DEF Store
<1>2. \A e \in Devices : \/ cp[e] \in {copy[a][e], NoBuf}
                         \/ e = Params[d][i].dev /\ cp[e] = b
  BY ParamIs, FreshIs, RequestedIs DEF TypeOK
<1>3. ASSUME NEW x \in Arrays, NEW e \in Devices
      PROVE  copy'[x][e] \in {[copy EXCEPT ![a] = cp][x][e], NoBuf}
  BY <1>1 DEF Survivors, NoCopy
<1>4. ASSUME NEW x \in Arrays, NEW e \in Devices
      PROVE  \/ copy'[x][e] \in {copy[x][e], NoBuf}
             \/ x = a /\ e = Params[d][i].dev /\ copy'[x][e] = b
  <2>1. CASE x = a
    BY <1>2, <1>3, <2>1 DEF TypeOK
  <2>2. CASE x # a
    BY <1>3, <2>2 DEF TypeOK
  <2> QED BY <2>1, <2>2
<1> QED BY <1>4 DEF Moves

LEMMA ClosureMoves ==
  ASSUME TypeOK, NEW i, TakeClosure(i)
  PROVE  LET p == Params[call.drv][i] IN
         /\ call.drv \in Drivers /\ i \in PIds(call.drv) /\ p \in Param
         /\ p.closure \in Closures /\ closure[p.closure] \in Arrays
         /\ \E b \in FreshBufs : Moves(closure[p.closure], p.dev, b)
<1> DEFINE p == Params[call.drv][i]
           a == closure[p.closure]
<1>1. /\ call.drv \in Drivers /\ i \in PIds(call.drv) /\ p \in Param
  BY EndIs, ParamIs DEF TakeClosure
<1>2. p.closure \in Closures /\ a \in Arrays
  BY <1>1, ClosureIs DEF TakeClosure, TypeOK
<1>3. PICK b \in FreshBufs :
        LET cp == Requested(copy[a], p, b) IN
        /\ raw' = [raw EXCEPT ![call.drv] = [@ EXCEPT ![i] = cp[p.dev]]]
        /\ copy' = [copy EXCEPT ![a] = cp]
  BY DEF TakeClosure
<1>4. \A e \in Devices : \/ Requested(copy[a], p, b)[e] \in {copy[a][e], NoBuf}
                         \/ e = p.dev /\ Requested(copy[a], p, b)[e] = b
  <2>1. copy[a] \in [Devices -> Mem] /\ b \in Bufs
    BY <1>2, FreshIs DEF TypeOK
  <2> HIDE DEF p, a
  <2> QED BY <1>1, <2>1, RequestedIs
<1>5. Moves(a, p.dev, b)
  BY <1>2, <1>3, <1>4 DEF Moves, TypeOK
<1> QED BY <1>1, <1>2, <1>5

\* Steps that add no copy but of fresh memory, and leave the returns alone.
LEMMA MovesApart ==
  ASSUME TypeOK, CopiesApart, ReturnsApart, NEW a, NEW dev, NEW b \in FreshBufs,
         Moves(a, dev, b), rets' = rets
  PROVE  CopiesApart' /\ ReturnsApart'
<1>1. /\ \A x \in Arrays : \A e \in Devices : copy[x][e] # b
      /\ \A d \in Drivers : \A i \in RIds(d) : rets[d][i] # b
  BY FreshIs
<1>2. NoBuf \notin Bufs
  BY DriverAssumption
<1>3. CopiesApart'
  BY <1>1, <1>2 DEF CopiesApart, Moves
<1>4. ReturnsApart'
  BY <1>1 DEF ReturnsApart, Moves
<1> QED BY <1>3, <1>4

LEMMA KeepsApart ==
  ASSUME CopiesApart, ReturnsApart, Keeps, rets' = rets
  PROVE  CopiesApart' /\ ReturnsApart'
<1>1. NoBuf \notin Bufs
  BY DriverAssumption
<1>2. CopiesApart'
  BY <1>1 DEF CopiesApart, Keeps
<1>3. ReturnsApart'
  BY DEF ReturnsApart, Keeps
<1> QED BY <1>2, <1>3

\* Each Array without a reference is destroyed in the same step, if a step can
\* take the last reference.
LEMMA SurvivorsDead ==
  ASSUME NEW cp, copy' = Survivors(cp)
  PROVE  DeadEmpty'
BY DEF DeadEmpty, Survivors

LEMMA SameLive ==
  ASSUME UNCHANGED <<kept, holder, args, closure>>
  PROVE  Live' = Live
BY DEF Live, PyAlive

LEMMA OwnedStep == TypeOK /\ TypeOK' /\ Owned /\ [Next]_vars => Owned'
<1> SUFFICES ASSUME TypeOK, TypeOK', Owned, [Next]_vars PROVE Owned'
  OBVIOUS
<1>0. DeadEmpty /\ CopiesApart /\ ReturnsApart
  BY DEF Owned
<1>a. ASSUME Keeps, rets' = rets, \E cp : copy' = Survivors(cp)
      PROVE  Owned'
  BY <1>0, <1>a, KeepsApart, SurvivorsDead DEF Owned
<1>b. ASSUME UNCHANGED <<copy, closure, kept, holder, args, rets>>
      PROVE  Owned'
  <2>1. Keeps
    BY <1>b DEF Keeps
  <2>2. DeadEmpty'
    BY <1>0, <1>b, SameLive DEF DeadEmpty
  <2> QED BY <1>0, <1>b, <2>1, <2>2, KeepsApart DEF Owned
<1>c. ASSUME NEW d \in Drivers, NEW i \in PIds(d), NEW a \in Arrays,
             NEW b \in FreshBufs, Store(d, i, a, b), rets' = rets
      PROVE  Owned'
  <2>1. Moves(a, Params[d][i].dev, b)
    BY <1>c, StoreMoves
  <2>2. DeadEmpty'
    BY <1>c, SurvivorsDead DEF Store
  <2> QED BY <1>0, <1>c, <2>1, <2>2, MovesApart DEF Owned
<1>1. ASSUME NEW a \in Arrays, NEW u \in UserBufs, UserBorrows(a, u)
      PROVE  Owned'
  <2>1. copy' = [copy EXCEPT ![a] = Only(HostCPU, u)] /\ rets' = rets
    BY <1>1 DEF UserBorrows
  <2>2. \A e \in Devices : Only(HostCPU, u)[e] \in {u, NoBuf} /\ u \notin Bufs
                           /\ NoBuf \notin Bufs
    BY DriverAssumption, OnlyIs DEF Mem
  <2>3. CopiesApart'
    <3>1. ASSUME NEW x \in Arrays, NEW e \in Devices, copy'[x][e] \in Bufs
          PROVE  copy'[x][e] = copy[x][e]
      BY <2>1, <2>2, <3>1 DEF TypeOK
    <3> QED BY <1>0, <3>1 DEF CopiesApart
  <2>4. ReturnsApart'
    BY <1>0, <2>1, <2>2 DEF ReturnsApart, TypeOK, DriverType
  <2>5. ASSUME NEW x \in Arrays \ Live' PROVE copy'[x] = NoCopy
    <3>1. kept' = kept \cup {a} /\ UNCHANGED <<holder, args, closure>>
      BY <1>1 DEF UserBorrows
    <3>2. x # a /\ x \notin Live
      BY <2>5, <3>1, LiveIs, LiveNext DEF LiveMeans
    <3> QED BY <1>0, <2>1, <3>2 DEF DeadEmpty, TypeOK
  <2> QED BY <2>3, <2>4, <2>5 DEF Owned, DeadEmpty
<1>2. ASSUME NEW a \in Arrays, UserDrops(a) PROVE Owned'
  BY <1>a, <1>2, SurvivorsKeep DEF UserDrops
<1>3. ASSUME NEW d \in Drivers, SetArgs(d) PROVE Owned'
  BY <1>a, <1>3, SurvivorsKeep DEF SetArgs
<1>4. ASSUME NEW d \in Drivers, Run(d) PROVE Owned'
  <2> DEFINE new == {i \in Allocated(d) : rets[d][i] = NoBuf}
  <2>1. PICK f \in [new -> FreshBufs] :
          /\ \A i, j \in new : f[i] = f[j] => i = j
          /\ rets' = [rets EXCEPT ![d] = [i \in RIds(d) |->
                                           IF i \in new THEN f[i] ELSE @[i]]]
    BY <1>4 DEF Run
  <2>2. UNCHANGED <<copy, closure, kept, holder, args>>
    BY <1>4 DEF Run
  <2>3. \A b \in FreshBufs :
          /\ \A x \in Arrays : \A e \in Devices : copy[x][e] # b
          /\ \A e \in Drivers : \A j \in RIds(e) : rets[e][j] # b
    BY FreshIs
  <2>4. \A e \in Drivers : \A j \in RIds(e) :
          \/ rets'[e][j] = rets[e][j]
          \/ e = d /\ j \in new /\ rets'[e][j] = f[j] /\ f[j] \in FreshBufs
    BY <2>1 DEF TypeOK, DriverType
  <2>5. ReturnsApart'
    BY <1>0, <2>1, <2>2, <2>3, <2>4 DEF ReturnsApart
  <2>6. CopiesApart' /\ DeadEmpty'
    BY <1>0, <2>2, SameLive DEF CopiesApart, DeadEmpty
  <2> QED BY <2>5, <2>6 DEF Owned
<1>5. ASSUME NEW d \in Drivers, Collect(d) PROVE Owned'
  <2>1. PICK new \in [Allocated(d) -> Arrays \ Live] :
          /\ \A i, j \in Allocated(d) : new[i] = new[j] => i = j
          /\ copy' = Survivors([a \in Arrays |->
                       IF a \in Image(new)
                       THEN Only(Dev[d], rets[d][CHOOSE i \in Allocated(d) : new[i] = a])
                       ELSE copy[a]])
    BY <1>5 DEF Collect
  <2>2. rets' = [rets EXCEPT ![d] = Emptied(d)]
    BY <1>5 DEF Collect
  <2>3. ASSUME NEW x \in Arrays, NEW e \in Devices
        PROVE  \/ copy'[x][e] = NoBuf
               \/ copy'[x][e] = copy[x][e]
               \/ \E k \in Allocated(d) : /\ x = new[k] /\ e = Dev[d]
                                          /\ copy'[x][e] = rets[d][k]
    <3>1. CASE x \in Image(new)
      <4>1. PICK k \in Allocated(d) :
              k = (CHOOSE i \in Allocated(d) : new[i] = x) /\ new[k] = x
        BY <3>1 DEF Image
      <4>2. rets[d][k] \in Mem
        BY <4>1 DEF Allocated, TypeOK, DriverType, Mem
      <4>3. copy'[x] \in {Only(Dev[d], rets[d][k]), NoCopy}
        BY <2>1, <3>1, <4>1 DEF Survivors
      <4> QED BY <4>1, <4>2, <4>3, OnlyIs, FuncAssumption DEF NoCopy
    <3>2. CASE x \notin Image(new)
      BY <2>1, <3>2 DEF Survivors, NoCopy
    <3> QED BY <3>1, <3>2
  <2>4. Allocated(d) \subseteq RIds(d) /\ NoBuf \notin Bufs
    BY DriverAssumption DEF Allocated
  <2>5. CopiesApart'
    <3> SUFFICES ASSUME NEW x \in Arrays, NEW y \in Arrays,
                        NEW e \in Devices, NEW f \in Devices,
                        copy'[x][e] = copy'[y][f], copy'[x][e] \in Bufs
                 PROVE  x = y /\ e = f
      BY DEF CopiesApart
    <3>1. CASE copy'[x][e] = copy[x][e] /\ copy'[y][f] = copy[y][f]
      <4>1. copy[x][e] = copy[y][f] /\ copy[x][e] \in Bufs
        BY <3>1
      <4> QED BY <1>0, <4>1 DEF CopiesApart
    <3>2. ASSUME NEW k \in Allocated(d), NEW l \in Allocated(d),
                 x = new[k], copy'[x][e] = rets[d][k], e = Dev[d],
                 y = new[l], copy'[y][f] = rets[d][l], f = Dev[d]
          PROVE  x = y /\ e = f
      BY <1>0, <2>4, <3>2 DEF ReturnsApart
    <3>3. ASSUME NEW k \in Allocated(d),
                 \/ copy'[x][e] = rets[d][k] /\ copy'[y][f] = copy[y][f]
                 \/ copy'[y][f] = rets[d][k] /\ copy'[x][e] = copy[x][e]
          PROVE  FALSE
      BY <1>0, <2>4, <3>3 DEF ReturnsApart
    <3> QED BY <2>3, <2>4, <3>1, <3>2, <3>3
  <2>6. ReturnsApart'
    <3> SUFFICES ASSUME NEW e \in Drivers, NEW i \in RIds(e), rets'[e][i] # NoBuf
                 PROVE  /\ \A x \in Arrays : \A f \in Devices :
                             copy'[x][f] # rets'[e][i]
                        /\ \A f \in Drivers : \A j \in RIds(f) :
                             rets'[f][j] = rets'[e][i] => f = e /\ j = i
      BY DEF ReturnsApart
    <3>1. /\ e # d /\ rets'[e][i] = rets[e][i]
          /\ \A f \in Drivers : \A j \in RIds(f) :
               rets'[f][j] \in {rets[f][j], NoBuf}
      BY <2>2 DEF Emptied, TypeOK, DriverType
    <3> QED BY <1>0, <2>3, <2>4, <3>1 DEF ReturnsApart
  <2>7. DeadEmpty'
    BY <2>1, SurvivorsDead
  <2> QED BY <2>5, <2>6, <2>7 DEF Owned
<1>6. ASSUME NEW d \in Drivers, Delete(d) PROVE Owned'
  BY <1>a, <1>6, SurvivorsKeep DEF Delete
<1>7. ASSUME NEW i, TakeArg(i) PROVE Owned'
  BY <1>c, <1>7, TurnIs DEF TakeArg
<1>8. ASSUME NEW i, TakeUnused(i) PROVE Owned'
  BY <1>a, <1>8, SurvivorsKeep DEF TakeUnused
<1>9. ASSUME NEW i, RefuseArg(i) PROVE Owned'
  BY <1>a, <1>9, SurvivorsKeep DEF RefuseArg, Throw
<1>10. ASSUME NEW i, RefuseEnclosed(i) PROVE Owned'
  BY <1>b, <1>c, <1>10, TurnIs DEF RefuseEnclosed, Throw
<1>11. ASSUME NEW i, Skip(i) PROVE Owned'
  BY <1>b, <1>11 DEF Skip
<1>12. ASSUME NEW i, TakeClosure(i) PROVE Owned'
  <2> DEFINE p == Params[call.drv][i]
             a == closure[p.closure]
  <2>1. p.closure \in Closures /\ a \in Arrays
    BY <1>12, ClosureMoves
  <2>2. PICK b \in FreshBufs : Moves(a, p.dev, b)
    BY <1>12, ClosureMoves
  <2>3. rets' = rets /\ Live' = Live /\ \A x \in Arrays : x # a => copy'[x] = copy[x]
    BY <1>12, SameLive DEF TakeClosure, TypeOK
  <2>4. a \in Live
    BY <2>1, LiveIs DEF LiveMeans
  <2>5. DeadEmpty'
    BY <1>0, <2>3, <2>4 DEF DeadEmpty
  <2> QED BY <1>0, <2>2, <2>3, <2>5, MovesApart DEF Owned
<1>13. ASSUME NEW i, RefuseMissing(i) PROVE Owned'
  BY <1>b, <1>13 DEF RefuseMissing, Throw
<1>14. CASE SetArgsDone
  BY <1>b, <1>14 DEF SetArgsDone
<1>15. CASE UNCHANGED vars
  BY <1>b, <1>15 DEF vars
<1> QED
  BY <1>1, <1>2, <1>3, <1>4, <1>5, <1>6, <1>7, <1>8, <1>9, <1>10, <1>11,
     <1>12, <1>13, <1>14, <1>15 DEF Next

-----------------------------------------------------------------------------
\* The callers' liberties are never given back.
LEMMA TakenGrows == TypeOK /\ [Next]_vars => taken \subseteq taken'
<1> SUFFICES ASSUME TypeOK, [Next]_vars PROVE taken \subseteq taken'
  OBVIOUS
<1>1. ASSUME NEW d \in Drivers, SetArgs(d) \/ Run(d) \/ Collect(d) \/ Delete(d)
      PROVE  taken \subseteq taken'
  <2>1. CASE SetArgs(d)
    BY <2>1 DEF SetArgs
  <2>2. CASE Delete(d)
    BY <2>2 DEF Delete
  <2>3. CASE Run(d) \/ Collect(d)
    BY <2>3 DEF Run, Collect
  <2> QED BY <1>1, <2>1, <2>2, <2>3
<1>2. ASSUME NEW i, TakeArg(i) PROVE taken \subseteq taken'
  BY <1>2 DEF TakeArg, Store
<1>3. ASSUME NEW i, RefuseEnclosed(i) PROVE taken \subseteq taken'
  BY <1>3 DEF RefuseEnclosed, Store
<1>4. ASSUME NEW i, TakeClosure(i) PROVE taken \subseteq taken'
  BY <1>4 DEF TakeClosure
<1>5. ASSUME NEW i, RefuseArg(i) \/ RefuseMissing(i) PROVE taken \subseteq taken'
  BY <1>5 DEF RefuseArg, RefuseMissing
<1>6. ASSUME NEW i, TakeUnused(i) \/ Skip(i) PROVE taken \subseteq taken'
  BY <1>6 DEF TakeUnused, Skip
<1>7. ASSUME NEW a, UserDrops(a) \/ \E u : UserBorrows(a, u)
      PROVE  taken \subseteq taken'
  BY <1>7 DEF UserDrops, UserBorrows
<1>8. CASE SetArgsDone
  BY <1>8 DEF SetArgsDone
<1>9. CASE UNCHANGED vars
  BY <1>9 DEF vars
<1> QED
  BY <1>1, <1>2, <1>3, <1>4, <1>5, <1>6, <1>7, <1>8, <1>9 DEF Next

\* What the steps do to the calls.  SetArgs begins one on d, ...
LEMMA Begins ==
  ASSUME TypeOK, NEW d \in Drivers, SetArgs(d)
  PROVE  /\ Calls(d)' /\ d \notin Loaded' /\ Served(d)' = {}
         /\ Todo(d)' = DOMAIN given'[d] /\ Todo(d)' \subseteq PIds(d)
         /\ call'.next = 1
         /\ \A i \in DOMAIN given'[d] : given'[d][i] \in holder'[d]
         /\ \A e \in Drivers \ {d} :
              /\ ~Calls(e) /\ ~Calls(e)'
              /\ e \in Loaded' <=> e \in Loaded
              /\ given'[e] = given[e] /\ holder'[e] = holder[e]
<1>1. PICK s \in SUBSET PIds(d) :
        \E pos \in Positional(d, s), g \in [s -> kept] :
          /\ given' = [given EXCEPT ![d] = g]
          /\ holder' = [holder EXCEPT ![d] = Held(g)]
          /\ call' = [drv |-> d, todo |-> s, next |-> 1, pos |-> pos]
  BY DEF SetArgs
<1>2. PICK pos \in Positional(d, s), g \in [s -> kept] :
        /\ given' = [given EXCEPT ![d] = g]
        /\ holder' = [holder EXCEPT ![d] = Held(g)]
        /\ call' = [drv |-> d, todo |-> s, next |-> 1, pos |-> pos]
  BY <1>1
<1>3. call' \in CallType
  BY <1>2 DEF CallType, Positional, PIds
<1>4. call' # NoCall /\ call'.drv = d /\ call'.todo = s /\ call'.next = 1
  BY <1>2, <1>3, DriverAssumption DEF CallType
<1>5. call = NoCall /\ state' = [state EXCEPT ![d] = "idle"]
  BY DEF SetArgs, Calling
<1>6. given'[d] = g /\ holder'[d] = Image(g) /\ DOMAIN g = s
  BY <1>2 DEF TypeOK, Held
<1>7. \A i \in DOMAIN g : g[i] \in Image(g)
  BY DEF Image
<1>8. d \notin Loaded'
  BY <1>5 DEF Loaded, TypeOK
<1>9. ASSUME NEW e \in Drivers \ {d}
      PROVE  /\ ~Calls(e) /\ ~Calls(e)'
             /\ e \in Loaded' <=> e \in Loaded
             /\ given'[e] = given[e] /\ holder'[e] = holder[e]
  BY <1>2, <1>4, <1>5 DEF Calls, Loaded, TypeOK
<1> QED BY <1>4, <1>6, <1>7, <1>8, <1>9 DEF Calls, Todo, Served

\* ... a step serves one argument, ...
Serves(i) ==
  /\ call' # NoCall /\ call'.drv = call.drv
  /\ call'.todo = call.todo \ {i} /\ call'.next = call.next
  /\ UNCHANGED <<kept, holder, rets, state, given>>

LEMMA ServesIs ==
  ASSUME TypeOK, NEW i, TakeArg(i) \/ TakeUnused(i)
  PROVE  Serves(i)
<1>1. Turn(i) /\ call' = [call EXCEPT !.todo = @ \ {i}]
      /\ UNCHANGED <<kept, holder, rets, state, given>>
  BY DEF TakeArg, TakeUnused
<1>2. call \in CallType
  BY <1>1, TurnIs
<1>3. call' \in CallType
  BY <1>1, ServedType
<1>4. call' = [drv |-> call.drv, todo |-> call.todo \ {i}, next |-> call.next,
               pos |-> call.pos]
  BY <1>1, <1>2 DEF CallType
<1> QED BY <1>1, <1>3, <1>4, DriverAssumption DEF CallType, Serves

\* ... or one parameter of the loop at the end, ...
Passes(i) ==
  /\ call # NoCall /\ call' # NoCall /\ call'.drv = call.drv
  /\ call'.todo = call.todo /\ call.next = i /\ call'.next = i + 1
  /\ call.todo = {}
  /\ UNCHANGED <<closure, kept, holder, args, rets, state, given>>

LEMMA PassesIs ==
  ASSUME TypeOK, NEW i, Skip(i) \/ TakeClosure(i)
  PROVE  Passes(i)
<1>1. /\ AtEnd(i) /\ call' = [call EXCEPT !.next = i + 1]
      /\ i \in PIds(call.drv)
      /\ UNCHANGED <<closure, kept, holder, args, rets, state, given>>
  BY DEF Skip, TakeClosure
<1>2. call \in CallType
  BY <1>1, EndIs
<1>3. call' = [drv |-> call.drv, todo |-> call.todo, next |-> i + 1,
               pos |-> call.pos]
  BY <1>1, <1>2 DEF CallType
<1>4. i + 1 \in Nat
  BY <1>1 DEF PIds
<1>5. call' \in CallType
  BY <1>2, <1>3, <1>4 DEF CallType
<1> QED BY <1>1, <1>3, <1>5, DriverAssumption DEF CallType, Passes, AtEnd

\* ... or throws.
Throws ==
  /\ call # NoCall /\ call.drv \in Drivers /\ state[call.drv] = "idle"
  /\ Throw

LEMMA ThrowsIs ==
  ASSUME TypeOK, NEW i, RefuseArg(i) \/ RefuseEnclosed(i) \/ RefuseMissing(i)
  PROVE  Throws
<1>1. CASE RefuseArg(i)
  BY <1>1, TurnIs DEF RefuseArg, Throws, Turn
<1>2. CASE RefuseEnclosed(i)
  BY <1>2, TurnIs DEF RefuseEnclosed, Throws, Turn
<1>3. CASE RefuseMissing(i)
  BY <1>3, EndIs DEF RefuseMissing, Throws, AtEnd, TypeOK
<1> QED BY <1>1, <1>2, <1>3

-----------------------------------------------------------------------------
\* A step that leaves the calls and what they hold.
Calm ==
  UNCHANGED <<holder, state, given, call>>

LEMMA CalmIs ==
  ASSUME Calm
  PROVE  \A d \in Drivers :
           /\ Calls(d)' <=> Calls(d)
           /\ Active(d)' <=> Active(d)
           /\ Served(d)' = Served(d) /\ Todo(d)' = Todo(d)
           /\ d \in Loaded' <=> d \in Loaded
           /\ given'[d] = given[d] /\ holder'[d] = holder[d]
BY DEF Calm, Calls, Active, Served, Todo, Loaded

LEMMA CalmSteps ==
  /\ \A a, u : UserBorrows(a, u) => Calm
  /\ \A a : UserDrops(a) => Calm
  /\ UNCHANGED vars => Calm
BY DEF Calm, UserBorrows, UserDrops, vars

\* A call goes on.
LEMMA GoesOn ==
  ASSUME TypeOK, NEW i, (Serves(i) /\ Turn(i)) \/ Passes(i)
  PROVE  \A d \in Drivers :
           /\ Calls(d)' <=> Calls(d)
           /\ Active(d)' <=> Active(d)
           /\ Todo(d)' = Todo(d) \ (IF Serves(i) THEN {i} ELSE {})
           /\ d \in Loaded' <=> d \in Loaded
           /\ given'[d] = given[d] /\ holder'[d] = holder[d]
<1> SUFFICES ASSUME NEW d \in Drivers
             PROVE  /\ Calls(d)' <=> Calls(d)
                    /\ Active(d)' <=> Active(d)
                    /\ Todo(d)' = Todo(d) \ (IF Serves(i) THEN {i} ELSE {})
                    /\ d \in Loaded' <=> d \in Loaded
                    /\ given'[d] = given[d] /\ holder'[d] = holder[d]
  OBVIOUS
<1>1. call # NoCall /\ call' # NoCall /\ call'.drv = call.drv
      /\ UNCHANGED <<state, given, holder>>
  BY DEF Serves, Passes, Turn
<1>2. Calls(d)' <=> Calls(d)
  BY <1>1 DEF Calls
<1>3. d \in Loaded' <=> d \in Loaded
  BY <1>1 DEF Loaded
<1>4. Todo(d)' = Todo(d) \ (IF Serves(i) THEN {i} ELSE {})
  <2>1. call'.todo = call.todo \ (IF Serves(i) THEN {i} ELSE {})
    BY DEF Serves, Passes
  <2> QED BY <1>2, <2>1 DEF Todo
<1> QED BY <1>1, <1>2, <1>3, <1>4 DEF Active

\* A call ends, well or not.
LEMMA Stops ==
  ASSUME TypeOK, Throws
  PROVE  /\ call.drv \in Drivers /\ Calls(call.drv) /\ call.drv \notin Loaded
         /\ DOMAIN given'[call.drv] = {}
         /\ \A d \in Drivers :
              /\ ~Calls(d)' /\ Todo(d)' = {}
              /\ Active(d)' <=> d \in Loaded
              /\ d \in Loaded' <=> d \in Loaded
              /\ d # call.drv => ~Calls(d) /\ given'[d] = given[d]
              /\ holder'[d] = holder[d]
<1>1. /\ call # NoCall /\ call.drv \in Drivers /\ state[call.drv] = "idle"
      /\ call' = NoCall /\ given' = [given EXCEPT ![call.drv] = <<>>]
      /\ UNCHANGED <<closure, kept, holder, rets, state>>
  BY DEF Throws, Throw
<1>2. given'[call.drv] = <<>> /\ \A d \in Drivers \ {call.drv} : given'[d] = given[d]
  BY <1>1 DEF TypeOK
<1> QED BY <1>1, <1>2, NothingGiven DEF Calls, Todo, Active, Loaded

LEMMA DoneIs ==
  ASSUME TypeOK, SetArgsDone
  PROVE  /\ call.drv \in Drivers /\ Calls(call.drv) /\ call.drv \in Loaded'
         /\ call.next = Len(Params[call.drv]) + 1
         /\ \A d \in Drivers :
              /\ Active(d)' <=> Active(d)
              /\ Todo(d) = {} /\ Todo(d)' = {} /\ ~Calls(d)'
              /\ d # call.drv => ~Calls(d) /\ (d \in Loaded' <=> d \in Loaded)
              /\ given'[d] = given[d] /\ holder'[d] = holder[d]
<1>1. /\ call # NoCall /\ call.drv \in Drivers /\ call.todo = {}
      /\ call.next = Len(Params[call.drv]) + 1 /\ call' = NoCall
      /\ state' = [state EXCEPT ![call.drv] = "ready"]
      /\ UNCHANGED <<given, holder>>
  BY EndIs DEF SetArgsDone, AtEnd
<1> QED BY <1>1 DEF Calls, Todo, Active, Loaded, TypeOK

LEMMA RunIs ==
  ASSUME TypeOK, NEW d \in Drivers, Run(d)
  PROVE  /\ UNCHANGED <<holder, given, call>>
         /\ \A e \in Drivers :
              /\ ~Calls(e) /\ ~Calls(e)'
              /\ Active(e)' <=> Active(e)
              /\ Served(e)' = Served(e) /\ Todo(e)' = Todo(e)
              /\ e \in Loaded' <=> e \in Loaded
BY DEF Run, Calls, Active, Served, Todo, Loaded, TypeOK

\* Collect and Delete leave Driver d alone.
LEMMA EndsIs ==
  ASSUME TypeOK, NEW d \in Drivers, Collect(d) \/ Delete(d)
  PROVE  /\ ~Active(d)' /\ DOMAIN given'[d] = {}
         /\ \A e \in Drivers :
              /\ ~Calls(e) /\ ~Calls(e)' /\ Todo(e) = {} /\ Todo(e)' = {}
              /\ e # d => /\ Active(e)' <=> Active(e)
                          /\ e \in Loaded' <=> e \in Loaded
                          /\ given'[e] = given[e] /\ holder'[e] = holder[e]
<1>1. /\ call = NoCall /\ call' = NoCall
      /\ given' = [given EXCEPT ![d] = <<>>]
      /\ state' \in {[state EXCEPT ![d] = "idle"], [state EXCEPT ![d] = "deleted"]}
      /\ holder' \in {holder, [holder EXCEPT ![d] = {}]}
  BY DEF Collect, Delete, Calling
<1>2. given'[d] = <<>> /\ \A e \in Drivers \ {d} : given'[e] = given[e]
  BY <1>1 DEF TypeOK
<1>3. d \notin Loaded' /\ \A e \in Drivers \ {d} : e \in Loaded' <=> e \in Loaded
  BY <1>1 DEF TypeOK, Loaded
<1>4. \A e \in Drivers \ {d} : holder'[e] = holder[e]
  BY <1>1 DEF TypeOK
<1> QED BY <1>1, <1>2, <1>3, <1>4, NothingGiven DEF Calls, Todo, Active

-----------------------------------------------------------------------------
LEMMA HoldsStep == TypeOK /\ TypeOK' /\ Holds /\ [Next]_vars => Holds'
<1> SUFFICES ASSUME TypeOK, TypeOK', Holds, [Next]_vars PROVE Holds'
  OBVIOUS
<1>a. ASSUME Calm PROVE Holds'
  BY <1>a, CalmIs DEF Holds
<1>b. ASSUME NEW i, Passes(i) PROVE Holds'
  <2>1. \A d \in Drivers : Served(d)' = Served(d)
    BY <1>b DEF Passes, Served, Todo, Calls
  <2> QED BY <1>b, <2>1, GoesOn DEF Holds
<1>c. ASSUME Throws PROVE Holds'
  <2>1. \A d \in Drivers \ {call.drv} :
          Served(d)' = Served(d) /\ (Active(d)' <=> Active(d))
    BY <1>c, Stops DEF Served, Todo, Active
  <2>2. ASSUME NEW d \in Drivers, d = call.drv
        PROVE  Served(d)' = {} /\ DOMAIN given'[d] = {}
    BY <1>c, <2>2, Stops DEF Served
  <2> QED BY <1>c, <2>1, <2>2, Stops DEF Holds
<1>3. ASSUME NEW d \in Drivers, SetArgs(d) PROVE Holds'
  <2>1. \A e \in Drivers \ {d} : Served(e)' = Served(e) /\ (Active(e)' <=> Active(e))
    BY <1>3, Begins DEF Served, Todo, Active
  <2>2. Active(d)'
    BY <1>3, Begins DEF Active
  <2> QED BY <1>3, <2>1, <2>2, Begins DEF Holds
<1>4. ASSUME NEW d \in Drivers, Run(d) PROVE Holds'
  BY <1>4, RunIs DEF Holds
<1>5. ASSUME NEW d \in Drivers, Collect(d) \/ Delete(d) PROVE Holds'
  BY <1>5, EndsIs DEF Holds, Served
<1>7. ASSUME NEW i, TakeArg(i) \/ TakeUnused(i) PROVE Holds'
  <2>1. Serves(i) /\ Turn(i) /\ i \in Settable(call.drv)
    BY <1>7, ServesIs DEF TakeArg, TakeUnused
  <2>2. \A d \in Drivers : Served(d)' \subseteq Served(d) \cup (IF Calls(d) THEN {i} ELSE {})
    BY <2>1 DEF Served, Todo, Calls, Serves, Turn
  <2>3. ASSUME NEW d \in Drivers PROVE Served(d)' \subseteq Settable(d)
    BY <2>1, <2>2 DEF Holds, Calls
  <2> QED BY <2>1, <2>3, GoesOn DEF Holds
<1>14. CASE SetArgsDone
  BY <1>14, DoneIs DEF Holds, Served
<1> QED
  BY <1>a, <1>b, <1>c, <1>3, <1>4, <1>5, <1>7, <1>14, CalmSteps, PassesIs,
     ThrowsIs DEF Next

LEMMA OneAtATimeStep == TypeOK /\ OneAtATime /\ [Next]_vars => OneAtATime'
<1> SUFFICES ASSUME TypeOK, OneAtATime, [Next]_vars, "interleave" \notin taken'
             PROVE  \A d, e \in Drivers : Active(d)' /\ Active(e)' => d = e
  BY DEF OneAtATime
<1>0. \A d, e \in Drivers : Active(d) /\ Active(e) => d = e
  BY TakenGrows DEF OneAtATime
<1>a. ASSUME \A d \in Drivers : Active(d)' => Active(d)
      PROVE  \A d, e \in Drivers : Active(d)' /\ Active(e)' => d = e
  BY <1>0, <1>a
<1>b. ASSUME NEW i, Passes(i) \/ (Serves(i) /\ Turn(i))
      PROVE  \A d \in Drivers : Active(d)' => Active(d)
  BY <1>b, GoesOn
<1>c. ASSUME Throws PROVE \A d \in Drivers : Active(d)' => Active(d)
  BY <1>c, Stops DEF Active
<1>3. ASSUME NEW d \in Drivers, SetArgs(d)
      PROVE  \A e \in Drivers \ {d} : ~Active(e)'
  <2>1. taken' = taken' \cup Liberty(d)
    BY <1>3 DEF SetArgs
  <2>2. \A e \in Drivers \ {d} : e \notin Loaded
    BY <2>1 DEF Liberty, Loaded
  <2> QED BY <1>3, <2>2, Begins DEF Active
<1>4. ASSUME NEW d \in Drivers, Run(d) \/ Collect(d) \/ Delete(d)
      PROVE  \A e \in Drivers : Active(e)' => Active(e)
  BY <1>4, RunIs, EndsIs
<1>7. ASSUME NEW i, TakeArg(i) \/ TakeUnused(i)
      PROVE  Serves(i) /\ Turn(i)
  BY <1>7, ServesIs DEF TakeArg, TakeUnused
<1> QED
  BY <1>a, <1>b, <1>c, <1>3, <1>4, <1>7, CalmIs, DoneIs, CalmSteps, PassesIs,
     ThrowsIs DEF Next

LEMMA HasPointerStep ==
  TypeOK /\ TypeOK' /\ HasPointer /\ [Next]_vars => HasPointer'
<1> SUFFICES ASSUME TypeOK, TypeOK', HasPointer, [Next]_vars,
                    NEW d \in Drivers, NEW i \in Used(d)',
                    \/ i \in Served(d)'
                    \/ d \in Loaded'
                    \/ Calls(d)' /\ i < call'.next
             PROVE  raw'[d][i] # NoBuf
  BY DEF HasPointer
<1>0. i \in Used(d) /\ i \in PIds(d)
  BY DEF Used, Next, vars
<1>a. ASSUME UNCHANGED raw,
             i \in Served(d) \/ d \in Loaded \/ (Calls(d) /\ i < call.next)
      PROVE  raw'[d][i] # NoBuf
  BY <1>0, <1>a DEF HasPointer
<1>1. ASSUME Calm, raw' = raw PROVE raw'[d][i] # NoBuf
  BY <1>1, <1>a, CalmIs DEF Calm
<1>3. ASSUME NEW e \in Drivers, SetArgs(e) PROVE raw'[d][i] # NoBuf
  <2>1. d # e
    BY <1>0, <1>3, Begins DEF PIds
  <2> QED BY <1>3, <1>a, <2>1, Begins DEF Served, Todo, SetArgs
<1>4. ASSUME NEW e \in Drivers, Run(e) PROVE raw'[d][i] # NoBuf
  BY <1>4, <1>a, RunIs DEF Run
<1>5. ASSUME NEW e \in Drivers, Collect(e) \/ Delete(e) PROVE raw'[d][i] # NoBuf
  <2>1. d # e
    BY <1>5, EndsIs DEF Active, Served
  <2>2. raw'[d] = raw[d]
    BY <1>5, <2>1 DEF Collect, Delete, TypeOK
  <2> QED BY <1>0, <1>5, <2>1, <2>2, EndsIs DEF Served, HasPointer
<1>6. ASSUME NEW j, NEW b \in FreshBufs, Turn(j),
             Store(call.drv, j, Given(j), b)
      PROVE  /\ raw'[call.drv][j] # NoBuf
             /\ \A e \in Drivers : \A k \in PIds(e) :
                  e # call.drv \/ k # j => raw'[e][k] = raw[e][k]
  <2> DEFINE p == Params[call.drv][j]
             cp == Requested(copy[Given(j)], p, b)
  <2>1. /\ call.drv \in Drivers /\ j \in PIds(call.drv) /\ p \in Param
        /\ copy[Given(j)] \in [Devices -> Mem] /\ b \in Bufs
    BY <1>6, TurnIs, ParamIs, FreshIs DEF TypeOK
  <2>2. raw' = [raw EXCEPT ![call.drv] = [@ EXCEPT ![j] = cp[p.dev]]]
    BY <1>6 DEF Store
  <2>3. cp[p.dev] # NoBuf
    <3> HIDE DEF p
    <3> QED BY <2>1, RequestedIs
  <2> HIDE DEF cp, p
  <2> QED BY <2>1, <2>2, <2>3 DEF TypeOK, DriverType
<1>7. ASSUME NEW j, TakeArg(j) PROVE raw'[d][i] # NoBuf
  <2>1. Serves(j) /\ Turn(j)
    BY <1>7, ServesIs DEF TakeArg
  <2>2. PICK b \in FreshBufs : Store(call.drv, j, Given(j), b)
    BY <1>7 DEF TakeArg
  <2>3. \/ i \in Served(d) \/ d \in Loaded \/ (Calls(d) /\ i < call.next)
        \/ Calls(d) /\ i = j
    BY <2>1, GoesOn DEF Served, Serves, Todo
  <2> QED BY <1>0, <1>6, <2>1, <2>2, <2>3 DEF HasPointer, Calls
<1>8. ASSUME NEW j, TakeUnused(j) PROVE raw'[d][i] # NoBuf
  <2>1. Serves(j) /\ Turn(j) /\ raw' = raw /\ j \notin Used(call.drv)
    BY <1>8, ServesIs DEF TakeUnused
  <2>2. \/ i \in Served(d) \/ d \in Loaded \/ (Calls(d) /\ i < call.next)
        \/ Calls(d) /\ i = j
    BY <2>1, GoesOn DEF Served, Serves, Todo
  <2> QED BY <1>0, <1>a, <2>1, <2>2 DEF Calls
<1>9. ASSUME NEW j, RefuseArg(j) \/ RefuseEnclosed(j) \/ RefuseMissing(j)
      PROVE  raw'[d][i] # NoBuf
  <2>1. Throws
    BY <1>9, ThrowsIs
  <2>2. d # call.drv
    BY <2>1, Stops DEF Served
  <2>3. i \in Served(d) \/ d \in Loaded
    BY <2>1, <2>2, Stops DEF Served, Todo
  <2>4. raw'[d][i] = raw[d][i]
    <3>1. CASE raw' = raw
      BY <3>1
    <3>2. CASE RefuseEnclosed(j) /\ raw' # raw
      <4>1. Turn(j) /\ \E b \in FreshBufs : Store(call.drv, j, Given(j), b)
        BY <3>2 DEF RefuseEnclosed
      <4> QED BY <1>0, <1>6, <2>2, <4>1
    <3> QED BY <1>9, <3>1, <3>2 DEF RefuseArg, RefuseMissing
  <2> QED BY <1>0, <2>3, <2>4 DEF HasPointer
<1>10. ASSUME NEW j, Skip(j) \/ TakeClosure(j) PROVE raw'[d][i] # NoBuf
  <2>1. Passes(j) /\ j \in PIds(call.drv) /\ call.drv \in Drivers
    BY <1>10, PassesIs, EndIs DEF Skip, TakeClosure
  <2>2. \/ i \in Served(d) \/ d \in Loaded \/ (Calls(d) /\ i < call.next)
        \/ Calls(d) /\ i = j
    <3>1. i \in Nat /\ j \in Nat
      BY <1>0, <2>1 DEF PIds
    <3>2. Calls(d)' /\ i < j + 1 => Calls(d) /\ (i < j \/ i = j)
      BY <2>1, <3>1, GoesOn
    <3> QED BY <2>1, <3>2, GoesOn DEF Served, Passes, Todo
  <2>3. CASE Skip(j)
    <3>1. raw' = raw /\ (j \notin Used(call.drv) \/ raw[call.drv][j] # NoBuf)
      BY <2>3 DEF Skip
    <3> QED BY <1>0, <1>a, <2>2, <3>1 DEF Calls
  <2>4. CASE TakeClosure(j)
    <3> DEFINE p == Params[call.drv][j]
               a == closure[p.closure]
    <3>1. p \in Param /\ a \in Arrays
      BY <2>4, ClosureMoves
    <3>2. PICK b \in FreshBufs :
            LET cp == Requested(copy[a], p, b) IN
            /\ raw' = [raw EXCEPT ![call.drv] = [@ EXCEPT ![j] = cp[p.dev]]]
            /\ copy' = [copy EXCEPT ![a] = cp]
      BY <2>4 DEF TakeClosure
    <3> DEFINE cp == Requested(copy[a], p, b)
    <3>3. cp[p.dev] # NoBuf
      <4>1. copy[a] \in [Devices -> Mem] /\ b \in Bufs
        BY <3>1, FreshIs DEF TypeOK
      <4> HIDE DEF p, a
      <4> QED BY <3>1, <4>1, RequestedIs
    <3>4. raw' = [raw EXCEPT ![call.drv] = [@ EXCEPT ![j] = cp[p.dev]]]
      BY <3>2
    <3> HIDE DEF cp, p, a
    <3>5. raw'[d][i] = IF d = call.drv /\ i = j THEN cp[p.dev] ELSE raw[d][i]
      BY <1>0, <2>1, <3>4 DEF TypeOK, DriverType
    <3> QED BY <1>0, <2>1, <2>2, <3>3, <3>5 DEF HasPointer, Calls
  <2> QED BY <1>10, <2>3, <2>4
<1>14. CASE SetArgsDone
  <2>1. raw' = raw
    BY <1>14 DEF SetArgsDone
  <2>2. i <= Len(Params[d]) /\ Len(Params[d]) \in Nat
    BY <1>0, FuncAssumption DEF PIds
  <2>3. i < Len(Params[d]) + 1
    BY <1>0, <2>2 DEF PIds
  <2> QED BY <1>14, <1>a, <2>1, <2>3, DoneIs DEF Served
<1> QED
  BY <1>1, <1>3, <1>4, <1>5, <1>7, <1>8, <1>9, <1>10, <1>14, CalmSteps
     DEF Next, UserBorrows, UserDrops, vars

-----------------------------------------------------------------------------
\* What a request by Driver d for its parameter i leaves of the pointers and
\* of the copies: Got is the pointer, and the copies on the device of the
\* parameter stay, if the Array does.
Gets(d, i, a) ==
  /\ raw'[d][i] # NoBuf
  /\ \A e \in Drivers : \A k \in PIds(e) :
       e # d \/ k # i => raw'[e][k] = raw[e][k]
  /\ a \in Live' => raw'[d][i] = copy'[a][Params[d][i].dev]
  /\ \A x \in Arrays \cap Live' : \A e \in Devices :
       copy[x][e] # NoBuf /\ (x = a => e = Params[d][i].dev)
         => copy'[x][e] = copy[x][e]

LEMMA StoreGets ==
  ASSUME TypeOK, NEW d \in Drivers, NEW i \in PIds(d), NEW a \in Arrays,
         NEW b \in FreshBufs, Store(d, i, a, b)
  PROVE  Gets(d, i, a)
<1> DEFINE p == Params[d][i]
           cp == Requested(copy[a], p, b)
<1>1. p \in Param /\ copy[a] \in [Devices -> Mem] /\ b \in Bufs /\ p.dev \in Devices
  BY ParamIs, DevIs, FreshIs DEF TypeOK
<1>2. cp[p.dev] # NoBuf /\ (copy[a][p.dev] # NoBuf => cp[p.dev] = copy[a][p.dev])
  <2> HIDE DEF p
  <2> QED BY <1>1, RequestedIs
<1>3. /\ raw' = [raw EXCEPT ![d] = [@ EXCEPT ![i] = cp[p.dev]]]
      /\ copy' = Survivors([copy EXCEPT ![a] = cp])
  BY DEF Store
<1> HIDE DEF cp, p
<1>4. /\ raw'[d][i] = cp[p.dev]
      /\ \A e \in Drivers : \A k \in PIds(e) :
           e # d \/ k # i => raw'[e][k] = raw[e][k]
  BY <1>3 DEF TypeOK, DriverType
<1>5. ASSUME NEW x \in Arrays, x \in Live'
      PROVE  copy'[x] = IF x = a THEN cp ELSE copy[x]
  BY <1>3, <1>5 DEF Survivors, TypeOK
<1>6. a \in Live' => copy'[a][p.dev] = cp[p.dev]
  BY <1>5
<1>7. ASSUME NEW x \in Arrays \cap Live', NEW e \in Devices,
             copy[x][e] # NoBuf, x = a => e = p.dev
      PROVE  copy'[x][e] = copy[x][e]
  BY <1>2, <1>5, <1>7
<1> QED BY <1>2, <1>4, <1>6, <1>7 DEF Gets, p

LEMMA ClosureGets ==
  ASSUME TypeOK, NEW i, TakeClosure(i)
  PROVE  Gets(call.drv, i, closure[Params[call.drv][i].closure])
<1> DEFINE d == call.drv
           p == Params[d][i]
           a == closure[p.closure]
<1>1. /\ d \in Drivers /\ i \in PIds(d) /\ p \in Param /\ a \in Arrays
  BY ClosureMoves
<1>2. PICK b \in FreshBufs :
        LET cp == Requested(copy[a], p, b) IN
        /\ raw' = [raw EXCEPT ![d] = [@ EXCEPT ![i] = cp[p.dev]]]
        /\ copy' = [copy EXCEPT ![a] = cp]
  BY DEF TakeClosure
<1> DEFINE cp == Requested(copy[a], p, b)
<1>3. copy[a] \in [Devices -> Mem] /\ b \in Bufs /\ p.dev \in Devices
  BY <1>1, DevIs, FreshIs DEF TypeOK
<1>4. cp[p.dev] # NoBuf /\ (copy[a][p.dev] # NoBuf => cp[p.dev] = copy[a][p.dev])
  <2> HIDE DEF p, a, d
  <2> QED BY <1>1, <1>3, RequestedIs
<1>5. /\ raw' = [raw EXCEPT ![d] = [@ EXCEPT ![i] = cp[p.dev]]]
      /\ copy' = [copy EXCEPT ![a] = cp]
  BY <1>2
<1> HIDE DEF cp, p, a, d
<1>6. /\ raw'[d][i] = cp[p.dev]
      /\ \A e \in Drivers : \A k \in PIds(e) :
           e # d \/ k # i => raw'[e][k] = raw[e][k]
  BY <1>1, <1>5 DEF TypeOK, DriverType
<1>7. \A x \in Arrays : copy'[x] = IF x = a THEN cp ELSE copy[x]
  BY <1>5 DEF TypeOK
<1>8. Gets(d, i, a)
  BY <1>1, <1>4, <1>6, <1>7 DEF Gets, p
<1> QED BY <1>8 DEF a, p, d

\* Unless the caller takes that liberty, the Array is on one device.
LEMMA Unshared ==
  ASSUME NEW i, NEW a, taken' = taken \cup Sharing(i, a), "alias" \notin taken',
         NEW j \in Used(call.drv), Bound(call.drv, j) = a
  PROVE  Params[call.drv][j].dev = Params[call.drv][i].dev
BY DEF Sharing

\* What is held stays.
LEMMA HeldLive ==
  ASSUME TypeOK', NEW d \in Drivers, NEW a \in Arrays, a \in holder'[d]
  PROVE  a \in Live'
BY LiveNext DEF LiveMeans

LEMMA HeldNow ==
  ASSUME TypeOK, NEW d \in Drivers, NEW a \in Arrays, a \in holder[d]
  PROVE  a \in Live
BY LiveIs DEF LiveMeans

\* So does what a closure refers to.
LEMMA EnclosedLive ==
  ASSUME TypeOK', NEW c \in Closures, closure'[c] # NoArray
  PROVE  closure'[c] \in Arrays \cap Live'
<1>1. closure'[c] \in Arrays
  BY DEF TypeOK
<1> QED BY <1>1, LiveNext DEF LiveMeans

LEMMA EnclosedNow ==
  ASSUME TypeOK, NEW c \in Closures, closure[c] # NoArray
  PROVE  closure[c] \in Arrays \cap Live
<1>1. closure[c] \in Arrays
  BY DEF TypeOK
<1> QED BY <1>1, LiveIs DEF LiveMeans

\* All that is not requested, lent or collected stays as it is.
LEMMA SurvivorsSame ==
  ASSUME copy' = Survivors(copy), NEW x \in Arrays \cap Live'
  PROVE  copy'[x] = copy[x]
BY DEF Survivors

Asks(i) == TakeArg(i) \/ RefuseEnclosed(i) \/ TakeClosure(i)

LEMMA Still ==
  ASSUME TypeOK, [Next]_vars, \A i : ~Asks(i),
         NEW x \in Arrays \cap Live \cap Live'
  PROVE  copy'[x] = copy[x]
<1>1. ASSUME NEW a \in Arrays, NEW u \in UserBufs, UserBorrows(a, u)
      PROVE  copy'[x] = copy[x]
  BY <1>1 DEF UserBorrows, TypeOK
<1>2. ASSUME NEW d \in Drivers, Collect(d) PROVE copy'[x] = copy[x]
  <2>1. PICK new \in [Allocated(d) -> Arrays \ Live] :
          copy' = Survivors([a \in Arrays |->
                    IF a \in Image(new)
                    THEN Only(Dev[d], rets[d][CHOOSE i \in Allocated(d) : new[i] = a])
                    ELSE copy[a]])
    BY <1>2 DEF Collect
  <2>2. x \notin Image(new)
    BY DEF Image
  <2> QED BY <2>1, <2>2 DEF Survivors
<1>3. ASSUME NEW d \in Drivers, SetArgs(d) \/ Delete(d) PROVE copy'[x] = copy[x]
  BY <1>3, SurvivorsSame DEF SetArgs, Delete
<1>4. ASSUME NEW a \in Arrays, UserDrops(a) PROVE copy'[x] = copy[x]
  BY <1>4, SurvivorsSame DEF UserDrops
<1>5. ASSUME NEW i, TakeUnused(i) \/ RefuseArg(i) PROVE copy'[x] = copy[x]
  BY <1>5, SurvivorsSame DEF TakeUnused, RefuseArg
<1>6. ASSUME NEW i, Skip(i) \/ RefuseMissing(i) PROVE copy'[x] = copy[x]
  BY <1>6 DEF Skip, RefuseMissing
<1>7. ASSUME NEW d \in Drivers, Run(d) PROVE copy'[x] = copy[x]
  BY <1>7 DEF Run
<1> QED
  BY <1>1, <1>2, <1>3, <1>4, <1>5, <1>6, <1>7
     DEF Next, Asks, SetArgsDone, vars

\* A pointer moves in a step on its parameter, or when its Driver ends.
LEMMA RawSame ==
  ASSUME TypeOK, [Next]_vars, \A i : ~Asks(i),
         NEW d \in Drivers, ~Collect(d), ~Delete(d)
  PROVE  raw'[d] = raw[d]
<1>1. ASSUME NEW e \in Drivers \ {d}, Collect(e) \/ Delete(e)
      PROVE  raw'[d] = raw[d]
  BY <1>1 DEF Collect, Delete, TypeOK
<1>2. ASSUME NEW a, UserDrops(a) \/ \E u : UserBorrows(a, u) PROVE raw' = raw
  BY <1>2 DEF UserDrops, UserBorrows
<1>3. ASSUME NEW e \in Drivers, SetArgs(e) \/ Run(e) PROVE raw' = raw
  BY <1>3 DEF SetArgs, Run
<1>4. ASSUME NEW i, \/ TakeUnused(i) \/ RefuseArg(i)
                    \/ Skip(i) \/ RefuseMissing(i)
      PROVE  raw' = raw
  BY <1>4 DEF TakeUnused, RefuseArg, Skip, RefuseMissing
<1> QED BY <1>1, <1>2, <1>3, <1>4 DEF Next, Asks, SetArgsDone, vars

\* The arguments that a step leaves served were served, or it serves them.
LEMMA ServedBefore ==
  ASSUME TypeOK, [Next]_vars, NEW d \in Drivers, NEW i \in Served(d)'
  PROVE  /\ given'[d] = given[d] /\ holder'[d] = holder[d]
         /\ Active(d)' <=> Active(d)
         /\ \/ i \in Served(d)
            \/ (TakeArg(i) \/ TakeUnused(i)) /\ Calls(d) /\ Turn(i)
         /\ ~Collect(d) /\ ~Delete(d)
<1> DEFINE Goal == /\ given'[d] = given[d] /\ holder'[d] = holder[d]
                   /\ Active(d)' <=> Active(d)
                   /\ \/ i \in Served(d)
                      \/ (TakeArg(i) \/ TakeUnused(i)) /\ Calls(d) /\ Turn(i)
<1>0. ~Collect(d) /\ ~Delete(d) /\ ~SetArgs(d)
  BY EndsIs, Begins DEF Served
<1>1. ASSUME Calm PROVE Goal
  BY <1>1, CalmIs
<1>2. ASSUME NEW j, Passes(j) PROVE Goal
  <2>1. Served(d)' = Served(d)
    BY <1>2 DEF Passes, Served, Todo, Calls
  <2> QED BY <1>2, <2>1, GoesOn
<1>3. ASSUME Throws PROVE Goal
  <2>1. d # call.drv
    BY <1>3, Stops DEF Served
  <2> QED BY <1>3, <2>1, Stops DEF Served, Todo, Active
<1>4. ASSUME NEW e \in Drivers, SetArgs(e) PROVE Goal
  BY <1>0, <1>4, Begins DEF Served, Todo, Active
<1>5. ASSUME NEW e \in Drivers, Run(e) PROVE Goal
  BY <1>5, RunIs
<1>6. ASSUME NEW e \in Drivers, Collect(e) \/ Delete(e) PROVE Goal
  BY <1>0, <1>6, EndsIs DEF Served
<1>7. ASSUME NEW j, TakeArg(j) \/ TakeUnused(j) PROVE Goal
  <2>1. Serves(j) /\ Turn(j)
    BY <1>7, ServesIs DEF TakeArg, TakeUnused
  <2>2. i \in Served(d) \/ (Calls(d) /\ i = j)
    BY <2>1, GoesOn DEF Served, Serves, Todo
  <2> QED BY <1>7, <2>1, <2>2, GoesOn
<1>8. ASSUME SetArgsDone PROVE Goal
  <2>1. Served(d)' = Served(d)
    BY <1>8, DoneIs DEF Served
  <2> QED BY <1>8, <2>1, DoneIs
<1> HIDE DEF Goal
<1>9. ASSUME NEW a, UserDrops(a) \/ \E u : UserBorrows(a, u) PROVE Goal
  BY <1>1, <1>9, CalmSteps
<1>10. ASSUME NEW j, \/ RefuseArg(j) \/ RefuseEnclosed(j) \/ RefuseMissing(j)
                     \/ Skip(j) \/ TakeClosure(j)
       PROVE  Goal
  BY <1>2, <1>3, <1>10, PassesIs, ThrowsIs
<1>11. ASSUME UNCHANGED vars PROVE Goal
  BY <1>1, <1>11, CalmSteps
<1>12. Goal
  BY <1>4, <1>5, <1>6, <1>7, <1>8, <1>9, <1>10, <1>11 DEF Next
<1> QED BY <1>0, <1>12 DEF Goal

-----------------------------------------------------------------------------
\* A request leaves the pointer to x that parameter i of the Driver has.
LEMMA GetsKeeps ==
  ASSUME TypeOK, NEW d \in Drivers, NEW k \in PIds(d), NEW a \in Arrays,
         Gets(d, k, a), taken' = taken \cup Sharing(k, a), "alias" \notin taken',
         d = call.drv, NEW i \in Used(d), i # k,
         NEW x \in Arrays \cap Live', Bound(d, i) = x,
         raw[d][i] # NoBuf, raw[d][i] = copy[x][Params[d][i].dev]
  PROVE  raw'[d][i] = copy'[x][Params[d][i].dev]
<1>1. i \in PIds(d) /\ Params[d][i].dev \in Devices
  BY DevIs DEF Used
<1>2. raw'[d][i] = raw[d][i]
  BY <1>1 DEF Gets
<1>3. x = a => Params[d][i].dev = Params[d][k].dev
  BY Unshared
<1> QED BY <1>1, <1>2, <1>3 DEF Gets

\* The facts about a request that TakeArg and TakeClosure share.
LEMMA TakeArgIs ==
  ASSUME TypeOK, NEW k, TakeArg(k)
  PROVE  /\ call.drv \in Drivers /\ Calls(call.drv) /\ k \in PIds(call.drv)
         /\ Given(k) \in Arrays /\ Serves(k) /\ Turn(k)
         /\ Gets(call.drv, k, Given(k))
         /\ taken' = taken \cup Sharing(k, Given(k))
<1>1. PICK b \in FreshBufs : Store(call.drv, k, Given(k), b)
  BY DEF TakeArg
<1>2. /\ call.drv \in Drivers /\ k \in PIds(call.drv) /\ Given(k) \in Arrays
      /\ Turn(k)
  BY TurnIs DEF TakeArg
<1> QED BY <1>1, <1>2, StoreGets, ServesIs DEF Calls, Turn, Store

LEMMA TakeClosureIs ==
  ASSUME TypeOK, NEW k, TakeClosure(k)
  PROVE  LET a == closure[Params[call.drv][k].closure] IN
         /\ call.drv \in Drivers /\ Calls(call.drv) /\ k \in PIds(call.drv)
         /\ k \in Used(call.drv) /\ raw[call.drv][k] = NoBuf
         /\ a \in Arrays /\ Passes(k)
         /\ Gets(call.drv, k, a)
         /\ taken' = taken \cup Sharing(k, a)
<1>1. /\ taken' = taken \cup Sharing(k, closure[Params[call.drv][k].closure])
      /\ k \in Used(call.drv) /\ raw[call.drv][k] = NoBuf
  BY DEF TakeClosure
<1>2. Calls(call.drv)
  BY DEF TakeClosure, AtEnd, Calls
<1> QED BY <1>1, <1>2, ClosureMoves, ClosureGets, PassesIs

LEMMA PointsToGivenStep ==
  /\ TypeOK /\ TypeOK' /\ Holds /\ Holds' /\ HasPointer /\ OneAtATime
  /\ PointsToGiven /\ [Next]_vars
  => PointsToGiven'
<1> SUFFICES ASSUME TypeOK, TypeOK', Holds, Holds', HasPointer, OneAtATime,
                    PointsToGiven, [Next]_vars,
                    taken' \cap {"interleave", "alias"} = {},
                    NEW d \in Drivers, NEW i \in Served(d)' \cap Used(d)'
             PROVE  raw'[d][i] = copy'[given'[d][i]][Params[d][i].dev]
  BY DEF PointsToGiven
<1> DEFINE x == given[d][i]
           dev == Params[d][i].dev
<1>1. i \in Used(d) /\ i \in PIds(d) /\ dev \in Devices
  BY DevIs DEF Used, Next, vars
<1>2. /\ given'[d] = given[d] /\ holder'[d] = holder[d]
      /\ ~Collect(d) /\ ~Delete(d) /\ (Active(d)' <=> Active(d))
  BY ServedBefore
<1>3. i \in DOMAIN given'[d] /\ i \in DOMAIN given[d] /\ x \in Arrays
  BY <1>2 DEF Served, TypeOK, DriverType
<1>4. x \in holder'[d] /\ x \in holder[d] /\ Active(d)
  BY <1>2, <1>3 DEF Holds
<1>5. x \in Live /\ x \in Live'
  BY <1>3, <1>4, HeldLive, HeldNow
<1>6. "interleave" \notin taken /\ "alias" \notin taken' /\ "alias" \notin taken
  BY TakenGrows
<1>7. \A e \in Drivers : Active(e) => e = d
  BY <1>4, <1>6 DEF OneAtATime
<1>8. Bound(d, i) = x
  BY <1>3 DEF Bound
<1>9. i \in Served(d) => raw[d][i] = copy[x][dev] /\ raw[d][i] # NoBuf
  BY <1>1, <1>6 DEF PointsToGiven, HasPointer
<1>10. CASE \A k : ~Asks(k)
  <2>1. i \in Served(d)
    BY <1>1, <1>10, ServedBefore DEF Asks, TakeUnused, Calls
  <2>2. raw'[d] = raw[d]
    BY <1>2, <1>10, RawSame
  <2>3. copy'[x] = copy[x]
    BY <1>3, <1>5, <1>10, Still
  <2> QED BY <1>2, <1>9, <2>1, <2>2, <2>3
<1>11. ASSUME NEW k, TakeArg(k)
       PROVE  raw'[d][i] = copy'[given'[d][i]][Params[d][i].dev]
  <2>1. /\ call.drv \in Drivers /\ Calls(call.drv) /\ k \in PIds(call.drv)
        /\ Given(k) \in Arrays /\ Serves(k) /\ Turn(k)
        /\ Gets(call.drv, k, Given(k))
        /\ taken' = taken \cup Sharing(k, Given(k))
    BY <1>11, TakeArgIs
  <2>2. d = call.drv
    BY <1>7, <2>1 DEF Active
  <2>3. i = k \/ i \in Served(d)
    BY <2>1, GoesOn DEF Served
  <2>4. CASE i = k
    <3>1. x = Given(k)
      BY <2>2, <2>4 DEF Given
    <3> QED BY <1>2, <1>5, <2>1, <2>2, <2>4, <3>1 DEF Gets
  <2>5. CASE i # k
    BY <1>1, <1>2, <1>3, <1>5, <1>6, <1>8, <1>9, <2>1, <2>2, <2>3, <2>5, GetsKeeps
  <2> QED BY <2>4, <2>5
<1>12. ASSUME NEW k, RefuseEnclosed(k) PROVE FALSE
  <2>1. Throws
    BY <1>12, ThrowsIs
  <2>2. d # call.drv
    BY <1>3, <2>1, Stops
  <2> QED BY <1>7, <2>1, <2>2, Stops DEF Active
<1>13. ASSUME NEW k, TakeClosure(k)
       PROVE  raw'[d][i] = copy'[given'[d][i]][Params[d][i].dev]
  <2> DEFINE a == closure[Params[call.drv][k].closure]
  <2>1. /\ call.drv \in Drivers /\ Calls(call.drv) /\ k \in PIds(call.drv)
        /\ raw[call.drv][k] = NoBuf
        /\ a \in Arrays /\ Passes(k)
        /\ Gets(call.drv, k, a)
        /\ taken' = taken \cup Sharing(k, a)
    BY <1>13, TakeClosureIs
  <2>2. d = call.drv
    BY <1>7, <2>1 DEF Active
  <2>3. i \in Served(d)
    BY <2>1 DEF Passes, Served, Todo, Calls
  <2>4. i # k
    BY <1>9, <2>1, <2>2, <2>3
  <2> HIDE DEF a
  <2> QED BY <1>1, <1>2, <1>3, <1>5, <1>6, <1>8, <1>9, <2>1, <2>2, <2>3, <2>4,
             GetsKeeps
<1> QED BY <1>10, <1>11, <1>12, <1>13 DEF Asks

-----------------------------------------------------------------------------
\* An argument for a parameter of Driver d enters the closure it updates.
LEMMA Encloses ==
  ASSUME TypeOK, NEW k, TakeArg(k) \/ TakeUnused(k)
  PROVE  /\ call.drv \in Drivers /\ k \in Settable(call.drv) /\ k \in PIds(call.drv)
         /\ \E a : Enclose(Params[call.drv][k], a)
         /\ \A c \in Closures :
              closure'[c] # closure[c] =>
                InClosure(Params[call.drv][k]) /\ c = Params[call.drv][k].closure
<1>1. /\ call.drv \in Drivers /\ k \in Settable(call.drv) /\ k \in PIds(call.drv)
  BY TurnIs DEF TakeArg, TakeUnused
<1>2. PICK a : Enclose(Params[call.drv][k], a)
  BY DEF TakeArg, TakeUnused
<1>3. ASSUME NEW c \in Closures, closure'[c] # closure[c]
      PROVE  InClosure(Params[call.drv][k]) /\ c = Params[call.drv][k].closure
  BY <1>2, <1>3 DEF Enclose, TypeOK
<1> QED BY <1>1, <1>2, <1>3

\* No other step but Collect sets a closure.
LEMMA ClosureSame ==
  ASSUME TypeOK, [Next]_vars, \A k : ~TakeArg(k) /\ ~TakeUnused(k),
         \A d \in Drivers : ~Collect(d)
  PROVE  closure' = closure
<1>1. ASSUME NEW d \in Drivers, SetArgs(d) \/ Run(d) \/ Delete(d)
      PROVE  closure' = closure
  BY <1>1 DEF SetArgs, Run, Delete
<1>2. ASSUME NEW a, UserDrops(a) \/ \E u : UserBorrows(a, u)
      PROVE  closure' = closure
  BY <1>2 DEF UserDrops, UserBorrows
<1>3. ASSUME NEW i, \/ RefuseArg(i) \/ RefuseEnclosed(i) \/ RefuseMissing(i)
                    \/ Skip(i) \/ TakeClosure(i)
      PROVE  closure' = closure
  BY <1>3 DEF RefuseArg, RefuseEnclosed, RefuseMissing, Throw, Skip, TakeClosure
<1> QED BY <1>1, <1>2, <1>3 DEF Next, SetArgsDone, vars

\* Collect sets the closures of its returns.
LEMMA CollectSets ==
  ASSUME TypeOK, NEW d \in Drivers, Collect(d), NEW c \in Closures,
         \A i \in RIds(d) : Returns[d][i].closure # c
  PROVE  closure'[c] = closure[c]
BY DEF Collect

LEMMA InItsClosureStep ==
  /\ TypeOK /\ TypeOK' /\ Holds /\ Holds' /\ OneAtATime /\ InItsClosure
  /\ [Next]_vars
  => InItsClosure'
<1> SUFFICES ASSUME TypeOK, TypeOK', Holds, Holds', OneAtATime, InItsClosure,
                    [Next]_vars, removed' = {},
                    NEW d \in Drivers, NEW i \in Served(d)',
                    Params[d][i].closure # NoClosure,
                    "interleave" \in taken' =>
                      \A e \in Drivers \ {d} : Params[d][i].closure \notin Writes(e)
             PROVE  closure'[Params[d][i].closure] = given'[d][i]
  BY DEF InItsClosure, Writes, Settable, PIds, RIds, InClosure
<1> DEFINE c == Params[d][i].closure
<1>0. removed = {} /\ taken \subseteq taken'
  BY TakenGrows DEF Next, vars
<1>1. /\ given'[d] = given[d] /\ ~Collect(d) /\ (Active(d)' <=> Active(d))
  BY ServedBefore
<1>2. /\ i \in DOMAIN given[d] /\ i \in PIds(d) /\ i \in Settable(d)
  BY <1>1 DEF Served, TypeOK, DriverType, Holds
<1>3. Active(d)
  BY <1>1, <1>2 DEF Holds
<1>4. c \in Closures /\ InClosure(Params[d][i])
  BY <1>2, ClosureIs DEF InClosure
<1>5. i \in Served(d) => closure[c] = given[d][i]
  BY <1>0 DEF InItsClosure
<1>6. ASSUME NEW e \in Drivers \ {d}, Active(e) PROVE c \notin Writes(e)
  BY <1>0, <1>3, <1>6 DEF OneAtATime
<1>7. CASE closure'[c] = closure[c] /\ i \in Served(d)
  BY <1>1, <1>5, <1>7
<1>8. ASSUME NEW k, TakeArg(k) \/ TakeUnused(k),
             closure'[c] # closure[c] \/ i \notin Served(d)
      PROVE  closure'[c] = given'[d][i]
  <2>1. /\ call.drv \in Drivers /\ k \in Settable(call.drv) /\ k \in PIds(call.drv)
        /\ closure'[c] # closure[c] =>
             InClosure(Params[call.drv][k]) /\ c = Params[call.drv][k].closure
    BY <1>4, <1>8, Encloses
  <2>2. Serves(k) /\ Turn(k) /\ Calls(call.drv)
    BY <1>8, ServesIs DEF TakeArg, TakeUnused, Turn, Calls
  <2>3. call.drv = d
    <3>1. CASE closure'[c] # closure[c]
      BY <1>6, <2>1, <2>2, <3>1 DEF Writes, Active
    <3>2. CASE i \notin Served(d)
      BY <3>2, ServedBefore DEF Calls
    <3> QED BY <1>8, <3>1, <3>2
  <2>4. i = k
    <3>1. CASE closure'[c] # closure[c]
      BY <1>2, <1>4, <2>1, <2>3, <3>1, OwnClosures
    <3>2. CASE i \notin Served(d)
      BY <2>2, <3>2, GoesOn DEF Served
    <3> QED BY <1>8, <3>1, <3>2
  <2>5. k \in Used(call.drv)
    BY <1>0, <2>1 DEF Used
  <2>6. TakeArg(k)
    BY <1>8, <2>5 DEF TakeUnused
  <2>7. closure' = [closure EXCEPT ![c] = given[d][i]]
    BY <1>4, <2>3, <2>4, <2>6 DEF TakeArg, Enclose, Given
  <2> QED BY <1>1, <1>4, <2>7 DEF TypeOK
<1>9. ASSUME \A k : ~TakeArg(k) /\ ~TakeUnused(k)
      PROVE  closure'[c] = closure[c] /\ i \in Served(d)
  <2>1. i \in Served(d)
    BY <1>9, ServedBefore
  <2>2. ASSUME NEW e \in Drivers, Collect(e) PROVE closure'[c] = closure[c]
    <3>1. e # d
      BY <1>1, <2>2
    <3>2. Active(e)
      BY <2>2 DEF Collect, Active, Loaded
    <3>3. c \notin Writes(e)
      BY <1>6, <3>1, <3>2
    <3> QED BY <1>4, <2>2, <3>3, CollectSets DEF Writes
  <2> QED BY <1>9, <2>1, <2>2, ClosureSame
<1> QED BY <1>7, <1>8, <1>9

-----------------------------------------------------------------------------
Refuses(k) == RefuseArg(k) \/ RefuseEnclosed(k) \/ RefuseMissing(k)

\* While no call is refused, a Driver stays as active as it is.
LEMMA ActiveSteps ==
  ASSUME TypeOK, [Next]_vars, NEW d \in Drivers, \A k : ~Refuses(k),
         ~SetArgs(d), ~Collect(d), ~Delete(d)
  PROVE  /\ Active(d)' <=> Active(d)
         /\ given'[d] = given[d] /\ holder'[d] = holder[d]
<1> DEFINE Goal == /\ Active(d)' <=> Active(d)
                   /\ given'[d] = given[d] /\ holder'[d] = holder[d]
<1>1. ASSUME Calm PROVE Goal
  BY <1>1, CalmIs
<1>2. ASSUME NEW k, \/ TakeArg(k) \/ TakeUnused(k) \/ Skip(k) \/ TakeClosure(k)
      PROVE  Goal
  BY <1>2, GoesOn, ServesIs, PassesIs DEF TakeArg, TakeUnused
<1>3. ASSUME NEW e \in Drivers, SetArgs(e) PROVE Goal
  BY <1>3, Begins DEF Active
<1>4. ASSUME NEW e \in Drivers, Run(e) PROVE Goal
  <2>1. UNCHANGED <<holder, given>>
    BY <1>4, RunIs
  <2> QED BY <1>4, <2>1, RunIs
<1>5. ASSUME NEW e \in Drivers, Collect(e) \/ Delete(e) PROVE Goal
  BY <1>5, EndsIs
<1>6. ASSUME SetArgsDone PROVE Goal
  BY <1>6, DoneIs
<1>7. ASSUME NEW a, UserDrops(a) \/ \E u : UserBorrows(a, u) PROVE Goal
  BY <1>1, <1>7, CalmSteps
<1>8. ASSUME UNCHANGED vars PROVE Goal
  BY <1>1, <1>8, CalmSteps
<1> HIDE DEF Goal
<1>9. Goal
  BY <1>2, <1>3, <1>4, <1>5, <1>6, <1>7, <1>8 DEF Next, Refuses
<1> QED BY <1>9 DEF Goal

\* A caller who gives every argument that can be set, and nothing else, of the
\* right type, is not refused.
LEMMA NoRefusal ==
  ASSUME TypeOK, HasPointer, PointsToClosure, [Next]_vars,
         taken' \subseteq {"delete"}
  PROVE  \A k : ~Refuses(k)
<1>0. taken \subseteq {"delete"}
  BY TakenGrows
<1>1. ASSUME NEW k, RefuseArg(k) PROVE FALSE
  BY <1>1 DEF RefuseArg
<1>2. ASSUME NEW k, RefuseEnclosed(k) PROVE FALSE
  <2>1. /\ call.drv \in Drivers /\ Calls(call.drv) /\ k \in DOMAIN given[call.drv]
        /\ k \notin Settable(call.drv)
    BY <1>2, TurnIs DEF RefuseEnclosed, Turn, Calls
  <2> QED BY <1>0, <2>1 DEF PointsToClosure, Active
<1>3. ASSUME NEW k, RefuseMissing(k) PROVE FALSE
  <2>1. /\ call.drv \in Drivers /\ Calls(call.drv) /\ Todo(call.drv) = {}
        /\ k \in Used(call.drv) /\ raw[call.drv][k] = NoBuf
    BY <1>3, EndIs DEF RefuseMissing, AtEnd, Calls, Todo
  <2>2. k \in Settable(call.drv)
    BY <1>3 DEF RefuseMissing
  <2>3. k \in Served(call.drv)
    BY <1>0, <2>1, <2>2 DEF PointsToClosure, Active, Served
  <2> QED BY <2>1, <2>3 DEF HasPointer
<1> QED BY <1>1, <1>2, <1>3 DEF Refuses

\* The closures that the functions of one Driver read are not those that a
\* call on it writes.
LEMMA ReadsAreNotWrites ==
  ASSUME NEW d \in Drivers, NEW i \in PIds(d) \ Settable(d)
  PROVE  Params[d][i].closure \in Closures \ Writes(d)
<1>1. InClosure(Params[d][i]) /\ Params[d][i].closure \in Closures
  BY ClosureIs DEF Settable
<1>2. ASSUME NEW j \in Settable(d) PROVE Params[d][j].closure # Params[d][i].closure
  BY <1>1, OwnClosures DEF Settable
<1>3. ASSUME NEW j \in RIds(d) PROVE Returns[d][j].closure # Params[d][i].closure
  BY <1>1, OwnClosures
<1> QED BY <1>1, <1>2, <1>3 DEF Writes

LEMMA ClosuresReadStay ==
  ASSUME TypeOK, [Next]_vars, NEW d \in Drivers, NEW i \in PIds(d) \ Settable(d),
         \A e \in Drivers : Active(e) => e = d
  PROVE  closure'[Params[d][i].closure] = closure[Params[d][i].closure]
<1> DEFINE c == Params[d][i].closure
<1>0. c \in Closures \ Writes(d)
  BY ReadsAreNotWrites
<1> HIDE DEF c
<1>1. ASSUME NEW k, TakeArg(k) \/ TakeUnused(k) PROVE closure'[c] = closure[c]
  <2>1. /\ call.drv \in Drivers /\ k \in Settable(call.drv)
        /\ closure'[c] # closure[c] => c = Params[call.drv][k].closure
    BY <1>0, <1>1, Encloses
  <2>2. Active(call.drv)
    BY <1>1 DEF TakeArg, TakeUnused, Turn, Calls, Active
  <2>3. call.drv = d
    BY <2>1, <2>2
  <2> QED BY <1>0, <2>1, <2>3 DEF Writes
<1>2. ASSUME NEW e \in Drivers, Collect(e) PROVE closure'[c] = closure[c]
  <2>1. Active(e)
    BY <1>2 DEF Collect, Active, Loaded
  <2>2. e = d
    BY <2>1
  <2> QED BY <1>0, <1>2, <2>2, CollectSets DEF Writes
<1>3. ASSUME \A k : ~TakeArg(k) /\ ~TakeUnused(k), \A e \in Drivers : ~Collect(e)
      PROVE  closure'[c] = closure[c]
  BY <1>3, ClosureSame
<1>4. closure'[c] = closure[c]
  BY <1>1, <1>2, <1>3
<1> QED BY <1>4 DEF c

LEMMA PointsToClosureStep ==
  /\ TypeOK /\ TypeOK' /\ HasPointer /\ OneAtATime
  /\ PointsToClosure /\ [Next]_vars
  => PointsToClosure'
<1> SUFFICES ASSUME TypeOK, TypeOK', HasPointer, OneAtATime,
                    PointsToClosure, [Next]_vars,
                    taken' \subseteq {"delete"}, NEW d \in Drivers
             PROVE  /\ Active(d)' =>
                         /\ DOMAIN given'[d] = Settable(d)
                         /\ \A i \in Used(d)' \ Settable(d) : raw'[d][i] # NoBuf =>
                              LET c == Params[d][i].closure IN
                              /\ closure'[c] # NoArray
                              /\ raw'[d][i] = copy'[closure'[c]][Params[d][i].dev]
                    /\ ~Active(d)' => raw'[d] = Cleared(d)
  BY DEF PointsToClosure, Settable, PIds, InClosure, Cleared
<1>0. taken \subseteq {"delete"}
  BY TakenGrows
<1>1. \A k : ~Refuses(k)
  BY NoRefusal
<1>2. \A e, f \in Drivers : Active(e) /\ Active(f) => e = f
  BY <1>0 DEF OneAtATime
<1>3. \A e \in Drivers :
        IF Active(e)
        THEN /\ DOMAIN given[e] = Settable(e)
             /\ \A i \in Used(e) \ Settable(e) : raw[e][i] # NoBuf =>
                  LET c == Params[e][i].closure IN
                  /\ closure[c] # NoArray
                  /\ raw[e][i] = copy[closure[c]][Params[e][i].dev]
        ELSE raw[e] = Cleared(e)
  BY <1>0 DEF PointsToClosure
<1>4. ASSUME NEW k, Asks(k) PROVE /\ call.drv \in Drivers /\ Active(call.drv)
                                  /\ TakeArg(k) \/ TakeClosure(k)
  BY <1>1, <1>4, TakeArgIs, TakeClosureIs DEF Asks, Refuses, Active
<1>5. CASE SetArgs(d)
  <2>1. Active(d)' /\ UNCHANGED <<raw, closure>> /\ copy' = Survivors(copy)
    BY <1>5, Begins DEF SetArgs, Active
  <2>2. DOMAIN given'[d] = Settable(d)
    <3>1. PICK s \in SUBSET PIds(d) :
            \E pos \in Positional(d, s), g \in [s -> kept] :
              /\ given' = [given EXCEPT ![d] = g]
              /\ taken' = taken \cup Liberty(d) \cup Naming(d, s)
      BY <1>5 DEF SetArgs
    <3>2. PICK g \in [s -> kept] : given' = [given EXCEPT ![d] = g]
      BY <3>1
    <3>3. Naming(d, s) \subseteq {"delete"}
      BY <3>1
    <3>4. s = Settable(d)
      BY <3>3 DEF Naming, Settable
    <3> QED BY <3>2, <3>4 DEF TypeOK
  <2>3. ASSUME NEW i \in Used(d)' \ Settable(d), raw'[d][i] # NoBuf
        PROVE  LET c == Params[d][i].closure IN
               /\ closure'[c] # NoArray
               /\ raw'[d][i] = copy'[closure'[c]][Params[d][i].dev]
    <3>1. i \in Used(d) \ Settable(d) /\ i \in PIds(d) \ Settable(d)
      BY DEF Used, Next, vars
    <3>2. raw[d][i] # NoBuf
      BY <2>1, <2>3
    <3>3. Active(d)
      BY <1>3, <3>1, <3>2 DEF Cleared
    <3> DEFINE c == Params[d][i].closure
    <3>4. closure[c] # NoArray /\ raw[d][i] = copy[closure[c]][Params[d][i].dev]
      BY <1>3, <3>1, <3>2, <3>3
    <3>5. c \in Closures
      BY <3>1, ReadsAreNotWrites
    <3>6. copy'[closure'[c]] = copy[closure[c]]
      BY <2>1, <3>4, <3>5, EnclosedLive, SurvivorsSame
    <3> QED BY <2>1, <3>4, <3>6
  <2> QED BY <2>1, <2>2, <2>3
<1>6. CASE Collect(d) \/ Delete(d)
  <2>1. raw'[d] = Cleared(d)
    BY <1>6 DEF Collect, Delete, Cleared, TypeOK
  <2> QED BY <1>6, <2>1, EndsIs
<1>7. CASE ~SetArgs(d) /\ ~Collect(d) /\ ~Delete(d)
  <2>1. (Active(d)' <=> Active(d)) /\ given'[d] = given[d]
    BY <1>1, <1>7, ActiveSteps
  <2>2. ASSUME ~Active(d) PROVE raw'[d] = Cleared(d)
    <3>1. raw'[d] = raw[d]
      <4>1. CASE \A k : ~Asks(k)
        BY <1>7, <4>1, RawSame
      <4>2. ASSUME NEW k, Asks(k) PROVE raw'[d] = raw[d]
        <5>1. PICK e \in Drivers : e = call.drv /\ e # d
          BY <1>4, <2>2, <4>2
        <5>2. PICK j \in PIds(e) : \E a : Gets(e, j, a)
          BY <1>4, <4>2, <5>1, TakeArgIs, TakeClosureIs
        <5>3. \A i \in PIds(d) : raw'[d][i] = raw[d][i]
          BY <5>1, <5>2 DEF Gets
        <5> QED BY <5>3 DEF TypeOK, DriverType
      <4> QED BY <4>1, <4>2
    <3> QED BY <1>3, <2>2, <3>1
  <2>3. ASSUME Active(d), NEW i \in Used(d)' \ Settable(d), raw'[d][i] # NoBuf
        PROVE  LET c == Params[d][i].closure IN
               /\ closure'[c] # NoArray
               /\ raw'[d][i] = copy'[closure'[c]][Params[d][i].dev]
    <3> DEFINE c == Params[d][i].closure
               dev == Params[d][i].dev
               x == closure[c]
    <3>1. /\ i \in Used(d) \ Settable(d) /\ i \in PIds(d) \ Settable(d)
          /\ dev \in Devices /\ c \in Closures
      BY DevIs, ReadsAreNotWrites DEF Used, Next, vars
    <3>2. closure'[c] = x
      BY <1>2, <2>3, <3>1, ClosuresReadStay
    <3>3. raw[d][i] # NoBuf => /\ x # NoArray /\ raw[d][i] = copy[x][dev]
                               /\ x \in Arrays \cap Live /\ x \in Live'
      <4>1. raw[d][i] # NoBuf => x # NoArray /\ raw[d][i] = copy[x][dev]
        BY <1>3, <2>3, <3>1
      <4> QED BY <3>1, <3>2, <4>1, EnclosedLive, EnclosedNow
    <3>4. InClosure(Params[d][i]) /\ i \notin DOMAIN given[d]
      BY <1>3, <2>3, <3>1 DEF Settable
    <3>5. Bound(d, i) = x
      BY <3>4 DEF Bound
    <3>6. ASSUME \A k : ~Asks(k) PROVE x # NoArray /\ raw'[d][i] = copy'[x][dev]
      <4>1. raw'[d] = raw[d]
        BY <1>7, <3>6, RawSame
      <4>2. raw[d][i] # NoBuf
        BY <2>3, <4>1
      <4>3. copy'[x] = copy[x]
        BY <3>3, <3>6, <4>2, Still
      <4> QED BY <3>3, <4>1, <4>2, <4>3
    <3>7. ASSUME NEW k, TakeArg(k) PROVE x # NoArray /\ raw'[d][i] = copy'[x][dev]
      <4>1. /\ call.drv \in Drivers /\ Calls(call.drv) /\ k \in PIds(call.drv)
            /\ Given(k) \in Arrays /\ Turn(k)
            /\ Gets(call.drv, k, Given(k))
            /\ taken' = taken \cup Sharing(k, Given(k))
        BY <3>7, TakeArgIs
      <4>2. d = call.drv
        BY <1>2, <2>3, <4>1 DEF Active
      <4>3. i # k
        BY <3>1, <3>7, <4>2 DEF TakeArg
      <4>4. raw[d][i] # NoBuf
        BY <2>3, <3>1, <4>1, <4>2, <4>3 DEF Gets
      <4> HIDE DEF x, dev, c
      <4>5. raw'[d][i] = copy'[x][Params[d][i].dev]
        BY <3>1, <3>3, <3>5, <4>1, <4>2, <4>3, <4>4, GetsKeeps DEF dev
      <4> QED BY <3>3, <4>4, <4>5 DEF dev
    <3>8. ASSUME NEW k, TakeClosure(k) PROVE x # NoArray /\ raw'[d][i] = copy'[x][dev]
      <4> DEFINE a == closure[Params[call.drv][k].closure]
      <4>1. /\ call.drv \in Drivers /\ Calls(call.drv) /\ k \in PIds(call.drv)
            /\ a \in Arrays /\ Gets(call.drv, k, a)
            /\ taken' = taken \cup Sharing(k, a)
        BY <3>8, TakeClosureIs
      <4>2. d = call.drv
        BY <1>2, <2>3, <4>1 DEF Active
      <4>3. CASE i = k
        <5>1. x = a
          BY <4>2, <4>3
        <5>2. x # NoArray
          BY <3>8, <4>2, <4>3 DEF TakeClosure
        <5>3. x \in Live'
          BY <3>1, <3>2, <5>2, EnclosedLive
        <5> QED BY <4>1, <4>2, <4>3, <5>1, <5>2, <5>3 DEF Gets
      <4>4. CASE i # k
        <5>1. raw[d][i] # NoBuf
          BY <2>3, <3>1, <4>1, <4>2, <4>4 DEF Gets
        <5> HIDE DEF x, dev, c, a
        <5>2. raw'[d][i] = copy'[x][Params[d][i].dev]
          BY <3>1, <3>3, <3>5, <4>1, <4>2, <4>4, <5>1, GetsKeeps DEF dev
        <5> QED BY <3>3, <5>1, <5>2 DEF dev
      <4> QED BY <4>3, <4>4
    <3>9. x # NoArray /\ raw'[d][i] = copy'[x][dev]
      BY <1>4, <3>6, <3>7, <3>8
    <3> QED BY <3>2, <3>9
  <2> QED BY <1>3, <2>1, <2>2, <2>3
<1> QED BY <1>5, <1>6, <1>7

-----------------------------------------------------------------------------
\* No step but UserBorrows lends user memory to an Array, and that Array is new.
LEMMA NativeStays ==
  ASSUME TypeOK, TypeOK', [Next]_vars, NEW x \in Arrays \cap Live, Native(x)
  PROVE  Native(x)'
<1>0. Bufs \cap UserBufs = {} /\ NoBuf \notin UserBufs
  BY DriverAssumption
<1>1. ASSUME Keeps PROVE Native(x)'
  BY <1>0, <1>1 DEF Keeps, Native
<1>2. ASSUME NEW a, NEW dev, NEW b \in FreshBufs, Moves(a, dev, b)
      PROVE  Native(x)'
  <2>1. b \in Bufs
    BY DEF FreshBufs
  <2> QED BY <1>0, <1>2, <2>1 DEF Moves, Native
<1>3. ASSUME copy'[x] = copy[x] PROVE Native(x)'
  BY <1>3 DEF Native
<1>4. ASSUME NEW d \in Drivers, Collect(d) PROVE Native(x)'
  <2>1. PICK new \in [Allocated(d) -> Arrays \ Live] :
          copy' = Survivors([a \in Arrays |->
                    IF a \in Image(new)
                    THEN Only(Dev[d], rets[d][CHOOSE i \in Allocated(d) : new[i] = a])
                    ELSE copy[a]])
    BY <1>4 DEF Collect
  <2>2. x \notin Image(new)
    BY DEF Image
  <2>3. copy'[x] \in {copy[x], NoCopy}
    BY <2>1, <2>2 DEF Survivors
  <2> QED BY <1>0, <2>3 DEF Native, NoCopy
<1>5. ASSUME NEW k, Asks(k) PROVE Native(x)'
  <2>1. CASE UNCHANGED copy
    BY <1>3, <2>1
  <2>2. ASSUME NEW b \in FreshBufs, Store(call.drv, k, Given(k), b), Turn(k)
        PROVE  Native(x)'
    BY <1>2, <2>2, StoreMoves, TurnIs
  <2>3. CASE TakeClosure(k)
    BY <1>2, <2>3, ClosureMoves
  <2> QED BY <1>5, <2>1, <2>2, <2>3 DEF Asks, TakeArg, RefuseEnclosed
<1>6. ASSUME NEW a \in Arrays, NEW u \in UserBufs, UserBorrows(a, u)
      PROVE  Native(x)'
  BY <1>3, <1>6 DEF UserBorrows, TypeOK
<1>7. ASSUME copy' = Survivors(copy) PROVE Native(x)'
  BY <1>1, <1>7, SurvivorsKeep
<1>8. CASE UNCHANGED copy
  BY <1>3, <1>8
<1>9. ASSUME NEW k, \/ TakeUnused(k) \/ RefuseArg(k) \/ RefuseMissing(k) \/ Skip(k)
      PROVE  Native(x)'
  BY <1>7, <1>8, <1>9 DEF TakeUnused, RefuseArg, RefuseMissing, Skip
<1>10. ASSUME NEW d \in Drivers, SetArgs(d) \/ Run(d) \/ Delete(d)
       PROVE  Native(x)'
  BY <1>7, <1>8, <1>10 DEF SetArgs, Run, Delete
<1>11. ASSUME NEW a, UserDrops(a) PROVE Native(x)'
  BY <1>7, <1>11 DEF UserDrops
<1>12. ASSUME SetArgsDone \/ UNCHANGED vars PROVE Native(x)'
  BY <1>8, <1>12 DEF SetArgsDone, vars
<1> QED
  BY <1>4, <1>5, <1>6, <1>9, <1>10, <1>11, <1>12 DEF Next, Asks

\* What the closure of a parameter refers to after its argument was taken.
LEMMA TakesHeld ==
  ASSUME TypeOK, Holds, ArgsHeld, NEW k, TakeArg(k) \/ TakeUnused(k),
         NEW d \in Drivers, d = call.drv, InClosure(Params[d][k])
  PROVE  closure'[Params[d][k].closure] \in holder[d] \cup {NoArray}
<1> DEFINE c == Params[d][k].closure
<1>1. /\ k \in DOMAIN given[d] /\ k \in PIds(d) /\ c \in Closures
  BY TurnIs, ClosureIs DEF TakeArg, TakeUnused
<1>2. Given(k) \in holder[d]
  BY <1>1 DEF Given, Holds
<1>3. CASE TakeArg(k)
  <2>1. closure' = [closure EXCEPT ![c] = Given(k)]
    BY <1>3 DEF TakeArg, Enclose
  <2> QED BY <1>1, <1>2, <2>1 DEF TypeOK
<1>4. CASE TakeUnused(k)
  <2>1. args[d][k] = NoArray
    BY <1>1, <1>4 DEF TakeUnused, ArgsHeld
  <2>2. closure' \in {[closure EXCEPT ![c] = Given(k)],
                      [closure EXCEPT ![c] = args[d][k]]}
    BY <1>4 DEF TakeUnused, Enclose
  <2> QED BY <1>1, <1>2, <2>1, <2>2 DEF TypeOK
<1> QED BY <1>3, <1>4

LEMMA ClosuresHeldStep ==
  /\ TypeOK /\ TypeOK' /\ Holds /\ HasPointer /\ OneAtATime /\ PointsToClosure
  /\ PointsToClosure' /\ ClosuresHeld /\ [Next]_vars
  => ClosuresHeld'
<1> SUFFICES ASSUME TypeOK, TypeOK', Holds, HasPointer, OneAtATime,
                    PointsToClosure, PointsToClosure', ClosuresHeld,
                    [Next]_vars, taken' = {}
             PROVE  EnclosedHeld' /\ ServedHeld' /\ ArgsHeld'
  BY DEF ClosuresHeld
<1>0. taken = {}
  BY TakenGrows
<1>1. EnclosedHeld /\ ServedHeld /\ ArgsHeld
  BY <1>0 DEF ClosuresHeld
<1>2. (\A k : ~Refuses(k)) /\ (\A d \in Drivers : ~Delete(d))
  BY NoRefusal DEF Delete
<1>3. \A d, e \in Drivers : Active(d) /\ Active(e) => d = e
  BY <1>0 DEF OneAtATime
<1>4. ASSUME NEW d \in Drivers, Active(d)'
      PROVE  DOMAIN given'[d] = Settable(d)
  BY <1>4 DEF PointsToClosure, Settable, PIds, InClosure
<1>5. ASSUME NEW d \in Drivers, Collect(d)
      PROVE  /\ Active(d) /\ Served(d) = Settable(d) /\ holder' = holder
             /\ \A i \in PIds(d) : args[d][i] \in holder[d] \cup {NoArray}
  <2>1. Active(d) /\ Todo(d) = {} /\ holder' = holder
    BY <1>5, EndsIs DEF Collect, Active, Loaded
  <2>2. DOMAIN given[d] = Settable(d)
    BY <1>0, <2>1 DEF PointsToClosure
  <2> QED BY <1>1, <2>1, <2>2 DEF Served, ArgsHeld
<1>6. ASSUME NEW k, TakeArg(k) \/ TakeUnused(k), NEW d \in Drivers, d = call.drv
      PROVE  k \in Settable(d) /\ holder' = holder
  BY <1>6 DEF TakeArg, TakeUnused
<1>7. ASSUME NEW c \in Closures, NEW x, x = closure'[c]
      PROVE  \/ x = NoArray
             \/ Native(x)'
             \/ \E d \in Drivers : c \in Writes(d) /\ (x \in holder'[d] \/ Active(d)')
  <2> DEFINE Goal == \/ x = NoArray
                     \/ Native(x)'
                     \/ \E d \in Drivers :
                          c \in Writes(d) /\ (x \in holder'[d] \/ Active(d)')
  <2>1. ASSUME NEW k, TakeArg(k) \/ TakeUnused(k), x # closure[c] PROVE Goal
    <3>1. PICK d \in Drivers : d = call.drv
      BY <2>1, Encloses
    <3>2. InClosure(Params[d][k]) /\ c = Params[d][k].closure
      BY <1>7, <2>1, <3>1, Encloses
    <3>3. c \in Writes(d) /\ holder' = holder
      BY <1>6, <2>1, <3>1, <3>2 DEF Writes
    <3>4. x \in holder[d] \cup {NoArray}
      BY <1>1, <1>7, <2>1, <3>1, <3>2, TakesHeld
    <3> QED BY <3>3, <3>4
  <2>2. ASSUME NEW d \in Drivers, Collect(d), NEW r \in RIds(d),
               Returns[d][r].closure = c
        PROVE  Goal
    <3>1. PICK new \in [Allocated(d) -> Arrays \ Live] :
            LET val == [i \in RIds(d) |-> IF i \in Allocated(d) THEN new[i]
                                          ELSE args[d][Returns[d][i].arg]]
            IN
            /\ closure' = [e \in Closures |->
                             IF \E i \in RIds(d) : Returns[d][i].closure = e
                             THEN val[CHOOSE i \in RIds(d) : Returns[d][i].closure = e]
                             ELSE closure[e]]
            /\ copy' = Survivors([a \in Arrays |->
                         IF a \in Image(new)
                         THEN Only(Dev[d], rets[d][CHOOSE i \in Allocated(d) : new[i] = a])
                         ELSE copy[a]])
      BY <2>2 DEF Collect
    <3>2. PICK i \in RIds(d) : x = IF i \in Allocated(d) THEN new[i]
                                   ELSE args[d][Returns[d][i].arg]
      BY <1>7, <2>2, <3>1
    <3>3. CASE i \in Allocated(d)
      <4>1. PICK k \in Allocated(d) :
              k = (CHOOSE j \in Allocated(d) : new[j] = x) /\ new[k] = x
        BY <3>2, <3>3
      <4>2. x \in Image(new) /\ x \in Arrays
        BY <3>2, <3>3 DEF Image
      <4>3. copy'[x] \in {Only(Dev[d], rets[d][k]), NoCopy}
        BY <3>1, <4>1, <4>2 DEF Survivors
      <4>4. rets[d][k] \in Bufs \cup {NoBuf} /\ Dev[d] \in Devices
        BY FuncAssumption DEF Allocated, TypeOK, DriverType
      <4>5. \A e \in Devices : copy'[x][e] \in Bufs \cup {NoBuf}
        BY <4>3, <4>4, OnlyIs DEF NoCopy, Mem
      <4> QED BY <4>5, DriverAssumption DEF Native
    <3>4. CASE i \notin Allocated(d)
      <4>1. Returns[d][i].arg \in PIds(d)
        BY <3>4, FuncAssumption DEF Allocated, PIds, RIds
      <4>2. x \in holder'[d] \cup {NoArray}
        BY <1>5, <2>2, <3>2, <3>4, <4>1
      <4>3. c \in Writes(d)
        BY <2>2 DEF Writes
      <4> QED BY <4>2, <4>3
    <3> QED BY <3>3, <3>4
  <2>3. ASSUME x = closure[c],
               \A d \in Drivers : \A r \in RIds(d) :
                 Collect(d) => Returns[d][r].closure # c
        PROVE  Goal
    <3>1. CASE Native(x) /\ x # NoArray
      <4>1. x \in Arrays \cap Live
        BY <2>3, <3>1, EnclosedNow
      <4> QED BY <3>1, <4>1, NativeStays
    <3>2. ASSUME NEW d \in Drivers, c \in Writes(d), x \in holder[d] \/ Active(d)
          PROVE  Goal
      <4>1. CASE SetArgs(d)
        BY <3>2, <4>1, Begins DEF Active
      <4>2. CASE Collect(d)
        <5>1. PICK i \in Settable(d) : c = Params[d][i].closure
          BY <2>3, <3>2, <4>2 DEF Writes
        <5>2. InClosure(Params[d][i])
          BY <5>1, DriverAssumption DEF InClosure
        <5>3. x \in holder[d] \cup {NoArray} /\ holder' = holder
          BY <1>1, <1>5, <2>3, <4>2, <5>1, <5>2 DEF ServedHeld
        <5> QED BY <3>2, <5>3
      <4>3. CASE ~SetArgs(d) /\ ~Collect(d)
        BY <1>2, <3>2, <4>3, ActiveSteps
      <4> QED BY <4>1, <4>2, <4>3
    <3> QED BY <1>1, <2>3, <3>1, <3>2 DEF EnclosedHeld
  <2>4. ASSUME \A k : ~TakeArg(k) /\ ~TakeUnused(k), x # closure[c]
        PROVE  \E d \in Drivers : \E r \in RIds(d) :
                 Collect(d) /\ Returns[d][r].closure = c
    BY <1>7, <2>4, ClosureSame, CollectSets
  <2> HIDE DEF Goal
  <2>5. Goal
    BY <2>1, <2>2, <2>3, <2>4
  <2> QED BY <2>5 DEF Goal
<1>8. ASSUME NEW d \in Drivers, NEW i \in Served(d)', InClosure(Params[d][i])
      PROVE  closure'[Params[d][i].closure] \in holder'[d] \cup {NoArray}
  <2> DEFINE c == Params[d][i].closure
  <2>1. /\ given'[d] = given[d] /\ holder'[d] = holder[d]
        /\ ~Collect(d) /\ (Active(d)' <=> Active(d))
        /\ \/ i \in Served(d)
           \/ (TakeArg(i) \/ TakeUnused(i)) /\ Calls(d) /\ Turn(i)
    BY ServedBefore
  <2>2. i \in DOMAIN given[d] /\ i \in PIds(d)
    BY <2>1 DEF Served, TypeOK, DriverType
  <2>3. Active(d) /\ c \in Closures
    BY <1>8, <2>2, ClosureIs DEF Holds
  <2>4. i \in Served(d) => closure[c] \in holder[d] \cup {NoArray}
    BY <1>1, <1>8 DEF ServedHeld
  <2>5. ASSUME NEW k, TakeArg(k) \/ TakeUnused(k), closure'[c] # closure[c]
        PROVE  k = i /\ d = call.drv
    <3>1. /\ call.drv \in Drivers /\ k \in PIds(call.drv)
          /\ InClosure(Params[call.drv][k]) /\ c = Params[call.drv][k].closure
      BY <2>3, <2>5, Encloses
    <3>2. Active(call.drv)
      BY <2>5 DEF TakeArg, TakeUnused, Turn, Calls, Active
    <3>3. d = call.drv
      BY <1>3, <2>3, <3>1, <3>2
    <3> QED BY <1>8, <2>2, <3>1, <3>3, OwnClosures
  <2>6. ASSUME TakeArg(i) \/ TakeUnused(i), d = call.drv
        PROVE  closure'[c] \in holder[d] \cup {NoArray}
    BY <1>1, <1>8, <2>6, TakesHeld
  <2>7. CASE closure'[c] = closure[c] /\ i \in Served(d)
    BY <2>1, <2>4, <2>7
  <2>8. ASSUME \A k : ~TakeArg(k) /\ ~TakeUnused(k)
        PROVE  closure'[c] = closure[c]
    <3>1. ASSUME NEW e \in Drivers, Collect(e) PROVE FALSE
      <4>1. Active(e)
        BY <1>5, <3>1
      <4>2. e = d
        BY <1>3, <2>3, <4>1
      <4> QED BY <2>1, <3>1, <4>2
    <3> QED BY <2>8, <3>1, ClosureSame
  <2>9. i \in Served(d) \/ ((TakeArg(i) \/ TakeUnused(i)) /\ d = call.drv)
    BY <2>1 DEF Calls
  <2> HIDE DEF c
  <2>10. closure'[c] \in holder[d] \cup {NoArray}
    BY <2>4, <2>5, <2>6, <2>8, <2>9
  <2> QED BY <2>1, <2>10 DEF c
<1>9. ASSUME NEW d \in Drivers, NEW i \in PIds(d), args'[d][i] # NoArray
      PROVE  /\ i \in Settable(d) \cap Used(d)'
             /\ i \in Todo(d)' \/ args'[d][i] \in holder'[d]
  <2> DEFINE Goal == /\ i \in Settable(d) \cap Used(d)
                     /\ i \in Todo(d)' \/ args'[d][i] \in holder'[d]
  <2>0. Used(d)' = Used(d)
    BY DEF Used, PIds, Next, vars
  <2>1. ASSUME args'[d][i] = args[d][i],
               i \in Todo(d) => i \in Todo(d)',
               args[d][i] \in holder[d] => args[d][i] \in holder'[d]
        PROVE  Goal
    BY <1>1, <1>9, <2>1 DEF ArgsHeld
  <2>2. ASSUME SetArgs(d) PROVE Goal
    <3>1. Active(d)' /\ Todo(d)' = DOMAIN given'[d] /\ args' = args
      BY <2>2, Begins DEF SetArgs, Active
    <3>2. Todo(d)' = Settable(d)
      BY <1>4, <3>1
    <3> QED BY <1>1, <1>9, <3>1, <3>2 DEF ArgsHeld
  <2>3. ASSUME NEW e \in Drivers \ {d}, SetArgs(e) PROVE Goal
    <3>1. args' = args /\ Todo(d)' = Todo(d) /\ holder'[d] = holder[d]
      BY <2>3, Begins DEF SetArgs, Todo
    <3> QED BY <2>1, <3>1
  <2>4. ASSUME NEW e \in Drivers, Collect(e) PROVE Goal
    <3>1. args' = [args EXCEPT ![e] = [j \in PIds(e) |-> NoArray]] /\ holder' = holder
      BY <2>4 DEF Collect
    <3>2. d # e /\ args'[d] = args[d]
      BY <1>9, <3>1 DEF TypeOK
    <3>3. Todo(d) = {}
      BY <2>4, EndsIs
    <3> QED BY <2>1, <3>1, <3>2, <3>3
  <2>5. ASSUME NEW k, TakeArg(k) PROVE Goal
    <3>1. PICK e \in Drivers : e = call.drv
      BY <2>5, TurnIs DEF TakeArg
    <3>2. /\ args' = [args EXCEPT ![e] = [@ EXCEPT ![k] = Given(k)]]
          /\ k \in Settable(e) \cap Used(e) /\ k \in DOMAIN given[e]
      BY <2>5, <3>1, TurnIs DEF TakeArg, Store
    <3>3. Serves(k) /\ Turn(k)
      BY <2>5, TakeArgIs
    <3>4. Todo(d)' = Todo(d) \ {k} /\ holder'[d] = holder[d]
      BY <3>3, GoesOn
    <3>5. CASE d = e /\ i = k
      <4>1. args'[d][i] = given[d][k]
        BY <3>1, <3>2, <3>5 DEF TypeOK, DriverType, Given
      <4>2. given[d][k] \in holder[d]
        BY <3>2, <3>5 DEF Holds
      <4> QED BY <3>2, <3>4, <3>5, <4>1, <4>2
    <3>6. CASE d # e
      <4>1. args'[d][i] = args[d][i]
        BY <3>2, <3>6 DEF TypeOK, DriverType
      <4>2. Todo(d) = {}
        BY <3>1, <3>6 DEF Todo, Calls
      <4> QED BY <2>1, <3>4, <4>1, <4>2
    <3>7. CASE i # k
      <4>1. args'[d][i] = args[d][i]
        BY <3>2, <3>7 DEF TypeOK, DriverType
      <4> QED BY <2>1, <3>4, <3>7, <4>1
    <3> QED BY <3>5, <3>6, <3>7
  <2>6. ASSUME NEW k, TakeUnused(k) PROVE Goal
    <3>1. Serves(k) /\ Turn(k) /\ args' = args /\ k \notin Used(call.drv)
      BY <2>6, ServesIs DEF TakeUnused
    <3>2. Todo(d)' = Todo(d) \ {k} /\ holder'[d] = holder[d]
      BY <3>1, GoesOn
    <3>3. i \in Todo(d) => i # k
      BY <1>1, <1>9, <3>1 DEF ArgsHeld, Todo, Calls
    <3> QED BY <2>1, <3>1, <3>2, <3>3
  <2>7. ASSUME NEW k, Skip(k) \/ TakeClosure(k) PROVE Goal
    <3>1. Passes(k) /\ args' = args
      BY <2>7, PassesIs DEF Skip, TakeClosure
    <3>2. Todo(d)' = Todo(d) /\ holder'[d] = holder[d]
      BY <3>1 DEF Passes, Todo, Calls
    <3> QED BY <2>1, <3>1, <3>2
  <2>8. ASSUME SetArgsDone PROVE Goal
    <3>1. args' = args
      BY <2>8 DEF SetArgsDone
    <3> QED BY <2>1, <2>8, <3>1, DoneIs
  <2>9. ASSUME NEW e \in Drivers, Run(e) PROVE Goal
    <3>1. args' = args /\ holder' = holder /\ Todo(d)' = Todo(d)
      BY <2>9, RunIs DEF Run
    <3> QED BY <2>1, <3>1
  <2>10. ASSUME Calm, args' = args PROVE Goal
    BY <2>1, <2>10, CalmIs
  <2>11. ASSUME NEW a, UserDrops(a) \/ \E u : UserBorrows(a, u) PROVE Goal
    BY <2>10, <2>11, CalmSteps DEF UserDrops, UserBorrows
  <2>12. ASSUME UNCHANGED vars PROVE Goal
    BY <2>10, <2>12, CalmSteps DEF vars
  <2> HIDE DEF Goal
  <2>13. Goal
    BY <1>2, <2>2, <2>3, <2>4, <2>5, <2>6, <2>7, <2>8, <2>9, <2>11, <2>12
       DEF Next, Refuses
  <2> QED BY <2>0, <2>13 DEF Goal
<1> QED
  BY <1>7, <1>8, <1>9 DEF EnclosedHeld, ServedHeld, ArgsHeld, Native,
     Writes, Settable, PIds, RIds, InClosure

-----------------------------------------------------------------------------
LEMMA InitIInv == Init => IInv
<1> SUFFICES ASSUME Init PROVE IInv
  OBVIOUS
<1>1. TypeOK
  BY NoCopyType, NothingGiven DEF Init, TypeOK, DriverType, Mem
<1>2. \A d \in Drivers : ~Calls(d) /\ d \notin Loaded /\ DOMAIN given[d] = {}
  BY NothingGiven DEF Init, Calls, Loaded
<1>3. \A d \in Drivers : ~Active(d) /\ Served(d) = {}
  BY <1>2 DEF Active, Served
<1>4. Owned
  <2>1. \A a \in Arrays : copy[a] = NoCopy
    BY DEF Init
  <2>2. \A a \in Arrays : \A e \in Devices : copy[a][e] = NoBuf
    BY <2>1 DEF NoCopy
  <2>3. \A d \in Drivers : \A i \in RIds(d) : rets[d][i] = NoBuf
    BY DEF Init
  <2>4. NoBuf \notin Bufs
    BY DriverAssumption
  <2> QED BY <2>1, <2>2, <2>3, <2>4 DEF Owned, DeadEmpty, CopiesApart, ReturnsApart
<1>5. Holds
  BY <1>2, <1>3 DEF Holds
<1>6. HasPointer /\ OneAtATime /\ PointsToGiven
  BY <1>2, <1>3 DEF HasPointer, OneAtATime, PointsToGiven
<1>7. PointsToClosure
  BY <1>3 DEF PointsToClosure, Init, Cleared
<1>8. InItsClosure
  BY <1>3 DEF InItsClosure
<1>9. ClosuresHeld
  BY <1>3 DEF ClosuresHeld, EnclosedHeld, ServedHeld, ArgsHeld, Init
<1> QED BY <1>1, <1>4, <1>5, <1>6, <1>7, <1>8, <1>9 DEF IInv

LEMMA StepIInv == IInv /\ [Next]_vars => IInv'
<1> SUFFICES ASSUME IInv, [Next]_vars PROVE IInv'
  OBVIOUS
<1>0. /\ TypeOK /\ Owned /\ Holds /\ HasPointer /\ OneAtATime
      /\ PointsToGiven /\ PointsToClosure /\ InItsClosure /\ ClosuresHeld
  BY DEF IInv
<1>1. TypeOK'
  BY <1>0, TypeStep
<1>2. Owned'
  BY <1>0, <1>1, OwnedStep
<1>3. Holds'
  BY <1>0, <1>1, HoldsStep
<1>4. HasPointer'
  BY <1>0, <1>1, HasPointerStep
<1>5. OneAtATime'
  BY <1>0, OneAtATimeStep
<1>6. PointsToGiven'
  BY <1>0, <1>1, <1>3, PointsToGivenStep
<1>7. PointsToClosure'
  BY <1>0, <1>1, PointsToClosureStep
<1>8. InItsClosure'
  BY <1>0, <1>1, <1>3, InItsClosureStep
<1>9. ClosuresHeld'
  BY <1>0, <1>1, <1>7, ClosuresHeldStep
<1> QED BY <1>1, <1>2, <1>3, <1>4, <1>5, <1>6, <1>7, <1>8, <1>9 DEF IInv

\* The inductive invariant holds in every reachable state.
THEOREM Invariant == Spec => []IInv
<1>1. Init => IInv
  BY InitIInv
<1>2. IInv /\ [Next]_vars => IInv'
  BY StepIInv
<1> QED BY <1>1, <1>2, PTL DEF Spec

\* The state is well typed: a driver keeps one pointer per parameter and per
\* return of its function (driver.h:40-48), and a call that is running names
\* arguments it was given, for a Driver that is not loaded.
THEOREM TypeCorrect == Spec => []TypeOK
<1>1. IInv => TypeOK
  BY DEF IInv
<1> QED BY <1>1, Invariant, PTL

-----------------------------------------------------------------------------
\* The facts about a Driver whose pointers the program is about to use.
LEMMA LoadedIs ==
  ASSUME IInv, NEW d \in Loaded
  PROVE  /\ d \in Drivers /\ Active(d) /\ Todo(d) = {} /\ Served(d) = DOMAIN given[d]
         /\ \A i \in Used(d) : raw[d][i] # NoBuf
         /\ \A i \in DOMAIN given[d] :
              given[d][i] \in Arrays /\ given[d][i] \in holder[d]
         /\ DOMAIN given[d] \subseteq Settable(d)
<1>1. d \in Drivers /\ state[d] \in {"ready", "ran"}
  BY DEF Loaded
<1>2. TypeOK /\ Holds /\ HasPointer
  BY DEF IInv
<1>3. ~Calls(d)
  BY <1>1, <1>2 DEF Calls, TypeOK
<1>4. Todo(d) = {} /\ Active(d) /\ Served(d) = DOMAIN given[d]
  BY <1>3 DEF Todo, Active, Served
<1>5. \A i \in Used(d) : raw[d][i] # NoBuf
  BY <1>1, <1>2 DEF HasPointer
<1>6. \A i \in DOMAIN given[d] : given[d][i] \in Arrays /\ given[d][i] \in holder[d]
  BY <1>1, <1>2 DEF TypeOK, DriverType, Holds
<1>7. DOMAIN given[d] \subseteq Settable(d)
  BY <1>1, <1>2, <1>4 DEF Holds
<1> QED BY <1>1, <1>4, <1>5, <1>6, <1>7

\* The pointer of a parameter is to the copy of what is bound to it.
LEMMA BoundIs ==
  ASSUME IInv, taken \subseteq {"delete"}, NEW d \in Loaded, NEW i \in Used(d)
  PROVE  /\ raw[d][i] = copy[Bound(d, i)][Params[d][i].dev]
         /\ Bound(d, i) \in Arrays \cap Live
         /\ \/ Bound(d, i) \in holder[d]
            \/ /\ i \in PIds(d) \ Settable(d)
               /\ Bound(d, i) = closure[Params[d][i].closure]
<1>1. TypeOK /\ PointsToGiven /\ PointsToClosure
  BY DEF IInv
<1>2. /\ d \in Drivers /\ Active(d) /\ i \in PIds(d) /\ raw[d][i] # NoBuf
      /\ DOMAIN given[d] = Settable(d) /\ Served(d) = DOMAIN given[d]
  BY <1>1, LoadedIs DEF PointsToClosure, Used
<1>3. CASE i \in Settable(d)
  <2>1. Bound(d, i) = given[d][i]
    BY <1>2, <1>3 DEF Bound
  <2>2. given[d][i] \in Arrays /\ given[d][i] \in holder[d]
    BY <1>2, <1>3, LoadedIs
  <2>3. raw[d][i] = copy[given[d][i]][Params[d][i].dev]
    BY <1>1, <1>2, <1>3 DEF PointsToGiven
  <2> QED BY <1>1, <1>2, <2>1, <2>2, <2>3, HeldNow
<1>4. CASE i \notin Settable(d)
  <2>1. /\ closure[Params[d][i].closure] # NoArray
        /\ raw[d][i] = copy[closure[Params[d][i].closure]][Params[d][i].dev]
    BY <1>1, <1>2, <1>4 DEF PointsToClosure
  <2>2. Params[d][i].closure \in Closures /\ InClosure(Params[d][i])
    BY <1>2, <1>4, ReadsAreNotWrites DEF Settable
  <2>3. Bound(d, i) = closure[Params[d][i].closure]
    BY <1>2, <1>4, <2>2 DEF Bound
  <2> QED BY <1>1, <1>2, <1>4, <2>1, <2>2, <2>3, EnclosedNow
<1> QED BY <1>3, <1>4

\* Every pointer handed to the program is to memory that somebody still owns,
\* for any functions that share closures and any number of Arrays: Driver::run
\* (driver.cc:349) reads and writes no memory that was freed, as long as the
\* caller takes no liberty.
THEOREM Alive == Spec => []AliveAtRun
<1>1. IInv => AliveAtRun
  <2> SUFFICES ASSUME IInv, taken = {}, NEW d \in Loaded, NEW i \in Used(d)
               PROVE  \E a \in Live :
                        /\ copy[a][Params[d][i].dev] = raw[d][i]
                        /\ raw[d][i] \in UserBufs => a \in PyAlive
    BY DEF AliveAtRun
  <2> DEFINE a == Bound(d, i)
  <2>1. /\ d \in Drivers /\ i \in PIds(d) /\ Active(d)
        /\ Params[d][i].dev \in Devices
    BY LoadedIs, DevIs DEF Used
  <2>2. /\ raw[d][i] = copy[a][Params[d][i].dev] /\ a \in Arrays \cap Live
        /\ \/ a \in holder[d]
           \/ i \in PIds(d) \ Settable(d) /\ a = closure[Params[d][i].closure]
    BY BoundIs
  <2>3. \A e \in Drivers : a \in holder[e] => a \in PyAlive
    BY DEF PyAlive
  <2>4. ASSUME raw[d][i] \in UserBufs, i \in PIds(d) \ Settable(d),
               a = closure[Params[d][i].closure]
        PROVE  \E e \in Drivers : a \in holder[e]
    <3> DEFINE c == Params[d][i].closure
    <3>1. c \in Closures \ Writes(d)
      BY <2>1, <2>4, ReadsAreNotWrites
    <3>2. ~Native(a)
      BY <2>1, <2>2, <2>4 DEF Native
    <3>3. a # NoArray
      BY <2>2, DriverAssumption
    <3>4. EnclosedHeld /\ OneAtATime
      BY DEF IInv, ClosuresHeld
    <3>5. PICK e \in Drivers : c \in Writes(e) /\ (a \in holder[e] \/ Active(e))
      <4>1. a = closure[c]
        BY <2>4
      <4> HIDE DEF a, c
      <4> QED BY <3>1, <3>2, <3>3, <3>4, <4>1 DEF EnclosedHeld
    <3>6. ~Active(e)
      BY <2>1, <3>1, <3>4, <3>5 DEF OneAtATime
    <3> QED BY <3>5, <3>6
  <2> HIDE DEF a
  <2> QED BY <2>1, <2>2, <2>3, <2>4
<1> QED BY <1>1, Invariant, PTL

\* The program runs on what its caller, or the closures, gave it: the pointers
\* are those of this call whatever calls were refused before (OfThisCall), they
\* stay good whatever the user and the other drivers do until the returns are
\* collected (GivenAtRun), and the other functions of a closure find the same
\* Array in it (UpdateReachesClosure; func.h:20-21).
THEOREM Runs == Spec => []BoundAtRun
<1>1. IInv => OfThisCall
  <2> SUFFICES ASSUME IInv, taken \subseteq {"delete"},
                      NEW d \in Loaded, NEW i \in Used(d)
               PROVE  raw[d][i] = copy[Bound(d, i)][Params[d][i].dev]
    BY DEF OfThisCall
  <2> QED BY BoundIs
<1>2. IInv => GivenAtRun
  <2> SUFFICES ASSUME IInv, NEW d \in Loaded, NEW i \in Used(d) \cap DOMAIN given[d]
               PROVE  /\ raw[d][i] # NoBuf
                      /\ given[d][i] \in PyAlive
                      /\ taken \cap {"interleave", "alias"} = {} =>
                           raw[d][i] = copy[given[d][i]][Params[d][i].dev]
    BY DEF GivenAtRun
  <2>1. /\ d \in Drivers /\ raw[d][i] # NoBuf /\ given[d][i] \in holder[d]
        /\ i \in Served(d) \cap Used(d)
    BY LoadedIs
  <2>2. given[d][i] \in PyAlive
    BY <2>1 DEF PyAlive
  <2>3. PointsToGiven
    BY DEF IInv
  <2> QED BY <2>1, <2>2, <2>3 DEF PointsToGiven
<1>3. IInv => UpdateReachesClosure
  <2> SUFFICES ASSUME IInv, removed = {}, NEW d \in Loaded,
                      NEW i \in DOMAIN given[d] \cap Settable(d),
                      Params[d][i].closure # NoClosure,
                      "interleave" \in taken =>
                        \A e \in Drivers \ {d} : Params[d][i].closure \notin Writes(e)
               PROVE  closure[Params[d][i].closure] = given[d][i]
    BY DEF UpdateReachesClosure
  <2>1. d \in Drivers /\ i \in Served(d)
    BY LoadedIs
  <2>2. InItsClosure
    BY DEF IInv
  <2> QED BY <2>1, <2>2 DEF InItsClosure
<1> QED BY <1>1, <1>2, <1>3, Invariant, PTL DEF BoundAtRun

\* What the program allocated is freed once: no two copies are the same memory,
\* and none is what a Driver still keeps as a return (driver.cc:355-386).
THEOREM ReturnsOwned == Spec => []ReturnsOwnedOnce
<1>1. IInv => ReturnsOwnedOnce
  <2> SUFFICES ASSUME IInv PROVE ReturnsOwnedOnce
    OBVIOUS
  <2>1. TypeOK /\ CopiesApart /\ ReturnsApart
    BY DEF IInv, Owned
  <2>2. ASSUME NEW a \in Live PROVE a \in Arrays
    <3>1. CASE a \in kept
      BY <2>1, <3>1 DEF TypeOK
    <3>2. ASSUME NEW d \in Drivers, a \in holder[d] PROVE a \in Arrays
      BY <2>1, <3>2 DEF TypeOK
    <3>3. ASSUME NEW d \in Drivers, a \in Image(args[d]), a # NoArray PROVE a \in Arrays
      BY <2>1, <3>3 DEF TypeOK, DriverType, Image
    <3>4. CASE a \in Image(closure) /\ a # NoArray
      BY <2>1, <3>4 DEF TypeOK, Image
    <3>5. a \in All(args) => \E d \in Drivers : a \in Image(args[d])
      BY <2>1 DEF All, TypeOK
    <3> QED BY <3>1, <3>2, <3>3, <3>4, <3>5 DEF Live, PyAlive
  <2>3. \A a, b \in Live : \A d, e \in Devices :
          copy[a][d] = copy[b][e] /\ copy[a][d] \in Bufs => a = b /\ d = e
    BY <2>1, <2>2 DEF CopiesApart
  <2>4. ASSUME NEW d \in Drivers, NEW a \in Live,
               NEW x \in Image(rets[d]) \cap Image(copy[a])
        PROVE  x = NoBuf
    <3>1. PICK i \in RIds(d) : x = rets[d][i]
      BY <2>1 DEF Image, TypeOK, DriverType
    <3>2. PICK e \in Devices : x = copy[a][e]
      BY <2>1, <2>2 DEF Image, TypeOK
    <3>3. rets[d][i] # NoBuf => copy[a][e] # rets[d][i]
      BY <2>1, <2>2 DEF ReturnsApart
    <3> QED BY <3>1, <3>2, <3>3
  <2>5. \A d \in Drivers, a \in Live :
          Image(rets[d]) \cap Image(copy[a]) \subseteq {NoBuf}
    BY <2>4
  <2> QED BY <2>3, <2>5 DEF ReturnsOwnedOnce
<1> QED BY <1>1, Invariant, PTL

=============================================================================
