------------------------------- MODULE Driver -------------------------------
(***************************************************************************)
(* Drivers that run compiled functions on Arrays: src/src/driver.cc and    *)
(* src/python/freetensor/core/driver.py.                                   *)
(*                                                                         *)
(* A Driver keeps a raw pointer per parameter from set_args until          *)
(* collect_returns.  The pointer is only good while the Array it came from *)
(* keeps that copy, while somebody keeps the Array, and, if the copy is    *)
(* borrowed, while the Array's PYTHON object keeps the user's memory.      *)
(* Drivers of a function and of its gradient share Arrays through          *)
(* closures.                                                               *)
(*                                                                         *)
(* Contents are not modelled: module Array shows that all the copies of an *)
(* Array agree.  A call to set_args is a sequence of steps, one for each   *)
(* parameter, any of which may throw; nothing else happens meanwhile (the  *)
(* interpreter is held).                                                   *)
(***************************************************************************)
EXTENDS Naturals, Sequences, FiniteSets

CONSTANTS
  Drivers,
  Dev,        \* Dev[d]: dev_, the device the Driver d runs on
  Params,     \* Params[d]: a sequence of [dev, atype, closure, update]
  Removable,  \* the parameters <<d, i>> that a pass may remove from a program
  Returns,    \* Returns[d]: a sequence of [arg, closure, give]
  Closures,   \* the Ref<Array> cells shared by several functions
  Arrays, Devices, HostCPU, Bufs, UserBufs,
  NoArray, NoBuf, NoClosure, NoCall,
  Allowed     \* the sets of liberties that the callers of one history may take

\* "omit": leave out a parameter; "fail": pass what set_args refuses, or call
\* a function whose closures are not set yet; "delete": drop a Driver;
\* "interleave": call another Driver between set_args and collect_returns;
\* "alias": bind one Array to two parameters that are on different devices.
Liberties == {"omit", "fail", "delete", "interleave", "alias"}

PIds(d) == 1 .. Len(Params[d])
RIds(d) == 1 .. Len(Returns[d])

InClosure(p) == p.closure # NoClosure
\* A positional argument skips the parameters that are only in a closure.
Settable(d) == {i \in PIds(d) : InClosure(Params[d][i]) => Params[d][i].update}

Param == [dev : Devices, atype : {"Input", "Output", "InOut"},
          closure : Closures \cup {NoClosure}, update : BOOLEAN]
Return == [arg : Nat, closure : Closures \cup {NoClosure}, give : BOOLEAN]

ASSUME DriverAssumption ==
  /\ Allowed \subseteq SUBSET Liberties
  /\ HostCPU \in Devices
  /\ Bufs \cap UserBufs = {} /\ NoBuf \notin Bufs \cup UserBufs
  /\ NoArray \notin Arrays /\ NoClosure \notin Closures
  /\ NoCall \notin [drv : Drivers, todo : SUBSET Nat, next : Nat, pos : SUBSET Nat]

ASSUME FuncAssumption ==
  \A d \in Drivers :
    /\ Dev[d] \in Devices
    /\ Params[d] \in Seq(Param) /\ Returns[d] \in Seq(Return)
    /\ \A i \in RIds(d) : Returns[d][i].arg \in 0 .. Len(Params[d])

\* Every closure of a function is a cell of its own: the one an argument of
\* the forward function updates, and the one of each tape (grad.cc:1020, 1043),
\* and that of a captured Array (ffi/func.cc:45, 58).
ASSUME OwnClosures ==
  \A d \in Drivers :
    /\ \A i, j \in PIds(d) :
         InClosure(Params[d][i]) /\ Params[d][i].closure = Params[d][j].closure => i = j
    /\ \A i, j \in RIds(d) :
         InClosure(Returns[d][i]) /\ Returns[d][i].closure = Returns[d][j].closure => i = j
    /\ \A i \in PIds(d), j \in RIds(d) :
         InClosure(Params[d][i]) => Params[d][i].closure # Returns[d][j].closure

VARIABLES
  copy,       \* Array::ptrs_, as in module Array
  closure,    \* what each Ref<Ref<Array>> refers to
  kept,       \* the Arrays whose Python object the user keeps
  holder,     \* args_ref_cnt_holder of each Driver
  args,       \* args_ of each Driver
  raw,        \* rawArgs of each Driver
  rets,       \* rawRets of each Driver
  state,      \* where each Driver is: "idle", "ready", "ran" or "deleted"
  given,      \* history: the arguments of the call to set_args being served
  call,       \* the set_args that is running
  removed,    \* the parameters that the programs do not have any more
  taken       \* history: the liberties the callers have taken

vars == <<copy, closure, kept, holder, args, raw, rets, state, given, call,
          removed, taken>>

Used(d) == {i \in PIds(d) : <<d, i>> \notin removed}

NoCopy == [d \in Devices |-> NoBuf]
Only(dev, b) == [NoCopy EXCEPT ![dev] = b]
Image(f) == {f[x] : x \in DOMAIN f}
All(f) == UNION {Image(f[x]) : x \in DOMAIN f}

\* The Arrays whose Python object exists.
PyAlive == kept \cup UNION {holder[d] : d \in Drivers}

\* The Arrays that somebody refers to.  All others have been destroyed.
Live == (PyAlive \cup All(args) \cup Image(closure)) \ {NoArray}

InUse == All(copy) \cup All(rets) \cup All(raw)
FreshBufs == Bufs \ InUse

\* Each Array without a reference runs its destructor.
Survivors(cp) == [a \in Arrays |-> IF a \in Live' THEN cp[a] ELSE NoCopy]

\* requestPtr: the copies an Array has after the request (see module Array),
\* where b is the new buffer if one is needed.
Requested(cp, p, b) ==
  LET here == IF cp[p.dev] = NoBuf THEN b ELSE cp[p.dev] IN
  IF p.atype = "Input" THEN [cp EXCEPT ![p.dev] = here] ELSE Only(p.dev, here)

-----------------------------------------------------------------------------
Init ==
  /\ copy = [a \in Arrays |-> NoCopy]
  /\ closure = [c \in Closures |-> NoArray]
  /\ kept = {}
  /\ holder = [d \in Drivers |-> {}]
  /\ args = [d \in Drivers |-> [i \in PIds(d) |-> NoArray]]
  /\ raw = [d \in Drivers |-> [i \in PIds(d) |-> NoBuf]]
  /\ rets = [d \in Drivers |-> [i \in RIds(d) |-> NoBuf]]
  /\ state = [d \in Drivers |-> "idle"]
  /\ given = [d \in Drivers |-> <<>>]
  /\ call = NoCall
  /\ removed \in SUBSET Removable
  /\ taken = {}

\* The user makes an Array from a NumPy array, which lends its memory u.
UserBorrows(a, u) ==
  /\ call = NoCall
  /\ a \notin Live
  /\ \A other \in PyAlive : u \notin Image(copy[other])
  /\ kept' = kept \cup {a}
  /\ copy' = [copy EXCEPT ![a] = Only(HostCPU, u)]
  /\ UNCHANGED <<closure, holder, args, raw, rets, state, given, call, taken>>

\* The user forgets the Python object of an Array.
UserDrops(a) ==
  /\ call = NoCall
  /\ a \in kept
  /\ kept' = kept \ {a}
  /\ UNCHANGED <<closure, holder, args, raw, rets, state, given, call, taken>>
  /\ copy' = Survivors(copy)

\* The liberties that a call on d takes, by when it comes.
Liberty(d) ==
  IF \A e \in Drivers \ {d} : state[e] \in {"idle", "deleted"}
  THEN {} ELSE {"interleave"}

Calling(d) ==
  /\ call = NoCall
  /\ state[d] # "deleted"

\* Or by the parameters it names: all it can, or less, or more.
Naming(d, s) ==
  (IF Settable(d) \subseteq s THEN {} ELSE {"omit"}) \cup
  (IF s \subseteq Settable(d) THEN {} ELSE {"fail"})

\* Positional arguments are for the first of those that can be set, and the
\* others of s have a keyword.
Positional(d, s) ==
  {pos \in SUBSET (s \cap Settable(d)) :
     \A i \in pos, j \in Settable(d) : j < i => j \in pos}

\* args_ref_cnt_holder after set_args.
HeldNothing(g) == {}  \* mutant: the Python objects are not held
Held(g) == Image(g)

\* Driver.set_args of core/driver.py: the Python objects of the last call are
\* released before those of this call are held.
SetArgs(d) ==
  /\ Calling(d)
  /\ \E s \in SUBSET PIds(d) : \E pos \in Positional(d, s), g \in [s -> kept] :
       /\ given' = [given EXCEPT ![d] = g]
       /\ holder' = [holder EXCEPT ![d] = Held(g)]
       /\ taken' = taken \cup Liberty(d) \cup Naming(d, s)
       /\ taken' \in Allowed
       /\ call' = [drv |-> d, todo |-> s, next |-> 1, pos |-> pos]
  /\ state' = [state EXCEPT ![d] = "idle"]
  /\ UNCHANGED <<closure, kept, args, raw, rets>>
  /\ copy' = Survivors(copy)

\* The next argument: the positional ones in order, then the others in the
\* order of the map, which is any.
Turn(i) ==
  /\ call # NoCall
  /\ i \in call.todo
  /\ \A j \in call.todo \cap call.pos : i \in call.pos /\ i <= j

Given(i) == given[call.drv][i]

\* The Array bound to a parameter by the last call, or else by its closure.
Bound(d, i) ==
  IF i \in DOMAIN given[d] THEN given[d][i]
  ELSE IF InClosure(Params[d][i]) THEN closure[Params[d][i].closure] ELSE NoArray

\* The liberty that binding the Array a to parameter i takes: a request on one
\* device may drop the copy that another got on its own.
Sharing(i, a) ==
  IF \E j \in Used(call.drv) : /\ Params[call.drv][j].dev # Params[call.drv][i].dev
                               /\ Bound(call.drv, j) = a
  THEN {"alias"} ELSE {}

\* args_ and rawArgs get the argument a for parameter i, and a may get the
\* new copy b.
Store(d, i, a, b) ==
  LET cp == Requested(copy[a], Params[d][i], b) IN
  /\ args' = [args EXCEPT ![d] = [@ EXCEPT ![i] = a]]
  /\ raw' = [raw EXCEPT ![d] = [@ EXCEPT ![i] = cp[Params[d][i].dev]]]
  /\ copy' = Survivors([copy EXCEPT ![a] = cp])
  /\ taken' = taken \cup Sharing(i, a) /\ taken' \in Allowed

Enclose(p, a) ==
  closure' = IF InClosure(p) THEN [closure EXCEPT ![p.closure] = a] ELSE closure

\* Driver::setArgs takes an argument for a parameter that the program uses.
TakeArg(i) ==
  /\ Turn(i)
  /\ i \in Settable(call.drv)
  /\ i \in Used(call.drv)
  /\ Enclose(Params[call.drv][i], Given(i))
  /\ call' = [call EXCEPT !.todo = @ \ {i}]
  /\ UNCHANGED <<kept, holder, rets, state, given>>
  /\ \E b \in FreshBufs : Store(call.drv, i, Given(i), b)

\* The same for a parameter that was removed from the program: the pointer
\* stays, but the closure is still updated, with args_[j] if the argument is
\* positional and with the argument itself if it has a keyword.
TakeUnused(i) ==
  /\ Turn(i)
  /\ i \in Settable(call.drv)
  /\ i \notin Used(call.drv)
  /\ Enclose(Params[call.drv][i],
             IF i \in call.pos THEN args[call.drv][i] ELSE Given(i))
  /\ call' = [call EXCEPT !.todo = @ \ {i}]
  /\ UNCHANGED <<kept, holder, args, raw, rets, state, given, taken>>
  /\ copy' = Survivors(copy)

\* A call that throws leaves behind what it has done so far.
Throw ==
  /\ call' = NoCall
  /\ given' = [given EXCEPT ![call.drv] = <<>>]
  /\ UNCHANGED <<closure, kept, holder, rets, state>>

\* The argument has the wrong type, or the request throws: args_ is set and
\* rawArgs is not.
RefuseArg(i) ==
  /\ Turn(i)
  /\ taken' = taken \cup {"fail"} /\ taken' \in Allowed
  /\ \/ UNCHANGED args
     \/ /\ i \in Used(call.drv)
        /\ args' = [args EXCEPT ![call.drv] = [@ EXCEPT ![i] = Given(i)]]
  /\ UNCHANGED raw
  /\ Throw
  /\ copy' = Survivors(copy)

\* A keyword for a parameter that cannot be set is refused once it was set.
RefuseEnclosed(i) ==
  /\ Turn(i)
  /\ i \notin Settable(call.drv)
  /\ Throw
  /\ IF i \in Used(call.drv)
     THEN \E b \in FreshBufs : Store(call.drv, i, Given(i), b)
     ELSE UNCHANGED <<args, raw, copy, taken>>

\* The loop at the end of setArgs: a pointer that is not null is kept, and a
\* parameter without an argument takes what its closure refers to.
AtEnd(i) == call # NoCall /\ call.todo = {} /\ call.next = i

Skip(i) ==
  /\ AtEnd(i)
  /\ i \in PIds(call.drv)
  /\ i \notin Used(call.drv) \/ raw[call.drv][i] # NoBuf
  /\ call' = [call EXCEPT !.next = i + 1]
  /\ UNCHANGED <<copy, closure, kept, holder, args, raw, rets, state, given, taken>>

TakeClosure(i) ==
  /\ AtEnd(i)
  /\ i \in PIds(call.drv)
  /\ LET d == call.drv
         p == Params[d][i]
     IN
     /\ i \in Used(d) /\ raw[d][i] = NoBuf
     /\ InClosure(p) /\ closure[p.closure] # NoArray
     /\ \E b \in FreshBufs :
          LET cp == Requested(copy[closure[p.closure]], p, b) IN
          /\ raw' = [raw EXCEPT ![d] = [@ EXCEPT ![i] = cp[p.dev]]]
          /\ copy' = [copy EXCEPT ![closure[p.closure]] = cp]
     /\ taken' = taken \cup Sharing(i, closure[p.closure])
     /\ taken' \in Allowed
  /\ call' = [call EXCEPT !.next = i + 1]
  /\ UNCHANGED <<closure, kept, holder, args, rets, state, given>>

\* "Closure variable is not set", or "The parameter is missing".
RefuseMissing(i) ==
  /\ AtEnd(i)
  /\ i \in PIds(call.drv)
  /\ LET p == Params[call.drv][i] IN
     /\ i \in Used(call.drv) /\ raw[call.drv][i] = NoBuf
     /\ InClosure(p) => closure[p.closure] = NoArray
  /\ taken' = taken \cup (IF i \in Settable(call.drv) THEN {} ELSE {"fail"})
  /\ taken' \in Allowed
  /\ Throw
  /\ UNCHANGED <<copy, args, raw>>

SetArgsDone ==
  /\ call # NoCall
  /\ AtEnd(Len(Params[call.drv]) + 1)
  /\ state' = [state EXCEPT ![call.drv] = "ready"]
  /\ call' = NoCall
  /\ UNCHANGED <<copy, closure, kept, holder, args, raw, rets, given, taken>>

-----------------------------------------------------------------------------
\* The returns the program allocates: those that are no argument.
Allocated(d) == {i \in RIds(d) : Returns[d][i].arg = 0}

\* Driver::run.  The program allocates a return only if its pointer is null
\* (external: the generated code), so it can be run many times, as time does.
Run(d) ==
  /\ call = NoCall
  /\ state[d] \in {"ready", "ran"}
  /\ LET new == {i \in Allocated(d) : rets[d][i] = NoBuf} IN
     \E f \in [new -> FreshBufs] :
       /\ \A i, j \in new : f[i] = f[j] => i = j
       /\ rets' = [rets EXCEPT ![d] = [i \in RIds(d) |->
                                        IF i \in new THEN f[i] ELSE @[i]]]
  /\ state' = [state EXCEPT ![d] = "ran"]
  /\ UNCHANGED <<copy, closure, kept, holder, args, raw, given, call, taken>>

\* rawArgs and rawRets once the returns are collected.
KeptRaw(d) == raw[d]                         \* mutant: the pointers stay
Cleared(d) == [i \in PIds(d) |-> NoBuf]
KeptReturns(d) == rets[d]                    \* mutant: the pointers stay
Emptied(d) == [i \in RIds(d) |-> NoBuf]

\* Driver::collectReturns.  new[i] is the Array made for return i.
Collect(d) ==
  /\ call = NoCall
  /\ state[d] = "ran"
  /\ raw' = [raw EXCEPT ![d] = Cleared(d)]
  /\ rets' = [rets EXCEPT ![d] = Emptied(d)]
  /\ state' = [state EXCEPT ![d] = "idle"]
  /\ given' = [given EXCEPT ![d] = <<>>]
  /\ UNCHANGED <<holder, call, taken>>
  /\ \E new \in [Allocated(d) -> Arrays \ Live] :
       LET val == [i \in RIds(d) |-> IF i \in Allocated(d) THEN new[i]
                                     ELSE args[d][Returns[d][i].arg]]
           own == {i \in RIds(d) : ~InClosure(Returns[d][i]) \/ Returns[d][i].give}
       IN
       /\ \A i, j \in Allocated(d) : new[i] = new[j] => i = j
       /\ closure' = [c \in Closures |->
                        IF \E i \in RIds(d) : Returns[d][i].closure = c
                        THEN val[CHOOSE i \in RIds(d) : Returns[d][i].closure = c]
                        ELSE closure[c]]
       /\ kept' = kept \cup ({val[i] : i \in own} \ {NoArray})
       /\ args' = [args EXCEPT ![d] = [i \in PIds(d) |-> NoArray]]
       /\ copy' = Survivors([a \in Arrays |->
                     IF a \in Image(new)
                     THEN Only(Dev[d], rets[d][CHOOSE i \in Allocated(d) : new[i] = a])
                     ELSE copy[a]])

\* The user forgets a Driver.
Delete(d) ==
  /\ Calling(d)
  /\ taken' = taken \cup {"delete"} \cup Liberty(d) /\ taken' \in Allowed
  /\ state' = [state EXCEPT ![d] = "deleted"]
  /\ holder' = [holder EXCEPT ![d] = {}]
  /\ args' = [args EXCEPT ![d] = [i \in PIds(d) |-> NoArray]]
  /\ raw' = [raw EXCEPT ![d] = [i \in PIds(d) |-> NoBuf]]
  /\ given' = [given EXCEPT ![d] = <<>>]
  /\ UNCHANGED <<closure, kept, rets, call>>
  /\ copy' = Survivors(copy)

-----------------------------------------------------------------------------
Next ==
  /\ UNCHANGED removed
  /\ \/ \E a \in Arrays : UserDrops(a) \/ \E u \in UserBufs : UserBorrows(a, u)
     \/ \E d \in Drivers : SetArgs(d) \/ Run(d) \/ Collect(d) \/ Delete(d)
     \/ \E i \in UNION {PIds(d) : d \in Drivers} :
          \/ TakeArg(i) \/ TakeUnused(i) \/ RefuseArg(i) \/ RefuseEnclosed(i)
          \/ Skip(i) \/ TakeClosure(i) \/ RefuseMissing(i)
     \/ SetArgsDone

Spec == Init /\ [][Next]_vars

-----------------------------------------------------------------------------
\* The Drivers whose pointers the program is about to use.
Loaded == {d \in Drivers : state[d] \in {"ready", "ran"}}

\* Every pointer handed to the program is to memory that somebody still owns:
\* the copy of an Array that is referred to, and, if the memory is borrowed,
\* of one whose Python object keeps the lender alive (core/driver.py:222-228).
AliveAtRun ==
  taken = {} =>
  \A d \in Loaded : \A i \in Used(d) :
    \E a \in Live :
      /\ copy[a][Params[d][i].dev] = raw[d][i]
      /\ raw[d][i] \in UserBufs => a \in PyAlive

\* The program runs on the data bound to its parameters (func.h:20) by this
\* call, and not by an earlier one, unless an argument was left out, refused,
\* or moved by a call in between.
OfThisCall ==
  taken \subseteq {"delete"} =>
  \A d \in Loaded : \A i \in Used(d) :
    Bound(d, i) # NoArray =>
      raw[d][i] = copy[Bound(d, i)][Params[d][i].dev]

\* What was given for a parameter by this call is what the program runs on,
\* and it is there until the returns are collected: whatever calls failed
\* before, and whatever the user and the other Drivers do in between.
GivenAtRun ==
  \A d \in Loaded : \A i \in Used(d) \cap DOMAIN given[d] :
    /\ raw[d][i] # NoBuf
    /\ given[d][i] \in PyAlive
    /\ taken \cap {"interleave", "alias"} = {} =>
         raw[d][i] = copy[given[d][i]][Params[d][i].dev]

\* The closures a call on d sets: those of arguments and those of returns.
Writes(d) ==
  {Params[d][i].closure : i \in Settable(d)} \cup {Returns[d][i].closure : i \in RIds(d)}

\* An argument that updates a closure is what the other functions of that
\* closure find in it (func.h:21), unless a call in between sets it again.
UpdateReachesClosure ==
  removed = {} =>
  \A d \in Loaded : \A i \in DOMAIN given[d] \cap Settable(d) :
    LET c == Params[d][i].closure IN
    /\ c # NoClosure
    /\ "interleave" \in taken => \A e \in Drivers \ {d} : c \notin Writes(e)
    => closure[c] = given[d][i]

\* What a program runs on is what its caller, or the closures, gave it.
BoundAtRun == OfThisCall /\ GivenAtRun /\ UpdateReachesClosure

\* What the program allocated has one owner: a Driver until its returns are
\* collected, and one Array from then on, so nothing is freed twice.
ReturnsOwnedOnce ==
  /\ \A a, b \in Live : \A d, e \in Devices :
       copy[a][d] = copy[b][e] /\ copy[a][d] \in Bufs => a = b /\ d = e
  /\ \A d \in Drivers, a \in Live :
       Image(rets[d]) \cap Image(copy[a]) \subseteq {NoBuf}
=============================================================================
