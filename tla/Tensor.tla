------------------------------ MODULE Tensor ------------------------------
(***************************************************************************)
(* What an Array promises to the code that uses it: it behaves as a tensor *)
(* with one content, however many devices hold a copy of it.  A request    *)
(* gives a view of that content for reading, for updating or for           *)
(* overwriting, and what is written through a view is the content from     *)
(* then on.  Module Array implements this specification.                   *)
(***************************************************************************)
CONSTANTS
  Arrays,     \* the Array objects
  Values,     \* what a tensor can hold
  Undef,      \* the content of a tensor nobody has written
  None        \* the content of an array that does not exist, and no view

VARIABLES
  content,    \* what each array holds
  view        \* what the pointer in use shows, and of which array

vars == <<content, view>>

Modes == {"Input", "Output", "InOut"}
View(a, m, v) == [arr |-> a, atype |-> m, val |-> v]
NoView == View(None, "Input", None)

Init ==
  /\ content = [a \in Arrays |-> None]
  /\ view = NoView

Create(a, v) ==
  /\ view = NoView
  /\ content[a] = None
  /\ content' = [content EXCEPT ![a] = v]
  /\ UNCHANGED view

Destroy(a) ==
  /\ view = NoView
  /\ content[a] # None
  /\ content' = [content EXCEPT ![a] = None]
  /\ UNCHANGED view

\* A request to read or to update sees what the array holds.
Open(a, m) ==
  /\ view = NoView
  /\ content[a] # None
  /\ view' = View(a, m, content[a])
  /\ UNCHANGED content

\* A request to overwrite may find fresh memory, and may fail after the old
\* content is gone.
Overwrite(a) ==
  /\ view = NoView
  /\ content[a] # None
  /\ content' = [content EXCEPT ![a] = Undef]
  /\ view' \in {View(a, "Output", Undef), NoView}

Use ==
  /\ view # NoView
  /\ view' = NoView
  /\ IF view.atype = "Input"
     THEN UNCHANGED content
     ELSE \E v \in Values : content' = [content EXCEPT ![view.arr] = v]

Next ==
  \/ Use
  \/ \E a \in Arrays :
       \/ \E v \in Values : Create(a, v)
       \/ Destroy(a)
       \/ \E m \in Modes : Open(a, m)
       \/ Overwrite(a)

Spec == Init /\ [][Next]_vars
=============================================================================
