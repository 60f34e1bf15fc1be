---------------------------- MODULE AcpiRequests ----------------------------
(***************************************************************************)
(* IOCTL_TEST1 (HelloWDMDeviceIoControl, DeviceIoControl.cpp): a code of   *)
(* 0x100 enumerates the ACPI children of the device (AcpiChildEnum), any   *)
(* other evaluates a method (AcpiEvaluate).  Both ask the driver below by  *)
(* SendDownStreamIrp, which waits for the answer; an enumeration asks      *)
(* twice, for the size of the buffer and then for the children in it.      *)
(*                                                                         *)
(* Callers run at the same time, and ACPI may load or unload children at   *)
(* any moment.  Sizes are in units of their own: an output buffer has a    *)
(* header of one unit and children of two, one less for the shortest name, *)
(* so that the structure of the C declaration, with one child, has two.    *)
(***************************************************************************)
EXTENDS Naturals, FiniteSets

CONSTANTS
  Caller,       \* the threads that send the request
  MaxChildren,  \* the most children ACPI has, the device included
  Pool          \* the paged pool, in units

ASSUME BoundAssumption == MaxChildren \in Nat \ {0} /\ Pool \in Nat

\* sizeof(ACPI_ENUM_CHILDREN_OUTPUT_BUFFER); what n children need.
StructSize == 2
Size(n) == 1 + 2 * n

\* "enum" is code 0x100, "method" a code below and "complex" one above: the
\* input buffer of the last carries no signature.
Option == {"enum", "method", "complex"}

VARIABLES
  pc,        \* where each caller stands
  option,    \* the input of the request
  below,     \* the driver below is "holding" the caller's IRP, or "idle"
  out,       \* the output buffer of the caller's last downstream request
  size,      \* the size of that buffer
  children,  \* the children ACPI has
  pool,      \* the pool that is left
  moved,     \* history: callers whose children changed after the first answer
  beyond     \* history: a loop went beyond the children in its buffer

vars == <<pc, option, below, out, size, children, pool, moved, beyond>>

\* A zeroed output buffer; an ACPI_METHOD_ARGUMENT of type zero is an integer.
Zeroed == [signed |-> FALSE, number |-> 0, held |-> 0, type |-> "integer"]

Init ==
  /\ pc = [c \in Caller |-> "idle"]
  /\ option = [c \in Caller |-> "enum"]
  /\ below = [c \in Caller |-> "idle"]
  /\ out = [c \in Caller |-> Zeroed]
  /\ size = [c \in Caller |-> 0]
  /\ children \in 1..MaxChildren
  /\ pool = Pool
  /\ moved = {}
  /\ beyond = FALSE

GoTo(c, label) == pc' = [pc EXCEPT ![c] = label]

(***************************************************************************)
(* SendDownStreamIrp and the driver below.                                 *)
(***************************************************************************)

\* The request is built and sent with a zeroed output buffer of s units, or
\* cannot be built, which leaves the buffer as it is.
SendDownStreamIrp(c, s) ==
  /\ out' = [out EXCEPT ![c] = Zeroed]
  /\ size' = [size EXCEPT ![c] = s]
  /\ \E sent \in {"holding", "idle"} : below' = [below EXCEPT ![c] = sent]

\* Complete or not, the call goes on when the driver below has answered:
\* STATUS_PENDING is waited for.
Answered(c) == below[c] = "idle"

Children(c) ==
  IF Size(children) > size[c]
    THEN [Zeroed EXCEPT !.signed = TRUE, !.number = Size(children)]
    ELSE [Zeroed EXCEPT !.signed = TRUE, !.number = children, !.held = children]

\* ACPI answers: an error writes nothing; an enumeration that does not fit
\* returns STATUS_BUFFER_OVERFLOW and the size it needs as its number.
AcpiAnswers(c) ==
  /\ below[c] = "holding"
  /\ below' = [below EXCEPT ![c] = "idle"]
  /\ \/ UNCHANGED out
     \/ /\ option[c] = "enum"
        /\ out' = [out EXCEPT ![c] = Children(c)]
     \/ /\ option[c] = "method"
        /\ \E t \in {"integer", "other"} :
             out' = [out EXCEPT ![c].signed = TRUE, ![c].type = t]
  /\ UNCHANGED <<pc, option, size, children, pool, moved, beyond>>

\* ACPI loads or unloads children.
ChildrenChange ==
  /\ children' \in (1..MaxChildren) \ {children}
  /\ moved' = moved \cup {c \in Caller : option[c] = "enum" /\ pc[c] # "idle"}
  /\ UNCHANGED <<pc, option, below, out, size, pool, beyond>>

(***************************************************************************)
(* HelloWDMDeviceIoControl, IOCTL_TEST1.                                   *)
(***************************************************************************)

\* The first downstream request of AcpiChildEnum or AcpiEvaluate.
Request(c) ==
  /\ pc[c] = "idle"
  /\ \E o \in Option :
       /\ option' = [option EXCEPT ![c] = o]
       /\ GoTo(c, IF o = "enum" THEN "sizing" ELSE "evaluating")
  /\ SendDownStreamIrp(c, StructSize)
  /\ moved' = moved \ {c}
  /\ UNCHANGED <<children, pool, beyond>>

\* Mutant: the result of the allocation is not tested.
AllocateUntested(c) ==
  LET wanted == out[c].number IN
  /\ pc[c] = "sizing"
  /\ Answered(c)
  /\ \/ /\ out[c].signed /\ wanted >= StructSize
        /\ pool' = pool - wanted
        /\ SendDownStreamIrp(c, wanted)
        /\ GoTo(c, "fetching")
     \/ /\ ~(out[c].signed /\ wanted >= StructSize)
        /\ GoTo(c, "complete")
        /\ UNCHANGED <<pool, out, size, below>>
  /\ UNCHANGED <<option, children, moved, beyond>>

\* Mutant: the buffer of the second request still holds the first answer.
AllocateUnzeroed(c) ==
  LET wanted == out[c].number IN
  /\ pc[c] = "sizing"
  /\ Answered(c)
  /\ \/ /\ out[c].signed /\ wanted >= StructSize /\ wanted <= pool
        /\ pool' = pool - wanted
        /\ size' = [size EXCEPT ![c] = wanted]
        /\ \E sent \in {"holding", "idle"} : below' = [below EXCEPT ![c] = sent]
        /\ GoTo(c, "fetching")
     \/ /\ (out[c].signed /\ wanted >= StructSize) => wanted > pool
        /\ GoTo(c, "complete")
        /\ UNCHANGED <<pool, size, below>>
  /\ UNCHANGED <<option, out, children, moved, beyond>>

\* The answer to the first request is verified and a buffer allocated and
\* zeroed for the second one; nothing ever frees it.
AllocateChildren(c) ==
  LET wanted == out[c].number IN
  /\ pc[c] = "sizing"
  /\ Answered(c)
  /\ \/ /\ out[c].signed /\ wanted >= StructSize
        /\ wanted <= pool
        /\ pool' = pool - wanted
        /\ SendDownStreamIrp(c, wanted)
        /\ GoTo(c, "fetching")
     \/ /\ (out[c].signed /\ wanted >= StructSize) => wanted > pool
        /\ GoTo(c, "complete")
        /\ UNCHANGED <<pool, out, size, below>>
  /\ UNCHANGED <<option, children, moved, beyond>>

\* Mutant: an answer that is not valid is not passed on.
VerifyChildrenForgets(c) ==
  /\ pc[c] = "fetching"
  /\ Answered(c)
  /\ out[c].signed /\ out[c].number # 0
  /\ GoTo(c, "loop")
  /\ UNCHANGED <<option, below, out, size, children, pool, moved, beyond>>

\* The second answer is verified; its status is not looked at.
VerifyChildren(c) ==
  /\ pc[c] = "fetching"
  /\ Answered(c)
  /\ GoTo(c, IF out[c].signed /\ out[c].number # 0 THEN "loop" ELSE "complete")
  /\ UNCHANGED <<option, below, out, size, children, pool, moved, beyond>>

\* for (index = 1; index < outputBuffer->NumberOfChildren; index++)
Loop(c) ==
  /\ pc[c] = "loop"
  /\ beyond' = (beyond \/ out[c].number > out[c].held)
  /\ GoTo(c, "complete")
  /\ UNCHANGED <<option, below, out, size, children, pool, moved>>

\* Mutant: SendDownStreamIrp returns STATUS_PENDING without waiting.
CrackResultEarly(c) ==
  /\ pc[c] = "evaluating"
  /\ GoTo(c, IF out[c].type = "integer" THEN "report" ELSE "complete")
  /\ UNCHANGED <<option, below, out, size, children, pool, moved, beyond>>

\* AcpiEvaluate: a missing signature is only logged; the type decides whether
\* the value is reported.
CrackResult(c) ==
  /\ pc[c] = "evaluating"
  /\ Answered(c)
  /\ GoTo(c, IF out[c].type = "integer" THEN "report" ELSE "complete")
  /\ UNCHANGED <<option, below, out, size, children, pool, moved, beyond>>

Report(c) ==
  /\ pc[c] = "report"
  /\ GoTo(c, "complete")
  /\ UNCHANGED <<option, below, out, size, children, pool, moved, beyond>>

\* The IOCTL is completed with STATUS_SUCCESS, whatever the outcome; the
\* frame with the buffers is gone.
Complete(c) ==
  /\ pc[c] = "complete"
  /\ GoTo(c, "idle")
  /\ out' = [out EXCEPT ![c] = Zeroed]
  /\ size' = [size EXCEPT ![c] = 0]
  /\ UNCHANGED <<option, below, children, pool, moved, beyond>>

(***************************************************************************)
(* The specification.                                                      *)
(***************************************************************************)

Continue(c) ==
  \/ AllocateChildren(c)
  \/ VerifyChildren(c)
  \/ Loop(c)
  \/ CrackResult(c)
  \/ Report(c)
  \/ Complete(c)

\* A loop beyond the buffer reads what it finds: nothing is known after it.
Next ==
  /\ ~beyond
  /\ \/ ChildrenChange
     \/ \E c \in Caller : Request(c) \/ AcpiAnswers(c) \/ Continue(c)

\* A caller inside the driver runs on, and the driver below answers.
Fairness ==
  \A c \in Caller :
    WF_vars(~beyond /\ Continue(c)) /\ WF_vars(~beyond /\ AcpiAnswers(c))

Spec == Init /\ [][Next]_vars
FairSpec == Spec /\ Fairness

(***************************************************************************)
(* Properties.                                                             *)
(***************************************************************************)

\* Every variable of the requests stays in its type.
TypeOK ==
  /\ pc \in [Caller -> {"idle", "sizing", "fetching", "loop", "evaluating",
                        "report", "complete"}]
  /\ option \in [Caller -> Option]
  /\ below \in [Caller -> {"idle", "holding"}]
  /\ out \in [Caller -> [signed : BOOLEAN, number : 0..Size(MaxChildren),
                         held : 0..MaxChildren, type : {"integer", "other"}]]
  /\ size \in [Caller -> 0..Size(MaxChildren)]
  /\ children \in 1..MaxChildren
  /\ pool \in 0..Pool
  /\ moved \in SUBSET Caller
  /\ beyond \in BOOLEAN

\* The driver below never holds an IRP whose output buffer and event are in a
\* frame that was left: SendDownStreamIrp waits (DeviceIoControl.cpp:100).
FrameOutlivesRequest ==
  \A c \in Caller :
    below[c] = "holding" => pc[c] \in {"sizing", "fetching", "evaluating"}

\* The loop stays within the children the buffer holds, and the buffer within
\* what was allocated, unless children came or went during the enumeration.
LoopInBounds ==
  \A c \in Caller \ moved :
    pc[c] = "loop" => out[c].number = out[c].held /\ Size(out[c].held) <= size[c]

\* Every request comes back to its caller, with whatever failures and an
\* exhausted pool, unless a loop left its buffer.
RequestsEnd == \A c \in Caller : (pc[c] # "idle") ~> (pc[c] = "idle" \/ beyond)
=============================================================================
