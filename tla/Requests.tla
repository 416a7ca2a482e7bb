------------------------------ MODULE Requests ------------------------------
(***************************************************************************)
(* The requests in flight.  A handler runs to its next await in one step,  *)
(* so a request is where it stands (pc) and what it has read (arg), and    *)
(* two requests interleave at every await.                                 *)
(***************************************************************************)
CONSTANTS
    Tasks,   \* requests that may be in flight at once
    NoArg,   \* the argument of a request that needs none
    Null     \* a NULL column

VARIABLE task

Idle == [pc |-> "idle", arg |-> NoArg]
RequestsInit == task = [t \in Tasks |-> Idle]

At(t, pc) == task[t].pc = pc
Arg(t) == task[t].arg
Goto(t, pc, arg) == task' = [task EXCEPT ![t] = [pc |-> pc, arg |-> arg]]
Done(t) == Goto(t, "idle", NoArg)
=============================================================================
