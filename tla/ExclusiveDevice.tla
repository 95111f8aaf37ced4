-------------------------- MODULE ExclusiveDevice --------------------------
(***************************************************************************)
(* What open, release and the calls of a driver promise when it admits one *)
(* opener at a time: the button driver by its interrupt lines, the string  *)
(* device by open_use.                                                     *)
(***************************************************************************)
CONSTANTS
    Files,    \* struct files
    Threads,  \* threads that call the driver
    None      \* no struct file

VARIABLES
    opened,  \* the struct files that are open
    call     \* the struct file each thread's call is on, or None

vars == <<opened, call>>

Init == opened = {} /\ call = [t \in Threads |-> None]

Open(f) == /\ opened = {}
           /\ opened' = {f}
           /\ UNCHANGED call

(* The release waits for the calls.                                        *)
Release(f) == /\ opened = {f} /\ \A t \in Threads : call[t] # f
              /\ opened' = {}
              /\ UNCHANGED call

Enter(t, f) == /\ f \in opened /\ call[t] = None
               /\ call' = [call EXCEPT ![t] = f]
               /\ UNCHANGED opened

Return(t) == /\ call[t] \in opened
             /\ call' = [call EXCEPT ![t] = None]
             /\ UNCHANGED opened

Next == \/ \E f \in Files : Open(f) \/ Release(f)
        \/ \E t \in Threads : Return(t) \/ \E f \in Files : Enter(t, f)

Spec == Init /\ [][Next]_vars
=============================================================================
