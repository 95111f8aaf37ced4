----------------------------- MODULE DriverLoad -----------------------------
(***************************************************************************)
(* Loading and unloading the character drivers under linux/drives: what    *)
(* the module init and exit functions register with the kernel and take    *)
(* back, while other modules are loaded and unloaded and files are opened. *)
(*                                                                         *)
(* Every registration call may sleep, so the calls of several modules are  *)
(* interleaved, and every call may fail.  An init function is the sequence *)
(* of its calls, each with what the code does when it fails; an exit       *)
(* function is the sequence of what it gives back.                         *)
(***************************************************************************)
EXTENDS Naturals, Sequences

CONSTANTS
    Drivers,  \* the modules that may be loaded
    Numbers,  \* the device numbers alloc_chrdev_region can give out
    Files,    \* struct files
    None,     \* no number, no driver
    Freed     \* the driver of an open file whose module memory was freed

ASSUME DriverLoadAssumption ==
    /\ Drivers \subseteq {"char_dev", "buttons_dev", "char_leds", "char_udev_leds",
                          "leds_dev"}
    /\ None \notin Numbers \cup Drivers
    /\ Freed \notin Drivers \cup {None}

VARIABLES
    mstate,     \* MODULE_STATE of each driver, "out" when it is not loaded
    call,       \* the call of init or exit it is about to make
    dev_t,      \* the device number it has stored
    chrdevs,    \* who has reserved each device number
    cdev_map,   \* the cdevs that are added: <<number, driver>>
    classes, nodes, misc_list,  \* the drivers with a class, a node, a misc device
    filp        \* the driver of each open file

kernelVars == <<chrdevs, cdev_map, classes, nodes, misc_list>>
vars == <<mstate, call, dev_t, kernelVars, filp>>
-----------------------------------------------------------------------------
(* A call whose failure makes init return, and one whose result is not     *)
(* looked at.                                                              *)
Checked(res) == [res |-> res, checked |-> TRUE]
Ignored(res) == [res |-> res, checked |-> FALSE]

chr_init_Ignores == <<Ignored("number"), Checked("cdev")>>

chr_init == <<Checked("number"), Checked("cdev")>>
chr_exit == <<"cdev", "number">>

buttons_init == <<Checked("number"), Ignored("cdev")>>

buttons_exit_KeepsNumber == <<"cdev">>

buttons_exit_NumberFirst == <<"number", "cdev">>

buttons_exit == <<"cdev", "number">>

char_leds_init == <<Checked("number"), Ignored("cdev")>>

char_leds_exit_NumberFirst == <<"number", "cdev">>

char_leds_exit == <<"cdev", "number">>

char_udev_leds_init ==
    <<Checked("number"), Ignored("cdev"), Checked("class"), Ignored("node")>>
char_udev_leds_exit == <<"node", "class", "cdev", "number">>

leds_dev_init == <<Checked("misc")>>
leds_dev_exit == <<"misc">>

InitCalls(d) == CASE d = "char_dev" -> chr_init
                  [] d = "buttons_dev" -> buttons_init
                  [] d = "char_leds" -> char_leds_init
                  [] d = "char_udev_leds" -> char_udev_leds_init
                  [] d = "leds_dev" -> leds_dev_init

ExitCalls(d) == CASE d = "char_dev" -> chr_exit
                  [] d = "buttons_dev" -> buttons_exit
                  [] d = "char_leds" -> char_leds_exit
                  [] d = "char_udev_leds" -> char_udev_leds_exit
                  [] d = "leds_dev" -> leds_dev_exit
-----------------------------------------------------------------------------
(* The type of every variable; a cdev is only ever added under a number    *)
(* that was allocated.                                                     *)
TypeOK ==
    /\ mstate \in [Drivers -> {"out", "COMING", "LIVE", "GOING"}]
    /\ call \in [Drivers -> 1 .. 5]
    /\ dev_t \in [Drivers -> Numbers \cup {None}]
    /\ chrdevs \in [Numbers -> Drivers \cup {None}]
    /\ cdev_map \subseteq Numbers \X Drivers
    /\ classes \subseteq Drivers
    /\ nodes \subseteq Drivers
    /\ misc_list \subseteq Drivers
    /\ filp \in [Files -> Drivers \cup {None, Freed}]

Init ==
    /\ mstate = [d \in Drivers |-> "out"]
    /\ call = [d \in Drivers |-> 1]
    /\ dev_t = [d \in Drivers |-> None]
    /\ chrdevs = [n \in Numbers |-> None]
    /\ cdev_map = {}
    /\ classes = {} /\ nodes = {} /\ misc_list = {}
    /\ filp = [f \in Files |-> None]
-----------------------------------------------------------------------------
(* insmod                                                                  *)
insmod(d) ==
    /\ mstate[d] = "out"
    /\ mstate' = [mstate EXCEPT ![d] = "COMING"]
    /\ UNCHANGED <<call, dev_t, kernelVars, filp>>

(* The registration calls, when they succeed.                              *)
alloc_chrdev_region(d) ==
    /\ \E n \in Numbers : /\ chrdevs[n] = None
                          /\ chrdevs' = [chrdevs EXCEPT ![n] = d]
                          /\ dev_t' = [dev_t EXCEPT ![d] = n]
    /\ UNCHANGED <<cdev_map, classes, nodes, misc_list>>

cdev_add(d) ==
    /\ cdev_map' = cdev_map \cup {<<dev_t[d], d>>}
    /\ UNCHANGED <<dev_t, chrdevs, classes, nodes, misc_list>>

class_create(d) ==
    /\ classes' = classes \cup {d}
    /\ UNCHANGED <<dev_t, chrdevs, cdev_map, nodes, misc_list>>

device_create(d) ==
    /\ nodes' = nodes \cup {d}
    /\ UNCHANGED <<dev_t, chrdevs, cdev_map, classes, misc_list>>

misc_register(d) ==
    /\ misc_list' = misc_list \cup {d}
    /\ UNCHANGED <<dev_t, chrdevs, cdev_map, classes, nodes>>

Calling(d) == mstate[d] = "COMING" /\ call[d] <= Len(InitCalls(d))

CallSucceeds(d) ==
    /\ Calling(d)
    /\ LET res == InitCalls(d)[call[d]].res
       IN  \/ res = "number" /\ alloc_chrdev_region(d)
           \/ res = "cdev" /\ cdev_add(d)
           \/ res = "class" /\ class_create(d)
           \/ res = "node" /\ device_create(d)
           \/ res = "misc" /\ misc_register(d)
    /\ call' = [call EXCEPT ![d] = @ + 1]
    /\ UNCHANGED <<mstate, filp>>

(* A failure nobody looks at.                                              *)
CallFailsUnseen(d) ==
    /\ Calling(d) /\ ~InitCalls(d)[call[d]].checked
    /\ call' = [call EXCEPT ![d] = @ + 1]
    /\ UNCHANGED <<mstate, dev_t, kernelVars, filp>>

(* A failure makes init return at once: nothing is given back, and the     *)
(* kernel frees the module, whatever refers to it.  A file opened through  *)
(* a cdev that was added before the failure is left with functions in      *)
(* freed memory; what its calls do is undefined, and the file is not       *)
(* followed any further (NoDanglingCdev is about that case).               *)
CallFails(d) ==
    /\ Calling(d) /\ InitCalls(d)[call[d]].checked
    /\ mstate' = [mstate EXCEPT ![d] = "out"]
    /\ call' = [call EXCEPT ![d] = 1]
    /\ dev_t' = [dev_t EXCEPT ![d] = None]
    /\ filp' = [f \in Files |-> IF filp[f] = d THEN Freed ELSE filp[f]]
    /\ UNCHANGED kernelVars

InitReturns(d) ==
    /\ mstate[d] = "COMING" /\ call[d] > Len(InitCalls(d))
    /\ mstate' = [mstate EXCEPT ![d] = "LIVE"]
    /\ call' = [call EXCEPT ![d] = 1]
    /\ UNCHANGED <<dev_t, kernelVars, filp>>
-----------------------------------------------------------------------------
(* rmmod                                                                   *)

(* .owner = THIS_MODULE: an open file counts as a use of the module.       *)
InUse(d) == \E f \in Files : filp[f] = d

rmmod(d) ==
    /\ mstate[d] = "LIVE" /\ ~InUse(d)
    /\ mstate' = [mstate EXCEPT ![d] = "GOING"]
    /\ UNCHANGED <<call, dev_t, kernelVars, filp>>

(* The next call of exit; what was never registered is no hindrance.       *)
ExitCall(d) ==
    /\ mstate[d] = "GOING" /\ call[d] <= Len(ExitCalls(d))
    /\ LET res == ExitCalls(d)[call[d]]
       IN  /\ chrdevs' = IF res = "number" THEN [chrdevs EXCEPT ![dev_t[d]] = None]
                                           ELSE chrdevs
           /\ cdev_map' = IF res = "cdev" THEN {p \in cdev_map : p[1] # dev_t[d]}
                                          ELSE cdev_map
           /\ classes' = IF res = "class" THEN classes \ {d} ELSE classes
           /\ nodes' = IF res = "node" THEN nodes \ {d} ELSE nodes
           /\ misc_list' = IF res = "misc" THEN misc_list \ {d} ELSE misc_list
    /\ call' = [call EXCEPT ![d] = @ + 1]
    /\ UNCHANGED <<mstate, dev_t, filp>>

ExitReturns(d) ==
    /\ mstate[d] = "GOING" /\ call[d] > Len(ExitCalls(d))
    /\ mstate' = [mstate EXCEPT ![d] = "out"]
    /\ call' = [call EXCEPT ![d] = 1]
    /\ dev_t' = [dev_t EXCEPT ![d] = None]
    /\ UNCHANGED <<kernelVars, filp>>
-----------------------------------------------------------------------------
(* chrdev_open and misc_open take a reference on the module, which is      *)
(* refused while it is going (an open through a cdev of freed memory is    *)
(* undefined and not followed any further).                                *)
Open(f, d) ==
    /\ filp[f] = None
    /\ mstate[d] \in {"COMING", "LIVE"}
    /\ <<dev_t[d], d>> \in cdev_map \/ d \in misc_list
    /\ filp' = [filp EXCEPT ![f] = d]
    /\ UNCHANGED <<mstate, call, dev_t, kernelVars>>

Close(f) ==
    /\ filp[f] \in Drivers
    /\ filp' = [filp EXCEPT ![f] = None]
    /\ UNCHANGED <<mstate, call, dev_t, kernelVars>>

Next ==
    \/ \E d \in Drivers :
          \/ insmod(d) \/ CallSucceeds(d) \/ CallFailsUnseen(d) \/ CallFails(d)
          \/ InitReturns(d)
          \/ rmmod(d) \/ ExitCall(d) \/ ExitReturns(d)
    \/ \E f \in Files : Close(f) \/ \E d \in Drivers : Open(f, d)

Spec == Init /\ [][Next]_vars
-----------------------------------------------------------------------------
(* What was registered on top of something else goes first: no cdev is     *)
(* left under a number that another driver may be given meanwhile, and no  *)
(* node under a class that is gone.                                        *)
ReleasedInOrder ==
    /\ \A p \in cdev_map : chrdevs[p[1]] = p[2]
    /\ \A d \in nodes : d \in classes /\ dev_t[d] # None

(* exit gives back everything this load of the driver registered, whatever *)
(* call of init failed unseen and whoever else is loading meanwhile.       *)
UnloadFrees ==
    [][\A d \in Drivers : mstate[d] = "GOING" /\ mstate'[d] = "out" =>
          /\ dev_t[d] # None => chrdevs[dev_t[d]] # d /\ <<dev_t[d], d>> \notin cdev_map
          /\ d \notin classes \cup nodes \cup misc_list]_vars

(* What the kernel has of driver d.                                        *)
Registered(d, res) ==
    CASE res = "number" -> dev_t[d] # None /\ chrdevs[dev_t[d]] = d
      [] res = "cdev"   -> <<dev_t[d], d>> \in cdev_map
      [] res = "class"  -> d \in classes
      [] res = "node"   -> d \in nodes
      [] res = "misc"   -> d \in misc_list

(* Every call of init that was checked and did not fail has left its       *)
(* registration in place for as long as the driver loads and is loaded,    *)
(* and a device stays registered under every open file: no exit or failing *)
(* init of another driver takes it, even one that has had the same number, *)
(* and neither does the driver's own exit before the last close.           *)
DeviceStays ==
    /\ \A d \in Drivers : \A i \in DOMAIN InitCalls(d) :
          /\ InitCalls(d)[i].checked
          /\ mstate[d] = "LIVE" \/ (mstate[d] = "COMING" /\ i < call[d])
          => Registered(d, InitCalls(d)[i].res)
    /\ \A f \in Files, d \in Drivers :
          filp[f] = d => Registered(d, "cdev") \/ Registered(d, "misc")
-----------------------------------------------------------------------------
(* Where the init functions do less than the comments and the readme say.  *)

(* leds_dev/readme.md:32: an added cdev has to be removed with cdev_del.   *)
(* A class_create that fails leaves it, pointing into the freed module.    *)
NoDanglingCdev == \A p \in cdev_map : mstate[p[2]] # "out" /\ dev_t[p[2]] = p[1]
=============================================================================
