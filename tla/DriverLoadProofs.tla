-------------------------- MODULE DriverLoadProofs --------------------------
(***************************************************************************)
(* The safety of DriverLoad for every set of the drivers, every number of  *)
(* device numbers and of files: whatever registration calls fail and       *)
(* however the loads and unloads of the drivers are interleaved.           *)
(***************************************************************************)
EXTENDS DriverLoad, TLAPS

(* How far a driver has come: a call of init or exit that has been made,   *)
(* counted from 1.                                                         *)
Made(d, n) == \/ mstate[d] = "COMING" /\ call[d] > n
              \/ mstate[d] \in {"LIVE", "GOING"}

InitLen(d) == Len(InitCalls(d))
ExitLen(d) == Len(ExitCalls(d))

NotReleased(d, n) == mstate[d] = "GOING" => call[d] <= n

(* The call a driver is about to make exists, or all of them were made.    *)
CallInv ==
    \A d \in Drivers :
        /\ mstate[d] \in {"out", "LIVE"} => call[d] = 1
        /\ mstate[d] = "COMING" => call[d] <= InitLen(d) + 1
        /\ mstate[d] = "GOING" => call[d] <= ExitLen(d) + 1

(* A driver with a device number has it from its first call on, and it is  *)
(* reserved for it until exit gives it back.  When that is about to happen *)
(* no cdev is left under it.                                               *)
NumberInv ==
    \A d \in Drivers \ {"leds_dev"} :
        /\ Made(d, 1) => dev_t[d] \in Numbers
        /\ Made(d, 1) /\ NotReleased(d, ExitLen(d)) => chrdevs[dev_t[d]] = d
        /\ mstate[d] = "GOING" /\ call[d] > ExitLen(d) => chrdevs[dev_t[d]] # d
        /\ mstate[d] = "GOING" /\ call[d] = ExitLen(d)
              => \A p \in cdev_map : p[1] # dev_t[d]

(* A cdev is under the number of its driver.                               *)
CdevInv == \A p \in cdev_map : chrdevs[p[1]] = p[2]

(* The driver of the miscellaneous device has no number; only it has one   *)
(* of those, between its init and its exit.                                *)
MiscInv ==
    /\ "leds_dev" \in Drivers => dev_t["leds_dev"] = None
    /\ \A d \in misc_list : d = "leds_dev" /\ Made(d, 1) /\ NotReleased(d, 1)

(* Only char_udev_leds has a class, from its third call on, and a node,    *)
(* from its fourth on; exit removes the node first.                        *)
ClassInv ==
    /\ \A d \in Drivers :
          d \in classes <=> d = "char_udev_leds" /\ Made(d, 3) /\ NotReleased(d, 2)
    /\ \A d \in nodes : d \in classes /\ Made(d, 4) /\ NotReleased(d, 1)

LoadInv == CallInv /\ NumberInv /\ CdevInv /\ MiscInv /\ ClassInv
-----------------------------------------------------------------------------
(* The init and exit functions.                                            *)

(* What init does: all but leds_dev reserve a number and then add a cdev,  *)
(* and nothing else involves numbers; a failure is only looked at before   *)
(* there is a node.                                                        *)
LEMMA InitFacts ==
  ASSUME NEW d \in Drivers
  PROVE  /\ InitLen(d) \in 1 .. 4
         /\ d = "leds_dev" => InitLen(d) = 1 /\ InitCalls(d)[1] = Checked("misc")
         /\ d # "leds_dev" => /\ InitLen(d) >= 2
                              /\ InitCalls(d)[1] = Checked("number")
                              /\ InitCalls(d)[2].res = "cdev"
         /\ d # "char_udev_leds" => InitLen(d) <= 2
         /\ d = "char_udev_leds" => /\ InitLen(d) = 4
                                    /\ InitCalls(d)[3] = Checked("class")
                                    /\ InitCalls(d)[4] = Ignored("node")
<1>1. CASE d = "char_dev"
  BY <1>1 DEF InitCalls, InitLen, chr_init, Checked, Ignored
<1>2. CASE d = "buttons_dev"
  BY <1>2 DEF InitCalls, InitLen, buttons_init, Checked, Ignored
<1>3. CASE d = "char_leds"
  BY <1>3 DEF InitCalls, InitLen, char_leds_init, Checked, Ignored
<1>4. CASE d = "char_udev_leds"
  BY <1>4 DEF InitCalls, InitLen, char_udev_leds_init, Checked, Ignored
<1>5. CASE d = "leds_dev"
  BY <1>5 DEF InitCalls, InitLen, leds_dev_init, Checked, Ignored
<1> QED BY <1>1, <1>2, <1>3, <1>4, <1>5, DriverLoadAssumption

(* The calls of init are numbered from 1, and only char_dev looks at the   *)
(* result of cdev_add.                                                     *)
LEMMA ChrFacts ==
  ASSUME NEW d \in Drivers
  PROVE  /\ DOMAIN InitCalls(d) = 1 .. InitLen(d)
         /\ d = "char_dev" => InitCalls(d)[2].checked = TRUE
         /\ d \notin {"char_dev", "leds_dev"} => InitCalls(d)[2].checked = FALSE
<1>1. CASE d = "char_dev"
  BY <1>1 DEF InitCalls, InitLen, chr_init, Checked
<1>2. CASE d = "buttons_dev"
  BY <1>2 DEF InitCalls, InitLen, buttons_init, Ignored
<1>3. CASE d = "char_leds"
  BY <1>3 DEF InitCalls, InitLen, char_leds_init, Ignored
<1>4. CASE d = "char_udev_leds"
  BY <1>4 DEF InitCalls, InitLen, char_udev_leds_init, Ignored
<1>5. CASE d = "leds_dev"
  BY <1>5 DEF InitCalls, InitLen, leds_dev_init
<1> QED BY <1>1, <1>2, <1>3, <1>4, <1>5, DriverLoadAssumption

(* exit takes back in the opposite order, the number last.                 *)
LEMMA ExitFacts ==
  ASSUME NEW d \in Drivers
  PROVE  /\ ExitLen(d) \in 1 .. 4
         /\ d = "leds_dev" => ExitLen(d) = 1 /\ ExitCalls(d)[1] = "misc"
         /\ d # "leds_dev" => /\ ExitLen(d) >= 2
                              /\ ExitCalls(d)[ExitLen(d)] = "number"
                              /\ ExitCalls(d)[ExitLen(d) - 1] = "cdev"
         /\ d # "char_udev_leds" => ExitLen(d) <= 2
         /\ d = "char_udev_leds" => /\ ExitLen(d) = 4
                                    /\ ExitCalls(d)[1] = "node"
                                    /\ ExitCalls(d)[2] = "class"
<1>1. CASE d = "char_dev"
  BY <1>1 DEF ExitCalls, ExitLen, chr_exit
<1>2. CASE d = "buttons_dev"
  BY <1>2 DEF ExitCalls, ExitLen, buttons_exit
<1>3. CASE d = "char_leds"
  BY <1>3 DEF ExitCalls, ExitLen, char_leds_exit
<1>4. CASE d = "char_udev_leds"
  BY <1>4 DEF ExitCalls, ExitLen, char_udev_leds_exit
<1>5. CASE d = "leds_dev"
  BY <1>5 DEF ExitCalls, ExitLen, leds_dev_exit
<1> QED BY <1>1, <1>2, <1>3, <1>4, <1>5, DriverLoadAssumption

LEMMA Lengths == \A d \in Drivers : InitLen(d) \in 1 .. 4 /\ ExitLen(d) \in 1 .. 4
  BY InitFacts, ExitFacts
-----------------------------------------------------------------------------
Inv == TypeOK /\ LoadInv

(* The calls of init, by where they stand.                                 *)
LEMMA InitStep ==
  ASSUME Inv, NEW d \in Drivers, Calling(d)
  PROVE  /\ mstate[d] = "COMING" /\ call[d] \in 1 .. 4 /\ call[d] <= InitLen(d)
         /\ LET c == InitCalls(d)[call[d]]
            IN  \/ d # "leds_dev" /\ call[d] = 1 /\ c.res = "number" /\ c.checked = TRUE
                \/ d # "leds_dev" /\ call[d] = 2 /\ c.res = "cdev"
                \/ d = "char_udev_leds" /\ call[d] = 3 /\ c.res = "class" /\ c.checked = TRUE
                \/ d = "char_udev_leds" /\ call[d] = 4 /\ c.res = "node" /\ c.checked = FALSE
                \/ d = "leds_dev" /\ call[d] = 1 /\ c.res = "misc" /\ c.checked = TRUE
<1>1. mstate[d] = "COMING" /\ call[d] \in 1 .. 4 /\ call[d] <= InitLen(d)
  <2>1. InitLen(d) \in 1 .. 4
    BY InitFacts
  <2>2. mstate[d] = "COMING" /\ call[d] \in 1 .. 5 /\ call[d] <= InitLen(d)
    BY DEF Inv, TypeOK, Calling, InitLen
  <2> QED BY <2>1, <2>2
<1>2. \A res : /\ Checked(res).res = res /\ Checked(res).checked = TRUE
               /\ Ignored(res).res = res /\ Ignored(res).checked = FALSE
  BY DEF Checked, Ignored
<1>3. CASE d = "leds_dev"
  BY <1>1, <1>2, <1>3, InitFacts
<1>4. CASE d = "char_udev_leds"
  BY <1>1, <1>2, <1>4, InitFacts
<1>5. CASE d \notin {"leds_dev", "char_udev_leds"}
  BY <1>1, <1>2, <1>5, InitFacts
<1> QED BY <1>1, <1>3, <1>4, <1>5

(* The calls of exit, by where they stand.                                 *)
LEMMA ExitStep ==
  ASSUME Inv, NEW d \in Drivers, call[d] <= ExitLen(d)
  PROVE  /\ call[d] \in 1 .. 4
         /\ LET res == ExitCalls(d)[call[d]]
            IN  \/ d # "leds_dev" /\ call[d] = ExitLen(d) /\ res = "number"
                \/ d # "leds_dev" /\ call[d] = ExitLen(d) - 1 /\ res = "cdev"
                \/ d = "char_udev_leds" /\ call[d] = 2 /\ res = "class"
                \/ d = "char_udev_leds" /\ call[d] = 1 /\ res = "node"
                \/ d = "leds_dev" /\ call[d] = 1 /\ res = "misc"
<1>1. call[d] \in 1 .. 4
  BY ExitFacts DEF Inv, TypeOK
<1>3. CASE d = "leds_dev"
  BY <1>1, <1>3, ExitFacts
<1>4. CASE d = "char_udev_leds"
  BY <1>1, <1>4, ExitFacts
<1>5. CASE d \notin {"leds_dev", "char_udev_leds"}
  BY <1>1, <1>5, ExitFacts
<1> QED BY <1>1, <1>3, <1>4, <1>5

LEMMA InitInv == Init => Inv
<1> SUFFICES ASSUME Init PROVE Inv
  OBVIOUS
<1>1. TypeOK
  BY DEF Init, TypeOK
<1>2. CallInv /\ NumberInv /\ CdevInv /\ MiscInv /\ ClassInv
  BY DEF Init, CallInv, NumberInv, CdevInv, MiscInv, ClassInv, Made, NotReleased
<1> QED BY <1>1, <1>2 DEF Inv, LoadInv

LEMMA InsmodInv ==
  ASSUME Inv, NEW d \in Drivers, insmod(d)
  PROVE  Inv'
<1> USE DEF Inv, LoadInv, insmod, kernelVars
<1>1. TypeOK'
  BY DEF TypeOK
<1>2. CallInv'
  BY Lengths DEF TypeOK, CallInv
<1>3. NumberInv'
  BY DEF TypeOK, CallInv, NumberInv, Made, NotReleased
<1>4. CdevInv' /\ MiscInv' /\ ClassInv'
  BY DEF TypeOK, CallInv, CdevInv, MiscInv, ClassInv, Made, NotReleased
<1> QED BY <1>1, <1>2, <1>3, <1>4

(* The registration call of CallSucceeds, by what it registers.            *)
Acquire(d, res) ==
    \/ res = "number" /\ alloc_chrdev_region(d)
    \/ res = "cdev" /\ cdev_add(d)
    \/ res = "class" /\ class_create(d)
    \/ res = "node" /\ device_create(d)
    \/ res = "misc" /\ misc_register(d)

LEMMA CallSucceedsInv ==
  ASSUME Inv, NEW d \in Drivers, CallSucceeds(d)
  PROVE  Inv'
<1> USE DEF Inv, LoadInv, kernelVars
<1>0. /\ mstate[d] = "COMING" /\ call[d] <= InitLen(d) /\ call[d] \in 1 .. 4
      /\ call' = [call EXCEPT ![d] = @ + 1] /\ UNCHANGED <<mstate, filp>>
  BY InitStep DEF CallSucceeds
<1>1. Calling(d) /\ Acquire(d, InitCalls(d)[call[d]].res)
  BY DEF CallSucceeds, Acquire
<1>2. call' \in [Drivers -> 1 .. 5] /\ CallInv'
  BY <1>0, Lengths DEF TypeOK, CallInv
<1>3. CASE d # "leds_dev" /\ call[d] = 1 /\ InitCalls(d)[call[d]].res = "number"
  <2>1. PICK n \in Numbers : /\ chrdevs[n] = None
                             /\ chrdevs' = [chrdevs EXCEPT ![n] = d]
                             /\ dev_t' = [dev_t EXCEPT ![d] = n]
    BY <1>1, <1>3 DEF Acquire, alloc_chrdev_region, cdev_add, class_create, device_create,
       misc_register
  <2>2. UNCHANGED <<cdev_map, classes, nodes, misc_list>>
    BY <1>1, <1>3 DEF Acquire, alloc_chrdev_region, cdev_add, class_create, device_create,
       misc_register
  <2>3. TypeOK'
    BY <1>0, <1>2, <2>1, <2>2 DEF TypeOK
  <2>4. NumberInv'
    BY <1>0, <1>3, <2>1, <2>2, DriverLoadAssumption
       DEF TypeOK, NumberInv, Made, NotReleased
  <2>5. CdevInv'
    BY <2>1, <2>2, DriverLoadAssumption DEF TypeOK, CdevInv
  <2>6. MiscInv' /\ ClassInv'
    BY <1>0, <1>3, <2>1, <2>2 DEF TypeOK, MiscInv, ClassInv, Made, NotReleased
  <2> QED BY <1>2, <2>3, <2>4, <2>5, <2>6
<1>4. CASE d # "leds_dev" /\ call[d] = 2 /\ InitCalls(d)[call[d]].res = "cdev"
  <2>1. /\ cdev_map' = cdev_map \cup {<<dev_t[d], d>>}
        /\ UNCHANGED <<dev_t, chrdevs, classes, nodes, misc_list>>
    BY <1>1, <1>4 DEF Acquire, alloc_chrdev_region, cdev_add, class_create, device_create,
       misc_register
  <2>2. dev_t[d] \in Numbers /\ chrdevs[dev_t[d]] = d
    BY <1>0, <1>4 DEF NumberInv, Made, NotReleased
  <2>3. TypeOK'
    BY <1>0, <1>2, <2>1, <2>2 DEF TypeOK
  <2>4. NumberInv'
    BY <1>0, <1>4, <2>1, <2>2 DEF TypeOK, NumberInv, Made, NotReleased
  <2>5. CdevInv'
    BY <2>1, <2>2 DEF CdevInv
  <2>6. MiscInv' /\ ClassInv'
    BY <1>0, <1>4, <2>1 DEF TypeOK, MiscInv, ClassInv, Made, NotReleased
  <2> QED BY <1>2, <2>3, <2>4, <2>5, <2>6
<1>5. CASE \/ d = "char_udev_leds" /\ call[d] = 3 /\ InitCalls(d)[call[d]].res = "class"
           \/ d = "char_udev_leds" /\ call[d] = 4 /\ InitCalls(d)[call[d]].res = "node"
           \/ d = "leds_dev" /\ call[d] = 1 /\ InitCalls(d)[call[d]].res = "misc"
  <2>1. UNCHANGED <<dev_t, chrdevs, cdev_map>>
    BY <1>1, <1>5 DEF Acquire, alloc_chrdev_region, cdev_add, class_create, device_create,
       misc_register
  <2>2. /\ classes' = IF call[d] = 3 THEN classes \cup {d} ELSE classes
        /\ nodes' = IF call[d] = 4 THEN nodes \cup {d} ELSE nodes
        /\ misc_list' = IF call[d] = 1 THEN misc_list \cup {d} ELSE misc_list
    BY <1>1, <1>5 DEF Acquire, alloc_chrdev_region, cdev_add, class_create, device_create,
       misc_register
  <2>3. TypeOK'
    BY <1>0, <1>2, <2>1, <2>2 DEF TypeOK
  <2>4. NumberInv'
    BY <1>0, <1>5, <2>1 DEF TypeOK, NumberInv, Made, NotReleased
  <2>5. CdevInv'
    BY <2>1 DEF CdevInv
  <2>6. MiscInv'
    BY <1>0, <1>5, <2>1, <2>2 DEF TypeOK, MiscInv, Made, NotReleased
  <2>7. ClassInv'
    BY <1>0, <1>5, <2>1, <2>2 DEF TypeOK, ClassInv, Made, NotReleased
  <2> QED BY <1>2, <2>3, <2>4, <2>5, <2>6, <2>7
<1> QED BY <1>1, <1>3, <1>4, <1>5, InitStep

LEMMA CallFailsUnseenInv ==
  ASSUME Inv, NEW d \in Drivers, CallFailsUnseen(d)
  PROVE  Inv'
<1> USE DEF Inv, LoadInv, kernelVars
<1>1. /\ Calling(d) /\ ~InitCalls(d)[call[d]].checked
      /\ call' = [call EXCEPT ![d] = @ + 1]
      /\ UNCHANGED <<mstate, dev_t, kernelVars, filp>>
  BY DEF CallFailsUnseen
<1>2. /\ mstate[d] = "COMING" /\ call[d] \in 1 .. 4 /\ call[d] <= InitLen(d)
      /\ call[d] \in {2, 4}
  BY <1>1, InitStep
<1>3. TypeOK'
  BY <1>1, <1>2 DEF TypeOK
<1>4. CallInv'
  BY <1>1, <1>2, Lengths DEF TypeOK, CallInv
<1>5. NumberInv'
  BY <1>1, <1>2, Lengths DEF TypeOK, NumberInv, Made, NotReleased
<1>6. CdevInv' /\ MiscInv' /\ ClassInv'
  BY <1>1, <1>2 DEF TypeOK, CdevInv, MiscInv, ClassInv, Made, NotReleased
<1> QED BY <1>3, <1>4, <1>5, <1>6

(* init returns early only before it made a class or a misc device.  What  *)
(* it had registered stays: the number, and a cdev under it.               *)
LEMMA CallFailsInv ==
  ASSUME Inv, NEW d \in Drivers, CallFails(d)
  PROVE  Inv'
<1> USE DEF Inv, LoadInv, kernelVars
<1>1. /\ Calling(d) /\ InitCalls(d)[call[d]].checked
      /\ mstate' = [mstate EXCEPT ![d] = "out"]
      /\ call' = [call EXCEPT ![d] = 1]
      /\ dev_t' = [dev_t EXCEPT ![d] = None]
      /\ filp' = [f \in Files |-> IF filp[f] = d THEN Freed ELSE filp[f]]
      /\ UNCHANGED kernelVars
  BY DEF CallFails
<1>2. mstate[d] = "COMING" /\ call[d] \in 1 .. 3
  <2>1. InitCalls(d)[call[d]].checked # FALSE
    BY <1>1
  <2>2. /\ mstate[d] = "COMING"
        /\ call[d] \in {1, 2, 3} \/ InitCalls(d)[call[d]].checked = FALSE
    <3>1. Calling(d)
      BY <1>1
    <3> QED BY <3>1, InitStep, Zenon
  <2>3. call[d] \in {1, 2, 3}
    BY <2>1, <2>2
  <2> QED BY <2>2, <2>3
<1>3. TypeOK'
  BY <1>1 DEF TypeOK
<1>4. CallInv'
  BY <1>1 DEF TypeOK, CallInv
<1>5. NumberInv'
  BY <1>1, <1>2 DEF TypeOK, NumberInv, Made, NotReleased
<1>6. CdevInv' /\ ClassInv'
  BY <1>1, <1>2 DEF TypeOK, CdevInv, ClassInv, Made, NotReleased
<1>7. MiscInv'
  <2>1. d = "leds_dev" => call[d] = 1
    BY <1>1, InitStep
  <2> QED BY <1>1, <1>2, <2>1 DEF TypeOK, MiscInv, Made, NotReleased
<1> QED BY <1>3, <1>4, <1>5, <1>6, <1>7

LEMMA InitReturnsInv ==
  ASSUME Inv, NEW d \in Drivers, InitReturns(d)
  PROVE  Inv'
<1> USE DEF Inv, LoadInv, kernelVars
<1>1. /\ mstate[d] = "COMING" /\ call[d] > InitLen(d)
      /\ mstate' = [mstate EXCEPT ![d] = "LIVE"]
      /\ call' = [call EXCEPT ![d] = 1]
      /\ UNCHANGED <<dev_t, kernelVars, filp>>
  BY DEF InitReturns, InitLen
<1>2. InitLen(d) \in 1 .. 4 /\ (d = "char_udev_leds" => InitLen(d) = 4)
  BY InitFacts
<1>3. call[d] > 1 /\ (d = "char_udev_leds" => call[d] = 5)
  BY <1>1, <1>2 DEF TypeOK
<1>4. TypeOK' /\ CallInv'
  BY <1>1 DEF TypeOK, CallInv
<1>5. NumberInv'
  BY <1>1, <1>3 DEF TypeOK, NumberInv, Made, NotReleased
<1>6. CdevInv' /\ MiscInv' /\ ClassInv'
  BY <1>1, <1>3 DEF TypeOK, CdevInv, MiscInv, ClassInv, Made, NotReleased
<1> QED BY <1>4, <1>5, <1>6

LEMMA RmmodInv ==
  ASSUME Inv, NEW d \in Drivers, rmmod(d)
  PROVE  Inv'
<1> USE DEF Inv, LoadInv, kernelVars
<1>1. /\ mstate[d] = "LIVE"
      /\ mstate' = [mstate EXCEPT ![d] = "GOING"]
      /\ UNCHANGED <<call, dev_t, kernelVars, filp>>
  BY DEF rmmod
<1>2. call[d] = 1 /\ ExitLen(d) \in 1 .. 4 /\ (d # "leds_dev" => ExitLen(d) >= 2)
  BY <1>1, ExitFacts DEF CallInv
<1>3. TypeOK'
  BY <1>1 DEF TypeOK
<1>4. CallInv'
  BY <1>1, <1>2 DEF TypeOK, CallInv
<1>5. NumberInv'
  BY <1>1, <1>2 DEF TypeOK, NumberInv, Made, NotReleased
<1>6. CdevInv' /\ MiscInv' /\ ClassInv'
  BY <1>1, <1>2 DEF TypeOK, CdevInv, MiscInv, ClassInv, Made, NotReleased
<1> QED BY <1>3, <1>4, <1>5, <1>6

LEMMA ExitReturnsInv ==
  ASSUME Inv, NEW d \in Drivers, ExitReturns(d)
  PROVE  Inv'
<1> USE DEF Inv, LoadInv, kernelVars
<1>1. /\ mstate[d] = "GOING" /\ call[d] > ExitLen(d)
      /\ mstate' = [mstate EXCEPT ![d] = "out"]
      /\ call' = [call EXCEPT ![d] = 1]
      /\ dev_t' = [dev_t EXCEPT ![d] = None]
      /\ UNCHANGED <<kernelVars, filp>>
  BY DEF ExitReturns, ExitLen
<1>2. ExitLen(d) \in 1 .. 4 /\ (d = "char_udev_leds" => ExitLen(d) = 4)
  BY ExitFacts
<1>3. call[d] > 1 /\ (d = "char_udev_leds" => call[d] = 5)
  BY <1>1, <1>2 DEF TypeOK
<1>4. TypeOK' /\ CallInv'
  BY <1>1 DEF TypeOK, CallInv
<1>5. NumberInv'
  BY <1>1 DEF TypeOK, NumberInv, Made, NotReleased
<1>6. CdevInv' /\ MiscInv' /\ ClassInv'
  BY <1>1, <1>3 DEF TypeOK, CdevInv, MiscInv, ClassInv, Made, NotReleased
<1> QED BY <1>4, <1>5, <1>6

(* exit gives back in order: the cdev goes while the number is still the   *)
(* driver's, so that no other driver's cdev can be under it.               *)
LEMMA ExitCallInv ==
  ASSUME Inv, NEW d \in Drivers, ExitCall(d)
  PROVE  Inv'
<1> USE DEF Inv, LoadInv, kernelVars
<1> DEFINE res == ExitCalls(d)[call[d]]
<1>1. /\ mstate[d] = "GOING" /\ call[d] <= ExitLen(d)
      /\ call' = [call EXCEPT ![d] = @ + 1]
      /\ UNCHANGED <<mstate, dev_t, filp>>
  BY DEF ExitCall, ExitLen
<1>2. /\ chrdevs' = IF res = "number" THEN [chrdevs EXCEPT ![dev_t[d]] = None] ELSE chrdevs
      /\ cdev_map' = IF res = "cdev" THEN {p \in cdev_map : p[1] # dev_t[d]} ELSE cdev_map
      /\ classes' = IF res = "class" THEN classes \ {d} ELSE classes
      /\ nodes' = IF res = "node" THEN nodes \ {d} ELSE nodes
      /\ misc_list' = IF res = "misc" THEN misc_list \ {d} ELSE misc_list
  BY DEF ExitCall
<1>3. /\ call[d] \in 1 .. 4
      /\ \/ d # "leds_dev" /\ call[d] = ExitLen(d) /\ res = "number"
         \/ d # "leds_dev" /\ call[d] = ExitLen(d) - 1 /\ res = "cdev"
         \/ d = "char_udev_leds" /\ call[d] = 2 /\ res = "class"
         \/ d = "char_udev_leds" /\ call[d] = 1 /\ res = "node"
         \/ d = "leds_dev" /\ call[d] = 1 /\ res = "misc"
  BY <1>1, ExitStep
<1>4. /\ ExitLen(d) \in 1 .. 4 /\ (d # "leds_dev" => ExitLen(d) >= 2)
      /\ (d = "char_udev_leds" => ExitLen(d) = 4)
  BY ExitFacts
<1> HIDE DEF res
<1>5. TypeOK'
  <2>1. call' \in [Drivers -> 1 .. 5]
    BY <1>1, <1>3 DEF TypeOK
  <2>2. chrdevs' \in [Numbers -> Drivers \cup {None}]
    BY <1>2 DEF TypeOK
  <2>3. /\ cdev_map' \subseteq Numbers \X Drivers
        /\ classes' \subseteq Drivers /\ nodes' \subseteq Drivers
        /\ misc_list' \subseteq Drivers
    BY <1>2 DEF TypeOK
  <2> QED BY <1>1, <2>1, <2>2, <2>3 DEF TypeOK
<1>6. CallInv'
  BY <1>1, <1>3, <1>4 DEF TypeOK, CallInv
<1>7. CASE res = "number"
  <2>1. /\ d # "leds_dev" /\ call[d] = ExitLen(d)
        /\ chrdevs' = [chrdevs EXCEPT ![dev_t[d]] = None]
        /\ UNCHANGED <<cdev_map, classes, nodes, misc_list>>
    BY <1>2, <1>3, <1>7
  <2>2. /\ dev_t[d] \in Numbers /\ chrdevs[dev_t[d]] = d
        /\ \A p \in cdev_map : p[1] # dev_t[d]
    BY <1>1, <1>3, <1>4, <2>1 DEF NumberInv, Made, NotReleased
  <2>3. CdevInv'
    BY <2>1, <2>2 DEF TypeOK, CdevInv
  <2>4. NumberInv'
    BY <1>1, <1>4, <2>1, <2>2, DriverLoadAssumption DEF TypeOK, NumberInv, Made, NotReleased
  <2>5. MiscInv' /\ ClassInv'
    BY <1>1, <1>3, <1>4, <2>1 DEF TypeOK, MiscInv, ClassInv, Made, NotReleased
  <2> QED BY <1>5, <1>6, <2>3, <2>4, <2>5
<1>8. CASE res = "cdev"
  <2>1. /\ d # "leds_dev" /\ call[d] = ExitLen(d) - 1
        /\ cdev_map' = {p \in cdev_map : p[1] # dev_t[d]}
        /\ UNCHANGED <<chrdevs, classes, nodes, misc_list>>
    BY <1>2, <1>3, <1>8
  <2>2. CdevInv'
    BY <2>1 DEF CdevInv
  <2>3. NumberInv'
    BY <1>1, <1>4, <2>1 DEF TypeOK, NumberInv, Made, NotReleased
  <2>4. MiscInv' /\ ClassInv'
    BY <1>1, <1>3, <1>4, <2>1 DEF TypeOK, MiscInv, ClassInv, Made, NotReleased
  <2> QED BY <1>5, <1>6, <2>2, <2>3, <2>4
<1>9. CASE res \in {"class", "node", "misc"}
  <2>1. UNCHANGED <<chrdevs, cdev_map>>
    BY <1>2, <1>9
  <2>2. d # "leds_dev" => call[d] < ExitLen(d) - 1
    BY <1>3, <1>4, <1>9
  <2>3. CdevInv' /\ NumberInv'
    BY <1>1, <1>3, <1>4, <2>1, <2>2 DEF TypeOK, CdevInv, NumberInv, Made, NotReleased
  <2>4. MiscInv'
    BY <1>1, <1>2, <1>3 DEF TypeOK, MiscInv, Made, NotReleased
  <2>5. ClassInv'
    <3>1. CASE d = "char_udev_leds"
      <4>1. d \in classes' <=> call[d] + 1 <= 2
        BY <1>1, <1>2, <1>3, <1>4, <1>9, <3>1 DEF TypeOK, ClassInv, Made, NotReleased
      <4>2. d \notin nodes'
        BY <1>1, <1>2, <1>3, <1>4, <1>9, <3>1 DEF TypeOK, ClassInv, Made, NotReleased
      <4> QED BY <1>1, <1>2, <3>1, <4>1, <4>2 DEF TypeOK, ClassInv, Made, NotReleased
    <3>2. CASE d # "char_udev_leds"
      BY <1>1, <1>2, <1>3, <3>2 DEF TypeOK, ClassInv, Made, NotReleased
    <3> QED BY <3>1, <3>2
  <2> QED BY <1>5, <1>6, <2>3, <2>4, <2>5
<1> QED BY <1>3, <1>7, <1>8, <1>9

(* Opening and closing a file registers nothing.                           *)
LEMMA FileInv ==
  ASSUME Inv, filp' \in [Files -> Drivers \cup {None, Freed}],
         UNCHANGED <<mstate, call, dev_t, kernelVars>>
  PROVE  Inv'
  BY DEF Inv, LoadInv, kernelVars, TypeOK, CallInv, NumberInv, CdevInv, MiscInv, ClassInv,
         Made, NotReleased

LEMMA NextInv ==
  ASSUME Inv, [Next]_vars
  PROVE  Inv'
<1>1. ASSUME NEW f \in Files, Close(f) PROVE Inv'
  BY <1>1, FileInv DEF Close, Inv, TypeOK
<1>2. ASSUME NEW f \in Files, NEW d \in Drivers, Open(f, d) PROVE Inv'
  BY <1>2, FileInv DEF Open, Inv, TypeOK
<1>3. CASE UNCHANGED vars
  BY <1>3, FileInv DEF vars, Inv, TypeOK
<1> QED
  BY <1>1, <1>2, <1>3, InsmodInv, CallSucceedsInv, CallFailsUnseenInv, CallFailsInv,
     InitReturnsInv, RmmodInv, ExitCallInv, ExitReturnsInv DEF Next

LEMMA InvAlways == Spec => []Inv
  BY InitInv, NextInv, PTL DEF Spec
-----------------------------------------------------------------------------
(* Every variable keeps its type; a cdev is only ever added under a number *)
(* that alloc_chrdev_region gave out.                                      *)
THEOREM TypeCorrect == Spec => []TypeOK
<1>1. Inv => TypeOK
  BY DEF Inv
<1> QED BY <1>1, InvAlways, PTL

(* cdevs never stay under a number another driver may be given, nor nodes  *)
(* under a class that is gone, whatever calls fail.                        *)
THEOREM ReleasedInOrderAlways == Spec => []ReleasedInOrder
<1>1. ASSUME Inv PROVE ReleasedInOrder
  <2>1. \A p \in cdev_map : chrdevs[p[1]] = p[2]
    BY <1>1 DEF Inv, LoadInv, CdevInv
  <2>2. ASSUME NEW d \in nodes PROVE d \in classes /\ dev_t[d] # None
    <3>1. d \in Drivers /\ d \in classes /\ d = "char_udev_leds" /\ Made(d, 3)
      BY <1>1 DEF Inv, LoadInv, ClassInv, TypeOK
    <3>2. Made(d, 1)
      BY <1>1, <3>1 DEF Made, Inv, TypeOK
    <3> QED BY <1>1, <3>1, <3>2, DriverLoadAssumption DEF Inv, LoadInv, NumberInv
  <2> QED BY <2>1, <2>2 DEF ReleasedInOrder
<1> QED BY <1>1, InvAlways, PTL

UnloadStep ==
    \A d \in Drivers : mstate[d] = "GOING" /\ mstate'[d] = "out" =>
        /\ dev_t[d] # None => chrdevs[dev_t[d]] # d /\ <<dev_t[d], d>> \notin cdev_map
        /\ d \notin classes \cup nodes \cup misc_list

(* exit has given back everything this load registered when it returns.    *)
THEOREM UnloadFreesAlways == Spec => UnloadFrees
<1>1. ASSUME Inv, [Next]_vars PROVE UnloadStep
  <2> SUFFICES ASSUME NEW d \in Drivers, mstate[d] = "GOING", mstate'[d] = "out"
               PROVE  /\ dev_t[d] # None => /\ chrdevs[dev_t[d]] # d
                                            /\ <<dev_t[d], d>> \notin cdev_map
                      /\ d \notin classes \cup nodes \cup misc_list
    BY DEF UnloadStep
  <2>1. call[d] > ExitLen(d)
    BY <1>1 DEF Next, vars, kernelVars, insmod, CallSucceeds, CallFailsUnseen, CallFails,
       Calling, InitReturns, rmmod, ExitCall, ExitReturns, Open, Close, Inv, TypeOK, ExitLen
  <2>2. ExitLen(d) \in 1 .. 4 /\ (d = "char_udev_leds" => ExitLen(d) = 4)
    BY ExitFacts
  <2>3. d = "leds_dev" => dev_t[d] = None
    BY <1>1 DEF Inv, LoadInv, MiscInv
  <2>4. d # "leds_dev" => chrdevs[dev_t[d]] # d
    BY <1>1, <2>1 DEF Inv, LoadInv, NumberInv
  <2>5. <<dev_t[d], d>> \in cdev_map => chrdevs[dev_t[d]] = d
    BY <1>1 DEF Inv, LoadInv, CdevInv
  <2>6. d \notin classes \cup nodes \cup misc_list
    BY <1>1, <2>1, <2>2 DEF Inv, LoadInv, TypeOK, MiscInv, ClassInv, NotReleased
  <2> QED BY <2>3, <2>4, <2>5, <2>6
<1>2. Inv /\ [Next]_vars => [UnloadStep]_vars
  BY <1>1
<1> QED BY <1>2, InvAlways, PTL DEF Spec, UnloadFrees, UnloadStep
-----------------------------------------------------------------------------
(* What a loaded driver keeps.                                             *)

HasDevice(d) == <<dev_t[d], d>> \in cdev_map \/ d \in misc_list

(* The inductive form of DeviceStays: only char_dev looks at the result of *)
(* cdev_add, so only its cdev is certain; leds_dev has its misc device     *)
(* until exit takes it; a driver with an open file is loading or loaded    *)
(* and has its device.  A driver without a number has none stored, so a    *)
(* cdev that an earlier load left behind is not its device.                *)
NoNumberInv == \A d \in Drivers : ~Made(d, 1) => dev_t[d] = None

ChrInv == "char_dev" \in Drivers /\ Made("char_dev", 2) /\ NotReleased("char_dev", 1)
             => <<dev_t["char_dev"], "char_dev">> \in cdev_map

LedsInv == "leds_dev" \in Drivers /\ Made("leds_dev", 1) /\ NotReleased("leds_dev", 1)
              => "leds_dev" \in misc_list

OpenInv == \A f \in Files, d \in Drivers :
              filp[f] = d => mstate[d] \in {"COMING", "LIVE"} /\ HasDevice(d)

StayInv == NoNumberInv /\ ChrInv /\ LedsInv /\ OpenInv

LEMMA InitStay == Init => StayInv
  BY DriverLoadAssumption DEF Init, StayInv, NoNumberInv, ChrInv, LedsInv, OpenInv, Made,
     HasDevice

(* A step that leaves the kernel and the numbers alone, and moves driver d *)
(* between two program points at which the same calls were made.           *)
LEMMA QuietStay ==
  ASSUME Inv, StayInv, NEW d \in Drivers,
         insmod(d) \/ InitReturns(d) \/ rmmod(d)
  PROVE  StayInv'
<1> USE DEF Inv, TypeOK, LoadInv, CallInv, StayInv, kernelVars
<1>1. UNCHANGED <<dev_t, kernelVars, filp>> /\ \A e \in Drivers : HasDevice(e)' = HasDevice(e)
  BY DEF insmod, InitReturns, rmmod, HasDevice
<1>2. InitReturns(d) => /\ call[d] > 1
                        /\ d = "char_dev" => call[d] > 2
  BY InitFacts DEF InitReturns, InitLen
<1>3. \A e \in Drivers : ~Made(e, 1)' => ~Made(e, 1)
  BY DEF insmod, InitReturns, rmmod, Made
<1>4. \A e \in Drivers : Made(e, 1)' => Made(e, 1)
  BY <1>2 DEF insmod, InitReturns, rmmod, Made
<1>5. "char_dev" \in Drivers /\ Made("char_dev", 2)' => Made("char_dev", 2)
  BY <1>2 DEF insmod, InitReturns, rmmod, Made
<1>6. \A e \in Drivers : NotReleased(e, 1)' => NotReleased(e, 1)
  BY DEF insmod, InitReturns, rmmod, NotReleased
<1>7. NoNumberInv'
  BY <1>1, <1>3 DEF NoNumberInv
<1>8. ChrInv' /\ LedsInv'
  BY <1>1, <1>4, <1>5, <1>6 DEF ChrInv, LedsInv
<1>9. OpenInv'
  BY <1>1 DEF OpenInv, insmod, InitReturns, rmmod, InUse
<1> QED BY <1>7, <1>8, <1>9

LEMMA SucceedStay ==
  ASSUME Inv, StayInv, NEW d \in Drivers, CallSucceeds(d)
  PROVE  StayInv'
<1> USE DriverLoadAssumption DEF Inv, TypeOK, LoadInv, CallInv, StayInv, kernelVars, Made,
        NotReleased
<1>0. /\ mstate[d] = "COMING" /\ call[d] \in 1 .. 4
      /\ call' = [call EXCEPT ![d] = @ + 1] /\ UNCHANGED <<mstate, filp>>
  BY InitStep DEF CallSucceeds
<1>1. Calling(d) /\ Acquire(d, InitCalls(d)[call[d]].res)
  BY DEF CallSucceeds, Acquire
<1>2. /\ cdev_map \subseteq cdev_map' /\ misc_list \subseteq misc_list'
      /\ \A e \in Drivers \ {d} : dev_t'[e] = dev_t[e]
  BY <1>1 DEF Acquire, alloc_chrdev_region, cdev_add, class_create, device_create,
       misc_register
<1>3. CASE d # "leds_dev" /\ call[d] = 1 /\ InitCalls(d)[call[d]].res = "number"
  <2>1. misc_list' = misc_list /\ "leds_dev" # d
    BY <1>1, <1>3 DEF Acquire, alloc_chrdev_region
  <2>2. \A f \in Files : filp[f] # d
    <3>1. ~HasDevice(d)
      BY <1>0, <1>3 DEF HasDevice, NoNumberInv, MiscInv
    <3> QED BY <3>1 DEF OpenInv
  <2>3. NoNumberInv'
    BY <1>0, <1>2, <1>3 DEF NoNumberInv
  <2>4. ChrInv' /\ LedsInv'
    BY <1>0, <1>2, <1>3, <2>1 DEF ChrInv, LedsInv
  <2>5. OpenInv'
    BY <1>0, <1>2, <2>2 DEF OpenInv, HasDevice
  <2> QED BY <2>3, <2>4, <2>5
<1>4. CASE d # "leds_dev" /\ call[d] = 2 /\ InitCalls(d)[call[d]].res = "cdev"
  <2>1. dev_t' = dev_t /\ <<dev_t[d], d>> \in cdev_map'
    BY <1>1, <1>4 DEF Acquire, cdev_add
  <2>2. NoNumberInv'
    BY <1>0, <1>4, <2>1 DEF NoNumberInv
  <2>3. ChrInv' /\ LedsInv'
    BY <1>0, <1>2, <1>4, <2>1 DEF ChrInv, LedsInv
  <2>4. OpenInv'
    BY <1>0, <1>2, <2>1 DEF OpenInv, HasDevice
  <2> QED BY <2>2, <2>3, <2>4
<1>5. CASE \/ d = "char_udev_leds" /\ call[d] = 3 /\ InitCalls(d)[call[d]].res = "class"
           \/ d = "char_udev_leds" /\ call[d] = 4 /\ InitCalls(d)[call[d]].res = "node"
           \/ d = "leds_dev" /\ call[d] = 1 /\ InitCalls(d)[call[d]].res = "misc"
  <2>1. dev_t' = dev_t
    BY <1>1, <1>5 DEF Acquire, cdev_add, class_create, device_create, misc_register
  <2>2. d = "leds_dev" => d \in misc_list'
    BY <1>1, <1>5 DEF Acquire, misc_register
  <2>3. NoNumberInv'
    BY <1>0, <2>1 DEF NoNumberInv
  <2>4. ChrInv' /\ LedsInv'
    BY <1>0, <1>2, <1>5, <2>1, <2>2 DEF ChrInv, LedsInv
  <2>5. OpenInv'
    BY <1>0, <1>2, <2>1 DEF OpenInv, HasDevice
  <2> QED BY <2>3, <2>4, <2>5
<1> QED BY <1>1, <1>3, <1>4, <1>5, InitStep

(* A failure nobody looks at is never one of char_dev.                     *)
LEMMA UnseenStay ==
  ASSUME Inv, StayInv, NEW d \in Drivers, CallFailsUnseen(d)
  PROVE  StayInv'
<1> USE DEF Inv, TypeOK, LoadInv, CallInv, StayInv, kernelVars
<1>1. /\ Calling(d) /\ InitCalls(d)[call[d]].checked # TRUE
      /\ call' = [call EXCEPT ![d] = @ + 1]
      /\ UNCHANGED <<mstate, dev_t, kernelVars, filp>>
  BY DEF CallFailsUnseen
<1>2. mstate[d] = "COMING" /\ call[d] \in {2, 4} /\ d # "leds_dev"
  BY <1>1, InitStep
<1>3. d # "char_dev"
  <2>1. d = "char_dev" => call[d] = 2
    BY <1>1, <1>2, InitStep, InitFacts
  <2> QED BY <1>1, <2>1, ChrFacts
<1>4. NoNumberInv'
  BY <1>1, <1>2 DEF NoNumberInv, Made
<1>5. ChrInv' /\ LedsInv'
  BY <1>1, <1>2, <1>3 DEF ChrInv, LedsInv, Made, NotReleased
<1>6. OpenInv'
  BY <1>1 DEF OpenInv, HasDevice
<1> QED BY <1>4, <1>5, <1>6

(* A driver leaves: its files are gone, or were left to freed memory, and  *)
(* what the others have registered is not touched.                         *)
LEMMA LeaveStay ==
  ASSUME Inv, StayInv, NEW d \in Drivers, CallFails(d) \/ ExitReturns(d)
  PROVE  StayInv'
<1> USE DEF Inv, TypeOK, LoadInv, StayInv, kernelVars
<1>1. /\ mstate' = [mstate EXCEPT ![d] = "out"]
      /\ call' = [call EXCEPT ![d] = 1]
      /\ dev_t' = [dev_t EXCEPT ![d] = None]
      /\ UNCHANGED kernelVars
  BY DEF CallFails, ExitReturns
<1>2. /\ \A f \in Files : filp'[f] # d
      /\ \A f \in Files, e \in Drivers : filp'[f] = e => filp[f] = e
  <2>1. CASE CallFails(d)
    BY <2>1, DriverLoadAssumption DEF CallFails
  <2>2. CASE ExitReturns(d)
    BY <2>2 DEF ExitReturns, OpenInv
  <2> QED BY <2>1, <2>2
<1>3. NoNumberInv'
  BY <1>1 DEF NoNumberInv, Made
<1>4. ChrInv' /\ LedsInv'
  BY <1>1 DEF ChrInv, LedsInv, Made, NotReleased
<1>5. OpenInv'
  BY <1>1, <1>2 DEF OpenInv, HasDevice
<1> QED BY <1>3, <1>4, <1>5

(* exit takes the cdev under its own number.  A cdev of another driver is  *)
(* under the number reserved for that driver, so it is a different one.    *)
LEMMA ExitStay ==
  ASSUME Inv, StayInv, NEW d \in Drivers, ExitCall(d)
  PROVE  StayInv'
<1> USE DEF Inv, TypeOK, LoadInv, StayInv, kernelVars
<1> DEFINE res == ExitCalls(d)[call[d]]
<1>1. /\ mstate[d] = "GOING" /\ call[d] <= ExitLen(d)
      /\ call' = [call EXCEPT ![d] = @ + 1]
      /\ UNCHANGED <<mstate, dev_t, filp>>
  BY DEF ExitCall, ExitLen
<1>2. /\ cdev_map' = IF res = "cdev" THEN {p \in cdev_map : p[1] # dev_t[d]} ELSE cdev_map
      /\ misc_list' = IF res = "misc" THEN misc_list \ {d} ELSE misc_list
  BY DEF ExitCall
<1>3. /\ call[d] \in 1 .. 4
      /\ res = "cdev" => d # "leds_dev" /\ call[d] = ExitLen(d) - 1
      /\ res = "misc" => d = "leds_dev"
  BY <1>1, ExitStep
<1>4. ExitLen(d) \in 1 .. 4
  BY ExitFacts
<1> HIDE DEF res
<1>5. \A e \in Drivers \ {d} : HasDevice(e) => HasDevice(e)'
  <2> SUFFICES ASSUME NEW e \in Drivers \ {d}, <<dev_t[e], e>> \in cdev_map, res = "cdev"
               PROVE  <<dev_t[e], e>> \in cdev_map'
    BY <1>1, <1>2 DEF HasDevice
  <2>1. chrdevs[dev_t[e]] = e
    BY DEF CdevInv
  <2>2. chrdevs[dev_t[d]] = d
    BY <1>1, <1>3, <1>4 DEF NumberInv, Made, NotReleased
  <2> QED BY <1>2, <2>1, <2>2
<1>6. NoNumberInv'
  BY <1>1, <1>3 DEF NoNumberInv, Made
<1>7. ChrInv'
  <2> SUFFICES ASSUME "char_dev" \in Drivers, Made("char_dev", 2)', NotReleased("char_dev", 1)'
               PROVE  <<dev_t'["char_dev"], "char_dev">> \in cdev_map'
    BY DEF ChrInv
  <2>1. d # "char_dev"
    BY <1>1, <1>3 DEF NotReleased
  <2>2. <<dev_t["char_dev"], "char_dev">> \in cdev_map
    BY <1>1, <2>1 DEF ChrInv, Made, NotReleased
  <2>3. "char_dev" \notin misc_list
    BY DEF MiscInv
  <2>4. HasDevice("char_dev")' /\ "char_dev" \notin misc_list'
    BY <1>2, <1>5, <2>1, <2>2, <2>3 DEF HasDevice
  <2> QED BY <2>4 DEF HasDevice
<1>8. LedsInv'
  BY <1>1, <1>2, <1>3 DEF LedsInv, Made, NotReleased
<1>9. OpenInv'
  BY <1>1, <1>5 DEF OpenInv
<1> QED BY <1>6, <1>7, <1>8, <1>9

LEMMA FileStay ==
  ASSUME Inv, StayInv, NEW f \in Files, Close(f) \/ \E d \in Drivers : Open(f, d)
  PROVE  StayInv'
<1> USE DEF Inv, TypeOK, StayInv, kernelVars
<1>1. UNCHANGED <<mstate, call, dev_t, kernelVars>>
  BY DEF Open, Close
<1>2. \A g \in Files, d \in Drivers :
         filp'[g] = d => filp[g] = d \/ (mstate[d] \in {"COMING", "LIVE"} /\ HasDevice(d))
  <2>1. CASE Close(f)
    BY <2>1, DriverLoadAssumption DEF Close
  <2>2. ASSUME NEW e \in Drivers, Open(f, e)
        PROVE  \A g \in Files, d \in Drivers :
                  filp'[g] = d =>
                     filp[g] = d \/ (mstate[d] \in {"COMING", "LIVE"} /\ HasDevice(d))
    BY <2>2 DEF Open, HasDevice
  <2> QED BY <2>1, <2>2
<1>3. NoNumberInv' /\ ChrInv' /\ LedsInv'
  BY <1>1 DEF NoNumberInv, ChrInv, LedsInv, Made, NotReleased
<1>4. OpenInv'
  BY <1>1, <1>2 DEF OpenInv, HasDevice
<1> QED BY <1>3, <1>4

LEMMA NextStay == Inv /\ StayInv /\ [Next]_vars => StayInv'
<1> SUFFICES ASSUME Inv, StayInv, [Next]_vars PROVE StayInv'
  OBVIOUS
<1>1. CASE UNCHANGED vars
  BY <1>1 DEF vars, kernelVars, StayInv, NoNumberInv, ChrInv, LedsInv, OpenInv, HasDevice,
     Made, NotReleased
<1> QED BY <1>1, QuietStay, SucceedStay, UnseenStay, LeaveStay, ExitStay, FileStay DEF Next

(* What a driver registered with checked calls stays registered while it   *)
(* is loaded, and every open file's device with it, for any number of      *)
(* device numbers and files and whatever the other drivers do.             *)
THEOREM DeviceStaysAlways == Spec => []DeviceStays
<1>1. ASSUME Inv, StayInv PROVE DeviceStays
  <2> USE <1>1 DEF Inv, LoadInv, StayInv
  <2>1. ASSUME NEW d \in Drivers, NEW i \in DOMAIN InitCalls(d), InitCalls(d)[i].checked,
               mstate[d] = "LIVE" \/ (mstate[d] = "COMING" /\ i < call[d])
        PROVE  Registered(d, InitCalls(d)[i].res)
    <3>1. i \in 1 .. 4 /\ i <= InitLen(d) /\ Made(d, i) /\ Made(d, 1)
      <4>1. DOMAIN InitCalls(d) = 1 .. InitLen(d)
        BY ChrFacts
      <4> QED BY <2>1, <4>1, InitFacts DEF Made, TypeOK
    <3>2. \A res : /\ Checked(res).res = res /\ Checked(res).checked = TRUE
                   /\ Ignored(res).res = res /\ Ignored(res).checked = FALSE
      BY DEF Checked, Ignored
    <3>3. CASE d = "leds_dev"
      <4>1. i = 1 /\ InitCalls(d)[i].res = "misc" /\ d \in misc_list
        BY <2>1, <3>1, <3>2, <3>3, InitFacts DEF LedsInv, NotReleased
      <4> QED BY <4>1 DEF Registered
    <3>4. CASE d # "leds_dev" /\ i = 1
      <4>1. InitCalls(d)[i].res = "number"
        BY <3>2, <3>4, InitFacts
      <4>2. dev_t[d] \in Numbers /\ chrdevs[dev_t[d]] = d
        BY <2>1, <3>1, <3>4 DEF NumberInv, NotReleased
      <4> QED BY <4>1, <4>2, DriverLoadAssumption DEF Registered
    <3>5. CASE d # "leds_dev" /\ i = 2
      <4>1. InitCalls(d)[i].res = "cdev"
        BY <3>5, InitFacts
      <4>2. d = "char_dev"
        BY <2>1, <3>5, ChrFacts
      <4>3. <<dev_t[d], d>> \in cdev_map
        BY <2>1, <3>1, <3>5, <4>2 DEF ChrInv, NotReleased
      <4> QED BY <4>1, <4>3 DEF Registered
    <3>6. CASE d # "leds_dev" /\ i \in {3, 4}
      <4>1. d = "char_udev_leds" /\ i = 3 /\ InitCalls(d)[i].res = "class"
        BY <2>1, <3>1, <3>2, <3>6, InitFacts
      <4>2. d \in classes
        BY <2>1, <3>1, <4>1 DEF ClassInv, NotReleased
      <4> QED BY <4>1, <4>2 DEF Registered
    <3> QED BY <3>1, <3>3, <3>4, <3>5, <3>6
  <2>2. ASSUME NEW f \in Files, NEW d \in Drivers, filp[f] = d
        PROVE  Registered(d, "cdev") \/ Registered(d, "misc")
    BY <2>2 DEF OpenInv, HasDevice, Registered
  <2> QED BY <2>1, <2>2 DEF DeviceStays
<1>2. Spec => []StayInv
  BY InitStay, NextStay, InvAlways, PTL DEF Spec
<1> QED BY <1>1, <1>2, InvAlways, PTL
=============================================================================
