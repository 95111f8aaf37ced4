-------------------------------- MODULE Leds --------------------------------
(***************************************************************************)
(* The three LED drivers, leds_dev.c, char_leds.c and char_udev_leds.c,    *)
(* which may be loaded together and share the registers GPKCON and GPKDAT. *)
(*                                                                         *)
(* LED1 .. LED4 are on the pins 4 .. 7 and light at the low level.         *)
(* leds_dev.c sets the pins up when it is loaded, the other two at the     *)
(* first open after they are loaded, and all of them switch the LEDs off   *)
(* when they do.  The kernel has one processor and does not preempt: a     *)
(* function runs to its end unless it sleeps, which here only happens in   *)
(* misc_register and in the copy to user space.                            *)
(*                                                                         *)
(* A register is the set of its bits that are 1; of GPKCON only whether    *)
(* the field of a pin says "output" is kept.                               *)
(***************************************************************************)
EXTENDS Naturals

CONSTANTS
    Threads,    \* callers, each with at most one open file
    None,       \* no file
    OtherOut,   \* the pins without LED that are outputs
    OtherHigh,  \* the pins without LED that are at the high level
    MaxIoctl    \* how many ioctl calls are made (bound)

Drivers == {"leds_dev", "char_leds", "char_udev_leds"}
Leds == 1 .. 4
Pins == 0 .. 15

(* 0xF << 4                                                                *)
LedPins == 4 .. 7

ASSUME LedsAssumption ==
    /\ OtherOut \subseteq Pins \ LedPins
    /\ OtherHigh \subseteq Pins \ LedPins
    /\ None \notin Drivers
    /\ MaxIoctl \in Nat

VARIABLES
    GPKCON,       \* the pins that are outputs
    GPKDAT,       \* the pins at the high level
    loaded,       \* the drivers that are loaded
    leds_status,  \* static variable of the two character drivers
    filp,         \* the driver of the file each thread has open
    reading,      \* where the thread's read is: "no", "copy", "done"
    tmp,          \* what the read took from GPKDAT, then user space's buffer
    \* history
    opened,       \* the character drivers opened since they were loaded
    told,         \* the LEDs that were last told to be on
    seen,         \* what told was during the thread's read
    ioctls        \* the number of ioctl calls

vars == <<GPKCON, GPKDAT, loaded, leds_status, filp, reading, tmp,
          opened, told, seen, ioctls>>

TypeOK ==
    /\ GPKCON \subseteq Pins
    /\ GPKDAT \subseteq Pins
    /\ loaded \subseteq Drivers
    /\ leds_status \in [Drivers -> {0, 1}]
    /\ filp \in [Threads -> Drivers \cup {None}]
    /\ reading \in [Threads -> {"no", "copy", "done"}]
    /\ tmp \in [Threads -> SUBSET (0 .. 3)]
    /\ opened \subseteq Drivers
    /\ told \subseteq Leds
    /\ seen \in [Threads -> SUBSET SUBSET Leds]
    /\ ioctls \in 0 .. MaxIoctl

(* The pins as the boot loader left them.                                  *)
Init ==
    /\ GPKCON \in {OtherOut, OtherOut \cup LedPins}
    /\ GPKDAT \in {OtherHigh, OtherHigh \cup LedPins}
    /\ loaded = {}
    /\ leds_status = [d \in Drivers |-> 0]
    /\ filp = [t \in Threads |-> None]
    /\ reading = [t \in Threads |-> "no"]
    /\ tmp = [t \in Threads |-> {}]
    /\ opened = {}
    /\ told = {}
    /\ seen = [t \in Threads |-> {}]
    /\ ioctls = 0
-----------------------------------------------------------------------------
(* What a call does to the commands in force, and to what the reads in     *)
(* progress may report.                                                    *)
Tell(on) ==
    /\ told' = on
    /\ seen' = [t \in Threads |->
                  IF reading[t] = "copy" THEN seen[t] \cup {on} ELSE seen[t]]

ConfigurePins_NotOutput == GPKCON \ LedPins

(* tmp &= ~0xFFFF0000; tmp |= 0x11110000                                   *)
ConfigurePins == (GPKCON \ LedPins) \cup LedPins

AllOff == GPKDAT \cup LedPins
-----------------------------------------------------------------------------
(* insmod leds_dev.ko: the pins are set up before misc_register, so they   *)
(* are even if it fails.                                                   *)
leds_dev_init ==
    /\ "leds_dev" \notin loaded
    /\ GPKCON' = ConfigurePins
    /\ GPKDAT' = AllOff
    /\ loaded' \in {loaded, loaded \cup {"leds_dev"}}
    /\ Tell({})
    /\ UNCHANGED <<leds_status, filp, reading, tmp, opened, ioctls>>

(* insmod of a character driver: the module's data is as it was compiled.  *)
char_leds_init(d) ==
    /\ d # "leds_dev" /\ d \notin loaded
    /\ loaded' = loaded \cup {d}
    /\ leds_status' = [leds_status EXCEPT ![d] = 0]
    /\ opened' = opened \ {d}
    /\ UNCHANGED <<GPKCON, GPKDAT, filp, reading, tmp, told, seen, ioctls>>

(* rmmod; an open file holds the module.                                   *)
leds_exit(d) ==
    /\ d \in loaded
    /\ \A t \in Threads : filp[t] # d
    /\ loaded' = loaded \ {d}
    /\ UNCHANGED <<GPKCON, GPKDAT, leds_status, filp, reading, tmp,
                   opened, told, seen, ioctls>>
-----------------------------------------------------------------------------
(* leds_dev.c has no open of its own.                                      *)
MiscOpen(t) ==
    /\ filp[t] = None /\ "leds_dev" \in loaded
    /\ filp' = [filp EXCEPT ![t] = "leds_dev"]
    /\ UNCHANGED <<GPKCON, GPKDAT, loaded, leds_status, reading, tmp,
                   opened, told, seen, ioctls>>

StatusAfterOpen_NotSet(d) == leds_status[d]

StatusAfterOpen(d) == 1

s3c6410_leds_open(t, d) ==
    /\ filp[t] = None /\ d \in loaded \ {"leds_dev"}
    /\ filp' = [filp EXCEPT ![t] = d]
    /\ IF leds_status[d] = 0
         THEN /\ GPKCON' = ConfigurePins
              /\ GPKDAT' = AllOff
              /\ leds_status' = [leds_status EXCEPT ![d] = StatusAfterOpen(d)]
         ELSE UNCHANGED <<GPKCON, GPKDAT, leds_status>>
    /\ opened' = opened \cup {d}
    /\ Tell(IF d \in opened THEN told ELSE {})
    /\ UNCHANGED <<loaded, reading, tmp, ioctls>>

s3c6410_leds_close(t) ==
    /\ filp[t] # None /\ reading[t] = "no"
    /\ filp' = [filp EXCEPT ![t] = None]
    /\ UNCHANGED <<GPKCON, GPKDAT, loaded, leds_status, reading, tmp,
                   opened, told, seen, ioctls>>
-----------------------------------------------------------------------------
(* ioctl                                                                   *)

BitOf_NextPin(arg) == 4 + arg

(* arg = n: GPKDAT(3 + arg)                                                *)
BitOf(arg) == 3 + arg

(* The pins that get the level !cmd.                                       *)
PinsOf(arg) == IF arg = 0 THEN LedPins ELSE {BitOf(arg)}

NewLevels_NotNegated(cmd, pins) ==
    (GPKDAT \ pins) \cup (IF cmd = 1 THEN pins ELSE {})

NewLevels(cmd, pins) == (GPKDAT \ pins) \cup (IF cmd = 0 THEN pins ELSE {})

(* What the caller means, from the comment in front of the function.       *)
Meant(cmd, arg) ==
    LET which == {n \in Leds : arg \in {0, n}}
    IN  IF cmd = 1 THEN told \cup which ELSE told \ which

s3c6410_leds_ioctl(t, cmd, arg) ==
    /\ filp[t] # None /\ reading[t] = "no"
    /\ ioctls < MaxIoctl
    /\ ioctls' = ioctls + 1
    /\ cmd \in {0, 1} /\ ~(arg > 4)
    /\ GPKDAT' = NewLevels(cmd, PinsOf(arg))
    /\ Tell(Meant(cmd, arg))
    /\ UNCHANGED <<GPKCON, loaded, leds_status, filp, reading, tmp, opened>>

(* Any other cmd or arg: -EINVAL.                                          *)
IoctlEINVAL(t, cmd, arg) ==
    /\ filp[t] # None /\ reading[t] = "no"
    /\ ioctls < MaxIoctl
    /\ ioctls' = ioctls + 1
    /\ cmd \notin {0, 1} \/ arg > 4
    /\ UNCHANGED <<GPKCON, GPKDAT, loaded, leds_status, filp, reading, tmp,
                   opened, told, seen>>
-----------------------------------------------------------------------------
(* read, which only the character drivers have                             *)

LedBits_OneShort == {b - 3 : b \in GPKDAT \cap LedPins}

(* (tmp & (0xF << 4)) >> 4                                                 *)
LedBits == {b - 4 : b \in GPKDAT \cap LedPins}

s3c6410_leds_read(t) ==
    /\ filp[t] \in Drivers \ {"leds_dev"} /\ reading[t] = "no"
    /\ tmp' = [tmp EXCEPT ![t] = LedBits]
    /\ reading' = [reading EXCEPT ![t] = "copy"]
    /\ seen' = [seen EXCEPT ![t] = {told}]
    /\ UNCHANGED <<GPKCON, GPKDAT, loaded, leds_status, filp, opened, told, ioctls>>

(* copy_to_user succeeds; it may have slept on a page fault.               *)
ReadCopied(t) ==
    /\ reading[t] = "copy"
    /\ reading' = [reading EXCEPT ![t] = "done"]
    /\ UNCHANGED <<GPKCON, GPKDAT, loaded, leds_status, filp, tmp,
                   opened, told, seen, ioctls>>

(* The read returns, at once with -EFAULT when the copy failed.            *)
ReadReturn(t) ==
    /\ reading[t] \in {"copy", "done"}
    /\ reading' = [reading EXCEPT ![t] = "no"]
    /\ tmp' = [tmp EXCEPT ![t] = {}]
    /\ seen' = [seen EXCEPT ![t] = {}]
    /\ UNCHANGED <<GPKCON, GPKDAT, loaded, leds_status, filp, opened, told, ioctls>>
-----------------------------------------------------------------------------
Next ==
    \/ leds_dev_init
    \/ \E d \in Drivers : char_leds_init(d) \/ leds_exit(d)
    \/ \E t \in Threads :
         \/ MiscOpen(t)
         \/ \E d \in Drivers : s3c6410_leds_open(t, d)
         \/ s3c6410_leds_close(t)
         \/ \E cmd \in 0 .. 2, arg \in 0 .. 5 :
              s3c6410_leds_ioctl(t, cmd, arg) \/ IoctlEINVAL(t, cmd, arg)
         \/ s3c6410_leds_read(t)
         \/ ReadCopied(t)
         \/ ReadReturn(t)

Spec == Init /\ [][Next]_vars
-----------------------------------------------------------------------------
(* The LEDs that light.                                                    *)
Lit == {n \in Leds : n + 3 \in GPKCON \ GPKDAT}

(* While anybody has a LED file open, through whichever driver, the LEDs   *)
(* show exactly the commands given since they were last switched off by a  *)
(* load of leds_dev or the first open of a character driver: a later open, *)
(* a load or unload of another driver, a failing call or a read changes    *)
(* none of them, and the pins that belong to others keep level and         *)
(* direction.                                                              *)
LedsAsTold ==
    /\ (\E t \in Threads : filp[t] # None) => Lit = told
    /\ GPKCON \ LedPins = OtherOut
    /\ GPKDAT \ LedPins = OtherHigh

(* A read gives user space the state the commands asked for at some moment *)
(* of that read, even if the copy slept while other threads switched LEDs  *)
(* or opened another driver: bit n - 1 is 0 for the LEDs that were on.     *)
AnswerWasTold ==
    \A t \in Threads :
        reading[t] = "done" => {n \in Leds : n - 1 \notin tmp[t]} \in seen[t]
=============================================================================
