----------------------------- MODULE LedsProofs -----------------------------
(***************************************************************************)
(* Leds keeps its types, shows what it was told and reports what it shows, *)
(* for every set of threads and every state of the other pins.             *)
(***************************************************************************)
EXTENDS Leds, TLAPS

(* The character drivers, the two with open and read.                      *)
CharDrivers == Drivers \ {"leds_dev"}

(* Some driver has set the pins up.                                        *)
SetUp == opened # {} \/ "leds_dev" \in loaded

(* The registers: the pins of others are as they were, and once the LED    *)
(* pins are set up their levels are the commands.                          *)
RegInv ==
    /\ GPKCON \ LedPins = OtherOut
    /\ GPKDAT \ LedPins = OtherHigh
    /\ SetUp => /\ LedPins \subseteq GPKCON
                /\ \A n \in Leds : n \in told <=> n + 3 \notin GPKDAT

(* leds_status remembers the first open, and an open file is a file of a   *)
(* driver that is loaded and, if it has an open of its own, was opened.    *)
FileInv ==
    /\ \A d \in CharDrivers : leds_status[d] = 1 <=> d \in opened
    /\ \A t \in Threads : filp[t] # None => /\ filp[t] \in loaded
                                            /\ filp[t] # "leds_dev" => filp[t] \in opened
    /\ opened \subseteq CharDrivers

(* A read holds a state the commands asked for since it began.             *)
ReadInv ==
    \A t \in Threads :
        reading[t] # "no" => /\ filp[t] \in CharDrivers
                             /\ {n \in Leds : n - 1 \notin tmp[t]} \in seen[t]

(* The inductive invariant.                                                *)
LedsInv == TypeOK /\ RegInv /\ FileInv /\ ReadInv
-----------------------------------------------------------------------------
(* Every variable has its type at the start and after every step; what a   *)
(* read takes from GPKDAT is four bits.                                    *)
LEMMA InitType == Init => TypeOK
  BY LedsAssumption DEF Init, TypeOK, Pins, LedPins, Leds

LEMMA NextType ==
  ASSUME TypeOK, [Next]_vars
  PROVE  TypeOK'
<1> USE LedsAssumption DEF TypeOK
<1>1. CASE leds_dev_init
  BY <1>1 DEF leds_dev_init, ConfigurePins, AllOff, Tell, Pins, LedPins, Drivers
<1>2. ASSUME NEW d \in Drivers, char_leds_init(d) PROVE TypeOK'
  BY <1>2 DEF char_leds_init
<1>3. ASSUME NEW d \in Drivers, leds_exit(d) PROVE TypeOK'
  BY <1>3 DEF leds_exit
<1>4. ASSUME NEW t \in Threads, MiscOpen(t) PROVE TypeOK'
  BY <1>4 DEF MiscOpen, Drivers
<1>5. ASSUME NEW t \in Threads, NEW d \in Drivers, s3c6410_leds_open(t, d) PROVE TypeOK'
  <2>1. told' \subseteq Leds /\ seen' \in [Threads -> SUBSET SUBSET Leds]
    BY <1>5 DEF s3c6410_leds_open, Tell
  <2>2. GPKCON' \subseteq Pins /\ GPKDAT' \subseteq Pins
    <3>1. ConfigurePins \subseteq Pins /\ AllOff \subseteq Pins
      BY DEF ConfigurePins, AllOff, Pins, LedPins
    <3> QED BY <1>5, <3>1 DEF s3c6410_leds_open
  <2>3. leds_status' \in [Drivers -> {0, 1}]
    BY <1>5 DEF s3c6410_leds_open, StatusAfterOpen
  <2> QED BY <1>5, <2>1, <2>2, <2>3 DEF s3c6410_leds_open
<1>6. ASSUME NEW t \in Threads, s3c6410_leds_close(t) PROVE TypeOK'
  BY <1>6 DEF s3c6410_leds_close
<1>7. ASSUME NEW t \in Threads, NEW cmd \in 0 .. 2, NEW arg \in 0 .. 5,
             s3c6410_leds_ioctl(t, cmd, arg)
      PROVE TypeOK'
  <2>1. Meant(cmd, arg) \subseteq Leds
    BY DEF Meant
  <2>2. PinsOf(arg) \subseteq Pins
    BY DEF PinsOf, BitOf, Pins, LedPins
  <2>3. GPKDAT' \subseteq Pins
    BY <1>7, <2>2 DEF s3c6410_leds_ioctl, NewLevels
  <2>4. told' \subseteq Leds /\ seen' \in [Threads -> SUBSET SUBSET Leds]
    BY <1>7, <2>1 DEF s3c6410_leds_ioctl, Tell
  <2> QED BY <1>7, <2>3, <2>4 DEF s3c6410_leds_ioctl
<1>8. ASSUME NEW t \in Threads, NEW cmd \in 0 .. 2, NEW arg \in 0 .. 5,
             IoctlEINVAL(t, cmd, arg)
      PROVE TypeOK'
  BY <1>8 DEF IoctlEINVAL
<1>9. ASSUME NEW t \in Threads, s3c6410_leds_read(t) PROVE TypeOK'
  <2>1. LedBits \in SUBSET (0 .. 3)
    BY DEF LedBits, LedPins
  <2> QED BY <1>9, <2>1 DEF s3c6410_leds_read
<1>10. ASSUME NEW t \in Threads, ReadCopied(t) PROVE TypeOK'
  BY <1>10 DEF ReadCopied
<1>11. ASSUME NEW t \in Threads, ReadReturn(t) PROVE TypeOK'
  BY <1>11 DEF ReadReturn
<1>12. CASE UNCHANGED vars
  BY <1>12 DEF vars
<1> QED
  BY <1>1, <1>2, <1>3, <1>4, <1>5, <1>6, <1>7, <1>8, <1>9, <1>10, <1>11, <1>12 DEF Next

(* Every variable of the LED drivers keeps its type.                       *)
THEOREM TypeCorrect == Spec => []TypeOK
  BY InitType, NextType, PTL DEF Spec
-----------------------------------------------------------------------------
(* Switching the LEDs off sets them up as no command in force.             *)
LEMMA OffShown ==
  ASSUME TypeOK, RegInv, GPKCON' = ConfigurePins, GPKDAT' = AllOff, told' = {}
  PROVE  RegInv'
  BY LedsAssumption DEF TypeOK, RegInv, ConfigurePins, AllOff, LedPins, Leds

(* One command changes the pins of its LEDs, to the level that is meant.   *)
LEMMA CommandShown ==
  ASSUME TypeOK, RegInv, SetUp, UNCHANGED GPKCON,
         NEW cmd \in {0, 1}, NEW arg \in 0 .. 4,
         GPKDAT' = NewLevels(cmd, PinsOf(arg)), told' = Meant(cmd, arg)
  PROVE  RegInv'
<1>1. PinsOf(arg) \subseteq LedPins
  BY DEF PinsOf, BitOf, LedPins
<1>2. GPKDAT' \ LedPins = OtherHigh
  BY <1>1 DEF NewLevels, RegInv
<1>3. ASSUME NEW n \in Leds PROVE n + 3 \in PinsOf(arg) <=> arg \in {0, n}
  BY DEF PinsOf, BitOf, LedPins, Leds
<1>4. ASSUME NEW n \in Leds PROVE n \in told' <=> n + 3 \notin GPKDAT'
  <2>1. n \in told <=> n + 3 \notin GPKDAT
    BY DEF RegInv
  <2>2. CASE arg \in {0, n}
    BY <1>3, <2>2 DEF NewLevels, Meant
  <2>3. CASE arg \notin {0, n}
    BY <1>3, <2>1, <2>3 DEF NewLevels, Meant
  <2> QED BY <2>2, <2>3
<1> QED BY <1>2, <1>4 DEF RegInv

LEMMA NextReg ==
  ASSUME LedsInv, [Next]_vars
  PROVE  RegInv'
<1> USE DEF LedsInv
<1>1. CASE leds_dev_init
  BY <1>1, OffShown DEF leds_dev_init, Tell
<1>2. ASSUME NEW d \in Drivers, char_leds_init(d) \/ leds_exit(d) PROVE RegInv'
  BY <1>2 DEF char_leds_init, leds_exit, RegInv, SetUp
<1>3. ASSUME NEW t \in Threads, NEW d \in Drivers, s3c6410_leds_open(t, d) PROVE RegInv'
  <2>0. d \in CharDrivers
    BY <1>3 DEF s3c6410_leds_open, CharDrivers
  <2>1. CASE d \in opened
    <3>1. leds_status[d] = 1
      BY <2>0, <2>1 DEF FileInv
    <3> QED BY <1>3, <2>1, <3>1 DEF s3c6410_leds_open, Tell, RegInv, SetUp
  <2>2. CASE d \notin opened
    <3>1. leds_status[d] = 0
      BY <2>0, <2>2 DEF FileInv, TypeOK
    <3> QED BY <1>3, <2>2, <3>1, OffShown DEF s3c6410_leds_open, Tell
  <2> QED BY <2>1, <2>2
<1>4. ASSUME NEW t \in Threads, NEW cmd \in 0 .. 2, NEW arg \in 0 .. 5,
             s3c6410_leds_ioctl(t, cmd, arg)
      PROVE RegInv'
  <2>1. SetUp
    BY <1>4 DEF s3c6410_leds_ioctl, FileInv, SetUp
  <2>2. cmd \in {0, 1} /\ arg \in 0 .. 4
    BY <1>4 DEF s3c6410_leds_ioctl
  <2> QED BY <1>4, <2>1, <2>2, CommandShown DEF s3c6410_leds_ioctl, Tell
<1>5. CASE UNCHANGED <<GPKCON, GPKDAT, loaded, opened, told>>
  BY <1>5 DEF RegInv, SetUp
<1> QED
  BY <1>1, <1>2, <1>3, <1>4, <1>5
     DEF Next, MiscOpen, s3c6410_leds_close, IoctlEINVAL, s3c6410_leds_read, ReadCopied,
         ReadReturn, vars

LEMMA NextFile ==
  ASSUME LedsInv, [Next]_vars
  PROVE  FileInv'
<1> USE LedsAssumption DEF LedsInv, TypeOK, FileInv, CharDrivers
<1>1. CASE leds_dev_init
  BY <1>1 DEF leds_dev_init
<1>2. ASSUME NEW d \in Drivers, char_leds_init(d) PROVE FileInv'
  BY <1>2 DEF char_leds_init
<1>3. ASSUME NEW d \in Drivers, leds_exit(d) PROVE FileInv'
  BY <1>3 DEF leds_exit
<1>4. ASSUME NEW t \in Threads, MiscOpen(t) PROVE FileInv'
  BY <1>4 DEF MiscOpen
<1>5. ASSUME NEW t \in Threads, NEW d \in Drivers, s3c6410_leds_open(t, d) PROVE FileInv'
  BY <1>5 DEF s3c6410_leds_open, StatusAfterOpen
<1>6. ASSUME NEW t \in Threads, s3c6410_leds_close(t) PROVE FileInv'
  BY <1>6 DEF s3c6410_leds_close
<1>7. CASE UNCHANGED <<leds_status, opened, filp, loaded>>
  BY <1>7
<1> QED
  BY <1>1, <1>2, <1>3, <1>4, <1>5, <1>6, <1>7
     DEF Next, s3c6410_leds_ioctl, IoctlEINVAL, s3c6410_leds_read, ReadCopied,
         ReadReturn, vars

LEMMA NextRead ==
  ASSUME LedsInv, [Next]_vars
  PROVE  ReadInv'
<1> USE DEF LedsInv, TypeOK
<1>1. ASSUME NEW on, Tell(on), UNCHANGED <<reading, tmp>>,
             \A t \in Threads : reading[t] # "no" => filp'[t] = filp[t]
      PROVE ReadInv'
  BY <1>1 DEF Tell, ReadInv
<1>2. CASE leds_dev_init
  BY <1>1, <1>2 DEF leds_dev_init
<1>3. ASSUME NEW t \in Threads, NEW d \in Drivers, s3c6410_leds_open(t, d) PROVE ReadInv'
  <2>1. reading[t] = "no"
    BY <1>3, LedsAssumption DEF s3c6410_leds_open, ReadInv, CharDrivers
  <2> QED BY <1>1, <1>3, <2>1 DEF s3c6410_leds_open
<1>4. ASSUME NEW t \in Threads, NEW cmd \in 0 .. 2, NEW arg \in 0 .. 5,
             s3c6410_leds_ioctl(t, cmd, arg)
      PROVE ReadInv'
  BY <1>1, <1>4 DEF s3c6410_leds_ioctl
<1>5. ASSUME NEW t \in Threads, MiscOpen(t) \/ s3c6410_leds_close(t) PROVE ReadInv'
  <2>1. reading[t] = "no"
    BY <1>5, LedsAssumption DEF MiscOpen, s3c6410_leds_close, ReadInv, CharDrivers
  <2> QED BY <1>5, <2>1 DEF MiscOpen, s3c6410_leds_close, ReadInv
<1>6. ASSUME NEW t \in Threads, s3c6410_leds_read(t) PROVE ReadInv'
  <2>1. filp[t] \in CharDrivers /\ SetUp
    BY <1>6, LedsAssumption DEF s3c6410_leds_read, CharDrivers, FileInv, SetUp
  <2>2. ASSUME NEW n \in Leds PROVE n - 1 \notin LedBits <=> n \in told
    <3>1. n - 1 \in LedBits <=> n + 3 \in GPKDAT
      BY DEF LedBits, LedPins, Leds, Pins
    <3> QED BY <2>1, <3>1 DEF RegInv
  <2>3. {n \in Leds : n - 1 \notin LedBits} = told
    BY <2>2
  <2> QED BY <1>6, <2>1, <2>3 DEF s3c6410_leds_read, ReadInv
<1>7. ASSUME NEW t \in Threads, ReadCopied(t) PROVE ReadInv'
  BY <1>7 DEF ReadCopied, ReadInv
<1>8. ASSUME NEW t \in Threads, ReadReturn(t) PROVE ReadInv'
  BY <1>8 DEF ReadReturn, ReadInv
<1>9. CASE UNCHANGED <<reading, filp, tmp, seen>>
  BY <1>9 DEF ReadInv
<1> QED
  BY <1>2, <1>3, <1>4, <1>5, <1>6, <1>7, <1>8, <1>9
     DEF Next, char_leds_init, leds_exit, IoctlEINVAL, vars
-----------------------------------------------------------------------------
LEMMA InitInv == Init => LedsInv
  BY InitType, LedsAssumption
     DEF Init, LedsInv, RegInv, SetUp, FileInv, ReadInv, CharDrivers, LedPins

LEMMA LedsInvAlways == Spec => []LedsInv
<1>1. LedsInv /\ [Next]_vars => LedsInv'
  BY NextType, NextReg, NextFile, NextRead DEF LedsInv
<1> QED BY <1>1, InitInv, PTL DEF Spec

(* While a file is open through any of the drivers the LEDs show the       *)
(* commands given, and the other pins are left alone.                      *)
THEOREM LedsAsToldAlways == Spec => []LedsAsTold
<1>1. LedsInv => LedsAsTold
  <2> SUFFICES ASSUME LedsInv PROVE LedsAsTold
    OBVIOUS
  <2>1. ASSUME NEW t \in Threads, filp[t] # None PROVE Lit = told
    <3>1. SetUp
      BY <2>1 DEF LedsInv, FileInv, SetUp
    <3>2. ASSUME NEW n \in Leds PROVE n \in Lit <=> n \in told
      <4>1. n + 3 \in GPKCON
        BY <3>1 DEF LedsInv, RegInv, LedPins, Leds
      <4> QED BY <3>1, <4>1 DEF Lit, LedsInv, RegInv
    <3> QED BY <3>2 DEF Lit, LedsInv, TypeOK
  <2> QED BY <2>1 DEF LedsAsTold, LedsInv, RegInv
<1> QED BY <1>1, LedsInvAlways, PTL

(* A read reports a state the commands asked for while it ran.             *)
THEOREM AnswerWasToldAlways == Spec => []AnswerWasTold
<1>1. LedsInv => AnswerWasTold
  BY DEF LedsInv, ReadInv, AnswerWasTold
<1> QED BY <1>1, LedsInvAlways, PTL
=============================================================================
