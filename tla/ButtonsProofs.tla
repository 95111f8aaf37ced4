--------------------------- MODULE ButtonsProofs ---------------------------
(***************************************************************************)
(* Proofs about the button driver, for every table, every number of struct *)
(* files and every number of reading threads.                              *)
(***************************************************************************)
EXTENDS Buttons, TLAPS

(* The loop index is inside the table wherever the code uses it.           *)
FileIdx ==
    \A f \in Files :
        /\ fpc[f] \in {"closed", "open"} => fi[f] = 0
        /\ fpc[f] = "request" => fi[f] \in 0 .. N-1
        /\ fpc[f] = "unwind" => fi[f] \in -1 .. N-1
        /\ fpc[f] \in {"reset", "release"} => fi[f] \in 0 .. N

(* The inductive invariant behind TypeOK and the ownership of the lines.   *)
FileInv == TypeOK /\ FileIdx /\ IrqsExact

(* Which steps touch the lines and the state of open and release.          *)
OtherStep ==
    \/ \E b \in Button : Edge(b) \/ buttons_interrupt(b)
    \/ \E r \in Readers : \/ \E f \in Files, count \in Counts : ReadStart(r, f, count)
                          \/ s3c6410_buttons_read(r)
                          \/ Signal(r)

FileStep(f) == \/ OpenStart(f) \/ s3c6410_buttons_open(f)
               \/ CloseStart(f) \/ s3c6410_buttons_close(f)

LEMMA NextSplit == Next <=> OtherStep \/ \E f \in Files : FileStep(f)
BY DEF Next, OtherStep, FileStep

(* A read, an interrupt, an edge or a signal leaves the lines and the      *)
(* state of open and release alone.                                        *)
LEMMA OtherKeepsFiles == OtherStep => UNCHANGED fileVars
<1> USE DEF fileVars
<1>1. ASSUME NEW b \in Button, Edge(b) \/ buttons_interrupt(b)
      PROVE  UNCHANGED fileVars
  BY <1>1 DEF Edge, buttons_interrupt
<1>2. ASSUME NEW r \in Readers, NEW f \in Files, NEW count \in Counts,
             ReadStart(r, f, count)
      PROVE  UNCHANGED fileVars
  BY <1>2 DEF ReadStart
<1>3. ASSUME NEW r \in Readers, s3c6410_buttons_read(r)
      PROVE  UNCHANGED fileVars
  BY <1>3 DEF s3c6410_buttons_read, ReadCheck, ReadEAGAIN, WaitPrepare, WaitRecheck, WaitCondition,
              WaitSchedule, WaitResume, ReadClear, ReadCopy, ReadEFAULT, ReadDone,
              ReadGoto, ReadReturn
<1>4. ASSUME NEW r \in Readers, Signal(r)
      PROVE  UNCHANGED fileVars
  BY <1>4 DEF Signal
<1> QED
  BY <1>1, <1>2, <1>3, <1>4 DEF OtherStep
-----------------------------------------------------------------------------
(* Type correctness.                                                       *)

LEMMA InitType == Init => TypeOK
<1> SUFFICES ASSUME Init PROVE TypeOK
  OBVIOUS
<1>1. /\ fi \in [Files -> -1 .. N]
      /\ rcount \in [Readers -> 0 .. N]
      /\ ri \in [Readers -> 0 .. N]
      /\ action_flag \in {0, 1}
  BY NAssumption DEF Init
<1>2. /\ fpc \in [Files -> FilePC]
      /\ rpc \in [Readers -> ReadPC]
      /\ buttons_values \in [Button -> {"r", "p"}]
      /\ seen \in [Button -> {"r", "p"}]
  BY DEF Init, FilePC, ReadPC
<1>3. /\ gpncon \in BOOLEAN
      /\ pend \in [Button -> BOOLEAN]
      /\ nonblock \in [Files -> BOOLEAN]
      /\ intr \in [Readers -> BOOLEAN]
      /\ sigpend \in [Readers -> BOOLEAN]
  BY Zenon DEF Init
<1> QED
  BY <1>1, <1>2, <1>3 DEF Init, TypeOK

LEMMA TypeOther == TypeOK /\ OtherStep => TypeOK'
<1> SUFFICES ASSUME TypeOK, OtherStep PROVE TypeOK'
  OBVIOUS
<1> USE NAssumption DEF TypeOK
<1>1. ASSUME NEW b \in Button, Edge(b) PROVE TypeOK'
  BY <1>1 DEF Edge, fileVars, readVars, histVars
<1>2. ASSUME NEW b \in Button, buttons_interrupt(b) PROVE TypeOK'
  BY <1>2 DEF buttons_interrupt, PinValue, SetFlag, WakeUp, fileVars
<1>3. ASSUME NEW r \in Readers, NEW f \in Files, NEW count \in Counts,
             ReadStart(r, f, count)
      PROVE  TypeOK'
  <2>1. MinOf(N, count) \in 0 .. N
    BY CountsAssumption DEF MinOf
  <2> QED
    BY <1>3, <2>1 DEF ReadStart, hwVars, fileVars, histVars, ReadPC
<1>4. ASSUME NEW r \in Readers, s3c6410_buttons_read(r) PROVE TypeOK'
  <2>1. CASE ReadCheck(r)
    BY <2>1 DEF ReadCheck, ReadGoto, hwVars, fileVars, histVars, ReadPC
  <2>2. CASE ReadEAGAIN(r)
    BY <2>2 DEF ReadEAGAIN, ReadReturn, hwVars, fileVars, histVars, ReadPC
  <2>3. CASE WaitPrepare(r)
    BY <2>3 DEF WaitPrepare, ReadGoto, hwVars, fileVars, histVars, ReadPC
  <2>4. CASE WaitRecheck(r)
    BY <2>4 DEF WaitRecheck, WaitCondition, ReadGoto, hwVars, fileVars, histVars, ReadPC
  <2>5. CASE WaitSchedule(r)
    BY <2>5 DEF WaitSchedule, ReadGoto, hwVars, fileVars, histVars, ReadPC
  <2>6. CASE WaitResume(r)
    BY <2>6 DEF WaitResume, ReadGoto, hwVars, fileVars, histVars, ReadPC
  <2>7. CASE ReadClear(r)
    BY <2>7 DEF ReadClear, ReadGoto, hwVars, fileVars, ReadPC
  <2>8. CASE ReadCopy(r)
    <3>1. ri[r] \in Button /\ ri[r] + 1 \in 0 .. N
      BY <2>8 DEF ReadCopy, Button
    <3> QED
      BY <2>8, <3>1 DEF ReadCopy, hwVars, fileVars
  <2>9. CASE ReadEFAULT(r)
    BY <2>9 DEF ReadEFAULT, ReadReturn, hwVars, fileVars, ReadPC
  <2>10. CASE ReadDone(r)
    BY <2>10 DEF ReadDone, ReadReturn, hwVars, fileVars, histVars, ReadPC
  <2> QED
    BY <1>4, <2>1, <2>2, <2>3, <2>4, <2>5, <2>6, <2>7, <2>8, <2>9, <2>10
       DEF s3c6410_buttons_read
<1>5. ASSUME NEW r \in Readers, Signal(r) PROVE TypeOK'
  BY <1>5 DEF Signal, hwVars, fileVars, histVars
<1> QED
  BY <1>1, <1>2, <1>3, <1>4, <1>5 DEF OtherStep

(* One step of open or release keeps the types and the index bounds.       *)
LEMMA TypeFile ==
    ASSUME TypeOK, FileIdx, NEW f \in Files, FileStep(f)
    PROVE  TypeOK' /\ FileIdx'
<1> USE NAssumption DEF TypeOK, FileIdx, FilePC
<1>1. CASE OpenStart(f)
  BY <1>1 DEF OpenStart, readVars, histVars
<1>2. CASE OpenSkip(f)
  BY <1>2 DEF OpenSkip, RequestNext, hwVars, readVars, histVars
<1>3. CASE OpenRequest(f)
  <2>1. fi[f] \in Button /\ fi'[f] \in -1 .. N
    BY <1>3 DEF OpenRequest, RequestNext, Button
  <2>2. TypeOK'
    BY <1>3, <2>1 DEF OpenRequest, RequestNext, hwVars, readVars, histVars
  <2>3. FileIdx'
    BY <1>3 DEF OpenRequest, RequestNext
  <2> QED
    BY <2>2, <2>3
<1>4. CASE OpenFail(f)
  BY <1>4 DEF OpenFail, LastRegistered, hwVars, readVars, histVars
<1>5. CASE OpenUnwind(f)
  <2>1. fi[f] \in Button /\ fi'[f] \in -1 .. N
    BY <1>5 DEF OpenUnwind, UnwindMore, Button
  <2>2. TypeOK'
    BY <1>5, <2>1 DEF OpenUnwind, UnwindMore, hwVars, readVars, histVars
  <2>3. FileIdx'
    BY <1>5 DEF OpenUnwind, UnwindMore
  <2> QED
    BY <2>2, <2>3
<1>6. CASE OpenEBUSY(f)
  BY <1>6 DEF OpenEBUSY, FileGone, hwVars, readVars, histVars
<1>7. CASE OpenResetValue(f)
  <2>1. fi[f] \in Button /\ fi'[f] \in -1 .. N
    BY <1>7 DEF OpenResetValue, Button
  <2>2. TypeOK'
    BY <1>7, <2>1 DEF OpenResetValue, hwVars, readVars, histVars
  <2>3. FileIdx'
    BY <1>7 DEF OpenResetValue
  <2> QED
    BY <2>2, <2>3
<1>8. CASE OpenResetFlag(f)
  BY <1>8 DEF OpenResetFlag, hwVars, readVars
<1>9. CASE CloseStart(f)
  BY <1>9 DEF CloseStart, hwVars, readVars, histVars
<1>10. CASE CloseFree(f)
  <2>1. fi[f] \in Button /\ fi'[f] \in -1 .. N
    BY <1>10 DEF CloseFree, Button
  <2>2. TypeOK'
    BY <1>10, <2>1 DEF CloseFree, hwVars, readVars, histVars
  <2>3. FileIdx'
    BY <1>10 DEF CloseFree
  <2> QED
    BY <2>2, <2>3
<1>11. CASE CloseReturn(f)
  BY <1>11 DEF CloseReturn, FileGone, hwVars, readVars, histVars
<1> QED
  BY <1>1, <1>2, <1>3, <1>4, <1>5, <1>6, <1>7, <1>8, <1>9, <1>10, <1>11
     DEF FileStep, s3c6410_buttons_open, s3c6410_buttons_close
-----------------------------------------------------------------------------
(* Ownership of the interrupt lines.                                       *)

LEMMA InitIrqs == Init => FileIdx /\ IrqsExact
BY NAssumption, ProcAssumption DEF Init, FileIdx, IrqsExact, Holds

(* A step of one open or release changes the lines of its own file only,   *)
(* and exactly as its program point says.                                  *)
LEMMA IrqsFile ==
    ASSUME FileInv, NEW f \in Files, FileStep(f)
    PROVE  IrqsExact'
<1> SUFFICES ASSUME NEW b \in Button, NEW g \in Files
             PROVE  (owner[b] = g <=> Holds(g, b) /\ b \notin Skip)'
  BY DEF IrqsExact
<1>a. /\ owner[b] = g <=> Holds(g, b) /\ b \notin Skip
      /\ owner[b] = f <=> Holds(f, b) /\ b \notin Skip
  BY DEF FileInv, IrqsExact
<1> USE NAssumption, ProcAssumption, <1>a DEF FileInv, TypeOK, FileIdx, FilePC, Holds, Button
<1>1. CASE OpenStart(f)
  BY <1>1 DEF OpenStart
<1>2. CASE OpenSkip(f)
  BY <1>2 DEF OpenSkip, RequestNext
<1>3. CASE OpenRequest(f)
  BY <1>3 DEF OpenRequest, RequestNext, LineFree
<1>4. CASE OpenFail(f)
  BY <1>4 DEF OpenFail, LastRegistered
<1>5. CASE OpenUnwind(f)
  BY <1>5 DEF OpenUnwind, UnwindMore
<1>6. CASE OpenEBUSY(f)
  BY <1>6 DEF OpenEBUSY, FileGone, UnwindMore
<1>7. CASE OpenResetValue(f)
  BY <1>7 DEF OpenResetValue
<1>8. CASE OpenResetFlag(f)
  BY <1>8 DEF OpenResetFlag
<1>9. CASE CloseStart(f)
  BY <1>9 DEF CloseStart
<1>10. CASE CloseFree(f)
  BY <1>10 DEF CloseFree
<1>11. CASE CloseReturn(f)
  BY <1>11 DEF CloseReturn, FileGone
<1> QED
  BY <1>1, <1>2, <1>3, <1>4, <1>5, <1>6, <1>7, <1>8, <1>9, <1>10, <1>11
     DEF FileStep, s3c6410_buttons_open, s3c6410_buttons_close

LEMMA FileInvStep == FileInv /\ [Next]_vars => FileInv'
<1> SUFFICES ASSUME FileInv, [Next]_vars PROVE FileInv'
  OBVIOUS
<1>1. CASE OtherStep
  <2>1. UNCHANGED fileVars
    BY <1>1, OtherKeepsFiles
  <2>2. TypeOK'
    BY <1>1, TypeOther DEF FileInv
  <2>3. FileIdx' /\ IrqsExact'
    BY <2>1 DEF FileInv, FileIdx, IrqsExact, Holds, fileVars
  <2> QED
    BY <2>2, <2>3 DEF FileInv
<1>2. ASSUME NEW f \in Files, FileStep(f) PROVE FileInv'
  BY <1>2, TypeFile, IrqsFile DEF FileInv
<1>3. CASE UNCHANGED vars
  BY <1>3 DEF FileInv, TypeOK, FileIdx, IrqsExact, Holds, vars, hwVars, fileVars,
              readVars, histVars
<1> QED
  BY <1>1, <1>2, <1>3, NextSplit

(* The two invariants are inductive together.                              *)
LEMMA FileInvariant == Spec => []FileInv
<1>1. Init => FileInv
  BY InitType, InitIrqs DEF FileInv
<1> QED
  BY <1>1, FileInvStep, PTL DEF Spec

(* Every variable of the driver keeps its type: in particular the indices  *)
(* of the loops of open, release and copy_to_user stay inside the table.   *)
THEOREM TypeCorrect == Spec => []TypeOK
<1>1. FileInv => TypeOK
  BY DEF FileInv
<1> QED
  BY <1>1, FileInvariant, PTL

(* Every open, failed open and release of buttons_dev.c holds exactly its  *)
(* own interrupt lines, for any number of files and buttons.               *)
THEOREM IrqsExactAlways == Spec => []IrqsExact
<1>1. FileInv => IrqsExact
  BY DEF FileInv
<1> QED
  BY <1>1, FileInvariant, PTL

(* Two files past the registration loop would both hold a valid line.      *)
LEMMA IrqsExclude == IrqsExact => OneOpenFile
<1> SUFFICES ASSUME IrqsExact, NEW f \in Files, NEW g \in Files,
                    fpc[f] \in {"reset", "open"}, fpc[g] \in {"reset", "open"}
             PROVE  f = g
  BY DEF OneOpenFile
<1>1. PICK b \in Button : b \notin Skip
  BY SkipAssumption
<1>2. Holds(f, b) /\ Holds(g, b)
  BY DEF Holds
<1> QED
  BY <1>1, <1>2 DEF IrqsExact

(* The button device is open at most once at a time, although open tests   *)
(* nothing but the results of request_irq.                                 *)
THEOREM OneOpenFileAlways == Spec => []OneOpenFile
BY IrqsExactAlways, IrqsExclude, PTL
-----------------------------------------------------------------------------
(* Events and wake-ups.                                                    *)

(* A read works on an open file, and has copied nothing before copy.       *)
ReadersOpen ==
    \A r \in Readers :
        /\ rpc[r] # "user" => rfile[r] \in Files /\ fpc[rfile[r]] = "open"
        /\ rpc[r] = "user" => rfile[r] = None
        /\ rpc[r] # "copy" => ri[r] = 0

(* The inductive invariant behind NoLostEvent and NoLostWakeup.            *)
EventInv == ReadersOpen /\ NoLostEvent /\ NoLostWakeup

LEMMA InitEvent == Init => EventInv
BY DEF Init, EventInv, ReadersOpen, NoLostEvent, NoLostWakeup

(* A read leaves with the flag either still set or in the hands of the     *)
(* copy that follows.                                                      *)
LEMMA EventRead ==
    ASSUME FileInv, EventInv, NEW r \in Readers, s3c6410_buttons_read(r)
    PROVE  EventInv'
<1> USE DEF FileInv, TypeOK, EventInv
<1>1. fpc' = fpc /\ buttons_values' = buttons_values
  BY DEF s3c6410_buttons_read, ReadCheck, ReadEAGAIN, WaitPrepare, WaitRecheck, WaitCondition,
         WaitSchedule, WaitResume, ReadClear, ReadCopy, ReadEFAULT, ReadDone,
         ReadGoto, ReadReturn, fileVars
<1>2. ReadersOpen'
  BY <1>1 DEF ReadersOpen, s3c6410_buttons_read, ReadCheck, ReadEAGAIN, WaitPrepare,
         WaitRecheck, WaitCondition, WaitSchedule, WaitResume, ReadClear, ReadCopy, ReadEFAULT,
         ReadDone, ReadGoto, ReadReturn
<1>3. NoLostWakeup'
  BY DEF NoLostWakeup, s3c6410_buttons_read, ReadCheck, ReadEAGAIN, WaitPrepare,
         WaitRecheck, WaitCondition, WaitSchedule, WaitResume, ReadClear, ReadCopy, ReadEFAULT,
         ReadDone, ReadGoto, ReadReturn
<1>4. NoLostEvent'
  <2> SUFFICES ASSUME NEW f \in Files, NEW b \in Button,
                      fpc[f] = "open", buttons_values[b] # seen'[b]
               PROVE  \/ action_flag' = 1
                      \/ \E q \in Readers : (rpc[q] = "copy" /\ ri[q] <= b /\ b < rcount[q])'
                      \/ b \in missed' \cup raced'
    BY <1>1 DEF NoLostEvent
  <2> USE DEF NoLostEvent
  <2>1. CASE ReadClear(r)
    <3>1. CASE b >= rcount[r]
      BY <2>1, <3>1 DEF ReadClear
    <3>2. CASE ~(b >= rcount[r])
      <4>1. (rpc[r] = "copy" /\ ri[r] <= b /\ b < rcount[r])'
        <5>1. /\ rpc'[r] = "copy" /\ ri'[r] = 0 /\ rcount'[r] = rcount[r]
              /\ rcount[r] \in 0 .. N
          BY <2>1 DEF ReadClear, ReadGoto, ReadersOpen
        <5> QED
          BY <3>2, <5>1, NAssumption DEF Button
      <4> QED
        BY <4>1
    <3> QED
      BY <3>1, <3>2
  <2>2. CASE ReadCopy(r)
    <3>1. b # ri[r] /\ seen'[b] = seen[b]
      BY <2>2 DEF ReadCopy
    <3>2. \A q \in Readers : rpc[q] = "copy" /\ ri[q] <= b /\ b < rcount[q] =>
             (rpc[q] = "copy" /\ ri[q] <= b /\ b < rcount[q])'
      BY <2>2, <3>1 DEF ReadCopy, Button
    <3> QED
      BY <2>2, <3>1, <3>2 DEF ReadCopy
  <2>3. CASE ReadEFAULT(r)
    <3>1. CASE b >= ri[r]
      BY <2>3, <3>1 DEF ReadEFAULT
    <3>2. CASE ~(b >= ri[r])
      BY <2>3, <3>2 DEF ReadEFAULT, ReadReturn, Button
    <3> QED
      BY <3>1, <3>2
  <2>4. CASE ReadDone(r)
    BY <2>4 DEF ReadDone, ReadReturn, histVars, Button
  <2>5. CASE ReadEAGAIN(r)
    BY <2>5 DEF ReadEAGAIN, ReadReturn, histVars
  <2>6. CASE \/ ReadCheck(r) \/ WaitPrepare(r) \/ WaitRecheck(r)
             \/ WaitSchedule(r) \/ WaitResume(r)
    BY <2>6 DEF ReadCheck, WaitPrepare, WaitRecheck, WaitCondition, WaitSchedule, WaitResume,
                ReadGoto, histVars
  <2> QED
    BY <2>1, <2>2, <2>3, <2>4, <2>5, <2>6 DEF s3c6410_buttons_read
<1> QED
  BY <1>2, <1>3, <1>4

(* Only the open that holds every line resets the table, so no file is     *)
(* open under its reset, and it marks what it throws away.                 *)
LEMMA EventFile ==
    ASSUME FileInv, EventInv, NEW g \in Files, FileStep(g)
    PROVE  EventInv'
<1> USE DEF FileInv, TypeOK, EventInv
<1>0. OneOpenFile
  BY IrqsExclude
<1>1. readVars' = readVars
  BY DEF FileStep, s3c6410_buttons_open, s3c6410_buttons_close, OpenStart, OpenSkip,
         OpenRequest, OpenFail, OpenUnwind, OpenEBUSY, OpenResetValue, OpenResetFlag,
         CloseStart, CloseFree, CloseReturn
<1>2. CASE OpenResetFlag(g)
  <2>1. ReadersOpen'
    BY <1>1, <1>2 DEF OpenResetFlag, ReadersOpen, readVars
  <2>2. NoLostWakeup'
    BY <1>1, <1>2 DEF OpenResetFlag, NoLostWakeup, readVars
  <2>3. NoLostEvent'
    BY <1>2 DEF OpenResetFlag, NoLostEvent
  <2> QED
    BY <2>1, <2>2, <2>3
<1>3. CASE OpenResetValue(g)
  <2>1. \A f \in Files : fpc'[f] # "open"
    BY <1>0, <1>3 DEF OpenResetValue, OneOpenFile
  <2>2. ReadersOpen' /\ NoLostWakeup'
    BY <1>1, <1>3 DEF OpenResetValue, ReadersOpen, NoLostWakeup, readVars
  <2> QED
    BY <2>1, <2>2 DEF NoLostEvent
<1>4. CASE ~OpenResetFlag(g) /\ ~OpenResetValue(g)
  <2>1. /\ UNCHANGED <<buttons_values, action_flag, histVars>>
        /\ \A f \in Files : fpc'[f] = "open" => fpc[f] = "open"
        /\ \A r \in Readers : rpc[r] # "user" => fpc'[rfile[r]] = "open"
    BY <1>4 DEF FileStep, s3c6410_buttons_open, s3c6410_buttons_close, OpenStart,
         OpenSkip, OpenRequest, OpenFail, OpenUnwind, OpenEBUSY, CloseStart, CloseFree,
         CloseReturn, RequestNext, FileGone, ReadersOpen
  <2>2. ReadersOpen'
    BY <1>1, <2>1 DEF ReadersOpen, readVars
  <2>3. NoLostEvent' /\ NoLostWakeup'
    BY <1>1, <2>1 DEF NoLostEvent, NoLostWakeup, readVars, histVars
  <2> QED
    BY <2>2, <2>3
<1> QED
  BY <1>2, <1>3, <1>4

LEMMA EventStep == FileInv /\ EventInv /\ [Next]_vars => EventInv'
<1> SUFFICES ASSUME FileInv, EventInv, [Next]_vars PROVE EventInv'
  OBVIOUS
<1> USE DEF EventInv, ReadersOpen, NoLostEvent, NoLostWakeup
<1>1. ASSUME NEW b \in Button, Edge(b) PROVE EventInv'
  BY <1>1 DEF Edge, fileVars, readVars, histVars
<1>2. ASSUME NEW b \in Button, buttons_interrupt(b) PROVE EventInv'
  BY <1>2 DEF buttons_interrupt, SetFlag, WakeUp, fileVars
<1>3. ASSUME NEW r \in Readers, NEW f \in Files, NEW count \in Counts,
             ReadStart(r, f, count)
      PROVE  EventInv'
  BY <1>3 DEF ReadStart, fileVars, histVars, FileInv, TypeOK
<1>4. ASSUME NEW r \in Readers, Signal(r) PROVE EventInv'
  BY <1>4 DEF Signal, fileVars, histVars, FileInv, TypeOK
<1>5. CASE UNCHANGED vars
  BY <1>5 DEF vars, fileVars, readVars, histVars
<1> QED
  BY <1>1, <1>2, <1>3, <1>4, <1>5, EventRead, EventFile, NextSplit DEF OtherStep

LEMMA EventInvariant == Spec => []EventInv
BY InitEvent, EventStep, FileInvariant, PTL DEF Spec

(* Clearing action_flag before copy_to_user loses no event, with any       *)
(* number of threads reading and any interleaving of interrupts.           *)
THEOREM NoLostEventAlways == Spec => []NoLostEvent
<1>1. EventInv => NoLostEvent
  BY DEF EventInv
<1> QED
  BY <1>1, EventInvariant, PTL

(* No thread sleeps through an event or a signal.                          *)
THEOREM NoLostWakeupAlways == Spec => []NoLostWakeup
<1>1. EventInv => NoLostWakeup
  BY DEF EventInv
<1> QED
  BY <1>1, EventInvariant, PTL

(* Only the resets of an open touch the table and the flag, and an open    *)
(* file keeps every other open from getting there.                         *)
LEMMA OtherFilesKeepTable ==
    ASSUME FileInv, NEW f \in Files, fpc[f] = "open", NEW g \in Files, FileStep(g)
    PROVE  UNCHANGED <<buttons_values, action_flag>>
<1>1. g # f => fpc[g] # "reset"
  BY IrqsExclude DEF FileInv, OneOpenFile
<1>2. ~OpenResetValue(g) /\ ~OpenResetFlag(g)
  BY <1>1 DEF OpenResetValue, OpenResetFlag
<1> QED
  BY <1>2 DEF FileStep, s3c6410_buttons_open, s3c6410_buttons_close, OpenStart,
     OpenSkip, OpenRequest, OpenFail, OpenUnwind, OpenEBUSY, CloseStart, CloseFree,
     CloseReturn

(* A read changes the flag only where it clears it, on the one open file.  *)
LEMMA ReadKeepsTable ==
    ASSUME FileInv, EventInv, NEW f \in Files, fpc[f] = "open",
           NEW r \in Readers, s3c6410_buttons_read(r)
    PROVE  /\ UNCHANGED buttons_values
           /\ action_flag' # action_flag =>
                 rpc[r] = "clear" /\ rfile[r] = f /\ rpc'[r] = "copy"
<1>1. CASE ReadClear(r)
  <2>1. rpc[r] = "clear" /\ rpc'[r] = "copy" /\ UNCHANGED buttons_values
    BY <1>1 DEF ReadClear, ReadGoto, FileInv, TypeOK
  <2>2. rfile[r] \in Files /\ fpc[rfile[r]] = "open"
    BY <2>1 DEF EventInv, ReadersOpen
  <2>3. rfile[r] = f
    BY <2>2, IrqsExclude DEF FileInv, OneOpenFile
  <2> QED
    BY <2>1, <2>3
<1>2. CASE ~ReadClear(r)
  BY <1>2 DEF s3c6410_buttons_read, ReadCheck, ReadEAGAIN, WaitPrepare, WaitRecheck,
     WaitSchedule, WaitResume, ReadCopy, ReadEFAULT, ReadDone, ReadGoto, ReadReturn
<1> QED
  BY <1>1, <1>2

(* The table and the flag of an open file are changed by interrupts and by *)
(* the reads on it, and by no open or release of another file, for any     *)
(* number of files, buttons and reading threads.                           *)
THEOREM UndisturbedWhileOpenAlways == Spec => UndisturbedWhileOpen
<1> DEFINE Undisturbed(f) ==
       /\ \A b \in Button : buttons_values'[b] # buttons_values[b] =>
             pend[b] /\ ~pend'[b]
       /\ action_flag' < action_flag =>
             \E r \in Readers : rpc[r] = "clear" /\ rfile[r] = f /\ rpc'[r] = "copy"
<1>1. ASSUME FileInv, EventInv, [Next]_vars, NEW f \in Files, fpc[f] = "open"
      PROVE  Undisturbed(f)
  <2>0. action_flag \in {0, 1}
    BY <1>1 DEF FileInv, TypeOK
  <2>1. CASE UNCHANGED <<buttons_values, action_flag>>
    BY <2>0, <2>1
  <2>2. ASSUME NEW b \in Button, buttons_interrupt(b) PROVE Undisturbed(f)
    <3>1. pend[b] /\ ~pend'[b] /\ action_flag' = 1
      BY <1>1, <2>2 DEF buttons_interrupt, SetFlag, FileInv, TypeOK
    <3>2. \A c \in Button : c # b => buttons_values'[c] = buttons_values[c]
      BY <1>1, <2>2 DEF buttons_interrupt, FileInv, TypeOK
    <3> QED
      BY <2>0, <3>1, <3>2
  <2>3. ASSUME NEW r \in Readers, s3c6410_buttons_read(r) PROVE Undisturbed(f)
    BY <1>1, <2>0, <2>3, ReadKeepsTable
  <2>4. ASSUME NEW g \in Files, FileStep(g) PROVE Undisturbed(f)
    BY <1>1, <2>1, <2>4, OtherFilesKeepTable
  <2>5. ASSUME NEW b \in Button, Edge(b) PROVE Undisturbed(f)
    BY <2>1, <2>5 DEF Edge
  <2>6. ASSUME NEW r \in Readers, NEW g \in Files, NEW count \in Counts,
               ReadStart(r, g, count)
        PROVE  Undisturbed(f)
    BY <2>1, <2>6 DEF ReadStart
  <2>7. ASSUME NEW r \in Readers, Signal(r) PROVE Undisturbed(f)
    BY <2>1, <2>7 DEF Signal
  <2>8. CASE UNCHANGED vars
    BY <2>1, <2>8 DEF vars
  <2> QED
    BY <1>1, <2>2, <2>3, <2>4, <2>5, <2>6, <2>7, <2>8, NextSplit DEF OtherStep
<1>2. FileInv /\ EventInv /\ [Next]_vars =>
         [\A f \in Files : fpc[f] = "open" => Undisturbed(f)]_vars
  BY <1>1
<1> QED
  BY <1>2, FileInvariant, EventInvariant, PTL DEF Spec, UndisturbedWhileOpen
-----------------------------------------------------------------------------
(* The table and the pins.                                                 *)

(* The inductive form of NoPhantomPress: the pins stay in interrupt mode   *)
(* while a line is registered, so an edge is latched, and the reset of     *)
(* open leaves no old press behind.                                        *)
PinInv ==
    /\ \A f \in Files : fpc[f] # "closed" => gpncon = TRUE
    /\ \A f \in Files, b \in Button \ Skip :
          /\ fpc[f] = "open" \/ (fpc[f] = "reset" /\ b < fi[f])
          /\ pend[b] = FALSE /\ buttons_values[b] = "p"
          => level[b] = "p"

LEMMA InitPin == Init => PinInv
BY DEF Init, PinInv

LEMMA PinEdge ==
    ASSUME FileInv, PinInv, NEW b \in Button, Edge(b)
    PROVE  PinInv'
<1>1. /\ fileVars' = fileVars /\ gpncon' = gpncon /\ buttons_values' = buttons_values
      /\ \A c \in Button : c # b => level'[c] = level[c] /\ pend'[c] = pend[c]
  BY DEF Edge, FileInv, TypeOK
<1>2. owner[b] # None /\ gpncon = TRUE => pend'[b] = TRUE
  BY DEF Edge, FileInv, TypeOK
<1>3. ASSUME NEW f \in Files, NEW c \in Button \ Skip,
             fpc[f] = "open" \/ (fpc[f] = "reset" /\ c < fi[f]),
             pend'[c] = FALSE, buttons_values[c] = "p"
      PROVE  level'[c] = "p"
  <2>1. owner[c] = f /\ gpncon = TRUE
    BY <1>3 DEF FileInv, IrqsExact, Holds, PinInv
  <2>2. c # b
    BY <1>2, <1>3, <2>1, ProcAssumption
  <2> QED
    BY <1>1, <1>3, <2>2 DEF PinInv
<1> QED
  BY <1>1, <1>3 DEF PinInv, fileVars

LEMMA PinFile ==
    ASSUME FileInv, PinInv, NEW f \in Files, FileStep(f)
    PROVE  PinInv'
<1> USE NAssumption DEF FileInv, TypeOK, FileIdx, PinInv, Button
<1>1. CASE OpenStart(f)
  BY <1>1 DEF OpenStart
<1>2. CASE OpenSkip(f)
  BY <1>2 DEF OpenSkip, RequestNext, hwVars
<1>3. CASE OpenRequest(f)
  BY <1>3 DEF OpenRequest, RequestNext, hwVars
<1>4. CASE OpenFail(f)
  BY <1>4 DEF OpenFail, hwVars
<1>5. CASE OpenUnwind(f)
  BY <1>5 DEF OpenUnwind, hwVars
<1>6. CASE OpenEBUSY(f)
  BY <1>6 DEF OpenEBUSY, FileGone, hwVars
<1>7. CASE OpenResetValue(f)
  <2>1. \A g \in Files : g # f => fpc[g] \notin {"reset", "open"}
    BY <1>7, IrqsExclude DEF OneOpenFile, OpenResetValue
  <2> QED
    BY <1>7, <2>1 DEF OpenResetValue, hwVars
<1>8. CASE OpenResetFlag(f)
  BY <1>8 DEF OpenResetFlag, hwVars
<1>9. CASE CloseStart(f)
  BY <1>9 DEF CloseStart, hwVars
<1>10. CASE CloseFree(f)
  BY <1>10 DEF CloseFree, hwVars
<1>11. CASE CloseReturn(f)
  BY <1>11 DEF CloseReturn, FileGone, hwVars
<1> QED
  BY <1>1, <1>2, <1>3, <1>4, <1>5, <1>6, <1>7, <1>8, <1>9, <1>10, <1>11
     DEF FileStep, s3c6410_buttons_open, s3c6410_buttons_close

LEMMA PinStep == FileInv /\ PinInv /\ [Next]_vars => PinInv'
<1> SUFFICES ASSUME FileInv, PinInv, [Next]_vars PROVE PinInv'
  OBVIOUS
<1>1. ASSUME NEW b \in Button, buttons_interrupt(b) PROVE PinInv'
  BY <1>1 DEF PinInv, buttons_interrupt, PinValue, fileVars, FileInv, TypeOK
<1>2. ASSUME NEW r \in Readers, NEW f \in Files, NEW count \in Counts,
             ReadStart(r, f, count)
      PROVE  PinInv'
  BY <1>2 DEF PinInv, ReadStart, hwVars, fileVars
<1>3. ASSUME NEW r \in Readers, s3c6410_buttons_read(r) PROVE PinInv'
  BY <1>3 DEF PinInv, s3c6410_buttons_read, ReadCheck, ReadEAGAIN, WaitPrepare,
         WaitRecheck, WaitCondition, WaitSchedule, WaitResume, ReadClear, ReadCopy, ReadEFAULT,
         ReadDone, ReadGoto, ReadReturn, hwVars, fileVars
<1>4. ASSUME NEW r \in Readers, Signal(r) PROVE PinInv'
  BY <1>4 DEF PinInv, Signal, hwVars, fileVars
<1>5. CASE UNCHANGED vars
  BY <1>5 DEF PinInv, vars, hwVars, fileVars
<1> QED
  BY <1>1, <1>2, <1>3, <1>4, <1>5, PinEdge, PinFile, NextSplit DEF OtherStep

(* Bouncing buttons and late handlers leave no phantom press in the table  *)
(* of an open device.                                                      *)
THEOREM NoPhantomPressAlways == Spec => []NoPhantomPress
<1>1. FileInv /\ PinInv => NoPhantomPress
  BY DEF FileInv, TypeOK, PinInv, NoPhantomPress
<1> QED
  BY <1>1, InitPin, PinStep, FileInvariant, PTL DEF Spec
-----------------------------------------------------------------------------
(* Why a read goes on.                                                     *)

(* The inductive form of ReadHasCause: from the test that let it go on to  *)
(* the clearing of the flag a thread keeps the processor, so that no other *)
(* reader and no open can take the event away.                             *)
CauseInv ==
    \A r \in Readers : rpc[r] = "clear" => cpu = r /\ (action_flag = 1 \/ sigpend[r])

LEMMA InitCause == Init => CauseInv
BY DEF Init, CauseInv

(* Open and release run only when no read is between its test and its      *)
(* clearing of the flag.                                                   *)
LEMMA CauseFile ==
    ASSUME CauseInv, NEW f \in Files, FileStep(f)
    PROVE  CauseInv'
<1>1. CanRun(f) /\ UNCHANGED readVars
  BY DEF FileStep, s3c6410_buttons_open, s3c6410_buttons_close, OpenStart, OpenSkip,
         OpenRequest, OpenFail, OpenUnwind, OpenEBUSY, OpenResetValue, OpenResetFlag,
         CloseStart, CloseFree, CloseReturn, FileGone
<1>2. \A r \in Readers : rpc[r] # "clear"
  BY <1>1, ProcAssumption DEF CauseInv, CanRun
<1> QED
  BY <1>1, <1>2 DEF CauseInv, readVars

LEMMA CauseRead ==
    ASSUME TypeOK, CauseInv, NEW r \in Readers, s3c6410_buttons_read(r)
    PROVE  CauseInv'
<1> SUFFICES ASSUME NEW q \in Readers, rpc'[q] = "clear"
             PROVE  cpu' = q /\ (action_flag' = 1 \/ sigpend'[q])
  BY DEF CauseInv
<1> USE DEF TypeOK, CauseInv, CanRun
<1>1. CanRun(r) /\ \A p \in Readers \ {r} : rpc'[p] = rpc[p]
  BY DEF s3c6410_buttons_read, ReadCheck, ReadEAGAIN, WaitPrepare, WaitRecheck,
         WaitCondition, WaitSchedule, WaitResume, ReadClear, ReadCopy, ReadEFAULT,
         ReadDone, ReadGoto, ReadReturn
<1>2. q = r
  BY <1>1, ProcAssumption
<1>3. ReadCheck(r) \/ WaitRecheck(r)
  BY <1>2 DEF s3c6410_buttons_read, ReadEAGAIN, WaitPrepare, WaitSchedule, WaitResume,
         ReadClear, ReadCopy, ReadEFAULT, ReadDone, ReadGoto, ReadReturn
<1> QED
  BY <1>2, <1>3 DEF ReadCheck, WaitRecheck, WaitCondition, ReadGoto

LEMMA CauseStep == FileInv /\ CauseInv /\ [Next]_vars => CauseInv'
<1> SUFFICES ASSUME FileInv, CauseInv, [Next]_vars PROVE CauseInv'
  OBVIOUS
<1> USE DEF FileInv, TypeOK, CauseInv
<1>1. ASSUME NEW b \in Button, Edge(b) PROVE CauseInv'
  BY <1>1 DEF Edge, readVars
<1>2. ASSUME NEW b \in Button, buttons_interrupt(b) PROVE CauseInv'
  BY <1>2 DEF buttons_interrupt, SetFlag
<1>3. ASSUME NEW r \in Readers, NEW f \in Files, NEW count \in Counts,
             ReadStart(r, f, count)
      PROVE  CauseInv'
  BY <1>3, ProcAssumption DEF ReadStart, CanRun
<1>4. ASSUME NEW r \in Readers, Signal(r) PROVE CauseInv'
  BY <1>4 DEF Signal
<1>5. CASE UNCHANGED vars
  BY <1>5 DEF vars, readVars
<1> QED
  BY <1>1, <1>2, <1>3, <1>4, <1>5, CauseRead, CauseFile, NextSplit DEF OtherStep

(* With any number of threads a blocking read goes on only for an event    *)
(* that is still announced or for a signal of its own.                     *)
THEOREM ReadHasCauseAlways == Spec => []ReadHasCause
<1>1. CauseInv => ReadHasCause
  BY DEF CauseInv, ReadHasCause
<1> QED
  BY <1>1, InitCause, CauseStep, FileInvariant, PTL DEF Spec
-----------------------------------------------------------------------------
(* The exclusive device.                                                   *)

(* The files open in the sense of ExclusiveDevice.                         *)
Opened == {f \in Files : fpc[f] \in {"reset", "open"}}

(* Only the last registration of an open and the start of a release change *)
(* the open files; the invariant after the step says that nobody else is   *)
(* open when that registration succeeds.                                   *)
LEMMA DeviceFile ==
    ASSUME FileInv, FileInv', NEW f \in Files, FileStep(f)
    PROVE  Device!Next \/ UNCHANGED <<Opened, rfile>>
<1> USE DEF FileInv, TypeOK
<1>1. OneOpenFile /\ OneOpenFile'
  BY IrqsExclude, PTL
<1>2. /\ rfile' = rfile
      /\ \A g \in Files \ {f} : fpc'[g] = fpc[g]
  BY DEF FileStep, s3c6410_buttons_open, s3c6410_buttons_close, OpenStart, OpenSkip,
         OpenRequest, OpenFail, OpenUnwind, OpenEBUSY, OpenResetValue, OpenResetFlag,
         CloseStart, CloseFree, CloseReturn, RequestNext, FileGone, readVars
<1>3. CASE f \in Opened <=> f \in Opened'
  BY <1>2, <1>3 DEF Opened
<1>4. CASE f \notin Opened /\ f \in Opened'
  <2>1. Opened = {} /\ Opened' = {f}
    BY <1>1, <1>2, <1>4 DEF Opened, OneOpenFile
  <2>2. Device!Open(f)
    BY <1>2, <2>1 DEF Device!Open, Opened
  <2> QED
    BY <2>2 DEF Device!Next
<1>5. CASE f \in Opened /\ f \notin Opened'
  <2>1. Opened = {f} /\ Opened' = {}
    BY <1>1, <1>2, <1>5 DEF Opened, OneOpenFile
  <2>2. \A r \in Readers : rfile[r] # f
    BY <1>5 DEF FileStep, s3c6410_buttons_open, s3c6410_buttons_close, OpenStart,
         OpenSkip, OpenRequest, OpenFail, OpenUnwind, OpenEBUSY, OpenResetValue,
         OpenResetFlag, CloseStart, CloseFree, CloseReturn, FileGone, Opened
  <2>3. Device!Release(f)
    BY <1>2, <2>1, <2>2 DEF Device!Release, Opened
  <2> QED
    BY <2>3 DEF Device!Next
<1> QED
  BY <1>3, <1>4, <1>5

(* A read enters an open file, and is on it until it returns.              *)
LEMMA DeviceOther ==
    ASSUME FileInv, EventInv, OtherStep
    PROVE  Device!Next \/ UNCHANGED <<Opened, rfile>>
<1> USE DEF FileInv, TypeOK, EventInv, ReadersOpen
<1>0. Opened' = Opened
  BY OtherKeepsFiles DEF Opened, fileVars
<1>1. ASSUME NEW b \in Button, Edge(b) \/ buttons_interrupt(b) PROVE rfile' = rfile
  BY <1>1 DEF Edge, buttons_interrupt, readVars
<1>2. ASSUME NEW r \in Readers, NEW f \in Files, NEW count \in Counts,
             ReadStart(r, f, count)
      PROVE  Device!Next
  <2>1. f \in Opened
    BY <1>2 DEF ReadStart, Opened
  <2>2. Device!Enter(r, f)
    BY <1>0, <1>2, <2>1 DEF ReadStart, Device!Enter, Opened
  <2> QED
    BY <2>2 DEF Device!Next
<1>3. ASSUME NEW r \in Readers, Signal(r) PROVE rfile' = rfile
  BY <1>3 DEF Signal
<1>4. ASSUME NEW r \in Readers, ReadEAGAIN(r) \/ ReadEFAULT(r) \/ ReadDone(r)
      PROVE  Device!Next
  <2>1. rfile[r] \in Opened /\ rfile' = [rfile EXCEPT ![r] = None]
    BY <1>4 DEF ReadEAGAIN, ReadEFAULT, ReadDone, ReadReturn, Opened
  <2>2. Device!Return(r)
    BY <1>0, <2>1 DEF Device!Return, Opened
  <2> QED
    BY <2>2 DEF Device!Next
<1>5. ASSUME NEW r \in Readers, s3c6410_buttons_read(r),
             ~(ReadEAGAIN(r) \/ ReadEFAULT(r) \/ ReadDone(r))
      PROVE  rfile' = rfile
  BY <1>5 DEF s3c6410_buttons_read, ReadCheck, WaitPrepare, WaitRecheck, WaitSchedule,
         WaitResume, ReadClear, ReadCopy, ReadGoto
<1> QED
  BY <1>0, <1>1, <1>2, <1>3, <1>4, <1>5 DEF OtherStep

(* The button driver implements the exclusive device, for any number of    *)
(* files, buttons and reading threads.                                     *)
THEOREM ImplementsDeviceAlways == Spec => ImplementsDevice
<1>1. Init => Device!Init
  BY DEF Init, Device!Init
<1>2. FileInv /\ FileInv' /\ EventInv /\ [Next]_vars => [Device!Next]_(Device!vars)
  <2> SUFFICES ASSUME FileInv, FileInv', EventInv, [Next]_vars
               PROVE  Device!Next \/ UNCHANGED <<Opened, rfile>>
    BY DEF Device!vars, Opened
  <2>1. CASE UNCHANGED vars
    BY <2>1 DEF vars, fileVars, readVars, Opened
  <2> QED
    BY <2>1, DeviceFile, DeviceOther, NextSplit
<1> QED
  BY <1>1, <1>2, FileInvariant, EventInvariant, PTL
     DEF Spec, ImplementsDevice, Device!Spec
=============================================================================
