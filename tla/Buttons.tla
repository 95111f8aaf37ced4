------------------------------ MODULE Buttons ------------------------------
(***************************************************************************)
(* The Tiny6410 button driver, linux/drives/button_dev/buttons_dev.c: one  *)
(* interrupt per button, a table buttons_values of 'p'/'r' bytes, one      *)
(* event flag and a wait queue, shared by the interrupt handler and by     *)
(* open, read and release.                                                 *)
(*                                                                         *)
(* Scheduling.  The kernel of this board is uniprocessor and built with    *)
(* CONFIG_PREEMPT_NONE (linux/kernel/common/tiny6410_config:358): a        *)
(* process inside the kernel gives up the processor only where it may      *)
(* sleep (request_irq, free_irq, copy_to_user, schedule), while a hardware *)
(* interrupt may run between any two of its steps.  The variable cpu holds *)
(* the process that is between two such points.                            *)
(*                                                                         *)
(* A struct file is a member of Files and a thread that calls read a       *)
(* member of Readers; several threads may share one struct file (fork).    *)
(***************************************************************************)
EXTENDS Integers, FiniteSets

CONSTANTS
    N,        \* entries of buttons_irqs (4 on the board)
    Skip,     \* the entries whose irq is negative
    Files,    \* struct files
    Readers,  \* threads that call read()
    Counts,   \* the sizes threads pass to read()
    None      \* no struct file, no process

Button == 0 .. N-1

ASSUME NAssumption == N \in Nat \ {0}
ASSUME SkipAssumption == Skip \subseteq Button /\ Button \ Skip # {}
ASSUME CountsAssumption == Counts \subseteq Nat
ASSUME ProcAssumption == /\ Files \cap Readers = {}
                         /\ None \notin Files \cup Readers

VARIABLES
    level,           \* the pins of GPNDAT, by the value the handler gives them
    gpncon,          \* the pins are switched to interrupt mode
    pend,            \* an edge is latched and waits for the handler
    owner,           \* the struct file whose open registered each irq
    buttons_values,  \* the table copied to user space
    action_flag,     \* an interrupt happened since the last read
    cpu,             \* the process running in the kernel, or None
    fpc, fi,         \* where each open/release is, and its loop index i
    nonblock,        \* O_NONBLOCK in f_flags
    rpc, rfile,      \* where each read is, and its struct file
    rcount, ri,      \* its read_count, and the bytes copied so far
    intr,            \* the thread is on buttons_waitq, TASK_INTERRUPTIBLE
    sigpend,         \* a signal is pending for the thread
    seen,            \* history: the byte of each button user space got last
    missed,          \* history: buttons whose event a short or faulting read ate
    raced            \* history: buttons whose event open's reset ate

hwVars    == <<level, gpncon, pend>>
fileVars  == <<fpc, fi, nonblock, owner>>
readVars  == <<rpc, rfile, rcount, ri, intr, sigpend>>
histVars  == <<seen, missed, raced>>
vars == <<hwVars, buttons_values, action_flag, cpu, fileVars, readVars, histVars>>

FilePC == {"closed", "request", "unwind", "reset", "open", "release"}
ReadPC == {"user", "check", "wait", "recheck", "schedule", "asleep", "clear", "copy"}
InWait == {"wait", "recheck", "schedule", "asleep"}

MinOf(a, b) == IF a <= b THEN a ELSE b

(* The type of every variable. *)
TypeOK ==
    /\ level \in [Button -> {"r", "p"}]
    /\ gpncon \in BOOLEAN
    /\ pend \in [Button -> BOOLEAN]
    /\ owner \in [Button -> Files \cup {None}]
    /\ buttons_values \in [Button -> {"r", "p"}]
    /\ action_flag \in {0, 1}
    /\ cpu \in Files \cup Readers \cup {None}
    /\ fpc \in [Files -> FilePC]
    /\ fi \in [Files -> -1 .. N]
    /\ nonblock \in [Files -> BOOLEAN]
    /\ rpc \in [Readers -> ReadPC]
    /\ rfile \in [Readers -> Files \cup {None}]
    /\ rcount \in [Readers -> 0 .. N]
    /\ ri \in [Readers -> 0 .. N]
    /\ intr \in [Readers -> BOOLEAN]
    /\ sigpend \in [Readers -> BOOLEAN]
    /\ seen \in [Button -> {"r", "p"}]
    /\ missed \subseteq Button
    /\ raced \subseteq Button

(* The module has just been loaded: static initialisers, no file open.  A  *)
(* button may already be held down.                                        *)
Init ==
    /\ level \in [Button -> {"r", "p"}]
    /\ gpncon = FALSE
    /\ pend = [b \in Button |-> FALSE]
    /\ owner = [b \in Button |-> None]
    /\ buttons_values = [b \in Button |-> "r"]
    /\ action_flag = 0
    /\ cpu = None
    /\ fpc = [f \in Files |-> "closed"]
    /\ fi = [f \in Files |-> 0]
    /\ nonblock = [f \in Files |-> FALSE]
    /\ rpc = [r \in Readers |-> "user"]
    /\ rfile = [r \in Readers |-> None]
    /\ rcount = [r \in Readers |-> 0]
    /\ ri = [r \in Readers |-> 0]
    /\ intr = [r \in Readers |-> FALSE]
    /\ sigpend = [r \in Readers |-> FALSE]
    /\ seen = [b \in Button |-> "r"]
    /\ missed = {}
    /\ raced = {}

CanRun(p) == cpu \in {p, None}
-----------------------------------------------------------------------------
(* The board.                                                              *)

(* A button is pressed or released.  The edge is latched while its irq is  *)
(* registered (IRQ_TYPE_EDGE_BOTH); with the pin in interrupt mode but no  *)
(* handler, the trigger type is whatever was left there.                   *)
Edge(b) ==
    /\ level' = [level EXCEPT ![b] = IF @ = "r" THEN "p" ELSE "r"]
    /\ \E latched \in BOOLEAN :
          /\ gpncon /\ owner[b] # None => latched
          /\ ~gpncon => ~latched
          /\ pend' = [pend EXCEPT ![b] = @ \/ latched]
    /\ UNCHANGED <<gpncon, buttons_values, action_flag, cpu, fileVars, readVars,
                   histVars>>

PinValue_PressOnly(b) == IF level[b] = "p" THEN "p" ELSE buttons_values[b]

(* GPNDAT as it is when the handler runs: low is 'p', high is 'r'.         *)
PinValue(b) == level[b]

SetFlag_Missing == UNCHANGED action_flag

SetFlag == action_flag' = 1

WakeUp_Missing == UNCHANGED intr

(* wake_up_interruptible(&buttons_waitq)                                   *)
WakeUp == intr' = [r \in Readers |-> FALSE]

(* The interrupt of button b: acknowledge, read the pin, set the table and *)
(* the flag, wake every thread on the queue.                               *)
buttons_interrupt(b) ==
    /\ pend[b] /\ owner[b] # None
    /\ pend' = [pend EXCEPT ![b] = FALSE]
    /\ buttons_values' = [buttons_values EXCEPT ![b] = PinValue(b)]
    /\ SetFlag
    /\ WakeUp
    /\ missed' = missed \ {b}
    /\ raced' = raced \ {b}
    /\ UNCHANGED <<level, gpncon, cpu, fileVars, rpc, rfile, rcount, ri, sigpend,
                   seen>>
-----------------------------------------------------------------------------
(* s3c6410_buttons_open.                                                   *)

(* The struct file, its flags and the locals of the call are gone.         *)
FileGone(f) ==
    /\ fpc' = [fpc EXCEPT ![f] = "closed"]
    /\ fi' = [fi EXCEPT ![f] = 0]
    /\ nonblock' = [nonblock EXCEPT ![f] = FALSE]

OpenStart(f) ==
    /\ fpc[f] = "closed" /\ CanRun(f)
    /\ gpncon' = TRUE
    /\ fpc' = [fpc EXCEPT ![f] = "request"]
    /\ \E nb \in BOOLEAN : nonblock' = [nonblock EXCEPT ![f] = nb]
    /\ UNCHANGED <<level, pend, fi, owner, buttons_values, action_flag, cpu,
                   readVars, histVars>>

(* The registration loop goes on to the next entry, or leaves for the      *)
(* reset of the table with i = 0.                                          *)
RequestNext(f) ==
    /\ fpc' = [fpc EXCEPT ![f] = IF fi[f] + 1 < N THEN "request" ELSE "reset"]
    /\ fi' = [fi EXCEPT ![f] = IF fi[f] + 1 < N THEN fi[f] + 1 ELSE 0]

OpenSkip(f) ==
    /\ fpc[f] = "request" /\ CanRun(f) /\ fi[f] \in Skip
    /\ RequestNext(f)
    /\ UNCHANGED <<hwVars, owner, nonblock, buttons_values, action_flag, cpu,
                   readVars, histVars>>

LineFree_Shared(f) == TRUE

(* The flags of buttons_irqs do not ask for a shared line.                 *)
LineFree(f) == owner[fi[f]] = None

(* request_irq succeeds.                                                   *)
OpenRequest(f) ==
    /\ fpc[f] = "request" /\ CanRun(f) /\ fi[f] \notin Skip
    /\ LineFree(f)
    /\ owner' = [owner EXCEPT ![fi[f]] = f]
    /\ RequestNext(f)
    /\ UNCHANGED <<hwVars, nonblock, buttons_values, action_flag, cpu, readVars,
                   histVars>>

LastRegistered_Failed(f) == fi[f]

(* i--: the request that failed has nothing to free.                       *)
LastRegistered(f) == fi[f] - 1

OpenFail_Ignored(f) ==
    /\ fpc[f] = "request" /\ CanRun(f) /\ fi[f] \notin Skip
    /\ RequestNext(f)
    /\ UNCHANGED <<hwVars, owner, nonblock, buttons_values, action_flag, cpu,
                   readVars, histVars>>

(* request_irq fails: the line is taken, or the kernel is out of memory.   *)
OpenFail(f) ==
    /\ fpc[f] = "request" /\ CanRun(f) /\ fi[f] \notin Skip
    /\ fpc' = [fpc EXCEPT ![f] = "unwind"]
    /\ fi' = [fi EXCEPT ![f] = LastRegistered(f)]
    /\ UNCHANGED <<hwVars, owner, nonblock, buttons_values, action_flag, cpu,
                   readVars, histVars>>

UnwindMore_Unbounded(f) == fi[f] >= -1

UnwindMore(f) == fi[f] >= 0

(* The lines registered so far are disabled and freed, downwards.  As      *)
(* every open passes the same dev_id for a line, free_irq removes whatever *)
(* registration it finds.                                                  *)
OpenUnwind(f) ==
    /\ fpc[f] = "unwind" /\ CanRun(f) /\ UnwindMore(f)
    /\ owner' = IF fi[f] \in Skip THEN owner ELSE [owner EXCEPT ![fi[f]] = None]
    /\ fi' = [fi EXCEPT ![f] = @ - 1]
    /\ UNCHANGED <<hwVars, fpc, nonblock, buttons_values, action_flag, cpu,
                   readVars, histVars>>

OpenEBUSY(f) ==
    /\ fpc[f] = "unwind" /\ CanRun(f) /\ ~UnwindMore(f)
    /\ FileGone(f)
    /\ UNCHANGED <<hwVars, owner, buttons_values, action_flag, cpu, readVars,
                   histVars>>

(* Only after the registrations: every value back to 'r', one by one.      *)
OpenResetValue(f) ==
    /\ fpc[f] = "reset" /\ CanRun(f) /\ fi[f] < N
    /\ buttons_values' = [buttons_values EXCEPT ![fi[f]] = "r"]
    /\ fi' = [fi EXCEPT ![f] = @ + 1]
    /\ cpu' = f
    /\ UNCHANGED <<hwVars, fpc, owner, nonblock, action_flag, readVars, histVars>>

(* ... then the flag, and open returns 0 to a program whose own table says *)
(* 'r' for every button.                                                   *)
OpenResetFlag(f) ==
    /\ fpc[f] = "reset" /\ CanRun(f) /\ fi[f] = N
    /\ action_flag' = 0
    /\ fpc' = [fpc EXCEPT ![f] = "open"]
    /\ fi' = [fi EXCEPT ![f] = 0]
    /\ cpu' = None
    /\ seen' = [b \in Button |-> "r"]
    /\ missed' = {}
    /\ raced' = {b \in Button : buttons_values[b] # "r"}
    /\ UNCHANGED <<hwVars, owner, nonblock, buttons_values, readVars>>

s3c6410_buttons_open(f) ==
    \/ OpenSkip(f) \/ OpenRequest(f) \/ OpenFail(f) \/ OpenUnwind(f)
    \/ OpenEBUSY(f) \/ OpenResetValue(f) \/ OpenResetFlag(f)
-----------------------------------------------------------------------------
(* s3c6410_buttons_close: the last reference to the struct file is dropped,*)
(* so no read is in progress on it.                                        *)

CloseStart(f) ==
    /\ fpc[f] = "open" /\ CanRun(f)
    /\ \A r \in Readers : rfile[r] # f
    /\ fpc' = [fpc EXCEPT ![f] = "release"]
    /\ UNCHANGED <<hwVars, fi, owner, nonblock, buttons_values, action_flag, cpu,
                   readVars, histVars>>

CloseFree(f) ==
    /\ fpc[f] = "release" /\ CanRun(f) /\ fi[f] < N
    /\ owner' = IF fi[f] \in Skip THEN owner ELSE [owner EXCEPT ![fi[f]] = None]
    /\ fi' = [fi EXCEPT ![f] = @ + 1]
    /\ UNCHANGED <<hwVars, fpc, nonblock, buttons_values, action_flag, cpu,
                   readVars, histVars>>

CloseReturn(f) ==
    /\ fpc[f] = "release" /\ CanRun(f) /\ fi[f] = N
    /\ FileGone(f)
    /\ UNCHANGED <<hwVars, owner, buttons_values, action_flag, cpu, readVars,
                   histVars>>

s3c6410_buttons_close(f) == CloseFree(f) \/ CloseReturn(f)
-----------------------------------------------------------------------------
(* s3c6410_buttons_read, on an open struct file.                           *)

ReadStart(r, f, count) ==
    /\ rpc[r] = "user" /\ CanRun(r) /\ fpc[f] = "open"
    /\ rpc' = [rpc EXCEPT ![r] = "check"]
    /\ rfile' = [rfile EXCEPT ![r] = f]
    /\ rcount' = [rcount EXCEPT ![r] = MinOf(N, count)]
    /\ cpu' = r
    /\ UNCHANGED <<hwVars, buttons_values, action_flag, fileVars, ri, intr, sigpend,
                   histVars>>

ReadGoto(r, pc) ==
    /\ rpc' = [rpc EXCEPT ![r] = pc]
    /\ UNCHANGED <<hwVars, buttons_values, fileVars, rfile, rcount, ri, sigpend>>

(* Back to user space: a pending signal is delivered on the way.           *)
ReadReturn(r) ==
    /\ rpc' = [rpc EXCEPT ![r] = "user"]
    /\ rfile' = [rfile EXCEPT ![r] = None]
    /\ rcount' = [rcount EXCEPT ![r] = 0]
    /\ ri' = [ri EXCEPT ![r] = 0]
    /\ sigpend' = [sigpend EXCEPT ![r] = FALSE]
    /\ cpu' = None
    /\ UNCHANGED <<hwVars, buttons_values, fileVars, intr>>

ReadCheck(r) ==
    /\ rpc[r] = "check" /\ CanRun(r)
    /\ action_flag = 1 \/ ~nonblock[rfile[r]]
    /\ ReadGoto(r, IF action_flag = 1 THEN "clear" ELSE "wait")
    /\ cpu' = r
    /\ UNCHANGED <<action_flag, intr, histVars>>

ReadEAGAIN(r) ==
    /\ rpc[r] = "check" /\ CanRun(r)
    /\ action_flag = 0 /\ nonblock[rfile[r]]
    /\ ReadReturn(r)
    /\ UNCHANGED <<action_flag, histVars>>

(* wait_event_interruptible: prepare_to_wait, then the condition again,    *)
(* then a pending signal, then schedule().  Its result is not looked at,   *)
(* so a signal leaves the wait for the same code as an event does.         *)
WaitPrepare(r) ==
    /\ rpc[r] = "wait" /\ CanRun(r)
    /\ intr' = [intr EXCEPT ![r] = TRUE]
    /\ ReadGoto(r, "recheck")
    /\ cpu' = r
    /\ UNCHANGED <<action_flag, histVars>>

WaitCondition_Inverted == action_flag = 0

WaitCondition == action_flag = 1

WaitRecheck(r) ==
    /\ rpc[r] = "recheck" /\ CanRun(r)
    /\ IF WaitCondition \/ sigpend[r]
       THEN ReadGoto(r, "clear") /\ intr' = [intr EXCEPT ![r] = FALSE]
       ELSE ReadGoto(r, "schedule") /\ UNCHANGED intr
    /\ cpu' = r
    /\ UNCHANGED <<action_flag, histVars>>

(* schedule() leaves the run queue unless a wake-up came in between.       *)
WaitSchedule(r) ==
    /\ rpc[r] = "schedule" /\ CanRun(r)
    /\ ReadGoto(r, "asleep")
    /\ cpu' = None
    /\ UNCHANGED <<action_flag, intr, histVars>>

WaitResume(r) ==
    /\ rpc[r] = "asleep" /\ CanRun(r) /\ ~intr[r]
    /\ ReadGoto(r, "wait")
    /\ cpu' = r
    /\ UNCHANGED <<action_flag, intr, histVars>>

(* The flag is cleared before the table is copied.                         *)
ReadClear(r) ==
    /\ rpc[r] = "clear" /\ CanRun(r)
    /\ action_flag' = 0
    /\ ReadGoto(r, "copy")
    /\ cpu' = None
    /\ missed' = missed \cup
          {b \in Button : b >= rcount[r] /\ buttons_values[b] # seen[b]}
    /\ UNCHANGED <<intr, seen, raced>>

(* copy_to_user takes the bytes one at a time and may sleep on a page      *)
(* fault before each of them.                                              *)
ReadCopy(r) ==
    /\ rpc[r] = "copy" /\ CanRun(r) /\ ri[r] < rcount[r]
    /\ seen' = [seen EXCEPT ![ri[r]] = buttons_values[ri[r]]]
    /\ missed' = missed \ {ri[r]}
    /\ raced' = raced \ {ri[r]}
    /\ ri' = [ri EXCEPT ![r] = @ + 1]
    /\ UNCHANGED <<hwVars, buttons_values, action_flag, cpu, fileVars, rpc, rfile,
                   rcount, intr, sigpend>>

ReadEFAULT(r) ==
    /\ rpc[r] = "copy" /\ CanRun(r) /\ ri[r] < rcount[r]
    /\ missed' = missed \cup {b \in Button : b >= ri[r] /\ buttons_values[b] # seen[b]}
    /\ ReadReturn(r)
    /\ UNCHANGED <<action_flag, seen, raced>>

ReadDone_ClearsFlag(r) ==
    /\ rpc[r] = "copy" /\ CanRun(r) /\ ri[r] = rcount[r]
    /\ ReadReturn(r)
    /\ action_flag' = 0
    /\ UNCHANGED histVars

ReadDone(r) ==
    /\ rpc[r] = "copy" /\ CanRun(r) /\ ri[r] = rcount[r]
    /\ ReadReturn(r)
    /\ UNCHANGED <<action_flag, histVars>>

(* A signal for a thread that is reading: it becomes runnable.             *)
Signal(r) ==
    /\ rpc[r] # "user" /\ ~sigpend[r]
    /\ sigpend' = [sigpend EXCEPT ![r] = TRUE]
    /\ intr' = [intr EXCEPT ![r] = FALSE]
    /\ UNCHANGED <<hwVars, buttons_values, action_flag, cpu, fileVars, rpc, rfile,
                   rcount, ri, histVars>>

s3c6410_buttons_read(r) ==
    \/ ReadCheck(r) \/ ReadEAGAIN(r)
    \/ WaitPrepare(r) \/ WaitRecheck(r) \/ WaitSchedule(r) \/ WaitResume(r)
    \/ ReadClear(r) \/ ReadCopy(r) \/ ReadEFAULT(r) \/ ReadDone(r)
-----------------------------------------------------------------------------
Next ==
    \/ \E b \in Button : Edge(b) \/ buttons_interrupt(b)
    \/ \E f \in Files : \/ OpenStart(f) \/ s3c6410_buttons_open(f)
                        \/ CloseStart(f) \/ s3c6410_buttons_close(f)
    \/ \E r \in Readers : \/ \E f \in Files, count \in Counts : ReadStart(r, f, count)
                          \/ s3c6410_buttons_read(r)
                          \/ Signal(r)

Spec == Init /\ [][Next]_vars

(* Fairness: a latched interrupt is taken, and the scheduler runs every    *)
(* runnable thread again and again (strong fairness, because a thread      *)
(* waits while another one holds the processor).  Nothing is assumed of    *)
(* buttons, signals and new system calls.                                  *)
Fairness ==
    /\ \A b \in Button : WF_vars(buttons_interrupt(b))
    /\ \A f \in Files : SF_vars(s3c6410_buttons_open(f) \/ s3c6410_buttons_close(f))
    /\ \A r \in Readers : SF_vars(s3c6410_buttons_read(r))

LiveSpec == Spec /\ Fairness
-----------------------------------------------------------------------------
(* Safety.                                                                 *)

(* The lines file f must hold at its point of open or release: a prefix    *)
(* while open requests or unwinds them, a suffix while release frees them. *)
Holds(f, b) ==
    CASE fpc[f] = "closed"  -> FALSE
      [] fpc[f] = "request" -> b < fi[f]
      [] fpc[f] = "unwind"  -> b <= fi[f]
      [] fpc[f] = "release" -> b >= fi[f]
      [] OTHER              -> TRUE

(* Every open, failed open and release leaves exactly its own lines        *)
(* registered, whatever other opens and releases run between its calls:    *)
(* nothing leaks after EBUSY, nobody frees a line of another file although *)
(* all of them pass the same dev_id, an open file has every button.        *)
IrqsExact ==
    \A b \in Button, f \in Files : owner[b] = f <=> Holds(f, b) /\ b \notin Skip

(* The lines, not shared, make the device exclusive: two files are never   *)
(* open together, so nothing resets the table under a reader.              *)
OneOpenFile ==
    \A f, g \in Files :
        fpc[f] \in {"reset", "open"} /\ fpc[g] \in {"reset", "open"} => f = g

Device == INSTANCE ExclusiveDevice WITH
    Threads <- Readers,
    opened <- {f \in Files : fpc[f] \in {"reset", "open"}},
    call <- rfile

(* open, release and read implement the exclusive device: registering the  *)
(* lines one by one, with failures and other opens in between, is one      *)
(* step that only a free device allows; reads happen inside an open file   *)
(* and hold back its release.                                              *)
ImplementsDevice == Device!Spec

(* While a file is open its table changes only where an interrupt of that  *)
(* button is taken, and its flag is cleared only by a read on that very    *)
(* file: whatever opens fail, unwind or wait at a line, and whatever       *)
(* releases end beside it, the reset of another open never reaches the     *)
(* state an open file works on.                                            *)
UndisturbedWhileOpen ==
    [][\A f \in Files : fpc[f] = "open" =>
          /\ \A b \in Button : buttons_values'[b] # buttons_values[b] =>
                pend[b] /\ ~pend'[b]
          /\ action_flag' < action_flag =>
                \E r \in Readers : rpc[r] = "clear" /\ rfile[r] = f /\ rpc'[r] = "copy"]_vars

(* A value user space has not got yet is announced by the flag, or a read  *)
(* that took the flag is still going to copy it: clearing the flag before  *)
(* the copy loses nothing.  Excepted are the events that a short or        *)
(* faulting read, or the reset in open, throws away.                       *)
NoLostEvent ==
    \A f \in Files, b \in Button :
        fpc[f] = "open" /\ buttons_values[b] # seen[b] =>
            \/ action_flag = 1
            \/ \E r \in Readers : rpc[r] = "copy" /\ ri[r] <= b /\ b < rcount[r]
            \/ b \in missed \cup raced

(* No thread is off the run queue with the flag set or a signal pending.   *)
NoLostWakeup ==
    \A r \in Readers :
        rpc[r] \in {"schedule", "asleep"} /\ intr[r] => action_flag = 0 /\ ~sigpend[r]

(* A blocking read goes on because the flag is set or a signal ended its   *)
(* wait, never because another reader took the event it was woken for.     *)
ReadHasCause ==
    \A r \in Readers : rpc[r] = "clear" => action_flag = 1 \/ sigpend[r]

(* With its file open and no interrupt outstanding, the table never shows  *)
(* as pressed a button that is not: bouncing and late handlers leave no    *)
(* phantom press behind.                                                   *)
NoPhantomPress ==
    \A f \in Files, b \in Button \ Skip :
        fpc[f] = "open" /\ ~pend[b] /\ buttons_values[b] = "p" => level[b] = "p"
-----------------------------------------------------------------------------
(* Liveness.                                                               *)

(* An interrupt that is latched while a thread waits for one is handed to  *)
(* a reader, even if every waiting thread was about to fall asleep.        *)
InterruptServesReader ==
    \A r \in Readers, b \in Button :
        rpc[r] \in InWait /\ pend[b] /\ b \notin Skip
            ~> \E q \in Readers : rpc[q] = "copy"
=============================================================================
