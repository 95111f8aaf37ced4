------------------------------- MODULE CharDev -------------------------------
(***************************************************************************)
(* The string device linux/drives/char_dev/char_dev.c: a buffer of         *)
(* BUFFER_SIZE bytes and a length, written, read and cleared by system     *)
(* calls, with open_use to admit one opener at a time.                     *)
(*                                                                         *)
(* A struct file is a member of Files; the threads that share it (fork)    *)
(* call read, write and ioctl on it concurrently.  On this uniprocessor    *)
(* kernel without preemption (tiny6410_config:358) a call is interleaved   *)
(* with another one only where copy_to_user or copy_from_user sleeps on a  *)
(* page fault, that is between two of the bytes they copy.                 *)
(*                                                                         *)
(* A string is reduced to its length and to who wrote it: every byte of    *)
(* one write is the tag of that write, a member of Tags.                   *)
(***************************************************************************)
EXTENDS Naturals, FiniteSets

CONSTANTS
    BUFFER_SIZE,  \* 1025 in the code
    DefaultLen,   \* length of the string "20151108" with its NUL: 9
    Files,        \* struct files
    Threads,      \* threads that may use an open struct file
    Tags,         \* the contents of writes
    Sizes,        \* the counts passed to read and write
    Default,      \* the tag of the default string
    Zero,         \* the NUL bytes a failed copy_from_user leaves
    Unset,        \* a byte nobody has stored (static storage)
    None          \* no file, no thread

ASSUME CharDevAssumption ==
    /\ BUFFER_SIZE \in Nat \ {0}
    /\ DefaultLen \in 0 .. BUFFER_SIZE - 1
    /\ Sizes \subseteq Nat
    /\ Unset \notin Tags \cup {Default, Zero}
    /\ None \notin Files \cup Threads

VARIABLES
    char_dev_buffer, char_dev_string_len, open_use,
    opened,            \* the struct files that are open
    pc, file,          \* where each thread's call is, and its struct file
    count, i, tag,     \* its length, the bytes copied, the content it writes
    cpu,               \* the thread that runs to its return, or None
    asked,             \* history: the count each call was given
    solo,              \* history: no other call changed the device meanwhile
    lastWrite          \* history: the write that alone made the present string

callVars == <<pc, file, count, i, tag, cpu, asked>>
vars == <<char_dev_buffer, char_dev_string_len, open_use, opened, callVars, solo,
          lastWrite>>

Index == 0 .. BUFFER_SIZE - 1
Bytes == Tags \cup {Default, Zero, Unset}
NoWrite == [tag |-> Unset, len |-> 0, asked |-> 0]

(* The type of every variable: in particular the length and every copy     *)
(* stay inside the buffer.                                                 *)
TypeOK ==
    /\ char_dev_buffer \in [Index -> Bytes]
    /\ char_dev_string_len \in Index
    /\ open_use \in {0, 1}
    /\ opened \subseteq Files
    /\ pc \in [Threads -> {"user", "read", "write"}]
    /\ file \in [Threads -> Files \cup {None}]
    /\ count \in [Threads -> Index]
    /\ i \in [Threads -> Index]
    /\ tag \in [Threads -> Tags \cup {Unset}]
    /\ cpu \in Threads \cup {None}
    /\ asked \in [Threads -> Sizes \cup {0}]
    /\ solo \in [Threads -> BOOLEAN]
    /\ lastWrite \in [tag : Tags \cup {Default, Unset}, len : Index, asked : Nat]

Init ==
    /\ char_dev_buffer = [k \in Index |-> IF k < DefaultLen THEN Default ELSE Unset]
    /\ char_dev_string_len = DefaultLen
    /\ open_use = 0
    /\ opened = {}
    /\ pc = [t \in Threads |-> "user"]
    /\ file = [t \in Threads |-> None]
    /\ count = [t \in Threads |-> 0]
    /\ i = [t \in Threads |-> 0]
    /\ tag = [t \in Threads |-> Unset]
    /\ solo = [t \in Threads |-> FALSE]
    /\ cpu = None
    /\ asked = [t \in Threads |-> 0]
    /\ lastWrite = [tag |-> Default, len |-> DefaultLen, asked |-> DefaultLen]

CanRun(t) == cpu \in {t, None}
-----------------------------------------------------------------------------
chr_open_NoClaim(f) ==
    /\ cpu = None /\ f \notin opened /\ open_use # 1
    /\ opened' = opened \cup {f}
    /\ UNCHANGED <<char_dev_buffer, char_dev_string_len, open_use, callVars, solo,
                   lastWrite>>

(* Another open is refused with -1 and changes nothing.  The test and the  *)
(* set are not separated: nothing between them sleeps.                     *)
chr_open(f) ==
    /\ cpu = None /\ f \notin opened /\ open_use # 1
    /\ open_use' = 1
    /\ opened' = opened \cup {f}
    /\ UNCHANGED <<char_dev_buffer, char_dev_string_len, callVars, solo, lastWrite>>

(* The last reference to the file is dropped: no call is running on it.    *)
chr_close(f) ==
    /\ cpu = None /\ f \in opened /\ \A t \in Threads : file[t] # f
    /\ open_use' = 0
    /\ opened' = opened \ {f}
    /\ UNCHANGED <<char_dev_buffer, char_dev_string_len, callVars, solo, lastWrite>>
-----------------------------------------------------------------------------
(* A call that has nothing to copy cannot sleep before it returns.         *)
Enter(t, f, where, n, c) ==
    /\ cpu = None /\ pc[t] = "user" /\ f \in opened
    /\ pc' = [pc EXCEPT ![t] = where]
    /\ file' = [file EXCEPT ![t] = f]
    /\ count' = [count EXCEPT ![t] = n]
    /\ tag' = [tag EXCEPT ![t] = c]
    /\ cpu' = IF n = 0 THEN t ELSE None
    /\ UNCHANGED <<open_use, opened, i>>

(* The next byte; after the last one nothing sleeps any more.              *)
Advance(t) ==
    /\ i' = [i EXCEPT ![t] = @ + 1]
    /\ cpu' = IF i[t] + 1 = count[t] THEN t ELSE None
    /\ UNCHANGED <<open_use, opened, pc, file, count, tag, asked>>

Return(t) ==
    /\ pc' = [pc EXCEPT ![t] = "user"]
    /\ file' = [file EXCEPT ![t] = None]
    /\ count' = [count EXCEPT ![t] = 0]
    /\ i' = [i EXCEPT ![t] = 0]
    /\ tag' = [tag EXCEPT ![t] = Unset]
    /\ asked' = [asked EXCEPT ![t] = 0]
    /\ cpu' = None
    /\ UNCHANGED <<open_use, opened>>

(* The call changed the device: calls in progress are not alone.           *)
Disturb(t) == solo' = [u \in Threads |-> IF u = t THEN solo[u] ELSE FALSE]

ReadCount_Unchecked(n) == IF n < BUFFER_SIZE THEN n ELSE BUFFER_SIZE - 1

(* count > char_dev_string_len is cut to char_dev_string_len.              *)
ReadCount(n) == IF n > char_dev_string_len THEN char_dev_string_len ELSE n

chr_read(t, f, n) ==
    /\ Enter(t, f, "read", ReadCount(n), Unset)
    /\ asked' = [asked EXCEPT ![t] = n]
    /\ solo' = [solo EXCEPT ![t] = TRUE]
    /\ UNCHANGED <<char_dev_buffer, char_dev_string_len, lastWrite>>

(* copy_to_user takes one byte.                                            *)
ReadByte(t) ==
    /\ pc[t] = "read" /\ CanRun(t) /\ i[t] < count[t]
    /\ Advance(t)
    /\ UNCHANGED <<char_dev_buffer, char_dev_string_len, solo, lastWrite>>

(* chr_read returns 0, whether copy_to_user copied everything or not.      *)
ReadReturn(t) ==
    /\ pc[t] = "read" /\ CanRun(t)
    /\ Return(t)
    /\ solo' = [solo EXCEPT ![t] = FALSE]
    /\ UNCHANGED <<char_dev_buffer, char_dev_string_len, lastWrite>>

WriteCount_Unbounded(n) == IF n > BUFFER_SIZE THEN BUFFER_SIZE ELSE n

(* count %= BUFFER_SIZE                                                    *)
WriteCount(n) == n % BUFFER_SIZE

chr_write(t, f, n, c) ==
    /\ Enter(t, f, "write", WriteCount(n), c)
    /\ asked' = [asked EXCEPT ![t] = n]
    /\ solo' = [u \in Threads |-> u = t /\ \A w \in Threads : pc[w] # "write"]
    /\ lastWrite' = NoWrite
    /\ UNCHANGED <<char_dev_buffer, char_dev_string_len>>

(* copy_from_user stores one byte.                                         *)
WriteByte(t) ==
    /\ pc[t] = "write" /\ CanRun(t) /\ i[t] < count[t]
    /\ char_dev_buffer' = [char_dev_buffer EXCEPT ![i[t]] = tag[t]]
    /\ Advance(t)
    /\ Disturb(t)
    /\ UNCHANGED <<char_dev_string_len, lastWrite>>

NewLength_Kept(t) ==
    IF count[t] > char_dev_string_len THEN count[t] ELSE char_dev_string_len

NewLength(t) == count[t]

(* The length is set after the copy.                                       *)
WriteReturn(t) ==
    /\ pc[t] = "write" /\ CanRun(t) /\ i[t] = count[t]
    /\ char_dev_string_len' = NewLength(t)
    /\ lastWrite' = IF solo[t]
                    THEN [tag |-> tag[t], len |-> count[t], asked |-> asked[t]]
                    ELSE NoWrite
    /\ Return(t)
    /\ solo' = [u \in Threads |-> FALSE]
    /\ UNCHANGED char_dev_buffer

(* A bad user page: copy_from_user fills the rest with zeros, and its      *)
(* result is ignored.                                                      *)
WriteFault(t) ==
    /\ pc[t] = "write" /\ CanRun(t) /\ i[t] < count[t]
    /\ char_dev_buffer' = [k \in Index |-> IF i[t] <= k /\ k < count[t]
                                           THEN Zero ELSE char_dev_buffer[k]]
    /\ char_dev_string_len' = NewLength(t)
    /\ lastWrite' = NoWrite
    /\ Return(t)
    /\ solo' = [u \in Threads |-> FALSE]

(* BUFFER_CLEAR_CMD; every other command returns 0 and changes nothing.    *)
chr_ioctl(t, f) ==
    /\ cpu = None /\ pc[t] = "user" /\ f \in opened
    /\ char_dev_string_len' = 0
    /\ lastWrite' = NoWrite
    /\ Disturb(t)
    /\ UNCHANGED <<char_dev_buffer, open_use, opened, callVars>>
-----------------------------------------------------------------------------
Next ==
    \/ \E f \in Files : chr_open(f) \/ chr_close(f)
    \/ \E t \in Threads, f \in Files :
          \/ chr_ioctl(t, f)
          \/ \E n \in Sizes : chr_read(t, f, n)
          \/ \E n \in Sizes, c \in Tags : chr_write(t, f, n, c)
    \/ \E t \in Threads : \/ ReadByte(t) \/ ReadReturn(t)
                          \/ WriteByte(t) \/ WriteReturn(t) \/ WriteFault(t)

Spec == Init /\ [][Next]_vars
-----------------------------------------------------------------------------
(* open_use admits one file at a time, and is free again after its close.  *)
OneOpener == Cardinality(opened) = open_use

Device == INSTANCE ExclusiveDevice WITH call <- file

(* open_use makes the string device an exclusive device: no second opener, *)
(* whatever order opens and closes come in, and no call outside an open    *)
(* file or across its close.                                               *)
ImplementsDevice == Device!Spec

(* A read never hands out a byte nobody stored, in spite of writes,        *)
(* failing writes and clears that overlap it and one another: every byte   *)
(* below the length, and every byte a read still has to copy, was stored.  *)
ReadsStoredBytes ==
    /\ \A k \in Index : k < char_dev_string_len => char_dev_buffer[k] # Unset
    /\ \A t \in Threads, k \in Index :
          pc[t] = "read" /\ k < count[t] => char_dev_buffer[k] # Unset

(* A write no other call interfered with is what the next reads get: its   *)
(* length and its bytes, until something writes or clears again.           *)
ReadBack ==
    lastWrite # NoWrite =>
        /\ char_dev_string_len = lastWrite.len
        /\ \A k \in Index : k < lastWrite.len => char_dev_buffer[k] = lastWrite.tag

(* readme.md:14: a write stores at most 1024 characters, the rest is       *)
(* dropped.  The modulo drops everything but the rest.                     *)
LongWriteKeepsPrefix ==
    lastWrite # NoWrite =>
        char_dev_string_len = IF lastWrite.asked < BUFFER_SIZE THEN lastWrite.asked
                                                               ELSE BUFFER_SIZE - 1
=============================================================================
