---------------------------- MODULE CharDevProofs ----------------------------
(***************************************************************************)
(* Proofs about CharDev, for every buffer size, every set of files and     *)
(* threads and every set of counts.                                        *)
(***************************************************************************)
EXTENDS CharDev, FiniteSetTheorems, TLAPS

(* Both ways of cutting a count keep it inside the buffer.                 *)
LEMMA CountsInBuffer ==
    ASSUME TypeOK, NEW n \in Sizes
    PROVE  ReadCount(n) \in Index /\ WriteCount(n) \in Index
  <1>1. n \in Nat /\ BUFFER_SIZE \in Nat \ {0}
    BY CharDevAssumption
  <1>2. ReadCount(n) \in Index
    BY <1>1 DEF ReadCount, TypeOK, Index
  <1>3. n % BUFFER_SIZE \in 0 .. BUFFER_SIZE - 1
    BY <1>1
  <1>. QED
    BY <1>2, <1>3 DEF WriteCount, Index

(* A call copies one more byte only while it is below its count.           *)
LEMMA NextByteInBuffer ==
    ASSUME TypeOK, NEW t \in Threads, i[t] < count[t]
    PROVE  i[t] + 1 \in Index
  BY CharDevAssumption DEF TypeOK, Index

LEMMA InitType == Init => TypeOK
  BY CharDevAssumption DEF Init, TypeOK, Index, Bytes

LEMMA NextType == TypeOK /\ [Next]_vars => TypeOK'
  <1> SUFFICES ASSUME TypeOK, [Next]_vars PROVE TypeOK'
    OBVIOUS
  <1>0. BUFFER_SIZE \in Nat \ {0} /\ 0 \in Index /\ None \notin Threads
    BY CharDevAssumption DEF Index
  <1>1. ASSUME NEW f \in Files, chr_open(f) PROVE TypeOK'
    BY <1>1 DEF TypeOK, chr_open, callVars
  <1>2. ASSUME NEW f \in Files, chr_close(f) PROVE TypeOK'
    BY <1>2 DEF TypeOK, chr_close, callVars
  <1>3. ASSUME NEW t \in Threads, NEW f \in Files, chr_ioctl(t, f) PROVE TypeOK'
    BY <1>3, <1>0 DEF TypeOK, chr_ioctl, callVars, Disturb, NoWrite
  <1>4. ASSUME NEW t \in Threads, NEW f \in Files, NEW n \in Sizes, chr_read(t, f, n)
        PROVE TypeOK'
    BY <1>4, CountsInBuffer DEF TypeOK, chr_read, Enter
  <1>5. ASSUME NEW t \in Threads, NEW f \in Files, NEW n \in Sizes, NEW c \in Tags,
               chr_write(t, f, n, c)
        PROVE TypeOK'
    <2>1. solo' \in [Threads -> BOOLEAN]
      BY <1>5 DEF chr_write
    <2>2. lastWrite' \in [tag : Tags \cup {Default, Unset}, len : Index, asked : Nat]
      BY <1>5, <1>0 DEF chr_write, NoWrite
    <2>. QED
      BY <1>5, <2>1, <2>2, CountsInBuffer DEF TypeOK, chr_write, Enter
  <1>6. ASSUME NEW t \in Threads, ReadByte(t) PROVE TypeOK'
    BY <1>6, NextByteInBuffer DEF TypeOK, ReadByte, Advance
  <1>7. ASSUME NEW t \in Threads, ReadReturn(t) PROVE TypeOK'
    BY <1>7, <1>0 DEF TypeOK, ReadReturn, Return
  <1>8. ASSUME NEW t \in Threads, WriteByte(t) PROVE TypeOK'
    <2>1. char_dev_buffer' \in [Index -> Bytes]
      BY <1>8 DEF WriteByte, TypeOK, Bytes
    <2>. QED
      BY <1>8, <2>1, NextByteInBuffer DEF TypeOK, WriteByte, Advance, Disturb
  <1>9. ASSUME NEW t \in Threads, WriteReturn(t) PROVE TypeOK'
    <2>0. Sizes \cup {0} \subseteq Nat
      BY CharDevAssumption
    <2>1. tag[t] \in Tags \cup {Unset} /\ count[t] \in Index /\ asked[t] \in Nat
      BY <2>0 DEF TypeOK
    <2>2. lastWrite' \in [tag : Tags \cup {Default, Unset}, len : Index, asked : Nat]
      BY <1>9, <1>0, <2>1 DEF WriteReturn, NoWrite
    <2>3. solo' \in [Threads -> BOOLEAN]
      BY <1>9 DEF WriteReturn
    <2>. QED
      BY <1>9, <1>0, <2>2, <2>3 DEF TypeOK, WriteReturn, Return, NewLength
  <1>10. ASSUME NEW t \in Threads, WriteFault(t) PROVE TypeOK'
    <2>1. char_dev_buffer' \in [Index -> Bytes]
      BY <1>10 DEF WriteFault, TypeOK, Bytes
    <2>2. solo' \in [Threads -> BOOLEAN]
      BY <1>10 DEF WriteFault
    <2>. QED
      BY <1>10, <1>0, <2>1, <2>2 DEF TypeOK, WriteFault, Return, NewLength, NoWrite
  <1>11. CASE UNCHANGED vars
    BY <1>11 DEF TypeOK, vars, callVars
  <1>. QED
    BY <1>1, <1>2, <1>3, <1>4, <1>5, <1>6, <1>7, <1>8, <1>9, <1>10, <1>11 DEF Next

(* Every variable of the string device keeps its type: no length and no    *)
(* index of a copy ever leaves the buffer, whatever count a caller passes. *)
THEOREM TypeCorrect == Spec => []TypeOK
  BY InitType, NextType, PTL DEF Spec
-----------------------------------------------------------------------------
(* One opener.                                                             *)

(* The files that are open, seen through open_use.                         *)
OpenInv == \/ open_use = 0 /\ opened = {}
           \/ open_use = 1 /\ \E f \in Files : opened = {f}

LEMMA NextOpen == OpenInv /\ [Next]_vars => OpenInv'
  <1> SUFFICES ASSUME OpenInv, [Next]_vars PROVE OpenInv'
    OBVIOUS
  <1>1. ASSUME NEW f \in Files, chr_open(f) PROVE OpenInv'
    BY <1>1 DEF chr_open, OpenInv
  <1>2. ASSUME NEW f \in Files, chr_close(f) PROVE OpenInv'
    BY <1>2 DEF chr_close, OpenInv
  <1>3. ASSUME UNCHANGED <<open_use, opened>> PROVE OpenInv'
    BY <1>3 DEF OpenInv
  <1>4. ASSUME NEW t \in Threads, NEW f \in Files, chr_ioctl(t, f)
        PROVE  UNCHANGED <<open_use, opened>>
    BY <1>4 DEF chr_ioctl
  <1>5. ASSUME NEW t \in Threads, NEW f \in Files, NEW n \in Sizes,
               chr_read(t, f, n) \/ \E c \in Tags : chr_write(t, f, n, c)
        PROVE  UNCHANGED <<open_use, opened>>
    BY <1>5 DEF chr_read, chr_write, Enter
  <1>6. ASSUME NEW t \in Threads,
               \/ ReadByte(t) \/ ReadReturn(t) \/ WriteByte(t) \/ WriteReturn(t)
               \/ WriteFault(t)
        PROVE  UNCHANGED <<open_use, opened>>
    BY <1>6 DEF ReadByte, ReadReturn, WriteByte, WriteReturn, WriteFault, Advance, Return
  <1>. QED
    BY <1>1, <1>2, <1>3, <1>4, <1>5, <1>6 DEF Next, vars

(* However opens and closes alternate, open_use counts the open files, so  *)
(* chr_open lets a second opener in only after the first one's close.      *)
THEOREM OneOpenerAlways == Spec => []OneOpener
  <1>1. Init => OpenInv
    BY DEF Init, OpenInv
  <1>2. OpenInv => OneOpener
    BY FS_EmptySet, FS_Singleton DEF OpenInv, OneOpener
  <1>. QED
    BY <1>1, <1>2, NextOpen, PTL DEF Spec
-----------------------------------------------------------------------------
(* What a read hands out.                                                  *)

(* A thread outside a call starts its next copy at the first byte, and the *)
(* bytes a write has already copied are stored.                            *)
Progress ==
    \A t \in Threads :
        /\ pc[t] = "user" => i[t] = 0
        /\ pc[t] = "write" => tag[t] \in Tags
        /\ pc[t] = "write" => \A k \in Index : k < i[t] => char_dev_buffer[k] # Unset

StoredInv == Progress /\ ReadsStoredBytes

(* A byte that was stored stays stored.                                    *)
StaysStored == \A k \in Index : char_dev_buffer[k] # Unset => char_dev_buffer'[k] # Unset

LEMMA InitStored == Init => StoredInv
  BY CharDevAssumption DEF Init, StoredInv, Progress, ReadsStoredBytes, Index

LEMMA NextStored == TypeOK /\ StoredInv /\ [Next]_vars => StoredInv'
  <1> SUFFICES ASSUME TypeOK, StoredInv, [Next]_vars PROVE StoredInv'
    OBVIOUS
  <1>0. /\ BUFFER_SIZE \in Nat \ {0} /\ Unset \notin Tags /\ Unset # Zero
        /\ \A k \in Index : k \in Nat
    BY CharDevAssumption DEF Index
  <1>1. ASSUME NEW f \in Files, chr_open(f) \/ chr_close(f) PROVE StoredInv'
    BY <1>1 DEF chr_open, chr_close, callVars, StoredInv, Progress, ReadsStoredBytes
  <1>2. ASSUME NEW t \in Threads, NEW f \in Files, chr_ioctl(t, f) PROVE StoredInv'
    BY <1>2, <1>0 DEF chr_ioctl, callVars, StoredInv, Progress, ReadsStoredBytes
  <1>3. ASSUME NEW t \in Threads, NEW f \in Files, NEW n \in Sizes, chr_read(t, f, n)
        PROVE StoredInv'
    <2>1. n \in Nat /\ char_dev_string_len \in Nat
      BY CharDevAssumption DEF TypeOK, Index
    <2>2. \A k \in Index : k < ReadCount(n) => k < char_dev_string_len
      BY <2>1, <1>0 DEF ReadCount
    <2>. QED
      BY <1>3, <2>2 DEF chr_read, Enter, StoredInv, Progress, ReadsStoredBytes, TypeOK
  <1>4. ASSUME NEW t \in Threads, NEW f \in Files, NEW n \in Sizes, NEW c \in Tags,
               chr_write(t, f, n, c)
        PROVE StoredInv'
    BY <1>4, <1>0 DEF chr_write, Enter, StoredInv, Progress, ReadsStoredBytes, TypeOK
  <1>5. ASSUME NEW t \in Threads, ReadByte(t) PROVE StoredInv'
    BY <1>5 DEF ReadByte, Advance, StoredInv, Progress, ReadsStoredBytes, TypeOK
  <1>6. ASSUME NEW t \in Threads, ReadReturn(t) PROVE StoredInv'
    BY <1>6, <1>0 DEF ReadReturn, Return, StoredInv, Progress, ReadsStoredBytes, TypeOK
  <1>7. ASSUME NEW t \in Threads, WriteByte(t) PROVE StoredInv'
    <2>1. tag[t] \in Tags
      BY <1>7 DEF WriteByte, StoredInv, Progress
    <2>2. StaysStored /\ char_dev_buffer'[i[t]] # Unset
      BY <1>7, <2>1, <1>0 DEF WriteByte, StaysStored, TypeOK
    <2>3. Progress'
      BY <1>7, <2>2, <1>0 DEF WriteByte, Advance, StoredInv, Progress, StaysStored,
                              TypeOK, Index
    <2>4. ReadsStoredBytes'
      BY <1>7, <2>2 DEF WriteByte, Advance, StoredInv, ReadsStoredBytes, StaysStored
    <2>. QED
      BY <2>3, <2>4 DEF StoredInv
  <1>8. ASSUME NEW t \in Threads, WriteReturn(t) PROVE StoredInv'
    <2>1. char_dev_string_len' = i[t] /\ UNCHANGED char_dev_buffer
      BY <1>8 DEF WriteReturn, NewLength
    <2>2. \A k \in Index : k < i[t] => char_dev_buffer[k] # Unset
      BY <1>8 DEF WriteReturn, StoredInv, Progress
    <2>3. Progress'
      BY <1>8, <1>0 DEF WriteReturn, Return, StoredInv, Progress, TypeOK
    <2>4. ReadsStoredBytes'
      BY <1>8, <2>1, <2>2 DEF WriteReturn, Return, StoredInv, ReadsStoredBytes, TypeOK
    <2>. QED
      BY <2>3, <2>4 DEF StoredInv
  <1>9. ASSUME NEW t \in Threads, WriteFault(t) PROVE StoredInv'
    <2>1. StaysStored
      BY <1>9, <1>0 DEF WriteFault, StaysStored
    <2>2. \A k \in Index : k < count[t] => char_dev_buffer'[k] # Unset
      BY <1>9, <1>0 DEF WriteFault, StoredInv, Progress, TypeOK, Index
    <2>3. Progress'
      BY <1>9, <1>0, <2>1 DEF WriteFault, Return, StoredInv, Progress, StaysStored, TypeOK
    <2>4. ReadsStoredBytes'
      BY <1>9, <2>1, <2>2 DEF WriteFault, Return, NewLength, StoredInv, ReadsStoredBytes,
                              StaysStored, TypeOK
    <2>. QED
      BY <2>3, <2>4 DEF StoredInv
  <1>10. CASE UNCHANGED vars
    BY <1>10 DEF vars, callVars, StoredInv, Progress, ReadsStoredBytes
  <1>. QED
    BY <1>1, <1>2, <1>3, <1>4, <1>5, <1>6, <1>7, <1>8, <1>9, <1>10 DEF Next

(* A read never hands out a byte nobody stored, whatever writes, failing   *)
(* writes and clears overlap it: the length is only ever set to a number   *)
(* of bytes that were stored, and stored bytes stay stored.                *)
THEOREM ReadsStoredBytesAlways == Spec => []ReadsStoredBytes
  <1>1. StoredInv => ReadsStoredBytes
    BY DEF StoredInv
  <1>. QED
    BY <1>1, InitType, NextType, InitStored, NextStored, PTL DEF Spec
-----------------------------------------------------------------------------
(* What an undisturbed write leaves.                                       *)

(* A write that is still alone has copied its own bytes so far and is the  *)
(* only one; and nobody writes while a string counts as undisturbed.       *)
SoloInv ==
    /\ \A t \in Threads : pc[t] = "write" /\ solo[t] =>
          /\ \A k \in Index : k < i[t] => char_dev_buffer[k] = tag[t]
          /\ \A u \in Threads : pc[u] = "write" => u = t
    /\ lastWrite # NoWrite => \A t \in Threads : pc[t] # "write"
    /\ ReadBack

LEMMA InitSolo == Init => SoloInv
  BY CharDevAssumption DEF Init, SoloInv, ReadBack, Index

LEMMA NextSolo == TypeOK /\ StoredInv /\ SoloInv /\ [Next]_vars => SoloInv'
  <1> SUFFICES ASSUME TypeOK, StoredInv, SoloInv, [Next]_vars PROVE SoloInv'
    OBVIOUS
  <1>0. BUFFER_SIZE \in Nat \ {0} /\ \A k \in Index : k \in Nat
    BY CharDevAssumption DEF Index
  <1>1. ASSUME NEW f \in Files, chr_open(f) \/ chr_close(f) PROVE SoloInv'
    BY <1>1 DEF chr_open, chr_close, callVars, SoloInv, ReadBack, NoWrite
  <1>2. ASSUME NEW t \in Threads, NEW f \in Files, chr_ioctl(t, f) PROVE SoloInv'
    BY <1>2 DEF chr_ioctl, callVars, Disturb, SoloInv, ReadBack, TypeOK, NoWrite
  <1>3. ASSUME NEW t \in Threads, NEW f \in Files, NEW n \in Sizes, chr_read(t, f, n)
        PROVE SoloInv'
    BY <1>3 DEF chr_read, Enter, SoloInv, ReadBack, TypeOK, NoWrite
  <1>4. ASSUME NEW t \in Threads, NEW f \in Files, NEW n \in Sizes, NEW c \in Tags,
               chr_write(t, f, n, c)
        PROVE SoloInv'
    <2>1. i'[t] = 0 /\ lastWrite' = NoWrite'
      BY <1>4 DEF chr_write, Enter, StoredInv, Progress, NoWrite
    <2>2. \A u \in Threads : solo'[u] =>
             u = t /\ \A w \in Threads : pc'[w] = "write" => w = t
      BY <1>4 DEF chr_write, Enter, TypeOK
    <2>3. \A k \in Index : ~(k < i'[t])
      BY <2>1, <1>0
    <2>. QED
      BY <2>1, <2>2, <2>3 DEF SoloInv, ReadBack
  <1>5. ASSUME NEW t \in Threads, ReadByte(t) PROVE SoloInv'
    BY <1>5 DEF ReadByte, Advance, SoloInv, ReadBack, TypeOK, NoWrite
  <1>6. ASSUME NEW t \in Threads, ReadReturn(t) PROVE SoloInv'
    BY <1>6 DEF ReadReturn, Return, SoloInv, ReadBack, TypeOK, NoWrite
  <1>7. ASSUME NEW t \in Threads, WriteByte(t) PROVE SoloInv'
    <2>1. lastWrite' = NoWrite'
      BY <1>7 DEF WriteByte, SoloInv, NoWrite
    <2>2. \A u \in Threads : pc'[u] = "write" /\ solo'[u] => u = t /\ solo[t]
      BY <1>7 DEF WriteByte, Disturb, TypeOK
    <2>3. solo[t] => \A k \in Index : k < i'[t] => char_dev_buffer'[k] = tag'[t]
      BY <1>7, <1>0 DEF WriteByte, Advance, SoloInv, TypeOK, Index
    <2>. QED
      BY <1>7, <2>1, <2>2, <2>3 DEF WriteByte, Advance, SoloInv, ReadBack
  <1>8. ASSUME NEW t \in Threads, WriteReturn(t) PROVE SoloInv'
    <2>1. \A u \in Threads : ~solo'[u]
      BY <1>8 DEF WriteReturn
    <2>2. CASE ~solo[t]
      BY <1>8, <2>1, <2>2 DEF WriteReturn, SoloInv, ReadBack, NoWrite
    <2>3. CASE solo[t]
      <3>1. /\ char_dev_string_len' = count[t]
            /\ lastWrite' = [tag |-> tag[t], len |-> count[t], asked |-> asked[t]]
            /\ \A k \in Index : k < count[t] => char_dev_buffer'[k] = tag[t]
        BY <1>8, <2>3 DEF WriteReturn, NewLength, SoloInv
      <3>2. \A u \in Threads : pc'[u] # "write"
        BY <1>8, <2>3 DEF WriteReturn, Return, SoloInv, TypeOK
      <3>. QED
        BY <2>1, <3>1, <3>2 DEF SoloInv, ReadBack
    <2>. QED
      BY <2>2, <2>3
  <1>9. ASSUME NEW t \in Threads, WriteFault(t) PROVE SoloInv'
    BY <1>9 DEF WriteFault, SoloInv, ReadBack, NoWrite
  <1>10. CASE UNCHANGED vars
    BY <1>10 DEF vars, callVars, SoloInv, ReadBack, NoWrite
  <1>. QED
    BY <1>1, <1>2, <1>3, <1>4, <1>5, <1>6, <1>7, <1>8, <1>9, <1>10 DEF Next

(* A write no other call interfered with determines the length and every   *)
(* byte the following reads get, until the next write or clear.            *)
THEOREM ReadBackAlways == Spec => []ReadBack
  <1>1. SoloInv => ReadBack
    BY DEF SoloInv
  <1>. QED
    BY <1>1, InitType, NextType, InitStored, NextStored, InitSolo, NextSolo, PTL DEF Spec
-----------------------------------------------------------------------------
(* The exclusive device.                                                   *)

(* A call is on an open file from its start to its return.                 *)
CallInv ==
    /\ OpenInv
    /\ \A t \in Threads : IF pc[t] = "user" THEN file[t] = None ELSE file[t] \in opened

(* The steps inside a call and the clear leave the files alone.            *)
LEMMA InsideCall ==
    ASSUME NEW t \in Threads,
           ReadByte(t) \/ WriteByte(t) \/ \E f \in Files : chr_ioctl(t, f)
    PROVE  UNCHANGED <<opened, open_use, pc, file>>
  BY DEF ReadByte, WriteByte, Advance, chr_ioctl, callVars

LEMMA EnterCall ==
    ASSUME TypeOK, CallInv, NEW t \in Threads, NEW f \in Files, NEW n \in Sizes,
           chr_read(t, f, n) \/ \E c \in Tags : chr_write(t, f, n, c)
    PROVE  CallInv' /\ Device!Enter(t, f)
  <1>1. PICK where \in {"read", "write"} :
           /\ pc[t] = "user" /\ f \in opened
           /\ pc' = [pc EXCEPT ![t] = where] /\ file' = [file EXCEPT ![t] = f]
           /\ UNCHANGED <<open_use, opened>>
    BY DEF chr_read, chr_write, Enter
  <1>. QED
    BY <1>1 DEF CallInv, OpenInv, TypeOK, Device!Enter

LEMMA LeaveCall ==
    ASSUME TypeOK, CallInv, NEW t \in Threads,
           ReadReturn(t) \/ WriteReturn(t) \/ WriteFault(t)
    PROVE  CallInv' /\ Device!Return(t)
  <1>1. /\ pc[t] # "user" /\ pc' = [pc EXCEPT ![t] = "user"]
        /\ file' = [file EXCEPT ![t] = None] /\ UNCHANGED <<open_use, opened>>
    BY DEF ReadReturn, WriteReturn, WriteFault, Return
  <1>. QED
    BY <1>1 DEF CallInv, OpenInv, TypeOK, Device!Return

LEMMA CallStep ==
    TypeOK /\ CallInv /\ [Next]_vars => CallInv' /\ [Device!Next]_(Device!vars)
  <1> SUFFICES ASSUME TypeOK, CallInv, [Next]_vars
               PROVE  CallInv' /\ (Device!Next \/ UNCHANGED <<opened, file>>)
    BY DEF Device!vars
  <1>0. None \notin Files
    BY CharDevAssumption
  <1>1. ASSUME NEW f \in Files, chr_open(f) PROVE CallInv' /\ Device!Open(f)
    BY <1>1 DEF chr_open, callVars, CallInv, OpenInv, Device!Open
  <1>2. ASSUME NEW f \in Files, chr_close(f) PROVE CallInv' /\ Device!Release(f)
    BY <1>0, <1>2 DEF chr_close, callVars, CallInv, OpenInv, Device!Release
  <1>3. ASSUME UNCHANGED <<opened, open_use, pc, file>>
        PROVE  CallInv' /\ UNCHANGED <<opened, file>>
    BY <1>3 DEF CallInv, OpenInv
  <1>4. CASE UNCHANGED vars
    BY <1>3, <1>4 DEF vars, callVars
  <1>. QED
    BY <1>1, <1>2, <1>3, <1>4, InsideCall, EnterCall, LeaveCall DEF Next, Device!Next

(* The string device implements the exclusive device, for any number of    *)
(* files and threads: open_use lets no second file in, calls happen inside *)
(* an open file and none survives its close.                               *)
THEOREM ImplementsDeviceAlways == Spec => ImplementsDevice
  <1>1. Init => CallInv /\ Device!Init
    BY DEF Init, CallInv, OpenInv, Device!Init
  <1>. QED
    BY <1>1, InitType, NextType, CallStep, PTL
       DEF Spec, ImplementsDevice, Device!Spec
=============================================================================
