-------------------------------- MODULE Nand --------------------------------
(***************************************************************************)
(* The bare-metal NAND driver no-os/nand/nand.c and its chip, a K9K8G08U0E.*)
(* The chip works on its own after a command and shows with its R/nB line  *)
(* when it is done; the driver looks at that line in nand_wait_idle.       *)
(* A program only clears bits, and the driver has no erase.                *)
(*                                                                         *)
(* A byte is the set of its bits that are 1.  The bytes of one page move   *)
(* in one step: nothing but the chip runs beside the driver, and the chip  *)
(* is ready meanwhile.  The line is taken to fall before it is first       *)
(* looked at (tWB).                                                        *)
(***************************************************************************)
EXTENDS Naturals

CONSTANTS
    NAND_PAGE_SIZE,  \* bytes of a page (2048)
    Pages,           \* pages of the chip (2^19)
    RowBase,         \* values of one address cycle (256)
    Bits,            \* the bits of a byte
    Buffer,          \* the bytes of the caller's buffer (4096)
    Contents,        \* what the chip holds at power-on
    Calls,           \* the start_addr and size callers pass
    Fills,           \* what callers store into their buffer
    MaxCalls,        \* bound: calls
    MaxFails         \* bound: programs that fail

Row == 0 .. Pages - 1
Col == 0 .. NAND_PAGE_SIZE - 1
Byte == SUBSET Bits
NoCall == [start |-> 0, size |-> 0]

(* Callers stay inside the chip and inside their buffer.                   *)
ASSUME NandAssumption ==
    /\ {NAND_PAGE_SIZE, Pages, RowBase} \subseteq Nat \ {0}
    /\ Pages <= RowBase * RowBase * RowBase
    /\ {MaxCalls, MaxFails} \subseteq Nat
    /\ Buffer \in Nat
    /\ Contents \in [Row -> [Col -> Byte]]
    /\ \A c \in Calls : /\ c.start \in Nat /\ c.size \in 0 .. Buffer
                        /\ c.start + c.size <= Pages * NAND_PAGE_SIZE
    /\ Fills \subseteq [0 .. Buffer - 1 -> Byte]

VARIABLES
    ce,                \* chip enable, in NFCONT
    mode, row, reg,    \* the chip: what it does, its row address, its page register
    busy, failed,      \* R/nB is low; the status bit of the last program
    cells,             \* the pages
    pc, op, call,      \* where the driver is, in which function, with which arguments
    addr, bp,          \* its loop variable, and its place in the caller's buffer
    buffer,            \* the caller's buffer
    id,                \* what nand_readID stored
    errors,            \* "Error in Program" messages
    calls,
    want,              \* history: the pages as the calls so far ask for
    got,               \* history: the read whose pages are in the buffer
    torn,              \* history: pages whose program failed
    fails

chipVars == <<mode, row, reg, busy, failed, cells>>
driverVars == <<ce, pc, op, call, addr, bp>>
callerVars == <<buffer, id, errors, calls>>
histVars == <<want, got, torn, fails>>
vars == <<chipVars, driverVars, callerVars, histVars>>

(* The type of every variable.                                             *)
TypeOK ==
    /\ ce \in BOOLEAN
    /\ mode \in {"any", "ready", "id", "load", "output", "program", "status"}
    /\ row \in Row
    /\ reg \in [Col -> Byte]
    /\ busy \in BOOLEAN /\ failed \in BOOLEAN
    /\ cells \in [Row -> [Col -> Byte]]
    /\ pc \in {"init", "page", "wait", "data", "idle"}
    /\ op \in {"reset", "read", "write"}
    /\ call \in Calls \cup {NoCall} /\ got \in Calls \cup {NoCall}
    /\ addr \in 0 .. Pages * NAND_PAGE_SIZE
    /\ bp \in 0 .. Buffer
    /\ buffer \in [0 .. Buffer - 1 -> Byte]
    /\ id \in {"none", "id", "wrong"}
    /\ errors \in 0 .. MaxFails
    /\ calls \in 0 .. MaxCalls
    /\ want \in [Row -> [Col -> Byte]]
    /\ torn \subseteq Row
    /\ fails \in 0 .. MaxFails

(* Start of nand_init; the boot ROM may have left the chip at work.        *)
Init ==
    /\ ce \in BOOLEAN
    /\ mode = "any" /\ row = 0 /\ reg = [k \in Col |-> Bits]
    /\ busy \in BOOLEAN /\ failed = FALSE
    /\ cells = Contents
    /\ pc = "init" /\ op = "reset" /\ call = NoCall
    /\ addr = 0 /\ bp = 0
    /\ buffer = [k \in 0 .. Buffer - 1 |-> {}]
    /\ id = "none" /\ errors = 0 /\ calls = 0
    /\ want = Contents /\ got = NoCall /\ torn = {} /\ fails = 0
-----------------------------------------------------------------------------
(* The chip.                                                               *)

(* The row of three address cycles; the bits above the chip's are ignored. *)
RowOf(a) == (a[1] + RowBase * a[2] + RowBase * RowBase * a[3]) % Pages

(* A command is taken by a selected chip that is not busy.  A busy chip    *)
(* takes nothing but a reset and Read Status (readme.md:98), and a status  *)
(* leaves the work it is at alone.                                         *)
Command(m, r, data) ==
    IF ce /\ ~busy
    THEN mode' = m /\ row' = r /\ reg' = data /\ busy' = (m \in {"load", "program"})
    ELSE UNCHANGED <<mode, row, reg, busy>>

ChipLoaded ==
    /\ busy /\ mode = "load"
    /\ reg' = cells[row] /\ mode' = "output" /\ busy' = FALSE
    /\ UNCHANGED <<row, failed, cells, driverVars, callerVars, histVars>>

Programmed == [k \in Col |-> cells[row][k] \cap reg[k]]

ChipProgrammed ==
    /\ busy /\ mode = "program"
    /\ cells' = [cells EXCEPT ![row] = Programmed]
    /\ failed' = FALSE /\ mode' = "ready" /\ busy' = FALSE
    /\ UNCHANGED <<row, reg, driverVars, callerVars, histVars>>

(* The program fails: some bits are cleared, or none.                      *)
ChipProgramFails ==
    /\ busy /\ mode = "program" /\ fails < MaxFails
    /\ \E page \in {cells[row], Programmed} : cells' = [cells EXCEPT ![row] = page]
    /\ failed' = TRUE /\ mode' = "ready" /\ busy' = FALSE
    /\ torn' = torn \cup {row} /\ fails' = fails + 1
    /\ UNCHANGED <<row, reg, driverVars, callerVars, want, got>>

(* A reset, or the work of the boot ROM, is over.                          *)
ChipReady ==
    /\ busy /\ mode \in {"any", "ready"}
    /\ busy' = FALSE
    /\ UNCHANGED <<mode, row, reg, failed, cells, driverVars, callerVars, histVars>>

Chip == ChipLoaded \/ ChipProgrammed \/ ChipProgramFails \/ ChipReady
-----------------------------------------------------------------------------
(* The chip takes a reset even when it is busy.                            *)
nand_reset == ce' = TRUE /\ mode' = "ready" /\ busy' = TRUE

(* The controller is set up, then the chip reset.                          *)
nand_init ==
    /\ pc = "init"
    /\ nand_reset
    /\ pc' = "wait"
    /\ UNCHANGED <<row, reg, failed, cells, op, call, addr, bp, callerVars, histVars>>

Idle_Inverted == busy

(* NFSTAT_REG & NFSTAT_BUSY: the bit is 1 when the chip is ready.          *)
Idle == ~busy

nand_wait_idle ==
    /\ pc = "wait" /\ Idle
    /\ pc' = IF op = "reset" THEN "idle" ELSE "data"
    /\ ce' = (op # "reset")
    /\ UNCHANGED <<chipVars, op, call, addr, bp, callerVars, histVars>>

nand_write_address_TwoCycles(address) ==
    LET page == address \div NAND_PAGE_SIZE
    IN <<page % RowBase, (page \div RowBase) % RowBase, 0>>

(* page_address = address >> 11, in three cycles of a byte.                *)
nand_write_address(address) ==
    LET page == address \div NAND_PAGE_SIZE
    IN <<page % RowBase,
         (page \div RowBase) % RowBase,
         (page \div (RowBase * RowBase)) % RowBase>>

(* The part of the buffer at the pointer.                                  *)
PageOf(buf, at) == [k \in Col |-> buf[at + k]]

Aligned(c) == c.start % NAND_PAGE_SIZE = 0 /\ c.size % NAND_PAGE_SIZE = 0

(* The pages of a call, as the caller means them.                          *)
Named(c) == {r \in Row : /\ c.start <= r * NAND_PAGE_SIZE
                         /\ r * NAND_PAGE_SIZE < c.start + c.size}

(* A call that is not aligned returns at once.                             *)
CallPages(o, c) ==
    /\ pc = "idle" /\ calls < MaxCalls
    /\ calls' = calls + 1
    /\ IF Aligned(c)
       THEN /\ op' = o /\ call' = c
            /\ ce' = TRUE /\ addr' = c.start /\ bp' = 0
            /\ pc' = "page"
            /\ got' = NoCall
       ELSE UNCHANGED <<driverVars, got>>
    /\ want' = [r \in Row |->
                  IF o = "write" /\ Aligned(c) /\ r \in Named(c)
                  THEN [k \in Col |-> want[r][k]
                                      \cap buffer[r * NAND_PAGE_SIZE - c.start + k]]
                  ELSE want[r]]
    /\ UNCHANGED <<chipVars, buffer, id, errors, torn, fails>>

More_OneTooMany == addr <= call.start + call.size

(* addr < start_addr + size                                                *)
More == addr < call.start + call.size

Advance_Kept(at) == at

(* buffer++ for every byte of the page.                                    *)
Advance(at) == at + NAND_PAGE_SIZE

(* The commands 00h, address, 30h.                                         *)
ReadCommand ==
    /\ pc = "page" /\ op = "read" /\ More
    /\ Command("load", RowOf(nand_write_address(addr)), reg)
    /\ pc' = "wait"
    /\ UNCHANGED <<ce, op, call, addr, bp, failed, cells, callerVars, histVars>>

(* The commands 80h, address, the data of one page, 10h.                   *)
WriteCommand ==
    /\ pc = "page" /\ op = "write" /\ More
    /\ Command("program", RowOf(nand_write_address(addr)), PageOf(buffer, bp))
    /\ bp' = Advance(bp)
    /\ pc' = "wait"
    /\ UNCHANGED <<ce, op, call, addr, failed, cells, callerVars, histVars>>

(* What the data register gives when no page waits there is anything, here *)
(* zeros.                                                                  *)
Output == IF ce /\ ~busy /\ mode = "output" THEN reg ELSE [k \in Col |-> {}]

ReadData ==
    /\ pc = "data" /\ op = "read"
    /\ buffer' = [k \in 0 .. Buffer - 1 |->
                    IF k \in bp .. bp + NAND_PAGE_SIZE - 1 THEN Output[k - bp] ELSE buffer[k]]
    /\ bp' = Advance(bp)
    /\ addr' = addr + NAND_PAGE_SIZE
    /\ pc' = "page"
    /\ UNCHANGED <<chipVars, ce, op, call, id, errors, calls, histVars>>

Reports_Inverted == ~failed

(* data & 0x1: the message is all that a failure leads to.                 *)
Reports == failed

ReadStatus ==
    /\ pc = "data" /\ op = "write"
    /\ Command("status", row, reg)
    /\ errors' = IF Reports THEN errors + 1 ELSE errors
    /\ addr' = addr + NAND_PAGE_SIZE
    /\ pc' = "page"
    /\ UNCHANGED <<failed, cells, ce, op, call, bp, buffer, id, calls, histVars>>

PagesDone ==
    /\ pc = "page" /\ ~More
    /\ ce' = FALSE /\ pc' = "idle"
    /\ got' = IF op = "read" THEN call ELSE got
    /\ UNCHANGED <<chipVars, op, call, addr, bp, callerVars, want, torn, fails>>

(* nand_readID does not wait, and leaves the chip selected.                *)
nand_readID ==
    /\ pc = "idle" /\ calls < MaxCalls
    /\ calls' = calls + 1
    /\ ce' = TRUE
    /\ mode' = IF busy THEN mode ELSE "id"
    /\ id' = IF busy THEN "wrong" ELSE "id"
    /\ UNCHANGED <<row, reg, busy, failed, cells, pc, op, call, addr, bp, buffer,
                   errors, histVars>>

(* The caller stores into its buffer.                                      *)
Fill(f) ==
    /\ pc = "idle"
    /\ buffer' = f /\ got' = NoCall
    /\ UNCHANGED <<chipVars, driverVars, id, errors, calls, want, torn, fails>>

(* The loop at the end of main, which leaves the chip alone.               *)
MainLoop == pc = "idle" /\ UNCHANGED vars

nand_read_page == (\E c \in Calls : CallPages("read", c)) \/ ReadCommand \/ ReadData
nand_write_page == (\E c \in Calls : CallPages("write", c)) \/ WriteCommand \/ ReadStatus
-----------------------------------------------------------------------------
Next == \/ Chip \/ nand_init \/ nand_wait_idle \/ nand_readID
        \/ nand_read_page \/ nand_write_page \/ PagesDone
        \/ (\E f \in Fills : Fill(f)) \/ MainLoop

Spec == Init /\ [][Next]_vars

(* The chip ends what it began, and the processor runs.                    *)
Fairness == /\ WF_vars(Chip)
            /\ WF_vars(nand_init \/ nand_wait_idle \/ ReadCommand \/ ReadData
                       \/ WriteCommand \/ ReadStatus \/ PagesDone)

LiveSpec == Spec /\ Fairness
-----------------------------------------------------------------------------
(* Between calls every page holds what the writes so far, each aimed at    *)
(* its own pages, leave of its contents: the page loop, the address cycles *)
(* and the buffer pointer agree, no other page is touched, and a failed    *)
(* program stops none of the pages that follow.                            *)
PagesHold == pc = "idle" => \A r \in Row \ torn : cells[r] = want[r]

(* A read that returned has put every page it named into its place of the  *)
(* buffer, whatever the chip was doing before: it never took data from a   *)
(* chip still at work, the ID or the status.                               *)
ReadIsRight ==
    pc = "idle" =>
        \A r \in Named(got) \ torn, k \in Col :
            buffer[r * NAND_PAGE_SIZE - got.start + k] = want[r][k]

(* Every program that failed, and no other, gave its message.              *)
FailuresReported == pc \in {"idle", "page"} => errors = fails

(* The driver talks to the chip only when it is ready: a command then is   *)
(* never lost, and the ID is the ID.                                       *)
ReadyWhenAddressed == (pc \in {"page", "data", "idle"} => ~busy) /\ id # "wrong"

(* Every call comes back.                                                  *)
CallReturns == pc # "idle" ~> pc = "idle"
=============================================================================
