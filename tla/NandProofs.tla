----------------------------- MODULE NandProofs -----------------------------
(***************************************************************************)
(* The safety of Nand for every page size, number of pages, width of an    *)
(* address cycle, buffer, contents, sequence of calls and failing program. *)
(***************************************************************************)
EXTENDS Nand, TLAPS

PS == NAND_PAGE_SIZE

(* The driver is in the page loop of nand_read_page or nand_write_page.    *)
InLoop == pc \in {"page", "wait", "data"} /\ op # "reset"

(* The chip has finished what the driver told it for the page at addr.     *)
PageDone == pc = "data" \/ (pc = "wait" /\ ~busy)

(* Where the driver is and what the chip does meanwhile.                   *)
ControlInv ==
    /\ pc \in {"page", "wait", "data"} => ce
    /\ pc \in {"page", "data", "idle"} => ~busy
    /\ pc \in {"page", "data"} => op # "reset"
    /\ pc = "init" => op = "reset" /\ mode = "any"
    /\ pc = "wait" /\ op = "reset" => mode = "ready"
    /\ pc = "wait" /\ op = "read" => mode = IF busy THEN "load" ELSE "output"
    /\ pc = "wait" /\ op = "write" => mode = IF busy THEN "program" ELSE "ready"
    /\ pc = "data" /\ op = "read" => mode = "output"
    /\ id # "wrong"

(* One failure may wait to be reported: that of the program just done.     *)
ReportInv ==
    fails = errors + (IF op = "write" /\ PageDone /\ failed THEN 1 ELSE 0)

(* The loop: addr is the start of a page of the call, the pointer is as    *)
(* far in the buffer as addr is in the call, and a page further once a     *)
(* write has sent the page; the chip has the row of addr.                  *)
LoopInv ==
    /\ pc # "idle" => got = NoCall
    /\ InLoop =>
          /\ call \in Calls /\ Aligned(call)
          /\ addr % PS = 0 /\ call.start <= addr /\ addr <= call.start + call.size
          /\ pc # "page" => addr < call.start + call.size /\ row = addr \div PS
          /\ bp + call.start = addr + (IF op = "write" /\ pc # "page" THEN PS ELSE 0)

(* A write has still to program page r, and what the page then holds.      *)
Pending(r) ==
    /\ InLoop /\ op = "write" /\ r \in Named(call)
    /\ addr < r * PS \/ (addr = r * PS /\ ~PageDone)
Final(r) == [k \in Col |-> cells[r][k] \cap buffer[r * PS - call.start + k]]

(* Every page holds, or will hold at the end of the call, what was asked   *)
(* for.                                                                    *)
CellsInv ==
    \A r \in Row \ torn : want[r] = IF Pending(r) THEN Final(r) ELSE cells[r]

(* The pages of a read behind addr are in their places of the buffer.      *)
ReadInv ==
    InLoop /\ op = "read" =>
        \A r \in Named(call) \ torn, k \in Col :
            r * PS < addr => buffer[r * PS - call.start + k] = want[r][k]

(* What the page register holds after a load and during a program.         *)
RegisterInv ==
    /\ op = "read" /\ PageDone => reg = cells[row]
    /\ op = "write" /\ pc = "wait" /\ busy => reg = PageOf(buffer, addr - call.start)

DataInv == CellsInv /\ ReadInv /\ RegisterInv /\ ReadIsRight
-----------------------------------------------------------------------------
(* Arithmetic of pages                                                     *)

LEMMA MulLess ==
  ASSUME NEW a \in Nat, NEW b \in Nat, NEW p \in Nat \ {0}
  PROVE  (a * p < b * p) <=> a < b
  OBVIOUS

LEMMA MulNext ==
  ASSUME NEW a \in Nat, NEW p \in Nat \ {0}
  PROVE  (a + 1) * p = a * p + p /\ a * p \in Nat
  OBVIOUS

LEMMA DivMod ==
  ASSUME NEW a \in Nat, NEW p \in Nat \ {0}
  PROVE  a = (a \div p) * p + (a % p) /\ a % p \in 0 .. p - 1 /\ a \div p \in Nat
  OBVIOUS

LEMMA DivUnique ==
  ASSUME NEW a \in Nat, NEW p \in Nat \ {0}, NEW q \in Nat, NEW r \in 0 .. p - 1,
         a = q * p + r
  PROVE  a \div p = q /\ a % p = r
  OBVIOUS

(* Three digits to the base b name every number below its cube.            *)
LEMMA Digits ==
  ASSUME NEW x \in Nat, NEW b \in Nat \ {0}, x < b * b * b
  PROVE  (x % b) + b * ((x \div b) % b) + b * b * ((x \div (b * b)) % b) = x
<1> DEFINE q1 == x \div b
           r1 == x % b
           q2 == q1 \div b
           r2 == q1 % b
<1>1. q1 \in Nat /\ r1 \in 0 .. b - 1 /\ x = q1 * b + r1
  BY DivMod
<1>2. q2 \in Nat /\ r2 \in 0 .. b - 1 /\ q1 = q2 * b + r2
  BY <1>1, DivMod
<1> HIDE DEF q1, r1, q2, r2
<1>3. b * b \in Nat \ {0}
  OBVIOUS
<1>4. r2 * b + r1 \in 0 .. b * b - 1
  <2>1. r2 + 1 <= b
    BY <1>2
  <2>2. (r2 + 1) * b <= b * b
    BY <1>2, <2>1
  <2> QED BY <1>1, <1>2, <2>2
<1>5. x = q2 * (b * b) + (r2 * b + r1)
  BY <1>1, <1>2
<1>6. x \div (b * b) = q2
  BY <1>2, <1>3, <1>4, <1>5, DivUnique
<1>7. q2 < b
  <2>1. q2 * (b * b) <= x
    BY <1>2, <1>3, <1>4, <1>5
  <2>2. q2 * (b * b) < b * (b * b)
    BY <1>2, <1>3, <2>1
  <2> QED BY <1>2, <1>3, <2>2, MulLess
<1>8. q2 % b = q2
  <2>1. q2 = 0 * b + q2
    BY <1>2
  <2> QED BY <1>2, <1>7, <2>1, DivUnique
<1>9. r1 + b * r2 + b * b * q2 = x
  BY <1>1, <1>2, <1>5
<1> QED BY <1>6, <1>8, <1>9 DEF q1, r1, q2, r2

LEMMA Sizes ==
  /\ PS \in Nat \ {0} /\ Pages \in Nat \ {0} /\ RowBase \in Nat \ {0}
  /\ Pages * PS \in Nat /\ Buffer \in Nat /\ MaxFails \in Nat /\ MaxCalls \in Nat
  /\ Pages <= RowBase * RowBase * RowBase
  BY NandAssumption DEF PS

(* The address cycles reach the page an address inside the chip is in.     *)
LEMMA AddressReaches ==
  ASSUME NEW a \in Nat, a < Pages * PS
  PROVE  a \div PS \in Row /\ RowOf(nand_write_address(a)) = a \div PS
<1> DEFINE x == a \div PS
<1>1. x \in Nat /\ x * PS <= a
  BY Sizes, DivMod
<1> HIDE DEF x
<1>2. x < Pages
  <2>1. x * PS < Pages * PS
    BY <1>1, Sizes
  <2> QED BY <1>1, <2>1, Sizes, MulLess
<1>3. x < RowBase * RowBase * RowBase
  BY <1>1, <1>2, Sizes
<1>4. (x % RowBase) + RowBase * ((x \div RowBase) % RowBase)
        + RowBase * RowBase * ((x \div (RowBase * RowBase)) % RowBase) = x
  BY <1>1, <1>3, Sizes, Digits
<1>5. RowOf(nand_write_address(a)) = x % Pages
  BY <1>4 DEF RowOf, nand_write_address, x, PS
<1>6. x % Pages = x
  <2>1. x = 0 * Pages + x
    BY <1>1, Sizes
  <2> QED BY <1>1, <1>2, <2>1, Sizes, DivUnique
<1>7. x \in Row
  BY <1>1, <1>2, Sizes DEF Row
<1> QED BY <1>5, <1>6, <1>7 DEF x

(* An aligned address is its page number times the page size.              *)
LEMMA Multiple ==
  ASSUME NEW a \in Nat, a % PS = 0
  PROVE  a \div PS \in Nat /\ a = (a \div PS) * PS
<1>1. a = (a \div PS) * PS + 0 /\ a \div PS \in Nat
  BY Sizes, DivMod
<1> QED BY <1>1, Sizes

(* Multiples of the page size are a page apart.                            *)
LEMMA PagesApart ==
  ASSUME NEW r \in Nat, NEW a \in Nat, a % PS = 0
  PROVE  /\ r * PS \in Nat
         /\ r * PS < a => r * PS + PS <= a
         /\ a < r * PS => a + PS <= r * PS
         /\ a = r * PS <=> r = a \div PS
<1> DEFINE q == a \div PS
<1>1. q \in Nat /\ a = q * PS
  BY Multiple
<1> HIDE DEF q
<1>2. r * PS \in Nat /\ (r + 1) * PS = r * PS + PS /\ (q + 1) * PS = q * PS + PS
  BY <1>1, Sizes, MulNext
<1>3. r * PS < q * PS => r * PS + PS <= q * PS
  <2>1. r < q => r + 1 = q \/ r + 1 < q
    BY <1>1
  <2> QED BY <1>1, <1>2, <2>1, Sizes, MulLess
<1>4. q * PS < r * PS => q * PS + PS <= r * PS
  <2>1. q < r => q + 1 = r \/ q + 1 < r
    BY <1>1
  <2> QED BY <1>1, <1>2, <2>1, Sizes, MulLess
<1>5. q * PS = r * PS <=> r = q
  <2>1. r < q \/ q < r \/ r = q
    BY <1>1
  <2> QED BY <1>1, <1>2, <2>1, Sizes, MulLess
<1> QED BY <1>1, <1>2, <1>3, <1>4, <1>5 DEF q

(* A sum of multiples is one.                                              *)
LEMMA SumAligned ==
  ASSUME NEW a \in Nat, NEW b \in Nat, a % PS = 0, b % PS = 0
  PROVE  (a + b) % PS = 0
<1> DEFINE q == a \div PS
           t == b \div PS
<1>1. q \in Nat /\ a = q * PS /\ t \in Nat /\ b = t * PS
  BY Multiple
<1> HIDE DEF q, t
<1>2. a + b = (q + t) * PS + 0 /\ q + t \in Nat /\ a + b \in Nat /\ 0 \in 0 .. PS - 1
  BY <1>1, Sizes
<1> QED BY <1>2, Sizes, DivUnique

LEMMA PageAligned == PS % PS = 0
<1>1. PS = 1 * PS + 0 /\ 0 \in 0 .. PS - 1
  BY Sizes
<1> QED BY <1>1, Sizes, DivUnique

(* The pages of an aligned call lie inside the chip and their bytes inside *)
(* the buffer.                                                             *)
LEMMA CallFits ==
  ASSUME NEW c \in Calls, Aligned(c)
  PROVE  /\ c.start \in Nat /\ c.size \in Nat /\ c.size <= Buffer
         /\ c.start % PS = 0 /\ (c.start + c.size) % PS = 0
         /\ c.start + c.size <= Pages * PS
         /\ \A r \in Named(c) : r * PS \in Nat /\ c.start <= r * PS
                                /\ r * PS + PS <= c.start + c.size
         /\ \A r \in Named(c), k \in Col : r * PS - c.start + k \in 0 .. Buffer - 1
<1>1. /\ c.start \in Nat /\ c.size \in Nat /\ c.size <= Buffer
      /\ c.start + c.size <= Pages * PS
  BY NandAssumption DEF PS
<1>2. c.start % PS = 0 /\ c.size % PS = 0
  BY DEF Aligned, PS
<1>3. (c.start + c.size) % PS = 0
  BY <1>1, <1>2, SumAligned
<1>4. ASSUME NEW r \in Named(c)
      PROVE  r * PS \in Nat /\ c.start <= r * PS /\ r * PS + PS <= c.start + c.size
  <2>1. r \in Nat /\ c.start <= r * PS /\ r * PS < c.start + c.size
    BY <1>4, Sizes DEF Named, Row, PS
  <2> QED BY <1>1, <1>3, <2>1, PagesApart
<1>5. ASSUME NEW r \in Named(c), NEW k \in Col PROVE r * PS - c.start + k \in 0 .. Buffer - 1
  <2>1. k \in Nat /\ k < PS
    BY Sizes DEF Col, PS
  <2> QED BY <1>1, <1>4, <2>1, Sizes
<1> QED BY <1>1, <1>2, <1>3, <1>4, <1>5
-----------------------------------------------------------------------------
(* The control of the driver                                               *)

NInv == TypeOK /\ ControlInv /\ ReportInv /\ LoopInv

(* At the end of a loop body there was a whole page of the call, of the    *)
(* chip and of the buffer left.                                            *)
LEMMA LoopFacts ==
  ASSUME TypeOK, LoopInv, InLoop
  PROVE  /\ call \in Calls /\ Aligned(call) /\ call.start \in Nat /\ call.size \in Nat
         /\ addr \in Nat /\ bp \in Nat
         /\ (call.start + call.size) % PS = 0 /\ (addr + PS) % PS = 0
         /\ addr < call.start + call.size =>
               /\ addr + PS <= call.start + call.size
               /\ addr + PS - call.start <= Buffer
               /\ addr + PS <= Pages * PS
               /\ addr \div PS \in Row
               /\ RowOf(nand_write_address(addr)) = addr \div PS
<1>1. /\ call \in Calls /\ Aligned(call) /\ addr \in Nat /\ bp \in Nat
      /\ addr % PS = 0 /\ call.start <= addr
  BY Sizes DEF TypeOK, LoopInv, PS
<1>2. /\ call.start \in Nat /\ call.size \in Nat /\ call.size <= Buffer
      /\ (call.start + call.size) % PS = 0
      /\ call.start + call.size <= Pages * PS
  BY <1>1, CallFits
<1>3. (addr + PS) % PS = 0
  BY <1>1, PageAligned, SumAligned, Sizes
<1>4. ASSUME addr < call.start + call.size
      PROVE  addr + PS <= call.start + call.size
  <2> DEFINE e == (call.start + call.size) \div PS
  <2>1. e \in Nat /\ call.start + call.size = e * PS
    <3>1. call.start + call.size \in Nat
      BY <1>2
    <3> QED BY <1>2, <3>1, Multiple
  <2> HIDE DEF e
  <2> QED BY <1>1, <1>4, <2>1, PagesApart
<1>5. ASSUME addr < call.start + call.size
      PROVE  addr < Pages * PS
  BY <1>1, <1>2, <1>5, Sizes
<1>6. ASSUME addr < call.start + call.size
      PROVE  addr \div PS \in Row /\ RowOf(nand_write_address(addr)) = addr \div PS
  BY <1>1, <1>5, <1>6, AddressReaches
<1>7. ASSUME addr < call.start + call.size
      PROVE  addr + PS - call.start <= Buffer /\ addr + PS <= Pages * PS
  BY <1>1, <1>2, <1>4, <1>7, Sizes
<1> QED BY <1>1, <1>2, <1>3, <1>4, <1>6, <1>7

(* The chip takes the commands of the driver.                              *)
LEMMA CommandTaken ==
  ASSUME ControlInv, pc \in {"page", "data"},
         NEW m, NEW r, NEW d, Command(m, r, d)
  PROVE  mode' = m /\ row' = r /\ reg' = d /\ busy' = (m \in {"load", "program"})
  BY DEF ControlInv, Command

LEMMA NInvInit ==
  ASSUME Init
  PROVE  NInv
<1>1. 0 \in Row /\ 0 \in 0 .. Pages * NAND_PAGE_SIZE /\ 0 \in 0 .. Buffer
      /\ 0 \in 0 .. MaxFails /\ 0 \in 0 .. MaxCalls
  BY Sizes DEF Row, PS
<1>2. Contents \in [Row -> [Col -> Byte]] /\ [k \in Col |-> Bits] \in [Col -> Byte]
      /\ [k \in 0 .. Buffer - 1 |-> {}] \in [0 .. Buffer - 1 -> Byte]
  BY NandAssumption DEF Byte
<1>3. TypeOK
  BY <1>1, <1>2 DEF Init, TypeOK
<1>4. ControlInv /\ ReportInv /\ LoopInv
  BY DEF Init, ControlInv, ReportInv, LoopInv, InLoop, PageDone
<1> QED BY <1>3, <1>4 DEF NInv

LEMMA ChipNInv ==
  ASSUME NInv, Chip
  PROVE  NInv'
<1> USE DEF NInv, driverVars, callerVars, histVars
<1>0. busy \in BOOLEAN /\ fails \in Nat /\ errors \in Nat /\ MaxFails \in Nat
      /\ cells \in [Row -> [Col -> Byte]] /\ reg \in [Col -> Byte] /\ row \in Row
      /\ Programmed \in [Col -> Byte]
  BY Sizes DEF TypeOK, Programmed, Byte
<1>1. CASE ChipLoaded
  <2>0. pc = "wait" /\ op = "read" /\ busy = TRUE
    BY <1>1, <1>0 DEF ChipLoaded, ControlInv, TypeOK
  <2>1. TypeOK'
    BY <1>0, <1>1 DEF ChipLoaded, TypeOK
  <2>2. ControlInv'
    BY <2>0, <1>1 DEF ChipLoaded, ControlInv
  <2>3. ReportInv'
    BY <2>0, <1>1 DEF ChipLoaded, ReportInv, PageDone
  <2>4. LoopInv'
    BY <1>1 DEF ChipLoaded, LoopInv, InLoop
  <2> QED BY <2>1, <2>2, <2>3, <2>4
<1>2. CASE ChipProgrammed
  <2>0. pc = "wait" /\ op = "write" /\ busy = TRUE
    BY <1>2, <1>0 DEF ChipProgrammed, ControlInv, TypeOK
  <2>1. TypeOK'
    BY <1>0, <1>2 DEF ChipProgrammed, TypeOK
  <2>2. ControlInv'
    BY <2>0, <1>2 DEF ChipProgrammed, ControlInv
  <2>3. ReportInv'
    BY <2>0, <1>2 DEF ChipProgrammed, ReportInv, PageDone
  <2>4. LoopInv'
    BY <1>2 DEF ChipProgrammed, LoopInv, InLoop
  <2> QED BY <2>1, <2>2, <2>3, <2>4
<1>3. CASE ChipProgramFails
  <2>0. pc = "wait" /\ op = "write" /\ busy = TRUE
    BY <1>3, <1>0 DEF ChipProgramFails, ControlInv, TypeOK
  <2>1. TypeOK'
    <3>1. cells' \in [Row -> [Col -> Byte]]
      BY <1>0, <1>3 DEF ChipProgramFails
    <3>2. torn' \subseteq Row /\ fails' \in 0 .. MaxFails
      BY <1>0, <1>3 DEF ChipProgramFails, TypeOK
    <3> QED BY <3>1, <3>2, <1>3 DEF ChipProgramFails, TypeOK
  <2>2. ControlInv'
    BY <2>0, <1>3 DEF ChipProgramFails, ControlInv
  <2>3. ReportInv'
    BY <1>0, <2>0, <1>3 DEF ChipProgramFails, ReportInv, PageDone
  <2>4. LoopInv'
    BY <1>3 DEF ChipProgramFails, LoopInv, InLoop
  <2> QED BY <2>1, <2>2, <2>3, <2>4
<1>4. CASE ChipReady
  <2>0. (pc = "init" \/ pc = "wait") /\ op = "reset"
    BY <1>4, <1>0 DEF ChipReady, ControlInv, TypeOK
  <2>1. TypeOK'
    BY <1>0, <1>4 DEF ChipReady, TypeOK
  <2>2. ControlInv'
    BY <2>0, <1>4 DEF ChipReady, ControlInv
  <2>3. ReportInv'
    BY <2>0, <1>4 DEF ChipReady, ReportInv, PageDone
  <2>4. LoopInv'
    BY <1>4 DEF ChipReady, LoopInv, InLoop
  <2> QED BY <2>1, <2>2, <2>3, <2>4
<1> QED BY <1>1, <1>2, <1>3, <1>4 DEF Chip

LEMMA ResetNInv ==
  ASSUME NInv, nand_init \/ nand_wait_idle
  PROVE  NInv'
<1> USE DEF NInv, chipVars, driverVars, callerVars, histVars
<1>0. busy \in BOOLEAN /\ op \in {"reset", "read", "write"}
  BY DEF TypeOK
<1>1. CASE nand_init
  <2>0. pc = "init" /\ op = "reset" /\ op' = "reset"
    BY <1>1 DEF nand_init, nand_reset, ControlInv
  <2>1. TypeOK'
    BY <1>1 DEF nand_init, nand_reset, TypeOK
  <2>2. ControlInv'
    BY <2>0, <1>1 DEF nand_init, nand_reset, ControlInv
  <2>3. ReportInv'
    BY <2>0, <1>1 DEF nand_init, nand_reset, ReportInv, PageDone
  <2>4. LoopInv'
    BY <2>0, <1>1 DEF nand_init, nand_reset, LoopInv, InLoop
  <2> QED BY <2>1, <2>2, <2>3, <2>4
<1>2. CASE nand_wait_idle
  <2>0. pc = "wait" /\ busy = FALSE
    BY <1>0, <1>2 DEF nand_wait_idle, Idle
  <2>1. TypeOK'
    BY <1>2 DEF nand_wait_idle, TypeOK
  <2>2. ControlInv'
    BY <1>0, <2>0, <1>2 DEF nand_wait_idle, ControlInv
  <2>3. ReportInv'
    BY <1>0, <2>0, <1>2 DEF nand_wait_idle, ReportInv, PageDone
  <2>4. LoopInv'
    BY <1>0, <2>0, <1>2 DEF nand_wait_idle, LoopInv, InLoop
  <2> QED BY <2>1, <2>2, <2>3, <2>4
<1> QED BY <1>1, <1>2

LEMMA CallNInv ==
  ASSUME NInv, NEW o \in {"read", "write"}, NEW c \in Calls, CallPages(o, c)
  PROVE  NInv'
<1> USE DEF NInv, chipVars, driverVars
<1>0. /\ pc = "idle" /\ calls' \in 0 .. MaxCalls /\ want' \in [Row -> [Col -> Byte]]
      /\ UNCHANGED <<chipVars, buffer, id, errors, torn, fails>>
  <2>1. pc = "idle" /\ calls' \in 0 .. MaxCalls
        /\ UNCHANGED <<chipVars, buffer, id, errors, torn, fails>>
    BY Sizes DEF CallPages, TypeOK
  <2>2. want' \in [Row -> [Col -> Byte]]
    <3> DEFINE both(r) == [k \in Col |-> want[r][k] \cap buffer[r * NAND_PAGE_SIZE - c.start + k]]
    <3>1. want' = [r \in Row |-> IF o = "write" /\ Aligned(c) /\ r \in Named(c)
                                 THEN both(r) ELSE want[r]]
      BY DEF CallPages
    <3>2. \A r \in Row : want[r] \in [Col -> Byte] /\ both(r) \in [Col -> Byte]
      BY DEF TypeOK, Byte
    <3> HIDE DEF both
    <3> QED BY <3>1, <3>2
  <2> QED BY <2>1, <2>2
<1>1. CASE Aligned(c)
  <2>0. op' = o /\ call' = c /\ ce' = TRUE /\ addr' = c.start /\ bp' = 0 /\ pc' = "page"
        /\ got' = NoCall
    BY <1>1 DEF CallPages
  <2>1. /\ c.start \in Nat /\ c.size \in Nat /\ c.start + c.size <= Pages * PS
        /\ c.start % PS = 0
    BY <1>1, CallFits
  <2>2. c.start \in 0 .. Pages * NAND_PAGE_SIZE /\ 0 \in 0 .. Buffer
    BY <2>1, Sizes DEF PS
  <2>3. TypeOK'
    BY <1>0, <2>0, <2>2 DEF TypeOK
  <2>4. ControlInv'
    BY <1>0, <2>0 DEF ControlInv
  <2>5. ReportInv'
    BY <1>0, <2>0 DEF ReportInv, PageDone
  <2>6. LoopInv'
    BY <1>1, <2>0, <2>1 DEF LoopInv, InLoop
  <2> QED BY <2>3, <2>4, <2>5, <2>6
<1>2. CASE ~Aligned(c)
  <2>0. UNCHANGED <<ce, pc, op, call, addr, bp, got>>
    BY <1>2 DEF CallPages
  <2>1. TypeOK'
    BY <1>0, <2>0 DEF TypeOK
  <2>2. ControlInv' /\ ReportInv' /\ LoopInv'
    BY <1>0, <2>0 DEF ControlInv, ReportInv, LoopInv, PageDone, InLoop
  <2> QED BY <2>1, <2>2
<1> QED BY <1>1, <1>2

LEMMA ReadCommandNInv ==
  ASSUME NInv, ReadCommand
  PROVE  /\ NInv'
         /\ mode' = "load" /\ row' = addr \div PS /\ reg' = reg /\ busy' = TRUE
<1> USE DEF NInv, callerVars, histVars
<1>0. pc = "page" /\ op = "read" /\ addr < call.start + call.size /\ InLoop /\ pc' = "wait"
  BY DEF ReadCommand, More, InLoop
<1>1. mode' = "load" /\ row' = addr \div PS /\ reg' = reg /\ busy' = TRUE /\ addr \div PS \in Row
  BY <1>0, CommandTaken, LoopFacts DEF ReadCommand
<1>2. UNCHANGED <<ce, op, call, addr, bp, failed, cells, buffer, id, errors, calls,
                  want, got, torn, fails>>
  BY DEF ReadCommand
<1>3. TypeOK'
  BY <1>0, <1>1, <1>2 DEF TypeOK
<1>4. ControlInv'
  BY <1>0, <1>1, <1>2 DEF ControlInv
<1>5. ReportInv'
  BY <1>0, <1>1, <1>2 DEF ReportInv, PageDone
<1>6. LoopInv'
  BY <1>0, <1>1, <1>2 DEF LoopInv, InLoop
<1> QED BY <1>1, <1>3, <1>4, <1>5, <1>6

LEMMA WriteCommandNInv ==
  ASSUME NInv, WriteCommand
  PROVE  /\ NInv'
         /\ mode' = "program" /\ row' = addr \div PS /\ busy' = TRUE
         /\ reg' = PageOf(buffer, bp) /\ bp = addr - call.start
<1> USE DEF NInv, callerVars, histVars
<1>0. pc = "page" /\ op = "write" /\ addr < call.start + call.size /\ InLoop /\ pc' = "wait"
  BY DEF WriteCommand, More, InLoop
<1>1. /\ mode' = "program" /\ row' = addr \div PS /\ reg' = PageOf(buffer, bp)
      /\ busy' = TRUE /\ addr \div PS \in Row
  BY <1>0, CommandTaken, LoopFacts DEF WriteCommand
<1>2. UNCHANGED <<ce, op, call, addr, failed, cells, buffer, id, errors, calls,
                  want, got, torn, fails>>
  BY DEF WriteCommand
<1>3. /\ bp' = bp + PS /\ bp = addr - call.start /\ bp + PS <= Buffer
      /\ bp \in Nat /\ addr \in Nat /\ call.start \in Nat
  <2>1. /\ bp \in Nat /\ addr \in Nat /\ call.start \in Nat
        /\ addr + PS - call.start <= Buffer
    BY <1>0, LoopFacts
  <2>2. bp + call.start = addr + 0
    BY <1>0 DEF LoopInv
  <2>3. bp' = bp + PS
    BY DEF WriteCommand, Advance, PS
  <2>4. bp = addr - call.start /\ bp + PS <= Buffer
    BY <2>1, <2>2, Sizes
  <2> QED BY <2>1, <2>3, <2>4
<1>4. TypeOK'
  <2>1. reg' \in [Col -> Byte]
    <3>1. \A k \in Col : bp + k \in 0 .. Buffer - 1
      BY <1>3, Sizes DEF Col, PS
    <3> QED BY <1>1, <3>1 DEF PageOf, TypeOK
  <2>2. bp' \in 0 .. Buffer
    BY <1>3, Sizes
  <2> QED BY <1>0, <1>1, <1>2, <2>1, <2>2 DEF TypeOK
<1>5. ControlInv'
  BY <1>0, <1>1, <1>2 DEF ControlInv
<1>6. ReportInv'
  BY <1>0, <1>1, <1>2 DEF ReportInv, PageDone
<1>7. LoopInv'
  <2>1. bp' + call.start = addr + PS
    BY <1>3, Sizes
  <2> QED BY <1>0, <1>1, <1>2, <2>1 DEF LoopInv, InLoop
<1> QED BY <1>1, <1>3, <1>4, <1>5, <1>6, <1>7

LEMMA ReadDataNInv ==
  ASSUME NInv, ReadData
  PROVE  /\ NInv'
         /\ Output = reg /\ bp = addr - call.start /\ addr + PS <= call.start + call.size
<1> USE DEF NInv, chipVars, histVars
<1>0. pc = "data" /\ op = "read" /\ InLoop /\ pc' = "page" /\ addr' = addr + PS
  BY DEF ReadData, InLoop, PS
<1>1. Output = reg
  BY <1>0 DEF ControlInv, Output
<1>2. UNCHANGED <<mode, row, reg, busy, failed, cells, ce, op, call, id, errors, calls,
                  want, got, torn, fails>>
  BY DEF ReadData
<1>3. /\ call.start \in Nat /\ addr \in Nat /\ bp \in Nat /\ call.size \in Nat
      /\ addr + PS <= call.start + call.size
      /\ addr + PS - call.start <= Buffer /\ addr + PS <= Pages * PS
      /\ (addr + PS) % PS = 0
  <2>1. addr < call.start + call.size
    BY <1>0 DEF LoopInv
  <2> QED BY <1>0, <2>1, LoopFacts
<1>4. bp = addr - call.start /\ bp' = bp + PS /\ call.start <= addr
  <2>1. bp + call.start = addr + 0 /\ call.start <= addr
    BY <1>0 DEF LoopInv
  <2>2. bp' = bp + PS
    BY DEF ReadData, Advance, PS
  <2> QED BY <1>3, <2>1, <2>2
<1>5. TypeOK'
  <2>1. addr' \in 0 .. Pages * NAND_PAGE_SIZE /\ bp' \in 0 .. Buffer
    BY <1>0, <1>3, <1>4, Sizes DEF PS
  <2>2. buffer' \in [0 .. Buffer - 1 -> Byte]
    <3>1. ASSUME NEW k \in 0 .. Buffer - 1
          PROVE  (IF k \in bp .. bp + NAND_PAGE_SIZE - 1 THEN Output[k - bp] ELSE buffer[k])
                   \in Byte
      <4>1. CASE k \in bp .. bp + NAND_PAGE_SIZE - 1
        <5>1. k - bp \in Col
          BY <1>3, <4>1, Sizes DEF Col, PS
        <5> QED BY <1>1, <4>1, <5>1 DEF TypeOK
      <4>2. CASE k \notin bp .. bp + NAND_PAGE_SIZE - 1
        BY <4>2 DEF TypeOK
      <4> QED BY <4>1, <4>2
    <3> QED BY <3>1 DEF ReadData
  <2> QED BY <1>0, <1>2, <2>1, <2>2 DEF TypeOK
<1>6. ControlInv'
  BY <1>0, <1>2 DEF ControlInv
<1>7. ReportInv'
  BY <1>0, <1>2 DEF ReportInv, PageDone
<1>8. LoopInv'
  <2>1. bp' + call.start = addr' + 0 /\ call.start <= addr'
    BY <1>0, <1>3, <1>4, Sizes
  <2> QED BY <1>0, <1>2, <1>3, <2>1 DEF LoopInv, InLoop
<1> QED BY <1>1, <1>3, <1>4, <1>5, <1>6, <1>7, <1>8

LEMMA ReadStatusNInv ==
  ASSUME NInv, ReadStatus
  PROVE  /\ NInv'
         /\ addr + PS <= call.start + call.size
<1> USE DEF NInv, histVars
<1>0. pc = "data" /\ op = "write" /\ InLoop /\ pc' = "page" /\ addr' = addr + PS
  BY DEF ReadStatus, InLoop, PS
<1>1. mode' = "status" /\ row' = row /\ reg' = reg /\ busy' = FALSE
  <2>1. Command("status", row, reg)
    BY DEF ReadStatus
  <2>2. /\ mode' = "status" /\ row' = row /\ reg' = reg
        /\ busy' = ("status" \in {"load", "program"})
    BY <1>0, <2>1, CommandTaken
  <2>3. ("status" \in {"load", "program"}) = FALSE
    OBVIOUS
  <2> QED BY <2>2, <2>3
<1>2. UNCHANGED <<failed, cells, ce, op, call, bp, buffer, id, calls, want, got, torn, fails>>
  BY DEF ReadStatus
<1>3. /\ call.start \in Nat /\ addr \in Nat /\ bp \in Nat /\ call.size \in Nat
      /\ addr + PS <= call.start + call.size /\ addr + PS <= Pages * PS
      /\ (addr + PS) % PS = 0
  <2>1. addr < call.start + call.size
    BY <1>0 DEF LoopInv
  <2> QED BY <1>0, <2>1, LoopFacts
<1>4. bp + call.start = addr + PS /\ call.start <= addr
  BY <1>0 DEF LoopInv
<1>5. errors' = fails /\ fails \in 0 .. MaxFails
  <2>1. errors \in Nat /\ fails \in 0 .. MaxFails /\ failed \in BOOLEAN
    BY Sizes DEF TypeOK
  <2>2. errors' = IF failed THEN errors + 1 ELSE errors
    BY DEF ReadStatus, Reports
  <2>3. fails = errors + (IF failed THEN 1 ELSE 0)
    BY <1>0 DEF ReportInv, PageDone
  <2>4. CASE failed
    BY <2>1, <2>2, <2>3, <2>4
  <2>5. CASE ~failed
    BY <2>1, <2>2, <2>3, <2>5
  <2> QED BY <2>1, <2>4, <2>5
<1>6. TypeOK'
  <2>1. addr' \in 0 .. Pages * NAND_PAGE_SIZE
    BY <1>0, <1>3, Sizes DEF PS
  <2> QED BY <1>0, <1>1, <1>2, <1>5, <2>1 DEF TypeOK
<1>7. ControlInv'
  BY <1>0, <1>1, <1>2 DEF ControlInv
<1>8. ReportInv'
  BY <1>0, <1>2, <1>5 DEF ReportInv, PageDone
<1>9. LoopInv'
  <2>1. bp' + call.start = addr' + 0 /\ call.start <= addr'
    BY <1>0, <1>2, <1>3, <1>4, Sizes
  <2> QED BY <1>0, <1>2, <1>3, <2>1 DEF LoopInv, InLoop
<1> QED BY <1>3, <1>6, <1>7, <1>8, <1>9

LEMMA IdleNInv ==
  ASSUME NInv, PagesDone \/ nand_readID \/ (\E f \in Fills : Fill(f)) \/ MainLoop
               \/ UNCHANGED vars
  PROVE  NInv'
<1> USE DEF NInv, chipVars, driverVars, callerVars, histVars
<1>1. CASE PagesDone
  <2>1. TypeOK'
    BY <1>1 DEF PagesDone, TypeOK
  <2>2. ControlInv' /\ LoopInv'
    BY <1>1 DEF PagesDone, ControlInv, LoopInv, InLoop
  <2>3. ReportInv'
    BY <1>1 DEF PagesDone, ReportInv, PageDone
  <2> QED BY <2>1, <2>2, <2>3
<1>2. CASE nand_readID
  <2>0. busy = FALSE
    BY <1>2 DEF nand_readID, ControlInv, TypeOK
  <2>1. TypeOK'
    <3>1. calls' \in 0 .. MaxCalls
      BY <1>2, Sizes DEF nand_readID, TypeOK
    <3> QED BY <1>2, <2>0, <3>1 DEF nand_readID, TypeOK
  <2>2. ControlInv' /\ LoopInv'
    BY <1>2, <2>0 DEF nand_readID, ControlInv, LoopInv, InLoop
  <2>3. ReportInv'
    BY <1>2 DEF nand_readID, ReportInv, PageDone
  <2> QED BY <2>1, <2>2, <2>3
<1>3. CASE \E f \in Fills : Fill(f)
  <2>1. PICK f \in Fills : Fill(f)
    BY <1>3
  <2>2. f \in [0 .. Buffer - 1 -> Byte]
    BY NandAssumption
  <2>3. TypeOK'
    BY <2>1, <2>2 DEF Fill, TypeOK
  <2>4. ControlInv' /\ LoopInv' /\ ReportInv'
    BY <2>1 DEF Fill, ControlInv, LoopInv, InLoop, ReportInv, PageDone
  <2> QED BY <2>3, <2>4
<1>4. CASE MainLoop \/ UNCHANGED vars
  <2>1. UNCHANGED vars
    BY <1>4 DEF MainLoop
  <2> QED BY <2>1 DEF vars, TypeOK, ControlInv, LoopInv, InLoop, ReportInv, PageDone
<1> QED BY <1>1, <1>2, <1>3, <1>4

LEMMA NInvStep ==
  ASSUME NInv, [Next]_vars
  PROVE  NInv'
  BY ChipNInv, ResetNInv, CallNInv, ReadCommandNInv, WriteCommandNInv, ReadDataNInv,
     ReadStatusNInv, IdleNInv DEF Next, nand_read_page, nand_write_page

LEMMA NInvAlways == Spec => []NInv
  BY NInvInit, NInvStep, PTL DEF Spec

(* The variables keep their types: the pointer never leaves the caller's   *)
(* buffer, addr never leaves the chip, and the row the chip decodes from   *)
(* the address cycles is one of its pages.                                 *)
THEOREM TypeCorrect == Spec => []TypeOK
<1>1. NInv => TypeOK
  BY DEF NInv
<1> QED BY <1>1, NInvAlways, PTL

(* Whatever programs fail, between pages the messages of nand_write_page   *)
(* are exactly as many as the failures.                                    *)
THEOREM FailuresReportedAlways == Spec => []FailuresReported
<1>1. NInv => FailuresReported
  BY Sizes DEF NInv, TypeOK, ReportInv, PageDone, FailuresReported
<1> QED BY <1>1, NInvAlways, PTL

(* nand_wait_idle is called often enough: no command, page or ID is ever   *)
(* exchanged with a chip at work.                                          *)
THEOREM ReadyWhenAddressedAlways == Spec => []ReadyWhenAddressed
<1>1. NInv => ReadyWhenAddressed
  BY DEF NInv, ControlInv, ReadyWhenAddressed
<1> QED BY <1>1, NInvAlways, PTL
-----------------------------------------------------------------------------
(* The data                                                                *)

(* A page number is a natural number, and the pages of no call are none.   *)
LEMMA RowFacts ==
  /\ \A r \in Row : r \in Nat /\ r * PS \in Nat
  /\ \A c : Named(c) \subseteq Row
  /\ Named(NoCall) = {}
<1>1. \A r \in Row : r \in Nat /\ r * PS \in Nat
  BY Sizes DEF Row
<1>2. \A r \in Row : ~(r * PS < 0 + 0)
  BY <1>1
<1>3. Named(NoCall) = {}
  BY <1>2 DEF Named, NoCall, PS
<1> QED BY <1>1, <1>3 DEF Named

(* A step that leaves the pages alone and what is pending as it was keeps  *)
(* CellsInv.                                                               *)
LEMMA CellsSame ==
  ASSUME CellsInv, UNCHANGED <<cells, want, torn>>,
         \A r \in Row : /\ Pending(r)' <=> Pending(r)
                        /\ Pending(r) => Final(r)' = Final(r)
  PROVE  CellsInv'
<1> SUFFICES ASSUME NEW r \in Row \ torn
             PROVE  want[r] = IF Pending(r)' THEN Final(r)' ELSE cells[r]
  BY DEF CellsInv
<1>1. want[r] = IF Pending(r) THEN Final(r) ELSE cells[r]
  BY DEF CellsInv
<1> QED BY <1>1

LEMMA DataInit ==
  ASSUME Init
  PROVE  DataInv
<1>1. pc = "init" /\ op = "reset" /\ want = cells
  BY DEF Init
<1>2. CellsInv
  BY <1>1 DEF CellsInv, Pending, InLoop
<1>3. ReadInv /\ RegisterInv /\ ReadIsRight
  BY <1>1 DEF ReadInv, RegisterInv, ReadIsRight, InLoop
<1> QED BY <1>2, <1>3 DEF DataInv

(* A program, done or failed, ends what was pending for the page of addr   *)
(* and for no other.                                                       *)
LEMMA ProgramPending ==
  ASSUME NInv, pc = "wait", op = "write", busy = TRUE, busy' = FALSE,
         UNCHANGED <<row, pc, op, call, addr, buffer>>
  PROVE  /\ row \in Row /\ row * PS = addr /\ Pending(row) /\ ~Pending(row)'
         /\ \A r \in Row \ {row} : Pending(r)' = Pending(r)
<1>0. InLoop
  BY DEF InLoop
<1>1. /\ row \in Row /\ row = addr \div PS /\ addr \in Nat /\ addr % PS = 0
      /\ call.start <= addr /\ addr < call.start + call.size
  BY <1>0, LoopFacts DEF NInv, LoopInv, TypeOK
<1>2. \A r \in Row : addr = r * PS <=> r = row
  BY <1>1, RowFacts, PagesApart
<1>3. ~PageDone /\ PageDone'
  BY DEF PageDone
<1>4. row * PS = addr /\ row \in Named(call)
  BY <1>1, <1>2 DEF Named, PS
<1>5. Pending(row)
  BY <1>0, <1>3, <1>4 DEF Pending
<1>6. ~Pending(row)'
  <2>1. ~(addr < row * PS)
    BY <1>1, <1>4
  <2> QED BY <1>3, <2>1 DEF Pending
<1>7. ASSUME NEW r \in Row \ {row} PROVE Pending(r)' = Pending(r)
  <2>1. addr # r * PS
    BY <1>2
  <2> QED BY <2>1 DEF Pending, InLoop
<1> QED BY <1>1, <1>4, <1>5, <1>6, <1>7

LEMMA ChipData ==
  ASSUME NInv, DataInv, Chip
  PROVE  DataInv'
<1> USE DEF driverVars, callerVars, histVars
<1>0. busy \in BOOLEAN /\ cells \in [Row -> [Col -> Byte]] /\ row \in Row
  BY DEF NInv, TypeOK
<1>1. CASE ChipLoaded
  <2>1. pc = "wait" /\ op = "read" /\ UNCHANGED <<pc, op>>
    BY <1>1, <1>0 DEF ChipLoaded, NInv, ControlInv, TypeOK
  <2>2. CellsInv'
    <3>1. \A r \in Row : ~Pending(r) /\ ~Pending(r)'
      BY <2>1 DEF Pending
    <3>2. CellsInv /\ UNCHANGED <<cells, want, torn>>
      BY <1>1 DEF ChipLoaded, DataInv
    <3> QED BY <3>1, <3>2, CellsSame
  <2>3. ReadInv' /\ RegisterInv' /\ ReadIsRight'
    BY <1>1, <2>1 DEF ChipLoaded, DataInv, ReadInv, RegisterInv, ReadIsRight, InLoop
  <2> QED BY <2>2, <2>3 DEF DataInv
<1>2. CASE ChipProgrammed
  <2>1. pc = "wait" /\ op = "write" /\ busy = TRUE
    BY <1>2, <1>0 DEF ChipProgrammed, NInv, ControlInv, TypeOK
  <2>2. /\ busy' = FALSE /\ UNCHANGED <<row, pc, op, call, addr, buffer, want, torn>>
        /\ cells' = [cells EXCEPT ![row] = Programmed]
    BY <1>2 DEF ChipProgrammed
  <2>3. /\ row * PS = addr /\ Pending(row) /\ ~Pending(row)'
        /\ \A r \in Row \ {row} : Pending(r)' = Pending(r)
    BY <2>1, <2>2, ProgramPending
  <2>4. Final(row) = Programmed
    <3>1. reg = [k \in Col |-> buffer[row * PS - call.start + k]]
      BY <2>1, <2>3 DEF DataInv, RegisterInv, PageOf
    <3> QED BY <3>1 DEF Final, Programmed
  <2>5. CellsInv'
    <3> SUFFICES ASSUME NEW r \in Row \ torn
                 PROVE  want[r] = IF Pending(r)' THEN Final(r)' ELSE cells'[r]
      BY <2>2 DEF CellsInv
    <3>1. want[r] = IF Pending(r) THEN Final(r) ELSE cells[r]
      BY DEF DataInv, CellsInv
    <3>2. CASE r = row
      <4>1. cells'[row] = Programmed
        BY <1>0, <2>2
      <4>2. want[row] = Programmed /\ ~Pending(r)'
        BY <2>2, <2>3, <2>4, <3>1, <3>2
      <4> QED BY <3>2, <4>1, <4>2
    <3>3. CASE r # row
      <4>1. cells'[r] = cells[r] /\ Final(r)' = Final(r)
        BY <1>0, <2>2, <3>3 DEF Final
      <4> QED BY <2>3, <3>1, <3>3, <4>1
    <3> QED BY <3>2, <3>3
  <2>6. ReadInv' /\ RegisterInv' /\ ReadIsRight'
    BY <2>1, <2>2 DEF ReadInv, RegisterInv, ReadIsRight
  <2> QED BY <2>5, <2>6 DEF DataInv
<1>3. CASE ChipProgramFails
  <2>1. pc = "wait" /\ op = "write" /\ busy = TRUE
    BY <1>3, <1>0 DEF ChipProgramFails, NInv, ControlInv, TypeOK
  <2>2. /\ busy' = FALSE /\ UNCHANGED <<row, pc, op, call, addr, buffer, want>>
        /\ torn' = torn \cup {row}
        /\ \A r \in Row \ {row} : cells'[r] = cells[r]
    BY <1>0, <1>3 DEF ChipProgramFails
  <2>3. \A r \in Row \ {row} : Pending(r)' = Pending(r)
    BY <2>1, <2>2, ProgramPending
  <2>4. CellsInv'
    <3> SUFFICES ASSUME NEW r \in Row, r \notin torn, r # row
                 PROVE  want[r] = IF Pending(r)' THEN Final(r)' ELSE cells'[r]
      BY <2>2 DEF CellsInv
    <3>1. want[r] = IF Pending(r) THEN Final(r) ELSE cells[r]
      BY DEF DataInv, CellsInv
    <3>2. cells'[r] = cells[r] /\ Final(r)' = Final(r)
      BY <2>2 DEF Final
    <3> QED BY <2>3, <3>1, <3>2
  <2>5. ReadInv' /\ RegisterInv' /\ ReadIsRight'
    BY <2>1, <2>2 DEF ReadInv, RegisterInv, ReadIsRight
  <2> QED BY <2>4, <2>5 DEF DataInv
<1>4. CASE ChipReady
  <2>1. (pc = "init" \/ pc = "wait") /\ op = "reset" /\ UNCHANGED <<pc, op>>
    BY <1>4, <1>0 DEF ChipReady, NInv, ControlInv, TypeOK
  <2>2. CellsInv'
    <3>1. \A r \in Row : ~Pending(r) /\ ~Pending(r)'
      BY <2>1 DEF Pending
    <3>2. CellsInv /\ UNCHANGED <<cells, want, torn>>
      BY <1>4 DEF ChipReady, DataInv
    <3> QED BY <3>1, <3>2, CellsSame
  <2>3. ReadInv' /\ RegisterInv' /\ ReadIsRight'
    BY <2>1 DEF ReadInv, RegisterInv, ReadIsRight
  <2> QED BY <2>2, <2>3 DEF DataInv
<1> QED BY <1>1, <1>2, <1>3, <1>4 DEF Chip

(* The steps that move no data.                                            *)
LEMMA ResetData ==
  ASSUME NInv, DataInv, nand_init \/ nand_wait_idle \/ nand_readID \/ MainLoop
                        \/ UNCHANGED vars
  PROVE  DataInv'
<1> USE DEF chipVars, driverVars, callerVars, histVars
<1>0. busy \in BOOLEAN /\ op \in {"reset", "read", "write"}
  BY DEF NInv, TypeOK
<1>1. CASE nand_init
  <2>1. pc = "init" /\ op = "reset" /\ pc' = "wait" /\ op' = "reset"
    BY <1>1 DEF nand_init, nand_reset, NInv, ControlInv
  <2>2. CellsInv'
    <3>1. \A r \in Row : ~Pending(r) /\ ~Pending(r)'
      BY <2>1 DEF Pending
    <3>2. CellsInv /\ UNCHANGED <<cells, want, torn>>
      BY <1>1 DEF nand_init, nand_reset, DataInv
    <3> QED BY <3>1, <3>2, CellsSame
  <2>3. ReadInv' /\ RegisterInv' /\ ReadIsRight'
    BY <2>1 DEF ReadInv, RegisterInv, ReadIsRight
  <2> QED BY <2>2, <2>3 DEF DataInv
<1>2. CASE nand_wait_idle
  <2>1. pc = "wait" /\ busy = FALSE /\ PageDone
        /\ UNCHANGED <<chipVars, op, call, addr, bp, buffer, want, got, torn>>
    BY <1>0, <1>2 DEF nand_wait_idle, Idle, PageDone
  <2>2. CASE op = "reset"
    <3>1. pc' = "idle" /\ op' = "reset" /\ got' = NoCall
      BY <1>2, <2>1, <2>2 DEF nand_wait_idle, NInv, LoopInv
    <3>2. CellsInv'
      <4>1. \A r \in Row : ~Pending(r) /\ ~Pending(r)'
        BY <2>2, <3>1 DEF Pending
      <4> QED BY <2>1, <4>1, CellsSame DEF DataInv
    <3>3. ReadIsRight'
      <4>1. Named(got') = {}
        BY <3>1, RowFacts
      <4> QED BY <4>1 DEF ReadIsRight, Named
    <3>4. ReadInv' /\ RegisterInv'
      BY <3>1 DEF ReadInv, RegisterInv
    <3> QED BY <3>2, <3>3, <3>4 DEF DataInv
  <2>3. CASE op # "reset"
    <3>1. pc' = "data" /\ PageDone' /\ InLoop /\ InLoop'
      BY <1>2, <2>1, <2>3 DEF nand_wait_idle, PageDone, InLoop
    <3>2. CellsInv'
      <4>1. \A r \in Row : Pending(r)' <=> Pending(r)
        BY <2>1, <3>1 DEF Pending
      <4>2. \A r \in Row : Final(r)' = Final(r)
        BY <2>1 DEF Final
      <4> QED BY <2>1, <4>1, <4>2, CellsSame DEF DataInv
    <3>3. ReadInv'
      BY <2>1, <3>1 DEF DataInv, ReadInv
    <3>4. RegisterInv' /\ ReadIsRight'
      BY <2>1, <3>1 DEF DataInv, RegisterInv, ReadIsRight
    <3> QED BY <3>2, <3>3, <3>4 DEF DataInv
  <2> QED BY <2>2, <2>3
<1>3. CASE nand_readID
  <2>1. pc = "idle" /\ UNCHANGED <<pc, row, reg, cells, buffer, want, got, torn>>
    BY <1>3 DEF nand_readID
  <2>2. CellsInv'
    <3>1. \A r \in Row : ~Pending(r) /\ ~Pending(r)'
      BY <2>1 DEF Pending, InLoop
    <3> QED BY <2>1, <3>1, CellsSame DEF DataInv
  <2>3. ReadInv' /\ RegisterInv'
    BY <2>1 DEF ReadInv, RegisterInv, InLoop, PageDone
  <2>4. ReadIsRight'
    BY <2>1 DEF DataInv, ReadIsRight
  <2> QED BY <2>2, <2>3, <2>4 DEF DataInv
<1>4. CASE MainLoop \/ UNCHANGED vars
  <2>1. UNCHANGED vars
    BY <1>4 DEF MainLoop
  <2>2. CellsInv'
    BY <2>1 DEF DataInv, CellsInv, Pending, Final, InLoop, PageDone, vars
  <2>3. ReadInv' /\ RegisterInv' /\ ReadIsRight'
    BY <2>1 DEF DataInv, ReadInv, RegisterInv, ReadIsRight, InLoop, PageDone, vars
  <2> QED BY <2>2, <2>3 DEF DataInv
<1> QED BY <1>1, <1>2, <1>3, <1>4

(* At the start of a write all its pages are pending; a read has none.     *)
LEMMA CallData ==
  ASSUME NInv, DataInv, NEW o \in {"read", "write"}, NEW c \in Calls, CallPages(o, c)
  PROVE  DataInv'
<1> USE DEF chipVars, driverVars
<1>0. pc = "idle" /\ UNCHANGED <<mode, row, reg, busy, failed, cells, buffer, torn>>
  BY DEF CallPages
<1>1. \A r \in Row \ torn : want[r] = cells[r]
  BY <1>0 DEF DataInv, CellsInv, Pending, InLoop
<1>2. want \in [Row -> [Col -> Byte]]
  BY DEF NInv, TypeOK
<1>3. CASE Aligned(c)
  <2>1. op' = o /\ call' = c /\ addr' = c.start /\ pc' = "page" /\ ~PageDone'
    BY <1>3 DEF CallPages, PageDone
  <2>2. c.start \in Nat
    BY <1>3, CallFits
  <2>3. \A r \in Row : Pending(r)' <=> o = "write" /\ r \in Named(c)
    <3> SUFFICES ASSUME NEW r \in Row
                 PROVE  Pending(r)' <=> o = "write" /\ r \in Named(c)
      OBVIOUS
    <3>1. r \in Named(c) => c.start < r * PS \/ c.start = r * PS
      BY <2>2, RowFacts DEF Named, PS
    <3> QED BY <2>1, <3>1 DEF Pending, InLoop
  <2>4. CellsInv'
    <3> SUFFICES ASSUME NEW r \in Row \ torn
                 PROVE  want'[r] = IF Pending(r)' THEN Final(r)' ELSE cells[r]
      BY <1>0 DEF CellsInv
    <3>1. CASE Pending(r)'
      <4>1. want'[r] = [k \in Col |-> want[r][k] \cap buffer[r * NAND_PAGE_SIZE - c.start + k]]
        BY <1>3, <2>3, <3>1 DEF CallPages
      <4>2. Final(r)' = [k \in Col |-> cells[r][k] \cap buffer[r * PS - c.start + k]]
        BY <1>0, <2>1 DEF Final
      <4> QED BY <1>1, <3>1, <4>1, <4>2 DEF PS
    <3>2. CASE ~Pending(r)'
      <4>1. want'[r] = want[r]
        BY <2>3, <3>2, <1>3 DEF CallPages
      <4> QED BY <1>1, <3>2, <4>1
    <3> QED BY <3>1, <3>2
  <2>5. ReadInv'
    <3>1. \A r \in Named(c) : ~(r * PS < c.start)
      BY <2>2, RowFacts DEF Named, PS
    <3> QED BY <2>1, <3>1 DEF ReadInv
  <2>6. RegisterInv' /\ ReadIsRight'
    BY <2>1 DEF RegisterInv, ReadIsRight
  <2> QED BY <2>4, <2>5, <2>6 DEF DataInv
<1>4. CASE ~Aligned(c)
  <2>1. UNCHANGED <<ce, pc, op, call, addr, bp, got>>
    BY <1>4 DEF CallPages
  <2>2. want' = want
    BY <1>2, <1>4 DEF CallPages
  <2>3. CellsInv'
    <3>1. \A r \in Row : ~Pending(r) /\ ~Pending(r)'
      BY <1>0, <2>1 DEF Pending, InLoop
    <3> QED BY <1>0, <2>2, <3>1, CellsSame DEF DataInv
  <2>4. ReadInv' /\ RegisterInv'
    BY <1>0, <2>1 DEF ReadInv, RegisterInv, InLoop, PageDone
  <2>5. ReadIsRight'
    BY <1>0, <2>1, <2>2 DEF DataInv, ReadIsRight
  <2> QED BY <2>3, <2>4, <2>5 DEF DataInv
<1> QED BY <1>3, <1>4

LEMMA CommandData ==
  ASSUME NInv, DataInv, ReadCommand \/ WriteCommand
  PROVE  DataInv'
<1> USE DEF callerVars, histVars
<1>0. /\ pc = "page" /\ pc' = "wait" /\ busy' = TRUE /\ ~PageDone /\ ~PageDone'
      /\ UNCHANGED <<op, call, addr, cells, buffer, want, torn>>
  <2>1. busy' = TRUE
    BY ReadCommandNInv, WriteCommandNInv
  <2> QED BY <2>1 DEF ReadCommand, WriteCommand, PageDone
<1>1. InLoop' <=> InLoop
  BY <1>0 DEF InLoop
<1>2. CellsInv'
  <2>1. \A r \in Row : Pending(r)' <=> Pending(r)
    BY <1>0, <1>1 DEF Pending
  <2>2. \A r \in Row : Final(r)' = Final(r)
    BY <1>0 DEF Final
  <2> QED BY <1>0, <2>1, <2>2, CellsSame DEF DataInv
<1>3. ReadInv'
  BY <1>0, <1>1 DEF DataInv, ReadInv
<1>4. RegisterInv'
  <2>1. CASE ReadCommand
    <3>1. op' = "read"
      BY <2>1 DEF ReadCommand
    <3> QED BY <1>0, <3>1 DEF RegisterInv
  <2>2. CASE WriteCommand
    <3>1. reg' = PageOf(buffer, addr - call.start)
      BY <2>2, WriteCommandNInv
    <3>2. op' = "write"
      BY <2>2 DEF WriteCommand
    <3> QED BY <1>0, <3>1, <3>2 DEF RegisterInv, PageOf
  <2> QED BY <2>1, <2>2
<1>5. ReadIsRight'
  BY <1>0 DEF ReadIsRight
<1> QED BY <1>2, <1>3, <1>4, <1>5 DEF DataInv

(* The page at addr goes to its place, and the pages before it stay.       *)
LEMMA ReadDataData ==
  ASSUME NInv, DataInv, ReadData
  PROVE  DataInv'
<1> USE DEF chipVars, histVars
<1>0. /\ pc = "data" /\ op = "read" /\ InLoop /\ PageDone /\ pc' = "page" /\ ~PageDone'
      /\ addr' = addr + PS /\ UNCHANGED <<op, call, row, reg, cells, want, torn>>
  BY DEF ReadData, InLoop, PageDone, PS
<1>1. /\ call \in Calls /\ Aligned(call) /\ addr \in Nat /\ call.start \in Nat
      /\ call.size \in Nat /\ addr % PS = 0 /\ call.start <= addr /\ row = addr \div PS
  BY <1>0, LoopFacts DEF NInv, LoopInv
<1>2. Output = reg /\ bp = addr - call.start /\ reg = cells[row]
  BY <1>0, ReadDataNInv DEF DataInv, RegisterInv
<1>3. \A i \in 0 .. Buffer - 1 :
         buffer'[i] = IF i \in bp .. bp + PS - 1 THEN Output[i - bp] ELSE buffer[i]
  BY DEF ReadData, PS
<1>4. \A r \in Row : ~Pending(r) /\ ~Pending(r)'
  BY <1>0 DEF Pending
<1>5. CellsInv'
  BY <1>0, <1>4, CellsSame DEF DataInv
<1>6. ReadInv'
  <2> SUFFICES ASSUME NEW r \in Named(call) \ torn, NEW k \in Col, r * PS < addr + PS
               PROVE  buffer'[r * PS - call.start + k] = want[r][k]
    BY <1>0 DEF ReadInv
  <2>1. r \in Row /\ r \in Nat /\ r * PS \in Nat /\ k \in Nat /\ k < PS
    BY RowFacts, Sizes DEF Col, PS
  <2>2. r * PS - call.start + k \in 0 .. Buffer - 1 /\ call.start <= r * PS
    BY <1>1, CallFits
  <2>3. r * PS + PS <= addr \/ (r = row /\ r * PS = addr)
    <3>1. /\ r * PS < addr => r * PS + PS <= addr
          /\ addr < r * PS => addr + PS <= r * PS
          /\ addr = r * PS <=> r = addr \div PS
      BY <1>1, <2>1, PagesApart
    <3>2. ~(addr + PS <= r * PS)
      BY <1>1, <2>1, Sizes
    <3>3. r * PS < addr \/ r * PS = addr
      BY <1>1, <2>1, <3>1, <3>2
    <3>4. CASE r * PS < addr
      BY <3>1, <3>4
    <3>5. CASE r * PS = addr
      <4>1. r = addr \div PS
        BY <3>1, <3>5, Zenon
      <4> QED BY <1>1, <3>5, <4>1, Zenon
    <3> QED BY <3>3, <3>4, <3>5
  <2>4. CASE r * PS + PS <= addr
    <3>1. r * PS - call.start + k \notin bp .. bp + PS - 1
      BY <1>1, <1>2, <2>1, <2>2, <2>4, Sizes
    <3>2. buffer'[r * PS - call.start + k] = buffer[r * PS - call.start + k]
      BY <1>3, <2>2, <3>1
    <3>3. r * PS < addr
      BY <1>1, <2>1, <2>4, Sizes
    <3>4. buffer[r * PS - call.start + k] = want[r][k]
      BY <1>0, <3>3 DEF DataInv, ReadInv
    <3> QED BY <3>2, <3>4
  <2>5. CASE r = row /\ r * PS = addr
    <3>1. /\ r * PS - call.start + k \in bp .. bp + PS - 1
          /\ (r * PS - call.start + k) - bp = k
      BY <1>1, <1>2, <2>1, <2>5, Sizes
    <3>2. buffer'[r * PS - call.start + k] = reg[k]
      BY <1>2, <1>3, <2>2, <3>1
    <3>3. want[r] = cells[r]
      BY <1>4, <2>1 DEF DataInv, CellsInv
    <3> QED BY <1>2, <2>5, <3>2, <3>3
  <2> QED BY <2>3, <2>4, <2>5
<1>7. RegisterInv' /\ ReadIsRight'
  BY <1>0 DEF RegisterInv, ReadIsRight
<1> QED BY <1>5, <1>6, <1>7 DEF DataInv

(* What was ahead of a page that is done is at or ahead of the next.       *)
LEMMA ReadStatusData ==
  ASSUME NInv, DataInv, ReadStatus
  PROVE  DataInv'
<1> USE DEF histVars
<1>0. /\ pc = "data" /\ op = "write" /\ InLoop /\ PageDone /\ pc' = "page" /\ ~PageDone'
      /\ InLoop' /\ addr' = addr + PS /\ UNCHANGED <<op, call, cells, buffer, want, torn>>
  BY DEF ReadStatus, InLoop, PageDone, PS
<1>1. addr \in Nat /\ addr % PS = 0
  BY <1>0, LoopFacts DEF NInv, LoopInv
<1>2. CellsInv'
  <2>1. ASSUME NEW r \in Row PROVE Pending(r)' <=> Pending(r)
    <3>1. r \in Nat /\ r * PS \in Nat
      BY RowFacts
    <3>2. addr < r * PS => addr + PS <= r * PS
      BY <1>1, <3>1, PagesApart
    <3>3. addr < r * PS <=> addr + PS < r * PS \/ addr + PS = r * PS
      BY <1>1, <3>1, <3>2, Sizes
    <3> QED BY <1>0, <3>3 DEF Pending
  <2>2. \A r \in Row : Final(r)' = Final(r)
    BY <1>0 DEF Final
  <2> QED BY <1>0, <2>1, <2>2, CellsSame DEF DataInv
<1>3. ReadInv' /\ RegisterInv' /\ ReadIsRight'
  BY <1>0 DEF ReadInv, RegisterInv, ReadIsRight
<1> QED BY <1>2, <1>3 DEF DataInv

(* A call that returns has no page left.                                   *)
LEMMA DoneData ==
  ASSUME NInv, DataInv, PagesDone
  PROVE  DataInv'
<1> USE DEF chipVars, callerVars
<1>0. /\ pc = "page" /\ ~(addr < call.start + call.size) /\ InLoop /\ pc' = "idle"
      /\ UNCHANGED <<op, call, addr, row, reg, cells, buffer, want, torn>>
  BY DEF PagesDone, More, NInv, ControlInv, InLoop
<1>1. addr \in Nat /\ call.start \in Nat /\ call.size \in Nat
  BY <1>0, LoopFacts DEF NInv
<1>2. \A r \in Named(call) : r * PS < addr
  BY <1>0, <1>1, RowFacts DEF Named, PS
<1>3. CellsInv'
  <2>1. ASSUME NEW r \in Row PROVE ~Pending(r) /\ ~Pending(r)'
    <3>1. r \in Named(call) => ~(addr < r * PS) /\ addr # r * PS
      BY <1>1, <1>2, RowFacts
    <3> QED BY <1>0, <3>1 DEF Pending, InLoop
  <2> QED BY <1>0, <2>1, CellsSame DEF DataInv
<1>4. ReadIsRight'
  <2>1. CASE op = "read"
    <3>1. got' = call
      BY <2>1 DEF PagesDone
    <3>2. \A r \in Named(call) \ torn, k \in Col :
             buffer[r * PS - call.start + k] = want[r][k]
      BY <1>0, <1>2, <2>1 DEF DataInv, ReadInv
    <3> QED BY <1>0, <3>1, <3>2 DEF ReadIsRight, PS
  <2>2. CASE op # "read"
    <3>1. got' = NoCall
      BY <1>0, <2>2 DEF PagesDone, NInv, LoopInv
    <3>2. Named(got') = {}
      BY <3>1, RowFacts
    <3> QED BY <3>2 DEF ReadIsRight, Named
  <2> QED BY <2>1, <2>2
<1>5. ReadInv' /\ RegisterInv'
  BY <1>0 DEF ReadInv, RegisterInv, InLoop, PageDone
<1> QED BY <1>3, <1>4, <1>5 DEF DataInv

LEMMA FillData ==
  ASSUME NInv, DataInv, NEW f \in Fills, Fill(f)
  PROVE  DataInv'
<1> USE DEF chipVars, driverVars
<1>0. pc = "idle" /\ got' = NoCall /\ UNCHANGED <<pc, op, call, addr, cells, want, torn>>
  BY DEF Fill
<1>1. CellsInv'
  <2>1. \A r \in Row : ~Pending(r) /\ ~Pending(r)'
    BY <1>0 DEF Pending, InLoop
  <2> QED BY <1>0, <2>1, CellsSame DEF DataInv
<1>2. ReadIsRight'
  <2>1. Named(got') = {}
    BY <1>0, RowFacts
  <2> QED BY <2>1 DEF ReadIsRight, Named
<1>3. ReadInv' /\ RegisterInv'
  BY <1>0 DEF ReadInv, RegisterInv, InLoop, PageDone
<1> QED BY <1>1, <1>2, <1>3 DEF DataInv

LEMMA DataStep ==
  ASSUME NInv, DataInv, [Next]_vars
  PROVE  DataInv'
  BY ChipData, ResetData, CallData, CommandData, ReadDataData, ReadStatusData, DoneData,
     FillData DEF Next, nand_read_page, nand_write_page

LEMMA DataAlways == Spec => []DataInv
  BY DataInit, DataStep, NInvAlways, PTL DEF Spec

(* For every geometry of the chip, every sequence of calls and every       *)
(* program that fails: nand_write_page programs the pages its caller named *)
(* with the bytes meant for them and touches no other page.                *)
THEOREM PagesHoldAlways == Spec => []PagesHold
<1>1. DataInv => PagesHold
  BY DEF DataInv, CellsInv, Pending, InLoop, PagesHold
<1> QED BY <1>1, DataAlways, PTL

(* nand_read_page puts every page its caller named into its place of the   *)
(* buffer.                                                                 *)
THEOREM ReadIsRightAlways == Spec => []ReadIsRight
<1>1. DataInv => ReadIsRight
  BY DEF DataInv
<1> QED BY <1>1, DataAlways, PTL
=============================================================================
