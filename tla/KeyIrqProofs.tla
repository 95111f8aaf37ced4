---------------------------- MODULE KeyIrqProofs ----------------------------
(***************************************************************************)
(* The safety of KeyIrq for every number of keys, length of the messages,  *)
(* depth of the FIFOs and number of presses, characters and ticks.         *)
(***************************************************************************)
EXTENDS KeyIrq, TLAPS

LedPCs == {"leds_init", "led_read", "led_write"}
HelloPCs == {"hello_wait", "hello_write"}
PutPCs == {"put_wait", "put_write"}

(* Where the loops of main and of the handler are.                         *)
LoopInv ==
    /\ mpc \in LedPCs => mi <= K
    /\ mpc \in HelloPCs => mi <= HelloLen
    /\ mpc \notin LedPCs \cup HelloPCs => mi = 1
    /\ hpc = "send" => hk <= K

TypeInv == TypeOK /\ LoopInv

(* main runs with IRQ disabled from irq_disable to irq_enable, and then no *)
(* handler does; so the room PutChar has seen is still there when it       *)
(* writes.                                                                 *)
MaskInv ==
    /\ masked => hpc = "idle"
    /\ program = "timer" /\ mpc \in PutPCs => masked
    /\ program = "timer" /\ mpc = "put_write" => Len(tx) < TxDepth

(* A latched key the handler is past has been served or came late.         *)
ServedInv ==
    /\ hpc \in {"test", "send"} =>
          \A k \in EINT0PEND : k < hk => k \in served \cup late
    /\ hpc = "send" => hk \in served

(* Nothing is sent before UART0 is set up.                                 *)
ReadyInv == ~uart_ready => tx = <<>>
-----------------------------------------------------------------------------
(* The FIFOs                                                               *)

(* A store to UTXH0 appends its character, drops it, or goes nowhere.      *)
LEMMA Stored ==
  ASSUME TypeOK, NEW char \in Token, UTXH0(char)
  PROVE  /\ tx' \in Seq(Token) /\ Len(tx') <= TxDepth /\ lost' \subseteq Token
         /\ \/ /\ uart_ready /\ lost' = lost
               /\ Len(tx) < TxDepth /\ Len(tx) \in Nat /\ Len(tx') = Len(tx) + 1
               /\ \A j \in 1 .. Len(tx) : tx'[j] = tx[j]
               /\ tx'[Len(tx) + 1] = char
            \/ Len(tx) = TxDepth /\ lost' = lost \cup {char} /\ tx' = tx
            \/ ~uart_ready /\ UNCHANGED <<tx, lost>>
<1>0. tx \in Seq(Token) /\ Len(tx) \in Nat /\ Len(tx) <= TxDepth /\ TxDepth \in Nat
  BY KeyIrqAssumption DEF TypeOK
<1>1. CASE uart_ready /\ Len(tx) < TxDepth /\ tx' = Append(tx, char) /\ UNCHANGED lost
  <2>1. /\ tx' \in Seq(Token) /\ Len(tx') = Len(tx) + 1
        /\ \A j \in 1 .. Len(tx) : tx'[j] = tx[j]
        /\ tx'[Len(tx) + 1] = char
    BY <1>0, <1>1
  <2> QED BY <1>0, <1>1, <2>1 DEF TypeOK
<1>2. CASE uart_ready /\ Len(tx) = TxDepth /\ lost' = lost \cup {char} /\ UNCHANGED tx
  BY <1>0, <1>2 DEF TypeOK
<1>3. CASE ~uart_ready /\ UNCHANGED <<tx, lost>>
  BY <1>0, <1>3 DEF TypeOK
<1> QED BY <1>1, <1>2, <1>3 DEF UTXH0

(* The transmitter and main take the oldest entry of their FIFO.           *)
LEMMA Taken ==
  ASSUME NEW S, NEW q \in Seq(S), q # <<>>
  PROVE  /\ Head(q) = q[1] /\ q[1] \in S /\ Len(q) \in Nat /\ Len(q) > 0
         /\ Tail(q) \in Seq(S) /\ Len(Tail(q)) = Len(q) - 1
         /\ \A j \in 1 .. Len(Tail(q)) : Tail(q)[j] = q[j + 1] /\ j + 1 \in 1 .. Len(q)
  OBVIOUS
-----------------------------------------------------------------------------
(* Types                                                                   *)

(* The parts of TypeOK the different actors write.                         *)
HardType ==
    /\ program \in {"irq_advanced", "timer"}
    /\ {masked, timer_on, tick} \subseteq BOOLEAN /\ uart_ready \in BOOLEAN
FifoType ==
    /\ tx \in Seq(Token) /\ Len(tx) <= TxDepth
    /\ rx \in Seq(1 .. MaxChars) /\ Len(rx) <= RxDepth
    /\ data \in 0 .. MaxChars /\ arrived \in 0 .. MaxChars
    /\ lost \subseteq Token
MainType ==
    /\ mpc \in MainPC
    /\ mi \in 1 .. (IF K > HelloLen THEN K ELSE HelloLen)
HandlerType ==
    /\ hpc \in HandlerPC
    /\ hk \in 1 .. K + 1
    /\ hi \in 0 .. MsgLen
KeyType ==
    /\ my_led_flag \in {0, 1} /\ ticks \in 0 .. MaxTick
    /\ EINT0PEND \subseteq Keys
    /\ leds \subseteq Keys
    /\ tmp \subseteq Keys
    /\ presses \in 0 .. MaxPress
    /\ served \subseteq Keys
    /\ late \subseteq Keys
    /\ ledspec \subseteq Keys
    /\ undone \subseteq Keys

LEMMA TypeParts == TypeOK <=> HardType /\ FifoType /\ MainType /\ HandlerType /\ KeyType
  BY DEF TypeOK, HardType, FifoType, MainType, HandlerType, KeyType

(* The flags take truth values.                                            *)
LEMMA HardTypeKept ==
  ASSUME HardType, [Next]_vars
  PROVE  HardType'
<1> USE DEF HardType, timerVars, mainVars, handlerVars, histVars, Unchanged_main
<1>1. CASE Tick
  BY <1>1 DEF Tick
<1>2. CASE TimerClear
  BY <1>2 DEF TimerClear, TickAfter
<1>3. CASE MainTimerInit
  BY <1>3 DEF MainTimerInit
<1>4. CASE MainUartFormat
  BY <1>4 DEF MainUartFormat
<1>5. CASE MainMask
  BY <1>5 DEF MainMask, Masks
<1>6. CASE MainUnmask
  BY <1>6 DEF MainUnmask, Unmasks
<1>7. CASE UNCHANGED <<program, masked, timer_on, tick, uart_ready>>
  BY <1>7
<1>8. ASSUME NEW k \in Keys, Press(k) PROVE UNCHANGED <<program, masked, timer_on, tick, uart_ready>>
  BY <1>8 DEF Press
<1>9. CASE Receive \/ Transmit \/ HandlerEnter \/ key_irq_handler \/ TimerEnter \/ TimerBlink
  <2>1. UNCHANGED <<program, masked, timer_on, tick, uart_ready>>
    BY <1>9 DEF Receive, Transmit, HandlerEnter, key_irq_handler, HandlerTest, HandlerSend,
       HandlerSent, HandlerClear, HandlerReturn, TimerEnter, TimerBlink
  <2> QED BY <1>7, <2>1
<1>10. CASE MainLedsInit \/ MainLedRead \/ MainLedWrite \/ MainUartPins \/ MainHelloWait
            \/ MainHelloWrite \/ MainPoll \/ MainGetChar \/ MainPutWait \/ MainPutWrite
            \/ UNCHANGED vars
  <2>1. UNCHANGED <<program, masked, timer_on, tick, uart_ready>>
    BY <1>10 DEF MainLedsInit, MainLedRead, MainLedWrite, MainUartPins, MainHelloWait,
       MainHelloWrite, MainPoll, MainGetChar, MainPutWait, MainPutWrite, vars
  <2> QED BY <1>7, <2>1
<1> QED BY <1>1, <1>2, <1>3, <1>4, <1>5, <1>6, <1>7, <1>8, <1>9, <1>10
        DEF Next, timer0_irq_handler, main

(* The loops stay in their bounds.                                         *)
LEMMA LoopsKept ==
  ASSUME TypeInv, [Next]_vars
  PROVE  MainType' /\ HandlerType' /\ LoopInv'
<1> USE KeyIrqAssumption DEF timerVars, mainVars, handlerVars, histVars, Unchanged_main
<1>0. MainType /\ HandlerType /\ LoopInv
  BY TypeParts DEF TypeInv
<1>1. ASSUME UNCHANGED <<mpc, mi, hpc, hk, hi>> PROVE MainType' /\ HandlerType' /\ LoopInv'
  BY <1>0, <1>1 DEF MainType, HandlerType, LoopInv
<1>2. ASSUME NEW k \in Keys, Press(k) PROVE UNCHANGED <<mpc, mi, hpc, hk, hi>>
  BY <1>2 DEF Press
<1>3. CASE Tick \/ Receive \/ Transmit \/ MainPoll \/ UNCHANGED vars
  <2>1. UNCHANGED <<mpc, mi, hpc, hk, hi>>
    BY <1>3 DEF Tick, Receive, Transmit, MainPoll, vars
  <2> QED BY <1>1, <2>1
<1>4. CASE UNCHANGED <<mpc, mi>> /\ (HandlerEnter \/ key_irq_handler)
  <2>1. MainType'
    BY <1>0, <1>4 DEF MainType
  <2>2. HandlerType'
    BY <1>0, <1>4 DEF HandlerType, LoopInv, HandlerPC, HandlerEnter, key_irq_handler,
       HandlerTest, HandlerSend, HandlerSent, AfterTest, HandlerClear, HandlerReturn
  <2>3. LoopInv'
    BY <1>0, <1>4 DEF LoopInv, HandlerEnter, key_irq_handler,
       HandlerTest, HandlerSend, HandlerSent, HandlerClear, HandlerReturn
  <2> QED BY <2>1, <2>2, <2>3
<1>5. CASE UNCHANGED <<mpc, mi>> /\ (TimerEnter \/ timer0_irq_handler)
  BY <1>0, <1>5 DEF MainType, HandlerType, LoopInv, HandlerPC, TimerEnter,
     timer0_irq_handler, TimerBlink, TimerClear
<1>6. CASE HandlerEnter \/ key_irq_handler
  BY <1>4, <1>6 DEF HandlerEnter, key_irq_handler, HandlerTest, HandlerSend, HandlerSent,
     HandlerClear, HandlerReturn
<1>7. CASE TimerEnter \/ timer0_irq_handler
  BY <1>5, <1>7 DEF TimerEnter, timer0_irq_handler, TimerBlink, TimerClear
<1>8. CASE main
  <2>1. UNCHANGED <<hpc, hk, hi>>
    BY <1>8 DEF main, MainLedsInit, MainLedRead, MainLedWrite, MainTimerInit, MainUartPins,
       MainUartFormat, MainHelloWait, MainHelloWrite, MainPoll, MainGetChar, MainMask,
       MainPutWait, MainPutWrite, MainUnmask, vars
  <2>2. CASE MainLedWrite
    BY <1>0, <2>1, <2>2 DEF MainLedWrite, LedsLeft, MainType, HandlerType, LoopInv, MainPC,
       LedPCs, HelloPCs
  <2>3. CASE MainHelloWrite
    BY <1>0, <2>1, <2>3 DEF MainHelloWrite, MainType, HandlerType, LoopInv, MainPC,
       LedPCs, HelloPCs
  <2>4. CASE MainLedsInit \/ MainLedRead \/ MainTimerInit \/ MainUartPins \/ MainUartFormat
    BY <1>0, <2>1, <2>4 DEF MainLedsInit, MainLedRead, MainTimerInit, MainUartPins,
       MainUartFormat, MainType, HandlerType, LoopInv, MainPC, LedPCs, HelloPCs
  <2>5. CASE MainHelloWait \/ MainGetChar \/ MainMask \/ MainPutWait \/ MainPutWrite
             \/ MainUnmask
    BY <1>0, <2>1, <2>5 DEF MainHelloWait, MainGetChar, MainMask, MainPutWait, MainPutWrite,
       MainUnmask, MainType, HandlerType, LoopInv, MainPC, LedPCs, HelloPCs
  <2> QED BY <1>3, <1>8, <2>2, <2>3, <2>4, <2>5 DEF main
<1> QED BY <1>1, <1>2, <1>3, <1>6, <1>7, <1>8 DEF Next

(* What the steps that store a character store.                            *)
LEMMA StoredTokens ==
  ASSUME TypeInv
  PROVE  /\ hpc = "send" /\ hi < MsgLen => <<hk, hi + 1>> \in Token
         /\ mpc = "hello_write" => <<0, mi>> \in Token
         /\ <<0, HelloLen + data>> \in Token
<1> USE KeyIrqAssumption DEF Token, Keys
<1>1. hpc = "send" /\ hi < MsgLen => hk \in Keys /\ hi + 1 \in 1 .. MsgLen
  BY DEF TypeInv, TypeOK, LoopInv
<1>2. mpc = "hello_write" => mi \in 1 .. HelloLen + MaxChars
  <2>1. mpc = "hello_write" => mi \in Nat /\ mi >= 1 /\ mi <= HelloLen
    BY DEF TypeInv, TypeOK, LoopInv, HelloPCs
  <2> QED BY <2>1
<1>3. HelloLen + data \in 1 .. HelloLen + MaxChars
  BY DEF TypeInv, TypeOK
<1> QED BY <1>1, <1>2, <1>3

(* The FIFOs hold what they may and no more than that.                     *)
LEMMA FifosKept ==
  ASSUME TypeInv, [Next]_vars
  PROVE  FifoType'
<1> USE DEF timerVars, mainVars, handlerVars, histVars, Unchanged_main
<1>0. TypeOK /\ FifoType
  BY TypeParts DEF TypeInv
<1>1. ASSUME UNCHANGED <<tx, rx, data, arrived, lost>> PROVE FifoType'
  BY <1>0, <1>1 DEF FifoType
<1>2. ASSUME NEW k \in Keys, Press(k) PROVE UNCHANGED <<tx, rx, data, arrived, lost>>
  BY <1>2 DEF Press
<1>3. CASE Receive
  <2>1. arrived' \in 0 .. MaxChars /\ arrived + 1 \in 1 .. MaxChars
    BY <1>0, <1>3, KeyIrqAssumption DEF Receive, FifoType
  <2>2. CASE Len(rx) < RxDepth
    <3>1. rx' \in Seq(1 .. MaxChars) /\ Len(rx') = Len(rx) + 1 /\ Len(rx) \in Nat
      BY <1>0, <1>3, <2>1, <2>2 DEF Receive, FifoType
    <3> QED BY <1>0, <1>3, <2>1, <2>2, <3>1, KeyIrqAssumption DEF Receive, FifoType
  <2>3. CASE ~(Len(rx) < RxDepth)
    BY <1>0, <1>3, <2>1, <2>3 DEF Receive, FifoType
  <2> QED BY <2>2, <2>3
<1>4. CASE Transmit
  <2>1. tx' \in Seq(Token) /\ Len(tx') = Len(tx) - 1 /\ Len(tx) \in Nat
    BY <1>0, <1>4, Taken DEF Transmit, FifoType
  <2> QED BY <1>0, <1>4, <2>1, KeyIrqAssumption DEF Transmit, FifoType
<1>5. CASE MainGetChar
  <2>1. rx # <<>>
    BY <1>5 DEF MainGetChar, RxEmpty
  <2>2. /\ rx' \in Seq(1 .. MaxChars) /\ Len(rx') = Len(rx) - 1 /\ Len(rx) \in Nat
        /\ data' \in 1 .. MaxChars
    BY <1>0, <1>5, <2>1, Taken DEF MainGetChar, FifoType
  <2> QED BY <1>0, <1>5, <2>2, KeyIrqAssumption DEF MainGetChar, FifoType
<1>6. CASE HandlerSend \/ MainHelloWrite \/ MainPutWrite
  <2>1. PICK char \in Token : UTXH0(char)
    BY <1>6, StoredTokens DEF HandlerSend, MainHelloWrite, MainPutWrite
  <2>2. UNCHANGED <<rx, data, arrived>>
    BY <1>6 DEF HandlerSend, MainHelloWrite, MainPutWrite
  <2> QED BY <1>0, <2>1, <2>2, Stored DEF FifoType
<1>7. CASE Tick \/ HandlerEnter \/ HandlerTest \/ HandlerSent \/ HandlerClear \/ HandlerReturn
           \/ TimerEnter \/ timer0_irq_handler \/ UNCHANGED vars
  <2>1. UNCHANGED <<tx, rx, data, arrived, lost>>
    BY <1>7 DEF Tick, HandlerEnter, HandlerTest, HandlerSent, HandlerClear, HandlerReturn,
       TimerEnter, timer0_irq_handler, TimerBlink, TimerClear, vars
  <2> QED BY <1>1, <2>1
<1>8. CASE MainLedsInit \/ MainLedRead \/ MainLedWrite \/ MainTimerInit \/ MainUartPins
           \/ MainUartFormat \/ MainHelloWait \/ MainPoll \/ MainMask \/ MainPutWait
           \/ MainUnmask
  <2>1. UNCHANGED <<tx, rx, data, arrived, lost>>
    BY <1>8 DEF MainLedsInit, MainLedRead, MainLedWrite, MainTimerInit, MainUartPins,
       MainUartFormat, MainHelloWait, MainPoll, MainMask, MainPutWait, MainUnmask, vars
  <2> QED BY <1>1, <2>1
<1> QED BY <1>1, <1>2, <1>3, <1>4, <1>5, <1>6, <1>7, <1>8 DEF Next, key_irq_handler, main

(* Keys, LEDs and counters stay in their sets.                             *)
LEMMA KeysKept ==
  ASSUME TypeInv, [Next]_vars
  PROVE  KeyType'
<1> USE KeyIrqAssumption DEF timerVars, mainVars, handlerVars, histVars, Unchanged_main, Keys
<1> DEFINE kv == <<my_led_flag, ticks, EINT0PEND, leds, tmp, presses, served, late, ledspec,
                undone>>
<1>0. KeyType /\ TypeOK
  BY TypeParts DEF TypeInv
<1>1. ASSUME UNCHANGED kv PROVE KeyType'
  BY <1>0, <1>1 DEF KeyType
<1>2. ASSUME NEW k \in Keys, Press(k) PROVE KeyType'
  BY <1>0, <1>2 DEF Press, KeyType
<1>3. CASE Tick
  BY <1>0, <1>3 DEF Tick, KeyType
<1>4. CASE HandlerTest
  <2>1. hk \in Keys
    BY <1>0, <1>4 DEF HandlerTest, TypeOK
  <2>2. leds' \subseteq Keys /\ ledspec' \subseteq Keys
    <3>1. leds' \in {leds, LedsAfter(hk, leds)} /\ ledspec' \in {ledspec, LedsAfter(hk, ledspec)}
      BY <1>4 DEF HandlerTest
    <3> QED BY <1>0, <2>1, <3>1 DEF LedsAfter, KeyType
  <2>3. undone' \subseteq Keys
    BY <1>0, <1>4, <2>2 DEF HandlerTest, Exposed, KeyType
  <2> QED BY <1>0, <1>4, <2>1, <2>2, <2>3 DEF HandlerTest, KeyType
<1>5. CASE HandlerEnter \/ HandlerClear \/ HandlerReturn
  BY <1>0, <1>5 DEF HandlerEnter, HandlerClear, StillPending, HandlerReturn, KeyType
<1>6. CASE TimerBlink
  BY <1>0, <1>6 DEF TimerBlink, Blink, Exposed, KeyType
<1>7. CASE MainLedRead \/ MainLedWrite
  BY <1>0, <1>7 DEF MainLedRead, MainLedWrite, leds_OFF, KeyType
<1>8. CASE Receive \/ Transmit \/ HandlerSend \/ HandlerSent \/ TimerEnter \/ TimerClear
           \/ MainLedsInit \/ MainTimerInit \/ MainUartPins \/ MainUartFormat \/ MainHelloWait
           \/ UNCHANGED vars
  <2>1. UNCHANGED kv
    BY <1>8 DEF Receive, Transmit, HandlerSend, HandlerSent, TimerEnter, TimerClear,
       MainLedsInit, MainTimerInit, MainUartPins, MainUartFormat, MainHelloWait, vars
  <2> QED BY <1>1, <2>1
<1>9. CASE MainHelloWrite \/ MainPoll \/ MainGetChar \/ MainMask \/ MainPutWait \/ MainPutWrite
           \/ MainUnmask
  <2>1. UNCHANGED kv
    BY <1>9 DEF MainHelloWrite, MainPoll, MainGetChar, MainMask, MainPutWait, MainPutWrite,
       MainUnmask, vars
  <2> QED BY <1>1, <2>1
<1> QED BY <1>2, <1>3, <1>4, <1>5, <1>6, <1>7, <1>8, <1>9
        DEF Next, key_irq_handler, timer0_irq_handler, main

LEMMA NextType ==
  ASSUME TypeInv, [Next]_vars
  PROVE  TypeInv'
<1>1. HardType'
  BY HardTypeKept, TypeParts DEF TypeInv
<1>2. FifoType' /\ MainType' /\ HandlerType' /\ KeyType' /\ LoopInv'
  BY FifosKept, LoopsKept, KeysKept
<1>3. TypeOK'
  BY <1>1, <1>2 DEF TypeOK, HardType, FifoType, MainType, HandlerType, KeyType
<1> QED BY <1>2, <1>3 DEF TypeInv

LEMMA TypeInvAlways == Spec => []TypeInv
<1>1. Init => TypeInv
  <2> SUFFICES ASSUME Init PROVE TypeInv
    OBVIOUS
  <2>1. HardType
    BY DEF Init, HardType
  <2>2. FifoType /\ MainType /\ HandlerType
    BY KeyIrqAssumption DEF Init, FifoType, MainType, HandlerType, MainPC, HandlerPC
  <2>3. KeyType
    BY KeyIrqAssumption DEF Init, KeyType, ClearedKeys
  <2>4. LoopInv
    BY KeyIrqAssumption DEF Init, LoopInv, LedPCs, HelloPCs
  <2> QED BY <2>1, <2>2, <2>3, <2>4, TypeParts DEF TypeInv
<1> QED BY <1>1, NextType, PTL DEF Spec

(* Every variable keeps its type: the loops over keys, LEDs and strings    *)
(* stay in bounds and no FIFO is overfilled.                               *)
THEOREM TypeCorrect == Spec => []TypeOK
<1>1. TypeInv => TypeOK
  BY DEF TypeInv
<1> QED BY <1>1, TypeInvAlways, PTL
-----------------------------------------------------------------------------
(* The LEDs                                                                *)

(* While main holds a value of GPKDAT to write back, that value is right   *)
(* for every LED but its own and those the handler has changed since.      *)
WindowInv ==
    /\ OnlyWindowUndone
    /\ mpc = "led_write" =>
          /\ mi \notin tmp
          /\ \A k \in Keys \ undone : k # mi => (k \in tmp <=> k \in ledspec)

(* A handler that switches the LEDs of which, the others alone, and alike  *)
(* in the register and in the history, keeps the window right.             *)
LEMMA SwitchKeepsWindow ==
  ASSUME WindowInv, NEW which, Exposed(leds', which), UNCHANGED <<mpc, mi, tmp>>,
         \A k \in Keys \ which : /\ k \in leds' <=> k \in leds
                                 /\ k \in ledspec' <=> k \in ledspec,
         \A k \in which : k \in leds' <=> k \in ledspec'
  PROVE  WindowInv'
<1> USE DEF WindowInv, OnlyWindowUndone
<1>1. CASE mpc = "led_write"
  <2>1. undone' = undone \cup (leds \ leds') \cup (leds' \ leds)
    BY <1>1 DEF Exposed
  <2>2. ASSUME NEW k \in Keys, k \notin undone'
        PROVE  /\ k \notin undone
               /\ k \in leds' <=> k \in leds
               /\ k \in leds' <=> k \in ledspec'
    BY <2>1, <2>2
  <2>3. ASSUME NEW k \in Keys, k \notin undone', k # mi
        PROVE  k \in tmp' <=> k \in ledspec'
    BY <1>1, <2>2, <2>3
  <2> QED BY <1>1, <2>2, <2>3
<1>2. CASE mpc # "led_write"
  <2>1. undone' = undone \ which
    BY <1>2 DEF Exposed
  <2>2. ASSUME NEW k \in Keys, k \notin undone' PROVE k \in leds' <=> k \in ledspec'
    BY <2>1, <2>2
  <2> QED BY <1>2, <2>2
<1> QED BY <1>1, <1>2

LEMMA WindowKept ==
  ASSUME WindowInv, [Next]_vars
  PROVE  WindowInv'
<1> USE DEF timerVars, mainVars, handlerVars, histVars, Unchanged_main
<1>1. ASSUME UNCHANGED <<mi, tmp, leds, ledspec, undone>>,
             mpc' = "led_write" => mpc = "led_write"
      PROVE  WindowInv'
  BY <1>1 DEF WindowInv, OnlyWindowUndone
<1>2. ASSUME NEW k \in Keys, Press(k) PROVE WindowInv'
  BY <1>1, <1>2 DEF Press
<1>3. CASE HandlerTest
  <2>1. CASE hk \notin EINT0PEND
    BY <1>1, <1>3, <2>1 DEF HandlerTest
  <2>2. CASE hk \in EINT0PEND
    <3>1. /\ leds' = LedsAfter(hk, leds) /\ ledspec' = LedsAfter(hk, ledspec)
          /\ Exposed(leds', Switched(hk)) /\ UNCHANGED <<mpc, mi, tmp>>
      BY <1>3, <2>2 DEF HandlerTest
    <3>2. \A k \in Keys \ Switched(hk) : /\ k \in leds' <=> k \in leds
                                         /\ k \in ledspec' <=> k \in ledspec
      BY <3>1 DEF LedsAfter, Switched
    <3>3. \A k \in Switched(hk) : k \in leds' <=> k \in ledspec'
      BY <3>1 DEF LedsAfter, Switched
    <3> QED BY <3>1, <3>2, <3>3, SwitchKeepsWindow
  <2> QED BY <2>1, <2>2
<1>4. CASE TimerBlink
  <2>1. /\ leds' = Blink(my_led_flag', leds) /\ ledspec' = Blink(my_led_flag', ledspec)
        /\ Exposed(leds', {1}) /\ UNCHANGED <<mpc, mi, tmp>>
    BY <1>4 DEF TimerBlink
  <2>2. /\ \A k \in Keys \ {1} : /\ k \in leds' <=> k \in leds
                                 /\ k \in ledspec' <=> k \in ledspec
        /\ \A k \in {1} : k \in leds' <=> k \in ledspec'
    BY <2>1 DEF Blink
  <2> QED BY <2>1, <2>2, SwitchKeepsWindow
<1>5. CASE MainLedRead
  BY <1>5 DEF MainLedRead, leds_OFF, WindowInv, OnlyWindowUndone
<1>6. CASE MainLedWrite
  <2>1. /\ mpc = "led_write" /\ mpc' # "led_write"
        /\ leds' = tmp /\ ledspec' = ledspec \ {mi} /\ undone' = undone \ {mi}
    BY <1>6 DEF MainLedWrite
  <2>2. ASSUME NEW k \in Keys, k \notin undone' PROVE k \in leds' <=> k \in ledspec'
    BY <2>1, <2>2 DEF WindowInv
  <2> QED BY <2>1, <2>2 DEF WindowInv, OnlyWindowUndone
<1>7. CASE Tick \/ Receive \/ Transmit \/ HandlerEnter \/ HandlerSend \/ HandlerSent
           \/ HandlerClear \/ HandlerReturn \/ TimerEnter \/ TimerClear \/ UNCHANGED vars
  <2>1. UNCHANGED <<mpc, mi, tmp, leds, ledspec, undone>>
    BY <1>7 DEF Tick, Receive, Transmit, HandlerEnter, HandlerSend, HandlerSent,
       HandlerClear, HandlerReturn, TimerEnter, TimerClear, vars
  <2> QED BY <1>1, <2>1
<1>8. CASE MainLedsInit \/ MainTimerInit \/ MainUartPins \/ MainUartFormat \/ MainHelloWait
           \/ MainHelloWrite \/ MainPoll \/ MainGetChar
           \/ MainMask \/ MainPutWait \/ MainPutWrite \/ MainUnmask
  <2>1. /\ UNCHANGED <<leds, ledspec, undone>>
        /\ mpc' = "led_write" => UNCHANGED <<mpc, mi, tmp>>
    BY <1>8 DEF MainLedsInit, MainTimerInit, MainUartPins, MainUartFormat, MainHelloWait,
       MainHelloWrite, MainPoll, MainGetChar, MainMask, MainPutWait, MainPutWrite,
       MainUnmask, vars
  <2> QED BY <2>1 DEF WindowInv, OnlyWindowUndone
<1> QED BY <1>2, <1>3, <1>4, <1>5, <1>6, <1>7, <1>8
        DEF Next, key_irq_handler, timer0_irq_handler, main

(* Whatever the handler switches and whenever it does, a write of main to  *)
(* GPKDAT undoes only what happened between its read and its write.        *)
THEOREM OnlyWindowUndoneAlways == Spec => []OnlyWindowUndone
<1>1. Init => WindowInv
  BY DEF Init, WindowInv, OnlyWindowUndone
<1>2. WindowInv => OnlyWindowUndone
  BY DEF WindowInv
<1> QED BY <1>1, <1>2, WindowKept, PTL DEF Spec
-----------------------------------------------------------------------------
(* The keys                                                                *)

(* A latched key is only ever passed over by the handler after it was      *)
(* served, or before it was latched.                                       *)
LEMMA ServedKept ==
  ASSUME TypeInv, ServedInv, [Next]_vars
  PROVE  ServedInv'
<1> USE KeyIrqAssumption DEF ServedInv, timerVars, mainVars, handlerVars, histVars,
        Unchanged_main
<1>0. /\ EINT0PEND \subseteq Keys /\ Keys \subseteq Nat /\ hk \in 1 .. K + 1 /\ hk \in Nat
  BY DEF TypeInv, TypeOK, Keys
<1>1. ASSUME NEW k \in Keys, Press(k) PROVE ServedInv'
  BY <1>0, <1>1 DEF Press
<1>2. CASE HandlerEnter
  BY <1>0, <1>2 DEF HandlerEnter, Keys
<1>3. CASE HandlerTest
  BY <1>0, <1>3 DEF HandlerTest
<1>4. CASE HandlerSent
  BY <1>0, <1>4 DEF HandlerSent, AfterTest
<1>5. CASE HandlerClear \/ HandlerReturn \/ TimerEnter \/ TimerBlink \/ TimerClear
  BY <1>5 DEF HandlerClear, HandlerReturn, TimerEnter, TimerBlink, TimerClear
<1>6. CASE Tick \/ Receive \/ Transmit \/ HandlerSend \/ UNCHANGED vars
  <2>1. UNCHANGED <<hpc, hk, EINT0PEND, served, late>>
    BY <1>6 DEF Tick, Receive, Transmit, HandlerSend, vars
  <2> QED BY <2>1
<1>7. CASE main
  <2>1. UNCHANGED <<hpc, hk, EINT0PEND, served, late>>
    BY <1>7 DEF main, MainLedsInit, MainLedRead, MainLedWrite, MainTimerInit, MainUartPins,
       MainUartFormat, MainHelloWait, MainHelloWrite, MainPoll, MainGetChar, MainMask,
       MainPutWait, MainPutWrite, MainUnmask, vars
  <2> QED BY <2>1
<1> QED BY <1>1, <1>2, <1>3, <1>4, <1>5, <1>6, <1>7
        DEF Next, key_irq_handler, timer0_irq_handler

LEMMA ServedInvAlways == Spec => []ServedInv
<1>1. Init => ServedInv
  BY DEF Init, ServedInv
<1> QED BY <1>1, ServedKept, TypeInvAlways, PTL DEF Spec

(* Only the handler clears keys, after it has tested all of them.          *)
LEMMA OnlyClear ==
  ASSUME [Next]_vars, ~HandlerClear
  PROVE  EINT0PEND \subseteq EINT0PEND'
<1> USE DEF timerVars, mainVars, handlerVars, histVars, Unchanged_main
<1>1. ASSUME NEW k \in Keys, Press(k) PROVE EINT0PEND \subseteq EINT0PEND'
  BY <1>1 DEF Press
<1>2. CASE Tick \/ Receive \/ Transmit \/ HandlerEnter \/ HandlerTest \/ HandlerSend
           \/ HandlerSent \/ HandlerReturn \/ TimerEnter \/ TimerBlink \/ TimerClear
           \/ UNCHANGED vars
  BY <1>2 DEF Tick, Receive, Transmit, HandlerEnter, HandlerTest, HandlerSend,
     HandlerSent, HandlerReturn, TimerEnter, TimerBlink, TimerClear, vars
<1>3. CASE main
  BY <1>3 DEF main, MainLedsInit, MainLedRead, MainLedWrite, MainTimerInit, MainUartPins,
     MainUartFormat, MainHelloWait, MainHelloWrite, MainPoll, MainGetChar, MainMask,
     MainPutWait, MainPutWrite, MainUnmask, vars
<1> QED BY <1>1, <1>2, <1>3 DEF Next, key_irq_handler, timer0_irq_handler

ClearedStep == \A k \in Keys : k \in EINT0PEND /\ k \notin EINT0PEND' => k \in served \cup late

(* The write that clears all keys loses only presses after their test.     *)
THEOREM ClearedWereServedAlways == Spec => ClearedWereServed
<1>1. ASSUME TypeInv, ServedInv, [Next]_vars PROVE ClearedStep
  <2>1. CASE HandlerClear
    BY <1>1, <2>1, KeyIrqAssumption DEF HandlerClear, ServedInv, ClearedStep, Keys
  <2>2. CASE ~HandlerClear
    BY <1>1, <2>2, OnlyClear DEF ClearedStep
  <2> QED BY <2>1, <2>2
<1>2. TypeInv /\ ServedInv /\ [Next]_vars => [ClearedStep]_vars
  BY <1>1
<1> QED BY <1>2, TypeInvAlways, ServedInvAlways, PTL DEF Spec, ClearedWereServed, ClearedStep
-----------------------------------------------------------------------------
(* The transmit FIFO                                                       *)

(* Between irq_disable and irq_enable nothing comes between the test and   *)
(* the store of PutChar.                                                   *)
LEMMA MaskKept ==
  ASSUME TypeInv, MaskInv, [Next]_vars
  PROVE  MaskInv'
<1> USE KeyIrqAssumption DEF MaskInv, PutPCs, timerVars, mainVars, handlerVars, histVars,
        Unchanged_main
<1>0. TypeOK /\ tx \in Seq(Token) /\ Len(tx) \in Nat /\ Len(tx) <= TxDepth
  BY DEF TypeInv, TypeOK
<1>1. ASSUME UNCHANGED <<masked, hpc, program, mpc, tx>> PROVE MaskInv'
  BY <1>1
<1>2. ASSUME NEW k \in Keys, Press(k) PROVE UNCHANGED <<masked, hpc, program, mpc, tx>>
  BY <1>2 DEF Press
<1>3. CASE Tick \/ Receive \/ MainPoll \/ UNCHANGED vars
  <2>1. UNCHANGED <<masked, hpc, program, mpc, tx>>
    BY <1>3 DEF Tick, Receive, MainPoll, vars
  <2> QED BY <1>1, <2>1
<1>4. CASE Transmit
  <2>1. Len(tx') = Len(tx) - 1 /\ UNCHANGED <<masked, hpc, program, mpc>>
    BY <1>0, <1>4, Taken DEF Transmit
  <2> QED BY <1>0, <2>1
<1>5. CASE HandlerEnter \/ key_irq_handler \/ TimerEnter \/ timer0_irq_handler
  <2>1. ~masked /\ UNCHANGED <<masked, program, mpc>>
    BY <1>5 DEF HandlerEnter, key_irq_handler, HandlerTest, HandlerSend, HandlerSent,
       HandlerClear, HandlerReturn, TimerEnter, timer0_irq_handler, TimerBlink, TimerClear
  <2> QED BY <2>1
<1>6. CASE MainLedsInit \/ MainLedRead \/ MainLedWrite \/ MainTimerInit \/ MainUartPins
           \/ MainUartFormat \/ MainHelloWait \/ MainHelloWrite \/ MainGetChar \/ MainPutWrite
  <2>1. hpc' = "idle" /\ UNCHANGED program
    BY <1>6 DEF MainLedsInit, MainLedRead, MainLedWrite, MainTimerInit, MainUartPins,
       MainUartFormat, MainHelloWait, MainHelloWrite, MainGetChar, MainPutWrite
  <2>2. program = "timer" => mpc' \notin PutPCs
    BY <1>6 DEF MainLedsInit, MainLedRead, MainLedWrite, MainTimerInit, MainUartPins,
       MainUartFormat, MainHelloWait, MainHelloWrite, MainGetChar, MainPutWrite
  <2> QED BY <2>1, <2>2
<1>7. CASE MainMask
  BY <1>7 DEF MainMask, Masks
<1>8. CASE MainPutWait
  BY <1>0, <1>8 DEF MainPutWait, TxFull
<1>9. CASE MainUnmask
  BY <1>9 DEF MainUnmask, Unmasks
<1> QED BY <1>1, <1>2, <1>3, <1>4, <1>5, <1>6, <1>7, <1>8, <1>9 DEF Next, main

LEMMA MaskInvAlways == Spec => []MaskInv
<1>1. Init => MaskInv
  BY DEF Init, MaskInv, PutPCs
<1> QED BY <1>1, MaskKept, TypeInvAlways, PTL DEF Spec

(* What a step may drop, and who stores characters.                        *)
LEMMA StepsThatStore ==
  ASSUME [Next]_vars, ~HandlerSend, ~MainHelloWrite, ~MainPutWrite, ~Transmit
  PROVE  UNCHANGED <<tx, lost>>
<1> USE DEF timerVars, mainVars, handlerVars, histVars, Unchanged_main
<1>1. ASSUME NEW k \in Keys, Press(k) PROVE UNCHANGED <<tx, lost>>
  BY <1>1 DEF Press
<1>2. CASE Tick \/ Receive \/ HandlerEnter \/ HandlerTest \/ HandlerSent \/ HandlerClear
           \/ HandlerReturn \/ TimerEnter \/ TimerBlink \/ TimerClear \/ UNCHANGED vars
  BY <1>2 DEF Tick, Receive, HandlerEnter, HandlerTest, HandlerSent, HandlerClear,
     HandlerReturn, TimerEnter, TimerBlink, TimerClear, vars
<1>3. CASE MainLedsInit \/ MainLedRead \/ MainLedWrite \/ MainTimerInit \/ MainUartPins
           \/ MainUartFormat \/ MainHelloWait \/ MainPoll \/ MainGetChar \/ MainMask
           \/ MainPutWait \/ MainUnmask
  BY <1>3 DEF MainLedsInit, MainLedRead, MainLedWrite, MainTimerInit, MainUartPins,
     MainUartFormat, MainHelloWait, MainPoll, MainGetChar, MainMask, MainPutWait,
     MainUnmask, vars
<1> QED BY <1>1, <1>2, <1>3 DEF Next, key_irq_handler, timer0_irq_handler, main

(* PutChar of the timer program drops nothing; the greeting may.           *)
LEMMA EchoKeptKept ==
  ASSUME TypeInv, MaskInv, EchoKept, [Next]_vars
  PROVE  EchoKept'
<1> USE KeyIrqAssumption DEF EchoKept, timerVars, mainVars, handlerVars, histVars,
        Unchanged_main
<1>0. TypeOK /\ Len(tx) \in Nat
  BY DEF TypeInv, TypeOK
<1>1. CASE HandlerSend
  <2>1. lost' = lost /\ program' = program
    BY <1>0, <1>1 DEF HandlerSend, UTXH0, TxFull
  <2> QED BY <2>1
<1>2. CASE MainHelloWrite
  <2>1. lost' \subseteq lost \cup {<<0, mi>>} /\ program' = program
    BY <1>2 DEF MainHelloWrite, UTXH0
  <2>2. mi <= HelloLen
    BY <1>2 DEF MainHelloWrite, TypeInv, LoopInv, HelloPCs
  <2> QED BY <2>1, <2>2
<1>3. CASE MainPutWrite
  <2>1. program = "timer" => lost' = lost
    BY <1>0, <1>3 DEF MainPutWrite, UTXH0, MaskInv
  <2>2. program' = program
    BY <1>3 DEF MainPutWrite
  <2> QED BY <2>1, <2>2
<1>4. CASE Transmit
  BY <1>4 DEF Transmit
<1>5. program' = program
  BY DEF Next, key_irq_handler, timer0_irq_handler, main, Press, Tick, Receive, Transmit,
     HandlerEnter, HandlerTest, HandlerSend, HandlerSent, HandlerClear, HandlerReturn,
     TimerEnter, TimerBlink, TimerClear, MainLedsInit, MainLedRead, MainLedWrite,
     MainTimerInit, MainUartPins, MainUartFormat, MainHelloWait, MainHelloWrite, MainPoll,
     MainGetChar, MainMask, MainPutWait, MainPutWrite, MainUnmask, vars
<1>6. CASE UNCHANGED <<tx, lost>>
  BY <1>5, <1>6
<1> QED BY <1>1, <1>2, <1>3, <1>4, <1>6, StepsThatStore

(* With IRQ disabled around it, PutChar never loses an echoed character.   *)
THEOREM EchoKeptAlways == Spec => []EchoKept
<1>1. Init => EchoKept
  BY DEF Init, EchoKept
<1> QED BY <1>1, EchoKeptKept, MaskInvAlways, TypeInvAlways, PTL DEF Spec
-----------------------------------------------------------------------------
(* Messages                                                                *)

(* UART0 stays set up, and before it is nothing reaches the FIFO.          *)
LEMMA ReadyKept ==
  ASSUME TypeInv, ReadyInv, [Next]_vars
  PROVE  ReadyInv' /\ (uart_ready => uart_ready')
<1> USE DEF timerVars, mainVars, handlerVars, histVars, Unchanged_main
<1>1. uart_ready => uart_ready'
  <2>1. CASE MainUartFormat
    BY <2>1 DEF MainUartFormat
  <2>2. CASE ~MainUartFormat
    <3>1. uart_ready' = uart_ready
      BY <2>2 DEF Next, key_irq_handler, timer0_irq_handler, main, Press, Tick, Receive,
         Transmit, HandlerEnter, HandlerTest, HandlerSend, HandlerSent, HandlerClear,
         HandlerReturn, TimerEnter, TimerBlink, TimerClear, MainLedsInit, MainLedRead,
         MainLedWrite, MainTimerInit, MainUartPins, MainHelloWait, MainHelloWrite, MainPoll,
         MainGetChar, MainMask, MainPutWait, MainPutWrite, MainUnmask, vars
    <3> QED BY <3>1
  <2> QED BY <2>1, <2>2
<1>2. ~uart_ready => tx' = tx
  <2>1. CASE HandlerSend \/ MainHelloWrite \/ MainPutWrite
    BY <2>1 DEF HandlerSend, MainHelloWrite, MainPutWrite, UTXH0
  <2>2. CASE Transmit
    BY <2>2 DEF Transmit, ReadyInv
  <2> QED BY <2>1, <2>2, StepsThatStore
<1> QED BY <1>1, <1>2 DEF ReadyInv

LEMMA ReadyInvAlways == Spec => []ReadyInv
<1>1. Init => ReadyInv
  BY DEF Init, ReadyInv
<1> QED BY <1>1, ReadyKept, TypeInvAlways, PTL DEF Spec

(* The part of MessagesWhole about what is in the FIFO.                    *)
Whole(q, pc, k, n) ==
    \A j \in 1 .. Len(q) :
        q[j][1] # 0 /\ q[j][2] < MsgLen =>
            IF j < Len(q) THEN q[j+1] = <<q[j][1], q[j][2] + 1>>
                          ELSE pc = "send" /\ k = q[j][1] /\ n = q[j][2]

(* A character of main goes only behind whole messages, for main does not  *)
(* run while the handler sends one.                                        *)
LEMMA MessagesKept ==
  ASSUME TypeInv, ReadyInv, MessagesWhole, [Next]_vars
  PROVE  MessagesWhole'
<1> USE KeyIrqAssumption DEF timerVars, mainVars, handlerVars, histVars, Unchanged_main
<1>0. /\ TypeOK /\ tx \in Seq(Token) /\ Len(tx) \in Nat /\ Len(tx) <= TxDepth
      /\ hk \in Nat /\ hi \in Nat
      /\ \A c \in lost : c[1] = 0
      /\ Whole(tx, hpc, hk, hi)
  <2>1. TypeOK /\ FifoType /\ HandlerType
    BY TypeParts DEF TypeInv
  <2>2. tx \in Seq(Token) /\ Len(tx) \in Nat /\ Len(tx) <= TxDepth /\ hk \in Nat /\ hi \in Nat
    BY <2>1 DEF FifoType, HandlerType
  <2> QED BY <2>1, <2>2 DEF MessagesWhole, Whole
<1>1. SUFFICES (\A c \in lost' : c[1] = 0) /\ Whole(tx', hpc', hk', hi')
  BY DEF MessagesWhole, Whole
<1>2. CASE HandlerSend
  <2>1. <<hk, hi + 1>> \in Token /\ UTXH0(<<hk, hi + 1>>) /\ Len(tx) # TxDepth
    BY <1>2, StoredTokens DEF HandlerSend, TxFull
  <2>2. hpc = "send" /\ hpc' = "send" /\ hk' = hk /\ hi' = hi + 1
    BY <1>2 DEF HandlerSend
  <2>3. CASE uart_ready
    <3>1. /\ lost' = lost /\ Len(tx') = Len(tx) + 1
          /\ \A j \in 1 .. Len(tx) : tx'[j] = tx[j]
          /\ tx'[Len(tx) + 1] = <<hk, hi + 1>>
      BY <1>0, <2>1, <2>3, Stored
    <3>2. ASSUME NEW j \in 1 .. Len(tx'), tx'[j][1] # 0, tx'[j][2] < MsgLen
          PROVE  IF j < Len(tx') THEN tx'[j+1] = <<tx'[j][1], tx'[j][2] + 1>>
                 ELSE hpc' = "send" /\ hk' = tx'[j][1] /\ hi' = tx'[j][2]
      <4>1. CASE j = Len(tx) + 1
        BY <1>0, <2>2, <3>1, <4>1
      <4>2. CASE j = Len(tx) /\ j \in 1 .. Len(tx)
        <5>1. hk = tx[j][1] /\ hi = tx[j][2]
          BY <1>0, <3>1, <3>2, <4>2 DEF Whole
        <5> QED BY <1>0, <3>1, <4>2, <5>1
      <4>3. CASE j < Len(tx) /\ j \in 1 .. Len(tx) /\ j + 1 \in 1 .. Len(tx)
        <5>1. tx[j+1] = <<tx[j][1], tx[j][2] + 1>>
          BY <1>0, <3>1, <3>2, <4>3 DEF Whole
        <5> QED BY <1>0, <3>1, <4>3, <5>1
      <4> QED BY <1>0, <3>1, <4>1, <4>2, <4>3
    <3> QED BY <1>0, <3>1, <3>2 DEF Whole
  <2>4. CASE ~uart_ready
    <3>1. tx = <<>> /\ tx' = tx /\ lost' = lost
      BY <1>0, <2>1, <2>4, Stored DEF ReadyInv
    <3> QED BY <1>0, <3>1 DEF Whole
  <2> QED BY <2>3, <2>4
<1>3. CASE MainHelloWrite \/ MainPutWrite
  <2>1. PICK n : <<0, n>> \in Token /\ UTXH0(<<0, n>>)
    BY <1>3, StoredTokens DEF MainHelloWrite, MainPutWrite
  <2>2. hpc = "idle" /\ UNCHANGED <<hpc, hk, hi>>
    BY <1>3 DEF MainHelloWrite, MainPutWrite
  <2>3. \A c \in lost' : c[1] = 0
    <3>1. lost' \subseteq lost \cup {<<0, n>>}
      BY <2>1 DEF UTXH0
    <3> QED BY <1>0, <3>1
  <2>4. CASE tx' = tx
    BY <1>0, <2>2, <2>3, <2>4
  <2>5. CASE tx' # tx
    <3>1. /\ Len(tx') = Len(tx) + 1
          /\ \A j \in 1 .. Len(tx) : tx'[j] = tx[j]
          /\ tx'[Len(tx) + 1] = <<0, n>>
      BY <1>0, <2>1, <2>5, Stored
    <3>2. ASSUME NEW j \in 1 .. Len(tx'), tx'[j][1] # 0, tx'[j][2] < MsgLen
          PROVE  j < Len(tx') /\ tx'[j+1] = <<tx'[j][1], tx'[j][2] + 1>>
      <4>1. j # Len(tx) + 1
        BY <3>1, <3>2
      <4>2. j \in 1 .. Len(tx)
        BY <1>0, <3>1, <4>1
      <4>3. j < Len(tx) /\ tx[j+1] = <<tx[j][1], tx[j][2] + 1>>
        BY <1>0, <2>2, <3>1, <3>2, <4>2 DEF Whole
      <4> QED BY <1>0, <3>1, <4>2, <4>3
    <3> QED BY <2>3, <3>2 DEF Whole
  <2> QED BY <2>4, <2>5
<1>4. CASE Transmit
  <2>1. /\ tx' = Tail(tx) /\ UNCHANGED <<hpc, hk, hi, lost>>
        /\ Len(tx') = Len(tx) - 1 /\ Len(tx) > 0
        /\ \A j \in 1 .. Len(tx') : tx'[j] = tx[j + 1] /\ j + 1 \in 1 .. Len(tx)
    BY <1>0, <1>4, Taken DEF Transmit
  <2>2. ASSUME NEW j \in 1 .. Len(tx'), tx'[j][1] # 0, tx'[j][2] < MsgLen
        PROVE  IF j < Len(tx') THEN tx'[j+1] = <<tx'[j][1], tx'[j][2] + 1>>
               ELSE hpc' = "send" /\ hk' = tx'[j][1] /\ hi' = tx'[j][2]
    <3>1. /\ j + 1 \in 1 .. Len(tx) /\ tx'[j] = tx[j + 1]
          /\ tx[j + 1][1] # 0 /\ tx[j + 1][2] < MsgLen
      BY <2>1, <2>2
    <3>2. IF j + 1 < Len(tx) THEN tx[j+2] = <<tx[j + 1][1], tx[j + 1][2] + 1>>
          ELSE hpc = "send" /\ hk = tx[j + 1][1] /\ hi = tx[j + 1][2]
      <4> DEFINE i == j + 1
      <4>1. IF i < Len(tx) THEN tx[i+1] = <<tx[i][1], tx[i][2] + 1>>
            ELSE hpc = "send" /\ hk = tx[i][1] /\ hi = tx[i][2]
        BY <1>0, <3>1 DEF Whole
      <4>2. i + 1 = j + 2
        OBVIOUS
      <4> QED BY <4>1, <4>2
    <3>3. CASE j < Len(tx')
      <4>1. j + 1 \in 1 .. Len(tx') /\ j + 1 < Len(tx)
        BY <1>0, <2>1, <3>3
      <4>2. tx'[j + 1] = tx[j + 2]
        BY <2>1, <4>1
      <4> QED BY <3>1, <3>2, <3>3, <4>1, <4>2
    <3>4. CASE ~(j < Len(tx'))
      BY <1>0, <2>1, <3>1, <3>2, <3>4
    <3> QED BY <3>3, <3>4
  <2> QED BY <1>0, <2>1, <2>2 DEF Whole
<1>5. CASE ~HandlerSend /\ ~MainHelloWrite /\ ~MainPutWrite /\ ~Transmit
  <2>1. UNCHANGED <<tx, lost>>
    BY <1>5, StepsThatStore
  <2>2. hpc = "send" /\ hi # MsgLen => UNCHANGED <<hpc, hk, hi>>
    BY <1>5 DEF Next, key_irq_handler, timer0_irq_handler, main, Press, Tick, Receive,
       HandlerEnter, HandlerTest, HandlerSent, HandlerClear,
       HandlerReturn, TimerEnter, TimerBlink, TimerClear, MainLedsInit, MainLedRead,
       MainLedWrite, MainTimerInit, MainUartPins, MainUartFormat, MainHelloWait, MainPoll,
       MainGetChar, MainMask, MainPutWait, MainUnmask, vars
  <2> QED BY <1>0, <2>1, <2>2 DEF Whole
<1> QED BY <1>2, <1>3, <1>4, <1>5

(* Key messages reach the transmit FIFO in one piece and whole.            *)
THEOREM MessagesWholeAlways == Spec => []MessagesWhole
<1>1. Init => MessagesWhole
  BY DEF Init, MessagesWhole
<1> QED BY <1>1, MessagesKept, ReadyInvAlways, TypeInvAlways, PTL DEF Spec
-----------------------------------------------------------------------------
(* The order of the echo                                                   *)

(* The receive FIFO is sorted, newer than what main holds, and arrived.    *)
RxInv ==
    /\ \A i, j \in 1 .. Len(rx) : i < j => rx[i] < rx[j]
    /\ \A j \in 1 .. Len(rx) : data < rx[j] /\ rx[j] <= arrived
    /\ data <= arrived

LEMMA RxKept ==
  ASSUME TypeInv, RxInv, [Next]_vars
  PROVE  RxInv'
<1> USE KeyIrqAssumption DEF timerVars, mainVars, handlerVars, histVars, Unchanged_main
<1>0. /\ rx \in Seq(1 .. MaxChars) /\ Len(rx) \in Nat /\ arrived \in Nat /\ data \in Nat
      /\ \A j \in 1 .. Len(rx) : rx[j] \in Nat
  BY DEF TypeInv, TypeOK
<1>1. CASE UNCHANGED <<rx, data, arrived>>
  BY <1>1 DEF RxInv
<1>2. CASE Receive
  <2>1. arrived' = arrived + 1 /\ data' = data
    BY <1>2 DEF Receive
  <2>2. CASE Len(rx) < RxDepth
    <3>1. /\ arrived + 1 \in 1 .. MaxChars /\ rx' = Append(rx, arrived + 1)
      BY <1>0, <1>2, <2>2 DEF Receive
    <3>2. /\ Len(rx') = Len(rx) + 1 /\ rx'[Len(rx) + 1] = arrived + 1
          /\ \A j \in 1 .. Len(rx) : rx'[j] = rx[j]
      BY <1>0, <3>1
    <3>3. \A j \in 1 .. Len(rx') : j \in 1 .. Len(rx) \/ j = Len(rx) + 1
      BY <1>0, <3>2
    <3>4. \A j \in 1 .. Len(rx') : data < rx'[j] /\ rx'[j] <= arrived + 1
      BY <1>0, <3>2, <3>3 DEF RxInv
    <3>5. ASSUME NEW i \in 1 .. Len(rx'), NEW j \in 1 .. Len(rx'), i < j
          PROVE  rx'[i] < rx'[j]
      <4>1. i \in 1 .. Len(rx)
        BY <1>0, <3>2, <3>5
      <4>2. CASE j \in 1 .. Len(rx)
        BY <3>2, <3>5, <4>1, <4>2 DEF RxInv
      <4>3. CASE j = Len(rx) + 1
        BY <1>0, <3>2, <4>1, <4>3 DEF RxInv
      <4> QED BY <3>3, <4>2, <4>3
    <3> QED BY <1>0, <2>1, <3>4, <3>5 DEF RxInv
  <2>3. CASE ~(Len(rx) < RxDepth)
    BY <1>0, <1>2, <2>1, <2>3 DEF Receive, RxInv
  <2> QED BY <2>2, <2>3
<1>3. CASE MainGetChar
  <2>1. rx # <<>>
    BY <1>3 DEF MainGetChar, RxEmpty
  <2>2. /\ data' = rx[1] /\ rx' = Tail(rx) /\ arrived' = arrived
        /\ Len(rx) > 0 /\ Len(rx') = Len(rx) - 1
        /\ \A j \in 1 .. Len(rx') : rx'[j] = rx[j + 1] /\ j + 1 \in 1 .. Len(rx)
    BY <1>0, <1>3, <2>1, Taken DEF MainGetChar
  <2>3. rx[1] <= arrived
    BY <1>0, <2>2 DEF RxInv
  <2>4. \A j \in 1 .. Len(rx') : rx[1] < rx'[j] /\ rx'[j] <= arrived
    BY <1>0, <2>2 DEF RxInv
  <2>5. \A i, j \in 1 .. Len(rx') : i < j => rx'[i] < rx'[j]
    BY <1>0, <2>2 DEF RxInv
  <2> QED BY <2>2, <2>3, <2>4, <2>5 DEF RxInv
<1>4. CASE ~Receive /\ ~MainGetChar
  <2>1. UNCHANGED <<rx, data, arrived>>
    BY <1>4 DEF Next, key_irq_handler, timer0_irq_handler, main, Press, Tick, Transmit,
       HandlerEnter, HandlerTest, HandlerSend, HandlerSent, HandlerClear, HandlerReturn,
       TimerEnter, TimerBlink, TimerClear, MainLedsInit, MainLedRead, MainLedWrite,
       MainTimerInit, MainUartPins, MainUartFormat, MainHelloWait, MainHelloWrite, MainPoll,
       MainMask, MainPutWait, MainPutWrite, MainUnmask, vars
  <2> QED BY <1>1, <2>1
<1> QED BY <1>2, <1>3, <1>4

LEMMA RxInvAlways == Spec => []RxInv
<1>1. Init => RxInv
  BY DEF Init, RxInv
<1> QED BY <1>1, RxKept, TypeInvAlways, PTL DEF Spec

(* The first and second part of EchoOrder, and what they need while main   *)
(* sends the greeting and before.                                          *)
Sorted(q) ==
    \A i, j \in 1 .. Len(q) : i < j /\ q[i][1] = 0 /\ q[j][1] = 0 => q[i][2] < q[j][2]
Below(q, n) == \A j \in 1 .. Len(q) : q[j][1] = 0 => q[j][2] < n
SetUpPCs == LedPCs \cup {"timer", "port", "baud", "format"}

TxInv ==
    /\ Sorted(tx)
    /\ Below(tx, HelloLen + data + (IF mpc \in {"mask", "put_wait", "put_write"} THEN 0 ELSE 1))
    /\ mpc \in SetUpPCs => ~uart_ready
    /\ mpc \in HelloPCs => Below(tx, mi)

(* Taking the oldest character keeps the order, and so does adding one of  *)
(* a key, or one of main that is newer.                                    *)
LEMMA SortedTail ==
  ASSUME NEW q \in Seq(Token), q # <<>>
  PROVE  /\ Sorted(q) => Sorted(Tail(q))
         /\ \A n : Below(q, n) => Below(Tail(q), n)
<1>1. /\ Len(q) \in Nat /\ Len(Tail(q)) = Len(q) - 1
      /\ \A j \in 1 .. Len(Tail(q)) : Tail(q)[j] = q[j + 1] /\ j + 1 \in 1 .. Len(q)
  BY Taken
<1>2. ASSUME Sorted(q), NEW i \in 1 .. Len(Tail(q)), NEW j \in 1 .. Len(Tail(q)), i < j,
             Tail(q)[i][1] = 0, Tail(q)[j][1] = 0
      PROVE  Tail(q)[i][2] < Tail(q)[j][2]
  <2>1. /\ i + 1 \in 1 .. Len(q) /\ j + 1 \in 1 .. Len(q) /\ i + 1 < j + 1
        /\ Tail(q)[i] = q[i + 1] /\ Tail(q)[j] = q[j + 1]
    BY <1>1, <1>2
  <2> QED BY <1>2, <2>1 DEF Sorted
<1>3. ASSUME NEW n, Below(q, n) PROVE Below(Tail(q), n)
  BY <1>1, <1>3 DEF Below
<1> QED BY <1>2, <1>3 DEF Sorted

LEMMA SortedAppend ==
  ASSUME NEW q \in Seq(Token), NEW r \in Seq(Token), NEW c \in Token,
         Len(r) = Len(q) + 1, \A j \in 1 .. Len(q) : r[j] = q[j], r[Len(q) + 1] = c,
         Sorted(q), c[1] = 0 => Below(q, c[2])
  PROVE  /\ Sorted(r)
         /\ \A n : Below(q, n) /\ (c[1] = 0 => c[2] < n) => Below(r, n)
<1>0. Len(q) \in Nat /\ \A j \in 1 .. Len(r) : j \in 1 .. Len(q) \/ j = Len(q) + 1
  OBVIOUS
<1>1. ASSUME NEW i \in 1 .. Len(r), NEW j \in 1 .. Len(r), i < j, r[i][1] = 0, r[j][1] = 0
      PROVE  r[i][2] < r[j][2]
  <2>1. i \in 1 .. Len(q) /\ r[i] = q[i]
    BY <1>0, <1>1
  <2>2. CASE j \in 1 .. Len(q)
    BY <1>1, <2>1, <2>2 DEF Sorted
  <2>3. CASE j = Len(q) + 1
    BY <1>1, <2>1, <2>3 DEF Below
  <2> QED BY <1>0, <2>2, <2>3
<1>2. ASSUME NEW n, Below(q, n), c[1] = 0 => c[2] < n PROVE Below(r, n)
  BY <1>0, <1>2 DEF Below
<1> QED BY <1>1, <1>2 DEF Sorted

(* Only integers are compared.                                             *)
LEMMA BelowMore ==
  ASSUME TypeOK, NEW m \in Nat, NEW n \in Nat, m <= n, Below(tx, m)
  PROVE  Below(tx, n)
<1>1. \A j \in 1 .. Len(tx) : tx[j] \in Token
  BY DEF TypeOK
<1>2. \A t \in Token : t[2] \in Nat
  BY KeyIrqAssumption DEF Token
<1> QED BY <1>1, <1>2 DEF Below

LEMMA TxKept ==
  ASSUME TypeInv, ReadyInv, RxInv, TxInv, [Next]_vars
  PROVE  TxInv'
<1> USE KeyIrqAssumption DEF timerVars, mainVars, handlerVars, histVars, Unchanged_main
<1>0. /\ TypeOK /\ tx \in Seq(Token) /\ Len(tx) \in Nat /\ data \in Nat /\ mi \in Nat
      /\ hk \in Nat /\ hk # 0 /\ HelloLen \in Nat
  BY DEF TypeInv, TypeOK
<1>1. ASSUME UNCHANGED <<tx, data, mpc, mi, uart_ready>> PROVE TxInv'
  BY <1>1 DEF TxInv
<1>2. CASE HandlerSend
  <2>1. <<hk, hi + 1>> \in Token /\ UTXH0(<<hk, hi + 1>>)
    BY <1>2, StoredTokens DEF HandlerSend
  <2>2. UNCHANGED <<data, mpc, mi, uart_ready>>
    BY <1>2 DEF HandlerSend
  <2>3. CASE tx' = tx
    BY <1>1, <2>2, <2>3
  <2>4. CASE tx' # tx
    <3>1. /\ tx' \in Seq(Token) /\ Len(tx') = Len(tx) + 1
          /\ \A j \in 1 .. Len(tx) : tx'[j] = tx[j]
          /\ tx'[Len(tx) + 1] = <<hk, hi + 1>>
      BY <1>0, <2>1, <2>4, Stored
    <3>2. <<hk, hi + 1>>[1] # 0
      BY <1>0
    <3>3. Sorted(tx') /\ \A n : Below(tx, n) => Below(tx', n)
      BY <1>0, <2>1, <3>1, <3>2, SortedAppend DEF TxInv
    <3> QED BY <2>2, <3>3 DEF TxInv
  <2> QED BY <2>3, <2>4
<1>3. CASE MainHelloWrite
  <2>1. /\ <<0, mi>> \in Token /\ UTXH0(<<0, mi>>) /\ mi <= HelloLen /\ Below(tx, mi)
        /\ mpc = "hello_write"
    BY <1>3, StoredTokens DEF MainHelloWrite, TypeInv, LoopInv, HelloPCs, TxInv
  <2>2. /\ UNCHANGED <<data, uart_ready>>
        /\ \/ mpc' = "hello_wait" /\ mi' = mi + 1
           \/ mpc' = "get"
    BY <1>3 DEF MainHelloWrite
  <2>3. Sorted(tx') /\ Below(tx', mi + 1)
    <3>1. CASE tx' = tx
      BY <1>0, <2>1, <3>1, BelowMore DEF TxInv
    <3>2. CASE tx' # tx
      <4>1. /\ tx' \in Seq(Token) /\ Len(tx') = Len(tx) + 1
            /\ \A j \in 1 .. Len(tx) : tx'[j] = tx[j]
            /\ tx'[Len(tx) + 1] = <<0, mi>>
        BY <1>0, <2>1, <3>2, Stored
      <4>2. Below(tx, mi + 1)
        BY <1>0, <2>1, BelowMore
      <4>3. <<0, mi>>[2] = mi /\ mi < mi + 1
        BY <1>0
      <4> QED BY <1>0, <2>1, <4>1, <4>2, <4>3, SortedAppend DEF TxInv
    <3> QED BY <3>1, <3>2
  <2>4. Below(tx', HelloLen + data + 1)
    <3>1. tx' \in Seq(Token)
      BY <1>0, <2>1, Stored
    <3>2. \A j \in 1 .. Len(tx') : tx'[j] \in Token
      BY <3>1
    <3>3. \A t \in Token : t[2] \in Nat
      BY DEF Token
    <3> QED BY <1>0, <2>1, <2>3, <3>2, <3>3 DEF Below
  <2> QED BY <2>2, <2>3, <2>4 DEF TxInv, HelloPCs, SetUpPCs, LedPCs
<1>4. CASE MainPutWrite
  <2>1. /\ <<0, HelloLen + data>> \in Token /\ UTXH0(<<0, HelloLen + data>>)
        /\ mpc = "put_write" /\ Below(tx, HelloLen + data)
    BY <1>0, <1>4, StoredTokens DEF MainPutWrite, TxInv
  <2>2. UNCHANGED <<data, uart_ready>> /\ mpc' \in {"unmask", "get"}
    BY <1>4 DEF MainPutWrite
  <2>3. Sorted(tx') /\ Below(tx', HelloLen + data + 1)
    <3>1. Below(tx, HelloLen + data + 1)
      BY <1>0, <2>1, BelowMore
    <3>2. CASE tx' = tx
      BY <3>1, <3>2 DEF TxInv
    <3>3. CASE tx' # tx
      <4>1. /\ tx' \in Seq(Token) /\ Len(tx') = Len(tx) + 1
            /\ \A j \in 1 .. Len(tx) : tx'[j] = tx[j]
            /\ tx'[Len(tx) + 1] = <<0, HelloLen + data>>
        BY <1>0, <2>1, <3>3, Stored
      <4>2. <<0, HelloLen + data>>[2] = HelloLen + data /\ HelloLen + data < HelloLen + data + 1
        BY <1>0
      <4> QED BY <1>0, <2>1, <3>1, <4>1, <4>2, SortedAppend DEF TxInv
    <3> QED BY <3>2, <3>3
  <2> QED BY <2>2, <2>3 DEF TxInv, HelloPCs, SetUpPCs, LedPCs
<1>5. CASE Transmit
  <2>1. /\ tx # <<>> /\ tx' = Tail(tx) /\ UNCHANGED <<data, mpc, mi, uart_ready>>
    BY <1>5 DEF Transmit
  <2>2. Sorted(tx') /\ \A n : Below(tx, n) => Below(tx', n)
    BY <1>0, <2>1, SortedTail DEF TxInv
  <2> QED BY <2>1, <2>2 DEF TxInv
<1>6. CASE MainGetChar
  <2>1. rx # <<>> /\ rx \in Seq(1 .. MaxChars)
    BY <1>6 DEF MainGetChar, RxEmpty, TypeInv, TypeOK
  <2>2. data' = rx[1] /\ rx[1] \in Nat /\ data < rx[1]
    BY <1>6, <2>1, Taken DEF MainGetChar, RxInv
  <2>3. mpc = "get" /\ mpc' \in {"mask", "put_wait"} /\ UNCHANGED <<tx, uart_ready>>
    BY <1>6 DEF MainGetChar
  <2>4. Below(tx, HelloLen + data + 1)
    BY <2>3 DEF TxInv
  <2>5. Below(tx, HelloLen + rx[1])
    BY <1>0, <2>2, <2>4, BelowMore
  <2>6. HelloLen + rx[1] + 0 = HelloLen + rx[1]
    BY <1>0, <2>2
  <2> QED BY <2>2, <2>3, <2>5, <2>6 DEF TxInv, HelloPCs, SetUpPCs, LedPCs
<1>7. CASE MainUartFormat
  <2>1. /\ mpc = "format" /\ mpc' = "hello_wait" /\ UNCHANGED <<tx, data>>
    BY <1>7 DEF MainUartFormat
  <2>2. tx = <<>>
    BY <2>1 DEF TxInv, SetUpPCs, ReadyInv
  <2> QED BY <2>1, <2>2 DEF TxInv, SetUpPCs, LedPCs, Below, Sorted
<1>8. CASE MainLedsInit \/ MainLedRead \/ MainLedWrite \/ MainTimerInit \/ MainUartPins
  <2>1. /\ mpc \in SetUpPCs /\ mpc' \in SetUpPCs /\ UNCHANGED <<tx, data, uart_ready>>
    BY <1>8 DEF MainLedsInit, MainLedRead, MainLedWrite, MainTimerInit, MainUartPins,
       SetUpPCs, LedPCs
  <2> QED BY <2>1 DEF TxInv, SetUpPCs, LedPCs, HelloPCs
<1>9. CASE MainHelloWait \/ MainMask \/ MainPutWait \/ MainUnmask
  <2>1. UNCHANGED <<tx, data, mi, uart_ready>>
    BY <1>9 DEF MainHelloWait, MainMask, MainPutWait, MainUnmask
  <2>2. \/ mpc = "hello_wait" /\ mpc' = "hello_write"
        \/ mpc = "mask" /\ mpc' = "put_wait"
        \/ mpc = "put_wait" /\ mpc' = "put_write"
        \/ mpc = "unmask" /\ mpc' = "get"
    BY <1>9 DEF MainHelloWait, MainMask, MainPutWait, MainUnmask
  <2> QED BY <2>1, <2>2 DEF TxInv, SetUpPCs, LedPCs, HelloPCs
<1>10. ASSUME NEW k \in Keys, Press(k) PROVE UNCHANGED <<tx, data, mpc, mi, uart_ready>>
  BY <1>10 DEF Press
<1>11. CASE Tick \/ Receive \/ HandlerEnter \/ HandlerTest \/ HandlerSent \/ HandlerClear
            \/ HandlerReturn \/ TimerEnter \/ TimerBlink \/ TimerClear \/ MainPoll
            \/ UNCHANGED vars
  <2>1. UNCHANGED <<tx, data, mpc, mi, uart_ready>>
    BY <1>11 DEF Tick, Receive, HandlerEnter, HandlerTest, HandlerSent, HandlerClear,
       HandlerReturn, TimerEnter, TimerBlink, TimerClear, MainPoll, vars
  <2> QED BY <1>1, <2>1
<1> QED BY <1>1, <1>2, <1>3, <1>4, <1>5, <1>6, <1>7, <1>8, <1>9, <1>10, <1>11
        DEF Next, key_irq_handler, timer0_irq_handler, main

(* The echo keeps the order of what was received and repeats nothing.      *)
THEOREM EchoOrderAlways == Spec => []EchoOrder
<1>1. Init => TxInv
  BY KeyIrqAssumption DEF Init, TxInv, Sorted, Below, SetUpPCs, LedPCs, HelloPCs
<1>2. ASSUME TypeInv, RxInv, TxInv PROVE EchoOrder
  <2>1. /\ data \in Nat /\ HelloLen \in Nat
        /\ \A j \in 1 .. Len(tx) : tx[j][2] \in Nat
    <3>1. FifoType
      BY <1>2, TypeParts DEF TypeInv
    <3> QED BY <3>1, KeyIrqAssumption DEF FifoType, Token
  <2>2. \A i, j \in 1 .. Len(tx) :
           i < j /\ tx[i][1] = 0 /\ tx[j][1] = 0 => tx[i][2] < tx[j][2]
    BY <1>2 DEF TxInv, Sorted
  <2>3. \A j \in 1 .. Len(tx) :
           tx[j][1] = 0 => IF mpc \in {"mask", "put_wait", "put_write"}
                           THEN tx[j][2] < HelloLen + data
                           ELSE tx[j][2] <= HelloLen + data
    BY <1>2, <2>1 DEF TxInv, Below
  <2>4. \A j \in 1 .. Len(rx) : data < rx[j] /\ (j < Len(rx) => rx[j] < rx[j+1])
    BY <1>2 DEF RxInv, TypeInv, TypeOK
  <2> QED BY <2>2, <2>3, <2>4 DEF EchoOrder
<1> QED BY <1>1, <1>2, TxKept, ReadyInvAlways, RxInvAlways, TypeInvAlways, PTL DEF Spec
=============================================================================
