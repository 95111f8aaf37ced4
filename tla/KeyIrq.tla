------------------------------- MODULE KeyIrq -------------------------------
(***************************************************************************)
(* The bare-metal program no-os/interrupt/irq_advanced: main() initialises *)
(* the LEDs and UART0 and then echoes what it receives, while the keys     *)
(* interrupt it (start.S enables IRQ before it jumps to main); and the     *)
(* program no-os/timer, the same with a timer whose interrupt makes LED 1  *)
(* blink, and with IRQ disabled while main sends a character.              *)
(* Handlers run with IRQ disabled, so main makes no step while one runs;   *)
(* the hardware does: keys are pressed, the timer ticks, the receiver      *)
(* fills its FIFO and the transmitter drains its own.                      *)
(*                                                                         *)
(* Keys 1..K-1 switch their LED on, key K switches all of them off (K = 4  *)
(* on the board).  The strings are reduced to their lengths: a character   *)
(* of a key's message is <<key, index>>, a character of main <<0, n>> with *)
(* n counting what main sends.                                             *)
(***************************************************************************)
EXTENDS Naturals, Sequences

CONSTANTS
    K,         \* keys, and LEDs (4)
    MsgLen,    \* characters of "C irq - key n\n\r" (15)
    HelloLen,  \* characters of main's greeting (16)
    TxDepth,   \* entries of the transmit FIFO (64)
    RxDepth,   \* entries of the receive FIFO (64)
    MaxChars,  \* bound: characters that arrive
    MaxPress,  \* bound: key presses
    MaxTick    \* bound: ticks of the timer

ASSUME KeyIrqAssumption ==
    /\ K \in Nat \ {0, 1} /\ MsgLen \in Nat \ {0} /\ HelloLen \in Nat \ {0}
    /\ TxDepth \in Nat \ {0} /\ RxDepth \in Nat \ {0}
    /\ MaxChars \in Nat /\ MaxPress \in Nat /\ MaxTick \in Nat

VARIABLES
    program,       \* which of the two programs runs
    masked,        \* the I bit of main's CPSR
    timer_on,      \* timer_init is done
    tick,          \* the status bit of timer 0 in TINT_CSTAT
    my_led_flag,
    EINT0PEND,     \* the latched keys
    leds,          \* GPKDAT: the LEDs that are on
    uart_ready,    \* UART0_Set_Format is done
    tx, rx,        \* the FIFOs of UART0
    mpc, mi,       \* where main is, and its loop index
    tmp,           \* the value of GPKDAT main is about to write back
    data,          \* the character main is about to send
    hpc, hk, hi,   \* where the handler is, the key it tests, characters sent
    arrived,       \* characters received so far
    presses,       \* keys pressed so far
    ticks,         \* ticks so far
    served,        \* history: keys served by this run of the handler
    late,          \* history: keys pressed again after their test in this run
    ledspec,       \* history: the LEDs if every switch of one were a single step
    undone,        \* history: LEDs switched while main was about to write GPKDAT back
    lost           \* history: the characters a full FIFO dropped

mainVars == <<mpc, mi, tmp, data>>
handlerVars == <<hpc, hk, hi>>
histVars == <<served, late, ledspec, undone, lost>>
timerVars == <<program, timer_on, tick, my_led_flag, ticks>>
vars == <<timerVars, masked, EINT0PEND, leds, uart_ready, tx, rx, mainVars, handlerVars, arrived,
          presses, histVars>>

Keys == 1 .. K
Token == ({0} \X (1 .. HelloLen + MaxChars)) \cup (Keys \X (1 .. MsgLen))
MainPC == {"leds_init", "led_read", "led_write", "timer", "port", "baud", "format",
           "hello_wait", "hello_write", "get", "mask", "put_wait", "put_write", "unmask"}
HandlerPC == {"idle", "test", "send", "eoi", "tick", "tick_clear"}

(* The type of every variable; the FIFOs hold at most their depth.         *)
TypeOK ==
    /\ program \in {"irq_advanced", "timer"}
    /\ {masked, timer_on, tick} \subseteq BOOLEAN
    /\ my_led_flag \in {0, 1} /\ ticks \in 0 .. MaxTick
    /\ EINT0PEND \subseteq Keys
    /\ leds \subseteq Keys
    /\ uart_ready \in BOOLEAN
    /\ tx \in Seq(Token) /\ Len(tx) <= TxDepth
    /\ rx \in Seq(1 .. MaxChars) /\ Len(rx) <= RxDepth
    /\ mpc \in MainPC
    /\ mi \in 1 .. (IF K > HelloLen THEN K ELSE HelloLen)
    /\ tmp \subseteq Keys
    /\ data \in 0 .. MaxChars
    /\ hpc \in HandlerPC
    /\ hk \in 1 .. K + 1
    /\ hi \in 0 .. MsgLen
    /\ arrived \in 0 .. MaxChars
    /\ presses \in 0 .. MaxPress
    /\ served \subseteq Keys
    /\ late \subseteq Keys
    /\ ledspec \subseteq Keys
    /\ undone \subseteq Keys
    /\ lost \subseteq Token

(* irq_init clears every latched key before it unmasks the keys.           *)
ClearedKeys == {}

(* IRQ has just been enabled, at the end of start.S; the LEDs are as the   *)
(* boot loader left them and UART0 is not configured.                      *)
Init ==
    /\ program \in {"irq_advanced", "timer"} /\ masked = FALSE
    /\ timer_on = FALSE /\ tick = FALSE /\ my_led_flag = 0 /\ ticks = 0
    /\ EINT0PEND = ClearedKeys /\ leds \in SUBSET Keys /\ uart_ready = FALSE
    /\ tx = <<>> /\ rx = <<>>
    /\ mpc = "leds_init" /\ mi = 1 /\ tmp = {} /\ data = 0
    /\ hpc = "idle" /\ hk = 1 /\ hi = 0
    /\ arrived = 0 /\ presses = 0
    /\ served = {} /\ late = {} /\ ledspec = leds /\ undone = {} /\ lost = {}
-----------------------------------------------------------------------------
(* The hardware.                                                           *)

(* A falling edge on the pin of key k sets its bit of EINT0PEND.           *)
Press(k) ==
    /\ presses < MaxPress
    /\ presses' = presses + 1
    /\ EINT0PEND' = EINT0PEND \cup {k}
    /\ late' = IF hpc # "idle" /\ k < hk THEN late \cup {k} ELSE late
    /\ UNCHANGED <<timerVars, masked, leds, uart_ready, tx, rx, mainVars, handlerVars,
                   arrived, served, ledspec, undone, lost>>

(* The timer reaches zero and reloads; a tick already latched hides it.    *)
Tick ==
    /\ timer_on /\ ticks < MaxTick
    /\ ticks' = ticks + 1
    /\ tick' = TRUE
    /\ UNCHANGED <<program, timer_on, my_led_flag, masked, EINT0PEND, leds, uart_ready,
                   tx, rx, mainVars, handlerVars, arrived, presses, histVars>>

(* A character arrives; a full receive FIFO drops it.                      *)
Receive ==
    /\ arrived < MaxChars /\ uart_ready
    /\ arrived' = arrived + 1
    /\ rx' = IF Len(rx) < RxDepth THEN Append(rx, arrived + 1) ELSE rx
    /\ UNCHANGED <<timerVars, masked, EINT0PEND, leds, uart_ready, tx, mainVars,
                   handlerVars, presses, histVars>>

(* The transmitter takes the oldest character of its FIFO.                 *)
Transmit ==
    /\ tx # <<>>
    /\ tx' = Tail(tx)
    /\ UNCHANGED <<timerVars, masked, EINT0PEND, leds, uart_ready, rx, mainVars,
                   handlerVars, arrived, presses, histVars>>

TxFull_Ignored == FALSE

(* UFSTAT0 & (1<<14)                                                       *)
TxFull == Len(tx) = TxDepth

(* A store to UTXH0: a full FIFO drops it, and before UART0 is set up it   *)
(* goes nowhere.                                                           *)
UTXH0(char) ==
    \/ uart_ready /\ Len(tx) < TxDepth /\ tx' = Append(tx, char) /\ UNCHANGED lost
    \/ uart_ready /\ Len(tx) = TxDepth /\ lost' = lost \cup {char} /\ UNCHANGED tx
    \/ ~uart_ready /\ UNCHANGED <<tx, lost>>
-----------------------------------------------------------------------------
(* key_irq_handler                                                         *)

(* The core takes the interrupt between two instructions of main.          *)
HandlerEnter ==
    /\ hpc = "idle" /\ ~masked /\ EINT0PEND # {}
    /\ hpc' = "test" /\ hk' = 1 /\ hi' = 0
    /\ served' = {} /\ late' = {}
    /\ UNCHANGED <<timerVars, masked, EINT0PEND, leds, uart_ready, tx, rx, mainVars,
                   arrived, presses, ledspec, undone, lost>>

(* leds_ON(k), or leds_OFF_all() for the last key.                         *)
LedsAfter(k, on) == IF k = K THEN {} ELSE on \cup {k}
Switched(k) == IF k = K THEN Keys ELSE {k}

(* History: a handler makes the LEDs on, having switched those of which.   *)
(* In the window of main's write what it changes is at risk; outside, what *)
(* it switches is settled.                                                 *)
Exposed(on, which) ==
    undone' = IF mpc = "led_write" THEN undone \cup (leds \ on) \cup (on \ leds)
                                   ELSE undone \ which

AfterTest_ElseIf(k) == K + 1

(* The key tested after key k was served: the four ifs are independent.    *)
AfterTest(k) == k + 1

(* The test of the bit of key hk, read from EINT0PEND at that moment, and  *)
(* the LEDs it switches.                                                   *)
HandlerTest ==
    /\ hpc = "test" /\ hk <= K
    /\ IF hk \in EINT0PEND
       THEN /\ leds' = LedsAfter(hk, leds)
            /\ ledspec' = LedsAfter(hk, ledspec)
            /\ Exposed(leds', Switched(hk))
            /\ served' = served \cup {hk}
            /\ hpc' = "send"
            /\ UNCHANGED hk
       ELSE /\ hk' = hk + 1
            /\ UNCHANGED <<leds, ledspec, undone, served, hpc>>
    /\ UNCHANGED <<timerVars, masked, EINT0PEND, uart_ready, tx, rx, mainVars, hi,
                   arrived, presses, late, lost>>

(* UART0_SendString: wait for room, then store the next character.         *)
HandlerSend ==
    /\ hpc = "send" /\ hi < MsgLen /\ ~TxFull
    /\ UTXH0(<<hk, hi + 1>>)
    /\ hi' = hi + 1
    /\ UNCHANGED <<timerVars, masked, EINT0PEND, leds, uart_ready, rx, mainVars, hpc,
                   hk, arrived, presses, served, late, ledspec, undone>>

HandlerSent ==
    /\ hpc = "send" /\ hi = MsgLen
    /\ hpc' = "test" /\ hk' = AfterTest(hk) /\ hi' = 0
    /\ UNCHANGED <<timerVars, masked, EINT0PEND, leds, uart_ready, tx, rx, mainVars,
                   arrived, presses, histVars>>

StillPending_NotCleared == EINT0PEND

(* EINT0PEND = 0xf clears every bit that is set by now.                    *)
StillPending == {}

HandlerClear ==
    /\ hpc = "test" /\ hk = K + 1
    /\ EINT0PEND' = StillPending
    /\ hpc' = "eoi"
    /\ UNCHANGED <<timerVars, masked, leds, uart_ready, tx, rx, mainVars, hk, hi,
                   arrived, presses, histVars>>

(* VIC0ADDRESS = 0, and back to the interrupted instruction.               *)
HandlerReturn ==
    /\ hpc = "eoi"
    /\ hpc' = "idle" /\ hk' = 1
    /\ served' = {} /\ late' = {}
    /\ UNCHANGED <<timerVars, masked, EINT0PEND, leds, uart_ready, tx, rx, mainVars, hi,
                   arrived, presses, ledspec, undone, lost>>

key_irq_handler ==
    HandlerTest \/ HandlerSend \/ HandlerSent \/ HandlerClear \/ HandlerReturn
-----------------------------------------------------------------------------
(* timer0_irq_handler; the keys are source 0 of the controller and go      *)
(* first, the timer is source 23.                                          *)

TimerEnter ==
    /\ hpc = "idle" /\ ~masked /\ tick /\ EINT0PEND = {}
    /\ hpc' = "tick"
    /\ UNCHANGED <<timerVars, masked, EINT0PEND, leds, uart_ready, tx, rx, mainVars, hk,
                   hi, arrived, presses, histVars>>

(* leds_ON(1) or leds_OFF(1), in turn.                                     *)
Blink(flag, on) == IF flag = 1 THEN on \cup {1} ELSE on \ {1}

TimerBlink ==
    /\ hpc = "tick"
    /\ my_led_flag' = (my_led_flag + 1) % 2
    /\ leds' = Blink(my_led_flag', leds)
    /\ ledspec' = Blink(my_led_flag', ledspec)
    /\ Exposed(leds', {1})
    /\ hpc' = "tick_clear"
    /\ UNCHANGED <<program, timer_on, tick, ticks, masked, EINT0PEND, uart_ready, tx, rx,
                   mainVars, hk, hi, arrived, presses, served, late, lost>>

TickAfter_NotCleared == tick

(* TINT_CSTAT |= 1 << 5: the bit is cleared by writing 1.                  *)
TickAfter == FALSE

TimerClear ==
    /\ hpc = "tick_clear"
    /\ tick' = TickAfter
    /\ hpc' = "eoi"
    /\ UNCHANGED <<program, timer_on, my_led_flag, ticks, masked, EINT0PEND, leds,
                   uart_ready, tx, rx, mainVars, hk, hi, arrived, presses, histVars>>

timer0_irq_handler == TimerBlink \/ TimerClear
-----------------------------------------------------------------------------
(* main                                                                    *)

(* What no step of main but the ones that say so changes.                  *)
Unchanged_main == UNCHANGED <<EINT0PEND, handlerVars, arrived, presses, served, late,
                              program, tick, ticks, my_led_flag>>

(* leds_init switches the pins to output, GPKDAT stays as it is.           *)
MainLedsInit ==
    /\ mpc = "leds_init" /\ hpc = "idle"
    /\ mpc' = "led_read"
    /\ UNCHANGED <<leds, uart_ready, tx, rx, mi, tmp, data, ledspec, undone, lost>>
    /\ Unchanged_main /\ UNCHANGED <<timer_on, masked>>

leds_OFF_Register(i, on) == {}

(* LEDi_OFF sets the bit of its LED and keeps the others.                  *)
leds_OFF(i, on) == on \ {i}

(* leds_OFF_all: LEDi_OFF reads GPKDAT ...                                 *)
MainLedRead ==
    /\ mpc = "led_read" /\ hpc = "idle"
    /\ tmp' = leds_OFF(mi, leds)
    /\ mpc' = "led_write"
    /\ UNCHANGED <<leds, uart_ready, tx, rx, mi, data, ledspec, undone, lost>>
    /\ Unchanged_main /\ UNCHANGED <<timer_on, masked>>

LedsLeft_OneMore == mi <= K

(* i <= LEDS_NUMBER after i++                                              *)
LedsLeft == mi < K

(* ... and writes it back, with what the handler did to it meanwhile.      *)
MainLedWrite ==
    /\ mpc = "led_write" /\ hpc = "idle"
    /\ leds' = tmp
    /\ tmp' = {}
    /\ mpc' = IF LedsLeft THEN "led_read"
              ELSE IF program = "timer" THEN "timer" ELSE "port"
    /\ mi' = IF LedsLeft THEN mi + 1 ELSE 1
    /\ ledspec' = ledspec \ {mi}
    /\ undone' = undone \ {mi}
    /\ UNCHANGED <<uart_ready, tx, rx, data, lost>>
    /\ Unchanged_main /\ UNCHANGED <<timer_on, masked>>

(* timer_init: the interrupt is enabled last, and writing TINT_CSTAT back  *)
(* clears its status bit.                                                  *)
MainTimerInit ==
    /\ mpc = "timer" /\ hpc = "idle"
    /\ timer_on' = TRUE
    /\ mpc' = "port"
    /\ UNCHANGED <<leds, uart_ready, tx, rx, mi, tmp, data, ledspec, undone, lost>>
    /\ Unchanged_main /\ UNCHANGED masked

(* UART0_Port_Init, UART0_Set_BaudRate                                     *)
MainUartPins ==
    /\ mpc \in {"port", "baud"} /\ hpc = "idle"
    /\ mpc' = IF mpc = "port" THEN "baud" ELSE "format"
    /\ UNCHANGED <<leds, uart_ready, tx, rx, mi, tmp, data, ledspec, undone, lost>>
    /\ Unchanged_main /\ UNCHANGED <<timer_on, masked>>

(* UART0_Set_Format enables both FIFOs (the reset bits are 0 in uart.h).   *)
MainUartFormat ==
    /\ mpc = "format" /\ hpc = "idle"
    /\ uart_ready' = TRUE
    /\ mpc' = "hello_wait"
    /\ UNCHANGED <<leds, tx, rx, mi, tmp, data, ledspec, undone, lost>>
    /\ Unchanged_main /\ UNCHANGED <<timer_on, masked>>

(* UART0_SendString of the greeting: the test of UFSTAT0 ...               *)
MainHelloWait ==
    /\ mpc = "hello_wait" /\ hpc = "idle" /\ ~TxFull
    /\ mpc' = "hello_write"
    /\ UNCHANGED <<leds, uart_ready, tx, rx, mi, tmp, data, ledspec, undone, lost>>
    /\ Unchanged_main /\ UNCHANGED <<timer_on, masked>>

(* ... and the store, which an interrupt may separate.                     *)
MainHelloWrite ==
    /\ mpc = "hello_write" /\ hpc = "idle"
    /\ UTXH0(<<0, mi>>)
    /\ mi' = IF mi < HelloLen THEN mi + 1 ELSE 1
    /\ mpc' = IF mi < HelloLen THEN "hello_wait" ELSE "get"
    /\ UNCHANGED <<leds, uart_ready, rx, tmp, data, ledspec, undone>>
    /\ Unchanged_main /\ UNCHANGED <<timer_on, masked>>

RxEmpty_Ignored == arrived = 0

(* (UFSTAT0 & 0x7f) == 0                                                   *)
RxEmpty == rx = <<>>

(* UART0_GetChar: busy-wait, then take the oldest character (URXH0 of an   *)
(* empty FIFO would give the last one again).                              *)
MainPoll == mpc = "get" /\ hpc = "idle" /\ RxEmpty /\ UNCHANGED vars

MainGetChar ==
    /\ mpc = "get" /\ hpc = "idle" /\ ~RxEmpty
    /\ data' = IF rx = <<>> THEN data ELSE Head(rx)
    /\ rx' = IF rx = <<>> THEN rx ELSE Tail(rx)
    /\ mpc' = IF program = "timer" THEN "mask" ELSE "put_wait"
    /\ UNCHANGED <<leds, uart_ready, tx, mi, tmp, ledspec, undone, lost>>
    /\ Unchanged_main /\ UNCHANGED <<timer_on, masked>>

Masks_NotYet == FALSE

(* irq_disable sets the I bit.                                             *)
Masks == TRUE

MainMask ==
    /\ mpc = "mask" /\ hpc = "idle"
    /\ masked' = Masks
    /\ mpc' = "put_wait"
    /\ UNCHANGED <<leds, uart_ready, tx, rx, mi, tmp, data, ledspec, undone, lost>>
    /\ Unchanged_main /\ UNCHANGED timer_on

(* UART0_PutChar: the test, and the store.                                 *)
MainPutWait ==
    /\ mpc = "put_wait" /\ hpc = "idle" /\ ~TxFull
    /\ mpc' = "put_write"
    /\ UNCHANGED <<leds, uart_ready, tx, rx, mi, tmp, data, ledspec, undone, lost>>
    /\ Unchanged_main /\ UNCHANGED <<timer_on, masked>>

MainPutWrite ==
    /\ mpc = "put_write" /\ hpc = "idle"
    /\ UTXH0(<<0, HelloLen + data>>)
    /\ mpc' = IF program = "timer" THEN "unmask" ELSE "get"
    /\ UNCHANGED <<leds, uart_ready, rx, mi, tmp, data, ledspec, undone>>
    /\ Unchanged_main /\ UNCHANGED <<timer_on, masked>>

Unmasks_Kept == masked

(* irq_enable clears the I bit.                                            *)
Unmasks == FALSE

MainUnmask ==
    /\ mpc = "unmask" /\ hpc = "idle"
    /\ masked' = Unmasks
    /\ mpc' = "get"
    /\ UNCHANGED <<leds, uart_ready, tx, rx, mi, tmp, data, ledspec, undone, lost>>
    /\ Unchanged_main /\ UNCHANGED timer_on

main == \/ MainLedsInit \/ MainLedRead \/ MainLedWrite
        \/ MainTimerInit \/ MainUartPins \/ MainUartFormat
        \/ MainHelloWait \/ MainHelloWrite
        \/ MainPoll \/ MainGetChar
        \/ MainMask \/ MainPutWait \/ MainPutWrite \/ MainUnmask
-----------------------------------------------------------------------------
Next == \/ \E k \in Keys : Press(k)
        \/ Tick \/ Receive \/ Transmit
        \/ HandlerEnter \/ key_irq_handler
        \/ TimerEnter \/ timer0_irq_handler
        \/ main

Spec == Init /\ [][Next]_vars

(* The core executes instructions, takes a pending interrupt, and the      *)
(* transmitter shifts characters out.  Nothing is assumed of keys and of   *)
(* the other end of the line.                                              *)
Fairness == /\ WF_vars(Transmit) /\ SF_vars(HandlerEnter) /\ SF_vars(TimerEnter)
            /\ WF_vars(key_irq_handler) /\ WF_vars(timer0_irq_handler) /\ WF_vars(main)

LiveSpec == Spec /\ Fairness
-----------------------------------------------------------------------------
(* Safety.                                                                 *)

(* A key pressed before the handler tests its bit is served by this run:   *)
(* the bits the handler clears without serving them were set after their   *)
(* test.                                                                   *)
ClearedWereServed ==
    [][\A k \in Keys : k \in EINT0PEND /\ k \notin EINT0PEND' => k \in served \cup late]_vars

(* The message of a key reaches the transmit FIFO in one piece and whole:  *)
(* no character of it is dropped, none of main's gets between, whatever    *)
(* main was doing and however full the FIFO was.                           *)
MessagesWhole ==
    /\ \A c \in lost : c[1] = 0
    /\ \A j \in 1 .. Len(tx) :
          tx[j][1] # 0 /\ tx[j][2] < MsgLen =>
             IF j < Len(tx)
             THEN tx[j+1] = <<tx[j][1], tx[j][2] + 1>>
             ELSE hpc = "send" /\ hk = tx[j][1] /\ hi = tx[j][2]

(* The echo keeps the order of what was received and repeats nothing: what *)
(* waits in the transmit FIFO is older than the character main holds, and  *)
(* that one is older than what waits in the receive FIFO.                  *)
EchoOrder ==
    /\ \A i, j \in 1 .. Len(tx) :
          i < j /\ tx[i][1] = 0 /\ tx[j][1] = 0 => tx[i][2] < tx[j][2]
    /\ \A j \in 1 .. Len(tx) :
          tx[j][1] = 0 => IF mpc \in {"mask", "put_wait", "put_write"}
                          THEN tx[j][2] < HelloLen + data
                          ELSE tx[j][2] <= HelloLen + data
    /\ \A j \in 1 .. Len(rx) : data < rx[j] /\ (j < Len(rx) => rx[j] < rx[j+1])

(* main and the handler share GPKDAT without a lock.  What the handler     *)
(* switches between the two halves of a read-modify-write of main may be   *)
(* undone; nothing else is: every other LED is as keys, main and timer     *)
(* left it, and so is an undone one as soon as it is switched again.       *)
OnlyWindowUndone == \A k \in Keys \ undone : k \in leds <=> k \in ledspec

(* With IRQ disabled around it, PutChar of the timer program never loses   *)
(* an echoed character: no key message fills the FIFO between its test and *)
(* its store.  The greeting has no such protection.                        *)
EchoKept == program = "timer" => \A c \in lost : c[2] <= HelloLen
-----------------------------------------------------------------------------
(* A comment of irq_advanced says what the program does not do.            *)

(* uart.c:71-72: PutChar waits while the FIFO is full and writes when it   *)
(* is not.  The handler may fill it between main's test and main's store,  *)
(* and the echoed character is dropped.                                    *)
PutCharKeeps == \A c \in lost : c[1] = 0 => c[2] <= HelloLen
-----------------------------------------------------------------------------
(* Liveness.                                                               *)

(* What was received is echoed (or dropped by a full FIFO), however often  *)
(* the keys interrupt main.                                                *)
EchoHappens ==
    \A n \in 1 .. MaxChars :
        (\E j \in 1 .. Len(rx) : rx[j] = n) ~> (data >= n /\ mpc = "get")

(* A key press and a tick are not left waiting, however main disables and  *)
(* enables IRQ and however the other interrupt comes between.              *)
InterruptsTaken ==
    /\ \A k \in Keys : k \in EINT0PEND ~> k \notin EINT0PEND
    /\ tick ~> ~tick
=============================================================================
