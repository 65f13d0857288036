----------------------------- MODULE PinTables -----------------------------
(***************************************************************************)
(* The lookup tables of src/lib/wiringPi.c: pin numbers of the two header  *)
(* layouts, the registers and alternate functions of each BCM pin, and     *)
(* what piGpioLayout, piBoardId and wiringPiSetup make of the revision     *)
(* line of /proc/cpuinfo.  A revision is the sequence of its hex digits.   *)
(***************************************************************************)
EXTENDS Integers, Sequences, Folds, SequencesExt

NoGpio == -1

\* A C table of 64 entries given by its first ones.
Padded(first) == [i \in 0 .. 63 |-> IF i < Len(first) THEN first[i + 1] ELSE NoGpio]

pinToGpioR1 ==
    Padded(<<17, 18, 21, 22, 23, 24, 25, 4, 0, 1, 8, 7, 10, 9, 11, 14, 15>>)

pinToGpioR2 ==
    Padded(<<17, 18, 27, 22, 23, 24, 25, 4, 2, 3, 8, 7, 10, 9, 11, 14, 15,
             28, 29, 30, 31, 5, 6, 13, 19, 26, 12, 16, 20, 21, 0, 1>>)

physToGpioR1 ==
    Padded(<<-1, -1, -1, 0, -1, 1, -1, 4, 14, -1, 15, 17, 18, 21, -1, 22, 23, -1, 24,
             10, -1, 9, 25, 11, 8, -1, 7>>)

physToGpioR2 ==
    Padded(<<-1, -1, -1, 2, -1, 3, -1, 4, 14, -1, 15, 17, 18, 27, -1, 22, 23, -1, 24,
             10, -1, 9, 25, 11, 8, -1, 7,
             0, 1, 5, -1, 6, 12, 13, -1, 19, 16, 26, 20, -1, 21,
             -1, -1, -1, -1, -1, -1, -1, -1, -1, -1, 28, 29, 30, 31>>)

PinTable(layout)  == IF layout = 1 THEN pinToGpioR1 ELSE pinToGpioR2
PhysTable(layout) == IF layout = 1 THEN physToGpioR1 ELSE physToGpioR2

\* gpioToGPFSEL: ten pins share a function select register.  (gpioToGPSET,
\* gpioToGPCLR, gpioToGPLEV and gpioToPUDCLK split the pins at 32.)
GPFSEL(p) == p \div 10
Bank(p)   == p \div 32

FSEL_INPT == 0
FSEL_OUTP == 1
FSEL_ALT0 == 4
FSEL_ALT5 == 2

\* 0 stands for "cannot", as in the tables.
gpioToPwmALT(p) ==
    CASE p \in {12, 13, 40, 41, 45} -> FSEL_ALT0
      [] p \in {18, 19} -> FSEL_ALT5
      [] OTHER -> 0

\* The channel whose data register a pin is driven from; pins without one
\* have entry 0, which is PWM_CONTROL.
PWM_CONTROL == 0
PWM0_DATA   == 5
PWM1_DATA   == 9
gpioToPwmPort(p) ==
    CASE p \in {12, 18, 40} -> PWM0_DATA
      [] p \in {13, 19, 41, 45} -> PWM1_DATA
      [] OTHER -> PWM_CONTROL

gpioToGpClkALT0(p) ==
    CASE p \in {4, 5, 6, 32, 34, 42, 43, 44} -> FSEL_ALT0
      [] p \in {20, 21} -> FSEL_ALT5
      [] OTHER -> 0

\* Offsets of the clock control registers; -1 becomes 255 in a uint8_t.  The
\* divisor register gpioToClkDiv is the next word.
NoClock     == 255
PWMCLK_CNTL == 40
gpioToClkCon(p) ==
    CASE p \in {4, 20, 32, 34, 42, 44} -> 28
      [] p \in {5, 21, 43} -> 30
      [] p = 6 -> 32
      [] OTHER -> NoClock

-----------------------------------------------------------------------------
ValueOf(digits)  == FoldLeft(LAMBDA v, d : 16 * v + d, 0, digits)
LastFour(digits) == SubSeq(digits, Len(digits) - 3, Len(digits))
Field(v, low, width) == (v \div 2^low) % 2^width

\* Overvolting puts digits before the last four.
piGpioLayout(digits) ==
    IF ValueOf(LastFour(digits)) \in {2, 3} THEN 1 ELSE 2

PI_MODEL_A      == 0
PI_MODEL_B      == 1
PI_MODEL_AP     == 2
PI_MODEL_BP     == 3
PI_MODEL_2      == 4
PI_ALPHA        == 5
PI_MODEL_CM     == 6
PI_MODEL_3      == 8
PI_MODEL_ZERO   == 9
PI_MODEL_CM3    == 10
PI_MODEL_ZERO_W == 12

Board(model, rev, mem, maker) == [model |-> model, rev |-> rev, mem |-> mem, maker |-> maker]

\* The original boards, by their last four digits.
OldBoard(code) ==
    CASE code = 2 -> Board(PI_MODEL_B, 0, 0, 1)
      [] code = 3 -> Board(PI_MODEL_B, 1, 0, 1)
      [] code = 4 -> Board(PI_MODEL_B, 2, 0, 0)
      [] code \in {5, 6} -> Board(PI_MODEL_B, 2, 0, 1)
      [] code \in {7, 9} -> Board(PI_MODEL_A, 2, 0, 1)
      [] code = 8 -> Board(PI_MODEL_A, 2, 0, 0)
      [] code \in {13, 15} -> Board(PI_MODEL_B, 2, 1, 1)
      [] code = 14 -> Board(PI_MODEL_B, 2, 1, 0)
      [] code \in {16, 22} -> Board(PI_MODEL_BP, 2, 1, 0)
      [] code = 19 -> Board(PI_MODEL_BP, 2, 1, 2)
      [] code = 25 -> Board(PI_MODEL_BP, 2, 1, 1)
      [] code \in {17, 23} -> Board(PI_MODEL_CM, 1, 1, 0)
      [] code = 20 -> Board(PI_MODEL_CM, 1, 1, 2)
      [] code = 26 -> Board(PI_MODEL_CM, 1, 1, 1)
      [] code \in {18, 24} -> Board(PI_MODEL_AP, 1, 0, 0)
      [] code = 21 -> Board(PI_MODEL_AP, 1, 1, 2)
      [] code = 27 -> Board(PI_MODEL_AP, 1, 0, 1)
      [] OTHER -> Board(0, 0, 0, 0)

NewScheme(digits) == Field(ValueOf(digits), 23, 1) = 1

piBoardId(digits) ==
    LET v == ValueOf(digits)
    IN  IF NewScheme(digits)
          THEN Board(Field(v, 4, 8), Field(v, 0, 4), Field(v, 20, 3), Field(v, 16, 4))
          ELSE OldBoard(ValueOf(LastFour(digits)))

\* wiringPiSetup: which boards have their peripherals at the old address,
\* and which ones have no header and are numbered like the chip.
OldBase(model) == model \in {PI_MODEL_A, PI_MODEL_B, PI_MODEL_AP, PI_MODEL_BP, PI_ALPHA,
                             PI_MODEL_CM, PI_MODEL_ZERO, PI_MODEL_ZERO_W}
NoHeader(model) == model \in {PI_MODEL_CM, PI_MODEL_CM3}
=============================================================================
