----------------------------- MODULE MCGpioCore -----------------------------
(* An instance of GpioCore for TLC: boards of every kind the code tells     *)
(* apart, and three pins of two threads.                                    *)
EXTENDS GpioCore

\* Boards: B rev 1, the same overvolted, B rev 2, B+ overvolted, Compute Module, Zero, Pi 2, Pi 3, CM3.
MCBoards == {<<0, 0, 0, 2>>, <<1, 0, 0, 0, 0, 0, 3>>, <<0, 0, 0, 14>>, <<1, 0, 0, 0, 0, 1, 0>>, <<0, 0, 1, 1>>,
             <<9, 0, 0, 0, 9, 2>>, <<10, 0, 1, 0, 4, 1>>, <<10, 0, 2, 0, 8, 2>>,
             <<10, 0, 2, 0, 10, 0>>}

\* What two parsers and four tables say of a board agrees: piGpioLayout and
\* piBoardId take the same boards for a Revision 1; the peripherals' address
\* follows the processor; and the wiringPi and physical numbers of a header
\* reach the same pins, none twice (-1 apart).
ASSUME BoardAssumption ==
    \A b \in MCBoards :
        LET id     == piBoardId(b)
            tables == {PinTable(piGpioLayout(b)), PhysTable(piGpioLayout(b))}
            Once(table) == \A m, n \in 0 .. 63 : table[m] = table[n] /\ m # n => table[m] = NoGpio
            Reached(table) == {table[n] : n \in 0 .. 63}
        IN  /\ piGpioLayout(b) = 1 <=> id.model = PI_MODEL_B /\ id.rev \in {0, 1}
            /\ OldBase(id.model) <=> (NewScheme(b) => Field(ValueOf(b), 12, 4) = 0)
            /\ \A table \in tables : Once(table)
            /\ \A table, other \in tables : Reached(table) = Reached(other)

\* Pins 18 and 19 share a function select register and have PWM, 4 has a clock.
MCGpios    == {4, 18, 19}
MCOwnerOf  == [p \in MCGpios |-> IF p = 19 THEN "t2" ELSE "t1"]
MCMaxCalls == [t \in {"t1", "t2"} |-> IF t = "t1" THEN 2 ELSE 1]
=============================================================================
