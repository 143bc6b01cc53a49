------------------------------- MODULE GpioPin ------------------------------
(***************************************************************************)
(* One output pin of the three GPIO modules (sysfsgpio, pifacedigital,     *)
(* libgpiod) as operators on its state, and how the facade FGPIO reads     *)
(* their answers.                                                          *)
(*                                                                         *)
(* A pin is [value, timer]: timer is the time left before next_update(),   *)
(* or None when no update is wanted.  A command is [op, time]: time is the *)
(* optional duration of ON, or None.                                       *)
(***************************************************************************)
EXTENDS Integers

CONSTANT None           \* no timer, no duration

Drivers == {"sysfsgpio", "pifacedigital", "libgpiod"}

Cmd(op, time) == [op |-> op, time |-> time]

\* The pin when its module starts.
Default == [value |-> FALSE, timer |-> None]

\* What the pin may be once its module has stopped: the destructors write the
\* default value back, but libgpiod's only releases the line, and the driver
\* in the kernel decides what becomes of it.
Released(driver) ==
    IF driver = "libgpiod" THEN [value : BOOLEAN, timer : {None}] ELSE {Default}

\* Mutant of turn_on: the duration is not read.
turn_on_untimed(pin, time) == [pin EXCEPT !.value = TRUE]

turn_on(pin, time) ==
    [value |-> TRUE, timer |-> IF time = None THEN pin.timer ELSE time]

\* The timer of an earlier ON keeps running.
turn_off(pin) == [pin EXCEPT !.value = FALSE]

toggle(pin) == [pin EXCEPT !.value = ~@]

\* The pin after a command, whatever the driver.
Written(pin, cmd) ==
    CASE cmd.op = "ON"     -> turn_on(pin, cmd.time)
      [] cmd.op = "OFF"    -> turn_off(pin)
      [] cmd.op = "TOGGLE" -> toggle(pin)
      [] OTHER             -> pin

Handled(pin, reply) == [pin |-> pin, reply |-> reply]

\* handle_message() of each driver: the pin afterwards, and the answer.
\* Only pifacedigital knows STATE.
SysFsGpioPin(pin, cmd) ==
    Handled(Written(pin, cmd), IF cmd.op = "STATE" THEN "KO" ELSE "OK")

PFDigitalPin(pin, cmd) ==
    Handled(Written(pin, cmd),
            IF cmd.op # "STATE" THEN "OK" ELSE IF pin.value THEN "ON" ELSE "OFF")

\* gpiod_line_set_value() returns 0 on success, where this pin expects 1; its
\* toggle() writes back the value that it reads.
LibgpiodPin(pin, cmd) ==
    Handled(IF cmd.op = "TOGGLE" THEN pin ELSE Written(pin, cmd), "KO")

handle_message(driver, pin, cmd) ==
    CASE driver = "sysfsgpio"     -> SysFsGpioPin(pin, cmd)
      [] driver = "pifacedigital" -> PFDigitalPin(pin, cmd)
      [] driver = "libgpiod"      -> LibgpiodPin(pin, cmd)

\* Mutant of Expired: a timer expires one unit late.
ExpiredLate(pin) == pin.timer # None /\ pin.timer < 0

Expired(pin) == pin.timer # None /\ pin.timer <= 0

\* update(), for the pins whose time has come.
update(pin) ==
    IF Expired(pin) THEN [turn_off(pin) EXCEPT !.timer = None] ELSE pin

\* The passing of one unit of time.
Aged(pin) ==
    [pin EXCEPT !.timer = IF @ = None THEN None ELSE @ - 1]

-----------------------------------------------------------------------------
\* FGPIO::isOn(): an answer other than ON or OFF only fails an assert().
isOn(reply) == reply = "ON"
=============================================================================
