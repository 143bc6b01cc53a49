----------------------------- MODULE DoorControl ----------------------------
(***************************************************************************)
(* A door: the doorman module that commands it, the GPIO module that holds *)
(* its lock, the alarms module with its siren, and the kernel that stops   *)
(* the three.  Each module is one thread; a request to another module      *)
(* blocks the caller until the answer.                                     *)
(*                                                                         *)
(* The lock and the siren are pins of Driver.  The exit button and the     *)
(* contact are pins of sysfsgpio, which has one interrupt for each pin;    *)
(* the inputs of pifacedigital, which reports every pin that reads low at  *)
(* each interrupt of the board, are not modelled.                          *)
(*                                                                         *)
(* Time is a clock that goes round the schedules (Day units).  It advances *)
(* only when every thread waits in its poll: handlers take less than one   *)
(* unit.  Durations are the time left, and ages the time elapsed, so that  *)
(* the clock may go on for ever.                                           *)
(***************************************************************************)
EXTENDS GpioPin, Sequences, FiniteSets

CONSTANTS
    Day,                \* length of the cycle of the schedules
    OpenHours,          \* the times of the door's "on" schedules
    ClosedHours,        \* the times of its "off" schedules
    Driver,             \* the module that drives the lock and the siren
    Actions,            \* the doorman's actions: a sequence of [on, target, cmd]
    ExitDuration,       \* exitreq.duration
    ContactDuration,    \* contact.duration
    PollTime,           \* the 2000 ms of DoormanModule::run()
    MaxTime,            \* the longest duration of a command
    StopHours,          \* bound on the times at which Leosac is stopped
    MaxQueue,           \* bound on the messages that wait in a socket
    MaxEdges,           \* bound on the input pins with an interrupt pending
    MaxRaised           \* cap on raise_counter_, which only grows

ASSUME DoorAssumption ==
    /\ Day \in Nat \ {0} /\ PollTime \in Nat \ {0} /\ MaxTime \in Nat
    /\ OpenHours \subseteq 0..(Day - 1) /\ ClosedHours \subseteq 0..(Day - 1)
    /\ Driver \in Drivers
    /\ ExitDuration \in 1..MaxTime /\ ContactDuration \in Nat
    /\ None \notin Int

Pin == {"door", "siren"}
Caller == {"doorman", "alarms"}
Module == {"doorman", "alarms", "gpio"}
Status == {"GRANTED", "DENIED"}
NoAlarm == ""           \* an empty alarm_forced_

VARIABLES
    now,                \* time of day
    pins,               \* the pins, and the requests that reach them:
    call,               \* per caller, [pin, cmd, reply] or None
    gpc,                \* GPIO thread: "poll", "handled", "stopped"
    raise,              \* the doorman's RAISE: None, "sent" or "done"
    raised,             \* raise_counter_
    apc,                \* alarms thread: "poll", "siren", "stopped"
    dpc,                \* doorman thread
    ready,              \* sockets that its poll found readable
    todo,               \* actions left for the decision being handled
    pollLeft,           \* time left of its poll
    contact,            \* contact_triggered_
    contactAge,         \* time since contact_lastupdate_
    gpioAge,            \* time since lastupdate_ of the door's FGPIO
    forced,             \* alarm_forced_
    bus,                \* messages waiting in the doorman's two sockets
    opened,             \* the door itself
    edges,              \* interrupts that the GPIO module has not read yet
    signals,            \* modules with a stop signal in their pipe
    dark,               \* observer: how long the lock has been off
    skew                \* observer: edges of the contact nobody saw, modulo 2

gpio == <<pins, call, gpc>>
alarms == <<raise, raised, apc>>
doorman == <<dpc, ready, todo, pollLeft, contact, contactAge, gpioAge, forced>>
doorway == <<opened, skew>>
world == <<bus, doorway, edges, signals, dark, now>>
vars == <<gpio, alarms, doorman, world>>

\* Ages are told apart only up to this one.
OldAge == ContactDuration + 1
Older(age) == IF age < OldAge THEN age + 1 ELSE age

-----------------------------------------------------------------------------
\* AuthTarget: the schedules at the present time.
is_always_open == now \in OpenHours
is_always_closed == now \in ClosedHours

\* A request is sent, and the caller waits for its answer.
Send(c, pin, cmd) ==
    call' = [call EXCEPT ![c] = [pin |-> pin, cmd |-> cmd, reply |-> None]]
Answered(c) == call[c] # None /\ call[c].reply # None
Return(c) == call' = [call EXCEPT ![c] = None]

\* FGPIO keeps the time up to which its last successful command holds.
Stamp ==
    LET time == call["doorman"].cmd.time
    IN  gpioAge' = IF call["doorman"].reply # "OK" THEN gpioAge
                   ELSE IF time = None THEN 0 ELSE -time

\* Bounds: MaxQueue messages in a socket, and none once the modules stop.
Publish(s, msg) ==
    signals = {} /\ Len(bus[s]) < MaxQueue /\ bus' = [bus EXCEPT ![s] = Append(@, msg)]

-----------------------------------------------------------------------------
(* The GPIO module: reactor_.poll(timeout), then the pins that are due. *)

GpioHandle(c) ==
    /\ gpc \in {"poll", "handled"}
    /\ call[c] # None /\ call[c].reply = None
    /\ LET p == call[c].pin
           r == handle_message(Driver, pins[p], call[c].cmd)
       IN  /\ pins' = [pins EXCEPT ![p] = r.pin]
           /\ call' = [call EXCEPT ![c].reply = r.reply]
    /\ gpc' = "handled"
    /\ UNCHANGED <<alarms, doorman, world>>

Due == \E p \in Pin : Expired(pins[p])

GpioUpdate ==
    /\ gpc = "handled" \/ (gpc = "poll" /\ Due)
    /\ pins' = [p \in Pin |-> update(pins[p])]
    /\ gpc' = "poll"
    /\ UNCHANGED <<call, alarms, doorman, world>>

\* Mutant of GpioInterrupt: the pin is not read, its interrupt comes again.
GpioInterruptUnread(edge) ==
    /\ edge \in edges
    /\ Publish("door", edge)
    /\ UNCHANGED <<gpio, alarms, doorman, doorway, edges, signals, dark, now>>

\* SysFsGpioPin::handle_interrupt of the input pins: reading the pin clears
\* its interrupt.  Its module need not be Driver, so gpc has no part in it.
GpioInterrupt(edge) ==
    /\ edge \in edges
    /\ edges' = edges \ {edge}
    /\ Publish("door", edge)
    /\ UNCHANGED <<gpio, alarms, doorman, doorway, signals, dark, now>>

\* The stop signal ends the loop, and the pins are destroyed.
GpioStop ==
    /\ gpc # "stopped" /\ "gpio" \in signals
    /\ pins' \in [Pin -> Released(Driver)]
    /\ gpc' = "stopped"
    /\ UNCHANGED <<call, alarms, doorman, world>>

-----------------------------------------------------------------------------
(* The alarms module: AlarmInstance without a database. *)

AlarmRaise ==
    /\ apc = "poll" /\ raise = "sent"
    /\ raised' = IF raised < MaxRaised THEN raised + 1 ELSE raised
    /\ IF raised = 0
       THEN Send("alarms", "siren", Cmd("ON", None)) /\ apc' = "siren"
            /\ UNCHANGED raise
       ELSE raise' = "done" /\ UNCHANGED <<call, apc>>
    /\ UNCHANGED <<pins, gpc, doorman, world>>

AlarmSiren ==
    /\ apc = "siren" /\ Answered("alarms")
    /\ Return("alarms") /\ apc' = "poll" /\ raise' = "done"
    /\ UNCHANGED <<pins, gpc, raised, doorman, world>>

AlarmStop ==
    /\ apc = "poll" /\ "alarms" \in signals
    /\ apc' = "stopped"
    /\ UNCHANGED <<gpio, raise, raised, doorman, world>>

-----------------------------------------------------------------------------
(* The doorman: while (is_running_) { update(); reactor_.poll(2000); } *)

\* The condition of update() for an alarm: the first test is on a contact
\* that moved less than contact_duration ago.
Forced == contactAge <= ContactDuration \/ gpioAge > ContactDuration

StartPoll == dpc' = "poll" /\ pollLeft' = PollTime

\* Mutant of Expected: only the "always closed" hours are enforced.
ExpectedCloses == is_always_closed /\ ~is_always_open

\* The schedules expect a state of the door, and one only.
Expected == is_always_open # is_always_closed

\* AuthTarget::resetToExpectedState, in three steps: ask the pin for its
\* state, set it if it differs, and take the answer.
Reset ==
    IF Expected
    THEN Send("doorman", "door", Cmd("STATE", None)) /\ dpc' = "state"
         /\ UNCHANGED pollLeft
    ELSE StartPoll /\ UNCHANGED call

\* The branch that disarms an alarm when the contact is back is not here: it is
\* for an alarm_forced_ that is not empty, and TypeOK says there is none.
DoorUpdate ==
    /\ dpc = "update"
    /\ IF forced = NoAlarm /\ contact /\ Forced
       THEN raise' = "sent" /\ dpc' = "raised" /\ UNCHANGED <<call, pollLeft>>
       ELSE Reset /\ UNCHANGED raise
    /\ UNCHANGED <<pins, gpc, raised, apc, ready, todo, contact, contactAge,
                   gpioAge, forced, world>>

\* The answer of RAISE is "OK" alone: the name of the alarm is read out of
\* the answer instead of being put into it.
DoorRaised ==
    /\ dpc = "raised" /\ raise = "done"
    /\ forced' = NoAlarm /\ raise' = None
    /\ Reset
    /\ UNCHANGED <<pins, gpc, raised, apc, ready, todo, contact, contactAge,
                   gpioAge, world>>

DoorState ==
    /\ dpc = "state" /\ Answered("doorman")
    /\ LET on == isOn(call["doorman"].reply)
           cmd == Cmd(IF is_always_open THEN "ON" ELSE "OFF", None)
       IN  IF on # is_always_open
           THEN Send("doorman", "door", cmd) /\ dpc' = "set" /\ UNCHANGED pollLeft
           ELSE Return("doorman") /\ StartPoll
    /\ UNCHANGED <<pins, gpc, alarms, ready, todo, contact, contactAge,
                   gpioAge, forced, world>>

DoorSet ==
    /\ dpc = "set" /\ Answered("doorman")
    /\ Stamp /\ Return("doorman") /\ StartPoll
    /\ UNCHANGED <<pins, gpc, alarms, ready, todo, contact, contactAge,
                   forced, world>>

\* The poll returns with every socket that is readable then, or on timeout.
DoorPoll ==
    /\ dpc = "poll"
    /\ ready' = {s \in {"instance", "door"} : bus[s] # <<>>}
                \cup (IF "doorman" \in signals THEN {"pipe"} ELSE {})
    /\ ready' # {} \/ pollLeft = 0
    /\ dpc' = "dispatch"
    /\ UNCHANGED <<gpio, alarms, todo, pollLeft, contact, contactAge, gpioAge,
                   forced, world>>

Received(s) ==
    /\ bus' = [bus EXCEPT ![s] = Tail(@)]
    /\ ready' = ready \ {s}

ignore_action(action, status) ==
    \/ action.on # status
    \/ action.target = "door" /\ (is_always_closed \/ is_always_open)

\* Mutant of Taken: an ignored action ends the loop over the actions.
TakenFirst(status) ==
    IF ignore_action(Actions[1], status) THEN <<>>
    ELSE SelectSeq(Actions, LAMBDA a : ~ignore_action(a, status))

\* The actions that a decision leads to; no time passes between them.
Taken(status) == SelectSeq(Actions, LAMBDA a : ~ignore_action(a, status))

\* The loop over them: send the next one, or go on with the dispatch.
Act(actions) ==
    /\ todo' = actions
    /\ IF actions = <<>>
       THEN dpc' = "dispatch" /\ Return("doorman")
       ELSE Send("doorman", Head(actions).target, Head(actions).cmd) /\ dpc' = "acted"

\* DoormanInstance::handle_bus_msg receives one decision.
InstanceMessage ==
    /\ dpc = "dispatch" /\ "instance" \in ready
    /\ Received("instance")
    /\ Act(Taken(Head(bus["instance"])))
    /\ UNCHANGED <<pins, gpc, alarms, pollLeft, contact, contactAge, gpioAge,
                   forced, doorway, edges, signals, dark, now>>

\* command_send_recv returns.
InstanceActed ==
    /\ dpc = "acted" /\ Answered("doorman")
    /\ Act(Tail(todo))
    /\ UNCHANGED <<pins, gpc, alarms, ready, pollLeft, contact, contactAge,
                   gpioAge, forced, world>>

\* DoormanDoor::handle_bus_msg, after the instance's own socket.
DoorMessage ==
    /\ dpc = "dispatch" /\ "door" \in ready /\ "instance" \notin ready
    /\ Received("door")
    /\ IF Head(bus["door"]) = "EXIT"
       THEN /\ Send("doorman", "door", Cmd("ON", ExitDuration))
            /\ dpc' = "exit" /\ UNCHANGED <<contact, contactAge>>
       ELSE /\ contact' = ~contact /\ contactAge' = 0
            /\ UNCHANGED <<call, dpc>>
    /\ UNCHANGED <<pins, gpc, alarms, todo, pollLeft, gpioAge, forced,
                   doorway, edges, signals, dark, now>>

DoorExit ==
    /\ dpc = "exit" /\ Answered("doorman")
    /\ Stamp /\ Return("doorman") /\ dpc' = "dispatch"
    /\ UNCHANGED <<pins, gpc, alarms, ready, todo, pollLeft, contact,
                   contactAge, forced, world>>

\* Mutant of DoorLoop: update() is called only when the poll times out.
DoorLoopLazy ==
    /\ dpc = "dispatch" /\ ready \subseteq {"pipe"}
    /\ IF "pipe" \in ready
       THEN dpc' = "stopped" /\ UNCHANGED pollLeft
       ELSE IF pollLeft = 0 THEN dpc' = "update" /\ UNCHANGED pollLeft
            ELSE StartPoll
    /\ UNCHANGED <<gpio, alarms, ready, todo, contact, contactAge,
                   gpioAge, forced, world>>

DoorLoop ==
    /\ dpc = "dispatch" /\ ready \subseteq {"pipe"}
    /\ dpc' = IF "pipe" \in ready THEN "stopped" ELSE "update"
    /\ UNCHANGED <<gpio, alarms, ready, todo, pollLeft, contact, contactAge,
                   gpioAge, forced, world>>

-----------------------------------------------------------------------------
(* The world: decisions, the exit button, the door and the kernel. *)

Decision(status) ==
    /\ Publish("instance", status)
    /\ UNCHANGED <<gpio, alarms, doorman, doorway, edges, signals, dark, now>>

\* An edge of an input pin; a second one before the first is read is lost.
\* Bounds: MaxEdges pins at a time, and none once the modules stop.
Edge(edge) ==
    signals = {} /\ edges' = edges \cup {edge} /\ Cardinality(edges') <= MaxEdges

ExitPressed ==
    /\ Edge("EXIT")
    /\ UNCHANGED <<gpio, alarms, doorman, bus, doorway, signals, dark, now>>

DoorMoves ==
    /\ opened' = ~opened /\ Edge("CONTACT")
    /\ skew' = (skew # ("CONTACT" \in edges))
    /\ UNCHANGED <<gpio, alarms, doorman, bus, signals, dark, now>>

\* Kernel::shutdown: the soft stop signals every module, and waits for none.
\* Bound: it happens in StopHours.
StopModules ==
    /\ signals = {} /\ now \in StopHours
    /\ signals' = Module
    /\ UNCHANGED <<gpio, alarms, doorman, bus, doorway, edges, dark, now>>

\* Every thread waits in its poll and nothing is due.
Quiet ==
    /\ dpc = "poll" /\ pollLeft > 0 /\ bus = [s \in DOMAIN bus |-> <<>>]
    /\ apc = "poll" /\ raise = None
    /\ gpc = "poll" /\ ~Due
    /\ signals = {} /\ edges = {}

Tick ==
    /\ Quiet
    /\ now' = (now + 1) % Day
    /\ pins' = [p \in Pin |-> Aged(pins[p])]
    /\ pollLeft' = pollLeft - 1
    /\ contactAge' = Older(contactAge) /\ gpioAge' = Older(gpioAge)
    /\ dark' = IF pins["door"].value THEN 0
               ELSE IF dark <= PollTime THEN dark + 1 ELSE dark
    /\ UNCHANGED <<call, gpc, alarms, dpc, ready, todo, contact, forced, bus,
                   doorway, edges, signals>>

-----------------------------------------------------------------------------
Init ==
    /\ now \in 0..(Day - 1)
    /\ pins = [p \in Pin |-> Default]
    /\ call = [c \in Caller |-> None]
    /\ gpc = "poll"
    /\ raise = None /\ raised = 0 /\ apc = "poll"
    /\ dpc = "update" /\ ready = {} /\ pollLeft = 0
    /\ todo = <<>>
    /\ contact = FALSE /\ contactAge = OldAge /\ gpioAge = OldAge
    /\ forced = NoAlarm
    /\ bus = [s \in {"instance", "door"} |-> <<>>]
    /\ opened \in BOOLEAN /\ skew = opened
    /\ edges = {} /\ signals = {} /\ dark = 0

GpioNext ==
    \/ \E c \in Caller : GpioHandle(c)
    \/ \E edge \in {"EXIT", "CONTACT"} : GpioInterrupt(edge)
    \/ GpioUpdate \/ GpioStop
AlarmNext == AlarmRaise \/ AlarmSiren \/ AlarmStop
DoorNext ==
    \/ DoorUpdate \/ DoorRaised \/ DoorState \/ DoorSet
    \/ DoorPoll \/ InstanceMessage \/ InstanceActed
    \/ DoorMessage \/ DoorExit \/ DoorLoop
World ==
    \/ \E status \in Status : Decision(status)
    \/ ExitPressed \/ DoorMoves \/ StopModules

Next == GpioNext \/ AlarmNext \/ DoorNext \/ World \/ Tick

Spec == Init /\ [][Next]_vars

\* The threads run and time passes; nobody has to use the door.
Fairness ==
    WF_vars(GpioNext) /\ WF_vars(AlarmNext) /\ WF_vars(DoorNext) /\ WF_vars(Tick)

FairSpec == Spec /\ Fairness

-----------------------------------------------------------------------------
Times == {None} \cup 0..MaxTime

\* Every variable has its type; in particular a caller has at most one
\* request out, a timer is never left to run past its time, and the doorman
\* never knows the name of an alarm that it raised.
TypeOK ==
    /\ now \in 0..(Day - 1)
    /\ pins \in [Pin -> [value : BOOLEAN, timer : Times]]
    /\ \A c \in Caller : call[c] = None \/
          /\ call[c].pin \in Pin
          /\ call[c].reply \in {None, "OK", "KO", "ON", "OFF"}
    /\ gpc \in {"poll", "handled", "stopped"}
    /\ raise \in {None, "sent", "done"} /\ raised \in 0..MaxRaised
    /\ apc \in {"poll", "siren", "stopped"}
    /\ dpc \in {"update", "raised", "state", "set", "poll", "dispatch", "acted",
                "exit", "stopped"}
    /\ ready \subseteq {"instance", "door", "pipe"}
    /\ pollLeft \in 0..PollTime
    /\ contact \in BOOLEAN /\ contactAge \in 0..OldAge
    /\ gpioAge \in (-MaxTime)..OldAge
    /\ forced = NoAlarm
    /\ opened \in BOOLEAN /\ skew \in BOOLEAN /\ edges \subseteq {"EXIT", "CONTACT"}
    /\ signals \in {{}, Module} /\ dark \in 0..(PollTime + 1)

\* S was in force, and T not, for k units of time up to j units ago.
InForceAgo(j, S, T, k) == \A i \in j..(j + k) : (now - i) % Day \in S \ T
InForce(S, T, k) == InForceAgo(0, S, T, k)

\* The door is closed in its "always closed" hours: from the second poll of
\* the doorman in them at the latest, whatever decisions and exit requests
\* came in between, the lock is off when the threads are at rest.
ClosedHolds ==
    Quiet /\ InForce(ClosedHours, OpenHours, PollTime) => ~pins["door"].value

\* The door is open in its "always open" hours: no timer that an earlier
\* command left running keeps the lock off longer than one poll.
OpenHolds == InForce(OpenHours, ClosedHours, 2 * PollTime) => dark <= PollTime

\* From "always closed" hours that lasted a poll up to the next "always open"
\* ones, a lock that is on has a timer to turn it off, if every command of an
\* action has a duration.  Between "always open" hours and the next "always
\* closed" ones it may stay on without: the end of the former turns nothing
\* off, and the latter are optional.
NeverLeftOpen ==
    Quiet /\ pins["door"].value /\ pins["door"].timer = None =>
        \A j \in 0..(Day - 1) :
            InForceAgo(j, ClosedHours, OpenHours, PollTime) =>
                \E k \in 0..j : (now - k) % Day \in OpenHours

\* How many of the messages that wait for the door are from its contact.
ContactMessages == Cardinality({i \in DOMAIN bus["door"] : bus["door"][i] = "CONTACT"})

\* contact_triggered_ is the door as it was, but for the edges on their way in
\* the driver and on the bus, and for those that the doorman can never see: the
\* door open when Leosac starts, and an edge that comes before the last one is
\* read.  No order of polls, decisions and exit requests drops or doubles one.
ContactTracksDoor ==
    LET odd == ContactMessages % 2 = 1
    IN  (contact # odd) = ((opened # skew) # ("CONTACT" \in edges))

\* A granted access outside the hours of the schedules turns the lock on,
\* unless Leosac stops first.
GrantOpens ==
    \A i \in 1..MaxQueue :
        (Len(bus["instance"]) >= i /\ bus["instance"][i] = "GRANTED"
            /\ now \notin OpenHours \cup ClosedHours)
        ~> (pins["door"].value \/ signals # {})

\* An alarm is raised for a door that has been open for contact_duration, or
\* that nobody commanded: "Duration before triggering an alarm".
AlarmAfterDuration ==
    dpc = "raised" =>
        contactAge > ContactDuration \/ gpioAge > ContactDuration
=============================================================================
