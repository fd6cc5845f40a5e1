----------------------------- MODULE ProgramStop -----------------------------
(***************************************************************************)
(* How a stop request reaches the user program.  Two pieces of code under *)
(* src/ meet at the pbsys API:                                            *)
(*  - src/lib/pbio/platform/prime_hub/sys.c: pbsys_prepare_user_program   *)
(*    and pbsys_unprepare_user_program store and clear the user program's *)
(*    stop callback, and the Contiki process "System" calls it for a     *)
(*    power button press (PBIO_EVENT_STATUS_SET) or a stop command       *)
(*    (PBIO_EVENT_COM_CMD);                                              *)
(*  - src/bricks/nxt/main.c: main() prepares the system, starts          *)
(*    MicroPython, runs the program, and tears both down; its stop       *)
(*    callback user_program_stop_func raises KeyboardInterrupt only      *)
(*    while the VM is running the program (mp_interrupt_char > 0).       *)
(* Not under src/ and modelled from how they are used here: pyexec arms   *)
(* the interrupt character just before it calls the program and disarms *)
(* it when the call returns; mp_keyboard_interrupt makes the exception   *)
(* pending and the VM raises it at its next check; Contiki delivers the  *)
(* posted events one at a time in order.  The HMI poll (the timer branch) *)
(* and the lights are left out: a press arrives as the STATUS_SET event  *)
(* that the HMI posts.                                                    *)
(***************************************************************************)
EXTENDS Naturals, Sequences

CONSTANT MaxEvents  \* capacity of the event queue explored

ASSUME ProgramStopAssumption == MaxEvents \in Nat \ {0}

\* The events the System process receives, with their data.
Events ==
    [kind : {"status_set"}, data : {"power_button", "other_status"}]
    \cup [kind : {"com_cmd"}, data : {"start", "stop"}]

\* Where main() is: before pbsys_prepare_user_program, running mp_init and
\* the imports, executing the program, after the program, after teardown.
Phases == {"boot", "importing", "executing", "finished", "done"}

VARIABLES
    phase,       \* the point main() has reached
    stop_func,   \* user_stop_func # NULL
    status_run,  \* PBSYS_STATUS_USER_PROGRAM_RUNNING
    armed,       \* mp_interrupt_char > 0
    pending,     \* a KeyboardInterrupt is pending in the VM
    interrupted, \* the program ended by KeyboardInterrupt
    motors_reset,\* _pbio_motorpoll_reset_all has run
    events       \* the events posted to the System process, in order

vars == << phase, stop_func, status_run, armed, pending, interrupted,
           motors_reset, events >>

IsStop(e) ==
    \/ e = [kind |-> "status_set", data |-> "power_button"]
    \/ e = [kind |-> "com_cmd", data |-> "stop"]

StopQueued == \E i \in 1..Len(events) : IsStop(events[i])

Init ==
    /\ phase = "boot"
    /\ stop_func = FALSE
    /\ status_run = FALSE
    /\ armed = FALSE
    /\ pending = FALSE
    /\ interrupted = FALSE
    /\ motors_reset = FALSE
    /\ events = << >>

-----------------------------------------------------------------------------
(* main() of src/bricks/nxt/main.c. *)

\* pbsys_prepare_user_program(&user_program_callbacks): the callbacks are
\* not NULL, so their stop function is stored; the status is set.
PrepareUserProgram ==
    /\ stop_func' = TRUE
    /\ status_run' = TRUE

\* pbio_init, nxt_init, gc_init, then pbsys_prepare_user_program, and
\* mp_init with the default imports.
Prepare ==
    /\ phase = "boot"
    /\ phase' = "importing"
    /\ PrepareUserProgram
    /\ UNCHANGED << armed, pending, interrupted, motors_reset, events >>

\* pyexec_frozen_module: the interrupt character is armed and the
\* program's code is called.
Execute ==
    /\ phase = "importing"
    /\ phase' = "executing"
    /\ armed' = TRUE
    /\ UNCHANGED << stop_func, status_run, pending, interrupted,
                    motors_reset, events >>

\* The program returns on its own; pyexec disarms the interrupt character.
Return ==
    /\ phase = "executing"
    /\ phase' = "finished"
    /\ armed' = FALSE
    /\ UNCHANGED << stop_func, status_run, pending, interrupted,
                    motors_reset, events >>

\* The VM raises the pending KeyboardInterrupt, which the program does not
\* catch; pyexec disarms the interrupt character.
Raise ==
    /\ phase = "executing"
    /\ pending
    /\ phase' = "finished"
    /\ armed' = FALSE
    /\ pending' = FALSE
    /\ interrupted' = TRUE
    /\ UNCHANGED << stop_func, status_run, motors_reset, events >>

\* pbsys_unprepare_user_program: clear the status and both callbacks, and
\* reset every motor and drivebase.
UnprepareUserProgram ==
    /\ status_run' = FALSE
    /\ stop_func' = FALSE
    /\ motors_reset' = TRUE

\* mp_deinit, then pbsys_unprepare_user_program; pbio_deinit and
\* nxt_deinit follow, and main returns.
Teardown ==
    /\ phase = "finished"
    /\ phase' = "done"
    /\ UnprepareUserProgram
    /\ UNCHANGED << armed, pending, interrupted, events >>

-----------------------------------------------------------------------------
(* The System process of src/lib/pbio/platform/prime_hub/sys.c. *)

\* Mutant: the stop callback tests the interrupt character the wrong way.
StopFuncInverted ==
    pending' = (pending \/ ~armed)

\* user_program_stop_func of main.c: raise KeyboardInterrupt only if the
\* VM runs the program.
StopFunc ==
    pending' = (pending \/ armed)

\* Mutant: the power button branch is missing.
HandleCommandOnly ==
    /\ events # << >>
    /\ events' = Tail(events)
    /\ IF Head(events) = [kind |-> "com_cmd", data |-> "stop"] /\ stop_func
       THEN StopFunc
       ELSE UNCHANGED pending
    /\ UNCHANGED << phase, stop_func, status_run, armed, interrupted,
                    motors_reset >>

\* One pass of the PROCESS_WAIT_EVENT loop: the power button status and
\* the stop command call the user program's stop callback if there is one;
\* every other event (another status, the start command) is ignored.
HandleEvent ==
    /\ events # << >>
    /\ events' = Tail(events)
    /\ IF IsStop(Head(events)) /\ stop_func
       THEN StopFunc
       ELSE UNCHANGED pending
    /\ UNCHANGED << phase, stop_func, status_run, armed, interrupted,
                    motors_reset >>

\* The HMI or the host posts an event.
Post(e) ==
    /\ Len(events) < MaxEvents
    /\ events' = Append(events, e)
    /\ UNCHANGED << phase, stop_func, status_run, armed, pending,
                    interrupted, motors_reset >>

Next ==
    \/ Prepare \/ Execute \/ Return \/ Raise \/ Teardown
    \/ HandleEvent
    \/ \E e \in Events : Post(e)

(***************************************************************************)
(* Fairness.  main() runs straight-line code between the calls, so its    *)
(* steps other than the program's own return are weakly fair; the System *)
(* process is run whenever an event is queued (the VM's poll hook drives  *)
(* the Contiki scheduler), and the VM checks for a pending exception on   *)
(* every branch.  The program itself may run forever: Return is not fair, *)
(* nor are the posts of the user and the host.                            *)
(***************************************************************************)
Fairness ==
    /\ WF_vars(Prepare) /\ WF_vars(Execute) /\ WF_vars(Teardown)
    /\ WF_vars(Raise)
    /\ WF_vars(HandleEvent)

Spec == Init /\ [][Next]_vars /\ Fairness

-----------------------------------------------------------------------------
TypeOK ==
    /\ phase \in Phases
    /\ stop_func \in BOOLEAN
    /\ status_run \in BOOLEAN
    /\ armed \in BOOLEAN
    /\ pending \in BOOLEAN
    /\ interrupted \in BOOLEAN
    /\ motors_reset \in BOOLEAN
    /\ events \in Seq(Events)

\* The stop callback makes a KeyboardInterrupt pending only while the
\* program executes: a power button press or a stop command that the System
\* process handles during mp_init and the imports, or after the program
\* returned (between pyexec and pbsys_unprepare_user_program, when the
\* callback is still installed), never interrupts code outside the program.
InterruptOnlyWhileExecuting ==
    [][~pending /\ pending' => phase = "executing"]_vars

\* A stop request (power button or stop command) queued while the program
\* is executing ends the program and resets the motors: the System process
\* takes it from the queue, calls the stop callback while the interrupt
\* character is armed, the VM raises KeyboardInterrupt and main() tears
\* down, even if the program would never return by itself.
StopHonoured ==
    (phase = "executing" /\ StopQueued) ~> (phase = "done" /\ motors_reset)
=============================================================================
