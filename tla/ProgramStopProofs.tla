------------------------- MODULE ProgramStopProofs -------------------------
(***************************************************************************)
(* Proof that the stop callback of main.c interrupts only the program,    *)
(* whatever the number and the order of the stop requests: the interrupt *)
(* character is armed exactly while main() is in pyexec's call of the     *)
(* program, and user_program_stop_func tests it before it raises.         *)
(***************************************************************************)
EXTENDS ProgramStop, TLAPS

\* pyexec arms the interrupt character just before the program starts and
\* disarms it on either way out, so mp_interrupt_char > 0 exactly while
\* main() executes the program.
ArmedWhileExecuting == armed = (phase = "executing")

LEMMA ArmedInvariant == Spec => []ArmedWhileExecuting
  <1>1. Init => ArmedWhileExecuting
    BY DEF Init, ArmedWhileExecuting
  <1>2. ArmedWhileExecuting /\ [Next]_vars => ArmedWhileExecuting'
    <2> SUFFICES ASSUME ArmedWhileExecuting, [Next]_vars
                 PROVE  ArmedWhileExecuting'
      OBVIOUS
    <2> USE DEF ArmedWhileExecuting
    <2>0. CASE UNCHANGED vars
      BY <2>0 DEF vars
    <2>1. CASE Prepare
      BY <2>1 DEF Prepare
    <2>2. CASE Execute
      BY <2>2 DEF Execute
    <2>3. CASE Return
      BY <2>3 DEF Return
    <2>4. CASE Raise
      BY <2>4 DEF Raise
    <2>5. CASE Teardown
      BY <2>5 DEF Teardown
    <2>6. CASE HandleEvent
      BY <2>6 DEF HandleEvent
    <2>7. CASE \E e \in Events : Post(e)
      BY <2>7 DEF Post
    <2> QED
      BY <2>0, <2>7, <2>6, <2>5, <2>4, <2>3, <2>2, <2>1 DEF Next
  <1> QED
    BY <1>1, <1>2, PTL DEF Spec

\* The property the program_stop run checks, for every queue capacity: no
\* step of main() or of the System process makes a KeyboardInterrupt
\* pending while main() is outside the program, so a stop request during
\* mp_init, the imports or the teardown never raises in that code.
THEOREM InterruptOnlyInProgram == Spec => InterruptOnlyWhileExecuting
  <1>1. ArmedWhileExecuting /\ [Next]_vars
          => [~pending /\ pending' => phase = "executing"]_vars
    <2> SUFFICES ASSUME ArmedWhileExecuting, [Next]_vars,
                        ~pending, pending'
                 PROVE  phase = "executing"
      BY DEF vars
    <2>1. HandleEvent
      BY DEF Next, vars, Prepare, Execute, Return, Raise, Teardown, Post,
             PrepareUserProgram, UnprepareUserProgram
    <2>2. armed
      BY <2>1 DEF HandleEvent, StopFunc
    <2> QED
      BY <2>2 DEF ArmedWhileExecuting
  <1> QED
    BY <1>1, ArmedInvariant, PTL DEF InterruptOnlyWhileExecuting, Spec
=============================================================================
