----------------------------- MODULE BoardTest -----------------------------
(***************************************************************************)
(* The bring-up scripts of tools/board-test: run_all.py starts the five    *)
(* test scripts one after the other, whatever became of the ones before.   *)
(* Each talks to the board over UART, JTAG or SSH, leaves a result file in *)
(* results/ and ends with an exit code.  An exception ends a script with   *)
(* exit code 1 and no result file; the file of an earlier run then stays.  *)
(*                                                                         *)
(* The board answers as it likes.  A remote command may succeed, fail,     *)
(* raise (no connection, no output in time) or never return: ssh.run()     *)
(* waits for its exit status without a timeout.                            *)
(***************************************************************************)
EXTENDS Integers, Sequences, SequencesExt

CONSTANTS
    MaxPolls,     \* bound: reads or polls before a deadline
    Hops,         \* hops a log has (NUM_HOPS)
    MaxRuns       \* bound: invocations of run_all.py or of one script

ASSUME BoundsAssumption == MaxPolls \in Nat \ {0} /\ Hops \in Nat \ {0} /\ MaxRuns \in Nat

VARIABLES
    run,          \* number of the invocation
    asked,        \* the scripts it runs, in order
    dry,          \* --dry-run
    todo,         \* scripts not yet ended
    pc,           \* where the first of them is; "shell" before it starts
    left,         \* reads or polls before the deadline
    seen,         \* prompts seen on the console
    fix,          \* wait_for_fix() has returned a fix
    all_passed,   \* of run_all.py
    exit,         \* exit code of the invocation, -1 while it runs
    results,      \* results/<script>.json: the invocation that wrote it, and passed
    loopback,     \* the transceiver's loopback attribute
    fpga,         \* the FPGA is configured
    aired         \* history: loopback was off when hops were last collected

locals == <<left, seen, fix>>
board == <<loopback, fpga, aired>>
vars == <<run, asked, dry, todo, pc, locals, all_passed, exit, results, board>>

\* Faulty variant of SCRIPTS: the hop test before the loopback test.
ScriptsHopsFirst == <<"serial_console", "flash_fpga", "fhss_onair", "rf_loopback", "gps_lock">>

SCRIPTS == <<"serial_console", "flash_fpga", "rf_loopback", "gps_lock", "fhss_onair">>
Script == ToSet(SCRIPTS)

NoResult == [run |-> 0, passed |-> FALSE]

Init ==
    /\ run = 0 /\ asked = <<>> /\ dry = FALSE /\ todo = <<>> /\ pc = "shell"
    /\ left = 0 /\ seen = {} /\ fix = FALSE
    /\ all_passed = TRUE /\ exit = 0
    /\ results = [s \in Script |-> NoResult]
    /\ loopback \in BOOLEAN /\ fpga = FALSE /\ aired = FALSE

-----------------------------------------------------------------------------
(* run_all.py                                                               *)

\* main(), or one script started by hand.
Start(scripts, dry_run) ==
    /\ exit # -1
    /\ run < MaxRuns
    /\ run' = run + 1 /\ asked' = scripts /\ todo' = scripts
    /\ dry' = dry_run
    /\ all_passed' = TRUE /\ exit' = -1
    /\ UNCHANGED <<pc, locals, results, board>>

\* run_script() starts the next script, which sets out with fresh variables.
run_script ==
    /\ exit = -1 /\ pc = "shell" /\ todo # <<>>
    /\ pc' = Head(todo)
    /\ left' = MaxPolls /\ seen' = {} /\ fix' = FALSE
    /\ UNCHANGED <<run, asked, dry, todo, all_passed, exit, results, board>>

\* Faulty variant of Tally: the last script decides.
TallyLast(before, ok) == ok
Tally(before, ok) == before /\ ok

\* The script ends; ok is what its exit code says.
Ends(ok) ==
    /\ pc' = "shell" /\ todo' = Tail(todo)
    /\ all_passed' = Tally(all_passed, ok)
    /\ UNCHANGED <<run, asked, dry, locals, exit>>

\* write_result(), then sys.exit() with the same verdict.
write_result(passed) ==
    /\ results' = [results EXCEPT ![Head(todo)] = [run |-> run, passed |-> passed]]
    /\ Ends(passed)

\* An exception leaves the script.
Raises == Ends(FALSE) /\ UNCHANGED results

\* A step inside a script.
Within == UNCHANGED <<run, asked, dry, todo, all_passed, exit, results>>

\* sys.exit() of run_all.py after the last script.
Exit ==
    /\ exit = -1 /\ pc = "shell" /\ todo = <<>>
    /\ exit' = IF all_passed THEN 0 ELSE 1
    /\ UNCHANGED <<run, asked, dry, todo, pc, locals, all_passed, results, board>>

\* In a dry run every script is done at once: the simulated board is perfect.
run_dry ==
    /\ dry /\ pc \in Script
    /\ write_result(TRUE)
    /\ UNCHANGED board

-----------------------------------------------------------------------------
(* The scripts on a real board.                                             *)

\* How much is left of a timeout after one more poll, short or long.  The
\* faulty variant sets the deadline anew within the loop.
RemainingAnew(n) == {IF n = MaxPolls THEN n - 1 ELSE MaxPolls}
Remaining(n) == 0 .. n - 1

\* serial_console.py: pyserial is imported outside the try block.  Failures to
\* open the port or to read it are caught.
OpenPort ==
    /\ ~dry /\ pc = "serial_console"
    /\ \/ Raises
       \/ write_result(FALSE)
       \/ Within /\ pc' = "reading" /\ UNCHANGED locals
    /\ UNCHANGED board

\* One read: prompts join the buffer.  The login prompt or the deadline ends it.
ReadChunk ==
    /\ pc = "reading" /\ left > 0 /\ "login" \notin seen
    /\ \/ write_result(FALSE)
       \/ /\ Within /\ UNCHANGED <<pc, fix>>
          /\ \E prompts \in SUBSET {"uboot", "login"} : seen' = seen \union prompts
          /\ left' \in Remaining(left)
    /\ UNCHANGED board

Booted ==
    /\ pc = "reading" /\ (left = 0 \/ "login" \in seen)
    /\ write_result(seen = {"uboot", "login"})
    /\ UNCHANGED board

\* flash_fpga.py: xsct or xc3sprog succeeds, fails, or raises after 120 s.  Only a
\* success leaves the FPGA surely configured.  Whether /dev/uio0 is there is for
\* the board's Linux to say.
Flash ==
    /\ ~dry /\ pc = "flash_fpga"
    /\ UNCHANGED <<loopback, aired>>
    /\ \/ Within /\ pc' = "verify" /\ fpga' = TRUE /\ UNCHANGED locals
       \/ (write_result(FALSE) \/ Raises) /\ fpga' \in {fpga, FALSE}

\* verify_uio0()
Verify ==
    /\ pc = "verify"
    /\ Raises \/ \E uio_ok \in BOOLEAN : write_result(uio_ok)
    /\ UNCHANGED board

\* What the remote script leaves of the loopback attribute: it is cleared in the
\* last line, so only a script that ran to its end is sure to.  In the faulty
\* variant the line is missing.
LoopbackKept(ran) == IF ran THEN {TRUE} ELSE BOOLEAN
LoopbackAfter(ran) == IF ran THEN {FALSE} ELSE BOOLEAN

\* rf_loopback.py: exit status 0 and an EVM below or above the threshold, another
\* exit status, or an exception.
Loopback ==
    /\ ~dry /\ pc = "rf_loopback"
    /\ UNCHANGED <<fpga, aired>>
    /\ \/ /\ loopback' \in LoopbackAfter(TRUE)
          /\ \E evm_ok \in BOOLEAN : write_result(evm_ok)
       \/ /\ loopback' \in LoopbackAfter(FALSE)
          /\ write_result(FALSE) \/ Raises

\* gps_lock.py, wait_for_fix(): the deadline is looked at between polls.
PollFix ==
    /\ ~dry /\ pc = "gps_lock" /\ left > 0
    /\ \/ Raises
       \/ Within /\ pc' = "pps" /\ fix' = TRUE /\ UNCHANGED <<left, seen>>
       \/ Within /\ left' \in Remaining(left) /\ UNCHANGED <<pc, seen, fix>>
    /\ UNCHANGED board

FixTimeout ==
    /\ ~dry /\ pc = "gps_lock" /\ left = 0
    /\ Within /\ pc' = "pps" /\ UNCHANGED <<locals, board>>

\* check_pps_jitter() is made with or without a fix.
CheckPps ==
    /\ pc = "pps"
    /\ Raises \/ \E pps_ok \in BOOLEAN : write_result(fix /\ pps_ok)
    /\ UNCHANGED board

\* fhss_onair.py: two logs, both of the same board as run_all.py passes no
\* --host2.  A log is empty when the command fails or its output is no JSON.
CollectHops ==
    /\ ~dry /\ pc = "fhss_onair"
    /\ aired' = ~loopback
    /\ UNCHANGED <<loopback, fpga>>
    /\ \/ Raises
       \/ \E hops1, hops2 \in 0 .. Hops :
             IF hops1 = 0 \/ hops1 # hops2 THEN write_result(FALSE)
             ELSE \E matches \in 0 .. hops1 : write_result(matches >= Hops)

\* A remote command that does not return.  The scripts wait with it.
Hangs ==
    /\ ~dry /\ pc \in {"verify", "rf_loopback", "gps_lock", "pps", "fhss_onair"}
    /\ pc' = "hung"
    /\ loopback' \in IF pc = "rf_loopback" THEN BOOLEAN ELSE {loopback}
    /\ Within /\ UNCHANGED <<locals, fpga, aired>>

Scripts ==
    \/ OpenPort \/ ReadChunk \/ Booted \/ Flash \/ Verify \/ Loopback
    \/ PollFix \/ FixTimeout \/ CheckPps \/ CollectHops

Next ==
    \/ \E scripts \in {SCRIPTS} \union {<<s>> : s \in Script}, d \in BOOLEAN : Start(scripts, d)
    \/ run_script \/ run_dry \/ Scripts \/ Hangs \/ Exit

\* The operating system runs the scripts; nothing makes an operator start one or
\* a command hang.
Spec == Init /\ [][Next]_vars /\ WF_vars(run_script \/ run_dry \/ Scripts \/ Exit)

-----------------------------------------------------------------------------
(* Properties *)

Passed(s) == results[s] = [run |-> run, passed |-> TRUE]

\* README of board-test, "Results": when an invocation has ended, exit code 0
\* means that each of its scripts wrote a passing result in this very
\* invocation, and another exit code that one did not.  Files that an earlier
\* invocation left behind never make up for a script that died.
ExitMatchesResults ==
    run > 0 /\ exit # -1 => (exit = 0 <=> \A s \in ToSet(asked) : Passed(s))

\* A complete run on the board that passes leaves the board ready for use and
\* has tested the hops on air: FPGA configured, the transceiver out of loopback
\* and out of it already when the hop logs were taken, whatever state earlier
\* failures left it in.
PassMeansReady ==
    exit = 0 /\ asked = SCRIPTS /\ ~dry => fpga /\ ~loopback /\ aired

\* "verifying the board booted", "Wait for gpsd": the deadlines of the scripts are
\* enough for every invocation to end, unless a remote command never returns.
InvocationsEnd == (exit = -1) ~> (exit # -1 \/ pc = "hung")
=============================================================================
