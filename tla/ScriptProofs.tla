--------------------------- MODULE ScriptProofs ----------------------------
(***************************************************************************)
(* The repository's Python scripts.  The exit code of an invocation of the *)
(* bring-up scripts tells the truth, and a passing run leaves the board    *)
(* ready: for every number of invocations and polls and every length of a  *)
(* hop log.  The layout script's Zone.place() keeps parts apart and inside *)
(* the zone: for every rectangle, every sequence of sizes and every number *)
(* of calls.  The scripts that make the dev board put copper on the net it *)
(* was drawn for, pairs of traces side by side, and of the parts with one  *)
(* designator the one read first on the board: for every set of late       *)
(* sheets, in every order and however often they run.                      *)
(***************************************************************************)
EXTENDS BoardTest, PlacementZone, PcbFlow, FiniteSetTheorems, SequenceTheorems, NaturalsInduction,
        WellFoundedInduction, TLAPS

\* The scripts that have ended.
ended == Len(asked) - Len(todo)

Pc == {"shell", "reading", "verify", "pps", "hung"} \union Script

\* The script whose code pc is in is the first one of todo.
AtHead ==
    /\ pc \in Pc
    /\ pc # "shell" => exit = -1 /\ todo # <<>>
    /\ pc \in Script => Head(todo) = pc
    /\ pc = "reading" => Head(todo) = "serial_console"
    /\ pc = "verify" => Head(todo) = "flash_fpga"
    /\ pc = "pps" => Head(todo) = "gps_lock"

\* todo is what is left of asked, in which no script occurs twice.
InOrder ==
    /\ asked \in Seq(Script) /\ todo \in Seq(Script)
    /\ \A i, j \in 1 .. Len(asked) : asked[i] = asked[j] => i = j
    /\ Len(todo) <= Len(asked)
    /\ \A i \in 1 .. Len(todo) : todo[i] = asked[ended + i]

Types ==
    /\ run \in Nat /\ exit \in {-1, 0, 1} /\ all_passed \in BOOLEAN
    /\ results \in [Script -> [run : Nat, passed : BOOLEAN]]

\* The verdict so far is that of the results written in this invocation; the
\* scripts that have not ended have written none.
Tallied ==
    /\ \A s \in Script : results[s].run <= run
    /\ exit = -1 => \A i \in ended + 1 .. Len(asked) : results[asked[i]].run < run
    /\ all_passed <=> \A i \in 1 .. ended : Passed(asked[i])

Exited == exit # -1 => pc = "shell" /\ todo = <<>> /\ (exit = 0 <=> all_passed)

Base == AtHead /\ InOrder /\ Types /\ Tallied /\ Exited

\* What the scripts that have passed so far say of the board.
Ready ==
    asked = SCRIPTS /\ ~dry /\ all_passed =>
        /\ ended >= 2 \/ pc = "verify" => fpga
        /\ ended >= 3 => ~loopback
        /\ ended >= 5 => aired

IInv == Base /\ Ready

\* A script goes on.
GoesOn == Within /\ AtHead'

\* A script ends with a result or without one.
Ended == Raises \/ \E passed \in BOOLEAN : write_result(passed)

-----------------------------------------------------------------------------
(* The bookkeeping of results and verdict.                                  *)

\* The first script of todo is the next one of asked, and then one less is left.
LEMMA NextScript ==
    ASSUME InOrder, todo # <<>>
    PROVE  /\ ended \in Nat /\ ended + 1 \in 1 .. Len(asked)
           /\ Head(todo) = asked[ended + 1] /\ Head(todo) \in Script
           /\ Tail(todo) \in Seq(Script) /\ Len(Tail(todo)) = Len(todo) - 1
           /\ \A i \in 1 .. Len(Tail(todo)) : Tail(todo)[i] = asked[ended + 1 + i]
<1>1. Len(todo) \in Nat /\ Len(todo) >= 1 /\ Len(asked) \in Nat /\ Len(todo) <= Len(asked)
  BY DEF InOrder
<1>2. Head(todo) = todo[1] /\ Head(todo) \in Script
  BY <1>1 DEF InOrder
<1>3. Tail(todo) \in Seq(Script) /\ Len(Tail(todo)) = Len(todo) - 1
  BY <1>1 DEF InOrder
<1>4. \A i \in 1 .. Len(Tail(todo)) : Tail(todo)[i] = todo[i + 1] /\ i + 1 \in 1 .. Len(todo)
  BY <1>1, <1>3 DEF InOrder
<1>5. ended \in Nat /\ ended + 1 \in 1 .. Len(asked)
  BY <1>1 DEF ended
<1>6. Head(todo) = asked[ended + 1]
  BY <1>1, <1>2 DEF InOrder
<1>7. ASSUME NEW i \in 1 .. Len(Tail(todo))
      PROVE  Tail(todo)[i] = asked[ended + 1 + i]
  <2>1. Tail(todo)[i] = asked[ended + (i + 1)]
    BY <1>4 DEF InOrder
  <2>2. ended + (i + 1) = ended + 1 + i
    BY <1>1, <1>3, <1>5
  <2> QED BY <2>1, <2>2
<1> QED BY <1>2, <1>3, <1>5, <1>6, <1>7

\* A script that ends keeps the books right, with a result or without.
LEMMA EndedBase ==
    ASSUME Base, pc # "shell", Ended
    PROVE  Base' /\ ended' = ended + 1 /\ pc' = "shell" /\ (all_passed' => all_passed)
<1>1. /\ exit = -1 /\ todo # <<>>
      /\ \E ok \in BOOLEAN : Ends(ok)
  BY DEF Base, AtHead, Ended, Raises, write_result
<1>2. PICK ok \in BOOLEAN :
        /\ Ends(ok)
        /\ \/ ok = FALSE /\ results' = results
           \/ results' = [results EXCEPT ![Head(todo)] = [run |-> run, passed |-> ok]]
  BY DEF Ended, Raises, write_result
<1>3. /\ pc' = "shell" /\ todo' = Tail(todo) /\ run' = run /\ asked' = asked /\ exit' = exit
      /\ all_passed' = (all_passed /\ ok)
  BY <1>2 DEF Ends, Tally
<1>4. /\ ended \in Nat /\ ended + 1 \in 1 .. Len(asked)
      /\ Head(todo) = asked[ended + 1] /\ Head(todo) \in Script
      /\ Tail(todo) \in Seq(Script) /\ Len(Tail(todo)) = Len(todo) - 1
      /\ \A i \in 1 .. Len(Tail(todo)) : Tail(todo)[i] = asked[ended + 1 + i]
  BY <1>1, NextScript DEF Base
<1>5. Len(asked) \in Nat /\ Len(todo) \in Nat
  BY DEF Base, InOrder
<1>6. ended' = ended + 1
  BY <1>3, <1>4, <1>5 DEF ended
<1>7. AtHead'
  BY <1>3 DEF AtHead, Pc, Script, SCRIPTS, ToSet
<1>8. InOrder'
  <2>1. asked' \in Seq(Script) /\ todo' \in Seq(Script) /\ Len(todo') <= Len(asked')
    BY <1>3, <1>4, <1>5 DEF Base, InOrder
  <2>2. \A i \in 1 .. Len(todo') : todo'[i] = asked'[ended' + i]
    BY <1>3, <1>4, <1>6
  <2> QED BY <1>3, <2>1, <2>2 DEF Base, InOrder
<1>9. Types'
  <2>1. [run |-> run, passed |-> ok] \in [run : Nat, passed : BOOLEAN]
    BY DEF Base, Types
  <2>2. results' \in [Script -> [run : Nat, passed : BOOLEAN]]
    BY <1>2, <1>4, <2>1 DEF Base, Types
  <2>3. all_passed' \in BOOLEAN
    BY <1>3
  <2> QED BY <1>3, <2>2, <2>3 DEF Base, Types
<1>. PICK s0 \in Script : s0 = asked[ended + 1]
  BY <1>4
<1>10. results[s0].run < run /\ run \in Nat /\ results[s0].run \in Nat
  BY <1>1, <1>4 DEF Base, Tallied, Types
<1>11. \A i \in 1 .. Len(asked) : asked[i] \in Script /\ (i # ended + 1 => asked[i] # s0)
  BY <1>4, <1>5 DEF Base, InOrder
<1>12. \A s \in Script : s # s0 => results'[s] = results[s]
  BY <1>2, <1>4 DEF Base, Types
<1>13. (results'[s0] = results[s0] /\ ~ok) \/ results'[s0] = [run |-> run, passed |-> ok]
  BY <1>2, <1>4 DEF Base, Types
<1>14. Passed(s0)' <=> ok
  <2>1. CASE ok = TRUE
    BY <1>3, <1>13, <2>1 DEF Passed
  <2>2. CASE ok = FALSE
    <3>1. [run |-> run, passed |-> FALSE] # [run |-> run, passed |-> TRUE]
      <4>1. [run |-> run, passed |-> FALSE].passed # [run |-> run, passed |-> TRUE].passed
        OBVIOUS
      <4> QED BY <4>1
    <3>2. results[s0] # [run |-> run, passed |-> TRUE]
      <4>1. results[s0].run # [run |-> run, passed |-> TRUE].run
        BY <1>10
      <4> QED BY <4>1
    <3>3. results'[s0] # [run |-> run, passed |-> TRUE]
      BY <1>13, <2>2, <3>1, <3>2
    <3> QED BY <1>3, <2>2, <3>3 DEF Passed
  <2> QED BY <2>1, <2>2
<1>15. ASSUME NEW i \in 1 .. ended
       PROVE  Passed(asked[i])' <=> Passed(asked[i])
  <2>1. i \in 1 .. Len(asked) /\ i # ended + 1
    BY <1>4, <1>5
  <2> QED BY <2>1, <1>3, <1>11, <1>12 DEF Passed
<1>16. Tallied'
  <2>1. \A s \in Script : results'[s].run <= run'
    BY <1>3, <1>10, <1>12, <1>13 DEF Base, Tallied
  <2>2. \A i \in ended' + 1 .. Len(asked') : results'[asked'[i]].run < run'
    <3> SUFFICES ASSUME NEW i \in ended' + 1 .. Len(asked')
                 PROVE  results'[asked'[i]].run < run'
      OBVIOUS
    <3>1. i \in ended + 1 .. Len(asked) /\ i \in 1 .. Len(asked) /\ i # ended + 1
      BY <1>3, <1>4, <1>5, <1>6
    <3> QED BY <3>1, <1>1, <1>3, <1>11, <1>12 DEF Base, Tallied
  <2>3. all_passed' <=> \A i \in 1 .. ended' : Passed(asked[i])'
    <3> DEFINE Good(i) == results'[asked[i]] = [run |-> run', passed |-> TRUE]
    <3>1. 1 .. ended' = (1 .. ended) \union {ended + 1}
      BY <1>4, <1>6
    <3>2. all_passed <=> \A i \in 1 .. ended : Good(i)
      BY <1>3, <1>15 DEF Base, Tallied, Passed
    <3>3. ok <=> Good(ended + 1)
      BY <1>14 DEF Passed
    <3> HIDE DEF Good
    <3>4. (all_passed /\ ok) <=> \A i \in 1 .. ended' : Good(i)
      BY <3>1, <3>2, <3>3
    <3> QED BY <3>4, <1>3 DEF Good, Passed
  <2> QED BY <1>3, <2>1, <2>2, <2>3 DEF Tallied, Passed
<1>17. Exited'
  BY <1>1, <1>3 DEF Exited
<1> QED BY <1>3, <1>6, <1>7, <1>8, <1>9, <1>16, <1>17 DEF Base

\* A script that goes on does not touch the books.
LEMMA GoesOnBase ==
    ASSUME Base, pc # "shell", GoesOn
    PROVE  Base' /\ ended' = ended /\ all_passed' = all_passed
<1>1. /\ run' = run /\ asked' = asked /\ todo' = todo /\ all_passed' = all_passed
      /\ exit' = exit /\ results' = results /\ AtHead'
  BY DEF GoesOn, Within
<1>2. exit = -1
  BY DEF Base, AtHead
<1> QED BY <1>1, <1>2 DEF Base, InOrder, Types, Tallied, Exited, ended, Passed

-----------------------------------------------------------------------------
(* The steps.                                                               *)

\* Nothing has been run or reported.
LEMMA InitIInv == Init => IInv
<1> SUFFICES ASSUME Init PROVE IInv
  OBVIOUS
<1>1. ended = 0
  BY DEF Init, ended
<1>2. AtHead /\ InOrder /\ Exited
  BY <1>1 DEF Init, AtHead, Pc, InOrder, Exited, Script, SCRIPTS, ToSet
<1>3. Types /\ Tallied
  BY <1>1 DEF Init, Types, Tallied, NoResult
<1>4. Ready
  BY <1>1 DEF Init, Ready
<1> QED BY <1>2, <1>3, <1>4 DEF IInv, Base

\* A new invocation: nothing has ended, and every result is older.
LEMMA StartIInv ==
    ASSUME IInv, NEW d \in BOOLEAN,
           NEW scripts \in {SCRIPTS} \union {<<s>> : s \in Script}, Start(scripts, d)
    PROVE  IInv'
<1>1. /\ run' = run + 1 /\ asked' = scripts /\ todo' = scripts /\ all_passed' = TRUE
      /\ exit' = -1 /\ results' = results /\ pc' = pc /\ pc = "shell"
  BY DEF Start, IInv, Base, Exited
<1>2. /\ scripts \in Seq(Script) /\ Len(scripts) \in Nat
      /\ \A i, j \in 1 .. Len(scripts) : scripts[i] = scripts[j] => i = j
  <2>1. CASE scripts = SCRIPTS
    BY <2>1 DEF SCRIPTS, Script, ToSet
  <2>2. CASE \E s \in Script : scripts = <<s>>
    BY <2>2
  <2> QED BY <2>1, <2>2
<1>3. ended' = 0
  BY <1>1, <1>2 DEF ended
<1>4. AtHead' /\ InOrder' /\ Exited'
  <2>1. "shell" \notin Script
    BY DEF Script, SCRIPTS, ToSet
  <2>2. AtHead'
    BY <1>1, <2>1 DEF AtHead, Pc
  <2>3. \A i \in 1 .. Len(todo') : todo'[i] = asked'[ended' + i]
    BY <1>1, <1>2, <1>3
  <2>4. InOrder'
    BY <1>1, <1>2, <2>3 DEF InOrder
  <2> QED BY <1>1, <2>2, <2>4 DEF Exited
<1>5. Types'
  BY <1>1 DEF IInv, Base, Types
<1>6. Tallied'
  <2>1. \A s \in Script : results'[s].run < run'
    BY <1>1 DEF IInv, Base, Types, Tallied
  <2>2. \A i \in 1 .. Len(scripts) : scripts[i] \in Script
    BY <1>2
  <2>3. run' \in Nat /\ \A s \in Script : results'[s].run \in Nat
    BY <1>5 DEF Types
  <2> QED BY <1>1, <1>3, <2>1, <2>2, <2>3 DEF Tallied
<1>7. Ready'
  BY <1>1, <1>3 DEF Ready
<1> QED BY <1>4, <1>5, <1>6, <1>7 DEF IInv, Base

\* The first script of todo, when all of SCRIPTS were asked for, says how many
\* have ended.
LEMMA Position ==
    ASSUME Base, todo # <<>>, asked = SCRIPTS
    PROVE  /\ ended \in 0 .. 4
           /\ Head(todo) = "serial_console" => ended = 0
           /\ Head(todo) = "flash_fpga" => ended = 1
           /\ Head(todo) = "rf_loopback" => ended = 2
           /\ Head(todo) = "gps_lock" => ended = 3
           /\ Head(todo) = "fhss_onair" => ended = 4
<1>1. /\ ended \in Nat /\ ended + 1 \in 1 .. Len(asked) /\ Head(todo) = asked[ended + 1]
  BY NextScript DEF Base
<1>2. Len(asked) = 5
  BY DEF SCRIPTS
<1>3. ended \in {0, 1, 2, 3, 4}
  BY <1>1, <1>2
<1> QED BY <1>1, <1>3 DEF SCRIPTS

\* What a step of a script does to the books.
LEMMA StepBase ==
    ASSUME Base, pc # "shell", Ended \/ GoesOn
    PROVE  /\ Base' /\ dry' = dry /\ asked' = asked /\ (all_passed' => all_passed)
           /\ ended' = ended \/ (ended' = ended + 1 /\ pc' = "shell")
<1>1. CASE Ended
  BY <1>1, EndedBase DEF Ended, Raises, write_result, Ends
<1>2. CASE GoesOn
  BY <1>2, GoesOnBase DEF GoesOn, Within
<1> QED BY <1>1, <1>2

\* pc tells where in the list the run is.
LEMMA PcPosition ==
    ASSUME Base, pc # "shell", asked = SCRIPTS
    PROVE  /\ ended \in 0 .. 4
           /\ pc \in {"serial_console", "reading"} => ended = 0
           /\ pc \in {"flash_fpga", "verify"} => ended = 1
           /\ pc = "rf_loopback" => ended = 2
           /\ pc \in {"gps_lock", "pps"} => ended = 3
           /\ pc = "fhss_onair" => ended = 4
<1>1. /\ todo # <<>>
      /\ pc \in {"serial_console", "reading"} => Head(todo) = "serial_console"
      /\ pc \in {"flash_fpga", "verify"} => Head(todo) = "flash_fpga"
      /\ pc = "rf_loopback" => Head(todo) = "rf_loopback"
      /\ pc \in {"gps_lock", "pps"} => Head(todo) = "gps_lock"
      /\ pc = "fhss_onair" => Head(todo) = "fhss_onair"
  BY DEF Base, AtHead, Script, SCRIPTS, ToSet
<1> QED BY <1>1, Position

\* The serial console and the GPS test do not touch the board.
LEMMA QuietStep ==
    ASSUME IInv, Ended \/ GoesOn, UNCHANGED board, pc' # "verify",
           pc \in {"serial_console", "reading", "gps_lock", "pps"}
    PROVE  IInv'
<1>1. /\ Base' /\ dry' = dry /\ asked' = asked /\ (all_passed' => all_passed)
      /\ ended' = ended \/ (ended' = ended + 1 /\ pc' = "shell")
  BY StepBase DEF IInv
<1>2. SUFFICES ASSUME asked = SCRIPTS, ~dry, all_passed
               PROVE  /\ ended' >= 2 => fpga'
                      /\ ended' >= 3 => ~loopback'
                      /\ ended' >= 5 => aired'
  BY <1>1 DEF IInv, Ready
<1>3. ended = 0 \/ ended = 3
  BY <1>2, PcPosition DEF IInv
<1>4. (ended >= 2 => fpga) /\ (ended >= 3 => ~loopback)
  BY <1>2 DEF IInv, Ready
<1> QED BY <1>1, <1>3, <1>4 DEF board

\* serial_console.py goes on or ends.
LEMMA SerialStep == ASSUME IInv, OpenPort \/ ReadChunk \/ Booted PROVE IInv'
<1>1. pc \in {"serial_console", "reading"} /\ UNCHANGED board
  BY DEF OpenPort, ReadChunk, Booted
<1>2. Ended \/ (Within /\ pc' = "reading")
  BY DEF OpenPort, ReadChunk, Booted, Ended
<1>3. Ended => pc' # "verify"
  BY DEF Ended, Raises, write_result, Ends
<1>4. Within /\ pc' = "reading" => GoesOn
  <2>1. /\ exit = -1 /\ todo # <<>> /\ Head(todo) = "serial_console"
    BY <1>1 DEF IInv, Base, AtHead, Script, SCRIPTS, ToSet
  <2> QED BY <2>1 DEF GoesOn, Within, AtHead, Pc, Script, SCRIPTS, ToSet
<1> QED BY <1>1, <1>2, <1>3, <1>4, QuietStep

\* gps_lock.py goes on or ends.
LEMMA GpsStep == ASSUME IInv, PollFix \/ FixTimeout \/ CheckPps PROVE IInv'
<1>1. pc \in {"gps_lock", "pps"} /\ UNCHANGED board
  BY DEF PollFix, FixTimeout, CheckPps
<1>2. Ended \/ (Within /\ pc' \in {"gps_lock", "pps"})
  BY <1>1 DEF PollFix, FixTimeout, CheckPps, Ended, IInv, Base, Types
<1>3. Ended => pc' # "verify"
  BY DEF Ended, Raises, write_result, Ends
<1>4. Within /\ pc' \in {"gps_lock", "pps"} => GoesOn
  <2>1. /\ exit = -1 /\ todo # <<>> /\ Head(todo) = "gps_lock"
    BY <1>1 DEF IInv, Base, AtHead, Script, SCRIPTS, ToSet
  <2> QED BY <2>1 DEF GoesOn, Within, AtHead, Pc, Script, SCRIPTS, ToSet
<1> QED BY <1>1, <1>2, <1>3, <1>4, QuietStep

\* Only a successful tool run goes on to the verification.
LEMMA FlashStep == ASSUME IInv, Flash PROVE IInv'
<1>1. pc = "flash_fpga" /\ loopback' = loopback /\ aired' = aired
  BY DEF Flash
<1>2. CASE Within /\ pc' = "verify" /\ fpga' = TRUE
  <2>1. exit = -1 /\ todo # <<>> /\ Head(todo) = "flash_fpga"
    BY <1>1 DEF IInv, Base, AtHead, Script, SCRIPTS, ToSet
  <2>2. GoesOn
    BY <1>2, <2>1 DEF GoesOn, Within, AtHead, Pc, Script, SCRIPTS, ToSet
  <2>3. Base' /\ ended' = ended /\ all_passed' = all_passed /\ dry' = dry /\ asked' = asked
    BY <1>1, <2>2, GoesOnBase DEF IInv, GoesOn, Within
  <2> QED BY <1>1, <1>2, <2>3 DEF IInv, Ready
<1>3. CASE write_result(FALSE) \/ Raises
  <2>1. Base'
    BY <1>1, <1>3, EndedBase DEF IInv, Ended
  <2>2. ~all_passed'
    BY <1>3 DEF write_result, Raises, Ends, Tally, IInv, Base, Types
  <2> QED BY <2>1, <2>2 DEF IInv, Ready
<1> QED BY <1>2, <1>3 DEF Flash

\* verify_uio0() ends flash_fpga.py, with the FPGA configured if it passes.
LEMMA VerifyStep == ASSUME IInv, Verify PROVE IInv'
<1>1. pc = "verify" /\ UNCHANGED board /\ Ended
  BY DEF Verify, Ended
<1>2. /\ Base' /\ dry' = dry /\ asked' = asked /\ (all_passed' => all_passed)
      /\ ended' = ended + 1
  BY <1>1, StepBase, EndedBase DEF IInv
<1>3. SUFFICES ASSUME asked = SCRIPTS, ~dry, all_passed
               PROVE  fpga' /\ ~(ended' >= 3)
  BY <1>2 DEF IInv, Ready
<1>4. ended = 1
  BY <1>1, <1>3, PcPosition DEF IInv
<1> QED BY <1>1, <1>2, <1>3, <1>4 DEF IInv, Ready, board

\* A verdict other than FALSE needs a remote script that ran to its end.
LEMMA LoopbackStep == ASSUME IInv, Loopback PROVE IInv'
<1>1. pc = "rf_loopback" /\ Ended /\ fpga' = fpga
  BY DEF Loopback, Ended
<1>2. /\ Base' /\ dry' = dry /\ asked' = asked /\ (all_passed' => all_passed)
      /\ ended' = ended + 1
  BY <1>1, StepBase, EndedBase DEF IInv
<1>3. CASE loopback' \in LoopbackAfter(TRUE)
  <2>1. ~loopback'
    BY <1>3 DEF LoopbackAfter
  <2>2. SUFFICES ASSUME asked = SCRIPTS, ~dry, all_passed
                 PROVE  fpga' /\ ~(ended' >= 5)
    BY <1>2, <2>1 DEF IInv, Ready
  <2>3. ended = 2
    BY <1>1, <2>2, PcPosition DEF IInv
  <2> QED BY <1>1, <1>2, <2>2, <2>3 DEF IInv, Ready
<1>4. CASE write_result(FALSE) \/ Raises
  <2>1. ~all_passed'
    BY <1>4 DEF write_result, Raises, Ends, Tally, IInv, Base, Types
  <2> QED BY <1>2, <2>1 DEF IInv, Ready
<1> QED BY <1>3, <1>4 DEF Loopback

\* The hop logs are taken after the loopback test has passed.
LEMMA HopsStep == ASSUME IInv, CollectHops PROVE IInv'
<1>1. pc = "fhss_onair" /\ Ended /\ fpga' = fpga /\ loopback' = loopback /\ aired' = ~loopback
  <2>1. ASSUME NEW hops1 \in 0 .. Hops, NEW hops2 \in 0 .. Hops,
               IF hops1 = 0 \/ hops1 # hops2 THEN write_result(FALSE)
               ELSE \E matches \in 0 .. hops1 : write_result(matches >= Hops)
        PROVE  \E passed \in BOOLEAN : write_result(passed)
    <3>1. CASE hops1 = 0 \/ hops1 # hops2
      BY <2>1, <3>1
    <3>2. CASE ~(hops1 = 0 \/ hops1 # hops2)
      <4>1. PICK matches \in 0 .. hops1 : write_result(matches >= Hops)
        BY <2>1, <3>2
      <4>2. (matches >= Hops) \in BOOLEAN
        OBVIOUS
      <4> QED BY <4>1, <4>2
    <3> QED BY <3>1, <3>2
  <2> QED BY <2>1 DEF CollectHops, Ended
<1>2. /\ Base' /\ dry' = dry /\ asked' = asked /\ (all_passed' => all_passed)
      /\ ended' = ended + 1
  BY <1>1, StepBase, EndedBase DEF IInv
<1>3. SUFFICES ASSUME asked = SCRIPTS, ~dry, all_passed
               PROVE  fpga' /\ ~loopback' /\ aired'
  BY <1>2 DEF IInv, Ready
<1>4. ended = 4
  BY <1>1, <1>3, PcPosition DEF IInv
<1>5. fpga /\ ~loopback
  BY <1>3, <1>4 DEF IInv, Ready
<1> QED BY <1>1, <1>5

\* The loopback test is the only one that may hang with loopback changed, and the
\* verdict on it is not there yet.
LEMMA HangsStep == ASSUME IInv, Hangs PROVE IInv'
<1>1. /\ pc # "shell" /\ pc' = "hung" /\ fpga' = fpga /\ aired' = aired
      /\ pc # "rf_loopback" => loopback' = loopback
  BY DEF Hangs
<1>2. exit = -1 /\ todo # <<>>
  BY <1>1 DEF IInv, Base, AtHead
<1>3. GoesOn
  BY <1>1, <1>2 DEF Hangs, GoesOn, Within, AtHead, Pc, Script, SCRIPTS, ToSet
<1>4. Base' /\ ended' = ended /\ all_passed' = all_passed /\ dry' = dry /\ asked' = asked
  BY <1>1, <1>3, GoesOnBase DEF IInv, GoesOn, Within
<1>5. asked = SCRIPTS /\ pc = "rf_loopback" => ended = 2
  BY <1>1, PcPosition DEF IInv
<1> QED BY <1>1, <1>4, <1>5 DEF IInv, Ready

\* A script of a dry run ends at once.
LEMMA DryStep == ASSUME IInv, run_dry PROVE IInv'
<1>1. pc # "shell" /\ dry
  BY DEF run_dry, Script, SCRIPTS, ToSet
<1>2. Ended
  BY DEF run_dry, Ended
<1> QED BY <1>1, <1>2, StepBase DEF IInv, Ready

\* run_script() starts the next script of the list.
LEMMA RunScriptStep == ASSUME IInv, run_script PROVE IInv'
<1>1. /\ exit = -1 /\ todo # <<>> /\ pc' = Head(todo) /\ Head(todo) \in Script
      /\ UNCHANGED <<run, asked, dry, todo, all_passed, exit, results, board>>
  BY NextScript DEF run_script, IInv, Base
<1>2. AtHead'
  BY <1>1 DEF AtHead, Pc, Script, SCRIPTS, ToSet
<1>3. ended' = ended
  BY <1>1 DEF ended
<1>4. Base'
  BY <1>1, <1>2, <1>3 DEF IInv, Base, InOrder, Types, Tallied, Exited, Passed
<1>5. pc' # "verify"
  BY <1>1 DEF Script, SCRIPTS, ToSet
<1> QED BY <1>1, <1>3, <1>4, <1>5 DEF IInv, Ready, board

\* The exit code is computed from the results.
LEMMA ExitStep == ASSUME IInv, Exit PROVE IInv'
<1>1. /\ pc = "shell" /\ todo = <<>> /\ exit' = (IF all_passed THEN 0 ELSE 1)
      /\ UNCHANGED <<run, asked, dry, todo, pc, locals, all_passed, results, board>>
  BY DEF Exit
<1>2. ended' = ended /\ all_passed \in BOOLEAN
  BY <1>1 DEF ended, IInv, Base, Types
<1>3. AtHead' /\ InOrder' /\ Types' /\ Exited'
  BY <1>1, <1>2 DEF IInv, Base, AtHead, Pc, InOrder, Types, Exited, Script, SCRIPTS, ToSet
<1>4. Tallied'
  <2>1. exit' # -1
    BY <1>1
  <2>2. /\ \A s \in Script : results[s].run <= run
        /\ all_passed <=> \A i \in 1 .. ended : Passed(asked[i])
    BY DEF IInv, Base, Tallied
  <2> QED BY <1>1, <1>2, <2>1, <2>2 DEF Tallied, Passed
<1> QED BY <1>1, <1>2, <1>3, <1>4 DEF IInv, Base, Ready, board

\* Every step keeps the invariant.
LEMMA NextIInv == IInv /\ [Next]_vars => IInv'
<1> SUFFICES ASSUME IInv, [Next]_vars PROVE IInv'
  OBVIOUS
<1>1. CASE \E scripts \in {SCRIPTS} \union {<<s>> : s \in Script}, d \in BOOLEAN : Start(scripts, d)
  BY <1>1, StartIInv
<1>2. CASE run_script \/ run_dry \/ Hangs \/ Exit
  BY <1>2, RunScriptStep, DryStep, HangsStep, ExitStep
<1>3. CASE Scripts
  BY <1>3, SerialStep, FlashStep, VerifyStep, LoopbackStep, GpsStep, HopsStep DEF Scripts
<1>4. CASE UNCHANGED vars
  BY <1>4 DEF vars, locals, board, IInv, Base, AtHead, InOrder, Types, Tallied, Exited, Ready,
              ended, Passed
<1> QED BY <1>1, <1>2, <1>3, <1>4 DEF Next

-----------------------------------------------------------------------------
(* The theorems.                                                            *)

\* It says what the exit code means,
LEMMA IInvExit == IInv => ExitMatchesResults
<1> SUFFICES ASSUME IInv, exit # -1 PROVE exit = 0 <=> \A s \in ToSet(asked) : Passed(s)
  BY DEF ExitMatchesResults
<1>1. todo = <<>> /\ (exit = 0 <=> all_passed)
  BY DEF IInv, Base, Exited
<1>2. ended = Len(asked)
  BY <1>1 DEF ended, IInv, Base, InOrder
<1>3. all_passed <=> \A i \in 1 .. Len(asked) : Passed(asked[i])
  BY <1>2 DEF IInv, Base, Tallied
<1>4. ToSet(asked) = {asked[i] : i \in 1 .. Len(asked)}
  BY DEF ToSet, IInv, Base, InOrder
<1> QED BY <1>1, <1>3, <1>4

\* and what a passed run means.
LEMMA IInvReady == IInv => PassMeansReady
<1> SUFFICES ASSUME IInv, exit = 0, asked = SCRIPTS, ~dry PROVE fpga /\ ~loopback /\ aired
  BY DEF PassMeansReady
<1>1. todo = <<>> /\ all_passed
  BY DEF IInv, Base, Exited
<1>2. ended = 5
  BY <1>1 DEF ended, SCRIPTS
<1> QED BY <1>1, <1>2 DEF IInv, Ready

\* run_all.py:43-57 and board_ssh.py:60-67: the exit code is that of the results
\* written in this invocation, whatever files earlier ones left.
THEOREM ExitCodeTrue == Spec => []ExitMatchesResults
<1>1. Spec => []IInv
  BY InitIInv, NextIInv, PTL DEF Spec
<1> QED BY <1>1, IInvExit, PTL

\* run_all.py:8-14: in the order of SCRIPTS, a complete run that passes has
\* configured the FPGA, has left the loopback and has tested the hops on air.
THEOREM PassedBoardReady == Spec => []PassMeansReady
<1>1. Spec => []IInv
  BY InitIInv, NextIInv, PTL DEF Spec
<1> QED BY <1>1, IInvReady, PTL

-----------------------------------------------------------------------------
(* Zone.place() of gen_pcb_placement.py.                                    *)

ZoneInv == ZoneTypeOK /\ RoomAhead /\ NoOverlap /\ InsideZone

\* A zone's record with types.
ZoneType == [x_min : Int, x_max : Int, y_max : Int, cursor_x : Int, cursor_y : Int, row_height : Nat]

\* A wrap keeps every box before the cursor and the zone's bounds.
LEMMA WrapKeeps ==
    ASSUME NEW z \in ZoneType, NEW w \in Nat, z.cursor_x >= z.x_min + mm
    PROVE  LET row == Wrapped(z, w)
           IN  /\ row \in ZoneType
               /\ row.x_min = z.x_min /\ row.x_max = z.x_max /\ row.y_max = z.y_max
               /\ row.cursor_x >= row.x_min + mm
               /\ w + mm + margin <= z.x_max - z.x_min => row.cursor_x + w + margin <= z.x_max
               /\ \A b \in Box : Before(b, z) => Before(b, row)
<1> DEFINE row == Wrapped(z, w)
<1>1. CASE z.cursor_x + w + margin > z.x_max
  <2>1. row = [x_min |-> z.x_min, x_max |-> z.x_max, y_max |-> z.y_max, cursor_x |-> z.x_min + mm,
               cursor_y |-> z.cursor_y + z.row_height + margin, row_height |-> 0]
    BY <1>1 DEF Wrapped, ZoneType
  <2>2. ASSUME NEW b \in Box, Before(b, z)
        PROVE  Before(b, row)
    BY <2>1, <2>2 DEF Before, Box, ZoneType, margin
  <2> QED BY <2>1, <2>2 DEF ZoneType, mm, margin
<1>2. CASE ~(z.cursor_x + w + margin > z.x_max)
  <2>1. row = z
    BY <1>2 DEF Wrapped
  <2> QED BY <1>2, <2>1 DEF ZoneType, mm, margin
<1> QED BY <1>1, <1>2

\* The cursor passes the box that was placed and stays behind no other.
LEMMA AdvanceKeeps ==
    ASSUME NEW z \in ZoneType, NEW w \in Nat, NEW h \in Nat
    PROVE  LET next == Advanced(z, w, h)
           IN  /\ next \in ZoneType
               /\ next.x_min = z.x_min /\ next.x_max = z.x_max /\ next.y_max = z.y_max
               /\ next.cursor_x = z.cursor_x + w + margin
               /\ BoxAt(z, w, h) \in Box
               /\ Before(BoxAt(z, w, h), next)
               /\ \A b \in Box : Before(b, z) => Before(b, next)
<1> DEFINE high == IF z.row_height >= h + margin THEN z.row_height ELSE h + margin
<1>1. Advanced(z, w, h) = [z EXCEPT !.cursor_x = z.cursor_x + w + margin, !.row_height = high]
  BY DEF Advanced
<1>2. high \in Nat /\ high >= z.row_height /\ high >= h + margin
  BY DEF ZoneType, margin
<1> HIDE DEF high
<1>x. Advanced(z, w, h) = [x_min |-> z.x_min, x_max |-> z.x_max, y_max |-> z.y_max,
                           cursor_x |-> z.cursor_x + w + margin, cursor_y |-> z.cursor_y,
                           row_height |-> high]
  BY <1>1, <1>2 DEF ZoneType
<1>3. BoxAt(z, w, h) \in Box /\ Before(BoxAt(z, w, h), Advanced(z, w, h))
  BY <1>x, <1>2 DEF BoxAt, Box, Before, ZoneType, margin
<1>4. ASSUME NEW b \in Box, Before(b, z)
      PROVE  Before(b, Advanced(z, w, h))
  BY <1>x, <1>2, <1>4 DEF Before, Box, ZoneType, margin
<1> QED BY <1>x, <1>2, <1>3, <1>4 DEF ZoneType, margin

\* A box before the cursor is apart from the one placed at the cursor.
LEMMA BeforeApart ==
    ASSUME NEW z \in ZoneType, NEW w \in Nat, NEW h \in Nat, NEW b \in Box, Before(b, z)
    PROVE  Apart(b, BoxAt(z, w, h))
BY DEF Before, Apart, BoxAt, Box, ZoneType, margin

\* The empty zone.
LEMMA InitZone ==
    ASSUME Coordinate \subseteq Int
    PROVE  ZoneInit => ZoneInv
BY DEF ZoneInit, ZoneInv, ZoneTypeOK, RoomAhead, NoOverlap, InsideZone, Zone, mm, Box

\* Every call of place() preserves the invariant.
LEMMA StepZone ==
    ASSUME Length \subseteq Nat
    PROVE  ZoneInv /\ [ZoneNext]_zoneVars => ZoneInv'
<1> SUFFICES ASSUME ZoneInv, [ZoneNext]_zoneVars
             PROVE  ZoneInv'
  OBVIOUS
<1>t. zone \in ZoneType /\ placed \in Seq(Box)
  BY DEF ZoneInv, ZoneTypeOK, ZoneType
<1>b. \A i \in 1 .. Len(placed) : placed[i] \in Box
  BY <1>t
<1>1. ASSUME NEW w \in Length, NEW h \in Length, PlaceFits(w, h)
      PROVE  ZoneInv'
  <2> DEFINE row == Wrapped(zone, w)
             box == BoxAt(row, w, h)
             n == Len(placed)
  <2>0. w \in Nat /\ h \in Nat /\ n \in Nat
    BY <1>t
  <2>1. /\ row \in ZoneType
        /\ row.x_min = zone.x_min /\ row.x_max = zone.x_max /\ row.y_max = zone.y_max
        /\ row.cursor_x >= row.x_min + mm
        /\ w + mm + margin <= zone.x_max - zone.x_min => row.cursor_x + w + margin <= zone.x_max
        /\ \A b \in Box : Before(b, zone) => Before(b, row)
    BY <1>t, <2>0, WrapKeeps DEF ZoneInv, RoomAhead
  <2>2. Fits(row, h) /\ zone' = Advanced(row, w, h) /\ placed' = Append(placed, box)
    BY <1>1 DEF PlaceFits
  <2> HIDE DEF row
  <2>3. /\ zone' \in ZoneType
        /\ zone'.x_min = row.x_min /\ zone'.x_max = row.x_max /\ zone'.y_max = row.y_max
        /\ zone'.cursor_x = row.cursor_x + w + margin
        /\ box \in Box
        /\ Before(box, zone')
        /\ \A b \in Box : Before(b, row) => Before(b, zone')
    BY <2>0, <2>1, <2>2, AdvanceKeeps
  <2>4. /\ placed' \in Seq(Box) /\ Len(placed') = n + 1 /\ placed'[n + 1] = box
        /\ \A i \in 1 .. n : placed'[i] = placed[i]
    BY <1>t, <2>0, <2>2, <2>3
  <2>5. \A i \in 1 .. n : Before(placed[i], row) /\ Before(placed[i], zone')
    BY <1>b, <2>1, <2>3 DEF ZoneInv, RoomAhead
  <2>6. ZoneTypeOK'
    BY <2>3, <2>4 DEF ZoneTypeOK, ZoneType
  <2>7. RoomAhead'
    <3>1. zone'.cursor_x >= zone'.x_min + mm
      <4>1. row.cursor_x \in Int /\ row.x_min \in Int
        BY <2>1 DEF ZoneType
      <4> QED BY <4>1, <2>0, <2>1, <2>3 DEF mm, margin
    <3>2. ASSUME NEW i \in 1 .. n + 1 PROVE Before(placed'[i], zone')
      <4>1. CASE i = n + 1
        BY <4>1, <2>3, <2>4
      <4>2. CASE i # n + 1
        BY <4>2, <2>0, <2>4, <2>5
      <4> QED BY <4>1, <4>2
    <3> QED BY <3>1, <3>2, <2>4 DEF RoomAhead
  <2>8. NoOverlap'
    <3> SUFFICES ASSUME NEW i \in 1 .. n + 1, NEW j \in 1 .. n + 1, i < j
                 PROVE  Apart(placed'[i], placed'[j])
      BY <2>4 DEF NoOverlap, Apart
    <3>1. CASE j = n + 1
      <4>1. i \in 1 .. n /\ placed'[j] = box /\ placed'[i] = placed[i]
        BY <3>1, <2>0, <2>4
      <4> QED BY <4>1, <1>b, <2>0, <2>1, <2>5, BeforeApart
    <3>2. CASE j # n + 1
      <4>1. i \in 1 .. n /\ j \in 1 .. n
        BY <3>2, <2>0
      <4> QED BY <4>1, <2>4 DEF ZoneInv, NoOverlap
    <3> QED BY <3>1, <3>2
  <2>9. InsideZone'
    <3> SUFFICES ASSUME NEW i \in 1 .. n + 1
                 PROVE  /\ placed'[i].x >= zone'.x_min + mm
                        /\ placed'[i].w + mm + margin <= zone'.x_max - zone'.x_min
                              => placed'[i].x + placed'[i].w + margin <= zone'.x_max
                        /\ placed'[i].y + placed'[i].h + margin <= zone'.y_max
      BY <2>4 DEF InsideZone
    <3>1. CASE i = n + 1
      <4>1. box.x = row.cursor_x /\ box.y = row.cursor_y /\ box.w = w /\ box.h = h
        BY DEF BoxAt
      <4> QED BY <4>1, <3>1, <2>1, <2>2, <2>3, <2>4 DEF Fits
    <3>2. CASE i # n + 1
      <4>1. i \in 1 .. n /\ placed'[i] = placed[i]
        BY <3>2, <2>0, <2>4
      <4> QED BY <4>1, <2>1, <2>3 DEF ZoneInv, InsideZone
    <3> QED BY <3>1, <3>2
  <2> QED BY <2>6, <2>7, <2>8, <2>9 DEF ZoneInv
<1>2. ASSUME NEW w \in Length, NEW h \in Length, PlaceNone(w, h)
      PROVE  ZoneInv'
  <2>1. zone' = Wrapped(zone, w) /\ placed' = placed /\ w \in Nat
    BY <1>2 DEF PlaceNone
  <2>2. /\ zone' \in ZoneType
        /\ zone'.x_min = zone.x_min /\ zone'.x_max = zone.x_max /\ zone'.y_max = zone.y_max
        /\ zone'.cursor_x >= zone'.x_min + mm
        /\ \A b \in Box : Before(b, zone) => Before(b, zone')
    BY <1>t, <2>1, WrapKeeps DEF ZoneInv, RoomAhead
  <2>3. ZoneTypeOK' /\ RoomAhead'
    BY <1>t, <1>b, <2>1, <2>2 DEF ZoneTypeOK, ZoneType, ZoneInv, RoomAhead
  <2>4. NoOverlap' /\ InsideZone'
    BY <2>1, <2>2 DEF ZoneInv, NoOverlap, InsideZone
  <2> QED BY <2>3, <2>4 DEF ZoneInv
<1>3. CASE UNCHANGED zoneVars
  BY <1>3 DEF zoneVars, ZoneInv, ZoneTypeOK, RoomAhead, NoOverlap, InsideZone
<1> QED BY <1>1, <1>2, <1>3 DEF ZoneNext

\* class Zone: parts placed in one zone never overlap.
THEOREM ZoneNoOverlap ==
    ASSUME Coordinate \subseteq Int, Length \subseteq Nat
    PROVE  ZoneSpec => []NoOverlap
<1>1. ZoneInit => ZoneInv
  BY InitZone
<1>2. ZoneInv /\ [ZoneNext]_zoneVars => ZoneInv'
  BY StepZone
<1>3. ZoneInv => NoOverlap
  BY DEF ZoneInv
<1> QED BY <1>1, <1>2, <1>3, PTL DEF ZoneSpec

\* class Zone: a part no wider than the zone stays inside it.
THEOREM ZoneInside ==
    ASSUME Coordinate \subseteq Int, Length \subseteq Nat
    PROVE  ZoneSpec => []InsideZone
<1>1. ZoneInit => ZoneInv
  BY InitZone
<1>2. ZoneInv /\ [ZoneNext]_zoneVars => ZoneInv'
  BY StepZone
<1>3. ZoneInv => InsideZone
  BY DEF ZoneInv
<1> QED BY <1>1, <1>2, <1>3, PTL DEF ZoneSpec

\* A board file with types.
PcbType == [exists : BOOLEAN, nets : SUBSET Sheet, placed : BOOLEAN, parts : SUBSET Sheet, planes : BOOLEAN, routed : Nat]

\* What a board file holds was made of sheets that were there.
PcbInv ==
    /\ present \in Inputs
    /\ pcb \in PcbType
    /\ pcb.exists => pcb.nets \in Inputs
    /\ pcb.planes \/ pcb.placed \/ pcb.routed > 0 => pcb.exists
    /\ pcb.placed => pcb.parts \in Inputs

\* Every set of sheets a script can find.
LEMMA InputsGrow ==
  /\ Sheet \ Late \in Inputs
  /\ \A S \in Inputs, s \in Sheet : S \union {s} \in Inputs
  /\ \A S \in Inputs : S \subseteq Sheet
  <1>1. ASSUME NEW S \in Inputs, NEW s \in Sheet PROVE S \union {s} \in Inputs
    <2>1. PICK missing \in SUBSET Late : S = Sheet \ missing
      BY DEF Inputs
    <2>2. missing \ {s} \in SUBSET Late /\ S \union {s} = Sheet \ (missing \ {s})
      BY <2>1
    <2>3. QED
      BY <2>2 DEF Inputs
  <1>2. QED
    BY <1>1 DEF Inputs

\* The scripts keep it, in any order.
LEMMA PcbAlways == PcbSpec => []PcbInv
  <1>1. PcbInit => PcbInv
    BY InputsGrow DEF PcbInit, PcbInv, PcbType, NoFile
  <1>2. PcbInv /\ [PcbNext]_pcbVars => PcbInv'
    <2> SUFFICES ASSUME PcbInv, [PcbNext]_pcbVars PROVE PcbInv'
      OBVIOUS
    <2>1. ASSUME NEW s \in Sheet, gen(s) PROVE PcbInv'
      BY <2>1, InputsGrow DEF gen, PcbInv
    <2>2. CASE netlist
      BY <2>2, InputsGrow DEF netlist, NoFile, PcbInv, PcbType
    <2>3. CASE placement
      BY <2>3, InputsGrow DEF placement, PcbInv, PcbType
    <2>4. CASE planes
      BY <2>4 DEF planes, PcbInv, PcbType
    <2>5. CASE routing
      BY <2>5 DEF routing, PcbInv, PcbType
    <2>6. CASE drc \/ UNCHANGED pcbVars
      BY <2>6 DEF drc, pcbVars, PcbInv
    <2>7. QED
      BY <2>1, <2>2, <2>3, <2>4, <2>5, <2>6 DEF PcbNext
  <1>3. QED
    BY <1>1, <1>2, PTL DEF PcbSpec

-----------------------------------------------------------------------------
(* The nets of the sheets.                                                  *)

\* A net of one section is a net of the sheet.
LEMMA JoinedNets ==
  ASSUME NEW secs, NEW i \in 1 .. Len(secs)
  PROVE  secs[i].nets \subseteq Joined(secs).nets
  BY DEF Joined

\* The sheets, one by one.
LEMMA NetsOfSheets ==
  /\ NetsOf("power") = Power.nets /\ NetsOf("zynq") = ZynqSheet.nets
  /\ NetsOf("ad9361") = AdSheet.nets /\ NetsOf("connectors") = ConnectorSheet.nets
  <1>1. Len(SCHEMATIC_FILES) = 7
    BY DEF SCHEMATIC_FILES
  <1>2. Sheet = {SCHEMATIC_FILES[i] : i \in 1 .. 7}
    BY <1>1 DEF Sheet, ToSet, SCHEMATIC_FILES
  <1>3. \A i, j \in 1 .. 7 : SCHEMATIC_FILES[i] = SCHEMATIC_FILES[j] => i = j
    BY DEF SCHEMATIC_FILES
  <1>4. QED
    BY <1>2, <1>3 DEF NetsOf, Drawn, SCHEMATIC_FILES

\* The power and the ad9361 sheet draw every rail of the fixed order.
LEMMA RailsDrawn ==
  /\ Rails({RailOrder[i] : i \in 2 .. 23} \ {"+1V3_AD"}) \subseteq NetsOf("power")
  /\ Net("+1V3_AD") \in NetsOf("ad9361")
  <1>1. PowerInput.nets \union PowerMain.nets \union PowerCore.nets \subseteq NetsOf("power")
    <2> DEFINE secs == <<PowerInput, PowerMain, PowerCore, PowerVtt>>
    <2>1. Power = Joined(secs) /\ Len(secs) = 4
      BY DEF Power
    <2>2. secs[1] = PowerInput /\ secs[2] = PowerMain /\ secs[3] = PowerCore
      OBVIOUS
    <2> HIDE DEF secs
    <2>3. \A i \in 1 .. 4 : secs[i].nets \subseteq Power.nets
      BY <2>1, JoinedNets
    <2>4. QED
      BY <2>2, <2>3, NetsOfSheets
  <1>2. Net("+12V") \in PowerInput.nets
    BY DEF PowerInput, Section
  <1>3. Rails({"+5V", "+5V_EN", "+5V_PG", "+5V_PA", "+3V3", "+3V3_EN", "+3V3_PG", "+3V3A"}) \subseteq PowerMain.nets
    <2> DEFINE U == Next1("U", "SOIC-8")
               secs == <<Converter({"+5V", "+5V_EN", "+5V_PG"}, U, R0402 \o C \o R0402 \o C),
                         Section(R0402 \o R0402 \o L0805 \o C \o L0805, {Net("+5V_PA")}),
                         Converter({"+3V3", "+3V3_EN", "+3V3_PG"}, U, R0402 \o C \o R0402 \o C),
                         Section(R0402 \o R0402 \o Next1("FB", "0402") \o C, {Net("+3V3A")})>>
    <2>1. PowerMain = Joined(secs) /\ Len(secs) = 4
      BY DEF PowerMain
    <2>2. /\ Rails({"+5V", "+5V_EN", "+5V_PG"}) \subseteq secs[1].nets /\ Net("+5V_PA") \in secs[2].nets
          /\ Rails({"+3V3", "+3V3_EN", "+3V3_PG"}) \subseteq secs[3].nets /\ Net("+3V3A") \in secs[4].nets
      BY DEF Converter, Section
    <2> HIDE DEF secs
    <2>3. \A i \in 1 .. 4 : secs[i].nets \subseteq PowerMain.nets
      BY <2>1, JoinedNets
    <2>4. QED
      BY <2>2, <2>3 DEF Rails
  <1>4. Rails({"+1V0", "+1V0_EN", "+1V0_PG", "+1V5", "+1V5_EN", "+1V5_PG", "+1V8", "+1V8_EN", "+1V8_PG",
               "+1V35", "+1V35_EN", "+1V35_PG"}) \subseteq PowerCore.nets
    <2> DEFINE Buck(nets) == Converter(nets, Next1("U", "WSON-8_2x2"), C)
               Divider == Section(Times(3, R0402), {})
               secs == <<Buck({"+1V0", "+1V0_EN", "+1V0_PG"}), Divider, Buck({"+1V5", "+1V5_EN", "+1V5_PG"}), Divider,
                         Buck({"+1V8", "+1V8_EN", "+1V8_PG"}), Divider, Buck({"+1V35", "+1V35_EN", "+1V35_PG"}), Divider>>
    <2>1. PowerCore = Joined(secs) /\ Len(secs) = 8
      BY DEF PowerCore
    <2>2. /\ Rails({"+1V0", "+1V0_EN", "+1V0_PG"}) \subseteq secs[1].nets
          /\ Rails({"+1V5", "+1V5_EN", "+1V5_PG"}) \subseteq secs[3].nets
          /\ Rails({"+1V8", "+1V8_EN", "+1V8_PG"}) \subseteq secs[5].nets
          /\ Rails({"+1V35", "+1V35_EN", "+1V35_PG"}) \subseteq secs[7].nets
      BY DEF Converter, Section
    <2> HIDE DEF secs
    <2>3. \A i \in 1 .. 8 : secs[i].nets \subseteq PowerCore.nets
      BY <2>1, JoinedNets
    <2>4. QED
      BY <2>2, <2>3 DEF Rails
  <1>5. Net("+1V3_AD") \in NetsOf("ad9361")
    <2>1. <<AdLvds, AdControl, AdClock, AdPower, AdDecoupling>>[4].nets \subseteq AdSheet.nets
      BY JoinedNets DEF AdSheet
    <2>2. QED
      BY <2>1, NetsOfSheets DEF AdPower, Section, Rails
  <1>6. {RailOrder[i] : i \in 2 .. 23} \ {"+1V3_AD"} \subseteq
          {"+12V", "+1V0", "+1V0_EN", "+1V0_PG", "+1V35", "+1V35_EN", "+1V35_PG", "+1V5", "+1V5_EN", "+1V5_PG",
           "+1V8", "+1V8_EN", "+1V8_PG", "+3V3", "+3V3A", "+3V3_EN", "+3V3_PG", "+5V", "+5V_EN", "+5V_PA", "+5V_PG"}
    BY DEF RailOrder
  <1>7. QED
    BY <1>1, <1>2, <1>3, <1>4, <1>5, <1>6 DEF Rails

\* With these two sheets the net list begins with every rail.
LEMMA RailsFirst ==
  ASSUME NEW S, {"power", "ad9361"} \subseteq S
  PROVE  \A k \in 1 .. 23 : Net(RailOrder[k]) \in NetNames(S) /\ NetNumber(S, RailOrder[k]) = k
  <1>1. ASSUME NEW k \in 1 .. 23 PROVE Net(RailOrder[k]) \in NetNames(S)
    <2>1. CASE k = 1
      BY <2>1 DEF RailOrder, NetNames, GND
    <2>2. CASE k # 1
      <3>1. k \in 2 .. 23
        BY <2>2
      <3>2. Net(RailOrder[k]) \in NetsOf("power") \union NetsOf("ad9361")
        BY <3>1, RailsDrawn DEF Rails
      <3>3. QED
        BY <3>2 DEF NetNames
    <2>3. QED
      BY <2>1, <2>2
  <1>2. ASSUME NEW k \in 1 .. 23 PROVE NetNumber(S, RailOrder[k]) = k
    <2>1. Len(RailOrder) = 23
      BY DEF RailOrder
    <2>2. \A i, j \in 1 .. 23 : RailOrder[i] = RailOrder[j] => i = j
      BY DEF RailOrder
    <2>3. (CHOOSE i \in 1 .. Len(RailOrder) : RailOrder[i] = RailOrder[k]) = k
      BY <2>1, <2>2
    <2>4. {i \in 1 .. k : Net(RailOrder[i]) \in NetNames(S)} = 1 .. k
      BY <1>1
    <2>5. Cardinality(1 .. k) = k
      <3>1. 1 \in Int /\ k \in Int /\ ~(1 > k) /\ k - 1 + 1 = k
        OBVIOUS
      <3>2. Cardinality(1 .. k) = IF 1 > k THEN 0 ELSE k - 1 + 1
        BY <3>1, FS_Interval, Zenon
      <3>3. QED
        BY <3>1, <3>2
    <2>6. QED
      BY <2>3, <2>4, <2>5 DEF NetNumber
  <1>3. QED
    BY <1>1, <1>2

\* Then every plane is on its net.
LEMMA PlanesRight ==
  ASSUME NEW S, {"power", "ad9361"} \subseteq S
  PROVE  MisplacedPlanes(S) = {}
  <1> DEFINE ground == [i \in 1 .. 5 |-> <<1, "GND">>]
             others == << <<3, "+1V0">>, <<6, "+1V35">>, <<10, "+1V5">>, <<13, "+1V8">>, <<13, "+1V8">>,
                          <<16, "+3V3">>, <<16, "+3V3">>, <<20, "+5V">> >>
             Right(z) == z[1] \in 1 .. 23 /\ RailOrder[z[1]] = z[2]
  <1>1. \A i \in 1 .. 5 : Right(ground[i])
    BY DEF RailOrder
  <1>2. \A i \in 1 .. 8 : Right(others[i])
    BY DEF RailOrder
  <1>3. Len(ground) = 5 /\ Len(others) = 8 /\ Planes = ground \o others
    BY DEF Planes
  <1>4. \A i \in 1 .. Len(Planes) : \/ i \in 1 .. 5 /\ Planes[i] = ground[i]
                                    \/ i - 5 \in 1 .. 8 /\ Planes[i] = others[i - 5]
    BY <1>3
  <1> HIDE DEF ground, others
  <1>5. \A i \in 1 .. Len(Planes) : Right(Planes[i])
    BY <1>1, <1>2, <1>4
  <1>6. ASSUME NEW i \in 1 .. Len(Planes)
        PROVE  Net(Planes[i][2]) \in NetNames(S) /\ NetNumber(S, Planes[i][2]) = Planes[i][1]
    <2>1. Planes[i][1] \in 1 .. 23 /\ RailOrder[Planes[i][1]] = Planes[i][2]
      BY <1>5
    <2>2. QED
      BY <2>1, RailsFirst
  <1>7. QED
    BY <1>6 DEF MisplacedPlanes

\* The other nets that traces take for granted.
LEMMA SignalsDrawn ==
  /\ AdSpi \union Rails({"AD_RX1A_P", "AD_TX1A"}) \subseteq NetsOf("ad9361")
  /\ Rails({"PS_UART0_TX", "PS_UART0_RX", "PS_I2C_SDA", "PS_I2C_SCL"}) \subseteq NetsOf("connectors")
  /\ Bus("UART0_MIO", 46 .. 47) \union Bus("MIO", 10 .. 13) \subseteq NetsOf("zynq")
  <1>1. AdSpi \union Rails({"AD_RX1A_P", "AD_TX1A"}) \subseteq NetsOf("ad9361")
    <2> DEFINE secs == <<AdLvds, AdControl, AdClock, AdPower, AdDecoupling>>
    <2>1. AdSheet = Joined(secs) /\ Len(secs) = 5 /\ secs[2] = AdControl /\ secs[3] = AdClock
      BY DEF AdSheet
    <2> HIDE DEF secs
    <2>2. AdControl.nets \union AdClock.nets \subseteq NetsOf("ad9361")
      BY <2>1, JoinedNets, NetsOfSheets
    <2>3. AdSpi \subseteq AdControl.nets /\ Rails({"AD_RX1A_P", "AD_TX1A"}) \subseteq AdClock.nets
      BY DEF AdControl, AdClock, AdRf, Section, Rails
    <2>4. QED
      BY <2>2, <2>3
  <1>2. Rails({"PS_UART0_TX", "PS_UART0_RX", "PS_I2C_SDA", "PS_I2C_SCL"}) \subseteq NetsOf("connectors")
    <2> DEFINE secs == <<GpioHeader, StatusLeds, UserButtons, TestPoints>>
    <2>1. ConnectorSheet = Joined(secs) /\ Len(secs) = 4 /\ secs[1] = GpioHeader
      BY DEF ConnectorSheet
    <2> HIDE DEF secs
    <2>2. GpioHeader.nets \subseteq NetsOf("connectors")
      BY <2>1, JoinedNets, NetsOfSheets
    <2>3. Rails({"PS_UART0_TX", "PS_UART0_RX", "PS_I2C_SDA", "PS_I2C_SCL"}) \subseteq GpioHeader.nets
      BY DEF GpioHeader, Section, Rails
    <2>4. QED
      BY <2>2, <2>3
  <1>3. Bus("UART0_MIO", 46 .. 47) \union Bus("MIO", 10 .. 13) \subseteq NetsOf("zynq")
    <2> DEFINE secs == <<ZynqConfig, ZynqJtag, ZynqMio, ZynqDdr, ZynqBanks, ZynqPower, ZynqDecoupling>>
    <2>1. ZynqSheet = Joined(secs) /\ Len(secs) = 7 /\ secs[3] = ZynqMio
      BY DEF ZynqSheet
    <2> HIDE DEF secs
    <2>2. ZynqMio.nets \subseteq NetsOf("zynq")
      BY <2>1, JoinedNets, NetsOfSheets
    <2>3. Bus("UART0_MIO", 46 .. 47) \union Bus("MIO", 10 .. 13) \subseteq ZynqMio.nets
      <3>1. 10 .. 13 \subseteq (7 .. 15) \union (52 .. 53)
        OBVIOUS
      <3>2. Bus("MIO", 10 .. 13) \subseteq Bus("MIO", (7 .. 15) \union (52 .. 53))
        BY <3>1 DEF Bus
      <3>3. QED
        BY <3>2 DEF ZynqMio, Section
    <2>4. QED
      BY <2>2, <2>3
  <1>4. QED
    BY <1>1, <1>2, <1>3

-----------------------------------------------------------------------------
(* What is drawn.                                                           *)

\* A trace of byte lane k.
LEMMA LaneTraces ==
  ASSUME NEW k \in 0 .. 3, NEW t \in gen_ddr3l_lane(k)
  PROVE  /\ t.net \in t.needs
         /\ \/ t.net[1] \in {"DDR_DQ", "DDR_DM"}
            \/ /\ t.net \in {<<"DDR_DQS_P", k>>, <<"DDR_DQS_N", k>>}
               /\ t.needs = {<<"DDR_DQS_P", k>>, <<"DDR_DQS_N", k>>}
         /\ Vector(t) = IF k < 2 THEN <<3600, -2000>> ELSE <<6800, -2000>>
  <1> DEFINE layer == IF k < 2 THEN "In2.Cu" ELSE "In4.Cu"
             chip  == At(IF k < 2 THEN 112 ELSE 128, 35)
             y     == 300 * k
             pair  == {<<"DDR_DQS_P", k>>, <<"DDR_DQS_N", k>>}
             Off(n) == IF n[1] = "DDR_DQS_P" THEN -15 ELSE 15
             Line(n, needs, from, to) == Trace(n, needs, 0, layer, from, to, 5)
             Data(bit) == Line(<<"DDR_DQ", 8 * k + bit>>, {<<"DDR_DQ", 8 * k + bit>>},
                               Shift(At(90, 45), 80 * bit, y), Shift(chip, 80 * bit - 800, y))
             Strobe(n) == Line(n, pair, Shift(At(92, 45), 0, y + 100 + Off(n)), Shift(chip, -400, y + 100 + Off(n)))
             Mask == Line(<<"DDR_DM", k>>, {<<"DDR_DM", k>>}, Shift(At(93, 46), 0, y), Shift(chip, -200, y + 200))
  <1>1. (\E bit \in 0 .. 7 : t = Data(bit)) \/ (\E n \in pair : t = Strobe(n)) \/ t = Mask
    BY DEF gen_ddr3l_lane
  <1>2. CASE \E bit \in 0 .. 7 : t = Data(bit)
    BY <1>2 DEF Trace, Shift, At, Vector
  <1>3. CASE \E n \in pair : t = Strobe(n)
    BY <1>3 DEF Trace, Shift, At, Vector
  <1>4. CASE t = Mask
    BY <1>4 DEF Trace, Shift, At, Vector
  <1>5. QED
    BY <1>1, <1>2, <1>3, <1>4

\* The address and command lines are no differential pair.
BusName ==
    {"DDR_A", "DDR_BA", "DDR_CAS_B", "DDR_RAS_B", "DDR_WE_B", "DDR_CKE", "DDR_CS_B", "DDR_ODT", "DDR_RESET_B"}

\* The names of the bus are these.
LEMMA BusNames == \A i \in 1 .. Len(DdrBus) : DdrBus[i][1] \in BusName
  <1> DEFINE Named == BusName \X Nat
             s1 == [i \in 1 .. 15 |-> <<"DDR_A", i - 1>>]
             s2 == [i \in 1 .. 3 |-> <<"DDR_BA", i - 1>>]
             s3 == <<Net("DDR_CAS_B"), Net("DDR_RAS_B"), Net("DDR_WE_B"), Net("DDR_CKE"), Net("DDR_CS_B"),
                     Net("DDR_ODT"), Net("DDR_RESET_B")>>
  <1>1. s1 \in Seq(Named) /\ s2 \in Seq(Named)
    BY DEF BusName
  <1>2. s3 \in Seq(Named)
    BY DEF BusName, Net
  <1>3. DdrBus = s1 \o s2 \o s3
    BY DEF DdrBus
  <1> HIDE DEF s1, s2, s3, Named
  <1>4. DdrBus \in Seq(Named)
    BY <1>1, <1>2, <1>3
  <1>5. \A i \in 1 .. Len(DdrBus) : DdrBus[i] \in Named
    BY <1>4
  <1>6. QED
    BY <1>5 DEF Named

\* The two pieces of a fly-by line.
LEMMA FlyByTraces ==
  ASSUME NEW n, NEW needs, NEW y0 \in Int, NEW y1 \in Int, NEW t \in FlyBy(n, needs, y0, y1)
  PROVE  /\ t.net = n /\ t.needs = needs
         /\ \/ t.from[1] = 18800 /\ Vector(t) = <<3600, y1 - y0>>
            \/ t.from[1] = 22800 /\ Vector(t) = <<2800, 0>>
  BY DEF FlyBy, Trace, Vector

\* The fly-by lines drop by the same distance on their way to chip 0.
LEMMA BusTraces ==
  ASSUME NEW t \in gen_ddr3l_flyby
  PROVE  /\ t.net \in t.needs
         /\ t.net[1] \in BusName \/ (t.net \in DdrClock /\ t.needs = DdrClock)
         /\ \/ t.from[1] = 18800 /\ Vector(t) = <<3600, -2600>>
            \/ t.from[1] = 22800 /\ Vector(t) = <<2800, 0>>
  <1> DEFINE F(i) == FlyBy(DdrBus[i], {DdrBus[i]}, 200 * 58 + 70 * (i - 1), 200 * 45 + 70 * (i - 1))
             P == FlyBy(Net("DDR_CK_P"), DdrClock, 200 * 56 - 15, 200 * 43 - 15)
             M == FlyBy(Net("DDR_CK_N"), DdrClock, 200 * 56 + 15, 200 * 43 + 15)
  <1>1. gen_ddr3l_flyby = (UNION {F(i) : i \in 1 .. Len(DdrBus)}) \union P \union M
    BY Zenon DEF gen_ddr3l_flyby
  <1>2. ASSUME NEW i \in 1 .. Len(DdrBus), t \in F(i)
        PROVE  /\ t.net = DdrBus[i] /\ t.needs = {DdrBus[i]}
               /\ \/ t.from[1] = 18800 /\ Vector(t) = <<3600, -2600>>
                  \/ t.from[1] = 22800 /\ Vector(t) = <<2800, 0>>
    <2> DEFINE y0 == 200 * 58 + 70 * (i - 1)
               y1 == 200 * 45 + 70 * (i - 1)
    <2>1. y0 \in Int /\ y1 \in Int /\ y1 - y0 = -2600
      OBVIOUS
    <2>2. t \in FlyBy(DdrBus[i], {DdrBus[i]}, y0, y1)
      BY <1>2
    <2> HIDE DEF y0, y1
    <2>3. QED
      BY <2>1, <2>2, FlyByTraces
  <1>3. ASSUME t \in P
        PROVE  /\ t.net = Net("DDR_CK_P") /\ t.needs = DdrClock
               /\ \/ t.from[1] = 18800 /\ Vector(t) = <<3600, -2600>>
                  \/ t.from[1] = 22800 /\ Vector(t) = <<2800, 0>>
    <2> DEFINE y0 == 200 * 56 - 15
               y1 == 200 * 43 - 15
    <2>1. y0 \in Int /\ y1 \in Int /\ y1 - y0 = -2600
      OBVIOUS
    <2>2. t \in FlyBy(Net("DDR_CK_P"), DdrClock, y0, y1)
      BY <1>3
    <2> HIDE DEF y0, y1
    <2>3. QED
      BY <2>1, <2>2, FlyByTraces
  <1>4. ASSUME t \in M
        PROVE  /\ t.net = Net("DDR_CK_N") /\ t.needs = DdrClock
               /\ \/ t.from[1] = 18800 /\ Vector(t) = <<3600, -2600>>
                  \/ t.from[1] = 22800 /\ Vector(t) = <<2800, 0>>
    <2> DEFINE y0 == 200 * 56 + 15
               y1 == 200 * 43 + 15
    <2>1. y0 \in Int /\ y1 \in Int /\ y1 - y0 = -2600
      OBVIOUS
    <2>2. t \in FlyBy(Net("DDR_CK_N"), DdrClock, y0, y1)
      BY <1>4
    <2> HIDE DEF y0, y1
    <2>3. QED
      BY <2>1, <2>2, FlyByTraces
  <1> HIDE DEF F, P, M
  <1>5. (\E i \in 1 .. Len(DdrBus) : t \in F(i)) \/ t \in P \/ t \in M
    BY <1>1
  <1>6. DdrClock = {Net("DDR_CK_P"), Net("DDR_CK_N")}
    BY DEF DdrClock, Rails
  <1>7. CASE \E i \in 1 .. Len(DdrBus) : t \in F(i)
    BY <1>2, <1>7, BusNames
  <1>8. QED
    BY <1>3, <1>4, <1>5, <1>6, <1>7

\* One line of a pair: straight up.
LEMMA LvdsLine ==
  ASSUME NEW n, NEW needs, NEW x \in Int, NEW a \in Int, NEW b \in Int, NEW t,
         t = Trace(n, needs, 0, "In2.Cu", <<x, a>>, <<x, b>>, 5)
  PROVE  t.net = n /\ t.needs = needs /\ Vector(t) = <<0, b - a>>
  BY DEF Trace, Vector

\* The pairs between transceiver and Zynq.
LEMMA LvdsTraces ==
  ASSUME NEW t \in gen_lvds_routing
  PROVE  \E names \in {AdData} \union AdTiming, i \in 0 .. 11 :
            /\ t.net \in {<<names[1], i>>, <<names[2], i>>}
            /\ t.needs = Pairs(names, {i})
            /\ Vector(t) = IF names = AdData THEN <<0, 3600>> ELSE <<0, 3800>>
            /\ names # AdData => i = 0
  <1> DEFINE Line(name, i, needs, x, y0, y1) == Trace(<<name, i>>, needs, 0, "In2.Cu", <<x, 200 * y0>>, <<x, 200 * y1>>, 5)
             Pair(names, i, x, y0, y1) ==
               {Line(names[1], i, Pairs(names, {i}), x, y0, y1), Line(names[2], i, Pairs(names, {i}), x + 40, y0, y1)}
             Data(i) == Pair(AdData, i, 200 * 72 + 240 * i, 20, 38)
             Timing(names) == Pair(names, 0, 200 * 88, 21, 40)
  <1>1. AdData \notin AdTiming
    BY DEF AdData, AdTiming
  <1>2. gen_lvds_routing = (UNION {Data(i) : i \in 0 .. 11}) \union (UNION {Timing(names) : names \in AdTiming})
    BY Zenon DEF gen_lvds_routing
  <1>3. ASSUME NEW i \in 0 .. 11, t \in Data(i)
        PROVE  /\ t.net \in {<<AdData[1], i>>, <<AdData[2], i>>} /\ t.needs = Pairs(AdData, {i})
               /\ Vector(t) = <<0, 3600>>
    <2> DEFINE x == 200 * 72 + 240 * i
               a == 200 * 20
               b == 200 * 38
    <2>1. x \in Int /\ x + 40 \in Int /\ a \in Int /\ b \in Int /\ b - a = 3600
      OBVIOUS
    <2>2. \/ t = Trace(<<AdData[1], i>>, Pairs(AdData, {i}), 0, "In2.Cu", <<x, a>>, <<x, b>>, 5)
          \/ t = Trace(<<AdData[2], i>>, Pairs(AdData, {i}), 0, "In2.Cu", <<x + 40, a>>, <<x + 40, b>>, 5)
      BY <1>3, Zenon
    <2> HIDE DEF x, a, b
    <2>3. QED
      BY <2>1, <2>2, LvdsLine
  <1>4. ASSUME NEW names \in AdTiming, t \in Timing(names)
        PROVE  /\ t.net \in {<<names[1], 0>>, <<names[2], 0>>} /\ t.needs = Pairs(names, {0})
               /\ Vector(t) = <<0, 3800>>
    <2> DEFINE x == 200 * 88
               a == 200 * 21
               b == 200 * 40
    <2>1. x \in Int /\ x + 40 \in Int /\ a \in Int /\ b \in Int /\ b - a = 3800
      OBVIOUS
    <2>2. \/ t = Trace(<<names[1], 0>>, Pairs(names, {0}), 0, "In2.Cu", <<x, a>>, <<x, b>>, 5)
          \/ t = Trace(<<names[2], 0>>, Pairs(names, {0}), 0, "In2.Cu", <<x + 40, a>>, <<x + 40, b>>, 5)
      BY <1>4, Zenon
    <2> HIDE DEF x, a, b
    <2>3. CASE t = Trace(<<names[1], 0>>, Pairs(names, {0}), 0, "In2.Cu", <<x, a>>, <<x, b>>, 5)
      BY <2>1, <2>3, LvdsLine
    <2>4. CASE t = Trace(<<names[2], 0>>, Pairs(names, {0}), 0, "In2.Cu", <<x + 40, a>>, <<x + 40, b>>, 5)
      BY <2>1, <2>4, LvdsLine
    <2>5. QED
      BY <2>2, <2>3, <2>4
  <1> HIDE DEF Data, Timing
  <1>5. CASE \E i \in 0 .. 11 : t \in Data(i)
    BY <1>3, <1>5
  <1>6. CASE \E names \in AdTiming : t \in Timing(names)
    <2>1. PICK names \in AdTiming : t \in Timing(names)
      BY <1>6
    <2>2. 0 \in 0 .. 11 /\ names # AdData
      BY <1>1, <2>1
    <2>3. QED
      BY <2>1, <2>2, <1>4
  <1>7. QED
    BY <1>2, <1>5, <1>6

\* The nets of the traces that are drawn whatever the net table holds.
Taken ==
    Rails({"+12V", "+1V0", "+1V35", "+1V8", "+3V3", "+3V3A", "+5V", "+1V3_AD", "AD_RX1A_P", "AD_TX1A",
           "AD_SCLK", "AD_MOSI", "AD_MISO", "AD_CS_N", "PS_UART0_TX", "PS_UART0_RX", "PS_I2C_SDA", "PS_I2C_SCL"})
    \union Bus("UART0_MIO", 46 .. 47) \union Bus("MIO", 10 .. 13)

\* These are the nets of the remaining traces.
LEMMA OtherTraces ==
  ASSUME NEW t \in gen_rf_routing \union gen_power_routing \union gen_general_io_routing
  PROVE  t.net \in Taken
  <1>1. CASE t \in gen_rf_routing
    <2>1. t.net \in {Net("AD_RX1A_P"), Net("AD_TX1A")}
      BY <1>1 DEF gen_rf_routing, Trace
    <2>2. QED
      BY <2>1 DEF Taken, Rails
  <1>2. CASE t \in gen_power_routing
    <2>1. t.net \in Rails({"+12V", "+1V0", "+1V35", "+1V8", "+3V3", "+3V3A", "+5V", "+1V3_AD"})
      BY <1>2 DEF gen_power_routing, Trace, Rails
    <2>2. QED
      BY <2>1 DEF Taken, Rails
  <1>3. CASE t \in gen_general_io_routing
    <2> DEFINE Line(n, alt, layer, from, to) == Trace(n, {}, alt, layer, from, to, 5)
               spi  == << <<Net("AD_SCLK"), 179>>, <<Net("AD_MOSI"), 176>>, <<Net("AD_MISO"), 175>>, <<Net("AD_CS_N"), 174>> >>
               uart == << <<Net("PS_UART0_RX"), 392>>, <<Net("PS_UART0_TX"), 393>>,
                          << <<"UART0_MIO", 46>>, 416>>, << <<"UART0_MIO", 47>>, 417>> >>
               i2c  == << <<Net("PS_I2C_SCL"), 385>>, <<Net("PS_I2C_SDA"), 386>> >>
               jtag == [i \in 1 .. 4 |-> << <<"MIO", 9 + i>>, 348 + i>>]
    <2>1. \/ \E i \in 1 .. 4 : t.net \in {spi[i][1], uart[i][1], jtag[i][1]}
          \/ \E i \in 1 .. 2 : t.net = i2c[i][1]
      BY <1>3 DEF gen_general_io_routing, Trace
    <2>2. \A i \in 1 .. 4 : /\ spi[i][1] \in Rails({"AD_SCLK", "AD_MOSI", "AD_MISO", "AD_CS_N"})
                            /\ uart[i][1] \in Rails({"PS_UART0_RX", "PS_UART0_TX"}) \union Bus("UART0_MIO", 46 .. 47)
                            /\ jtag[i][1] \in Bus("MIO", 10 .. 13)
      BY DEF Rails, Bus
    <2>3. \A i \in 1 .. 2 : i2c[i][1] \in Rails({"PS_I2C_SCL", "PS_I2C_SDA"})
      BY DEF Rails
    <2> HIDE DEF spi, uart, i2c, jtag
    <2>4. QED
      BY <2>1, <2>2, <2>3 DEF Taken, Rails
  <1>4. QED
    BY <1>1, <1>2, <1>3

\* Every trace comes from one of the six functions.
LEMMA TraceKinds ==
  ASSUME NEW t \in Traces
  PROVE  \/ \E k \in 0 .. 3 : t \in gen_ddr3l_lane(k)
         \/ t \in gen_ddr3l_flyby
         \/ t \in gen_lvds_routing
         \/ t \in gen_rf_routing \union gen_power_routing \union gen_general_io_routing
  BY DEF Traces

\* With four sheets no trace is on another net than its own.
LEMMA TracesRight ==
  ASSUME NEW S, {"power", "zynq", "ad9361", "connectors"} \subseteq S
  PROVE  Misrouted(S) = {}
  <1>1. Taken \subseteq NetNames(S)
    <2>1. /\ NetsOf("power") \subseteq NetNames(S) /\ NetsOf("zynq") \subseteq NetNames(S)
          /\ NetsOf("ad9361") \subseteq NetNames(S) /\ NetsOf("connectors") \subseteq NetNames(S)
      BY DEF NetNames
    <2>2. Rails({"+12V", "+1V0", "+1V35", "+1V8", "+3V3", "+3V3A", "+5V"}) \subseteq NetsOf("power")
      <3>1. {"+12V", "+1V0", "+1V35", "+1V8", "+3V3", "+3V3A", "+5V"}
              \subseteq {RailOrder[i] : i \in 2 .. 23} \ {"+1V3_AD"}
        BY DEF RailOrder
      <3>2. QED
        BY <3>1, RailsDrawn DEF Rails
    <2>3. QED
      BY <2>1, <2>2, RailsDrawn, SignalsDrawn DEF Taken, Rails, AdSpi
  <1>2. ASSUME NEW t \in Traces, t.needs \subseteq NetNames(S) PROVE t.net \in NetNames(S)
    <2>1. CASE \E k \in 0 .. 3 : t \in gen_ddr3l_lane(k)
      BY <2>1, <1>2, LaneTraces
    <2>2. CASE t \in gen_ddr3l_flyby
      BY <2>2, <1>2, BusTraces
    <2>3. CASE t \in gen_lvds_routing
      BY <2>3, <1>2, LvdsTraces DEF Pairs, Bus
    <2>4. CASE t \in gen_rf_routing \union gen_power_routing \union gen_general_io_routing
      BY <2>4, <1>1, OtherTraces
    <2>5. QED
      BY <2>1, <2>2, <2>3, <2>4, TraceKinds
  <1>3. QED
    BY <1>2 DEF Misrouted, Drawable

\* Planes and traces are on their nets, whichever sheets come late, in whatever
\* order and however often the scripts run.
THEOREM CopperRight == PcbSpec => []CopperOnItsNet
  <1>1. PcbInv => CopperOnItsNet
    <2> SUFFICES ASSUME PcbInv PROVE CopperOnItsNet
      OBVIOUS
    <2>1. pcb.planes \/ pcb.routed > 0 => pcb.nets \in Inputs
      BY DEF PcbInv
    <2>2. QED
      BY <2>1, PlanesRight, TracesRight DEF CopperOnItsNet, InputsWithPlanesRight, InputsWithTracesRight
  <1>2. QED
    BY <1>1, PcbAlways, PTL

-----------------------------------------------------------------------------
(* Lengths and pairs.                                                       *)

PairName ==
    {"DDR_DQS_P", "DDR_DQS_N", "DDR_CK_P", "DDR_CK_N", "P0_D_P", "P0_D_N", "DATA_CLK_P", "DATA_CLK_N",
     "FB_CLK_P", "FB_CLK_N", "RX_FRAME_P", "RX_FRAME_N", "TX_FRAME_P", "TX_FRAME_N"}

\* Only the other traces' and the buses' nets have names that are no pair's.
LEMMA NoPairs ==
  /\ PairName \intersect BusName = {}
  /\ \A n \in Taken : n[1] \notin PairName
  BY DEF PairName, BusName, Taken, Rails, Bus, Net

\* The line of a strobe is in its lane.
LEMMA StrobeTrace ==
  ASSUME NEW t \in Traces, t.net[1] \in {"DDR_DQS_P", "DDR_DQS_N"}
  PROVE  \E k \in 0 .. 3 : t \in gen_ddr3l_lane(k)
  <1>1. ~(t \in gen_ddr3l_flyby)
    BY BusTraces DEF BusName, DdrClock, Rails, Net
  <1>2. ~(t \in gen_lvds_routing)
    BY LvdsTraces DEF AdData, AdTiming
  <1>3. ~(t \in gen_rf_routing \union gen_power_routing \union gen_general_io_routing)
    BY OtherTraces, NoPairs DEF PairName
  <1>4. QED
    BY <1>1, <1>2, <1>3, TraceKinds

\* The clock of the memories flies by.
LEMMA ClockTrace ==
  ASSUME NEW t \in Traces, t.net[1] \in {"DDR_CK_P", "DDR_CK_N"}
  PROVE  t \in gen_ddr3l_flyby
  <1>1. ~(\E k \in 0 .. 3 : t \in gen_ddr3l_lane(k))
    BY LaneTraces
  <1>2. ~(t \in gen_lvds_routing)
    BY LvdsTraces DEF AdData, AdTiming
  <1>3. ~(t \in gen_rf_routing \union gen_power_routing \union gen_general_io_routing)
    BY OtherTraces, NoPairs DEF PairName
  <1>4. QED
    BY <1>1, <1>2, <1>3, TraceKinds

\* The names of a pair between transceiver and Zynq are no other pair's.
LEMMA LvdsNames ==
  /\ \A names \in {AdData} \union AdTiming :
        /\ names = <<names[1], names[2]>>
        /\ \A n \in {names[1], names[2]} :
              n \in PairName /\ n \notin {"DDR_DQ", "DDR_DM", "DDR_DQS_P", "DDR_DQS_N", "DDR_CK_P", "DDR_CK_N"}
  /\ \A names, others \in {AdData} \union AdTiming :
        {names[1], names[2]} \intersect {others[1], others[2]} # {} => names = others
  BY DEF AdData, AdTiming, PairName

\* The line of one of these pairs.
LEMMA LvdsTrace ==
  ASSUME NEW names \in {AdData} \union AdTiming, NEW t \in Traces, t.net[1] \in {names[1], names[2]}
  PROVE  t \in gen_lvds_routing
  <1>1. ~(\E k \in 0 .. 3 : t \in gen_ddr3l_lane(k))
    <2>1. t.net[1] \notin {"DDR_DQ", "DDR_DM", "DDR_DQS_P", "DDR_DQS_N"}
      BY LvdsNames
    <2>2. QED
      BY <2>1, LaneTraces
  <1>2. ~(t \in gen_ddr3l_flyby)
    <2>1. t.net[1] \notin BusName
      BY LvdsNames, NoPairs
    <2>2. t.net[1] \notin {"DDR_CK_P", "DDR_CK_N"}
      BY LvdsNames
    <2>3. t.net \notin DdrClock
      BY <2>2 DEF DdrClock, Rails, Net
    <2>4. QED
      BY <2>1, <2>3, BusTraces
  <1>3. ~(t \in gen_rf_routing \union gen_power_routing \union gen_general_io_routing)
    BY OtherTraces, NoPairs, LvdsNames
  <1>4. QED
    BY <1>1, <1>2, <1>3, TraceKinds

\* The net class of a strobe.
LEMMA StrobeClass ==
  ASSUME NEW k \in 0 .. 3, NEW n \in {<<"DDR_DQS_P", k>>, <<"DDR_DQS_N", k>>}
  PROVE  classify_net(n) = "DDR3"
  <1>1. n # Net("+12V") /\ n \notin AdRf /\ n \notin DdrClock
    BY DEF Net, AdRf, Rails, DdrClock
  <1>2. n \notin Rails({"+5V", "+3V3", "+3V3A", "+1V8", "+1V5", "+1V35", "+1V0", "VTT", "VTTREF",
                        "+5V_PA", "+1V3_AD"})
    BY DEF Net, Rails
  <1>3. n \notin AdLvds.nets
    BY DEF AdLvds, Section, Pairs, Bus, AdData, AdTiming
  <1>4. IsDdr(n)
    BY DEF IsDdr, DdrLanes, Bus
  <1>5. QED
    BY <1>1, <1>2, <1>3, <1>4 DEF classify_net

\* That of the clock.
LEMMA ClockClass ==
  ASSUME NEW n \in DdrClock
  PROVE  classify_net(n) = "DDR3_DiffPair"
  <1>1. n \in {<<"DDR_CK_P", 0>>, <<"DDR_CK_N", 0>>}
    BY DEF DdrClock, Rails, Net
  <1>2. n # Net("+12V") /\ n \notin AdRf
    BY <1>1 DEF Net, AdRf, Rails
  <1>3. n \notin Rails({"+5V", "+3V3", "+3V3A", "+1V8", "+1V5", "+1V35", "+1V0", "VTT", "VTTREF",
                        "+5V_PA", "+1V3_AD"})
    BY <1>1 DEF Net, Rails
  <1>4. n \notin AdLvds.nets
    BY <1>1 DEF AdLvds, Section, Pairs, Bus, AdData, AdTiming
  <1>5. QED
    BY <1>2, <1>3, <1>4 DEF classify_net

\* That of the pairs between transceiver and Zynq.
LEMMA LvdsClass ==
  \A names \in {AdData} \union AdTiming, i \in 0 .. 11 :
     (names # AdData => i = 0) => \A n \in Pairs(names, {i}) : classify_net(n) = "LVDS"
  <1> SUFFICES ASSUME NEW names \in {AdData} \union AdTiming, NEW i \in 0 .. 11, names # AdData => i = 0,
                      NEW n \in Pairs(names, {i})
               PROVE  classify_net(n) = "LVDS"
    OBVIOUS
  <1>1. n[1] \in {names[1], names[2]} /\ n \in AdLvds.nets
    BY DEF AdLvds, Section, Pairs, Bus
  <1>2. n[1] \in PairName /\ n[1] \notin {"DDR_DQ", "DDR_DM", "DDR_DQS_P", "DDR_DQS_N", "DDR_CK_P", "DDR_CK_N"}
    BY <1>1, LvdsNames
  <1>3. n[1] \notin {"AD_RX1A_P", "AD_RX1A_N", "AD_TX1A", "+12V", "+5V", "+3V3", "+3V3A", "+1V8", "+1V5", "+1V35",
                     "+1V0", "VTT", "VTTREF", "+5V_PA", "+1V3_AD"}
    BY <1>2 DEF PairName
  <1>4. n # Net("+12V") /\ n \notin AdRf
    BY <1>3 DEF Net, AdRf, Rails
  <1>5. n \notin Rails({"+5V", "+3V3", "+3V3A", "+1V8", "+1V5", "+1V35", "+1V0", "VTT", "VTTREF",
                        "+5V_PA", "+1V3_AD"})
    BY <1>3 DEF Net, Rails
  <1>6. n \notin DdrClock
    BY <1>2 DEF DdrClock, Rails, Net
  <1>7. ~IsDdr(n)
    <2>1. n[1] \notin BusName
      BY <1>2, NoPairs
    <2>2. n \notin DdrAddress \union DdrCommand \union {Net("DDR_RESET_B")}
      BY <2>1 DEF DdrAddress, DdrCommand, Rails, Bus, Net, BusName
    <2>3. n \notin DdrLanes(0 .. 3)
      BY <1>2 DEF DdrLanes, Bus
    <2>4. QED
      BY <2>2, <2>3, <1>6 DEF IsDdr, DdrControl
  <1>8. QED
    BY <1>1, <1>4, <1>5, <1>6, <1>7 DEF classify_net

\* Two traces that are the lines of one pair: both are drawn or none is.
Twins(t, u, names) ==
    /\ t.net[1] = names[1] /\ u.net[1] = names[2] /\ t.net[2] = u.net[2] /\ t.needs = u.needs
    /\ Beside(t, u, Gap(names))
    /\ classify_net(t.net) = classify_net(u.net)

\* Where every line of a pair has its twin among all traces, it has it among those
\* that are drawn.
LEMMA TwinsTogether ==
  ASSUME NEW names,
         \A t \in Traces : t.net[1] = names[1] => \E u \in Traces : Twins(t, u, names),
         \A u \in Traces : u.net[1] = names[2] => \E t \in Traces : Twins(t, u, names),
         NEW S
  PROVE  Together(Drawable(S), names)
  <1>1. \A t \in Drawable(S) : t \in Traces
    BY DEF Drawable
  <1>2. \A t, u \in Traces : t.needs = u.needs => (t \in Drawable(S) <=> u \in Drawable(S))
    BY DEF Drawable
  <1>3. ASSUME NEW t \in Drawable(S), t.net[1] = names[1]
        PROVE  \E u \in Drawable(S) : Twins(t, u, names)
    <2>1. PICK u \in Traces : Twins(t, u, names)
      BY <1>1, <1>3
    <2>2. u \in Drawable(S)
      BY <2>1, <1>1, <1>2 DEF Twins
    <2>3. QED
      BY <2>1, <2>2
  <1>4. ASSUME NEW u \in Drawable(S), u.net[1] = names[2]
        PROVE  \E t \in Drawable(S) : Twins(t, u, names)
    <2>1. PICK t \in Traces : Twins(t, u, names)
      BY <1>1, <1>4
    <2>2. t \in Drawable(S)
      BY <2>1, <1>1, <1>2 DEF Twins
    <2>3. QED
      BY <2>1, <2>2
  <1> DEFINE Mates(t, u) ==
               /\ t.net[2] = u.net[2] /\ Beside(t, u, Gap(names))
               /\ classify_net(t.net) = classify_net(u.net)
  <1>5. \A t, u : Twins(t, u, names) => t.net[1] = names[1] /\ u.net[1] = names[2] /\ Mates(t, u)
    BY DEF Twins
  <1>6. Together(Drawable(S), names) =
          /\ \A t \in {t \in Drawable(S) : t.net[1] = names[1]} :
                \E u \in {u \in Drawable(S) : u.net[1] = names[2]} : Mates(t, u)
          /\ \A u \in {u \in Drawable(S) : u.net[1] = names[2]} :
                \E t \in {t \in Drawable(S) : t.net[1] = names[1]} : Mates(t, u)
    BY Zenon DEF Together
  <1> HIDE DEF Mates
  <1>7. QED
    BY <1>3, <1>4, <1>5, <1>6

\* Where the lines of strobe k go.
StrobeLine(k, n, y) ==
    Trace(n, {<<"DDR_DQS_P", k>>, <<"DDR_DQS_N", k>>}, 0, IF k < 2 THEN "In2.Cu" ELSE "In4.Cu",
          <<18400, 9100 + 300 * k + y>>, <<IF k < 2 THEN 22000 ELSE 25200, 7100 + 300 * k + y>>, 5)

LEMMA StrobeLines ==
  ASSUME NEW k \in 0 .. 3
  PROVE  /\ StrobeLine(k, <<"DDR_DQS_P", k>>, -15) \in gen_ddr3l_lane(k)
         /\ StrobeLine(k, <<"DDR_DQS_N", k>>, 15) \in gen_ddr3l_lane(k)
         /\ \A t \in gen_ddr3l_lane(k) :
               /\ t.net[1] = "DDR_DQS_P" => t = StrobeLine(k, <<"DDR_DQS_P", k>>, -15)
               /\ t.net[1] = "DDR_DQS_N" => t = StrobeLine(k, <<"DDR_DQS_N", k>>, 15)
  <1> DEFINE layer == IF k < 2 THEN "In2.Cu" ELSE "In4.Cu"
             chip  == At(IF k < 2 THEN 112 ELSE 128, 35)
             y     == 300 * k
             pair  == {<<"DDR_DQS_P", k>>, <<"DDR_DQS_N", k>>}
             Off(n) == IF n[1] = "DDR_DQS_P" THEN -15 ELSE 15
             Line(n, needs, from, to) == Trace(n, needs, 0, layer, from, to, 5)
             Data(bit) == Line(<<"DDR_DQ", 8 * k + bit>>, {<<"DDR_DQ", 8 * k + bit>>},
                               Shift(At(90, 45), 80 * bit, y), Shift(chip, 80 * bit - 800, y))
             Strobe(n) == Line(n, pair, Shift(At(92, 45), 0, y + 100 + Off(n)), Shift(chip, -400, y + 100 + Off(n)))
             Mask == Line(<<"DDR_DM", k>>, {<<"DDR_DM", k>>}, Shift(At(93, 46), 0, y), Shift(chip, -200, y + 200))
  <1>1. gen_ddr3l_lane(k) = {Data(bit) : bit \in 0 .. 7} \union {Strobe(n) : n \in pair} \union {Mask}
    BY DEF gen_ddr3l_lane
  <1>2. /\ \A bit \in 0 .. 7 : Data(bit).net[1] = "DDR_DQ"
        /\ Mask.net[1] = "DDR_DM"
    BY DEF Trace
  <1>3. /\ Strobe(<<"DDR_DQS_P", k>>) = StrobeLine(k, <<"DDR_DQS_P", k>>, -15)
        /\ Strobe(<<"DDR_DQS_N", k>>) = StrobeLine(k, <<"DDR_DQS_N", k>>, 15)
    BY DEF StrobeLine, Trace, Shift, At
  <1>4. \A n : StrobeLine(k, n, -15).net = n /\ StrobeLine(k, n, 15).net = n
    BY DEF StrobeLine, Trace
  <1> HIDE DEF Data, Strobe, Mask
  <1>5. QED
    BY <1>1, <1>2, <1>3, <1>4

LEMMA StrobesTogether ==
  ASSUME NEW S PROVE Together(Drawable(S), Strobes)
  <1>1. Gap(Strobes) = <<0, 30>>
    BY DEF Gap
  <1>2. ASSUME NEW k \in 0 .. 3
        PROVE  /\ StrobeLine(k, <<"DDR_DQS_P", k>>, -15) \in Traces /\ StrobeLine(k, <<"DDR_DQS_N", k>>, 15) \in Traces
               /\ Twins(StrobeLine(k, <<"DDR_DQS_P", k>>, -15), StrobeLine(k, <<"DDR_DQS_N", k>>, 15), Strobes)
    <2> DEFINE t == StrobeLine(k, <<"DDR_DQS_P", k>>, -15)
               u == StrobeLine(k, <<"DDR_DQS_N", k>>, 15)
    <2>1. t \in Traces /\ u \in Traces
      BY StrobeLines DEF Traces
    <2>2. t.net = <<"DDR_DQS_P", k>> /\ u.net = <<"DDR_DQS_N", k>> /\ t.needs = u.needs
      BY DEF StrobeLine, Trace
    <2>3. Beside(t, u, <<0, 30>>)
      BY DEF StrobeLine, Trace, Beside, Shift
    <2>4. classify_net(t.net) = "DDR3" /\ classify_net(u.net) = "DDR3"
      BY <2>2, StrobeClass
    <2> HIDE DEF t, u
    <2>5. Twins(t, u, Strobes)
      BY <2>2, <2>3, <2>4, <1>1 DEF Twins, Strobes
    <2>6. QED
      BY <2>1, <2>5 DEF t, u
  <1>3. ASSUME NEW t \in Traces, t.net[1] \in {"DDR_DQS_P", "DDR_DQS_N"}
        PROVE  \E k \in 0 .. 3 : /\ t.net[1] = "DDR_DQS_P" => t = StrobeLine(k, <<"DDR_DQS_P", k>>, -15)
                                 /\ t.net[1] = "DDR_DQS_N" => t = StrobeLine(k, <<"DDR_DQS_N", k>>, 15)
    <2>1. PICK k \in 0 .. 3 : t \in gen_ddr3l_lane(k)
      BY <1>3, StrobeTrace
    <2>2. QED
      BY <2>1, StrobeLines
  <1>4. \A t \in Traces : t.net[1] = Strobes[1] => \E u \in Traces : Twins(t, u, Strobes)
    BY <1>2, <1>3 DEF Strobes
  <1>5. \A u \in Traces : u.net[1] = Strobes[2] => \E t \in Traces : Twins(t, u, Strobes)
    BY <1>2, <1>3 DEF Strobes
  <1>6. QED
    BY <1>4, <1>5, TwinsTogether

\* The clock's two pieces: to chip 0 and on to chip 1.
ClockPiece(n, y, i) ==
    IF i = 0 THEN Trace(n, DdrClock, 0, "In4.Cu", <<18800, 11200 + y>>, <<22400, 8600 + y>>, 5)
             ELSE Trace(n, DdrClock, 0, "In4.Cu", <<22800, 8600 + y>>, <<25600, 8600 + y>>, 5)

LEMMA ClockPieces ==
  /\ \A i \in 0 .. 1 : /\ ClockPiece(Net("DDR_CK_P"), -15, i) \in gen_ddr3l_flyby
                       /\ ClockPiece(Net("DDR_CK_N"), 15, i) \in gen_ddr3l_flyby
  /\ \A t \in gen_ddr3l_flyby :
        /\ t.net[1] = "DDR_CK_P" => \E i \in 0 .. 1 : t = ClockPiece(Net("DDR_CK_P"), -15, i)
        /\ t.net[1] = "DDR_CK_N" => \E i \in 0 .. 1 : t = ClockPiece(Net("DDR_CK_N"), 15, i)
  <1> DEFINE F(i) == FlyBy(DdrBus[i], {DdrBus[i]}, 200 * 58 + 70 * (i - 1), 200 * 45 + 70 * (i - 1))
             P == FlyBy(Net("DDR_CK_P"), DdrClock, 200 * 56 - 15, 200 * 43 - 15)
             M == FlyBy(Net("DDR_CK_N"), DdrClock, 200 * 56 + 15, 200 * 43 + 15)
  <1>1. gen_ddr3l_flyby = (UNION {F(i) : i \in 1 .. Len(DdrBus)}) \union P \union M
    BY Zenon DEF gen_ddr3l_flyby
  <1>2. /\ P = {ClockPiece(Net("DDR_CK_P"), -15, 0), ClockPiece(Net("DDR_CK_P"), -15, 1)}
        /\ M = {ClockPiece(Net("DDR_CK_N"), 15, 0), ClockPiece(Net("DDR_CK_N"), 15, 1)}
    BY DEF FlyBy, ClockPiece
  <1>3. ASSUME NEW i \in 1 .. Len(DdrBus), NEW t \in F(i) PROVE t.net[1] \in BusName
    <2>1. t.net = DdrBus[i]
      BY <1>3 DEF FlyBy, Trace
    <2>2. QED
      BY <2>1, BusNames
  <1>4. "DDR_CK_P" \notin BusName /\ "DDR_CK_N" \notin BusName
    BY DEF BusName
  <1>5. \A i : ClockPiece(Net("DDR_CK_P"), -15, i).net = Net("DDR_CK_P") /\ ClockPiece(Net("DDR_CK_N"), 15, i).net = Net("DDR_CK_N")
    BY DEF ClockPiece, Trace
  <1>6. Net("DDR_CK_P")[1] = "DDR_CK_P" /\ Net("DDR_CK_N")[1] = "DDR_CK_N"
    BY DEF Net
  <1> HIDE DEF F, P, M
  <1>7. \A i \in 0 .. 1 : i = 0 \/ i = 1
    OBVIOUS
  <1>8. \A t \in gen_ddr3l_flyby : (\E i \in 1 .. Len(DdrBus) : t \in F(i)) \/ t \in P \/ t \in M
    BY <1>1
  <1>9. QED
    BY <1>1, <1>2, <1>3, <1>4, <1>5, <1>6, <1>7, <1>8

LEMMA ClockTogether ==
  ASSUME NEW S PROVE Together(Drawable(S), MemoryClock)
  <1>1. Gap(MemoryClock) = <<0, 30>>
    BY DEF Gap
  <1>2. ASSUME NEW i \in 0 .. 1
        PROVE  /\ ClockPiece(Net("DDR_CK_P"), -15, i) \in Traces /\ ClockPiece(Net("DDR_CK_N"), 15, i) \in Traces
               /\ Twins(ClockPiece(Net("DDR_CK_P"), -15, i), ClockPiece(Net("DDR_CK_N"), 15, i), MemoryClock)
    <2> DEFINE t == ClockPiece(Net("DDR_CK_P"), -15, i)
               u == ClockPiece(Net("DDR_CK_N"), 15, i)
    <2>1. t \in Traces /\ u \in Traces
      BY ClockPieces DEF Traces
    <2>2. t.net = <<"DDR_CK_P", 0>> /\ u.net = <<"DDR_CK_N", 0>> /\ t.needs = u.needs
      BY DEF ClockPiece, Trace, Net
    <2>3. Beside(t, u, <<0, 30>>)
      BY DEF ClockPiece, Trace, Beside, Shift
    <2>4. classify_net(t.net) = "DDR3_DiffPair" /\ classify_net(u.net) = "DDR3_DiffPair"
      <3>1. t.net \in DdrClock /\ u.net \in DdrClock
        BY <2>2 DEF DdrClock, Rails, Net
      <3>2. QED
        BY <3>1, ClockClass
    <2> HIDE DEF t, u
    <2>5. Twins(t, u, MemoryClock)
      BY <2>2, <2>3, <2>4, <1>1 DEF Twins, MemoryClock
    <2>6. QED
      BY <2>1, <2>5 DEF t, u
  <1>3. \A t \in Traces : t.net[1] \in {"DDR_CK_P", "DDR_CK_N"} => t \in gen_ddr3l_flyby
    BY ClockTrace
  <1>4. \A t \in Traces : t.net[1] = MemoryClock[1] => \E u \in Traces : Twins(t, u, MemoryClock)
    BY <1>2, <1>3, ClockPieces DEF MemoryClock
  <1>5. \A u \in Traces : u.net[1] = MemoryClock[2] => \E t \in Traces : Twins(t, u, MemoryClock)
    BY <1>2, <1>3, ClockPieces DEF MemoryClock
  <1>6. QED
    BY <1>4, <1>5, TwinsTogether

\* Line k of pair i between transceiver and Zynq.
LvdsPiece(names, k, i) ==
    Trace(<<names[k], i>>, Pairs(names, {i}), 0, "In2.Cu",
          <<(IF names = AdData THEN 14400 + 240 * i ELSE 17600) + 40 * (k - 1), IF names = AdData THEN 4000 ELSE 4200>>,
          <<(IF names = AdData THEN 14400 + 240 * i ELSE 17600) + 40 * (k - 1), IF names = AdData THEN 7600 ELSE 8000>>, 5)

\* How many pairs have these names.
LvdsPairs(names) == IF names = AdData THEN 0 .. 11 ELSE {0}

LEMMA LvdsPieces ==
  gen_lvds_routing =
    UNION {UNION {{LvdsPiece(names, 1, i), LvdsPiece(names, 2, i)} : i \in LvdsPairs(names)} : names \in {AdData} \union AdTiming}
  <1> DEFINE Line(name, i, needs, x, y0, y1) == Trace(<<name, i>>, needs, 0, "In2.Cu", <<x, 200 * y0>>, <<x, 200 * y1>>, 5)
             Pair(names, i, x, y0, y1) ==
               {Line(names[1], i, Pairs(names, {i}), x, y0, y1), Line(names[2], i, Pairs(names, {i}), x + 40, y0, y1)}
             Data(i) == Pair(AdData, i, 200 * 72 + 240 * i, 20, 38)
             Timing(names) == Pair(names, 0, 200 * 88, 21, 40)
             Drawn2(names, i) == {LvdsPiece(names, 1, i), LvdsPiece(names, 2, i)}
  <1>1. AdData \notin AdTiming
    BY DEF AdData, AdTiming
  <1>2. gen_lvds_routing = (UNION {Data(i) : i \in 0 .. 11}) \union (UNION {Timing(names) : names \in AdTiming})
    BY Zenon DEF gen_lvds_routing
  <1>3. ASSUME NEW i \in 0 .. 11 PROVE Data(i) = Drawn2(AdData, i)
    BY DEF LvdsPiece
  <1>4. ASSUME NEW names \in AdTiming PROVE Timing(names) = Drawn2(names, 0)
    BY <1>1 DEF LvdsPiece
  <1>5. LvdsPairs(AdData) = 0 .. 11 /\ \A names \in AdTiming : LvdsPairs(names) = {0}
    BY <1>1 DEF LvdsPairs
  <1> HIDE DEF Data, Timing, Drawn2
  <1>6. QED
    <2>1. ASSUME NEW t
          PROVE  (\E i \in 0 .. 11 : t \in Data(i)) \/ (\E names \in AdTiming : t \in Timing(names))
                   <=> \E names \in {AdData} \union AdTiming : \E i \in LvdsPairs(names) : t \in Drawn2(names, i)
      BY <1>3, <1>4, <1>5
    <2>2. gen_lvds_routing = UNION {UNION {Drawn2(names, i) : i \in LvdsPairs(names)} : names \in {AdData} \union AdTiming}
      BY <2>1, <1>2
    <2>3. QED
      BY <2>2, Zenon DEF Drawn2

LEMMA LvdsTogether ==
  ASSUME NEW names \in {AdData} \union AdTiming, NEW S PROVE Together(Drawable(S), names)
  <1>1. Gap(names) = <<40, 0>>
    <2>1. names \notin {Strobes, MemoryClock}
      BY DEF Strobes, MemoryClock, AdData, AdTiming
    <2>2. QED
      BY <2>1 DEF Gap
  <1>2. ASSUME NEW i \in LvdsPairs(names)
        PROVE  /\ LvdsPiece(names, 1, i) \in Traces /\ LvdsPiece(names, 2, i) \in Traces
               /\ Twins(LvdsPiece(names, 1, i), LvdsPiece(names, 2, i), names)
    <2> DEFINE t == LvdsPiece(names, 1, i)
               u == LvdsPiece(names, 2, i)
    <2>1. t \in Traces /\ u \in Traces
      <3>1. t \in gen_lvds_routing /\ u \in gen_lvds_routing
        BY LvdsPieces
      <3>2. QED
        BY <3>1 DEF Traces
    <2>2. i \in 0 .. 11 /\ (names # AdData => i = 0)
      BY DEF LvdsPairs
    <2>3. t.net = <<names[1], i>> /\ u.net = <<names[2], i>> /\ t.needs = u.needs
      BY DEF LvdsPiece, Trace
    <2>4. Beside(t, u, <<40, 0>>)
      BY <2>2 DEF LvdsPiece, Trace, Beside, Shift
    <2>5. classify_net(t.net) = "LVDS" /\ classify_net(u.net) = "LVDS"
      <3>1. t.net \in Pairs(names, {i}) /\ u.net \in Pairs(names, {i})
        BY <2>3 DEF Pairs, Bus
      <3>2. QED
        BY <3>1, <2>2, LvdsClass
    <2> HIDE DEF t, u
    <2>6. Twins(t, u, names)
      BY <2>3, <2>4, <2>5, <1>1 DEF Twins
    <2>7. QED
      BY <2>1, <2>6 DEF t, u
  <1>3. names[1] # names[2]
    BY DEF AdData, AdTiming
  <1>4. ASSUME NEW t \in Traces, t.net[1] \in {names[1], names[2]}
        PROVE  \E i \in LvdsPairs(names) : /\ t.net[1] = names[1] => t = LvdsPiece(names, 1, i)
                                           /\ t.net[1] = names[2] => t = LvdsPiece(names, 2, i)
    <2>1. t \in gen_lvds_routing
      BY <1>4, LvdsTrace
    <2>2. PICK others \in {AdData} \union AdTiming :
             \E i \in LvdsPairs(others) : t \in {LvdsPiece(others, 1, i), LvdsPiece(others, 2, i)}
      BY <2>1, LvdsPieces
    <2>3. \A i : LvdsPiece(others, 1, i).net[1] = others[1] /\ LvdsPiece(others, 2, i).net[1] = others[2]
      BY DEF LvdsPiece, Trace
    <2>4. t.net[1] \in {others[1], others[2]}
      BY <2>2, <2>3
    <2>5. {names[1], names[2]} \intersect {others[1], others[2]} # {}
      BY <2>4, <1>4
    <2>6. names = others
      BY <2>5, LvdsNames
    <2>7. QED
      BY <2>2, <2>3, <2>6, <1>3
  <1>5. \A t \in Traces : t.net[1] = names[1] => \E u \in Traces : Twins(t, u, names)
    BY <1>2, <1>4
  <1>6. \A u \in Traces : u.net[1] = names[2] => \E t \in Traces : Twins(t, u, names)
    BY <1>2, <1>4
  <1>7. QED
    BY <1>5, <1>6, TwinsTogether

\* Within a byte lane and among the fly-by lines lengths are the same, and the two
\* lines of every pair run side by side.
LEMMA AllMatched == InputsMatched = Inputs
  <1>1. ASSUME NEW k \in 0 .. 3, NEW t \in gen_ddr3l_lane(k), NEW u \in gen_ddr3l_lane(k)
        PROVE  Vector(t) = Vector(u)
    BY LaneTraces
  <1>2. ASSUME NEW t \in gen_ddr3l_flyby, NEW u \in gen_ddr3l_flyby, t.from[1] = u.from[1]
        PROVE  Square(Vector(t)) = Square(Vector(u))
    <2>1. Vector(t) = Vector(u)
      BY <1>2, BusTraces
    <2>2. QED
      BY <2>1
  <1>3. ASSUME NEW names \in PairsOfLines, NEW S PROVE Together(Drawable(S), names)
    BY StrobesTogether, ClockTogether, LvdsTogether DEF PairsOfLines
  <1>4. QED
    BY <1>1, <1>2, <1>3, Zenon DEF InputsMatched

\* Whichever sheets are there, the lines of a lane and of the fly-by bus that
\* routing draws are of one length; the two lines of a pair are drawn both or not at
\* all, each at the pair's distance from the other along its whole length, and in
\* one net class.
THEOREM TracesMatched == PcbSpec => []MatchedTraces
  <1>1. PcbInv => MatchedTraces
    BY AllMatched DEF PcbInv, MatchedTraces
  <1>2. QED
    BY <1>1, PcbAlways, PTL

-----------------------------------------------------------------------------
(* Sequences and functions defined step by step.                            *)

\* A set of natural numbers that is not empty has a least element.
LEMMA Least ==
  ASSUME NEW T, T \subseteq Nat, T # {}
  PROVE  \E k \in T : \A j \in T : k <= j
  <1>1. PICK k \in T : \A j \in T : ~(<<j, k>> \in OpToRel(<, Nat))
    BY NatLessThanWellFounded, WFMin
  <1>2. \A j \in T : ~(j < k)
    BY <1>1 DEF OpToRel
  <1>3. QED
    BY <1>2

\* f starts with z and goes on by the steps g.
Recursion(N, S, z, g, f) ==
    f \in [0 .. N -> S] /\ f[0] = z /\ \A i \in 1 .. N : f[i] = g[i][f[i - 1]]

\* A function can be defined on 0 .. N by its first value and its steps.
LEMMA PrimRec ==
  ASSUME NEW N \in Nat, NEW S, NEW z \in S, NEW g \in [1 .. N -> [S -> S]]
  PROVE  \E f : Recursion(N, S, z, g, f)
  <1> DEFINE Up(k, f) == f[0] = z /\ \A i \in 1 .. k : f[i] = g[i][f[i - 1]]
             T == {k \in 0 .. N : ~\E f \in [0 .. k -> S] : Up(k, f)}
  <1>1. SUFFICES ASSUME T # {} PROVE FALSE
    <2>1. N \in 0 .. N
      OBVIOUS
    <2>2. N \notin T => \E f \in [0 .. N -> S] : Up(N, f)
      BY <2>1
    <2>3. QED
      BY <2>2 DEF Recursion
  <1>2. PICK k \in T : \A j \in T : k <= j
    <2>1. T \subseteq Nat
      OBVIOUS
    <2> HIDE DEF T
    <2>2. QED
      BY <1>1, <2>1, Least
  <1>3. k # 0
    <2>1. SUFFICES ASSUME k = 0 PROVE FALSE
      OBVIOUS
    <2> DEFINE f == [i \in 0 .. 0 |-> z]
    <2>2. f \in [0 .. 0 -> S] /\ Up(0, f)
      OBVIOUS
    <2>3. QED
      BY <2>1, <2>2
  <1>4. PICK f \in [0 .. k - 1 -> S] : Up(k - 1, f)
    <2>1. k - 1 \in 0 .. N /\ ~(k <= k - 1)
      BY <1>3
    <2>2. k - 1 \notin T
      BY <2>1, <1>2
    <2>3. QED
      BY <2>1, <2>2
  <1> DEFINE h == [i \in 0 .. k |-> IF i = k THEN g[k][f[k - 1]] ELSE f[i]]
  <1>5. k \in 1 .. N /\ f[k - 1] \in S
    BY <1>3
  <1>6. g[k][f[k - 1]] \in S
    BY <1>5
  <1>7. h \in [0 .. k -> S]
    BY <1>5, <1>6
  <1>8. Up(k, h)
    <2>1. h[0] = z
      BY <1>4, <1>5
    <2>2. ASSUME NEW i \in 1 .. k PROVE h[i] = g[i][h[i - 1]]
      <3>1. h[i - 1] = f[i - 1]
        BY <1>5
      <3>2. CASE i = k
        BY <3>1, <3>2, <1>5
      <3>3. CASE i # k
        <4>1. i \in 1 .. k - 1
          BY <3>3, <1>5
        <4>2. h[i] = f[i]
          BY <4>1, <1>5
        <4>3. QED
          BY <4>1, <4>2, <3>1, <1>4
      <3>4. QED
        BY <3>2, <3>3
    <2>3. QED
      BY <2>1, <2>2
  <1>9. QED
    BY <1>2, <1>7, <1>8

\* What holds at first and is kept by every step holds at last.
LEMMA Climb ==
  ASSUME NEW N \in Nat, NEW T, 0 \in T, \A i \in 1 .. N : i - 1 \in T => i \in T
  PROVE  \A i \in 0 .. N : i \in T
  <1> DEFINE U == {i \in 0 .. N : i \notin T}
  <1>1. SUFFICES ASSUME U # {} PROVE FALSE
    OBVIOUS
  <1>2. U \subseteq Nat
    OBVIOUS
  <1>3. PICK k \in U : \A j \in U : k <= j
    <2> HIDE DEF U
    <2>1. QED
      BY <1>1, <1>2, Least
  <1>4. k \in 1 .. N /\ k - 1 \in 0 .. N /\ ~(k <= k - 1)
    OBVIOUS
  <1>5. k - 1 \in T
    BY <1>3, <1>4
  <1>6. QED
    BY <1>4, <1>5

-----------------------------------------------------------------------------
(* The symbols of the sheets.                                               *)

\* The concatenation of sequences over X is one.
LEMMA FlattenType ==
  ASSUME NEW X, NEW secs \in Seq(Seq(X))
  PROVE  FlattenSeq(secs) \in Seq(X)
  <1> DEFINE N == Len(secs)
             flatten[i \in 1 .. N] == IF i = 1 THEN secs[i] ELSE flatten[i - 1] \o secs[i]
             g == [i \in 1 .. N - 1 |-> [s \in Seq(X) |-> s \o secs[i + 1]]]
  <1>1. N \in Nat /\ \A i \in 1 .. N : secs[i] \in Seq(X)
    BY LenProperties, ElementOfSeq
  <1>2. CASE N = 0
    BY <1>2, EmptySeq DEF FlattenSeq
  <1>3. CASE N # 0
    <2>1. N - 1 \in Nat /\ secs[1] \in Seq(X)
      BY <1>1, <1>3
    <2>2. g \in [1 .. N - 1 -> [Seq(X) -> Seq(X)]]
      <3>1. ASSUME NEW i \in 1 .. N - 1, NEW s \in Seq(X) PROVE s \o secs[i + 1] \in Seq(X)
        BY <1>1, ConcatProperties
      <3>2. QED
        BY <3>1
    <2>3. PICK f : Recursion(N - 1, Seq(X), secs[1], g, f)
      <3> HIDE DEF g, N, flatten
      <3>1. QED
        BY <2>1, <2>2, PrimRec
    <2> DEFINE h == [i \in 1 .. N |-> f[i - 1]]
    <2>4. ASSUME NEW i \in 1 .. N
          PROVE  h[i] \in Seq(X) /\ h[i] = IF i = 1 THEN secs[i] ELSE h[i - 1] \o secs[i]
      <3>1. CASE i = 1
        BY <3>1, <2>1, <2>3 DEF Recursion
      <3>2. CASE i # 1
        <4>1. i - 1 \in 1 .. N - 1 /\ i - 1 \in 0 .. N - 1 /\ i - 2 \in 0 .. N - 1 /\ i - 1 \in 1 .. N /\ (i - 1) + 1 = i /\ (i - 1) - 1 = i - 2
          BY <3>2, <1>1
        <4>2. f[i - 2] \in Seq(X) /\ f[i - 1] \in Seq(X) /\ f[i - 1] = g[i - 1][f[i - 2]]
          BY <4>1, <2>3 DEF Recursion
        <4>3. g[i - 1][f[i - 2]] = f[i - 2] \o secs[i]
          BY <4>1, <4>2
        <4>4. h[i] = f[i - 1] /\ h[i - 1] = f[i - 2]
          BY <4>1
        <4>5. QED
          BY <4>2, <4>3, <4>4, <3>2
      <3>3. QED
        BY <3>1, <3>2
    <2>5. h = [i \in 1 .. N |-> IF i = 1 THEN secs[i] ELSE h[i - 1] \o secs[i]]
      <3> HIDE DEF N
      <3>1. QED
        BY <2>4
    <2>6. flatten = [i \in 1 .. N |-> IF i = 1 THEN secs[i] ELSE flatten[i - 1] \o secs[i]]
      <3> HIDE DEF N, h
      <3>1. QED
        BY <2>5
    <2>7. \A i \in 1 .. N : flatten[i] \in Seq(X)
      <3> DEFINE T == {i \in 0 .. N : i = 0 \/ flatten[i] \in Seq(X)}
      <3>1. 0 \in T
        BY <1>1
      <3>2. ASSUME NEW i \in 1 .. N, i - 1 \in T PROVE i \in T
        <4> HIDE DEF flatten, N
        <4>1. flatten[i] = IF i = 1 THEN secs[i] ELSE flatten[i - 1] \o secs[i]
          BY <2>6
        <4>2. secs[i] \in Seq(X) /\ i \in 0 .. N
          BY <1>1
        <4>3. CASE i = 1
          BY <4>1, <4>2, <4>3
        <4>4. CASE i # 1
          <5>1. flatten[i - 1] \in Seq(X)
            BY <3>2, <4>4
          <5>2. QED
            BY <4>1, <4>2, <4>4, <5>1, ConcatProperties
        <4>5. QED
          BY <4>3, <4>4
      <3> HIDE DEF T, flatten, N
      <3>3. \A i \in 0 .. N : i \in T
        BY <1>1, <3>1, <3>2, Climb
      <3>4. QED
        BY <1>1, <3>3 DEF T
    <2>8. FlattenSeq(secs) = flatten[N]
      BY <1>3 DEF FlattenSeq
    <2>9. QED
      <3> HIDE DEF flatten, N
      <3>1. QED
        BY <2>7, <2>8, <1>1, <1>3
  <1>4. QED
    BY <1>2, <1>3

Prefix ==
    {"C", "D", "FB", "FL", "J", "L", "LED", "R", "SW", "TP", "U", "U_DDR", "Y"}
Footprint ==
    {"", "0402", "0603", "0805", "1206", "1210", "BGA-144", "BGA-153", "BGA-96", "BarrelJack",
     "CP_Radial", "Crystal", "DIP-14", "D_SMA", "LCC-16", "PinHeader_2x07", "PinHeader_2x20",
     "QFN-16", "QFN-24", "QFN-32", "QFN-48", "RJ45", "SMA", "SOIC-8", "SOT-23-5", "SW_DIP",
     "SW_Push", "SW_SPST", "TGA2594", "TestPoint", "U.FL", "USB_A", "USB_Micro", "VDFN",
     "WSON-8-1EP_6x5", "WSON-8_2x2", "microSD"}
Symbol == [prefix : Prefix, num : Nat \union {-1}, fp : Footprint]

\* Sequences of symbols are made by the operators of Sheets.
LEMMA SymbolsMade ==
  /\ \A p \in Prefix, fp \in Footprint : Next1(p, fp) \in Seq(Symbol)
  /\ \A p \in Prefix, fp \in Footprint, k \in Nat : Fixed(p, k, fp) \in Seq(Symbol)
  /\ \A a, b \in Seq(Symbol) : a \o b \in Seq(Symbol)
  /\ \A n \in Nat, a \in Seq(Symbol) : Times(n, a) \in Seq(Symbol)
  <1>1. \A e \in Symbol : <<e>> \in Seq(Symbol)
    OBVIOUS
  <1>2. \A p \in Prefix, fp \in Footprint : Next1(p, fp) \in Seq(Symbol)
    BY <1>1 DEF Next1, Symbol
  <1>3. \A p \in Prefix, fp \in Footprint, k \in Nat : Fixed(p, k, fp) \in Seq(Symbol)
    BY <1>1 DEF Fixed, Symbol
  <1>4. \A a, b \in Seq(Symbol) : a \o b \in Seq(Symbol)
    BY ConcatProperties
  <1>5. ASSUME NEW n \in Nat, NEW a \in Seq(Symbol) PROVE Times(n, a) \in Seq(Symbol)
    <2>1. [i \in 1 .. n |-> a] \in Seq(Seq(Symbol))
      BY IsASeq
    <2>2. QED
      BY <2>1, FlattenType DEF Times
  <1>6. QED
    BY <1>2, <1>3, <1>4, <1>5

\* The symbols with a footprint of their own.
LEMMA SymbolsDrawn ==
  /\ Fixed("U_DDR", 0, "BGA-96") \in Seq(Symbol) /\ Fixed("U_DDR", 1, "BGA-96") \in Seq(Symbol)
  /\ Fixed("D", 3, "0603") \in Seq(Symbol) /\ Fixed("FL", 1, "") \in Seq(Symbol)
  /\ Fixed("J", 1, "SMA") \in Seq(Symbol) /\ Fixed("J", 2, "PinHeader_2x07") \in Seq(Symbol)
  /\ Fixed("SW", 1, "SW_DIP") \in Seq(Symbol) /\ Fixed("SW", 2, "SW_SPST") \in Seq(Symbol)
  /\ Fixed("U", 1, "") \in Seq(Symbol) /\ Fixed("U", 10, "BGA-144") \in Seq(Symbol)
  /\ Fixed("Y", 1, "VDFN") \in Seq(Symbol) /\ Fixed("Y", 2, "DIP-14") \in Seq(Symbol)
  /\ Next1("C", "0402") \in Seq(Symbol) /\ Next1("C", "0805") \in Seq(Symbol) /\ Next1("C", "1206") \in Seq(Symbol)
  /\ Next1("C", "CP_Radial") \in Seq(Symbol) /\ Next1("D", "0603") \in Seq(Symbol)
  /\ Next1("D", "D_SMA") \in Seq(Symbol) /\ Next1("FB", "0402") \in Seq(Symbol)
  /\ Next1("J", "BarrelJack") \in Seq(Symbol) /\ Next1("J", "PinHeader_2x20") \in Seq(Symbol)
  /\ Next1("J", "RJ45") \in Seq(Symbol) /\ Next1("J", "U.FL") \in Seq(Symbol)
  /\ Next1("J", "USB_A") \in Seq(Symbol) /\ Next1("J", "USB_Micro") \in Seq(Symbol)
  /\ Next1("J", "microSD") \in Seq(Symbol) /\ Next1("L", "0402") \in Seq(Symbol)
  /\ Next1("L", "0805") \in Seq(Symbol) /\ Next1("L", "1210") \in Seq(Symbol)
  /\ Next1("LED", "0603") \in Seq(Symbol) /\ Next1("R", "") \in Seq(Symbol) /\ Next1("R", "0402") \in Seq(Symbol)
  /\ Next1("SW", "SW_Push") \in Seq(Symbol) /\ Next1("TP", "TestPoint") \in Seq(Symbol)
  /\ Next1("U", "BGA-153") \in Seq(Symbol) /\ Next1("U", "LCC-16") \in Seq(Symbol)
  /\ Next1("U", "QFN-16") \in Seq(Symbol) /\ Next1("U", "QFN-24") \in Seq(Symbol)
  /\ Next1("U", "QFN-32") \in Seq(Symbol) /\ Next1("U", "QFN-48") \in Seq(Symbol)
  /\ Next1("U", "SOIC-8") \in Seq(Symbol) /\ Next1("U", "SOT-23-5") \in Seq(Symbol)
  /\ Next1("U", "TGA2594") \in Seq(Symbol) /\ Next1("U", "WSON-8-1EP_6x5") \in Seq(Symbol)
  /\ Next1("U", "WSON-8_2x2") \in Seq(Symbol) /\ Next1("Y", "Crystal") \in Seq(Symbol)
  <1>1. \A p \in Prefix, fp \in Footprint : Next1(p, fp) \in Seq(Symbol)
    BY SymbolsMade, Zenon
  <1>2. \A p \in Prefix, fp \in Footprint, k \in Nat : Fixed(p, k, fp) \in Seq(Symbol)
    BY SymbolsMade, Zenon
  <1>3. /\ "C" \in Prefix /\ "D" \in Prefix /\ "FB" \in Prefix /\ "FL" \in Prefix /\ "J" \in Prefix /\ "L" \in Prefix
        /\ "LED" \in Prefix /\ "R" \in Prefix /\ "SW" \in Prefix /\ "TP" \in Prefix /\ "U" \in Prefix
        /\ "U_DDR" \in Prefix /\ "Y" \in Prefix
    BY DEF Prefix
  <1>4. /\ "" \in Footprint /\ "0402" \in Footprint /\ "0603" \in Footprint /\ "0805" \in Footprint
        /\ "1206" \in Footprint /\ "1210" \in Footprint /\ "BGA-144" \in Footprint /\ "BGA-153" \in Footprint
        /\ "BGA-96" \in Footprint /\ "BarrelJack" \in Footprint /\ "CP_Radial" \in Footprint
        /\ "Crystal" \in Footprint /\ "DIP-14" \in Footprint /\ "D_SMA" \in Footprint /\ "LCC-16" \in Footprint
        /\ "PinHeader_2x07" \in Footprint /\ "PinHeader_2x20" \in Footprint /\ "QFN-16" \in Footprint
        /\ "QFN-24" \in Footprint /\ "QFN-32" \in Footprint /\ "QFN-48" \in Footprint /\ "RJ45" \in Footprint
        /\ "SMA" \in Footprint /\ "SOIC-8" \in Footprint /\ "SOT-23-5" \in Footprint /\ "SW_DIP" \in Footprint
        /\ "SW_Push" \in Footprint /\ "SW_SPST" \in Footprint /\ "TGA2594" \in Footprint /\ "TestPoint" \in Footprint
        /\ "U.FL" \in Footprint /\ "USB_A" \in Footprint /\ "USB_Micro" \in Footprint /\ "VDFN" \in Footprint
        /\ "WSON-8-1EP_6x5" \in Footprint /\ "WSON-8_2x2" \in Footprint /\ "microSD" \in Footprint
    BY DEF Footprint
  <1>5. 0 \in Nat /\ 1 \in Nat /\ 2 \in Nat /\ 3 \in Nat /\ 10 \in Nat
    OBVIOUS
  <1>6. QED
    BY <1>1, <1>2, <1>3, <1>4, <1>5, Zenon

\* The symbols every sheet uses.
LEMMA CommonSymbols ==
  /\ C \in Seq(Symbol) /\ C0805 \in Seq(Symbol) /\ R \in Seq(Symbol) /\ R0402 \in Seq(Symbol)
  /\ L \in Seq(Symbol) /\ L0805 \in Seq(Symbol) /\ L1210 \in Seq(Symbol)
  /\ Zynq \in Seq(Symbol) /\ Ad9361 \in Seq(Symbol)
  BY SymbolsDrawn DEF C, C0805, R, R0402, L, L0805, L1210, Zynq, Ad9361

\* A section that is a sequence of symbols.
HasSymbols(sec) == sec.parts \in Seq(Symbol)

\* Sections with symbols joined have symbols.
LEMMA JoinedSymbols ==
  ASSUME NEW secs, Len(secs) \in Nat, \A i \in 1 .. Len(secs) : HasSymbols(secs[i])
  PROVE  HasSymbols(Joined(secs))
  <1>1. [i \in 1 .. Len(secs) |-> secs[i].parts] \in Seq(Seq(Symbol))
    BY IsASeq DEF HasSymbols
  <1>2. Joined(secs).parts = FlattenSeq([i \in 1 .. Len(secs) |-> secs[i].parts])
    BY DEF Joined
  <1>3. QED
    BY <1>1, <1>2, FlattenType DEF HasSymbols

\* Decoupling capacitors are symbols.
LEMMA DecouplingSymbols == ASSUME NEW rail, NEW n \in Nat, NEW m \in Nat PROVE HasSymbols(decoupling_group(rail, n, m))
  BY SymbolsMade, SymbolsDrawn, CommonSymbols DEF decoupling_group, Section, HasSymbols

\* A converter is drawn with symbols.
LEMMA ConverterSymbols ==
  ASSUME NEW nets, NEW u \in Seq(Symbol), NEW enable \in Seq(Symbol)
  PROVE  HasSymbols(Converter(nets, u, enable))
  BY SymbolsMade, SymbolsDrawn, CommonSymbols DEF Converter, Section, HasSymbols

\* The power sheet.
LEMMA PowerSymbols == HasSymbols(Power)
  <1>1. HasSymbols(PowerInput)
    BY SymbolsMade, SymbolsDrawn, CommonSymbols DEF PowerInput, Section, HasSymbols
  <1>2. HasSymbols(PowerMain)
    <2> DEFINE U == Next1("U", "SOIC-8")
               s1 == Converter({"+5V", "+5V_EN", "+5V_PG"}, U, R0402 \o C \o R0402 \o C)
               s2 == Section(R0402 \o R0402 \o L0805 \o C \o L0805, {Net("+5V_PA")})
               s3 == Converter({"+3V3", "+3V3_EN", "+3V3_PG"}, U, R0402 \o C \o R0402 \o C)
               s4 == Section(R0402 \o R0402 \o Next1("FB", "0402") \o C, {Net("+3V3A")})
    <2>1. HasSymbols(s1) /\ HasSymbols(s3)
      BY SymbolsMade, SymbolsDrawn, CommonSymbols, ConverterSymbols
    <2>2. HasSymbols(s2) /\ HasSymbols(s4)
      BY SymbolsMade, SymbolsDrawn, CommonSymbols DEF Section, HasSymbols
    <2>3. PowerMain = Joined(<<s1, s2, s3, s4>>)
      BY DEF PowerMain
    <2> HIDE DEF s1, s2, s3, s4
    <2>4. QED
      BY <2>1, <2>2, <2>3, JoinedSymbols
  <1>3. HasSymbols(PowerCore)
    <2> DEFINE Buck(nets) == Converter(nets, Next1("U", "WSON-8_2x2"), C)
               D == Section(Times(3, R0402), {})
               s1 == Buck({"+1V0", "+1V0_EN", "+1V0_PG"})
               s2 == Buck({"+1V5", "+1V5_EN", "+1V5_PG"})
               s3 == Buck({"+1V8", "+1V8_EN", "+1V8_PG"})
               s4 == Buck({"+1V35", "+1V35_EN", "+1V35_PG"})
    <2>1. HasSymbols(s1) /\ HasSymbols(s2) /\ HasSymbols(s3) /\ HasSymbols(s4)
      BY SymbolsMade, SymbolsDrawn, CommonSymbols, ConverterSymbols
    <2>2. HasSymbols(D)
      BY SymbolsMade, SymbolsDrawn, CommonSymbols DEF Section, HasSymbols
    <2>3. PowerCore = Joined(<<s1, D, s2, D, s3, D, s4, D>>)
      BY DEF PowerCore
    <2> HIDE DEF s1, s2, s3, s4, D
    <2>4. QED
      BY <2>1, <2>2, <2>3, JoinedSymbols
  <1>4. HasSymbols(PowerVtt)
    BY SymbolsMade, SymbolsDrawn, CommonSymbols DEF PowerVtt, Section, HasSymbols
  <1>5. QED
    BY <1>1, <1>2, <1>3, <1>4, JoinedSymbols DEF Power

\* A set whose elements can be listed is finite.
LEMMA Listed ==
  ASSUME NEW S, NEW N \in Nat, NEW f \in [1 .. N -> S], \A x \in S : \E n \in 1 .. N : f[n] = x
  PROVE  IsFiniteSet(S) /\ Cardinality(S) \in Nat
  <1>1. f \in Seq(S) /\ Len(f) = N
    BY IsASeq, LenProperties
  <1>2. IsFiniteSet(S)
    BY <1>1 DEF IsFiniteSet
  <1>3. QED
    BY <1>2, FS_CardinalityType

\* The Zynq's sheet.
LEMMA ZynqSymbols == HasSymbols(ZynqSheet)
  <1>1. HasSymbols(ZynqConfig)
    BY SymbolsMade, SymbolsDrawn, CommonSymbols DEF ZynqConfig, Section, HasSymbols
  <1>2. HasSymbols(ZynqJtag)
    BY SymbolsMade, SymbolsDrawn, CommonSymbols DEF ZynqJtag, Section, HasSymbols
  <1>3. HasSymbols(ZynqMio)
    BY SymbolsMade, SymbolsDrawn, CommonSymbols DEF ZynqMio, Section, HasSymbols
  <1>4. HasSymbols(ZynqDdr)
    BY SymbolsMade, SymbolsDrawn, CommonSymbols DEF ZynqDdr, Section, HasSymbols
  <1>5. HasSymbols(ZynqBanks)
    BY SymbolsMade, SymbolsDrawn, CommonSymbols DEF ZynqBanks, Section, HasSymbols
  <1>6. HasSymbols(ZynqPower)
    BY SymbolsMade, SymbolsDrawn, CommonSymbols DEF ZynqPower, Section, HasSymbols
  <1>7. HasSymbols(ZynqDecoupling)
    <2> DEFINE Bank(rail) == decoupling_group(rail, 4, 1)
               a == decoupling_group("+1V0", 20, 4)
               b == decoupling_group("+1V5", 8, 2)
               c == decoupling_group("+1V0", 8, 2)
               d == Bank("+1V8")
               e == Bank("+3V3")
               f == Bank("+1V0")
    <2>1. HasSymbols(a) /\ HasSymbols(b) /\ HasSymbols(c) /\ HasSymbols(d) /\ HasSymbols(e) /\ HasSymbols(f)
      BY DecouplingSymbols
    <2>2. ZynqDecoupling = Joined(<<a, b, d, d, e, e, d, d, c, d, f, d>>)
      BY DEF ZynqDecoupling
    <2> HIDE DEF a, b, c, d, e, f
    <2>3. QED
      BY <2>1, <2>2, JoinedSymbols
  <1>8. QED
    BY <1>1, <1>2, <1>3, <1>4, <1>5, <1>6, <1>7, JoinedSymbols DEF ZynqSheet

\* The memories' sheet.
LEMMA DdrSymbols == HasSymbols(DdrSheet)
  <1>1. ASSUME NEW k \in {0, 1}, NEW lanes PROVE HasSymbols(place_ddr_chip(k, lanes))
    <2>1. Fixed("U_DDR", 0, "BGA-96") \in Seq(Symbol) /\ Fixed("U_DDR", 1, "BGA-96") \in Seq(Symbol)
      BY SymbolsDrawn
    <2>2. Fixed("U_DDR", k, "BGA-96") \in Seq(Symbol)
      BY <2>1
    <2>3. QED
      BY <2>2, SymbolsMade, CommonSymbols DEF place_ddr_chip, Section, HasSymbols
  <1>2. HasSymbols(DdrDecoupling)
    <2> DEFINE secs == [i \in 1 .. 4 |-> decoupling_group("+1V35", 4, 1)]
    <2>1. \A i \in 1 .. 4 : HasSymbols(secs[i])
      BY DecouplingSymbols
    <2>2. Len(secs) = 4 /\ DdrDecoupling = Joined(secs)
      BY DEF DdrDecoupling
    <2> HIDE DEF secs
    <2>3. QED
      BY <2>1, <2>2, JoinedSymbols
  <1>3. HasSymbols(place_vtt_termination)
    <2> DEFINE lines == DdrAddress \union DdrCommand
               names == <<"DDR_CAS_B", "DDR_RAS_B", "DDR_WE_B", "DDR_CKE", "DDR_CS_B", "DDR_ODT">>
               f == [i \in 1 .. 24 |-> IF i <= 15 THEN <<"DDR_A", i - 1>>
                                        ELSE IF i <= 18 THEN <<"DDR_BA", i - 16>>
                                        ELSE Net(names[i - 18])]
    <2>1. Cardinality(lines) \in Nat
      <3>1. \A i \in 1 .. 24 : f[i] \in lines
        BY DEF DdrAddress, DdrCommand, Bus, Rails, Net
      <3>2. ASSUME NEW x \in lines PROVE \E i \in 1 .. 24 : f[i] = x
        <4>1. CASE \E k \in 0 .. 14 : x = <<"DDR_A", k>>
          <5>1. PICK k \in 0 .. 14 : x = <<"DDR_A", k>>
            BY <4>1
          <5>2. k + 1 \in 1 .. 24 /\ f[k + 1] = x
            BY <5>1
          <5>3. QED
            BY <5>2
        <4>2. CASE \E k \in 0 .. 2 : x = <<"DDR_BA", k>>
          <5>1. PICK k \in 0 .. 2 : x = <<"DDR_BA", k>>
            BY <4>2
          <5>2. k + 16 \in 1 .. 24 /\ f[k + 16] = x
            BY <5>1
          <5>3. QED
            BY <5>2
        <4>3. CASE \E k \in 1 .. 6 : x = Net(names[k])
          <5>1. PICK k \in 1 .. 6 : x = Net(names[k])
            BY <4>3
          <5>2. k + 18 \in 1 .. 24 /\ f[k + 18] = x
            BY <5>1
          <5>3. QED
            BY <5>2
        <4>4. QED
          <5>1. x \in Bus("DDR_A", 0 .. 14) \/ x \in Bus("DDR_BA", 0 .. 2) \/ x \in DdrCommand
            BY DEF DdrAddress
          <5>2. x \in DdrCommand => \E k \in 1 .. 6 : x = Net(names[k])
            BY DEF DdrCommand, Rails
          <5>3. QED
            BY <5>1, <5>2, <4>1, <4>2, <4>3 DEF Bus
      <3>3. f \in [1 .. 24 -> lines] /\ 24 \in Nat
        BY <3>1
      <3> HIDE DEF f, lines
      <3>4. QED
        BY <3>2, <3>3, Listed
    <2>2. QED
      BY <2>1, SymbolsMade, CommonSymbols DEF place_vtt_termination, Section, HasSymbols
  <1>4. QED
    BY <1>1, <1>2, <1>3, JoinedSymbols DEF DdrSheet

\* The transceiver's sheet.
LEMMA AdSymbols == HasSymbols(AdSheet)
  <1>1. HasSymbols(AdLvds)
    BY SymbolsMade, SymbolsDrawn, CommonSymbols DEF AdLvds, Section, HasSymbols
  <1>2. HasSymbols(AdControl)
    BY SymbolsMade, SymbolsDrawn, CommonSymbols DEF AdControl, Section, HasSymbols
  <1>3. HasSymbols(AdClock)
    BY SymbolsMade, SymbolsDrawn, CommonSymbols DEF AdClock, Section, HasSymbols
  <1>4. HasSymbols(AdPower)
    BY SymbolsMade, SymbolsDrawn, CommonSymbols DEF AdPower, Section, HasSymbols
  <1>5. HasSymbols(AdDecoupling)
    <2> DEFINE a == decoupling_group("+1V3_AD", 4, 1)
               b == decoupling_group("+1V8", 4, 1)
               c == decoupling_group("+3V3A", 4, 1)
               d == decoupling_group("+1V3_AD", 2, 0)
               e == decoupling_group("+3V3A", 2, 1)
    <2>1. HasSymbols(a) /\ HasSymbols(b) /\ HasSymbols(c) /\ HasSymbols(d) /\ HasSymbols(e)
      BY DecouplingSymbols
    <2>2. AdDecoupling = Joined(<<a, a, b, c, d, e>>)
      BY DEF AdDecoupling
    <2> HIDE DEF a, b, c, d, e
    <2>3. QED
      BY <2>1, <2>2, JoinedSymbols
  <1>6. QED
    BY <1>1, <1>2, <1>3, <1>4, <1>5, JoinedSymbols DEF AdSheet

\* The RF front end's sheet.
LEMMA RfSymbols == HasSymbols(RfSheet)
  <1>1. HasSymbols(RfAntenna)
    BY SymbolsMade, SymbolsDrawn, CommonSymbols DEF RfAntenna, Section, HasSymbols
  <1>2. HasSymbols(RfBandpass)
    BY SymbolsMade, SymbolsDrawn, CommonSymbols DEF RfBandpass, Section, HasSymbols
  <1>3. HasSymbols(RfSwitch)
    BY SymbolsMade, SymbolsDrawn, CommonSymbols DEF RfSwitch, Section, HasSymbols
  <1>4. HasSymbols(RfLna)
    BY SymbolsMade, SymbolsDrawn, CommonSymbols DEF RfLna, Section, HasSymbols
  <1>5. HasSymbols(RfSaw)
    BY SymbolsMade, SymbolsDrawn, CommonSymbols DEF RfSaw, Section, HasSymbols
  <1>6. HasSymbols(RfRxOut)
    BY SymbolsMade, SymbolsDrawn, CommonSymbols DEF RfRxOut, Section, HasSymbols
  <1>7. HasSymbols(RfTxIn)
    BY SymbolsMade, SymbolsDrawn, CommonSymbols DEF RfTxIn, Section, HasSymbols
  <1>8. HasSymbols(RfDriver)
    BY SymbolsMade, SymbolsDrawn, CommonSymbols DEF RfDriver, Section, HasSymbols
  <1>9. HasSymbols(RfPa)
    BY SymbolsMade, SymbolsDrawn, CommonSymbols DEF RfPa, Section, HasSymbols
  <1>10. HasSymbols(RfLowpass)
    BY SymbolsMade, SymbolsDrawn, CommonSymbols DEF RfLowpass, Section, HasSymbols
  <1>11. QED
    BY <1>1, <1>2, <1>3, <1>4, <1>5, <1>6, <1>7, <1>8, <1>9, <1>10, JoinedSymbols DEF RfSheet

\* The peripherals' sheet.
LEMMA PeripheralSymbols == HasSymbols(PeripheralSheet)
  <1>1. HasSymbols(build_qspi)
    BY SymbolsMade, SymbolsDrawn, CommonSymbols DEF build_qspi, Section, HasSymbols
  <1>2. HasSymbols(build_emmc)
    BY SymbolsMade, SymbolsDrawn, CommonSymbols DEF build_emmc, Section, HasSymbols
  <1>3. HasSymbols(build_usb_phy)
    BY SymbolsMade, SymbolsDrawn, CommonSymbols DEF build_usb_phy, Section, HasSymbols
  <1>4. HasSymbols(build_ethernet)
    BY SymbolsMade, SymbolsDrawn, CommonSymbols DEF build_ethernet, Section, HasSymbols
  <1>5. HasSymbols(build_uart_usb)
    BY SymbolsMade, SymbolsDrawn, CommonSymbols DEF build_uart_usb, Section, HasSymbols
  <1>6. HasSymbols(build_gps)
    BY SymbolsMade, SymbolsDrawn, CommonSymbols DEF build_gps, Section, HasSymbols
  <1>7. HasSymbols(build_microsd)
    BY SymbolsMade, SymbolsDrawn, CommonSymbols DEF build_microsd, Section, HasSymbols
  <1>8. HasSymbols(generate_tamper_section)
    BY SymbolsMade, SymbolsDrawn, CommonSymbols DEF generate_tamper_section, Section, HasSymbols
  <1>9. QED
    BY <1>1, <1>2, <1>3, <1>4, <1>5, <1>6, <1>7, <1>8, JoinedSymbols DEF PeripheralSheet

\* The connectors' sheet.
LEMMA ConnectorSymbols == HasSymbols(ConnectorSheet)
  <1>1. HasSymbols(GpioHeader)
    BY SymbolsMade, SymbolsDrawn, CommonSymbols DEF GpioHeader, Section, HasSymbols
  <1>2. HasSymbols(StatusLeds)
    BY SymbolsMade, SymbolsDrawn, CommonSymbols DEF StatusLeds, Section, HasSymbols
  <1>3. HasSymbols(UserButtons)
    BY SymbolsMade, SymbolsDrawn, CommonSymbols DEF UserButtons, Section, HasSymbols
  <1>4. HasSymbols(TestPoints)
    <2> DEFINE names == <<"+12V", "+5V", "+3V3", "+1V8", "+1V35", "+1V0", "+1V5", "VTT", "GND", "GPS_1PPS", "PS_CLK">>
               nets == Rails({"+12V", "+5V", "+3V3", "+1V8", "+1V35", "+1V0", "+1V5", "VTT", "GND", "GPS_1PPS", "PS_CLK"})
               f == [i \in 1 .. 11 |-> Net(names[i])]
    <2>1. Cardinality(nets) \in Nat
      <3>1. f \in [1 .. 11 -> nets] /\ 11 \in Nat
        BY DEF Rails
      <3>2. \A x \in nets : \E i \in 1 .. 11 : f[i] = x
        BY DEF Rails
      <3> HIDE DEF f, nets
      <3>3. QED
        BY <3>1, <3>2, Listed
    <2>2. QED
      BY <2>1, SymbolsMade, SymbolsDrawn, CommonSymbols DEF TestPoints, Section, HasSymbols
  <1>5. QED
    BY <1>1, <1>2, <1>3, <1>4, JoinedSymbols DEF ConnectorSheet

\* The parts of a sheet once numbered.
NumberedPart == [ref : Prefix \X Nat, fp : Footprint]

\* Each sheet is drawn with symbols.
LEMMA SheetsSymbols == \A s \in Sheet : HasSymbols(Drawn[s])
  <1>1. Len(SCHEMATIC_FILES) = 7
    BY DEF SCHEMATIC_FILES
  <1>2. Sheet = {SCHEMATIC_FILES[i] : i \in 1 .. 7}
    BY <1>1 DEF Sheet, ToSet, SCHEMATIC_FILES
  <1>3. \A i, j \in 1 .. 7 : SCHEMATIC_FILES[i] = SCHEMATIC_FILES[j] => i = j
    BY DEF SCHEMATIC_FILES
  <1> DEFINE sheets == <<Power, ZynqSheet, DdrSheet, AdSheet, RfSheet, PeripheralSheet, ConnectorSheet>>
  <1>4. \A i \in 1 .. 7 : HasSymbols(sheets[i])
    BY PowerSymbols, ZynqSymbols, DdrSymbols, AdSymbols, RfSymbols, PeripheralSymbols, ConnectorSymbols
  <1>5. \A i \in 1 .. 7 : Drawn[SCHEMATIC_FILES[i]] = sheets[i]
    <2> HIDE DEF sheets
    <2>1. Drawn = [s \in Sheet |-> sheets[CHOOSE i \in 1 .. 7 : SCHEMATIC_FILES[i] = s]]
      BY DEF Drawn, sheets
    <2>2. QED
      BY <2>1, <1>2, <1>3
  <1> HIDE DEF sheets
  <1>6. QED
    BY <1>2, <1>4, <1>5

\* The parts of a sheet are numbered.
LEMMA NumberedType == \A s \in Sheet : Numbered(s) \in Seq(NumberedPart)
  <1> SUFFICES ASSUME NEW s \in Sheet PROVE Numbered(s) \in Seq(NumberedPart)
    OBVIOUS
  <1> DEFINE parts == Drawn[s].parts
             Earlier(i) == Cardinality({j \in 1 .. i - 1 : parts[j].prefix = parts[i].prefix /\ parts[j].num = -1})
             ref(i) == <<parts[i].prefix,
                         IF parts[i].num = -1 THEN FirstNumber(s, parts[i].prefix) + Earlier(i) ELSE parts[i].num>>
  <1>1. parts \in Seq(Symbol)
    BY SheetsSymbols DEF HasSymbols
  <1>2. Len(parts) \in Nat /\ \A i \in 1 .. Len(parts) : parts[i] \in Symbol
    <2> HIDE DEF parts
    <2>1. QED
      BY <1>1, LenProperties, ElementOfSeq
  <1>3. \A p : FirstNumber(s, p) \in Nat
    BY DEF FirstNumber
  <1>4. \A i \in 1 .. Len(parts) : Earlier(i) \in Nat
    <2> SUFFICES ASSUME NEW i \in 1 .. Len(parts) PROVE Earlier(i) \in Nat
      OBVIOUS
    <2> HIDE DEF parts
    <2>1. IsFiniteSet(1 .. i - 1)
      BY <1>2, FS_Interval
    <2> DEFINE T == {j \in 1 .. i - 1 : parts[j].prefix = parts[i].prefix /\ parts[j].num = -1}
    <2>2. T \in SUBSET (1 .. i - 1)
      OBVIOUS
    <2> HIDE DEF T
    <2>3. Cardinality(T) \in Nat
      BY <2>1, <2>2, FS_Subset, FS_CardinalityType
    <2>4. QED
      BY <2>3 DEF T
  <1>5. \A i \in 1 .. Len(parts) : ref(i) \in Prefix \X Nat /\ parts[i].fp \in Footprint
    <2> SUFFICES ASSUME NEW i \in 1 .. Len(parts) PROVE ref(i) \in Prefix \X Nat /\ parts[i].fp \in Footprint
      OBVIOUS
    <2>1. parts[i].prefix \in Prefix /\ parts[i].num \in Nat \union {-1} /\ parts[i].fp \in Footprint
      BY <1>2 DEF Symbol
    <2>2. Earlier(i) \in Nat /\ FirstNumber(s, parts[i].prefix) \in Nat
      BY <1>3, <1>4
    <2> HIDE DEF parts, Earlier
    <2>3. QED
      BY <2>1, <2>2
  <1>6. Numbered(s) = [i \in 1 .. Len(parts) |-> [ref |-> ref(i), fp |-> parts[i].fp]]
    BY DEF Numbered, WithNumbers
  <1> HIDE DEF parts, ref
  <1>7. \A i \in 1 .. Len(parts) : [ref |-> ref(i), fp |-> parts[i].fp] \in NumberedPart
    BY <1>5 DEF NumberedPart
  <1>8. QED
    BY <1>2, <1>6, <1>7, IsASeq

-----------------------------------------------------------------------------
(* The plan of gen_pcb_placement.py.                                        *)

Part == [ref : Prefix \X Nat, fp : Footprint, sheet : Sheet]
PlacedPart == [ref : Prefix \X Nat, sheet : Sheet, box : Box, by : ZoneName \union {"fixed", "last"}, layer : {"F.Cu", "B.Cu"}]
PlanType == [zones : [ZoneName -> ZoneType], plan : Seq(PlacedPart)]

\* A box inside zone z, as wide as a part can be.
InZone(b, z) ==
    /\ b.x >= z.cursor_x /\ b.x + b.w + margin <= z.x_max
    /\ b.y >= z.cursor_y /\ b.y + b.h + margin <= z.y_max

\* Zone z has room only where no part is yet.
RoomIn(st, z) ==
    LET now == st.zones[z]
    IN  /\ now.x_min = Zones[z].x_min /\ now.x_max = Zones[z].x_max /\ now.y_max = Zones[z].y_max
        /\ now.cursor_x >= Zones[z].cursor_x /\ now.cursor_y >= Zones[z].cursor_y
        /\ \A i \in 1 .. Len(st.plan) :
              st.plan[i].by = z => Before(st.plan[i].box, now) /\ InZone(st.plan[i].box, Zones[z])

\* Parts in one zone are apart.
ZonesApart(plan) ==
    \A i \in 1 .. Len(plan) : \A j \in 1 .. i - 1 :
        plan[i].by = plan[j].by /\ plan[i].by \in ZoneName => Apart(plan[j].box, plan[i].box)

PlanState == {st \in PlanType : (\A z \in ZoneName : RoomIn(st, z)) /\ ZonesApart(st.plan)}

\* The next plan is the plan, or has one part more, and that is p.
Grown(plan, next, p) ==
    next = plan \/ \E e \in PlacedPart : e.ref = p.ref /\ e.sheet = p.sheet /\ next = Append(plan, e)

\* Footprints have a size, and none is wider than 16 mm.
LEMMA Sizes ==
  \A fp : LET s == estimate_footprint_size(fp)
          IN  s[1] \in 0 .. 640 /\ s[2] \in Nat
  BY DEF estimate_footprint_size

\* The zones are wide enough for every part.
LEMMA ZonesType ==
  /\ \A z \in ZoneName :
        /\ Zones[z] \in ZoneType
        /\ Zones[z].cursor_x = Zones[z].x_min + mm
        /\ 640 + mm + margin <= Zones[z].x_max - Zones[z].x_min
  /\ Zones \in [ZoneName -> ZoneType]
  <1> DEFINE Corners(a, b, c, d) == Zone(a * mm, b * mm, c * mm, d * mm)
  <1>1. ASSUME NEW a \in Int, NEW b \in Int, NEW c \in Int, NEW d \in Int, a + 20 <= c
        PROVE  /\ Corners(a, b, c, d) \in ZoneType
               /\ Corners(a, b, c, d).cursor_x = Corners(a, b, c, d).x_min + mm
               /\ 640 + mm + margin <= Corners(a, b, c, d).x_max - Corners(a, b, c, d).x_min
    BY <1>1 DEF Zone, ZoneType, mm, margin
  <1>2. ASSUME NEW z \in ZoneName
        PROVE  \E a, b, c, d \in Int : a + 20 <= c /\ Zones[z] = Corners(a, b, c, d)
    <2>1. Zones[z] \in {Corners(2, 2, 58, 38), Corners(62, 2, 98, 30), Corners(42, 34, 98, 78), Corners(102, 27, 138, 53), Corners(2, 62, 58, 98),
                        Corners(102, 62, 158, 98), Corners(102, 62, 158, 68), Corners(2, 42, 40, 60)}
      BY DEF Zones, ZoneName, Zone, mm
    <2> HIDE DEF Corners
    <2>2. QED
      BY <2>1
  <1> HIDE DEF Corners
  <1>3. \A z \in ZoneName : /\ Zones[z] \in ZoneType
                            /\ Zones[z].cursor_x = Zones[z].x_min + mm
                            /\ 640 + mm + margin <= Zones[z].x_max - Zones[z].x_min
    BY <1>1, <1>2
  <1>4. Zones \in [ZoneName -> ZoneType]
    <2> DEFINE ZoneAt(z) ==
                 CASE z = "rf"       -> Corners(2, 2, 58, 38)
                   [] z = "ad9361"   -> Corners(62, 2, 98, 30)
                   [] z = "zynq"     -> Corners(42, 34, 98, 78)
                   [] z = "ddr3l"    -> Corners(102, 27, 138, 53)
                   [] z = "power"    -> Corners(2, 62, 58, 98)
                   [] z = "conn"     -> Corners(102, 62, 158, 98)
                   [] z = "periph"   -> Corners(102, 62, 158, 68)
                   [] z = "overflow" -> Corners(2, 42, 40, 60)
    <2>1. Zones = [z \in ZoneName |-> ZoneAt(z)]
      BY DEF Zones, Corners
    <2> HIDE DEF ZoneAt
    <2>2. \A z \in ZoneName : ZoneAt(z) = Zones[z]
      BY <2>1
    <2>3. QED
      BY <1>3, <2>1, <2>2
  <1>5. QED
    BY <1>3, <1>4

\* At first nothing is placed.
LEMMA EmptyPlanState == EmptyPlan \in PlanState
  <1>1. EmptyPlan.plan = <<>> /\ EmptyPlan.zones = Zones /\ Len(EmptyPlan.plan) = 0
    BY DEF EmptyPlan
  <1>2. EmptyPlan \in PlanType
    BY ZonesType DEF EmptyPlan, PlanType
  <1>3. \A z \in ZoneName : RoomIn(EmptyPlan, z)
    <2> SUFFICES ASSUME NEW z \in ZoneName PROVE RoomIn(EmptyPlan, z)
      OBVIOUS
    <2>1. Zones[z].cursor_x \in Int /\ Zones[z].cursor_y \in Int
      BY ZonesType DEF ZoneType
    <2>2. QED
      BY <1>1, <2>1 DEF RoomIn
  <1>4. QED
    BY <1>1, <1>2, <1>3 DEF PlanState, ZonesApart

\* A wrap and an advance never move the cursor up.
LEMMA CursorDown ==
  ASSUME NEW z \in ZoneType, NEW w \in Nat, NEW h \in Nat
  PROVE  Wrapped(z, w).cursor_y >= z.cursor_y /\ Advanced(z, w, h).cursor_y = z.cursor_y
  BY DEF Wrapped, Advanced, ZoneType, margin

\* One part more that is in no zone changes nothing about the zones.
LEMMA PutOutside ==
  ASSUME NEW st \in PlanState, NEW e \in PlacedPart, e.by \notin ZoneName
  PROVE  [st EXCEPT !.plan = Append(@, e)] \in PlanState
  <1> DEFINE next == [st EXCEPT !.plan = Append(@, e)]
  <1>1. st \in PlanType /\ st.zones \in [ZoneName -> ZoneType] /\ st.plan \in Seq(PlacedPart)
    BY DEF PlanState, PlanType
  <1>2. next.zones = st.zones /\ next.plan = Append(st.plan, e) /\ next \in PlanType
    BY <1>1, AppendProperties DEF PlanType
  <1>3. /\ Len(st.plan) \in Nat /\ Len(next.plan) = Len(st.plan) + 1
        /\ \A i \in 1 .. Len(st.plan) : next.plan[i] = st.plan[i]
        /\ next.plan[Len(st.plan) + 1] = e
    BY <1>1, <1>2, AppendProperties, LenProperties
  <1> HIDE DEF next
  <1>4. ASSUME NEW z \in ZoneName PROVE RoomIn(next, z)
    <2>1. RoomIn(st, z)
      BY DEF PlanState
    <2>2. ASSUME NEW i \in 1 .. Len(next.plan), next.plan[i].by = z
          PROVE  Before(next.plan[i].box, st.zones[z]) /\ InZone(next.plan[i].box, Zones[z])
      <3>1. i \in 1 .. Len(st.plan)
        BY <1>3, <2>2
      <3>2. QED
        BY <3>1, <2>1, <2>2, <1>3 DEF RoomIn
    <2>3. QED
      BY <2>1, <2>2, <1>2 DEF RoomIn
  <1>5. ZonesApart(next.plan)
    <2>1. ZonesApart(st.plan)
      BY DEF PlanState
    <2>2. ASSUME NEW i \in 1 .. Len(next.plan), NEW j \in 1 .. i - 1,
                 next.plan[i].by = next.plan[j].by, next.plan[i].by \in ZoneName
          PROVE  Apart(next.plan[j].box, next.plan[i].box)
      <3>1. i \in 1 .. Len(st.plan) /\ j \in 1 .. Len(st.plan)
        BY <1>3, <2>2
      <3>2. QED
        BY <3>1, <2>1, <2>2, <1>3 DEF ZonesApart
    <2>3. QED
      BY <2>2 DEF ZonesApart
  <1>6. QED
    BY <1>2, <1>4, <1>5 DEF PlanState, next

\* A zone that is offered a part takes it where no part is yet, or stays as it is
\* but for a new row.
LEMMA OfferKeeps ==
  ASSUME NEW st \in PlanState, NEW p \in Part, NEW z \in ZoneName
  PROVE  Offer(st, p, z) \in PlanState /\ Grown(st.plan, Offer(st, p, z).plan, p)
  <1> DEFINE s == estimate_footprint_size(p.fp)
             w == s[1]
             h == s[2]
             old == st.zones[z]
             row == Wrapped(old, w)
             box == BoxAt(row, w, h)
             e == Put(p, box, z)
  <1>1. w \in Nat /\ w <= 640 /\ h \in Nat
    BY Sizes
  <1>2. st \in PlanType /\ st.zones \in [ZoneName -> ZoneType] /\ st.plan \in Seq(PlacedPart) /\ Len(st.plan) \in Nat
    BY LenProperties DEF PlanState, PlanType
  <1>b. \A i \in 1 .. Len(st.plan) : st.plan[i].box \in Box
    <2>1. \A i \in 1 .. Len(st.plan) : st.plan[i] \in PlacedPart
      BY <1>2, ElementOfSeq
    <2>2. \A x \in PlacedPart : x.box \in Box
      BY DEF PlacedPart
    <2>3. QED
      BY <2>1, <2>2
  <1>3. old \in ZoneType /\ \A y \in ZoneName : RoomIn(st, y)
    BY <1>2 DEF PlanState
  <1>4. Zones[z] \in ZoneType /\ Zones[z].cursor_x = Zones[z].x_min + mm /\ 640 + mm + margin <= Zones[z].x_max - Zones[z].x_min
    BY ZonesType
  <1>5. /\ old.x_min = Zones[z].x_min /\ old.x_max = Zones[z].x_max /\ old.y_max = Zones[z].y_max
        /\ old.cursor_x >= Zones[z].cursor_x /\ old.cursor_y >= Zones[z].cursor_y
        /\ old.cursor_x >= old.x_min + mm
    BY <1>3, <1>4 DEF RoomIn
  <1> HIDE DEF w, h, old
  <1>6. /\ row \in ZoneType
        /\ row.x_min = old.x_min /\ row.x_max = old.x_max /\ row.y_max = old.y_max
        /\ row.cursor_x >= row.x_min + mm
        /\ w + mm + margin <= old.x_max - old.x_min => row.cursor_x + w + margin <= old.x_max
        /\ \A b \in Box : Before(b, old) => Before(b, row)
    BY <1>1, <1>3, <1>5, WrapKeeps
  <1>7. row.cursor_y >= old.cursor_y
    BY <1>1, <1>3, CursorDown
  <1>8. row.cursor_x + w + margin <= old.x_max
    <2>1. w + mm + margin <= old.x_max - old.x_min
      BY <1>1, <1>3, <1>4, <1>5 DEF mm, margin, ZoneType
    <2>2. QED
      BY <2>1, <1>6
  <1> HIDE DEF row
  <1>9. row.cursor_x >= Zones[z].cursor_x /\ row.cursor_y >= Zones[z].cursor_y
    <2>1. /\ row.cursor_x \in Int /\ row.cursor_y \in Int /\ old.cursor_y \in Int
          /\ Zones[z].cursor_x \in Int /\ Zones[z].cursor_y \in Int
      BY <1>3, <1>4, <1>6 DEF ZoneType
    <2>2. QED
      BY <2>1, <1>4, <1>5, <1>6, <1>7
  <1>10. CASE ~Fits(row, h)
    <2> DEFINE next == [st EXCEPT !.zones[z] = row]
    <2>1. Offer(st, p, z) = next
      BY <1>10 DEF Offer, row, old, w, h
    <2>2. next \in PlanType /\ next.plan = st.plan /\ next.zones[z] = row /\ \A y \in ZoneName \ {z} : next.zones[y] = st.zones[y]
      BY <1>2, <1>6 DEF PlanType
    <2> HIDE DEF next
    <2>3. ASSUME NEW y \in ZoneName PROVE RoomIn(next, y)
      <3>1. CASE y = z
        <4>1. ASSUME NEW i \in 1 .. Len(st.plan), st.plan[i].by = z
              PROVE  Before(st.plan[i].box, row) /\ InZone(st.plan[i].box, Zones[z])
          <5>1. st.plan[i].box \in Box
            BY <1>b
          <5>2. Before(st.plan[i].box, old) /\ InZone(st.plan[i].box, Zones[z])
            BY <4>1, <1>3 DEF RoomIn, old
          <5>3. QED
            BY <5>1, <5>2, <1>6
        <4>2. QED
          BY <4>1, <3>1, <2>2, <1>5, <1>6, <1>9 DEF RoomIn
      <3>2. CASE y # z
        BY <3>2, <2>2, <1>3 DEF RoomIn
      <3>3. QED
        BY <3>1, <3>2
    <2>4. QED
      BY <2>1, <2>2, <2>3 DEF PlanState, Grown
  <1>11. CASE Fits(row, h)
    <2> DEFINE moved == Advanced(row, w, h)
               next == [zones |-> [st.zones EXCEPT ![z] = moved], plan |-> Append(st.plan, e)]
    <2>1. Offer(st, p, z) = next
      BY <1>11 DEF Offer, row, old, w, h
    <2>2. /\ moved \in ZoneType
          /\ moved.x_min = row.x_min /\ moved.x_max = row.x_max /\ moved.y_max = row.y_max
          /\ moved.cursor_x = row.cursor_x + w + margin /\ moved.cursor_y = row.cursor_y
          /\ box \in Box /\ Before(box, moved)
          /\ \A b \in Box : Before(b, row) => Before(b, moved)
      BY <1>1, <1>6, AdvanceKeeps, CursorDown
    <2>3. InZone(box, Zones[z])
      <3>1. box.x = row.cursor_x /\ box.y = row.cursor_y /\ box.w = w /\ box.h = h
        BY DEF BoxAt
      <3>2. row.cursor_y + h + margin <= row.y_max
        BY <1>11 DEF Fits
      <3>3. QED
        BY <3>1, <3>2, <1>5, <1>6, <1>8, <1>9 DEF InZone
    <2>4. e \in PlacedPart /\ e.ref = p.ref /\ e.sheet = p.sheet /\ e.box = box /\ e.by = z
      BY <2>2 DEF Put, Part, PlacedPart
    <2> HIDE DEF moved, e, box
    <2>5. next \in PlanType /\ next.plan = Append(st.plan, e) /\ next.zones[z] = moved /\ \A y \in ZoneName \ {z} : next.zones[y] = st.zones[y]
      BY <1>2, <2>2, <2>4, AppendProperties DEF PlanType
    <2> HIDE DEF next
    <2>6. /\ Len(next.plan) = Len(st.plan) + 1
          /\ \A i \in 1 .. Len(st.plan) : next.plan[i] = st.plan[i]
          /\ next.plan[Len(st.plan) + 1] = e
      BY <1>2, <2>4, <2>5, AppendProperties
    <2>7. ASSUME NEW i \in 1 .. Len(st.plan), st.plan[i].by = z
          PROVE  st.plan[i].box \in Box /\ Before(st.plan[i].box, row) /\ InZone(st.plan[i].box, Zones[z])
      <3>1. st.plan[i].box \in Box
        BY <1>b
      <3>2. Before(st.plan[i].box, old) /\ InZone(st.plan[i].box, Zones[z])
        BY <2>7, <1>3 DEF RoomIn, old
      <3>3. QED
        BY <3>1, <3>2, <1>6
    <2>8. ASSUME NEW y \in ZoneName PROVE RoomIn(next, y)
      <3>1. CASE y = z
        <4>1. ASSUME NEW i \in 1 .. Len(next.plan), next.plan[i].by = z
              PROVE  Before(next.plan[i].box, moved) /\ InZone(next.plan[i].box, Zones[z])
          <5>1. CASE i \in 1 .. Len(st.plan)
            BY <5>1, <4>1, <2>2, <2>6, <2>7
          <5>2. CASE i = Len(st.plan) + 1
            BY <5>2, <2>2, <2>3, <2>4, <2>6
          <5>3. QED
            BY <5>1, <5>2, <2>6, <1>2
        <4>2. /\ moved.x_min = Zones[z].x_min /\ moved.x_max = Zones[z].x_max /\ moved.y_max = Zones[z].y_max
              /\ moved.cursor_x >= Zones[z].cursor_x /\ moved.cursor_y >= Zones[z].cursor_y
          <5>1. row.cursor_x \in Int /\ Zones[z].cursor_x \in Int
            BY <1>4, <1>6 DEF ZoneType
          <5>2. QED
            BY <5>1, <1>1, <1>5, <1>6, <1>9, <2>2 DEF margin
        <4>3. QED
          BY <4>1, <4>2, <3>1, <2>5 DEF RoomIn
      <3>2. CASE y # z
        <4>1. RoomIn(st, y)
          BY <1>3
        <4>2. ASSUME NEW i \in 1 .. Len(next.plan), next.plan[i].by = y
              PROVE  i \in 1 .. Len(st.plan) /\ next.plan[i] = st.plan[i]
          BY <4>2, <3>2, <2>4, <2>6, <1>2
        <4>3. next.zones[y] = st.zones[y]
          BY <3>2, <2>5
        <4>4. QED
          BY <4>1, <4>2, <4>3 DEF RoomIn
      <3>3. QED
        BY <3>1, <3>2
    <2>9. ZonesApart(next.plan)
      <3>1. ZonesApart(st.plan)
        BY DEF PlanState
      <3>2. ASSUME NEW i \in 1 .. Len(next.plan), NEW j \in 1 .. i - 1,
                   next.plan[i].by = next.plan[j].by, next.plan[i].by \in ZoneName
            PROVE  Apart(next.plan[j].box, next.plan[i].box)
        <4>1. j \in 1 .. Len(st.plan) /\ next.plan[j] = st.plan[j]
          BY <2>6, <1>2
        <4>2. CASE i \in 1 .. Len(st.plan)
          BY <4>1, <4>2, <3>1, <3>2, <2>6 DEF ZonesApart
        <4>3. CASE i = Len(st.plan) + 1
          <5>1. st.plan[j].by = z /\ next.plan[i].box = box
            BY <4>1, <4>3, <3>2, <2>4, <2>6
          <5>2. st.plan[j].box \in Box /\ Before(st.plan[j].box, row)
            BY <4>1, <5>1, <2>7
          <5>3. Apart(st.plan[j].box, box)
            BY <5>2, <1>1, <1>6, BeforeApart DEF box
          <5>4. QED
            BY <5>1, <5>3, <4>1
        <4>4. QED
          BY <4>2, <4>3, <2>6, <1>2
      <3>3. QED
        BY <3>2 DEF ZonesApart
    <2>10. Grown(st.plan, next.plan, p)
      BY <2>4, <2>5 DEF Grown
    <2>11. QED
      BY <2>1, <2>5, <2>8, <2>9, <2>10 DEF PlanState
  <1>12. QED
    BY <1>10, <1>11

\* A written position is a pair of numbers.
LEMMA SpotsType == ASSUME NEW p \in Part, NEW t \in SpotsOf(p) PROVE t[1] \in Int /\ t[2] \in Int
  <1>1. p.ref[2] \in Nat
    BY DEF Part
  <1>2. \A q \in Positions : q[4] \in Int /\ q[5] \in Int
    BY DEF Positions
  <1>3. QED
    BY <1>1, <1>2 DEF SpotsOf

\* A part at a position of its own.
LEMMA CentredType ==
  ASSUME NEW p \in Part, NEW x \in Int, NEW y \in Int, NEW by \in {"fixed", "last"}
  PROVE  LET e == Put(p, Centred(p, x, y), by)
         IN  e \in PlacedPart /\ e.ref = p.ref /\ e.sheet = p.sheet /\ e.by = by
  <1> DEFINE s == estimate_footprint_size(p.fp)
             e == Put(p, Centred(p, x, y), by)
  <1>1. s[1] \in Nat /\ s[2] \in Nat
    BY Sizes
  <1>2. Centred(p, x, y) \in Box
    <2> HIDE DEF s
    <2>1. s[1] \div 2 \in Int /\ s[2] \div 2 \in Int
      BY <1>1
    <2>2. Centred(p, x, y) = [x |-> x * mm - s[1] \div 2, y |-> y * mm - s[2] \div 2, w |-> s[1], h |-> s[2]]
      BY DEF Centred, s
    <2>3. QED
      BY <1>1, <2>1, <2>2 DEF Box, mm
  <1>3. QED
    BY <1>2 DEF Put, Part, PlacedPart

\* "fixed" and "last" are no zones.
LEMMA NoZones == "fixed" \notin ZoneName /\ "last" \notin ZoneName
  BY DEF ZoneName

\* The zones for a sheet's parts.
LEMMA ZonesForType ==
  \A s \in Sheet : /\ ZonesFor(s)[1] \in ZoneName
                   /\ Len(ZonesFor(s)) = 2 => ZonesFor(s)[2] \in ZoneName
  <1>1. Len(SCHEMATIC_FILES) = 7
    BY DEF SCHEMATIC_FILES
  <1>2. Sheet = {"power", "zynq", "ddr3l", "ad9361", "rf-frontend", "peripherals", "connectors"}
    BY <1>1 DEF Sheet, ToSet, SCHEMATIC_FILES
  <1>3. QED
    BY <1>2 DEF ZonesFor, ZoneName

\* Planning a part adds it, or leaves it over.
LEMMA Plan1Keeps ==
  ASSUME NEW st \in PlanState, NEW p \in Part
  PROVE  Plan1(st, p) \in PlanState /\ Grown(st.plan, Plan1(st, p).plan, p)
  <1> DEFINE zs == ZonesFor(p.sheet)
             first == Offer(st, p, zs[1])
  <1>1. zs[1] \in ZoneName /\ (Len(zs) = 2 => zs[2] \in ZoneName)
    BY ZonesForType DEF Part
  <1>2. first \in PlanState /\ Grown(st.plan, first.plan, p)
    BY <1>1, OfferKeeps
  <1>3. CASE SpotsOf(p) # {}
    <2> DEFINE xy == CHOOSE t \in SpotsOf(p) : TRUE
               e == Put(p, Centred(p, xy[1], xy[2]), "fixed")
    <2>1. xy \in SpotsOf(p)
      BY <1>3
    <2> HIDE DEF xy
    <2>2. xy[1] \in Int /\ xy[2] \in Int
      BY <2>1, SpotsType
    <2>3. e \in PlacedPart /\ e.ref = p.ref /\ e.sheet = p.sheet /\ e.by = "fixed"
      BY <2>2, CentredType
    <2>4. Plan1(st, p) = [st EXCEPT !.plan = Append(@, e)]
      BY <1>3 DEF Plan1, xy
    <2> HIDE DEF e
    <2>5. Plan1(st, p).plan = Append(st.plan, e)
      BY <2>4 DEF PlanState, PlanType
    <2>6. QED
      BY <2>3, <2>4, <2>5, PutOutside, NoZones DEF Grown
  <1>4. CASE SpotsOf(p) = {} /\ Full(st, p)
    BY <1>4 DEF Plan1, Grown
  <1>5. CASE SpotsOf(p) = {} /\ ~Full(st, p)
    <2>1. Plan1(st, p) = IF first.plan = st.plan /\ Len(zs) = 2 THEN Offer(first, p, zs[2]) ELSE first
      BY <1>5 DEF Plan1
    <2> HIDE DEF zs, first
    <2>2. CASE first.plan = st.plan /\ Len(zs) = 2
      BY <2>1, <2>2, <1>1, <1>2, OfferKeeps
    <2>3. CASE ~(first.plan = st.plan /\ Len(zs) = 2)
      BY <2>1, <2>3, <1>2
    <2>4. QED
      BY <2>2, <2>3
  <1>6. QED
    BY <1>3, <1>4, <1>5

\* A part left over is always placed.
LEMMA OverflowKeeps ==
  ASSUME NEW st \in PlanState, NEW p \in Part
  PROVE  /\ Overflow(st, p) \in PlanState
         /\ \E e \in PlacedPart : e.ref = p.ref /\ e.sheet = p.sheet /\ Overflow(st, p).plan = Append(st.plan, e)
  <1> DEFINE next == Offer(st, p, "overflow")
             e == Put(p, Centred(p, 5, 50), "last")
  <1>1. next \in PlanState /\ Grown(st.plan, next.plan, p)
    <2>1. "overflow" \in ZoneName
      BY DEF ZoneName
    <2>2. QED
      BY <2>1, OfferKeeps
  <1>2. e \in PlacedPart /\ e.ref = p.ref /\ e.sheet = p.sheet /\ e.by = "last"
    <2> HIDE DEF next
    <2>1. 5 \in Int /\ 50 \in Int /\ "last" \in {"fixed", "last"}
      OBVIOUS
    <2>2. QED
      BY <2>1, CentredType
  <1>3. Overflow(st, p) = IF next.plan # st.plan THEN next ELSE [next EXCEPT !.plan = Append(@, e)]
    BY DEF Overflow
  <1> HIDE DEF next, e
  <1>4. CASE next.plan # st.plan
    BY <1>1, <1>3, <1>4 DEF Grown
  <1>5. CASE next.plan = st.plan
    <2>1. Overflow(st, p) = [next EXCEPT !.plan = Append(@, e)]
      BY <1>3, <1>5
    <2>2. Overflow(st, p).plan = Append(st.plan, e)
      BY <2>1, <1>1, <1>5 DEF PlanState, PlanType
    <2>3. QED
      BY <2>1, <2>2, <1>1, <1>2, PutOutside, NoZones
  <1>6. QED
    BY <1>4, <1>5

-----------------------------------------------------------------------------
(* Designators: each part is placed once.                                   *)

\* No designator is there twice.
OnceEach(plan) == \A i, j \in 1 .. Len(plan) : plan[i].ref = plan[j].ref => i = j

\* The designators sheet s gives to the board.
KeptRefs(S, s) == IF s \in S THEN {Numbered(s)[i].ref : i \in Kept(S, s)} ELSE {}

\* Each part of the plan is one that its sheet gives.
Sourced(S, plan) == \A i \in 1 .. Len(plan) : plan[i].ref \in KeptRefs(S, plan[i].sheet)

\* Stage s finds a plan without its parts, or looks for them.
Fresh(st, S, how, s) ==
    OnceEach(st.plan) /\ (how = "plan" => RefsOf(st.plan) \intersect KeptRefs(S, s) = {})

\* One part more with a new designator.
LEMMA AppendOnce ==
  ASSUME NEW plan \in Seq(PlacedPart), NEW e \in PlacedPart
  PROVE  /\ RefsOf(Append(plan, e)) = RefsOf(plan) \union {e.ref}
         /\ OnceEach(plan) /\ e.ref \notin RefsOf(plan) => OnceEach(Append(plan, e))
         /\ \A S : Sourced(S, plan) /\ e.ref \in KeptRefs(S, e.sheet) => Sourced(S, Append(plan, e))
  <1> DEFINE next == Append(plan, e)
  <1>1. /\ Len(plan) \in Nat /\ Len(next) = Len(plan) + 1
        /\ \A i \in 1 .. Len(plan) : next[i] = plan[i]
        /\ next[Len(plan) + 1] = e
    BY AppendProperties, LenProperties
  <1> HIDE DEF next
  <1>2. RefsOf(next) = RefsOf(plan) \union {e.ref}
    <2>1. 1 .. Len(next) = (1 .. Len(plan)) \union {Len(plan) + 1}
      BY <1>1
    <2>2. QED
      BY <1>1, <2>1 DEF RefsOf
  <1>3. ASSUME OnceEach(plan), e.ref \notin RefsOf(plan) PROVE OnceEach(next)
    <2> SUFFICES ASSUME NEW i \in 1 .. Len(next), NEW j \in 1 .. Len(next), next[i].ref = next[j].ref PROVE i = j
      BY DEF OnceEach
    <2>1. \A k \in 1 .. Len(plan) : next[k].ref # e.ref
      BY <1>1, <1>3 DEF RefsOf
    <2>2. i \in 1 .. Len(plan) <=> j \in 1 .. Len(plan)
      BY <2>1, <1>1
    <2>3. QED
      BY <2>2, <1>1, <1>3 DEF OnceEach
  <1>4. ASSUME NEW S, Sourced(S, plan), e.ref \in KeptRefs(S, e.sheet) PROVE Sourced(S, next)
    <2> SUFFICES ASSUME NEW i \in 1 .. Len(next) PROVE next[i].ref \in KeptRefs(S, next[i].sheet)
      BY DEF Sourced
    <2>1. CASE i \in 1 .. Len(plan)
      BY <2>1, <1>1, <1>4 DEF Sourced
    <2>2. CASE i = Len(plan) + 1
      BY <2>2, <1>1, <1>4
    <2>3. QED
      BY <2>1, <2>2, <1>1
  <1>5. QED
    BY <1>2, <1>3, <1>4 DEF next

\* What a step does to the plan: it adds the part p or nothing, and nothing is left
\* over for good.
LEMMA NextKeeps ==
  ASSUME NEW st \in PlanState, NEW p \in Part, NEW how \in {"plan", "leftover"}
  PROVE  LET next == PlanNext(st, p, how)
         IN  /\ next \in PlanState
             /\ RefsOf(next.plan) = RefsOf(st.plan) \/ RefsOf(next.plan) = RefsOf(st.plan) \union {p.ref}
             /\ how = "leftover" => RefsOf(next.plan) = RefsOf(st.plan) \union {p.ref}
             /\ OnceEach(st.plan) /\ (how = "plan" => p.ref \notin RefsOf(st.plan)) => OnceEach(next.plan)
             /\ \A S : Sourced(S, st.plan) /\ p.ref \in KeptRefs(S, p.sheet) => Sourced(S, next.plan)
  <1>1. st.plan \in Seq(PlacedPart)
    BY DEF PlanState, PlanType
  <1>2. CASE how = "plan"
    <2>1. PlanNext(st, p, how) = Plan1(st, p)
      BY <1>2 DEF PlanNext
    <2>2. Plan1(st, p) \in PlanState /\ Grown(st.plan, Plan1(st, p).plan, p)
      BY Plan1Keeps
    <2>3. CASE Plan1(st, p).plan = st.plan
      BY <2>1, <2>2, <2>3, <1>2
    <2>4. CASE \E e \in PlacedPart : e.ref = p.ref /\ e.sheet = p.sheet /\ Plan1(st, p).plan = Append(st.plan, e)
      <3>1. PICK e \in PlacedPart : e.ref = p.ref /\ e.sheet = p.sheet /\ Plan1(st, p).plan = Append(st.plan, e)
        BY <2>4
      <3>2. /\ RefsOf(Append(st.plan, e)) = RefsOf(st.plan) \union {e.ref}
            /\ OnceEach(st.plan) /\ e.ref \notin RefsOf(st.plan) => OnceEach(Append(st.plan, e))
            /\ \A S : Sourced(S, st.plan) /\ e.ref \in KeptRefs(S, e.sheet) => Sourced(S, Append(st.plan, e))
        BY <1>1, AppendOnce
      <3>3. QED
        BY <2>1, <2>2, <3>1, <3>2, <1>2
    <2>5. QED
      BY <2>2, <2>3, <2>4 DEF Grown
  <1>3. CASE how = "leftover" /\ p.ref \in RefsOf(st.plan)
    <2>1. PlanNext(st, p, how) = st
      BY <1>3 DEF PlanNext
    <2>2. QED
      BY <2>1, <1>3
  <1>4. CASE how = "leftover" /\ p.ref \notin RefsOf(st.plan)
    <2>1. PlanNext(st, p, how) = Overflow(st, p)
      BY <1>4 DEF PlanNext
    <2>2. PICK e \in PlacedPart : e.ref = p.ref /\ e.sheet = p.sheet /\ Overflow(st, p).plan = Append(st.plan, e)
      BY OverflowKeeps
    <2>3. /\ RefsOf(Append(st.plan, e)) = RefsOf(st.plan) \union {e.ref}
          /\ OnceEach(st.plan) /\ e.ref \notin RefsOf(st.plan) => OnceEach(Append(st.plan, e))
          /\ \A S : Sourced(S, st.plan) /\ e.ref \in KeptRefs(S, e.sheet) => Sourced(S, Append(st.plan, e))
      BY <1>1, AppendOnce
    <2>4. Overflow(st, p) \in PlanState
      BY OverflowKeeps
    <2>5. QED
      BY <2>1, <2>2, <2>3, <2>4, <1>4
  <1>5. QED
    BY <1>2, <1>3, <1>4

\* The parts kept of a sheet have different designators.
LEMMA KeptOnce ==
  ASSUME NEW S \in SUBSET Sheet, NEW s \in Sheet
  PROVE  /\ Kept(S, s) \subseteq 1 .. Len(Numbered(s))
         /\ \A i, j \in Kept(S, s) : Numbered(s)[i].ref = Numbered(s)[j].ref => i = j
  <1>1. Len(Numbered(s)) \in Nat
    BY NumberedType, LenProperties
  <1>2. Kept(S, s) \subseteq 1 .. Len(Numbered(s))
    BY DEF Kept, NewParts
  <1>3. ASSUME NEW i \in Kept(S, s), NEW j \in Kept(S, s), Numbered(s)[i].ref = Numbered(s)[j].ref PROVE i = j
    <2>1. ~(i \in 1 .. j - 1) /\ ~(j \in 1 .. i - 1)
      BY <1>3 DEF Kept, NewParts
    <2>2. i \in 1 .. Len(Numbered(s)) /\ j \in 1 .. Len(Numbered(s))
      BY <1>2
    <2>3. QED
      BY <1>1, <2>1, <2>2
  <1>4. QED
    BY <1>2, <1>3

\* A stage goes through the parts kept of a sheet: planning adds some of them, and
\* the second time round there is none left over.
LEMMA StageKeeps ==
  ASSUME NEW start \in PlanState, NEW S \in SUBSET Sheet, NEW s \in Sheet, NEW how \in {"plan", "leftover"}
  PROVE  LET next == PlanStage(start, S, how, s)
         IN  /\ next \in PlanState
             /\ Fresh(start, S, how, s) => OnceEach(next.plan)
             /\ Sourced(S, start.plan) => Sourced(S, next.plan)
             /\ RefsOf(start.plan) \subseteq RefsOf(next.plan)
             /\ RefsOf(next.plan) \subseteq RefsOf(start.plan) \union KeptRefs(S, s)
             /\ how = "leftover" => KeptRefs(S, s) \subseteq RefsOf(next.plan)
  <1> DEFINE parts == Numbered(s)
             N == Len(parts)
             kept == IF s \in S THEN Kept(S, s) ELSE {}
             p(i) == [ref |-> parts[i].ref, fp |-> parts[i].fp, sheet |-> s]
             after[i \in 0 .. N] ==
                 IF i = 0 THEN start
                 ELSE IF i \notin kept THEN after[i - 1]
                 ELSE CHOOSE next \in {PlanNext(st, p(i), how) : st \in {after[i - 1]}} : TRUE
             One(i, st) == IF i \notin kept THEN st ELSE PlanNext(st, p(i), how)
             g == [i \in 1 .. N |-> [st \in PlanState |-> One(i, st)]]
  <1>1. parts \in Seq(NumberedPart) /\ N \in Nat /\ \A i \in 1 .. N : parts[i] \in NumberedPart
    BY NumberedType, LenProperties, ElementOfSeq
  <1>2. /\ kept \subseteq 1 .. N /\ KeptRefs(S, s) = {parts[i].ref : i \in kept}
        /\ \A i, j \in kept : parts[i].ref = parts[j].ref => i = j
    BY KeptOnce DEF KeptRefs
  <1>3. PlanStage(start, S, how, s) = after[N]
    BY DEF PlanStage
  <1>a. N \in Nat
    BY <1>1
  <1> HIDE DEF parts, N, kept
  <1>4. \A i \in 1 .. N : p(i) \in Part /\ p(i).ref = parts[i].ref /\ p(i).sheet = s
    <2> SUFFICES ASSUME NEW i \in 1 .. N PROVE p(i) \in Part /\ p(i).ref = parts[i].ref /\ p(i).sheet = s
      OBVIOUS
    <2>1. parts[i].ref \in Prefix \X Nat /\ parts[i].fp \in Footprint
      BY <1>1 DEF NumberedPart
    <2>2. QED
      BY <2>1 DEF Part
  <1> HIDE DEF p
  <1>5. ASSUME NEW i \in 1 .. N, NEW st \in PlanState PROVE One(i, st) \in PlanState
    BY <1>4, NextKeeps
  <1>6. g \in [1 .. N -> [PlanState -> PlanState]]
    <2> HIDE DEF One
    <2>1. QED
      BY <1>5
  <1> HIDE DEF One
  <1>7. PICK f : Recursion(N, PlanState, start, g, f)
    <2> HIDE DEF g
    <2>1. QED
      BY <1>a, <1>6, PrimRec
  <1>8. \A x : (CHOOSE next \in {x} : TRUE) = x
    OBVIOUS
  <1>9. ASSUME NEW i \in 1 .. N PROVE f[i - 1] \in PlanState /\ f[i] = One(i, f[i - 1])
    <2>1. i - 1 \in 0 .. N
      BY <1>a
    <2>2. f[i - 1] \in PlanState /\ f[i] = g[i][f[i - 1]]
      BY <2>1, <1>7 DEF Recursion
    <2>3. QED
      BY <2>2
  <1> HIDE DEF g
  <1> DEFINE Then(i, st) == CHOOSE next \in {PlanNext(x, p(i), how) : x \in {st}} : TRUE
  <1>10. \A i, st : Then(i, st) = PlanNext(st, p(i), how)
    <2> SUFFICES ASSUME NEW i, NEW st PROVE Then(i, st) = PlanNext(st, p(i), how)
      OBVIOUS
    <2>1. {PlanNext(x, p(i), how) : x \in {st}} = {PlanNext(st, p(i), how)}
      OBVIOUS
    <2>2. QED
      BY <2>1, <1>8
  <1>11. after = [i \in 0 .. N |-> IF i = 0 THEN start ELSE IF i \notin kept THEN after[i - 1] ELSE Then(i, after[i - 1])]
    <2>1. ASSUME NEW i \in 0 .. N
          PROVE  f[i] = IF i = 0 THEN start ELSE IF i \notin kept THEN f[i - 1] ELSE Then(i, f[i - 1])
      <3>1. CASE i = 0
        BY <3>1, <1>7 DEF Recursion
      <3>2. CASE i # 0
        <4>1. i \in 1 .. N
          BY <3>2, <1>a
        <4> HIDE DEF Then
        <4>2. QED
          BY <4>1, <3>2, <1>9, <1>10 DEF One
      <3>3. QED
        BY <3>1, <3>2
    <2>2. f \in [0 .. N -> PlanState]
      BY <1>7 DEF Recursion
    <2>3. f = [i \in 0 .. N |-> IF i = 0 THEN start ELSE IF i \notin kept THEN f[i - 1] ELSE Then(i, f[i - 1])]
      <3> HIDE DEF Then
      <3>1. QED
        BY <2>1, <2>2
    <2>4. QED
      BY <2>3
  <1> HIDE DEF after, Then
  <1> DEFINE Done(i) == {parts[j].ref : j \in kept \intersect (1 .. i)}
             Good(i) == /\ after[i] \in PlanState
                        /\ Fresh(start, S, how, s) => OnceEach(after[i].plan)
                        /\ Sourced(S, start.plan) => Sourced(S, after[i].plan)
                        /\ RefsOf(start.plan) \subseteq RefsOf(after[i].plan)
                        /\ RefsOf(after[i].plan) \subseteq RefsOf(start.plan) \union Done(i)
                        /\ how = "leftover" => Done(i) \subseteq RefsOf(after[i].plan)
             T == {i \in 0 .. N : Good(i)}
  <1>12. 0 \in T
    <2>1. 0 \in 0 .. N /\ kept \intersect (1 .. 0) = {}
      BY <1>a
    <2>b. after[0] = start
      BY <2>1, <1>11
    <2>2. \A j \in kept \intersect (1 .. 0) : FALSE
      BY <2>1
    <2>c. Done(0) = {}
      BY <2>2
    <2> HIDE DEF Done
    <2>3. QED
      BY <2>1, <2>b, <2>c DEF Fresh
  <1>13. ASSUME NEW i \in 1 .. N, i - 1 \in T PROVE i \in T
    <2>1. i \in 0 .. N /\ Good(i - 1)
      BY <1>a, <1>13
    <2>2. after[i] = IF i \notin kept THEN after[i - 1] ELSE PlanNext(after[i - 1], p(i), how)
      <3>1. i # 0
        BY <1>a
      <3>2. after[i] = IF i \notin kept THEN after[i - 1] ELSE Then(i, after[i - 1])
        <4>1. i \in 0 .. N
          BY <2>1
        <4>2. QED
          BY <3>1, <4>1, <1>11
      <3>3. QED
        BY <3>2, <1>10
    <2>3. CASE i \notin kept
      <3>1. kept \intersect (1 .. i) = kept \intersect (1 .. i - 1)
        BY <2>3, <1>a
      <3>2. Done(i) = Done(i - 1)
        BY <3>1
      <3> HIDE DEF Done
      <3>3. QED
        BY <2>1, <2>2, <2>3, <3>2
    <2>4. CASE i \in kept
      <3>1. kept \intersect (1 .. i) = (kept \intersect (1 .. i - 1)) \union {i}
        BY <2>4, <1>a
      <3>2. Done(i) = Done(i - 1) \union {parts[i].ref}
        BY <3>1
      <3>3. parts[i].ref \notin Done(i - 1)
        BY <2>4, <1>a, <1>2
      <3>4. parts[i].ref \in KeptRefs(S, s)
        BY <2>4, <1>2
      <3>5. p(i) \in Part /\ p(i).ref = parts[i].ref /\ p(i).sheet = s
        BY <1>4
      <3> HIDE DEF Done
      <3>6. Fresh(start, S, how, s) /\ how = "plan" => p(i).ref \notin RefsOf(after[i - 1].plan)
        BY <2>1, <3>3, <3>4, <3>5 DEF Fresh
      <3> DEFINE next == PlanNext(after[i - 1], p(i), how)
      <3>7. /\ next \in PlanState
            /\ RefsOf(next.plan) = RefsOf(after[i - 1].plan) \/ RefsOf(next.plan) = RefsOf(after[i - 1].plan) \union {p(i).ref}
            /\ how = "leftover" => RefsOf(next.plan) = RefsOf(after[i - 1].plan) \union {p(i).ref}
            /\ Fresh(start, S, how, s) => OnceEach(next.plan)
            /\ Sourced(S, start.plan) => Sourced(S, next.plan)
        BY <2>1, <3>4, <3>5, <3>6, NextKeeps
      <3> HIDE DEF next
      <3>8. after[i] = next
        BY <2>2, <2>4 DEF next
      <3>9. QED
        BY <2>1, <3>2, <3>5, <3>7, <3>8
    <2>5. QED
      BY <2>3, <2>4
  <1>14. N \in T
    <2> HIDE DEF T
    <2>1. \A i \in 0 .. N : i \in T
      BY <1>a, <1>12, <1>13, Climb
    <2>2. QED
      BY <2>1, <1>a
  <1>15. Done(N) = KeptRefs(S, s)
    <2>1. kept \intersect (1 .. N) = kept
      BY <1>2
    <2>2. QED
      BY <2>1, <1>2
  <1> HIDE DEF Done
  <1>16. QED
    BY <1>3, <1>14, <1>15

\* The sheets in reading order, and what is read before one.
LEMMA ReadingOrder ==
  /\ Sheet = {SCHEMATIC_FILES[k] : k \in 1 .. 7}
  /\ \A k \in 1 .. 7 : ReadBefore(SCHEMATIC_FILES[k]) = {SCHEMATIC_FILES[i] : i \in 1 .. k - 1}
  <1>1. Len(SCHEMATIC_FILES) = 7
    BY DEF SCHEMATIC_FILES
  <1>2. Sheet = {SCHEMATIC_FILES[k] : k \in 1 .. 7}
    BY <1>1 DEF Sheet, ToSet, SCHEMATIC_FILES
  <1>3. \A i, k \in 1 .. 7 : SCHEMATIC_FILES[i] = SCHEMATIC_FILES[k] => i = k
    BY DEF SCHEMATIC_FILES
  <1>4. ASSUME NEW k \in 1 .. 7
        PROVE  ReadBefore(SCHEMATIC_FILES[k]) = {SCHEMATIC_FILES[i] : i \in 1 .. k - 1}
    <2> DEFINE at == CHOOSE i \in 1 .. 7 : SCHEMATIC_FILES[i] = SCHEMATIC_FILES[k]
    <2>1. at = k
      BY <1>3
    <2> HIDE DEF at
    <2>2. ReadBefore(SCHEMATIC_FILES[k]) = {SCHEMATIC_FILES[i] : i \in 1 .. at - 1}
      BY <1>1 DEF ReadBefore, at
    <2>3. QED
      BY <2>1, <2>2
  <1>5. QED
    BY <1>2, <1>4

\* No designator is kept from two sheets, and each one is kept from some sheet.
LEMMA KeptApart ==
  ASSUME NEW S \in SUBSET Sheet, NEW s \in Sheet, NEW t \in Sheet, s # t
  PROVE  KeptRefs(S, s) \intersect KeptRefs(S, t) = {}
  <1>1. \A x, y \in Sheet : y \in ReadBefore(x) => KeptRefs(S, x) \intersect KeptRefs(S, y) = {}
    <2> SUFFICES ASSUME NEW x \in Sheet, NEW y \in Sheet, y \in ReadBefore(x), NEW r \in KeptRefs(S, x), r \in KeptRefs(S, y)
                 PROVE  FALSE
      OBVIOUS
    <2>1. x \in S /\ y \in S
      BY DEF KeptRefs
    <2>2. PICK j \in Kept(S, y) : r = Numbered(y)[j].ref
      BY <2>1 DEF KeptRefs
    <2>3. r \in RefsOf(Numbered(y))
      BY <2>2, KeptOnce DEF RefsOf
    <2>4. PICK i \in Kept(S, x) : r = Numbered(x)[i].ref
      BY <2>1 DEF KeptRefs
    <2>5. r \notin UNION {RefsOf(Numbered(z)) : z \in S \intersect ReadBefore(x)}
      BY <2>4 DEF Kept, NewParts
    <2>6. QED
      BY <2>1, <2>3, <2>5
  <1>2. PICK i \in 1 .. 7 : s = SCHEMATIC_FILES[i]
    BY ReadingOrder
  <1>3. PICK k \in 1 .. 7 : t = SCHEMATIC_FILES[k]
    BY ReadingOrder
  <1>4. i \in 1 .. k - 1 \/ k \in 1 .. i - 1
    BY <1>2, <1>3
  <1>5. s \in ReadBefore(t) \/ t \in ReadBefore(s)
    BY <1>2, <1>3, <1>4, ReadingOrder
  <1>6. QED
    BY <1>1, <1>5

\* Every designator on a sheet is kept from some sheet, and no other.
LEMMA KeptAll ==
  ASSUME NEW S \in SUBSET Sheet
  PROVE  UNION {KeptRefs(S, s) : s \in Sheet} = UNION {RefsOf(Numbered(s)) : s \in S}
  <1>1. ASSUME NEW s \in Sheet, NEW r \in KeptRefs(S, s) PROVE r \in UNION {RefsOf(Numbered(t)) : t \in S}
    <2>1. s \in S
      BY DEF KeptRefs
    <2>2. PICK i \in Kept(S, s) : r = Numbered(s)[i].ref
      BY <2>1 DEF KeptRefs
    <2>3. r \in RefsOf(Numbered(s))
      BY <2>2, KeptOnce DEF RefsOf
    <2>4. QED
      BY <2>1, <2>3
  <1>2. ASSUME NEW s \in S, NEW r \in RefsOf(Numbered(s)) PROVE r \in UNION {KeptRefs(S, t) : t \in Sheet}
    <2> DEFINE Has == {k \in 1 .. 7 : SCHEMATIC_FILES[k] \in S /\ r \in RefsOf(Numbered(SCHEMATIC_FILES[k]))}
    <2>1. PICK k0 \in 1 .. 7 : s = SCHEMATIC_FILES[k0]
      BY ReadingOrder
    <2>2. k0 \in Has /\ Has \subseteq Nat
      BY <2>1, <1>2
    <2>3. PICK k \in Has : \A j \in Has : k <= j
      <3> HIDE DEF Has
      <3>1. QED
        BY <2>2, Least
    <2> DEFINE t == SCHEMATIC_FILES[k]
               parts == Numbered(t)
               Places == {i \in 1 .. Len(parts) : parts[i].ref = r}
    <2>4. k \in 1 .. 7 /\ t \in S /\ t \in Sheet /\ r \in RefsOf(parts)
      BY <2>3, ReadingOrder
    <2> HIDE DEF t
    <2>5. Len(parts) \in Nat
      BY <2>4, NumberedType, LenProperties
    <2>6. Places # {} /\ Places \subseteq Nat
      BY <2>4 DEF RefsOf
    <2>7. PICK i \in Places : \A j \in Places : i <= j
      <3> HIDE DEF Places
      <3>1. QED
        BY <2>6, Least
    <2>8. r \notin UNION {RefsOf(Numbered(z)) : z \in S \intersect ReadBefore(t)}
      <3> SUFFICES ASSUME NEW z \in S, z \in ReadBefore(t), r \in RefsOf(Numbered(z)) PROVE FALSE
        OBVIOUS
      <3>1. PICK j \in 1 .. k - 1 : z = SCHEMATIC_FILES[j]
        BY <2>4, ReadingOrder DEF t
      <3>2. j \in 1 .. 7 /\ ~(k <= j)
        BY <2>4, <3>1
      <3>3. j \in Has
        BY <3>1, <3>2
      <3> HIDE DEF Has
      <3>4. QED
        BY <2>3, <3>2, <3>3
    <2> HIDE DEF Has
    <2>9. i \in 1 .. Len(parts) /\ parts[i].ref = r
      BY <2>7
    <2>10. ASSUME NEW j \in 1 .. i - 1 PROVE parts[j].ref # parts[i].ref
      <3>1. j \in 1 .. Len(parts) /\ ~(i <= j)
        BY <2>5, <2>9
      <3>2. j \notin Places
        BY <2>7, <3>1
      <3>3. QED
        BY <2>9, <3>1, <3>2
    <2>11. i \in Kept(S, t)
      BY <2>8, <2>9, <2>10 DEF Kept, NewParts
    <2>12. r \in KeptRefs(S, t)
      BY <2>4, <2>9, <2>11 DEF KeptRefs
    <2>13. QED
      BY <2>4, <2>12
  <1>3. QED
    BY <1>1, <1>2

\* The stages go through every sheet twice.
LEMMA StagesOrder ==
  /\ \A k \in 1 .. 14 : Stages[k][1] = (IF k <= 7 THEN "plan" ELSE "leftover") /\ Stages[k][2] \in Sheet
  /\ \A j, k \in 1 .. 7 : Stages[j][2] = Stages[k][2] => j = k
  /\ Sheet = {Stages[k][2] : k \in 8 .. 14}
  <1>1. \A k \in 1 .. 14 : Stages[k] = IF k <= 7 THEN <<"plan", PlanOrder[k]>> ELSE <<"leftover", SCHEMATIC_FILES[k - 7]>>
    BY DEF Stages
  <1>2. Sheet = {"power", "zynq", "ddr3l", "ad9361", "rf-frontend", "peripherals", "connectors"}
    BY ReadingOrder DEF SCHEMATIC_FILES
  <1>3. \A k \in 1 .. 7 : PlanOrder[k] \in Sheet
    BY <1>2 DEF PlanOrder
  <1>4. \A j, k \in 1 .. 7 : PlanOrder[j] = PlanOrder[k] => j = k
    BY DEF PlanOrder
  <1>5. \A k \in 1 .. 7 : SCHEMATIC_FILES[k] \in Sheet /\ Stages[k + 7][2] = SCHEMATIC_FILES[k]
    BY <1>1, ReadingOrder
  <1>6. \A k \in 8 .. 14 : k - 7 \in 1 .. 7 /\ Stages[k][2] = SCHEMATIC_FILES[k - 7]
    BY <1>1
  <1>7. \A k \in 1 .. 7 : k + 7 \in 8 .. 14
    OBVIOUS
  <1>8. Sheet = {Stages[k][2] : k \in 8 .. 14}
    <2>1. ASSUME NEW s \in Sheet PROVE s \in {Stages[k][2] : k \in 8 .. 14}
      <3>1. PICK k \in 1 .. 7 : s = SCHEMATIC_FILES[k]
        BY ReadingOrder
      <3>2. QED
        BY <3>1, <1>5, <1>7
    <2>2. QED
      BY <2>1, <1>5, <1>6
  <1>9. ASSUME NEW k \in 1 .. 14
        PROVE  Stages[k][1] = (IF k <= 7 THEN "plan" ELSE "leftover") /\ Stages[k][2] \in Sheet
    <2>1. CASE k <= 7
      BY <2>1, <1>1, <1>3
    <2>2. CASE ~(k <= 7)
      <3>1. k - 7 \in 1 .. 7
        BY <2>2
      <3>2. QED
        BY <2>2, <3>1, <1>1, <1>5
    <2>3. QED
      BY <2>1, <2>2
  <1>10. \A k \in 1 .. 7 : k \in 1 .. 14 /\ Stages[k][2] = PlanOrder[k]
    BY <1>1
  <1>11. QED
    BY <1>4, <1>8, <1>9, <1>10

\* A board without the left-over parts has some parts of the sheets planned; with
\* them it has all, once each, and the parts in a zone are apart.
LEMMA PlacedKeeps ==
  ASSUME NEW S \in SUBSET Sheet
  PROVE  \E st \in PlanState :
            /\ Placed(S) = st.plan /\ OnceEach(st.plan) /\ Sourced(S, st.plan)
            /\ RefsOf(st.plan) = UNION {KeptRefs(S, s) : s \in Sheet}
  <1> DEFINE how(k) == Stages[k][1]
             s(k) == Stages[k][2]
             after[k \in 0 .. 14] ==
                 IF k = 0 THEN EmptyPlan
                 ELSE CHOOSE next \in {PlanStage(st, S, Stages[k][1], Stages[k][2]) : st \in {after[k - 1]}} : TRUE
             g == [k \in 1 .. 14 |-> [st \in PlanState |-> PlanStage(st, S, how(k), s(k))]]
             Then(k, st) == CHOOSE next \in {PlanStage(x, S, Stages[k][1], Stages[k][2]) : x \in {st}} : TRUE
  <1>1. Placed(S) = after[14].plan
    BY DEF Placed
  <1>2. \A k \in 1 .. 14 : s(k) \in Sheet /\ how(k) \in {"plan", "leftover"} /\ how(k) = (IF k <= 7 THEN "plan" ELSE "leftover")
    BY StagesOrder
  <1>3. \A k, st : Then(k, st) = PlanStage(st, S, how(k), s(k))
    <2> SUFFICES ASSUME NEW k, NEW st PROVE Then(k, st) = PlanStage(st, S, how(k), s(k))
      OBVIOUS
    <2>1. {PlanStage(x, S, Stages[k][1], Stages[k][2]) : x \in {st}} = {PlanStage(st, S, how(k), s(k))}
      OBVIOUS
    <2>2. \A x : (CHOOSE next \in {x} : TRUE) = x
      OBVIOUS
    <2>3. QED
      BY <2>1, <2>2
  <1> HIDE DEF how, s
  <1>4. g \in [1 .. 14 -> [PlanState -> PlanState]]
    <2>1. ASSUME NEW k \in 1 .. 14, NEW st \in PlanState PROVE PlanStage(st, S, how(k), s(k)) \in PlanState
      BY <1>2, StageKeeps
    <2>2. QED
      BY <2>1
  <1>5. PICK f : Recursion(14, PlanState, EmptyPlan, g, f)
    <2> HIDE DEF g
    <2>1. QED
      BY <1>4, EmptyPlanState, PrimRec
  <1>6. ASSUME NEW k \in 1 .. 14 PROVE f[k] = PlanStage(f[k - 1], S, how(k), s(k))
    <2>1. k - 1 \in 0 .. 14
      OBVIOUS
    <2>2. f[k - 1] \in PlanState /\ f[k] = g[k][f[k - 1]]
      BY <2>1, <1>5 DEF Recursion
    <2>3. QED
      BY <2>2
  <1> HIDE DEF g
  <1>7. after = [k \in 0 .. 14 |-> IF k = 0 THEN EmptyPlan ELSE Then(k, after[k - 1])]
    <2>1. ASSUME NEW k \in 0 .. 14 PROVE f[k] = IF k = 0 THEN EmptyPlan ELSE Then(k, f[k - 1])
      <3>1. CASE k = 0
        BY <3>1, <1>5 DEF Recursion
      <3>2. CASE k # 0
        <4>1. k \in 1 .. 14
          BY <3>2
        <4> HIDE DEF Then
        <4>2. QED
          BY <4>1, <3>2, <1>3, <1>6
      <3>3. QED
        BY <3>1, <3>2
    <2>2. f \in [0 .. 14 -> PlanState]
      BY <1>5 DEF Recursion
    <2>3. f = [k \in 0 .. 14 |-> IF k = 0 THEN EmptyPlan ELSE Then(k, f[k - 1])]
      <3> HIDE DEF Then
      <3>1. QED
        BY <2>1, <2>2
    <2>4. QED
      BY <2>3
  <1> HIDE DEF after, Then
  <1> DEFINE All == UNION {KeptRefs(S, x) : x \in Sheet}
             Planned(k) == UNION {KeptRefs(S, s(j)) : j \in 1 .. k}
             Found(k) == UNION {KeptRefs(S, s(j)) : j \in 8 .. k}
             Good(k) == /\ after[k] \in PlanState /\ OnceEach(after[k].plan) /\ Sourced(S, after[k].plan)
                        /\ RefsOf(after[k].plan) \subseteq All
                        /\ k <= 7 => RefsOf(after[k].plan) \subseteq Planned(k)
                        /\ Found(k) \subseteq RefsOf(after[k].plan)
             T == {k \in 0 .. 14 : Good(k)}
  <1>8. 0 \in T
    <2>1. after[0] = EmptyPlan
      BY <1>7
    <2>2. EmptyPlan.plan = <<>> /\ RefsOf(<<>>) = {} /\ OnceEach(<<>>) /\ Sourced(S, <<>>)
      BY DEF EmptyPlan, RefsOf, OnceEach, Sourced
    <2>3. \A j \in 8 .. 0 : FALSE
      OBVIOUS
    <2>4. Found(0) = {}
      BY <2>3
    <2> HIDE DEF Found
    <2>5. QED
      BY <2>1, <2>2, <2>4, EmptyPlanState
  <1>9. ASSUME NEW k \in 1 .. 14, k - 1 \in T PROVE k \in T
    <2>1. k \in 0 .. 14 /\ Good(k - 1) /\ k - 1 \in Int
      BY <1>9
    <2>2. after[k] = PlanStage(after[k - 1], S, how(k), s(k))
      BY <2>1, <1>3, <1>7
    <2>3. s(k) \in Sheet /\ how(k) \in {"plan", "leftover"} /\ how(k) = (IF k <= 7 THEN "plan" ELSE "leftover")
      BY <1>2
    <2>4. KeptRefs(S, s(k)) \subseteq All
      BY <2>3
    <2>5. k <= 7 => RefsOf(after[k - 1].plan) \intersect KeptRefs(S, s(k)) = {}
      <3> SUFFICES ASSUME k <= 7, NEW r \in RefsOf(after[k - 1].plan) PROVE r \notin KeptRefs(S, s(k))
        OBVIOUS
      <3>1. k - 1 <= 7 /\ k \in 1 .. 7
        OBVIOUS
      <3>2. r \in Planned(k - 1)
        BY <2>1, <3>1
      <3>3. PICK j \in 1 .. k - 1 : r \in KeptRefs(S, s(j))
        BY <3>2
      <3>4. j \in 1 .. 7 /\ j \in 1 .. 14 /\ j # k
        BY <3>1, <3>3
      <3>5. s(j) # s(k) /\ s(j) \in Sheet
        BY <3>1, <3>4, <1>2, StagesOrder DEF s
      <3>6. KeptRefs(S, s(j)) \intersect KeptRefs(S, s(k)) = {}
        BY <3>5, <2>3, KeptApart
      <3>7. QED
        BY <3>3, <3>6
    <2>6. Fresh(after[k - 1], S, how(k), s(k))
      BY <2>1, <2>3, <2>5 DEF Fresh
    <2>7. /\ after[k] \in PlanState /\ OnceEach(after[k].plan) /\ Sourced(S, after[k].plan)
          /\ RefsOf(after[k - 1].plan) \subseteq RefsOf(after[k].plan)
          /\ RefsOf(after[k].plan) \subseteq RefsOf(after[k - 1].plan) \union KeptRefs(S, s(k))
          /\ how(k) = "leftover" => KeptRefs(S, s(k)) \subseteq RefsOf(after[k].plan)
      BY <2>1, <2>2, <2>3, <2>6, StageKeeps
    <2>8. Planned(k - 1) \union KeptRefs(S, s(k)) \subseteq Planned(k)
      <3>1. 1 .. k - 1 \subseteq 1 .. k /\ k \in 1 .. k
        OBVIOUS
      <3>2. QED
        BY <3>1
    <2>9. Found(k) \subseteq Found(k - 1) \union (IF k <= 7 THEN {} ELSE KeptRefs(S, s(k)))
      <3>1. \A j \in 8 .. k : j \in 8 .. k - 1 \/ (j = k /\ ~(k <= 7))
        OBVIOUS
      <3>2. QED
        BY <3>1
    <2> HIDE DEF All, Planned, Found
    <2>10. k <= 7 => k - 1 <= 7
      OBVIOUS
    <2>11. QED
      BY <2>1, <2>3, <2>4, <2>7, <2>8, <2>9, <2>10
  <1>10. Good(14)
    <2> HIDE DEF T
    <2>1. \A k \in 0 .. 14 : k \in T
      BY <1>8, <1>9, Climb
    <2>2. 14 \in T
      BY <2>1
    <2>3. QED
      BY <2>2 DEF T
  <1>11. All \subseteq Found(14)
    <2>1. \A x \in Sheet : \E j \in 8 .. 14 : x = s(j)
      BY StagesOrder DEF s
    <2>2. QED
      BY <2>1
  <1> HIDE DEF Found, Planned
  <1>12. QED
    BY <1>1, <1>10, <1>11

\* A list without repetitions is as long as the set of its designators.
LEMMA OnceCount ==
  ASSUME NEW plan \in Seq(PlacedPart), OnceEach(plan)
  PROVE  Cardinality(RefsOf(plan)) = Len(plan)
  <1> DEFINE N == Len(plan)
             T == RefsOf(plan)
             f == [i \in 1 .. N |-> plan[i].ref]
  <1>1. N \in Nat
    BY LenProperties
  <1> HIDE DEF N
  <1>2. f \in [1 .. N -> T]
    BY DEF RefsOf, N
  <1>3. \A i, j \in 1 .. N : f[i] = f[j] => i = j
    BY DEF OnceEach, N
  <1>4. \A r \in T : \E i \in 1 .. N : f[i] = r
    BY DEF RefsOf, N
  <1>5. f \in Bijection(1 .. N, T)
    <2>1. DOMAIN f = 1 .. N
      OBVIOUS
    <2> HIDE DEF f, T
    <2>2. QED
      BY <1>2, <1>3, <1>4, <2>1 DEF Bijection, Injection, Surjection, IsInjective
  <1>6. ExistsBijection(1 .. N, T)
    BY <1>5 DEF ExistsBijection
  <1>7. QED
    BY <1>1, <1>6, FS_CountingElements DEF N

\* A part kept of a sheet is on no sheet read before.
LEMMA KeptFirst ==
  ASSUME NEW S \in SUBSET Sheet, NEW s \in Sheet, NEW r \in KeptRefs(S, s)
  PROVE  /\ s \in S /\ r \in RefsOf(Numbered(s))
         /\ \A t \in S \intersect ReadBefore(s) : r \notin RefsOf(Numbered(t))
  <1>1. s \in S
    BY DEF KeptRefs
  <1>2. PICK i \in Kept(S, s) : r = Numbered(s)[i].ref
    BY <1>1 DEF KeptRefs
  <1>3. r \in RefsOf(Numbered(s))
    BY <1>2, KeptOnce DEF RefsOf
  <1>4. r \notin UNION {RefsOf(Numbered(t)) : t \in S \intersect ReadBefore(s)}
    BY <1>2 DEF Kept, NewParts
  <1>5. QED
    BY <1>1, <1>3, <1>4

\* Placement puts every designator of the sheets it finds on the board, once, with
\* the part of the sheet read first.
LEMMA PlacedAsRead == \A S \in SUBSET Sheet : AsRead(Placed(S), S)
  <1> SUFFICES ASSUME NEW S \in SUBSET Sheet PROVE AsRead(Placed(S), S)
    OBVIOUS
  <1>1. PICK st \in PlanState : /\ Placed(S) = st.plan /\ OnceEach(st.plan) /\ Sourced(S, st.plan)
                                /\ RefsOf(st.plan) = UNION {KeptRefs(S, s) : s \in Sheet}
    BY PlacedKeeps
  <1>2. st.plan \in Seq(PlacedPart)
    BY DEF PlanState, PlanType
  <1>3. ToSet(st.plan) = {st.plan[i] : i \in 1 .. Len(st.plan)}
    <2>1. DOMAIN st.plan = 1 .. Len(st.plan)
      BY <1>2, LenProperties
    <2>2. QED
      BY <2>1 DEF ToSet
  <1> DEFINE refs == [s \in S |-> RefsOf(Numbered(s))]
             drawn == UNION {refs[s] : s \in S}
  <1>4. drawn = RefsOf(st.plan)
    <2>1. drawn = UNION {RefsOf(Numbered(s)) : s \in S}
      OBVIOUS
    <2>2. QED
      BY <2>1, <1>1, KeptAll
  <1>5. {p.ref : p \in ToSet(st.plan)} = drawn
    BY <1>3, <1>4 DEF RefsOf
  <1>6. Len(st.plan) = Cardinality(drawn)
    BY <1>1, <1>2, <1>4, OnceCount
  <1>7. ASSUME NEW p \in ToSet(st.plan)
        PROVE  /\ p.sheet \in S /\ p.ref \in refs[p.sheet]
               /\ \A t \in S \intersect ReadBefore(p.sheet) : p.ref \notin refs[t]
    <2>1. PICK i \in 1 .. Len(st.plan) : p = st.plan[i]
      BY <1>3
    <2>2. p \in PlacedPart
      BY <1>2, <2>1, ElementOfSeq
    <2>3. p.sheet \in Sheet
      BY <2>2 DEF PlacedPart
    <2>4. p.ref \in KeptRefs(S, p.sheet)
      BY <2>1, <1>1 DEF Sourced
    <2>5. QED
      BY <2>3, <2>4, KeptFirst
  <1> HIDE DEF drawn
  <1>8. QED
    BY <1>1, <1>5, <1>6, <1>7 DEF AsRead, drawn

\* gen_pcb_placement.py:812: whichever sheets exist and in whatever order the scripts
\* run, the board has each designator of the sheets placement found once, and its
\* part is of the sheet read first: parts of later sheets with that name are lost.
THEOREM PartsPlaced == PcbSpec => []EarlierSheetWins
  <1>1. \A S \in Inputs : S \in InputsAsRead
    BY PlacedAsRead, InputsGrow DEF InputsAsRead, Layouts
  <1>2. PcbInv => EarlierSheetWins
    BY <1>1 DEF PcbInv, EarlierSheetWins
  <1>3. QED
    BY <1>2, PcbAlways, PTL

\* What is within a zone is on the board.
LEMMA ZonesOnBoard ==
  ASSUME NEW z \in ZoneName, NEW b \in Box, InZone(b, Zones[z])
  PROVE  OnBoard(b)
  <1> DEFINE Corners(a, c, d, e) == Zone(a * mm, c * mm, d * mm, e * mm)
  <1>1. Zones[z] \in {Corners(2, 2, 58, 38), Corners(62, 2, 98, 30), Corners(42, 34, 98, 78), Corners(102, 27, 138, 53), Corners(2, 62, 58, 98),
                      Corners(102, 62, 158, 98), Corners(102, 62, 158, 68), Corners(2, 42, 40, 60)}
    BY DEF Zones, ZoneName, Zone, mm
  <1>2. /\ InZone(b, Corners(2, 2, 58, 38)) => OnBoard(b)
        /\ InZone(b, Corners(62, 2, 98, 30)) => OnBoard(b)
        /\ InZone(b, Corners(42, 34, 98, 78)) => OnBoard(b)
        /\ InZone(b, Corners(102, 27, 138, 53)) => OnBoard(b)
        /\ InZone(b, Corners(2, 62, 58, 98)) => OnBoard(b)
        /\ InZone(b, Corners(102, 62, 158, 98)) => OnBoard(b)
        /\ InZone(b, Corners(102, 62, 158, 68)) => OnBoard(b)
        /\ InZone(b, Corners(2, 42, 40, 60)) => OnBoard(b)
    BY DEF InZone, OnBoard, Zone, Box, mm, margin
  <1> HIDE DEF Corners
  <1>3. QED
    BY <1>1, <1>2

\* The parts that build_placement_plan() and main() found room for in one zone are
\* within the zone, on the board, and apart, on whatever sheets placement ran.
THEOREM PartsInZones ==
  \A S \in SUBSET Sheet : \A i \in 1 .. Len(Placed(S)) :
     LET p == Placed(S)[i]
     IN  p.by \in ZoneName =>
            /\ InZone(p.box, Zones[p.by]) /\ OnBoard(p.box)
            /\ \A j \in 1 .. i - 1 : Placed(S)[j].by = p.by => Apart(Placed(S)[j].box, p.box)
  <1> SUFFICES ASSUME NEW S \in SUBSET Sheet, NEW i \in 1 .. Len(Placed(S)), Placed(S)[i].by \in ZoneName
               PROVE  /\ InZone(Placed(S)[i].box, Zones[Placed(S)[i].by]) /\ OnBoard(Placed(S)[i].box)
                      /\ \A j \in 1 .. i - 1 : Placed(S)[j].by = Placed(S)[i].by => Apart(Placed(S)[j].box, Placed(S)[i].box)
    OBVIOUS
  <1>1. PICK st \in PlanState : Placed(S) = st.plan
    BY PlacedKeeps
  <1>2. RoomIn(st, st.plan[i].by) /\ ZonesApart(st.plan)
    BY <1>1 DEF PlanState
  <1>3. st.plan[i].box \in Box
    <2>1. st.plan \in Seq(PlacedPart)
      BY DEF PlanState, PlanType
    <2>2. st.plan[i] \in PlacedPart
      BY <1>1, <2>1, ElementOfSeq
    <2>3. QED
      BY <2>2 DEF PlacedPart
  <1>4. InZone(st.plan[i].box, Zones[st.plan[i].by])
    BY <1>1, <1>2 DEF RoomIn
  <1>5. OnBoard(st.plan[i].box)
    BY <1>1, <1>3, <1>4, ZonesOnBoard
  <1>6. QED
    BY <1>1, <1>2, <1>4, <1>5 DEF ZonesApart
=============================================================================
