---------------------------- MODULE EmconProofs -----------------------------
(***************************************************************************)
(* What EmconManager and the FPGA latch guarantee when one operator thread *)
(* races any number of threads that force silence: the silence holds, down *)
(* to the transmit switch of the MAC, the level in force is never looser   *)
(* than the reported one, and the lock implements EmconPolicy.  (The rule  *)
(* of EmconManager.h line 14 does not hold: run emcon_unlock shows how.)   *)
(***************************************************************************)
EXTENDS TdmaMac, TLAPS

\* The tx_power values are the three that apply_level() writes.
LEMMA PowerType == \A l \in Levels : PowerOf(l) \in {PowerOf(k) : k \in Levels}
  OBVIOUS

\* Types are preserved whatever the number of threads, given that a call past
\* its check asks for a valid level.
ValidInFlight ==
    \A t \in Thread : pc[t] \in {"unlock", "level", "ctrl", "power"} => arg[t].level \in Levels

TypeInv == TypeOK /\ ValidInFlight

\* The constructor's state is well typed.
LEMMA InitTypeInv == Init => TypeInv
  <1> SUFFICES ASSUME Init PROVE TypeInv
    OBVIOUS
  <1>1. 2 \in Levels /\ 2 \in Requests
    BY DEF Levels, Requests
  <1>2. tx_power \in {PowerOf(l) : l \in Levels}
    BY <1>1, PowerType DEF Init
  <1>3. pc \in [Thread -> {"idle", "set", "unlock", "level", "ctrl", "power"}]
    BY DEF Init
  <1>4. [level |-> 2, unlock |-> FALSE, forced |-> FALSE] \in Call
    BY <1>1 DEF Call
  <1>5. arg \in [Thread -> Call]
    BY <1>4 DEF Init
  <1>6. ValidInFlight
    BY DEF Init, ValidInFlight
  <1>7. QED
    BY <1>1, <1>2, <1>3, <1>5, <1>6 DEF Init, TypeInv, TypeOK

\* Every access of every thread keeps the types.
LEMMA StepTypeInv == TypeInv /\ [Next]_vars => TypeInv'
  <1> SUFFICES ASSUME TypeInv, [Next]_vars PROVE TypeInv'
    OBVIOUS
  <1> USE DEF TypeInv, TypeOK, ValidInFlight, Goto, hw
  <1>1. ASSUME NEW t \in Setter, NEW l \in Requests, NEW u \in BOOLEAN, set_level(t, l, u)
        PROVE  TypeInv'
    BY <1>1 DEF set_level, Call, Thread
  <1>2. ASSUME NEW t \in Setter, NEW l \in Levels, handle_emcon(t, l)
        PROVE  TypeInv'
    <2>1. l \in Requests
      BY DEF Levels, Requests
    <2>2. (l > level) \in BOOLEAN
      OBVIOUS
    <2>3. set_level(t, l, l > level)
      BY <1>2 DEF handle_emcon
    <2> HIDE DEF TypeInv
    <2>4. QED
      BY ONLY <1>1, <2>1, <2>2, <2>3, t \in Setter
  <1>3. ASSUME NEW t \in Forcer, force_emcon0(t)
        PROVE  TypeInv'
    BY <1>3 DEF force_emcon0, Call, Thread, Levels, Requests
  <1>4. ASSUME NEW t \in Thread, Step(t)
        PROVE  TypeInv'
    <2>1. CASE Check(t)
      BY <2>1 DEF Check, Path
    <2>2. CASE write_emcon_unlock(t)
      BY <2>2 DEF write_emcon_unlock
    <2>3. CASE StoreLevel(t)
      BY <2>3 DEF StoreLevel
    <2>4. CASE set_emcon_ctrl(t)
      <3>1. arg[t].level \in Levels /\ arg[t].unlock \in BOOLEAN /\ arg[t].forced \in BOOLEAN
        BY <2>4 DEF set_emcon_ctrl, Call
      <3>2. emcon_level_q' \in Levels
        BY <3>1, <2>4 DEF set_emcon_ctrl, Latch
      <3>3. lock_q' \in BOOLEAN
        BY <2>4 DEF set_emcon_ctrl
      <3>4. quiet' \in BOOLEAN
        BY <3>1, <2>4 DEF set_emcon_ctrl
      <3>5. ValidInFlight'
        BY <2>4 DEF set_emcon_ctrl
      <3>6. pc' \in [Thread -> {"idle", "set", "unlock", "level", "ctrl", "power"}]
        BY <2>4 DEF set_emcon_ctrl
      <3>7. QED
        BY <3>2, <3>3, <3>4, <3>5, <3>6, <2>4 DEF set_emcon_ctrl
    <2>5. CASE set_tx_power(t)
      BY <2>5, PowerType DEF set_tx_power
    <2>6. QED
      BY <1>4, <2>1, <2>2, <2>3, <2>4, <2>5 DEF Step
  <1>5. CASE UNCHANGED vars
    BY <1>5 DEF vars
  <1>6. QED
    BY <1>1, <1>2, <1>3, <1>4, <1>5 DEF Next

\* Type correctness for any set of threads: in particular an invalid level is
\* never stored in level_ or written to the FPGA.
THEOREM EmconTypeCorrect == Spec => []TypeOK
  <1>1. TypeInv => TypeOK
    BY DEF TypeInv
  <1>2. QED
    BY <1>1, InitTypeInv, StepTypeInv, PTL DEF Spec

-----------------------------------------------------------------------------
(* One operator racing threads that force silence.                          *)

OneOperator == \A s, t \in Setter : s = t

\* What is known of a call from the point it has reached.
Calls ==
    \A t \in Thread :
        /\ pc[t] \in {"set", "unlock", "level"} => t \in Setter /\ ~arg[t].forced
        /\ pc[t] = "unlock" => arg[t].unlock
        /\ pc[t] = "ctrl" => IF arg[t].forced THEN arg[t].level = 0 ELSE t \in Setter

\* The lock is still closed while the operator's call can reach the FPGA.
Locked ==
    \A t \in Setter :
        pc[t] \in {"set", "unlock", "level", "ctrl"} /\ ~arg[t].forced => lock_q
Held == quiet => emcon_level_q = 0 /\ Locked

\* TamperSilence alone is not inductive: it needs to know that the lock stays
\* closed until the operator's call is over.
SilenceInv == TypeInv /\ Calls /\ Held

\* A level in force above the reported one is about to be overwritten.
AboutToFall ==
    \/ emcon_level_q <= level
    \/ \E t \in Thread : pc[t] = "ctrl" /\ arg[t].level <= level

\* An operator's call whose store to level_ has been overwritten by silence
\* finds a silencing write still to come, or the lock closed and no token.
Overtaken ==
    \A t \in Setter :
        pc[t] = "ctrl" /\ ~arg[t].forced /\ level < arg[t].level =>
            \/ \E s \in Thread : pc[s] = "ctrl" /\ arg[s].forced
            \/ emcon_level_q = 0 /\ lock_q /\ ~unlock_pending_q

\* NeverLooser holds between calls only; this is what holds during them.
LooseInv == SilenceInv /\ AboutToFall /\ Overtaken

\* The constructor's state: no call in flight, no token, no silence recorded.
LEMMA InitSilence == Init => SilenceInv
  <1> SUFFICES ASSUME Init PROVE SilenceInv
    OBVIOUS
  <1>1. TypeInv
    BY InitTypeInv
  <1>2. Calls /\ Held
    BY DEF Init, Calls, Held
  <1>3. QED
    BY <1>1, <1>2 DEF SilenceInv

\* What a control write leaves in the latch.
LEMMA Written ==
  ASSUME SilenceInv, NEW t \in Thread, set_emcon_ctrl(t)
  PROVE  /\ pc[t] = "ctrl" /\ pc'[t] = "power" /\ arg' = arg /\ level' = level
         /\ \A s \in Thread : s # t => pc'[s] = pc[s]
         /\ level \in 0 .. 2 /\ arg[t].level \in 0 .. 2
         /\ emcon_level_q' \in 0 .. 2 /\ emcon_level_q' <= arg[t].level
         /\ ~arg[t].forced => t \in Setter
         /\ arg[t].forced => emcon_level_q' = 0 /\ lock_q' /\ arg[t].level = 0
         /\ lock_q /\ ~unlock_pending_q =>
                emcon_level_q' = arg[t].level \/ emcon_level_q' = emcon_level_q
         /\ lock_q /\ ~unlock_pending_q /\ emcon_level_q = 0 => emcon_level_q' = 0
         /\ ~unlock_pending_q'
  <1> USE DEF SilenceInv, TypeInv, TypeOK, Goto
  <1>1. /\ pc[t] = "ctrl" /\ pc'[t] = "power" /\ arg' = arg /\ level' = level
        /\ \A s \in Thread : s # t => pc'[s] = pc[s]
        /\ ~unlock_pending_q'
    BY DEF set_emcon_ctrl
  <1>2. level \in 0 .. 2 /\ emcon_level_q \in 0 .. 2 /\ arg[t].level \in 0 .. 2
    BY <1>1 DEF ValidInFlight, Levels
  <1>3. /\ ~arg[t].forced => t \in Setter
        /\ arg[t].forced => arg[t].level = 0
    BY <1>1 DEF Calls
  <1>4. emcon_level_q' = Latch(arg[t].level) /\ lock_q' = (arg[t].level < 2)
    BY DEF set_emcon_ctrl
  <1>5. emcon_level_q' \in 0 .. 2 /\ emcon_level_q' <= arg[t].level
    BY <1>2, <1>4 DEF Latch
  <1>6. ASSUME arg[t].forced PROVE emcon_level_q' = 0 /\ lock_q'
    <2>1. emcon_level_q' = 0
      BY <1>2, <1>3, <1>4, <1>6 DEF Latch
    <2>2. lock_q' = (0 < 2) /\ (0 < 2) = TRUE
      BY <1>3, <1>4, <1>6
    <2>3. QED
      BY <2>1, <2>2, Zenon
  <1>7. lock_q /\ ~unlock_pending_q =>
            emcon_level_q' = arg[t].level \/ emcon_level_q' = emcon_level_q
    BY <1>4 DEF Latch
  <1>8. lock_q /\ ~unlock_pending_q /\ emcon_level_q = 0 => emcon_level_q' = 0
    BY <1>2, <1>4 DEF Latch
  <1>9. QED
    BY <1>1, <1>2, <1>3, <1>5, <1>6, <1>7, <1>8

\* Every access of every thread keeps what is known of calls and silence.
LEMMA StepSilence == ASSUME OneOperator, SilenceInv, [Next]_vars PROVE SilenceInv'
  <1> USE DEF SilenceInv, TypeInv, TypeOK, Goto, hw, Thread
  <1>1. TypeInv'
    BY StepTypeInv
  <1>2. ASSUME NEW t \in Setter, NEW l, NEW u, set_level(t, l, u)
        PROVE  Calls' /\ Held'
    BY <1>2 DEF set_level, Calls, Held
  <1>3. ASSUME NEW t \in Forcer, force_emcon0(t)
        PROVE  Calls' /\ Held'
    <2>1. Calls'
      BY <1>3 DEF force_emcon0, Calls
    <2>2. Held'
      BY <1>3 DEF force_emcon0, Held, Locked
    <2>3. QED
      BY <2>1, <2>2
  <1>4. ASSUME NEW t \in Thread, Check(t)
        PROVE  Calls' /\ Held'
    <2>1. Calls'
      BY <1>4 DEF Check, Path, Calls
    <2>2. Held'
      BY <1>4 DEF Check, Path, Held, Locked, Calls
    <2>3. QED
      BY <2>1, <2>2
  <1>5. ASSUME NEW t \in Thread, write_emcon_unlock(t)
        PROVE  Calls' /\ Held'
    <2>1. Calls'
      BY <1>5 DEF write_emcon_unlock, Calls
    <2>2. Held'
      BY <1>5 DEF write_emcon_unlock, Held, Locked, Calls
    <2>3. QED
      BY <2>1, <2>2
  <1>6. ASSUME NEW t \in Thread, StoreLevel(t)
        PROVE  Calls' /\ Held'
    <2>1. Calls'
      BY <1>6 DEF StoreLevel, Calls
    <2>2. Held'
      BY <1>6 DEF StoreLevel, Held, Locked, Calls
    <2>3. QED
      BY <2>1, <2>2
  <1>7. ASSUME NEW t \in Thread, set_emcon_ctrl(t)
        PROVE  Calls' /\ Held'
    <2>1. Calls'
      BY <1>7 DEF set_emcon_ctrl, Calls
    <2>2. quiet' = (arg[t].forced \/ (quiet /\ ~unlock_pending_q))
      BY <1>7 DEF set_emcon_ctrl
    <2>3. CASE arg[t].forced
      BY <1>7, <2>1, <2>3, Written DEF Held, Locked
    <2>4. CASE ~arg[t].forced
      <3>1. Locked'
        BY <1>7, <2>4, Written DEF Locked, OneOperator
      <3>2. ASSUME quiet' PROVE emcon_level_q' = 0
        <4>1. emcon_level_q = 0 /\ Locked /\ ~unlock_pending_q
          BY <2>2, <2>4, <3>2 DEF Held
        <4>2. lock_q
          BY <1>7, <2>4, <4>1, Written DEF Locked
        <4>3. QED
          BY <1>7, <4>1, <4>2, Written
      <3>3. QED
        BY <2>1, <3>1, <3>2 DEF Held
    <2>5. QED
      BY <2>1, <2>3, <2>4
  <1>8. ASSUME NEW t \in Thread, set_tx_power(t)
        PROVE  Calls' /\ Held'
    <2>1. Calls'
      BY <1>8 DEF set_tx_power, Calls
    <2>2. Held'
      BY <1>8 DEF set_tx_power, Held, Locked
    <2>3. QED
      BY <2>1, <2>2
  <1>9. ASSUME UNCHANGED vars PROVE Calls' /\ Held'
    BY <1>9 DEF vars, Calls, Held, Locked
  <1>10. Calls' /\ Held'
    BY <1>2, <1>3, <1>4, <1>5, <1>6, <1>7, <1>8, <1>9 DEF Next, Step, handle_emcon
  <1>11. QED
    BY <1>1, <1>10

\* With one operator thread and any number of threads that force silence (the
\* operator's own among them), forced silence is not ended by a call that was
\* in flight, unless it writes the token afterwards, however its accesses
\* interleave with force_emcon0().
THEOREM EmconTamperSilence == ASSUME OneOperator PROVE Spec => []TamperSilence
  <1>1. SilenceInv /\ [Next]_vars => SilenceInv'
    BY StepSilence
  <1>2. SilenceInv => TamperSilence
    BY DEF SilenceInv, Held, TamperSilence
  <1>3. QED
    BY <1>1, <1>2, InitSilence, PTL DEF Spec

-----------------------------------------------------------------------------
(* Software and FPGA.                                                       *)

\* The constructor has written what it stored.
LEMMA InitLoose == Init => LooseInv
  <1> SUFFICES ASSUME Init PROVE LooseInv
    OBVIOUS
  <1>1. /\ \A t \in Setter : pc[t] # "ctrl"
        /\ emcon_level_q <= level
    BY DEF Init, Thread
  <1>2. AboutToFall /\ Overtaken
    BY <1>1, Zenon DEF AboutToFall, Overtaken
  <1>3. QED
    BY <1>2, InitSilence DEF LooseInv

\* Stores and writes of the two kinds of threads may cross; the write that comes
\* last is the silencing one, or is refused, or belongs to the last store.
LEMMA StepLoose == ASSUME OneOperator, LooseInv, [Next]_vars PROVE LooseInv'
  <1> USE DEF LooseInv, SilenceInv, TypeInv, TypeOK, Goto, hw, Thread
  <1>1. SilenceInv'
    BY StepSilence
  <1>2. ASSUME NEW t \in Setter, NEW l, NEW u, set_level(t, l, u)
        PROVE  AboutToFall' /\ Overtaken'
    <2>1. AboutToFall'
      BY <1>2 DEF set_level, AboutToFall
    <2>2. Overtaken'
      BY <1>2 DEF set_level, Overtaken
    <2>3. QED
      BY <2>1, <2>2
  <1>3. ASSUME NEW t \in Forcer, force_emcon0(t)
        PROVE  AboutToFall' /\ Overtaken'
    <2>1. pc'[t] = "ctrl" /\ arg'[t].level = 0 /\ arg'[t].forced /\ level' = 0
      BY <1>3 DEF force_emcon0
    <2>2. QED
      BY <2>1 DEF AboutToFall, Overtaken
  <1>4. ASSUME NEW t \in Thread, Check(t)
        PROVE  AboutToFall' /\ Overtaken'
    <2>1. pc[t] = "set" /\ pc'[t] \in {"idle", "unlock", "level"}
      BY <1>4 DEF Check, Path
    <2>2. AboutToFall'
      BY <1>4, <2>1 DEF Check, AboutToFall
    <2>3. Overtaken'
      BY <1>4, <2>1 DEF Check, Overtaken
    <2>4. QED
      BY <2>2, <2>3
  <1>5. ASSUME NEW t \in Thread, write_emcon_unlock(t)
        PROVE  AboutToFall' /\ Overtaken'
    <2>1. t \in Setter
      BY <1>5 DEF write_emcon_unlock, Calls
    <2>2. AboutToFall'
      BY <1>5 DEF write_emcon_unlock, AboutToFall
    <2>3. Overtaken'
      BY <1>5, <2>1 DEF write_emcon_unlock, Overtaken, OneOperator
    <2>4. QED
      BY <2>2, <2>3
  <1>6. ASSUME NEW t \in Thread, StoreLevel(t)
        PROVE  AboutToFall' /\ Overtaken'
    <2>1. t \in Setter /\ arg[t].level \in 0 .. 2
      BY <1>6 DEF StoreLevel, Calls, ValidInFlight, Levels
    <2>2. pc'[t] = "ctrl" /\ arg' = arg /\ level' = arg[t].level
      BY <1>6 DEF StoreLevel
    <2>3. AboutToFall'
      BY <2>1, <2>2 DEF AboutToFall
    <2>4. Overtaken'
      BY <2>1, <2>2 DEF Overtaken, OneOperator
    <2>5. QED
      BY <2>3, <2>4
  <1>7. ASSUME NEW t \in Thread, set_emcon_ctrl(t)
        PROVE  AboutToFall' /\ Overtaken'
    <2> DEFINE Silencing == \E s \in Thread : pc[s] = "ctrl" /\ arg[s].forced
    <2>1. CASE arg[t].level <= level
      <3>1. emcon_level_q' <= level'
        BY <1>7, <2>1, Written
      <3>2. CASE arg[t].forced
        BY <1>7, <3>1, <3>2, Written DEF AboutToFall, Overtaken
      <3>3. CASE ~arg[t].forced
        BY <1>7, <3>1, <3>3, Written DEF AboutToFall, Overtaken, OneOperator
      <3>4. QED
        BY <3>2, <3>3
    <2>2. CASE level < arg[t].level
      <3>1. ~arg[t].forced /\ t \in Setter
        BY <1>7, <2>2, Written
      <3>2. Overtaken'
        BY <1>7, <3>1, Written DEF Overtaken, OneOperator
      <3>3. Silencing \/ (emcon_level_q = 0 /\ lock_q /\ ~unlock_pending_q)
        BY <1>7, <2>2, <3>1, Written DEF Overtaken
      <3>4. CASE Silencing
        <4>1. PICK s \in Thread : pc[s] = "ctrl" /\ arg[s].forced
          BY <3>4
        <4>2. s # t /\ arg[s].level = 0
          BY <3>1, <4>1 DEF Calls
        <4>3. pc'[s] = "ctrl" /\ arg'[s].level <= level'
          BY <1>7, <4>1, <4>2, Written
        <4>4. QED
          BY <3>2, <4>3 DEF AboutToFall
      <3>5. CASE emcon_level_q = 0 /\ lock_q /\ ~unlock_pending_q
        BY <1>7, <3>2, <3>5, Written DEF AboutToFall
      <3>6. QED
        BY <3>3, <3>4, <3>5
    <2>3. QED
      BY <1>7, <2>1, <2>2, Written
  <1>8. ASSUME NEW t \in Thread, set_tx_power(t)
        PROVE  AboutToFall' /\ Overtaken'
    <2>1. AboutToFall'
      BY <1>8 DEF set_tx_power, AboutToFall
    <2>2. Overtaken'
      BY <1>8 DEF set_tx_power, Overtaken
    <2>3. QED
      BY <2>1, <2>2
  <1>9. ASSUME UNCHANGED vars PROVE AboutToFall' /\ Overtaken'
    BY <1>9 DEF vars, AboutToFall, Overtaken
  <1>10. AboutToFall' /\ Overtaken'
    BY <1>2, <1>3, <1>4, <1>5, <1>6, <1>7, <1>8, <1>9 DEF Next, Step, handle_emcon
  <1>11. QED
    BY <1>1, <1>10

\* With one operator thread and any number of threads that force silence, the
\* level in force between calls is at most the one current_level() reports,
\* in whatever order stores and register writes of the threads fall.
THEOREM EmconNeverLooser == ASSUME OneOperator PROVE Spec => []NeverLooser
  <1>1. LooseInv /\ [Next]_vars => LooseInv'
    BY StepLoose
  <1>2. LooseInv => NeverLooser
    BY DEF LooseInv, AboutToFall, NeverLooser, Quiescent
  <1>3. QED
    BY <1>1, <1>2, InitLoose, PTL DEF Spec

\* The FPGA as racing threads drive it implements EmconPolicy: every access is
\* a request, a grant, a silencing, a write that the policy permits, or a
\* stutter; refused writes, which use up a token, are among them.
THEOREM EmconRefinesPolicy == ASSUME OneOperator PROVE Spec => ImplementsPolicy
  <1> DEFINE pvars == <<emcon_level_q, unlock_pending_q, quiet>>
  <1>1. SilenceInv /\ [Next]_vars => SilenceInv'
    BY StepSilence
  <1>2. Init => Policy!Init
    BY DEF Init, Policy!Init
  <1>3. ASSUME SilenceInv, [Next]_vars PROVE [Policy!Next]_pvars
    <2>1. ASSUME NEW t, NEW l, NEW u, set_level(t, l, u) PROVE Policy!Ask
      BY <2>1 DEF set_level, hw, Policy!Ask
    <2>2. ASSUME NEW t, write_emcon_unlock(t) PROVE Policy!Grant
      BY <2>2 DEF write_emcon_unlock, Policy!Grant
    <2>3. ASSUME NEW t \in Thread, set_emcon_ctrl(t) PROVE Policy!Next
      <3>1. /\ unlock_pending_q' = FALSE
            /\ quiet' = (arg[t].forced \/ (quiet /\ ~unlock_pending_q))
        BY <2>3 DEF set_emcon_ctrl
      <3>2. CASE arg[t].forced
        <4>1. emcon_level_q' = 0 /\ quiet' = TRUE
          BY <1>3, <2>3, <3>1, <3>2, Written
        <4>2. QED
          BY <3>1, <4>1 DEF Policy!Next, Policy!Silence
      <3>3. CASE ~arg[t].forced
        <4>1. quiet' = (quiet /\ ~unlock_pending_q)
          BY <3>1, <3>3, Zenon
        <4>2. emcon_level_q' \in 0 .. 2
          BY <1>3, <1>1 DEF SilenceInv, TypeInv, TypeOK, Levels
        <4>3. ASSUME quiet /\ ~unlock_pending_q PROVE emcon_level_q' = emcon_level_q
          <5>1. emcon_level_q = 0
            BY <1>3, <4>3 DEF SilenceInv, Held
          <5>2. quiet'
            BY <4>1, <4>3
          <5>3. emcon_level_q' = 0
            BY <1>1, <1>3, <5>2 DEF SilenceInv, Held
          <5>4. QED
            BY <5>1, <5>3
        <4>4. Policy!Write(emcon_level_q')
          BY <3>1, <4>1, <4>3 DEF Policy!Write
        <4>5. QED
          BY <4>2, <4>4 DEF Policy!Next, Policy!Levels
      <3>4. QED
        BY <3>2, <3>3
    <2>4. ASSUME NEW t, force_emcon0(t) \/ Check(t) \/ StoreLevel(t) \/ set_tx_power(t)
          PROVE  UNCHANGED pvars
      BY <2>4 DEF force_emcon0, Check, StoreLevel, set_tx_power, hw
    <2>5. ASSUME UNCHANGED vars PROVE UNCHANGED pvars
      BY <2>5 DEF vars, hw
    <2>6. QED
      BY <1>3, <2>1, <2>2, <2>3, <2>4, <2>5 DEF Next, Step, handle_emcon, Policy!Next
  <1>4. QED
    BY <1>1, <1>2, <1>3, InitSilence, PTL DEF Spec, ImplementsPolicy, Policy!Spec

-----------------------------------------------------------------------------
(* The transmitter above the latch.                                         *)

\* What the MAC's clock and inputs do leaves the latch alone.
LEMMA MacStepIsNext == MacNext \/ UNCHANGED macVars => [Next]_vars
  BY DEF MacNext, macVars, Clock, NextSlot, set_slot_bitmap

\* The MAC's specification implements that of module Emcon, so that what is
\* proved of the calls holds with the clock and the slots running beside them.
THEOREM MacImplementsEmcon == MacSpec => Spec
  <1>1. MacInit => Init
    BY DEF MacInit
  <1>2. [MacNext]_macVars => [Next]_vars
    BY MacStepIsNext
  <1>3. QED
    BY <1>1, <1>2, PTL DEF MacSpec, Spec

\* After forced silence every clock edge leaves the switch at receive, for any
\* slots, bitmap and interleaving, until a call with unlock ends the silence.
THEOREM MacSilentOnAir == ASSUME OneOperator PROVE MacSpec => SilentOnAir
  <1>1. MacInit => SilenceInv
    BY InitSilence DEF MacInit
  <1>2. SilenceInv /\ [MacNext]_macVars => SilenceInv'
    BY StepSilence, MacStepIsNext
  <1>3. SilenceInv /\ [MacNext]_macVars => [Clock /\ quiet => ~txnrx_o']_macVars
    <2> SUFFICES ASSUME SilenceInv, Clock, quiet PROVE ~txnrx_o'
      OBVIOUS
    <2>1. emcon_level_q = 0
      BY DEF SilenceInv, Held
    <2>2. ~pa_enable_o
      BY <2>1 DEF pa_enable_o
    <2>3. QED
      BY <2>2 DEF Clock
  <1>4. QED
    BY <1>1, <1>2, <1>3, PTL DEF MacSpec, SilentOnAir

=============================================================================
