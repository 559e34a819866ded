------------------------------- MODULE Emcon --------------------------------
(***************************************************************************)
(* Emission control across the software/FPGA boundary.                     *)
(*                                                                         *)
(* Software: EmconManager (software/src/transec/EmconManager.cpp), driven  *)
(* by the CLI (CLIShell::handle_emcon) and, after a zeroize, by the        *)
(* security manager's hook (RadioNode.cpp line 81), which runs on the      *)
(* tamper thread.  level_ and the registers are shared with no lock, so a  *)
(* call is the sequence of its shared accesses and calls interleave.       *)
(*                                                                         *)
(* Hardware: the latch of fpga/src/tdma_mac/tdma_mac.sv, lines 36-56.  One *)
(* register write is one step.  axi_regs.sv delays the write strobe by a   *)
(* cycle and passes the bus data through undelayed, so this assumes a bus  *)
(* master that holds WDATA for one more cycle before its next write.       *)
(***************************************************************************)
EXTENDS Integers

CONSTANTS
    Setter,   \* threads that call set_level() or the CLI
    Forcer    \* threads that call force_emcon0()

VARIABLES
    level,              \* EmconManager::level_
    emcon_level_q,      \* FPGA: level in force
    lock_q,             \* FPGA: lock bit
    unlock_pending_q,   \* FPGA: a token has been written and not consumed
    tx_power,           \* REG_TX_POWER, in units of 0.01 dBm
    pc,                 \* where each thread is in its call
    arg,                \* the arguments of its call
    quiet               \* history: silence forced, and since then no call of
                        \* set_level() begun and no token used

hw == <<emcon_level_q, lock_q, unlock_pending_q>>
vars == <<level, hw, tx_power, pc, arg, quiet>>

Thread == Setter \union Forcer
Levels == 0 .. 2
Requests == -1 .. 3     \* arguments a caller may pass, invalid ones included
kNormalPowerDbmX100 == 3700

\* Power written by apply_level() for each level.
PowerOf(l) == IF l = 0 THEN 0
              ELSE IF l = 1 THEN kNormalPowerDbmX100 - 2000
              ELSE kNormalPowerDbmX100

Call == [level : Requests, unlock : BOOLEAN, forced : BOOLEAN]

\* After reset and the constructor's apply_level(2): nothing in progress.
Init ==
    /\ level = 2
    /\ emcon_level_q = 2 /\ lock_q = FALSE /\ unlock_pending_q = FALSE
    /\ tx_power = PowerOf(2)
    /\ pc = [t \in Thread |-> "idle"]
    /\ arg = [t \in Thread |-> [level |-> 2, unlock |-> FALSE, forced |-> FALSE]]
    /\ quiet = FALSE

Goto(t, from, to) == pc[t] = from /\ pc' = [pc EXCEPT ![t] = to]

-----------------------------------------------------------------------------
(* Calls.                                                                   *)

\* set_level(l, u) is called.
set_level(t, l, u) ==
    /\ Goto(t, "idle", "set")
    /\ arg' = [arg EXCEPT ![t] = [level |-> l, unlock |-> u, forced |-> FALSE]]
    /\ quiet' = FALSE
    /\ UNCHANGED <<level, hw, tx_power>>

\* CLI "emcon l", l in range: unlock is computed from current_level().
handle_emcon(t, l) == set_level(t, l, l > level)

\* force_emcon0(): no check; its first access is the store to level_.
force_emcon0(t) ==
    /\ Goto(t, "idle", "ctrl")
    /\ arg' = [arg EXCEPT ![t] = [level |-> 0, unlock |-> FALSE, forced |-> TRUE]]
    /\ level' = 0
    /\ UNCHANGED <<hw, tx_power, quiet>>

-----------------------------------------------------------------------------
(* Shared accesses of a call in progress.                                   *)

\* set_level() lines 13-17: what is refused, and what needs the token first.
\* "downgrade" is the code's word for a less restricted level.
Path(c) ==
    LET is_downgrade == c.level > level IN
    IF c.level \notin Levels \/ (is_downgrade /\ ~c.unlock) THEN "idle"
    ELSE IF is_downgrade THEN "unlock" ELSE "level"

\* level_ is read once and decides the path.
Check(t) ==
    /\ Goto(t, "set", Path(arg[t]))
    /\ UNCHANGED <<level, hw, tx_power, arg, quiet>>

\* regs_.write_emcon_unlock(): the magic value sets unlock_pending_q.
write_emcon_unlock(t) ==
    /\ Goto(t, "unlock", "level")
    /\ unlock_pending_q' = TRUE
    /\ UNCHANGED <<level, emcon_level_q, lock_q, tx_power, arg, quiet>>

\* apply_level(): the store to level_.
StoreLevel(t) ==
    /\ Goto(t, "level", "ctrl")
    /\ level' = arg[t].level
    /\ UNCHANGED <<hw, tx_power, arg, quiet>>

\* Faulty variant of Latch: the lock bit is not consulted.
LatchUnlocked(l) == l

\* tdma_mac.sv lines 48-53: raising the level needs an open lock or a token.
Latch(l) ==
    IF l > emcon_level_q /\ lock_q /\ ~unlock_pending_q THEN emcon_level_q ELSE l

\* Faulty variant of set_emcon_ctrl: the token survives the write.
CtrlKeepsToken(t) ==
    /\ Goto(t, "ctrl", "power")
    /\ emcon_level_q' = Latch(arg[t].level)
    /\ lock_q' = (arg[t].level < 2)
    /\ quiet' = (arg[t].forced \/ (quiet /\ ~unlock_pending_q))
    /\ UNCHANGED <<level, unlock_pending_q, tx_power, arg>>

\* Faulty variant of set_emcon_ctrl: force_emcon0() forgets the lock bit.
CtrlForcedOpen(t) ==
    /\ Goto(t, "ctrl", "power")
    /\ emcon_level_q' = Latch(arg[t].level)
    /\ lock_q' = (arg[t].level < 2 /\ ~arg[t].forced)
    /\ unlock_pending_q' = FALSE
    /\ quiet' = (arg[t].forced \/ (quiet /\ ~unlock_pending_q))
    /\ UNCHANGED <<level, tx_power, arg>>

\* regs_.set_emcon_ctrl(level | lock): the FPGA consumes the token, takes the
\* written lock bit and latches the level if it may.
set_emcon_ctrl(t) ==
    /\ Goto(t, "ctrl", "power")
    /\ emcon_level_q' = Latch(arg[t].level)
    /\ lock_q' = (arg[t].level < 2)
    /\ unlock_pending_q' = FALSE
    /\ quiet' = (arg[t].forced \/ (quiet /\ ~unlock_pending_q))
    /\ UNCHANGED <<level, tx_power, arg>>

\* regs_.set_tx_power(): the last access of apply_level() and force_emcon0().
set_tx_power(t) ==
    /\ Goto(t, "power", "idle")
    /\ tx_power' = PowerOf(arg[t].level)
    /\ UNCHANGED <<level, hw, arg, quiet>>

Step(t) ==
    \/ Check(t)
    \/ write_emcon_unlock(t)
    \/ StoreLevel(t)
    \/ set_emcon_ctrl(t)
    \/ set_tx_power(t)

Next ==
    \/ \E t \in Setter, l \in Requests, u \in BOOLEAN : set_level(t, l, u)
    \/ \E t \in Setter, l \in Levels : handle_emcon(t, l)
    \/ \E t \in Forcer : force_emcon0(t)
    \/ \E t \in Thread : Step(t)

Spec == Init /\ [][Next]_vars

-----------------------------------------------------------------------------
(* Properties *)

\* The values the registers and the calls can take.
TypeOK ==
    /\ level \in Levels
    /\ emcon_level_q \in Levels
    /\ lock_q \in BOOLEAN
    /\ unlock_pending_q \in BOOLEAN
    /\ tx_power \in {PowerOf(l) : l \in Levels}
    /\ pc \in [Thread -> {"idle", "set", "unlock", "level", "ctrl", "power"}]
    /\ arg \in [Thread -> Call]
    /\ quiet \in BOOLEAN

Quiescent == \A t \in Thread : pc[t] = "idle"

\* "Decreasing restriction (0->1, 0->2, 1->2) requires unlock=true or is
\* rejected" (EmconManager.h line 14): the level in force rises only on behalf
\* of a call made with unlock = true.
RiseHasUnlock ==
    emcon_level_q' > emcon_level_q
        => \E t \in Thread : pc[t] = "ctrl" /\ arg[t].unlock
UnlockRequired == [][RiseHasUnlock]_vars

\* level_ is stored first and the register written later, so the stores of two
\* threads may come in one order and their register writes in the other.  With
\* one operator thread it stays safe: between calls the level in force is never
\* less restricted than the one current_level() reports.  (It may be more: then
\* the FPGA has refused a write, or the tamper thread wrote it last.)
NeverLooser == Quiescent => emcon_level_q <= level

\* With one operator thread, a call that was already past its check when the
\* tamper thread forced silence does not end the silence unless it writes the
\* token afterwards: the FPGA lock stops its level.
TamperSilence == quiet => emcon_level_q = 0

\* The FPGA as the racing threads drive it implements the abstract lock.
Policy == INSTANCE EmconPolicy
    WITH lvl <- emcon_level_q, tok <- unlock_pending_q, held <- quiet
ImplementsPolicy == Policy!Spec
=============================================================================
