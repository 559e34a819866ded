------------------------------ MODULE Zeroize -------------------------------
(***************************************************************************)
(* Zeroization against key filling, inside one radio.                      *)
(*                                                                         *)
(* Threads: those that call SecurityManager::zeroize_immediate() (the      *)
(* tamper monitor's thread and the operator), and one that runs fill       *)
(* sessions on the key-fill port (KeyFillPort::run_session).  They share   *)
(* the KeyManager, the HSM session and the fill session's nonces with no   *)
(* lock; only zeroized_ is atomic.  One access to that shared state is one *)
(* step.  FillState state_ is written and never read: fpc stands for it.   *)
(***************************************************************************)
EXTENDS Integers

CONSTANTS
    Caller,       \* threads that may call zeroize_immediate()
    MaxSession    \* bound: fill sessions run

ASSUME SessionAssumption == MaxSession \in Nat \ {0}

VARIABLES
    zeroized,       \* SecurityManager::zeroized_
    zpc,            \* where each caller is in zeroize_immediate()
    ran,            \* history: the callers that ran the engine
    km,             \* kek_, tek_, fhek_: the session that loaded each, 0 if reset
    hsm_open,       \* the HSM session is open; its keys die with it
    ik,             \* the identity key is in the HSM
    fhek_reg,       \* the FPGA's FHEK registers hold a key
    clocks,         \* the FPGA clocks run
    silent,         \* force_emcon0() has done its work (the post-zeroize hook)
    off,            \* reboot(POWER_OFF) succeeded: nothing runs any more
    fpc,            \* where the fill thread is in run_session()
    session,        \* number of the current or last fill session
    nonces,         \* fill session nonces in memory
    acked           \* history: the last session run_session() said succeeded

sec == <<zeroized, zpc, ran, ik, fhek_reg, clocks, silent, off>>
fill == <<fpc, session, nonces, acked>>
vars == <<sec, km, hsm_open, fill>>

KeyName == {"kek", "tek", "fhek"}
Nonce == {"gun_nonce", "device_nonce"}

\* zeroize_immediate() and ZeroizeEngine::run(), in order.
Steps == {"idle", "scrub", "km_kek", "km_tek", "km_fhek", "ik", "shutdown", "ram",
          "halt", "reboot", "hook", "done"}

\* run_session(), in order: frames received, frames sent, keys imported.
Receives == {"hello", "identity", "gun_attest", "key_block"}
Sends == {"nonce", "dev_attest"}
Points == {"idle", "ack"} \union Receives \union Sends \union KeyName

\* A radio after start(), or one still blank, with nobody zeroizing.
Init ==
    /\ zeroized = FALSE
    /\ zpc = [c \in Caller |-> "idle"] /\ ran = {}
    /\ \E g \in 0 .. 1 : km = [k \in KeyName |-> g]
    /\ hsm_open = TRUE /\ ik = TRUE /\ fhek_reg = TRUE /\ clocks = TRUE
    /\ silent = FALSE /\ off = FALSE
    /\ fpc = "idle" /\ session = 1 /\ nonces = {} /\ acked = 0

is_initialized == \A k \in KeyName : km[k] # 0

\* Keys somebody could still encrypt or decrypt with.
LiveKeys == IF hsm_open THEN {k \in KeyName : km[k] # 0} ELSE {}

-----------------------------------------------------------------------------
(* zeroize_immediate()                                                      *)

At(c, from, to) == ~off /\ zpc[c] = from /\ zpc' = [zpc EXCEPT ![c] = to]

\* Faulty variant of Wins: a load and a later store instead of one exchange.
WinsUnlessDone == clocks

\* The compare_exchange of zeroized_ succeeds.
Wins == ~zeroized

zeroize_immediate(c) ==
    /\ \/ Wins /\ At(c, "idle", "scrub") /\ ran' = ran \union {c}
       \/ ~Wins /\ At(c, "idle", "done") /\ ran' = ran
    /\ zeroized' = TRUE
    /\ UNCHANGED <<km, hsm_open, ik, fhek_reg, clocks, silent, off, fill>>

\* Faulty variant of scrub: an exception ends the engine.
ScrubAborts(c) ==
    /\ \/ At(c, "scrub", "km_kek") /\ fhek_reg' = FALSE
       \/ At(c, "scrub", "done") /\ UNCHANGED fhek_reg
    /\ UNCHANGED <<zeroized, ran, km, hsm_open, ik, clocks, silent, off, fill>>

\* Step 1: FPGA FHEK registers, or an exception that is swallowed.
scrub(c) ==
    /\ At(c, "scrub", "km_kek")
    /\ fhek_reg' \in {FALSE, fhek_reg}
    /\ UNCHANGED <<zeroized, ran, km, hsm_open, ik, clocks, silent, off, fill>>

\* Step 2: km_.zeroize() resets the three handles one after the other.
km_zeroize(c) ==
    /\ \/ At(c, "km_kek", "km_tek") /\ km' = [km EXCEPT !["kek"] = 0]
       \/ At(c, "km_tek", "km_fhek") /\ km' = [km EXCEPT !["tek"] = 0]
       \/ At(c, "km_fhek", "ik") /\ km' = [km EXCEPT !["fhek"] = 0]
    /\ UNCHANGED <<zeroized, ran, hsm_open, ik, fhek_reg, clocks, silent, off, fill>>

\* ... then the identity key.
destroy_ik(c) ==
    /\ At(c, "ik", "shutdown")
    /\ ik' = FALSE
    /\ UNCHANGED <<zeroized, ran, km, hsm_open, fhek_reg, clocks, silent, off, fill>>

\* Faulty variant of shutdown: the session is left open.
ShutdownSkipped(c) ==
    /\ At(c, "shutdown", "ram")
    /\ UNCHANGED <<zeroized, ran, km, hsm_open, ik, fhek_reg, clocks, silent, off, fill>>

\* ... then the HSM session, and with it every key object.
shutdown(c) ==
    /\ At(c, "shutdown", "ram")
    /\ hsm_open' = FALSE
    /\ UNCHANGED <<zeroized, ran, km, ik, fhek_reg, clocks, silent, off, fill>>

\* Step 3: clear_session().  Step 4, the audit line, changes nothing here.
ram(c) ==
    /\ At(c, "ram", "halt")
    /\ nonces' = {}
    /\ UNCHANGED <<zeroized, ran, km, hsm_open, ik, fhek_reg, clocks, silent, off,
                   fpc, session, acked>>

\* Step 5: FPGA clocks, or an exception that is swallowed.
halt_fpga_clocks(c) ==
    /\ At(c, "halt", "reboot")
    /\ clocks' \in {FALSE, clocks}
    /\ UNCHANGED <<zeroized, ran, km, hsm_open, ik, fhek_reg, silent, off, fill>>

\* reboot(POWER_OFF) on Linux; it fails without the privilege, and other builds
\* do not call it.
reboot(c) ==
    /\ At(c, "reboot", "hook")
    /\ off' \in BOOLEAN
    /\ UNCHANGED <<zeroized, ran, km, hsm_open, ik, fhek_reg, clocks, silent, fill>>

\* post_zeroize_hook_(): force_emcon0(), or an exception that is swallowed and
\* leaves the radio on the air.
hook(c) ==
    /\ At(c, "hook", "done")
    /\ silent' \in {TRUE, silent}
    /\ UNCHANGED <<zeroized, ran, km, hsm_open, ik, fhek_reg, clocks, off, fill>>

Engine(c) ==
    \/ scrub(c) \/ km_zeroize(c) \/ destroy_ik(c) \/ shutdown(c) \/ ram(c)
    \/ halt_fpga_clocks(c) \/ reboot(c) \/ hook(c)

-----------------------------------------------------------------------------
(* run_session()                                                            *)

FillAt(from, to) == ~off /\ fpc = from /\ fpc' = to

\* The next point when all goes well.
After == [hello |-> "nonce", nonce |-> "identity", identity |-> "dev_attest",
          dev_attest |-> "gun_attest", gun_attest |-> "key_block", key_block |-> "kek",
          kek |-> "tek", tek |-> "fhek", fhek |-> "ack"]

\* A session starts by forgetting the one before.
run_session ==
    /\ session < MaxSession
    /\ FillAt("idle", "hello")
    /\ session' = session + 1
    /\ nonces' = {}
    /\ UNCHANGED <<sec, km, hsm_open, acked>>

\* The expected frame arrives and passes its checks.  The key block's is the
\* HSM's decryption with the identity key.
Receive(p) ==
    /\ FillAt(p, After[p])
    /\ p = "key_block" => hsm_open /\ ik
    /\ nonces' = IF p = "hello" THEN nonces \union {"gun_nonce"} ELSE nonces
    /\ UNCHANGED <<sec, km, hsm_open, session, acked>>

\* Nothing in 30 s, or the wrong frame: send_nak() and return false.
send_nak(p) ==
    /\ FillAt(p, "idle")
    /\ nonces' = {}
    /\ UNCHANGED <<sec, km, hsm_open, session, acked>>

\* NONCE and DEV_ATTEST are sent, or the write fails and the session just ends.
Send(p) ==
    /\ FillAt(p, After[p]) \/ FillAt(p, "idle")
    /\ nonces' = IF p = "nonce" THEN nonces \union {"device_nonce"} ELSE nonces
    /\ UNCHANGED <<sec, km, hsm_open, session, acked>>

\* Faulty variant of Import: a failed import goes unnoticed.
ImportUnchecked(k) ==
    /\ FillAt(k, After[k])
    /\ km' = km \/ (hsm_open /\ km' = [km EXCEPT ![k] = session])
    /\ UNCHANGED <<sec, hsm_open, session, nonces, acked>>

\* set_kek_raw(), set_tek_raw(), set_fhek_raw(): import_raw() needs the HSM.
Import(k) ==
    /\ hsm_open
    /\ FillAt(k, After[k])
    /\ km' = [km EXCEPT ![k] = session]
    /\ UNCHANGED <<sec, hsm_open, session, nonces, acked>>

\* import_raw() fails, because the session is closed or the HSM refuses: the
\* exception leaves run_session() with what was imported so far.
ImportThrows(k) ==
    /\ FillAt(k, "idle")
    /\ UNCHANGED <<sec, km, hsm_open, session, nonces, acked>>

\* ACK is sent (a failure to send is ignored), the session is cleared, true.
Ack ==
    /\ FillAt("ack", "idle")
    /\ nonces' = {}
    /\ acked' = session
    /\ UNCHANGED <<sec, km, hsm_open, session>>

Fill ==
    \/ run_session
    \/ \E p \in Receives : Receive(p) \/ send_nak(p)
    \/ \E p \in Sends : Send(p)
    \/ \E k \in KeyName : Import(k) \/ ImportThrows(k)
    \/ Ack

Next == (\E c \in Caller : zeroize_immediate(c) \/ Engine(c)) \/ Fill

\* A thread that has started zeroizing is scheduled (the tamper thread has the
\* highest real-time priority) and each of its steps returns.
Fairness == \A c \in Caller : WF_vars(Engine(c))

Spec == Init /\ [][Next]_vars /\ Fairness

-----------------------------------------------------------------------------
(* Properties *)

\* The values the state takes.
TypeOK ==
    /\ zpc \in [Caller -> Steps]
    /\ km \in [KeyName -> 0 .. MaxSession]
    /\ fpc \in Points
    /\ session \in 1 .. MaxSession
    /\ acked \in 0 .. MaxSession
    /\ nonces \subseteq Nonce
    /\ ran \subseteq Caller
    /\ {zeroized, hsm_open, ik, fhek_reg, clocks, silent, off} \subseteq BOOLEAN

\* The engine runs at most once however many tamper events and operators
\* trigger it together ("idempotent", test_tamper.cpp).
EngineRunsOnce == \A c, d \in ran : c = d

\* Once the HSM step is over no key can be used, not even one that a fill
\* session loaded while the zeroize was under way.
PastHsm == \E c \in ran : zpc[c] \in {"ram", "halt", "reboot", "hook", "done"}
NoLiveKeysAfter == PastHsm \/ off => LiveKeys = {}

\* When run_session() returns true the three keys in use are the ones of that
\* session, unless a zeroize intervened or the next session has begun.
AckMeansLoaded ==
    acked = session /\ fpc = "idle" /\ ~zeroized => \A k \in KeyName : km[k] = session

\* A zeroize that has started comes to its end, power-off or the return of the
\* caller that won, and the key material is out of reach then, whichever of its
\* steps throw, the hook's among them, and whatever the fill thread does.  (Whether
\* the registers are scrubbed, the clocks halted and the radio silent depends on
\* the steps that threw.)
Ended == off \/ \E c \in ran : zpc[c] = "done"
ZeroizeCompletes == zeroized ~> Ended /\ LiveKeys = {} /\ ~ik
=============================================================================
