----------------------------- MODULE KeyManager -----------------------------
(***************************************************************************)
(* The key managers of a net (software/src/security/KeyManager.cpp), one   *)
(* per radio, and over-the-air rekeying between them.                      *)
(*                                                                         *)
(* A key is a number; generate_key() returns one never used before.  An    *)
(* OTAR message carries a TEK and an FHEK wrapped under the sender's KEK.  *)
(* The air loses, duplicates, delays and reorders messages: one that has   *)
(* been sent may be delivered at any later time, any number of times, to   *)
(* any radio, with either wrapped key damaged (AES key wrap detects it).   *)
(* One radio, the Issuer, rekeys the net.  Any radio may be filled, filled *)
(* again, zeroized or restarted at any time.                               *)
(***************************************************************************)
EXTENDS Integers

CONSTANTS
    Node,       \* the radios
    Issuer,     \* the one that rotates the TEK and sends OTAR messages
    MaxEpoch,   \* bound: largest epoch issued
    MaxKey,     \* bound: largest key number generated
    MaxReign    \* bound: how often the issuer is zeroized or restarted

ASSUME NodeAssumption == Issuer \in Node
ASSUME BoundAssumption == MaxEpoch \in Nat /\ MaxKey \in Nat /\ MaxKey >= 3 /\ MaxReign \in Nat

VARIABLES
    kek, tek, fhek,   \* kek_, tek_, fhek_ of each radio; NoKey when reset
    key_epoch,        \* key_epoch_
    started,          \* RadioNode::start() has run: state_ is not Idle any more
    air,              \* OTAR messages sent so far
    minted,           \* the last key number generated
    reign,            \* history: the issuer's life the radio's epoch belongs to
    replaced          \* history: TEK or FHEK loaded locally since the epoch last moved

keys == <<kek, tek, fhek, key_epoch>>
vars == <<keys, started, air, minted, reign, replaced>>

NoKey == 0
\* What every fill gun of the net loads, also used as provisioned TEK and FHEK.
Gun == [kek |-> 1, tek |-> 2, fhek |-> 3]
Key == NoKey .. MaxKey

OtarMessage == [key_epoch : 1 .. MaxEpoch, under : Key, tek : Key, fhek : Key,
                reign : 0 .. MaxReign]

Init ==
    /\ kek = [n \in Node |-> NoKey]
    /\ tek = [n \in Node |-> NoKey]
    /\ fhek = [n \in Node |-> NoKey]
    /\ key_epoch = [n \in Node |-> 0]
    /\ started = [n \in Node |-> FALSE]
    /\ air = {}
    /\ minted = Gun.fhek
    /\ reign = [n \in Node |-> 0]
    /\ replaced = [n \in Node |-> FALSE]

is_initialized(n) == kek[n] # NoKey /\ tek[n] # NoKey /\ fhek[n] # NoKey

-----------------------------------------------------------------------------
(* Loading keys into one radio.  None of these touches key_epoch_.          *)

Load(n, k, t, f) ==
    /\ kek' = [kek EXCEPT ![n] = k]
    /\ tek' = [tek EXCEPT ![n] = t]
    /\ fhek' = [fhek EXCEPT ![n] = f]
    /\ replaced' = [replaced EXCEPT ![n] = TRUE]
    /\ UNCHANGED <<key_epoch, air, reign>>

\* The key-fill port: set_kek_raw, set_tek_raw, set_fhek_raw, on a blank radio
\* or over the keys it has.
set_raw(n) ==
    /\ Load(n, Gun.kek, Gun.tek, Gun.fhek)
    /\ UNCHANGED <<minted, started>>

\* RadioNode::start() runs once in a radio's life.
Start(n) ==
    /\ ~started[n]
    /\ started' = [started EXCEPT ![n] = TRUE]

\* start() with provisioned keys: a random KEK, shared TEK and FHEK.
StartProvisioned(n) ==
    /\ Start(n)
    /\ minted + 1 <= MaxKey
    /\ minted' = minted + 1
    /\ Load(n, minted + 1, Gun.tek, Gun.fhek)

\* start() without: three keys of its own, unless it has keys.
StartGenerated(n) ==
    /\ Start(n)
    /\ ~is_initialized(n)
    /\ minted + 3 <= MaxKey
    /\ minted' = minted + 3
    /\ Load(n, minted + 1, minted + 2, minted + 3)

\* generate_tek(), generate_fhek(): a fresh key under the epoch there is.
generate_key(n) ==
    /\ minted + 1 <= MaxKey
    /\ minted' = minted + 1
    /\ \/ Load(n, kek[n], minted + 1, fhek[n])
       \/ Load(n, kek[n], tek[n], minted + 1)
    /\ UNCHANGED started

-----------------------------------------------------------------------------
(* Rekeying.                                                                *)

\* rotate_tek(): a new TEK and the next epoch, whatever the radio holds.
rotate_tek ==
    /\ key_epoch[Issuer] < MaxEpoch /\ minted < MaxKey
    /\ minted' = minted + 1
    /\ tek' = [tek EXCEPT ![Issuer] = minted + 1]
    /\ key_epoch' = [key_epoch EXCEPT ![Issuer] = @ + 1]
    /\ replaced' = [replaced EXCEPT ![Issuer] = FALSE]
    /\ UNCHANGED <<kek, fhek, started, air, reign>>

\* ++key_epoch_, then the message takes it.
NextEpoch == key_epoch[Issuer] + 1

\* Faulty variant of generate_otar_message: key_epoch_ itself is not advanced.
GenerateNoAdvance ==
    /\ is_initialized(Issuer)
    /\ key_epoch[Issuer] < MaxEpoch
    /\ air' = air \union {[key_epoch |-> NextEpoch, under |-> kek[Issuer],
                           tek |-> tek[Issuer], fhek |-> fhek[Issuer],
                           reign |-> reign[Issuer]]}
    /\ UNCHANGED <<keys, started, minted, reign, replaced>>

\* generate_otar_message(): throws unless all three keys are there.
generate_otar_message ==
    /\ is_initialized(Issuer)
    /\ key_epoch[Issuer] < MaxEpoch
    /\ air' = air \union {[key_epoch |-> NextEpoch, under |-> kek[Issuer],
                           tek |-> tek[Issuer], fhek |-> fhek[Issuer],
                           reign |-> reign[Issuer]]}
    /\ key_epoch' = [key_epoch EXCEPT ![Issuer] = @ + 1]
    /\ replaced' = [replaced EXCEPT ![Issuer] = FALSE]
    /\ UNCHANGED <<kek, tek, fhek, started, minted, reign>>

\* process_otar_message() lines 86-90: a KEK, a newer epoch, and both keys
\* unwrap, that is they are undamaged and were wrapped under this KEK.
Accepts(n, m, tek_ok, fhek_ok) ==
    /\ kek[n] # NoKey
    /\ m.key_epoch > key_epoch[n]
    /\ m.under = kek[n] /\ tek_ok /\ fhek_ok

\* Faulty variant of process_otar_message: each key is taken as it unwraps.
ProcessEach(n, m, tek_ok, fhek_ok) ==
    /\ Accepts(n, m, tek_ok, TRUE)
    /\ tek' = [tek EXCEPT ![n] = m.tek]
    /\ fhek' = [fhek EXCEPT ![n] = IF fhek_ok THEN m.fhek ELSE @]
    /\ key_epoch' = [key_epoch EXCEPT ![n] = m.key_epoch]
    /\ reign' = [reign EXCEPT ![n] = m.reign]
    /\ replaced' = [replaced EXCEPT ![n] = FALSE]
    /\ UNCHANGED <<kek, started, air, minted>>

\* process_otar_message() returning true; when it returns false nothing changes.
process_otar_message(n, m, tek_ok, fhek_ok) ==
    /\ Accepts(n, m, tek_ok, fhek_ok)
    /\ tek' = [tek EXCEPT ![n] = m.tek]
    /\ fhek' = [fhek EXCEPT ![n] = m.fhek]
    /\ key_epoch' = [key_epoch EXCEPT ![n] = m.key_epoch]
    /\ reign' = [reign EXCEPT ![n] = m.reign]
    /\ replaced' = [replaced EXCEPT ![n] = FALSE]
    /\ UNCHANGED <<kek, started, air, minted>>

\* Keys and epoch are gone.  The issuer's next messages start a new reign.
Clear(n) ==
    /\ n = Issuer => reign[n] < MaxReign
    /\ kek' = [kek EXCEPT ![n] = NoKey]
    /\ tek' = [tek EXCEPT ![n] = NoKey]
    /\ fhek' = [fhek EXCEPT ![n] = NoKey]
    /\ key_epoch' = [key_epoch EXCEPT ![n] = 0]
    /\ reign' = [reign EXCEPT ![n] = IF n = Issuer THEN @ + 1 ELSE @]
    /\ replaced' = [replaced EXCEPT ![n] = FALSE]
    /\ UNCHANGED <<air, minted>>

zeroize(n) == Clear(n) /\ UNCHANGED started

\* A power cycle: nothing of a KeyManager is kept.
Restart(n) == Clear(n) /\ started' = [started EXCEPT ![n] = FALSE]

Next ==
    \/ \E n \in Node : 
          \/ set_raw(n) \/ StartProvisioned(n) \/ StartGenerated(n)
          \/ generate_key(n) \/ zeroize(n) \/ Restart(n)
    \/ rotate_tek
    \/ generate_otar_message
    \/ \E n \in Node \ {Issuer}, m \in air, tek_ok, fhek_ok \in BOOLEAN :
          process_otar_message(n, m, tek_ok, fhek_ok)

Spec == Init /\ [][Next]_vars

-----------------------------------------------------------------------------
(* Properties *)

\* The values the state takes; every key in use has been generated or filled.
TypeOK ==
    /\ kek \in [Node -> Key]
    /\ tek \in [Node -> Key]
    /\ fhek \in [Node -> Key]
    /\ key_epoch \in [Node -> 0 .. MaxEpoch]
    /\ started \in [Node -> BOOLEAN]
    /\ air \subseteq OtarMessage
    /\ minted \in Key
    /\ reign \in [Node -> 0 .. MaxReign]
    /\ replaced \in [Node -> BOOLEAN]

\* Radios at the same epoch have the same TEK and FHEK, so they hear each
\* other: whatever messages were lost, repeated, delayed or half damaged, and
\* whoever was zeroized, restarted and filled again in between.  Two cases are outside it,
\* because key_epoch_ does not tell them apart: keys loaded locally since the
\* epoch last moved, and epochs issued before and after the issuer lost its
\* epoch.
AgreementAtEpoch ==
    \A m, n \in Node :
        /\ key_epoch[m] = key_epoch[n] /\ key_epoch[m] > 0
        /\ reign[m] = reign[n]
        /\ ~replaced[m] /\ ~replaced[n]
        => tek[m] = tek[n] /\ fhek[m] = fhek[n]

\* "rejects stale epoch" must not hit a fresh rekey: when the issuer sends one,
\* every radio with its KEK would take it if it arrived undamaged at once,
\* whatever it took, lost or had loaded before.  The one exception is a radio whose
\* epoch comes from before the issuer was zeroized or restarted: key_epoch_ starts
\* again from 0 there, and such a radio may refuse rekeys until the issuer has
\* caught up with its epoch.
FreshRekeyAccepted ==
    [][generate_otar_message =>
        \A n \in Node \ {Issuer}, m \in air' :
            /\ m.key_epoch = NextEpoch /\ m.reign = reign[Issuer]
            /\ kek[n] = kek[Issuer]
            /\ key_epoch[n] = 0 \/ reign[n] = reign[Issuer]
            => Accepts(n, m, TRUE, TRUE)]_vars
=============================================================================
