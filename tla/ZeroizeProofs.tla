--------------------------- MODULE ZeroizeProofs ----------------------------
(***************************************************************************)
(* Zeroize safety for any number of callers and any number of sessions.    *)
(***************************************************************************)
EXTENDS Zeroize, TLAPS

\* Until zeroized_ is set nobody has touched anything.
Untouched ==
    ~zeroized => /\ ran = {} /\ hsm_open /\ ~silent /\ ~off
                 /\ \A c \in Caller : zpc[c] = "idle"

\* The callers inside the engine are the ones that won; none of them starts again.
Inside ==
    \A c \in Caller :
        /\ zpc[c] \notin {"idle", "done"} => c \in ran
        /\ c \in ran => zpc[c] # "idle"

\* A winner past the HSM step, or anything that comes later, means it is closed.
Closed == PastHsm \/ off => ~hsm_open

\* What a fill session that no zeroize disturbs has loaded at each point.
Loaded ==
    ~zeroized =>
        /\ fpc \in {"tek", "fhek", "ack"} => km["kek"] = session
        /\ fpc \in {"fhek", "ack"} => km["tek"] = session
        /\ fpc = "ack" => km["fhek"] = session

\* A session in progress has not been acknowledged.
AckBehind == acked <= session /\ (fpc # "idle" => acked < session)

IInv ==
    /\ TypeOK /\ Untouched /\ Inside /\ EngineRunsOnce /\ Closed
    /\ Loaded /\ AckBehind /\ AckMeansLoaded

\* The invariant closes every key.
LEMMA IInvNoLive == IInv => NoLiveKeysAfter
  BY DEF IInv, Closed, NoLiveKeysAfter, LiveKeys

\* A started or a blank radio.
LEMMA InitIInv == Init => IInv
  <1> SUFFICES ASSUME Init PROVE IInv
    OBVIOUS
  <1> USE SessionAssumption DEF Init
  <1>1. TypeOK
    <2>1. zpc \in [Caller -> Steps]
      BY DEF Steps
    <2>2. km \in [KeyName -> 0 .. MaxSession]
      OBVIOUS
    <2>3. fpc \in Points /\ nonces \subseteq Nonce /\ ran \subseteq Caller
      BY DEF Points
    <2>4. {zeroized, hsm_open, ik, fhek_reg, clocks, silent, off} \subseteq BOOLEAN
      OBVIOUS
    <2>5. QED
      BY <2>1, <2>2, <2>3, <2>4 DEF TypeOK
  <1>2. Untouched /\ Inside /\ EngineRunsOnce /\ Closed
    BY DEF Untouched, Inside, EngineRunsOnce, Closed, PastHsm
  <1>3. Loaded /\ AckBehind /\ AckMeansLoaded
    BY DEF Loaded, AckBehind, AckMeansLoaded
  <1>4. QED
    BY <1>1, <1>2, <1>3 DEF IInv

\* zeroize_immediate(): only the first caller runs the engine.
LEMMA CallIInv == ASSUME IInv, NEW c \in Caller, zeroize_immediate(c) PROVE IInv'
  <1> USE DEF IInv, zeroize_immediate, At, fill
  <1>1. TypeOK'
    BY DEF TypeOK, Steps
  <1>2. Untouched'
    BY DEF Untouched
  <1>3. EngineRunsOnce'
    BY DEF EngineRunsOnce, Untouched, Wins
  <1>4. Closed'
    BY DEF Closed, PastHsm, Inside, TypeOK
  <1>5. Inside'
    BY DEF Inside, TypeOK
  <1>6. Loaded' /\ AckBehind' /\ AckMeansLoaded'
    BY DEF Loaded, AckBehind, AckMeansLoaded
  <1>7. QED
    BY <1>1, <1>2, <1>3, <1>4, <1>5, <1>6

\* The engine runs only after zeroized_ was set.
LEMMA EngineZeroized ==
  ASSUME IInv, NEW c \in Caller, Engine(c)
  PROVE  zeroized /\ zeroized' /\ ran' = ran
  BY DEF IInv, Untouched, Engine, scrub, km_zeroize, destroy_ik, shutdown, ram,
         halt_fpga_clocks, reboot, hook, At

\* Engine steps move a caller that won.
LEMMA EngineInside == ASSUME IInv, NEW c \in Caller, Engine(c) PROVE c \in ran /\ Inside'
  <1>1. /\ zpc[c] \notin {"idle", "done"} /\ zpc'[c] # "idle" /\ ran' = ran
        /\ \A d \in Caller : d # c => zpc'[d] = zpc[d]
    BY DEF IInv, TypeOK, Engine, scrub, km_zeroize, destroy_ik, shutdown, ram,
           halt_fpga_clocks, reboot, hook, At
  <1>2. QED
    BY <1>1 DEF IInv, Inside

\* Engine steps before the HSM is closed.
LEMMA EarlyClosed ==
  ASSUME IInv, NEW c \in Caller, scrub(c) \/ km_zeroize(c) \/ destroy_ik(c)
  PROVE  Closed'
  BY DEF IInv, Closed, PastHsm, TypeOK, scrub, km_zeroize, destroy_ik, At

\* Closing the HSM, and the steps after it, which leave it closed.
LEMMA LateClosed ==
  ASSUME IInv, NEW c \in Caller,
         shutdown(c) \/ ram(c) \/ halt_fpga_clocks(c) \/ reboot(c) \/ hook(c)
  PROVE  Closed'
  <1>1. CASE shutdown(c)
    BY <1>1 DEF shutdown, Closed
  <1>2. CASE ~shutdown(c)
    <2>1. zpc[c] \in {"ram", "halt", "reboot", "hook"} /\ c \in ran
      BY <1>2, EngineInside DEF Engine, ram, halt_fpga_clocks, reboot, hook, At
    <2>2. ~hsm_open
      BY <2>1 DEF IInv, Closed, PastHsm
    <2>3. hsm_open' = hsm_open
      BY <1>2 DEF ram, halt_fpga_clocks, reboot, hook
    <2>4. QED
      BY <2>2, <2>3 DEF Closed
  <1>3. QED
    BY <1>1, <1>2

\* Every engine step keeps the types.
LEMMA EngineType == ASSUME IInv, NEW c \in Caller, Engine(c) PROVE TypeOK'
  <1> USE DEF IInv, TypeOK, At, fill, Steps
  <1>1. CASE scrub(c)
    BY <1>1 DEF scrub
  <1>2. CASE km_zeroize(c)
    BY <1>2, SessionAssumption DEF km_zeroize, KeyName
  <1>3. CASE destroy_ik(c)
    BY <1>3 DEF destroy_ik
  <1>4. CASE shutdown(c)
    BY <1>4 DEF shutdown
  <1>5. CASE ram(c)
    BY <1>5 DEF ram
  <1>6. CASE halt_fpga_clocks(c)
    BY <1>6 DEF halt_fpga_clocks
  <1>7. CASE reboot(c)
    BY <1>7 DEF reboot
  <1>8. CASE hook(c)
    BY <1>8 DEF hook
  <1>9. QED
    BY <1>1, <1>2, <1>3, <1>4, <1>5, <1>6, <1>7, <1>8 DEF Engine

\* Engine steps preserve the invariant.
LEMMA EngineIInv == ASSUME IInv, NEW c \in Caller, Engine(c) PROVE IInv'
  <1>1. zeroized /\ zeroized' /\ ran' = ran
    BY EngineZeroized
  <1>2. TypeOK'
    BY EngineType
  <1>3. Closed'
    BY EarlyClosed, LateClosed DEF Engine
  <1>4. UNCHANGED <<fpc, session, acked>>
    BY DEF Engine, scrub, km_zeroize, destroy_ik, shutdown, ram, halt_fpga_clocks,
           reboot, hook, fill
  <1>5. Untouched' /\ EngineRunsOnce' /\ Inside'
    BY <1>1, EngineInside DEF IInv, Untouched, EngineRunsOnce
  <1>6. Loaded' /\ AckBehind' /\ AckMeansLoaded'
    BY <1>1, <1>4 DEF IInv, Loaded, AckBehind, AckMeansLoaded
  <1>7. QED
    BY <1>2, <1>3, <1>5, <1>6 DEF IInv

\* The fill thread touches only its own state and the keys.
LEMMA FillFrame == ASSUME IInv, Fill PROVE UNCHANGED <<sec, hsm_open>>
  BY DEF Fill, run_session, Receive, send_nak, Send, Import, ImportThrows, Ack

\* Every step of a session keeps the types.
LEMMA FillType == ASSUME IInv, Fill PROVE TypeOK'
  <1> USE SessionAssumption DEF IInv, TypeOK, FillAt, sec, Points, Receives, Sends, KeyName, Nonce
  <1>1. CASE run_session
    BY <1>1 DEF run_session
  <1>2. ASSUME NEW p \in Receives, Receive(p) PROVE TypeOK'
    BY <1>2 DEF Receive, After
  <1>3. ASSUME NEW p \in Receives, send_nak(p) PROVE TypeOK'
    BY <1>3 DEF send_nak
  <1>4. ASSUME NEW p \in Sends, Send(p) PROVE TypeOK'
    BY <1>4 DEF Send, After
  <1>5. ASSUME NEW k \in KeyName, Import(k) PROVE TypeOK'
    BY <1>5 DEF Import, After
  <1>6. ASSUME NEW k \in KeyName, ImportThrows(k) PROVE TypeOK'
    BY <1>6 DEF ImportThrows
  <1>7. CASE Ack
    BY <1>7 DEF Ack
  <1>8. QED
    BY <1>1, <1>2, <1>3, <1>4, <1>5, <1>6, <1>7 DEF Fill

\* What is loaded at each point of a session.
LEMMA FillLoaded == ASSUME IInv, Fill PROVE Loaded' /\ AckBehind' /\ AckMeansLoaded'
  <1> USE DEF IInv, FillAt
  <1>0. /\ session \in Nat /\ acked \in Nat
        /\ km \in [KeyName -> 0 .. MaxSession]
    BY SessionAssumption DEF TypeOK
  <1>1. zeroized' = zeroized
    BY FillFrame DEF sec
  <1>2. CASE run_session
    BY <1>0, <1>1, <1>2 DEF run_session, Loaded, AckBehind, AckMeansLoaded
  <1>3. ASSUME NEW p \in Receives, Receive(p)
        PROVE  Loaded' /\ AckBehind' /\ AckMeansLoaded'
    <2>1. fpc' \in {"nonce", "dev_attest", "key_block", "kek"} /\ fpc # "idle"
      BY <1>3 DEF Receive, After, Receives
    <2>2. UNCHANGED <<session, acked, km>>
      BY <1>3 DEF Receive
    <2>3. QED
      BY <1>0, <1>1, <2>1, <2>2 DEF Loaded, AckBehind, AckMeansLoaded
  <1>4. ASSUME NEW p \in Receives, send_nak(p)
        PROVE  Loaded' /\ AckBehind' /\ AckMeansLoaded'
    <2>1. fpc' = "idle" /\ fpc # "idle"
      BY <1>4 DEF send_nak, Receives
    <2>2. UNCHANGED <<session, acked, km>>
      BY <1>4 DEF send_nak
    <2>3. QED
      BY <1>0, <1>1, <2>1, <2>2 DEF Loaded, AckBehind, AckMeansLoaded
  <1>5. ASSUME NEW p \in Sends, Send(p)
        PROVE  Loaded' /\ AckBehind' /\ AckMeansLoaded'
    <2>1. fpc' \in {"identity", "gun_attest", "idle"} /\ fpc # "idle"
      BY <1>5 DEF Send, After, Sends
    <2>2. UNCHANGED <<session, acked, km>>
      BY <1>5 DEF Send
    <2>3. QED
      BY <1>0, <1>1, <2>1, <2>2 DEF Loaded, AckBehind, AckMeansLoaded
  <1>6. ASSUME NEW k \in KeyName, Import(k)
        PROVE  Loaded' /\ AckBehind' /\ AckMeansLoaded'
    <2>1. UNCHANGED <<session, acked>> /\ fpc = k /\ km' = [km EXCEPT ![k] = session]
      BY <1>6 DEF Import
    <2>2. \/ k = "kek" /\ fpc' = "tek"
          \/ k = "tek" /\ fpc' = "fhek"
          \/ k = "fhek" /\ fpc' = "ack"
      BY <1>6 DEF Import, After, KeyName
    <2>3. Loaded'
      BY <1>0, <1>1, <2>1, <2>2 DEF Loaded, KeyName
    <2>4. AckBehind' /\ AckMeansLoaded'
      BY <1>0, <1>1, <2>1, <2>2 DEF AckBehind, AckMeansLoaded
    <2>5. QED
      BY <2>3, <2>4
  <1>7. ASSUME NEW k \in KeyName, ImportThrows(k)
        PROVE  Loaded' /\ AckBehind' /\ AckMeansLoaded'
    <2>1. fpc' = "idle" /\ fpc # "idle"
      BY <1>7 DEF ImportThrows, KeyName
    <2>2. UNCHANGED <<session, acked, km>>
      BY <1>7 DEF ImportThrows
    <2>3. QED
      BY <1>0, <1>1, <2>1, <2>2 DEF Loaded, AckBehind, AckMeansLoaded
  <1>8. CASE Ack
    BY <1>0, <1>1, <1>8 DEF Ack, Loaded, AckBehind, AckMeansLoaded, KeyName
  <1>9. QED
    BY <1>2, <1>3, <1>4, <1>5, <1>6, <1>7, <1>8 DEF Fill

\* IInv is inductive.
LEMMA NextIInv == IInv /\ [Next]_vars => IInv'
  <1> SUFFICES ASSUME IInv, [Next]_vars PROVE IInv'
    OBVIOUS
  <1>1. CASE Fill
    <2>1. Untouched' /\ Inside' /\ EngineRunsOnce' /\ Closed'
      BY <1>1, FillFrame DEF sec, IInv, Untouched, Inside, EngineRunsOnce, Closed, PastHsm
    <2>2. QED
      BY <1>1, <2>1, FillType, FillLoaded DEF IInv
  <1>2. CASE UNCHANGED vars
    BY <1>2 DEF vars, sec, fill, IInv, TypeOK, Untouched, Inside, EngineRunsOnce, Closed, PastHsm,
                Loaded, AckBehind, AckMeansLoaded
  <1>3. QED
    BY <1>1, <1>2, CallIInv, EngineIInv DEF Next

\* SecurityManager and KeyFillPort stay within their types: no call and no session
\* is at a point of the code the model does not know.
THEOREM ZeroizeTypeCorrect == Spec => []TypeOK
  <1>1. IInv => TypeOK
    BY DEF IInv
  <1>2. QED
    BY <1>1, InitIInv, NextIInv, PTL DEF Spec

\* However many threads trigger it together, the engine runs once.
THEOREM ZeroizeRunsOnce == Spec => []EngineRunsOnce
  <1>1. IInv => EngineRunsOnce
    BY DEF IInv
  <1>2. QED
    BY <1>1, InitIInv, NextIInv, PTL DEF Spec

\* No key survives the HSM step, also not one filled during the zeroize.
THEOREM ZeroizeNoLiveKeys == Spec => []NoLiveKeysAfter
  <1>1. QED
    BY IInvNoLive, InitIInv, NextIInv, PTL DEF Spec

\* A fill session that reports success has loaded all three of its keys.
THEOREM FillAckMeansLoaded == Spec => []AckMeansLoaded
  <1>1. IInv => AckMeansLoaded
    BY DEF IInv
  <1>2. QED
    BY <1>1, InitIInv, NextIInv, PTL DEF Spec
=============================================================================
