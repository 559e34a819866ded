-------------------------- MODULE KeyManagerProofs --------------------------
(***************************************************************************)
(* Radios at the same epoch agree on their keys, for any number of radios, *)
(* of messages and of epochs.                                              *)
(***************************************************************************)
EXTENDS KeyManager, TLAPS

\* One life of the issuer uses an epoch for one pair of keys only.
MsgUnique ==
    \A a, b \in air :
        a.reign = b.reign /\ a.key_epoch = b.key_epoch => a.tek = b.tek /\ a.fhek = b.fhek

\* No message is from the issuer's future.
MsgBehind ==
    \A a \in air :
        /\ a.reign <= reign[Issuer]
        /\ a.reign = reign[Issuer] => a.key_epoch <= key_epoch[Issuer]

\* A message of the issuer's current epoch has its keys.
MsgIssuer ==
    \A a \in air :
        /\ a.reign = reign[Issuer] /\ a.key_epoch = key_epoch[Issuer]
        /\ ~replaced[Issuer]
        => a.tek = tek[Issuer] /\ a.fhek = fhek[Issuer]

\* a is a message that put radio n where it is.
Source(a, n) ==
    /\ a.reign = reign[n] /\ a.key_epoch = key_epoch[n]
    /\ ~replaced[n] => a.tek = tek[n] /\ a.fhek = fhek[n]

\* A member's epoch came in a message, and its keys too unless replaced since.
MemberHasMsg ==
    \A n \in Node \ {Issuer} : key_epoch[n] > 0 => \E a \in air : Source(a, n)

IInv == TypeOK /\ MsgUnique /\ MsgBehind /\ MsgIssuer /\ MemberHasMsg

\* The invariant is what agreement needs.
LEMMA IInvAgreement == IInv => AgreementAtEpoch
  <1> SUFFICES ASSUME IInv PROVE AgreementAtEpoch
    OBVIOUS
  <1> USE NodeAssumption DEF IInv
  <1>1. ASSUME NEW n \in Node \ {Issuer}, key_epoch[n] > 0, key_epoch[n] = key_epoch[Issuer],
               reign[n] = reign[Issuer], ~replaced[n], ~replaced[Issuer]
        PROVE  tek[n] = tek[Issuer] /\ fhek[n] = fhek[Issuer]
    <2>1. PICK a \in air : Source(a, n)
      BY <1>1 DEF MemberHasMsg
    <2>2. QED
      BY <1>1, <2>1 DEF Source, MsgIssuer
  <1>2. ASSUME NEW m \in Node \ {Issuer}, NEW n \in Node \ {Issuer},
               key_epoch[m] > 0, key_epoch[m] = key_epoch[n],
               reign[m] = reign[n], ~replaced[m], ~replaced[n]
        PROVE  tek[m] = tek[n] /\ fhek[m] = fhek[n]
    <2>1. PICK a \in air : Source(a, m)
      BY <1>2 DEF MemberHasMsg
    <2>2. PICK b \in air : Source(b, n)
      BY <1>2 DEF MemberHasMsg
    <2>3. a.tek = b.tek /\ a.fhek = b.fhek
      BY <1>2, <2>1, <2>2 DEF Source, MsgUnique
    <2>4. QED
      BY <1>2, <2>1, <2>2, <2>3 DEF Source
  <1>3. QED
    BY <1>1, <1>2 DEF AgreementAtEpoch

\* Within one life of the issuer no radio is ahead of it.
LEMMA NotAhead ==
  ASSUME IInv, NEW n \in Node, key_epoch[n] = 0 \/ reign[n] = reign[Issuer]
  PROVE  key_epoch[n] <= key_epoch[Issuer]
  <1> USE NodeAssumption DEF IInv
  <1>1. key_epoch[n] \in Nat /\ key_epoch[Issuer] \in Nat
    BY BoundAssumption DEF TypeOK
  <1>2. CASE n # Issuer /\ key_epoch[n] > 0
    <2>1. PICK a \in air : Source(a, n)
      BY <1>2 DEF MemberHasMsg
    <2>2. QED
      BY <1>2, <2>1 DEF Source, MsgBehind
  <1>3. QED
    BY <1>1, <1>2

\* Before any key is loaded nothing can disagree.
LEMMA InitIInv == Init => IInv
  BY NodeAssumption, BoundAssumption
  DEF Init, IInv, TypeOK, MsgUnique, MsgBehind, MsgIssuer, MemberHasMsg, Key, NoKey, Gun

\* Loading keys locally moves no epoch and marks the radio.
LEMMA LoadIInv ==
  ASSUME IInv, NEW n \in Node, NEW k \in Key, NEW t \in Key, NEW f \in Key,
         Load(n, k, t, f), minted' \in Key, started' \in [Node -> BOOLEAN]
  PROVE  IInv'
  <1> USE NodeAssumption DEF IInv
  <1>1. TypeOK'
    BY DEF Load, TypeOK
  <1>2. MsgUnique' /\ MsgBehind'
    BY DEF Load, MsgUnique, MsgBehind
  <1>3. MsgIssuer'
    BY DEF Load, MsgIssuer, TypeOK
  <1>4. MemberHasMsg'
    <2> SUFFICES ASSUME NEW x \in Node \ {Issuer}, key_epoch'[x] > 0
                 PROVE  \E a \in air' : Source(a, x)'
      BY DEF MemberHasMsg
    <2>1. PICK a \in air : Source(a, x)
      BY DEF MemberHasMsg, Load
    <2>2. Source(a, x)'
      BY <2>1 DEF Source, Load, TypeOK
    <2>3. QED
      BY <2>2 DEF Load
  <1>5. QED
    BY <1>1, <1>2, <1>3, <1>4

\* rotate_tek() moves to an epoch no message has.
LEMMA RotateIInv == ASSUME IInv, rotate_tek PROVE IInv'
  <1> USE NodeAssumption, BoundAssumption DEF IInv
  <1>1. TypeOK'
    BY DEF rotate_tek, TypeOK, Key, NoKey
  <1>2. key_epoch'[Issuer] = key_epoch[Issuer] + 1 /\ key_epoch[Issuer] \in Nat
    BY DEF rotate_tek, TypeOK
  <1>3. \A a \in air : a.key_epoch \in Nat
    BY DEF TypeOK, OtarMessage
  <1>4. MsgUnique' /\ MsgBehind'
    BY <1>2, <1>3 DEF rotate_tek, MsgUnique, MsgBehind
  <1>5. MsgIssuer'
    BY <1>2, <1>3 DEF rotate_tek, MsgIssuer, MsgBehind
  <1>6. MemberHasMsg'
    BY DEF rotate_tek, MemberHasMsg, Source, TypeOK
  <1>7. QED
    BY <1>1, <1>4, <1>5, <1>6

\* generate_otar_message() puts the issuer's keys on the air under a new epoch.
LEMMA GenerateIInv == ASSUME IInv, generate_otar_message PROVE IInv'
  <1> USE NodeAssumption, BoundAssumption DEF IInv
  <1> DEFINE new == [key_epoch |-> key_epoch[Issuer] + 1, under |-> kek[Issuer],
                     tek |-> tek[Issuer], fhek |-> fhek[Issuer], reign |-> reign[Issuer]]
  <1>1. air' = air \union {new}
    BY DEF generate_otar_message, NextEpoch
  <1>2. /\ key_epoch'[Issuer] = key_epoch[Issuer] + 1
        /\ key_epoch[Issuer] \in Nat /\ key_epoch[Issuer] < MaxEpoch
        /\ reign[Issuer] \in Nat
    BY DEF generate_otar_message, TypeOK
  <1>3. new \in OtarMessage
    BY <1>2 DEF TypeOK, OtarMessage
  <1>4. /\ new.key_epoch = key_epoch[Issuer] + 1
        /\ new.reign = reign[Issuer]
        /\ new.tek = tek[Issuer]
        /\ new.fhek = fhek[Issuer]
    OBVIOUS
  <1> HIDE DEF new
  <1>5. TypeOK'
    BY <1>1, <1>3 DEF generate_otar_message, TypeOK
  <1>6. \A a \in air : a.key_epoch \in Nat
    BY DEF TypeOK, OtarMessage
  <1>7. \A a \in air : ~(a.reign = new.reign /\ a.key_epoch = new.key_epoch)
    BY <1>2, <1>4, <1>6 DEF MsgBehind
  <1>8. MsgUnique'
    BY <1>1, <1>7 DEF MsgUnique
  <1>9. UNCHANGED <<tek, fhek, reign>>
    BY DEF generate_otar_message
  <1>10. MsgBehind'
    BY <1>1, <1>2, <1>4, <1>6, <1>9 DEF MsgBehind
  <1>11. MsgIssuer'
    BY <1>1, <1>2, <1>4, <1>6, <1>9 DEF MsgIssuer, MsgBehind
  <1>12. MemberHasMsg'
    BY <1>1 DEF generate_otar_message, MemberHasMsg, Source, TypeOK
  <1>13. QED
    BY <1>5, <1>8, <1>10, <1>11, <1>12

\* process_otar_message() makes the message the source of the radio's state.
LEMMA ProcessIInv ==
  ASSUME IInv, NEW n \in Node \ {Issuer}, NEW m \in air, NEW tek_ok, NEW fhek_ok,
         process_otar_message(n, m, tek_ok, fhek_ok)
  PROVE  IInv'
  <1> USE NodeAssumption, BoundAssumption DEF IInv
  <1>1. /\ m.key_epoch \in 1 .. MaxEpoch /\ m.tek \in Key /\ m.fhek \in Key
        /\ m.reign \in 0 .. MaxReign
    BY DEF TypeOK, OtarMessage
  <1>2. TypeOK'
    BY <1>1 DEF process_otar_message, TypeOK
  <1>3. MsgUnique'
    BY DEF process_otar_message, MsgUnique
  <1>4. MsgBehind' /\ MsgIssuer'
    BY DEF process_otar_message, MsgBehind, MsgIssuer, TypeOK
  <1>5. MemberHasMsg'
    <2> SUFFICES ASSUME NEW x \in Node \ {Issuer}, key_epoch'[x] > 0
                 PROVE  \E a \in air' : Source(a, x)'
      BY DEF MemberHasMsg
    <2>1. CASE x = n
      <3>1. Source(m, x)'
        BY <2>1 DEF Source, process_otar_message, TypeOK
      <3>2. QED
        BY <3>1 DEF process_otar_message
    <2>2. CASE x # n
      <3>1. PICK a \in air : Source(a, x)
        BY <2>2 DEF MemberHasMsg, process_otar_message, TypeOK
      <3>2. Source(a, x)'
        BY <2>2, <3>1 DEF Source, process_otar_message, TypeOK
      <3>3. QED
        BY <3>2 DEF process_otar_message
    <2>3. QED
      BY <2>1, <2>2
  <1>6. QED
    BY <1>2, <1>3, <1>4, <1>5

\* A member that is cleared forgets its epoch; the issuer starts a new reign.
LEMMA ClearIInv ==
  ASSUME IInv, NEW n \in Node, Clear(n), started' \in [Node -> BOOLEAN]
  PROVE  IInv'
  <1> USE NodeAssumption, BoundAssumption DEF IInv
  <1>1. TypeOK'
    <2>1. NoKey \in Key /\ 0 \in 0 .. MaxEpoch
      BY DEF Key, NoKey
    <2>2. (IF n = Issuer THEN reign[n] + 1 ELSE reign[n]) \in 0 .. MaxReign
      BY DEF Clear, TypeOK
    <2>3. /\ kek' \in [Node -> Key] /\ tek' \in [Node -> Key] /\ fhek' \in [Node -> Key]
          /\ key_epoch' \in [Node -> 0 .. MaxEpoch]
      BY <2>1 DEF Clear, TypeOK
    <2>4. reign' \in [Node -> 0 .. MaxReign] /\ replaced' \in [Node -> BOOLEAN]
      BY <2>2 DEF Clear, TypeOK
    <2>5. QED
      BY <2>3, <2>4 DEF Clear, TypeOK
  <1>2. MsgUnique'
    BY DEF Clear, MsgUnique
  <1>3. \A a \in air : a.reign \in Nat
    BY DEF TypeOK, OtarMessage
  <1>4. reign[Issuer] \in Nat
    BY DEF TypeOK
  <1>5. MsgBehind' /\ MsgIssuer'
    <2>1. CASE n = Issuer
      <3>1. reign'[Issuer] = reign[Issuer] + 1 /\ air' = air
        BY <2>1 DEF Clear, TypeOK
      <3>2. \A a \in air' : a.reign < reign'[Issuer]
        BY <3>1, <1>3, <1>4 DEF MsgBehind
      <3>3. QED
        BY <3>1, <3>2, <1>3, <1>4 DEF MsgBehind, MsgIssuer
    <2>2. CASE n # Issuer
      BY <2>2 DEF Clear, MsgBehind, MsgIssuer, TypeOK
    <2>3. QED
      BY <2>1, <2>2
  <1>6. MemberHasMsg'
    <2> SUFFICES ASSUME NEW x \in Node \ {Issuer}, key_epoch'[x] > 0
                 PROVE  \E a \in air' : Source(a, x)'
      BY DEF MemberHasMsg
    <2>1. x # n
      BY DEF Clear, TypeOK
    <2>2. PICK a \in air : Source(a, x)
      BY <2>1 DEF MemberHasMsg, Clear, TypeOK
    <2>3. Source(a, x)'
      BY <2>1, <2>2 DEF Source, Clear, TypeOK
    <2>4. QED
      BY <2>3 DEF Clear
  <1>7. QED
    BY <1>1, <1>2, <1>5, <1>6

\* IInv is inductive.
LEMMA NextIInv == IInv /\ [Next]_vars => IInv'
  <1> SUFFICES ASSUME IInv, [Next]_vars PROVE IInv'
    OBVIOUS
  <1>1. Gun.kek \in Key /\ Gun.tek \in Key /\ Gun.fhek \in Key
    BY BoundAssumption DEF Gun, Key, NoKey
  <1>2. minted \in Key
    BY DEF IInv, TypeOK
  <1>3. ASSUME NEW n \in Node, set_raw(n) PROVE IInv'
    <2>1. started' \in [Node -> BOOLEAN]
      BY <1>3 DEF set_raw, IInv, TypeOK
    <2>2. QED
      BY <1>1, <1>2, <1>3, <2>1, LoadIInv DEF set_raw
  <1>4. ASSUME NEW n \in Node, StartProvisioned(n) PROVE IInv'
    <2>1. minted + 1 \in Key /\ minted' \in Key
      BY <1>2, <1>4, BoundAssumption DEF StartProvisioned, Key, NoKey
    <2>2. started' \in [Node -> BOOLEAN]
      BY <1>4 DEF StartProvisioned, Start, IInv, TypeOK
    <2>3. QED
      BY <1>1, <1>4, <2>1, <2>2, LoadIInv DEF StartProvisioned
  <1>5. ASSUME NEW n \in Node, StartGenerated(n) PROVE IInv'
    <2>1. minted + 1 \in Key /\ minted + 2 \in Key /\ minted + 3 \in Key /\ minted' \in Key
      BY <1>2, <1>5, BoundAssumption DEF StartGenerated, Key, NoKey
    <2>2. started' \in [Node -> BOOLEAN]
      BY <1>5 DEF StartGenerated, Start, IInv, TypeOK
    <2>3. QED
      BY <1>5, <2>1, <2>2, LoadIInv DEF StartGenerated
  <1>6. ASSUME NEW n \in Node, generate_key(n) PROVE IInv'
    <2>1. /\ minted + 1 \in Key /\ minted' \in Key
          /\ kek[n] \in Key /\ tek[n] \in Key /\ fhek[n] \in Key
          /\ started' \in [Node -> BOOLEAN]
      BY <1>2, <1>6, BoundAssumption DEF generate_key, Key, NoKey, IInv, TypeOK
    <2>2. QED
      BY <1>6, <2>1, LoadIInv DEF generate_key
  <1>7. CASE UNCHANGED vars
    BY <1>7 DEF vars, keys, IInv, TypeOK, MsgUnique, MsgBehind, MsgIssuer, MemberHasMsg, Source
  <1>8. ASSUME NEW n \in Node, zeroize(n) \/ Restart(n) PROVE IInv'
    <2>1. started' \in [Node -> BOOLEAN]
      BY <1>8 DEF zeroize, Restart, IInv, TypeOK
    <2>2. QED
      BY <1>8, <2>1, ClearIInv DEF zeroize, Restart
  <1>9. QED
    BY <1>3, <1>4, <1>5, <1>6, <1>7, <1>8, RotateIInv, GenerateIInv, ProcessIInv DEF Next

\* Type correctness of every key manager of the net.
THEOREM KeyTypeCorrect == Spec => []TypeOK
  <1>1. IInv => TypeOK
    BY DEF IInv
  <1>2. QED
    BY <1>1, InitIInv, NextIInv, PTL DEF Spec

\* Radios at the same epoch share TEK and FHEK, for any number of radios and
\* whatever the air does to the OTAR messages.
THEOREM KeyAgreement == Spec => []AgreementAtEpoch
  <1>1. IInv => AgreementAtEpoch
    BY IInvAgreement
  <1>2. QED
    BY <1>1, InitIInv, NextIInv, PTL DEF Spec

\* A rekey just sent is taken by every radio that has its KEK and no epoch from
\* an earlier life of the issuer: none is ahead of the issuer (NotAhead), and no
\* earlier message has the new one's epoch (MsgBehind).
THEOREM KeyFreshAccepted == Spec => FreshRekeyAccepted
  <1>1. ASSUME IInv, generate_otar_message,
               NEW n \in Node \ {Issuer}, NEW m \in air',
               m.key_epoch = NextEpoch, m.reign = reign[Issuer], kek[n] = kek[Issuer],
               key_epoch[n] = 0 \/ reign[n] = reign[Issuer]
        PROVE  Accepts(n, m, TRUE, TRUE)
    <2>1. key_epoch[n] <= key_epoch[Issuer]
      BY <1>1, NotAhead
    <2>2. key_epoch[n] \in Nat /\ key_epoch[Issuer] \in Nat
      BY <1>1, NodeAssumption DEF IInv, TypeOK
    <2>3. m \notin air
      BY <1>1, <2>2 DEF IInv, MsgBehind, NextEpoch
    <2>4. m.under = kek[Issuer]
      BY <1>1, <2>3 DEF generate_otar_message
    <2>5. kek[n] # NoKey
      BY <1>1 DEF generate_otar_message, is_initialized
    <2>6. m.key_epoch > key_epoch[n]
      BY <1>1, <2>1, <2>2 DEF NextEpoch
    <2>7. QED
      BY <1>1, <2>4, <2>5, <2>6 DEF Accepts
  <1> DEFINE Taken == generate_otar_message =>
        \A n \in Node \ {Issuer}, m \in air' :
            /\ m.key_epoch = NextEpoch /\ m.reign = reign[Issuer]
            /\ kek[n] = kek[Issuer]
            /\ key_epoch[n] = 0 \/ reign[n] = reign[Issuer]
            => Accepts(n, m, TRUE, TRUE)
  <1>2. IInv /\ [Next]_vars => [Taken]_vars
    BY <1>1
  <1> HIDE DEF Taken
  <1>3. Spec => [][Taken]_vars
    BY <1>2, InitIInv, NextIInv, PTL DEF Spec
  <1>4. QED
    BY <1>3 DEF Taken, FreshRekeyAccepted
=============================================================================
