----------------------------- MODULE MCRadioNet -----------------------------
(* Two radios of one net; one of its two hop channels is the discovery      *)
(* frequency.                                                               *)
EXTENDS RadioNet

CONSTANTS a, b, ghost

Two == {a, b}

\* Data for b, and voice for everyone.
DataAndVoice == {<<"data", b>>, <<"voice", Broadcast>>}

\* One beacon waits at a time: with data on the same frequency a read cuts it,
\* and in a partition, which drops beacons, a radio still runs ahead.
Leads == [n \in Node |-> 1]

\* One net: the same keys and the same hop sequence.
SharedTek == [n \in Node |-> 1]
SharedHop == [n \in Node |-> [f \in Frames |-> <<"ch1", kDiscoveryFreq>>[f + 1]]]
=============================================================================
