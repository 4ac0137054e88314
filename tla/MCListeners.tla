---------------------------- MODULE MCListeners ----------------------------
(***************************************************************************)
(* What the listeners of a server keep, for TLC: the connections they      *)
(* admit (Admission), the packets they accept on an obfuscated WebSocket   *)
(* connection (ReplayFilter) and the certificate of the QUIC listener      *)
(* (CertReload).  The three share nothing, so that it is enough to let one *)
(* of them move while the others are at their start.  Connections and      *)
(* nonces are interchangeable.                                             *)
(***************************************************************************)
EXTENDS Admission, ReplayFilter, CertReload, TLC

Interchangeable == Permutations(Conns) \cup Permutations(Nonces)

MCInit == Init /\ FilterInit /\ CertInit

MCNext ==
    \/ FilterInit /\ CertInit /\ Next /\ UNCHANGED <<filterVars, certVars>>
    \/ Init /\ CertInit /\ FilterNext /\ UNCHANGED <<vars, certVars>>
    \/ Init /\ FilterInit /\ CertNext /\ UNCHANGED <<vars, filterVars>>

MCSpec == MCInit /\ [][MCNext]_<<vars, filterVars, certVars>>
=============================================================================
