------------------------------ MODULE CertReload ------------------------------
(***************************************************************************)
(* The certificate of the QUIC listener: run_quic and spawn_cert_reload    *)
(* (crates/hydr-server/src/lib.rs), load_or_generate_self_signed and       *)
(* write_pem (crates/hydr-transport/src/tls.rs).  The certificate and its  *)
(* key are two files.  At the start they are loaded, or generated and      *)
(* saved if there are none; afterwards the watcher loads them again after  *)
(* a SIGHUP, or when the modification time of the certificate's file has   *)
(* changed.  Meanwhile the operator replaces the files, one by one, in the *)
(* order it likes, and the process may be killed and started again.        *)
(*                                                                         *)
(* An identity, a certificate with its key, is a number.  It is written to *)
(* a file once, by a rename, so that it stands for the file's modification *)
(* time as well.  Files are replaced and never removed.  A generated pair  *)
(* can always be saved.                                                    *)
(***************************************************************************)
EXTENDS Integers

CONSTANTS
    MaxIdentities,  \* bound: identities made, by the server or the operator
    MaxCrashes      \* bound: times the process is killed

ASSUME CertAssumption == MaxIdentities \in Nat /\ MaxCrashes \in Nat

NoFile == 0     \* no file, no certificate
Unread == -1    \* last_mtime before the first look

VARIABLES
    certFile, keyFile,  \* the identity in each file
    identities,         \* identities made so far
    watcher,            \* control point of run_quic, then of the watcher
    last_mtime,
    loaded,             \* the certificate the load in hand has read or generated
    served,             \* the identity of the endpoint, and current_fp
    hup,                \* a SIGHUP has not been seen yet
    newest,             \* the identity the operator deployed last, and
    keyFirst,           \* whether it wrote the key first
    shown,              \* history: the first identity served
    crashes

fileVars == <<certFile, keyFile>>
deployVars == <<newest, keyFirst>>
historyVars == <<shown, crashes>>
certVars == <<fileVars, identities, watcher, last_mtime, loaded, served, hup, deployVars,
              historyVars>>

CertInit ==
    /\ certFile = NoFile /\ keyFile = NoFile
    /\ identities = 0
    /\ watcher = "load" /\ last_mtime = Unread /\ loaded = NoFile
    /\ served = NoFile /\ hup = FALSE
    /\ newest = NoFile /\ keyFirst = FALSE
    /\ shown = NoFile /\ crashes = 0

At(source, target) == watcher = source /\ watcher' = target

\* Where an error of the load leads: at the start the listener is not opened.
Failing == IF served = NoFile THEN "failed" ELSE "watching"

Serves(id) ==
    /\ served' = id
    /\ shown' = IF shown = NoFile THEN id ELSE shown

----------------------------------------------------------------------------
(* load_or_generate_self_signed, at the start and from the watcher *)

\* Both files exist, and the certificate is read.
LoadCert ==
    /\ certFile # NoFile /\ keyFile # NoFile
    /\ At("load", "key")
    /\ loaded' = certFile
    /\ UNCHANGED <<fileVars, identities, last_mtime, served, hup, deployVars, historyVars>>

\* One of them does not.
LoadRefused ==
    /\ (certFile = NoFile) # (keyFile = NoFile)
    /\ At("load", Failing)
    /\ UNCHANGED <<fileVars, identities, last_mtime, loaded, served, hup, deployVars, historyVars>>

\* Neither does: a new identity is generated.  The mutant serves it unsaved.
GenerateUnsaved ==
    /\ certFile = NoFile /\ keyFile = NoFile /\ identities < MaxIdentities
    /\ At("load", "watching")
    /\ identities' = identities + 1
    /\ Serves(identities')
    /\ UNCHANGED <<fileVars, loaded, last_mtime, hup, deployVars, crashes>>
Generate ==
    /\ certFile = NoFile /\ keyFile = NoFile /\ identities < MaxIdentities
    /\ At("load", "saveCert")
    /\ identities' = identities + 1
    /\ loaded' = identities'
    /\ UNCHANGED <<fileVars, last_mtime, served, hup, deployVars, historyVars>>

\* write_pem of the certificate, then of the key, then the endpoint.
SaveCert ==
    /\ At("saveCert", "saveKey")
    /\ certFile' = loaded
    /\ UNCHANGED <<keyFile, identities, last_mtime, loaded, served, hup, deployVars, historyVars>>
SaveKey ==
    /\ At("saveKey", "watching")
    /\ keyFile' = loaded
    /\ Serves(loaded)
    /\ UNCHANGED <<certFile, identities, last_mtime, loaded, hup, deployVars, crashes>>

\* The key is read.  The fingerprint has not changed; or rustls finds that the key
\* is not the certificate's, an error; or the endpoint gets the new identity.
LoadKey ==
    /\ \/ At("key", "watching") /\ (loaded = served \/ loaded = keyFile)
       \/ At("key", Failing) /\ loaded # served /\ loaded # keyFile
    /\ IF loaded # served /\ loaded = keyFile THEN Serves(loaded) ELSE UNCHANGED <<served, shown>>
    /\ UNCHANGED <<fileVars, identities, last_mtime, loaded, hup, deployVars, crashes>>

----------------------------------------------------------------------------
(* spawn_cert_reload *)

\* SIGHUP: the files are loaded whatever their age.
Hangup ==
    /\ hup
    /\ At("watching", "load")
    /\ hup' = FALSE
    /\ last_mtime' = certFile
    /\ UNCHANGED <<fileVars, identities, loaded, served, deployVars, historyVars>>

\* The timer ticks and the certificate's file is not the one of the last look.
Notice ==
    /\ certFile # last_mtime
    /\ At("watching", "load")
    /\ last_mtime' = certFile
    /\ UNCHANGED <<fileVars, identities, loaded, served, hup, deployVars, historyVars>>

----------------------------------------------------------------------------
(* The operator and the machine *)

\* A new identity is put in place, beginning with one of the files.
Deploy(keyIsFirst) ==
    /\ identities < MaxIdentities
    /\ identities' = identities + 1
    /\ newest' = identities' /\ keyFirst' = keyIsFirst
    /\ IF keyIsFirst
         THEN keyFile' = identities' /\ UNCHANGED certFile
         ELSE certFile' = identities' /\ UNCHANGED keyFile
    /\ UNCHANGED <<watcher, last_mtime, loaded, served, hup, shown, crashes>>

\* The other file follows.
Complete(n) == newest = n /\ certFile = n /\ keyFile = n
FinishDeploy ==
    /\ newest # NoFile
    /\ IF keyFirst
         THEN certFile # newest /\ certFile' = newest /\ UNCHANGED keyFile
         ELSE keyFile # newest /\ keyFile' = newest /\ UNCHANGED certFile
    /\ UNCHANGED <<identities, watcher, last_mtime, loaded, served, hup, deployVars, historyVars>>

Signal ==
    /\ served # NoFile /\ ~hup
    /\ hup' = TRUE
    /\ UNCHANGED <<fileVars, identities, watcher, last_mtime, loaded, served, deployVars, historyVars>>

\* The process is killed between any two steps, and started again.
Crash ==
    /\ crashes < MaxCrashes
    /\ crashes' = crashes + 1
    /\ watcher' = "load" /\ last_mtime' = Unread /\ loaded' = NoFile
    /\ served' = NoFile /\ hup' = FALSE
    /\ UNCHANGED <<fileVars, identities, deployVars, shown>>

----------------------------------------------------------------------------
Watching ==
    LoadCert \/ LoadRefused \/ Generate \/ SaveCert \/ SaveKey \/ LoadKey \/ Hangup \/ Notice

CertNext ==
    \/ Watching
    \/ \E keyIsFirst \in BOOLEAN : Deploy(keyIsFirst)
    \/ FinishDeploy \/ Signal \/ Crash

CertSpec == CertInit /\ [][CertNext]_certVars

\* The timer ticks for ever, and a load that has begun goes on.
FairCertSpec == CertSpec /\ WF_certVars(Watching)

----------------------------------------------------------------------------
CertTypeOK ==
    /\ {certFile, keyFile, identities, loaded, served, newest, shown} \subseteq Nat
    /\ last_mtime \in Nat \cup {Unread}
    /\ watcher \in {"load", "key", "saveCert", "saveKey", "watching", "failed"}
    /\ hup \in BOOLEAN /\ keyFirst \in BOOLEAN
    /\ crashes \in 0..MaxCrashes

\* Comment of run_quic: "hot reload of the PEM files without a restart: SIGHUP
\* (unix) + polling of the mtime (every OS)".  A pair that is complete is served in
\* the end, unless the listener could not be opened at the start.
ReloadCompletes ==
    \A n \in 1..MaxIdentities :
        Complete(n) ~> served = n \/ ~Complete(n) \/ watcher = "failed"

\* "The paths fix the identity of the server: the fingerprint survives
\* restarts": as long as the operator deploys nothing, the identity that was
\* served first is the only one ever served, wherever the process is killed.
IdentitySurvives == newest = NoFile => served \in {NoFile, shown}
=============================================================================
