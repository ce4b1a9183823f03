----------------------------- MODULE ServerTrust -----------------------------
(***************************************************************************)
(* Trust on first use: the certificate an engine serves                    *)
(* (control/tls.rs) and the one a headset pins (tcp_client.cpp).  Engines  *)
(* and app die at any step, files are damaged, cannot be read or written,  *)
(* and the user points the headset at one PC or the other.                 *)
(*                                                                         *)
(* A certificate is a number: those of one process are not those of        *)
(* another.  The bytes of the container file with its digest, and those of *)
(* the fingerprint, are abstracted to "whole" and "damaged".               *)
(***************************************************************************)
EXTENDS Naturals, FiniteSets

CONSTANTS
  PCs,
  MaxCertificates,  \* bound: certificates made
  MaxFaults         \* bound: files damaged, unreadable or not written

ASSUME TrustAssumption == MaxCertificates \in Nat /\ MaxFaults \in Nat

VARIABLES
  identityFile,  \* of each PC: 0 missing, Damaged, or a certificate
  acceptor,      \* SHARED_ACCEPTOR of each engine process: 0 until one is made
  minted,        \* the certificate generated and not yet served, or 0
  issued,        \* certificates made so far
  pinFile,       \* the client's: 0 missing or empty, Damaged, or a certificate
  pinned,        \* m_pinnedFingerprint
  link,          \* the control connection: [pc, peer, needsPinning, unread, at]; unread is history:
                 \* it was made while pinFile could not be read
  faulty,        \* history: PCs whose file was damaged, unreadable or not saved
  served,        \* history: the certificates each PC ever served
  verified,      \* history: certificates of connections on which the PIN was accepted
  firstPin,      \* history: the first certificate written to pinFile
  pinLost        \* history: pinFile was damaged, or given up for a server that accepted the PIN on
                 \* a connection made while it could not be read

identityVars == <<identityFile, acceptor, minted, issued>>
clientVars == <<pinFile, pinned, link>>
trustVars == <<identityVars, clientVars, faulty, served, verified, firstPin, pinLost>>

Damaged == MaxCertificates + 1
Certificates == 1 .. MaxCertificates
NoLink == [pc |-> 0, peer |-> 0, needsPinning |-> FALSE, unread |-> FALSE, at |-> "closed"]
Loads(pc) == identityFile[pc] \in Certificates

-----------------------------------------------------------------------------
(***************************************************************************)
(* Engine.                                                                 *)
(***************************************************************************)
Serves(pc, certificate) ==
  /\ acceptor' = [acceptor EXCEPT ![pc] = certificate]
  /\ served' = [served EXCEPT ![pc] = @ \cup {certificate}]

\* load_or_create_identity() finds a whole file.
LoadIdentity(pc) ==
  /\ acceptor[pc] = 0 /\ minted[pc] = 0
  /\ Loads(pc)
  /\ Serves(pc, identityFile[pc])
  /\ UNCHANGED <<identityFile, minted, issued, clientVars, faulty, verified, firstPin, pinLost>>

Generates(pc) ==
  /\ acceptor[pc] = 0 /\ minted[pc] = 0
  /\ issued < MaxCertificates
  /\ issued' = issued + 1
  /\ minted' = [minted EXCEPT ![pc] = issued + 1]

\* There is no file, or one that does not parse and is moved aside.
Generate(pc) ==
  /\ ~Loads(pc)
  /\ Generates(pc)
  /\ identityFile' = [identityFile EXCEPT ![pc] = 0]
  /\ UNCHANGED <<acceptor, clientVars, faulty, served, verified, firstPin, pinLost>>

\* The file is there and cannot be read: a new certificate is issued, to be saved over it.
IdentityUnreadable(pc) ==
  /\ Cardinality(faulty) < MaxFaults
  /\ Loads(pc)
  /\ Generates(pc)
  /\ faulty' = faulty \cup {pc}
  /\ UNCHANGED <<identityFile, acceptor, clientVars, served, verified, firstPin, pinLost>>

\* Mutant of Persist: the certificate is served before it is on disk.
PersistLater(pc) ==
  /\ minted[pc] # 0 /\ acceptor[pc] = 0
  /\ Serves(pc, minted[pc])
  /\ UNCHANGED <<identityFile, minted, issued, clientVars, faulty, verified, firstPin, pinLost>>

\* persist_identity(): temporary file, sync, rename; then the certificate is served.
Persist(pc) ==
  /\ minted[pc] # 0
  /\ identityFile' = [identityFile EXCEPT ![pc] = minted[pc]]
  /\ minted' = [minted EXCEPT ![pc] = 0]
  /\ Serves(pc, minted[pc])
  /\ UNCHANGED <<issued, clientVars, faulty, verified, firstPin, pinLost>>

\* It could not be saved, and is served for this process.
PersistFails(pc) ==
  /\ Cardinality(faulty) < MaxFaults
  /\ minted[pc] # 0
  /\ minted' = [minted EXCEPT ![pc] = 0]
  /\ Serves(pc, minted[pc])
  /\ faulty' = faulty \cup {pc}
  /\ UNCHANGED <<identityFile, issued, clientVars, verified, firstPin, pinLost>>

EngineDies(pc) ==
  /\ acceptor[pc] # 0 \/ minted[pc] # 0
  /\ acceptor' = [acceptor EXCEPT ![pc] = 0]
  /\ minted' = [minted EXCEPT ![pc] = 0]
  /\ link' = IF link.pc = pc THEN NoLink ELSE link
  /\ UNCHANGED <<identityFile, issued, pinFile, pinned, faulty, served, verified, firstPin, pinLost>>

FileDamaged(pc) ==
  /\ Cardinality(faulty) < MaxFaults
  /\ Loads(pc)
  /\ identityFile' = [identityFile EXCEPT ![pc] = Damaged]
  /\ faulty' = faulty \cup {pc}
  /\ UNCHANGED <<acceptor, minted, issued, clientVars, served, verified, firstPin, pinLost>>

-----------------------------------------------------------------------------
(***************************************************************************)
(* Client.                                                                 *)
(***************************************************************************)

\* connect(): the TLS handshake, then checkServerCert(). A pin file that cannot be read is taken
\* for none.
ConnectOverTls(pc) ==
  /\ link.at = "closed"
  /\ acceptor[pc] # 0
  /\ \E read \in {pinFile, 0} :
       LET pin == IF pinned = 0 THEN read ELSE pinned
       IN /\ pinned' = pin
          /\ link' = IF pin \in {0, acceptor[pc]}
                     THEN [pc |-> pc, peer |-> acceptor[pc], needsPinning |-> pin = 0,
                           unread |-> pin = 0 /\ pinFile # 0, at |-> "checked"]
                     ELSE NoLink
  /\ UNCHANGED <<identityVars, pinFile, faulty, served, verified, firstPin, pinLost>>

\* handshake(): PIN_RESULT says that the PIN is right.
PinAccepted ==
  /\ link.at = "checked"
  /\ link' = [link EXCEPT !.at = "paired"]
  /\ verified' = verified \cup {link.peer}
  /\ UNCHANGED <<identityVars, pinFile, pinned, faulty, served, firstPin, pinLost>>

\* pinPeerFingerprint() when a server is pinned already.
PinKept ==
  /\ link.at = "paired" /\ ~link.needsPinning
  /\ link' = [link EXCEPT !.at = "trusted"]
  /\ UNCHANGED <<identityVars, pinFile, pinned, faulty, served, verified, firstPin, pinLost>>

\* pinPeerFingerprint(): the file is truncated ...
TruncatePin ==
  /\ link.at = "paired" /\ link.needsPinning
  /\ pinFile' = 0
  /\ link' = [link EXCEPT !.at = "writing"]
  /\ pinLost' = (pinLost \/ link.unread)
  /\ UNCHANGED <<identityVars, pinned, faulty, served, verified, firstPin>>

\* ... and written.
WritePin ==
  /\ link.at = "writing"
  /\ pinFile' = link.peer /\ pinned' = link.peer
  /\ link' = [link EXCEPT !.at = "trusted", !.needsPinning = FALSE]
  /\ firstPin' = IF firstPin = 0 THEN link.peer ELSE firstPin
  /\ UNCHANGED <<identityVars, faulty, served, verified, pinLost>>

\* A write that fails half way, or the loss of power, leaves a part of the fingerprint or nothing.
PinFileDamaged ==
  /\ pinFile # 0 \/ link.at = "writing"
  /\ pinFile' \in {0, Damaged}
  /\ pinned' = 0 /\ link' = NoLink
  /\ pinLost' = TRUE
  /\ UNCHANGED <<identityVars, faulty, served, verified, firstPin>>

\* disconnect(): a step of the handshake fails, the pin cannot be written, or the session is over.
Disconnect ==
  /\ link.at # "closed"
  /\ link' = NoLink
  /\ UNCHANGED <<identityVars, pinFile, pinned, faulty, served, verified, firstPin, pinLost>>

HeadsetAppDies ==
  /\ pinned # 0 \/ link # NoLink
  /\ pinned' = 0 /\ link' = NoLink
  /\ UNCHANGED <<identityVars, pinFile, faulty, served, verified, firstPin, pinLost>>

TrustInit ==
  /\ identityFile = [pc \in PCs |-> 0]
  /\ acceptor = [pc \in PCs |-> 0] /\ minted = [pc \in PCs |-> 0]
  /\ issued = 0
  /\ pinFile = 0 /\ pinned = 0 /\ link = NoLink
  /\ faulty = {} /\ served = [pc \in PCs |-> {}] /\ verified = {} /\ firstPin = 0
  /\ pinLost = FALSE

TrustNext ==
  \/ \E pc \in PCs :
       \/ LoadIdentity(pc) \/ Generate(pc) \/ IdentityUnreadable(pc) \/ Persist(pc) \/ PersistFails(pc)
       \/ EngineDies(pc) \/ FileDamaged(pc) \/ ConnectOverTls(pc)
  \/ PinAccepted \/ PinKept \/ TruncatePin \/ WritePin \/ PinFileDamaged \/ Disconnect \/ HeadsetAppDies

TrustSpec == TrustInit /\ [][TrustNext]_trustVars

-----------------------------------------------------------------------------
\* A pin is the certificate of a server that accepted the PIN, whatever became of the file, and a
\* trusted connection is to such a server and to the pinned one.
PinIsProved ==
  /\ firstPin \in verified \cup {0}
  /\ {pinned, pinFile} \subseteq verified \cup {0, Damaged}
  /\ link.at = "trusted" => link.peer = pinned /\ link.peer \in verified

\* It outlives the app and every connection to another PC, those made without it included unless
\* that PC accepts the PIN, too.
PinIsKept == ~pinLost => pinFile = firstPin /\ pinned \in {0, pinFile}

\* A PC whose file was always read and written serves one certificate in all its processes.
IdentityIsKept == \A pc \in PCs \ faulty : Cardinality(served[pc]) <= 1

\* A headset that pinned such a PC, and whose own file was not lost, gets through to it in every
\* later run of both, and through to no other.
PairingOutlivesRestarts ==
  /\ PinIsProved
  /\ PinIsKept
  /\ IdentityIsKept
  /\ \A pc \in PCs \ faulty :
       firstPin \in served[pc] =>
         /\ acceptor[pc] \in {0, firstPin}
         /\ link.at = "trusted" /\ ~pinLost => link.pc = pc

=============================================================================
