-------------------------- MODULE ClientProofs --------------------------
(***************************************************************************)
(* Proofs about the parts of the headset that stand beside its session: the*)
(* certificate it pins, the order of the sound it plays, the pose each     *)
(* picture is turned from, and the framing it shares with the engine on    *)
(* the control connection. Each part has its own inductive invariant; none *)
(* of them shares a variable with another.                                 *)
(***************************************************************************)
EXTENDS ServerTrust, AudioPlayback, HeadsetApp, ControlStream,
        FiniteSetTheorems, SequenceTheorems, TLAPS

-----------------------------------------------------------------------------
(* The server's certificate and the client's pin of it.                    *)

Links ==
  [pc : PCs \cup {0}, peer : 0..MaxCertificates, needsPinning : BOOLEAN, unread : BOOLEAN,
   at : {"closed", "checked", "paired", "writing", "trusted"}]

\* The certificates a PC has made its own: on disk, in memory, or served once.
Own(pc) == (served[pc] \cup {minted[pc], identityFile[pc]}) \cap Certificates

TrustTyped ==
  /\ identityFile \in [PCs -> 0..Damaged]
  /\ acceptor \in [PCs -> 0..MaxCertificates] /\ minted \in [PCs -> 0..MaxCertificates]
  /\ issued \in 0..MaxCertificates
  /\ served \in [PCs -> SUBSET Certificates]
  /\ link \in Links

\* Certificates are numbered as they are made, so no two PCs share one.
OwnApart ==
  /\ \A pc \in PCs : Own(pc) \subseteq 1..issued
  /\ \A p, q \in PCs : p # q => Own(p) \cap Own(q) = {}

\* What a PC serves it has served; without a fault it is the one on disk, and a
\* new one is made only before the first.
ServesFromDisk ==
  /\ \A pc \in PCs : acceptor[pc] \in {0} \cup served[pc]
  /\ \A pc \in PCs \ faulty :
       /\ served[pc] # {} => Loads(pc) /\ served[pc] = {identityFile[pc]}
       /\ minted[pc] # 0 => served[pc] = {}

\* The pin is of a server that accepted the PIN, or is no certificate any more.
PinProved ==
  /\ firstPin \in verified \cup {0}
  /\ {pinned, pinFile} \subseteq verified \cup {0, Damaged}

\* A connection is to the certificate of its PC; it is to be pinned as long as
\* there is no pin or it could not be read, and otherwise it is to the pinned one.
LinkFollowsPin ==
  /\ link.at # "closed" => link.pc \in PCs /\ link.peer \in served[link.pc]
  /\ link.at \in {"paired", "writing", "trusted"} => link.peer \in verified
  /\ link.needsPinning => link.at # "closed" /\ pinned = 0 /\ (pinFile = 0 \/ link.unread)
  /\ link.at # "closed" /\ ~link.needsPinning => link.peer = pinned
  /\ link.at = "writing" => link.needsPinning /\ (link.unread => pinLost)
  /\ link.at = "trusted" => ~link.needsPinning

TrustInv ==
  TrustTyped /\ OwnApart /\ ServesFromDisk /\ PinProved /\ PinIsKept /\ LinkFollowsPin

\* What the engine of a PC does, and what the headset does.
EngineActs(pc) ==
  \/ LoadIdentity(pc) \/ Generate(pc) \/ IdentityUnreadable(pc) \/ Persist(pc) \/ PersistFails(pc)
  \/ EngineDies(pc) \/ FileDamaged(pc)

HeadsetActs ==
  \/ \E pc \in PCs : ConnectOverTls(pc)
  \/ PinAccepted \/ PinKept \/ TruncatePin \/ WritePin \/ PinFileDamaged \/ Disconnect
  \/ HeadsetAppDies

\* The headset touches nothing that an engine keeps.
LEMMA HeadsetLeavesEngines ==
  ASSUME HeadsetActs
  PROVE  UNCHANGED <<identityVars, faulty, served>>
PROOF
<1>1. CASE \E pc \in PCs : ConnectOverTls(pc)
  BY <1>1 DEF ConnectOverTls
<1> QED
  BY <1>1
  DEF HeadsetActs, PinAccepted, PinKept, TruncatePin, WritePin, PinFileDamaged, Disconnect,
      HeadsetAppDies

\* The engine touches nothing the headset keeps, but its death ends the connection.
LEMMA EngineLeavesHeadset ==
  ASSUME NEW pc \in PCs, EngineActs(pc)
  PROVE  /\ UNCHANGED <<pinFile, pinned, verified, firstPin, pinLost>>
         /\ link' = link \/ link' = NoLink
PROOF
<1> USE DEF clientVars
<1>1. CASE LoadIdentity(pc) BY <1>1 DEF LoadIdentity
<1>2. CASE Generate(pc) BY <1>2 DEF Generate
<1>3. CASE IdentityUnreadable(pc) BY <1>3 DEF IdentityUnreadable
<1>4. CASE Persist(pc) BY <1>4 DEF Persist
<1>5. CASE PersistFails(pc) BY <1>5 DEF PersistFails
<1>6. CASE EngineDies(pc) BY <1>6 DEF EngineDies
<1>7. CASE FileDamaged(pc) BY <1>7 DEF FileDamaged
<1> QED BY <1>1, <1>2, <1>3, <1>4, <1>5, <1>6, <1>7 DEF EngineActs

LEMMA Bounds == MaxCertificates \in Nat /\ Certificates = 1..MaxCertificates /\ Damaged = MaxCertificates + 1
PROOF
<1> QED BY TrustAssumption DEF Certificates, Damaged

\* What an action of the engine does to the variables of its own PC: its own
\* certificates and what it serves, from the disk or new.
LEMMA EngineSteps ==
  ASSUME TrustInv, NEW pc \in PCs, EngineActs(pc)
  PROVE  /\ TrustTyped' /\ OwnApart' /\ ServesFromDisk'
         /\ \A q \in PCs : served[q] \subseteq served'[q]
PROOF
<1>0. /\ identityFile \in [PCs -> 0..Damaged]
      /\ acceptor \in [PCs -> 0..MaxCertificates] /\ minted \in [PCs -> 0..MaxCertificates]
      /\ issued \in 0..MaxCertificates
      /\ served \in [PCs -> SUBSET Certificates] /\ link \in Links
  BY DEF TrustInv, TrustTyped
<1>a. /\ \A q \in PCs : Own(q) \subseteq 1..issued
      /\ \A p, q \in PCs : p # q => Own(p) \cap Own(q) = {}
  BY DEF TrustInv, OwnApart
<1>b. /\ \A q \in PCs : acceptor[q] \in {0} \cup served[q]
      /\ \A q \in PCs \ faulty :
           /\ served[q] # {} => Loads(q) /\ served[q] = {identityFile[q]}
           /\ minted[q] # 0 => served[q] = {}
  BY DEF TrustInv, ServesFromDisk
<1>c. link' \in Links
  <2>1. NoLink \in Links
    BY Bounds DEF NoLink, Links
  <2> QED BY <1>0, <2>1, EngineLeavesHeadset
<1>1. CASE LoadIdentity(pc)
  <2>1. /\ acceptor' = [acceptor EXCEPT ![pc] = identityFile[pc]]
        /\ served' = [served EXCEPT ![pc] = @ \cup {identityFile[pc]}]
        /\ identityFile[pc] \in Certificates /\ minted[pc] = 0
        /\ UNCHANGED <<identityFile, minted, issued, faulty>>
    BY <1>1 DEF LoadIdentity, Serves, Loads
  <2>2. TrustTyped'
    BY <1>0, <1>c, <2>1, Bounds DEF TrustTyped
  <2>3. \A q \in PCs : Own(q)' = Own(q)
    BY <1>0, <2>1 DEF Own
  <2>4. OwnApart'
    BY <1>a, <2>1, <2>3 DEF OwnApart
  <2>5. ServesFromDisk'
    BY <1>0, <1>b, <2>1 DEF ServesFromDisk, Loads
  <2> QED BY <1>0, <2>1, <2>2, <2>4, <2>5
<1>2. ASSUME Generates(pc), UNCHANGED <<acceptor, served>>,
             \/ ~Loads(pc) /\ faulty' = faulty /\ identityFile' = [identityFile EXCEPT ![pc] = 0]
             \/ faulty' = faulty \cup {pc} /\ identityFile' = identityFile
      PROVE  /\ TrustTyped' /\ OwnApart' /\ ServesFromDisk'
             /\ \A q \in PCs : served[q] \subseteq served'[q]
  <2>1. /\ issued < MaxCertificates /\ issued' = issued + 1
        /\ minted' = [minted EXCEPT ![pc] = issued + 1] /\ minted[pc] = 0
    BY <1>2 DEF Generates
  <2>2. TrustTyped'
    <3>0. 0 \in 0..Damaged
      BY Bounds
    <3>1. identityFile' \in [PCs -> 0..Damaged]
      BY <1>0, <1>2, <3>0
    <3>2. minted' \in [PCs -> 0..MaxCertificates] /\ issued' \in 0..MaxCertificates
      BY <1>0, <2>1, Bounds
    <3> QED BY <1>0, <1>2, <1>c, <3>1, <3>2 DEF TrustTyped
  <2>3. \A q \in PCs : q # pc => Own(q)' = Own(q)
    BY <1>0, <1>2, <2>1 DEF Own
  <2>4. Own(pc)' \subseteq Own(pc) \cup {issued + 1}
    BY <1>0, <1>2, <2>1, Bounds DEF Own
  <2>5. issued + 1 \notin 1..issued /\ 1..issued \subseteq 1..issued'
    BY <1>0, <2>1, Bounds
  <2>6. \A q \in PCs : Own(q)' \subseteq 1..issued'
    <3>1. issued + 1 \in 1..issued'
      BY <1>0, <2>1, Bounds
    <3> QED BY <1>a, <2>3, <2>4, <2>5, <3>1
  <2>7. \A p, q \in PCs : p # q => Own(p)' \cap Own(q)' = {}
    BY <1>a, <2>3, <2>4, <2>5
  <2>8. OwnApart'
    BY <2>6, <2>7 DEF OwnApart
  <2>9. ServesFromDisk'
    BY <1>0, <1>2, <1>b, <2>1 DEF ServesFromDisk, Loads
  <2> QED BY <1>2, <2>2, <2>8, <2>9
<1>3. CASE Generate(pc)
  BY <1>2, <1>3 DEF Generate
<1>4. CASE IdentityUnreadable(pc)
  BY <1>2, <1>4 DEF IdentityUnreadable
<1>5. ASSUME minted[pc] # 0, minted' = [minted EXCEPT ![pc] = 0], Serves(pc, minted[pc]), issued' = issued,
             \/ faulty' = faulty /\ identityFile' = [identityFile EXCEPT ![pc] = minted[pc]]
             \/ faulty' = faulty \cup {pc} /\ identityFile' = identityFile
      PROVE  /\ TrustTyped' /\ OwnApart' /\ ServesFromDisk'
             /\ \A q \in PCs : served[q] \subseteq served'[q]
  <2>1. /\ acceptor' = [acceptor EXCEPT ![pc] = minted[pc]]
        /\ served' = [served EXCEPT ![pc] = @ \cup {minted[pc]}]
    BY <1>5 DEF Serves
  <2>2. minted[pc] \in Certificates /\ minted[pc] \in 0..Damaged
    BY <1>0, <1>5, Bounds
  <2>3. TrustTyped'
    <3>1. identityFile' \in [PCs -> 0..Damaged]
      BY <1>0, <1>5, <2>2
    <3>2. minted' \in [PCs -> 0..MaxCertificates] /\ acceptor' \in [PCs -> 0..MaxCertificates]
      BY <1>0, <1>5, <2>1, Bounds
    <3> QED BY <1>0, <1>5, <1>c, <2>1, <2>2, <3>1, <3>2 DEF TrustTyped
  <2>4. \A q \in PCs : q # pc => Own(q)' = Own(q)
    BY <1>0, <1>5, <2>1 DEF Own
  <2>5. Own(pc)' \subseteq Own(pc)
    BY <1>0, <1>5, <2>1, <2>2, Bounds DEF Own
  <2>6. OwnApart'
    BY <1>5, <1>a, <2>4, <2>5 DEF OwnApart
  <2>7. ServesFromDisk'
    BY <1>0, <1>5, <1>b, <2>1, <2>2 DEF ServesFromDisk, Loads
  <2> QED BY <1>0, <2>1, <2>3, <2>6, <2>7
<1>6. CASE Persist(pc)
  BY <1>5, <1>6 DEF Persist
<1>7. CASE PersistFails(pc)
  BY <1>5, <1>7 DEF PersistFails
<1>8. CASE EngineDies(pc)
  <2>1. /\ acceptor' = [acceptor EXCEPT ![pc] = 0] /\ minted' = [minted EXCEPT ![pc] = 0]
        /\ UNCHANGED <<identityFile, issued, faulty, served>>
    BY <1>8 DEF EngineDies
  <2>2. TrustTyped'
    BY <1>0, <1>c, <2>1, Bounds DEF TrustTyped
  <2>3. \A q \in PCs : Own(q)' \subseteq Own(q)
    BY <1>0, <2>1, Bounds DEF Own
  <2>4. OwnApart'
    BY <1>a, <2>1, <2>3 DEF OwnApart
  <2>5. ServesFromDisk'
    BY <1>0, <1>b, <2>1 DEF ServesFromDisk, Loads
  <2> QED BY <2>1, <2>2, <2>4, <2>5
<1>9. CASE FileDamaged(pc)
  <2>1. /\ identityFile' = [identityFile EXCEPT ![pc] = Damaged] /\ faulty' = faulty \cup {pc}
        /\ UNCHANGED <<acceptor, minted, issued, served>>
    BY <1>9 DEF FileDamaged
  <2>2. TrustTyped'
    BY <1>0, <1>c, <2>1, Bounds DEF TrustTyped
  <2>3. \A q \in PCs : Own(q)' \subseteq Own(q)
    BY <1>0, <2>1, Bounds DEF Own
  <2>4. OwnApart'
    BY <1>a, <2>1, <2>3 DEF OwnApart
  <2>5. ServesFromDisk'
    BY <1>0, <1>b, <2>1 DEF ServesFromDisk, Loads
  <2> QED BY <2>1, <2>2, <2>4, <2>5
<1> QED BY <1>1, <1>3, <1>4, <1>6, <1>7, <1>8, <1>9 DEF EngineActs

\* An engine's step leaves the headset's pin, and its connection if it stays.
LEMMA EngineKeepsPin ==
  ASSUME TrustInv, NEW pc \in PCs, EngineActs(pc)
  PROVE  PinProved' /\ PinIsKept' /\ LinkFollowsPin'
PROOF
<1>1. UNCHANGED <<pinFile, pinned, verified, firstPin, pinLost>> /\ (link' = link \/ link' = NoLink)
  BY EngineLeavesHeadset
<1>2. PinProved' /\ PinIsKept'
  BY <1>1 DEF TrustInv, PinProved, PinIsKept
<1>3. CASE link' = NoLink
  <2>1. link'.at = "closed" /\ ~link'.needsPinning
    BY <1>3 DEF NoLink
  <2> QED BY <1>2, <2>1 DEF LinkFollowsPin
<1>4. CASE link' = link
  <2>1. \A q \in PCs : served[q] \subseteq served'[q]
    BY EngineSteps
  <2>2. LinkFollowsPin
    BY DEF TrustInv
  <2>3. link'.at # "closed" => link'.pc \in PCs /\ link'.peer \in served'[link'.pc]
    BY <1>4, <2>1, <2>2 DEF LinkFollowsPin
  <2>4. /\ link'.at \in {"paired", "writing", "trusted"} => link'.peer \in verified'
        /\ link'.needsPinning =>
             link'.at # "closed" /\ pinned' = 0 /\ (pinFile' = 0 \/ link'.unread)
        /\ link'.at # "closed" /\ ~link'.needsPinning => link'.peer = pinned'
        /\ link'.at = "writing" => link'.needsPinning /\ (link'.unread => pinLost')
        /\ link'.at = "trusted" => ~link'.needsPinning
    BY <1>1, <1>4, <2>2 DEF LinkFollowsPin
  <2> QED BY <1>2, <2>3, <2>4 DEF LinkFollowsPin
<1> QED BY <1>1, <1>2, <1>3, <1>4

\* A step of the headset keeps the pin and what the connection says of it.
LEMMA HeadsetKeepsPin ==
  ASSUME TrustInv, HeadsetActs
  PROVE  PinProved' /\ PinIsKept' /\ LinkFollowsPin' /\ link' \in Links
PROOF
<1>0. link \in Links /\ served \in [PCs -> SUBSET Certificates] /\ acceptor \in [PCs -> 0..MaxCertificates]
  BY DEF TrustInv, TrustTyped
<1>a. /\ firstPin \in verified \cup {0}
      /\ {pinned, pinFile} \subseteq verified \cup {0, Damaged}
      /\ ~pinLost => pinFile = firstPin /\ pinned \in {0, pinFile}
  BY DEF TrustInv, PinProved, PinIsKept
<1>b. /\ link.at # "closed" => link.pc \in PCs /\ link.peer \in served[link.pc]
      /\ link.at \in {"paired", "writing", "trusted"} => link.peer \in verified
      /\ link.needsPinning => link.at # "closed" /\ pinned = 0 /\ (pinFile = 0 \/ link.unread)
      /\ link.at # "closed" /\ ~link.needsPinning => link.peer = pinned
      /\ link.at = "writing" => link.needsPinning /\ (link.unread => pinLost)
      /\ link.at = "trusted" => ~link.needsPinning
  BY DEF TrustInv, LinkFollowsPin
<1>c. \A pc \in PCs : acceptor[pc] \in {0} \cup served[pc]
  BY DEF TrustInv, ServesFromDisk
<1>d. UNCHANGED <<served, acceptor>>
  BY HeadsetLeavesEngines DEF identityVars
<1>e. NoLink \in Links /\ NoLink.at = "closed" /\ ~NoLink.needsPinning
  BY Bounds DEF NoLink, Links
<1>1. CASE \E pc \in PCs : ConnectOverTls(pc)
  <2>1. PICK pc \in PCs : ConnectOverTls(pc)
    BY <1>1
  <2>2. PICK read \in {pinFile, 0} :
          LET pin == IF pinned = 0 THEN read ELSE pinned
          IN /\ pinned' = pin
             /\ link' = IF pin \in {0, acceptor[pc]}
                        THEN [pc |-> pc, peer |-> acceptor[pc], needsPinning |-> pin = 0,
                              unread |-> pin = 0 /\ pinFile # 0, at |-> "checked"]
                        ELSE NoLink
    BY <2>1 DEF ConnectOverTls
  <2> DEFINE pin == IF pinned = 0 THEN read ELSE pinned
  <2> DEFINE new == [pc |-> pc, peer |-> acceptor[pc], needsPinning |-> pin = 0,
                     unread |-> pin = 0 /\ pinFile # 0, at |-> "checked"]
  <2>3. /\ link.at = "closed" /\ acceptor[pc] # 0 /\ pinned' = pin
        /\ link' = IF pin \in {0, acceptor[pc]} THEN new ELSE NoLink
        /\ UNCHANGED <<pinFile, verified, firstPin, pinLost>>
    BY <2>1, <2>2 DEF ConnectOverTls
  <2>4. pin \in {0, pinFile, pinned} /\ acceptor[pc] \in served[pc]
    BY <1>c, <2>3
  <2>5. /\ new \in Links /\ new.pc = pc /\ new.peer = acceptor[pc] /\ new.needsPinning = (pin = 0)
        /\ new.unread = (pin = 0 /\ pinFile # 0) /\ new.at = "checked"
    BY <1>0 DEF Links
  <2>6. PinProved' /\ PinIsKept'
    BY <1>a, <2>3, <2>4 DEF PinProved, PinIsKept
  <2> HIDE DEF new, pin
  <2>7. CASE pin \in {0, acceptor[pc]}
    BY <1>d, <2>3, <2>4, <2>5, <2>6, <2>7 DEF LinkFollowsPin
  <2>8. CASE pin \notin {0, acceptor[pc]}
    BY <1>e, <2>3, <2>6, <2>8 DEF LinkFollowsPin
  <2> QED BY <2>7, <2>8
<1>2. CASE PinAccepted
  <2>1. /\ link.at = "checked" /\ link' = [link EXCEPT !.at = "paired"] /\ verified' = verified \cup {link.peer}
        /\ UNCHANGED <<pinFile, pinned, firstPin, pinLost>>
    BY <1>2 DEF PinAccepted
  <2>2. /\ link' \in Links /\ link'.at = "paired" /\ link'.pc = link.pc
        /\ link'.peer = link.peer /\ link'.needsPinning = link.needsPinning
        /\ link'.unread = link.unread
    BY <1>0, <2>1 DEF Links
  <2>3. PinProved' /\ PinIsKept'
    BY <1>a, <2>1 DEF PinProved, PinIsKept
  <2> QED BY <1>b, <1>d, <2>1, <2>2, <2>3 DEF LinkFollowsPin
<1>3. CASE PinKept
  <2>1. /\ link.at = "paired" /\ ~link.needsPinning /\ link' = [link EXCEPT !.at = "trusted"]
        /\ UNCHANGED <<pinFile, pinned, verified, firstPin, pinLost>>
    BY <1>3 DEF PinKept
  <2>2. /\ link' \in Links /\ link'.at = "trusted" /\ link'.pc = link.pc
        /\ link'.peer = link.peer /\ link'.needsPinning = link.needsPinning
        /\ link'.unread = link.unread
    BY <1>0, <2>1 DEF Links
  <2>3. PinProved' /\ PinIsKept'
    BY <1>a, <2>1 DEF PinProved, PinIsKept
  <2> QED BY <1>b, <1>d, <2>1, <2>2, <2>3 DEF LinkFollowsPin
<1>4. CASE TruncatePin
  <2>1. /\ link.at = "paired" /\ link.needsPinning /\ link' = [link EXCEPT !.at = "writing"]
        /\ pinFile' = 0 /\ UNCHANGED <<pinned, verified, firstPin>>
        /\ pinLost' = (pinLost \/ link.unread)
    BY <1>4 DEF TruncatePin
  <2>2. /\ link' \in Links /\ link'.at = "writing" /\ link'.pc = link.pc
        /\ link'.peer = link.peer /\ link'.needsPinning = link.needsPinning
        /\ link'.unread = link.unread
    BY <1>0, <2>1 DEF Links
  <2>3. PinProved' /\ PinIsKept'
    BY <1>a, <1>b, <2>1 DEF PinProved, PinIsKept
  <2>4. link'.unread => pinLost'
    BY <2>1, <2>2, Zenon
  <2>5. link'.at = "writing" /\ link'.needsPinning /\ pinned' = 0 /\ pinFile' = 0
    BY <1>b, <2>1, <2>2
  <2>6. link'.pc \in PCs /\ link'.peer \in served'[link'.pc] /\ link'.peer \in verified'
    BY <1>b, <1>d, <2>1, <2>2
  <2>7. LinkFollowsPin'
    BY <2>4, <2>5, <2>6 DEF LinkFollowsPin
  <2> QED BY <2>2, <2>3, <2>7
<1>5. CASE WritePin
  <2>1. /\ link.at = "writing" /\ link' = [link EXCEPT !.at = "trusted", !.needsPinning = FALSE]
        /\ pinFile' = link.peer /\ pinned' = link.peer /\ verified' = verified
        /\ firstPin' = (IF firstPin = 0 THEN link.peer ELSE firstPin) /\ pinLost' = pinLost
    BY <1>5 DEF WritePin
  <2>2. /\ link' \in Links /\ link'.at = "trusted" /\ link'.pc = link.pc
        /\ link'.peer = link.peer /\ ~link'.needsPinning
    BY <1>0, <2>1 DEF Links
  <2>3. (~pinLost => firstPin = 0) /\ link.peer \in verified
    BY <1>a, <1>b, <2>1
  <2>4. PinProved' /\ PinIsKept'
    BY <1>a, <2>1, <2>3 DEF PinProved, PinIsKept
  <2> QED BY <1>b, <1>d, <2>1, <2>2, <2>3, <2>4 DEF LinkFollowsPin
<1>6. CASE PinFileDamaged
  <2>1. /\ link' = NoLink /\ pinned' = 0 /\ pinFile' \in {0, Damaged} /\ pinLost'
        /\ UNCHANGED <<verified, firstPin>>
    BY <1>6 DEF PinFileDamaged
  <2>2. PinProved' /\ PinIsKept'
    BY <1>a, <2>1 DEF PinProved, PinIsKept
  <2> QED BY <1>e, <2>1, <2>2 DEF LinkFollowsPin
<1>7. CASE Disconnect
  <2>1. link' = NoLink /\ UNCHANGED <<pinFile, pinned, verified, firstPin, pinLost>>
    BY <1>7 DEF Disconnect
  <2>2. PinProved' /\ PinIsKept'
    BY <1>a, <2>1 DEF PinProved, PinIsKept
  <2> QED BY <1>e, <2>1, <2>2 DEF LinkFollowsPin
<1>8. CASE HeadsetAppDies
  <2>1. link' = NoLink /\ pinned' = 0 /\ UNCHANGED <<pinFile, verified, firstPin, pinLost>>
    BY <1>8 DEF HeadsetAppDies
  <2>2. PinProved' /\ PinIsKept'
    BY <1>a, <2>1 DEF PinProved, PinIsKept
  <2> QED BY <1>e, <2>1, <2>2 DEF LinkFollowsPin
<1> QED BY <1>1, <1>2, <1>3, <1>4, <1>5, <1>6, <1>7, <1>8 DEF HeadsetActs

LEMMA TrustInvInit == TrustInit => TrustInv
PROOF
<1>1. SUFFICES ASSUME TrustInit PROVE TrustInv
  OBVIOUS
<1>2. TrustTyped
  BY <1>1, Bounds DEF TrustInit, TrustTyped, Links, NoLink
<1>3. \A pc \in PCs : Own(pc) = {}
  BY <1>1, Bounds DEF TrustInit, Own
<1>4. OwnApart
  BY <1>3 DEF OwnApart
<1>5. ServesFromDisk
  BY <1>1 DEF TrustInit, ServesFromDisk
<1>6. PinProved /\ PinIsKept /\ LinkFollowsPin
  BY <1>1 DEF TrustInit, PinProved, PinIsKept, LinkFollowsPin, NoLink
<1> QED BY <1>2, <1>4, <1>5, <1>6 DEF TrustInv

LEMMA TrustInvStep == TrustInv /\ [TrustNext]_trustVars => TrustInv'
PROOF
<1>1. SUFFICES ASSUME TrustInv, [TrustNext]_trustVars PROVE TrustInv'
  OBVIOUS
<1>2. ASSUME NEW pc \in PCs, EngineActs(pc) PROVE TrustInv'
  BY <1>1, <1>2, EngineSteps, EngineKeepsPin DEF TrustInv
<1>3. CASE HeadsetActs
  <2>1. UNCHANGED <<identityVars, faulty, served>>
    BY <1>3, HeadsetLeavesEngines
  <2>2. PinProved' /\ PinIsKept' /\ LinkFollowsPin' /\ link' \in Links
    BY <1>1, <1>3, HeadsetKeepsPin
  <2>3. TrustTyped'
    BY <1>1, <2>1, <2>2 DEF TrustInv, TrustTyped, identityVars
  <2>4. OwnApart' /\ ServesFromDisk'
    BY <1>1, <2>1 DEF TrustInv, OwnApart, ServesFromDisk, identityVars, Own, Loads
  <2> QED BY <2>2, <2>3, <2>4 DEF TrustInv
<1>4. CASE UNCHANGED trustVars
  <2>1. TrustTyped' /\ OwnApart'
    BY <1>1, <1>4 DEF TrustInv, TrustTyped, OwnApart, Own, trustVars, identityVars, clientVars
  <2>2. ServesFromDisk' /\ PinProved' /\ PinIsKept' /\ LinkFollowsPin'
    BY <1>1, <1>4
    DEF TrustInv, ServesFromDisk, Loads, PinProved, PinIsKept, LinkFollowsPin, trustVars, identityVars,
        clientVars
  <2> QED BY <2>1, <2>2 DEF TrustInv
<1>5. TrustNext => HeadsetActs \/ \E pc \in PCs : EngineActs(pc)
  BY DEF TrustNext, HeadsetActs, EngineActs
<1> QED BY <1>1, <1>2, <1>3, <1>4, <1>5

\* Trust on first use: the pin is the certificate of a server that accepted the
\* PIN, whatever became of its file; as long as that is not lost it outlives the
\* app; a PC whose file was always read and written has one certificate in all its
\* processes; so the headset gets through to that PC again and to no other, with
\* any number of PCs, certificates and faults (tls.rs load_or_create_identity(),
\* tcp_client.cpp checkServerCert() and pinPeerFingerprint()).
THEOREM PairingAlwaysOutlivesRestarts == TrustSpec => []PairingOutlivesRestarts
PROOF
<1>1. TrustInv => PairingOutlivesRestarts
  <2>1. SUFFICES ASSUME TrustInv PROVE PairingOutlivesRestarts
    OBVIOUS
  <2>2. PinIsKept
    BY <2>1 DEF TrustInv
  <2>5. PinIsProved
    <3>1. link.at = "trusted" => link.peer = pinned /\ link.peer \in verified
      BY <2>1 DEF TrustInv, LinkFollowsPin
    <3> QED BY <2>1, <3>1 DEF TrustInv, PinProved, PinIsProved
  <2>3. IdentityIsKept
    <3>1. SUFFICES ASSUME NEW pc \in PCs \ faulty PROVE Cardinality(served[pc]) <= 1
      BY DEF IdentityIsKept
    <3>2. served[pc] = {} \/ served[pc] = {identityFile[pc]}
      BY <2>1 DEF TrustInv, ServesFromDisk
    <3>3. Cardinality(served[pc]) \in {0, 1}
      BY <3>2, FS_EmptySet, FS_Singleton
    <3> QED BY <3>3
  <2>4. ASSUME NEW pc \in PCs \ faulty, firstPin \in served[pc]
        PROVE  acceptor[pc] \in {0, firstPin} /\ (link.at = "trusted" /\ ~pinLost => link.pc = pc)
    <3>1. served[pc] = {identityFile[pc]} /\ acceptor[pc] \in {0} \cup served[pc]
      BY <2>1, <2>4 DEF TrustInv, ServesFromDisk
    <3>2. SUFFICES ASSUME link.at = "trusted", ~pinLost PROVE link.pc = pc
      BY <2>4, <3>1
    <3>3. link.pc \in PCs /\ link.peer \in served[link.pc] /\ link.peer = pinned
      BY <2>1, <3>2 DEF TrustInv, LinkFollowsPin
    <3>4. served \in [PCs -> SUBSET Certificates]
      BY <2>1 DEF TrustInv, TrustTyped
    <3>5. link.peer \in Own(link.pc)
      BY <3>3, <3>4 DEF Own
    <3>6. 0 \notin Certificates
      BY Bounds
    <3>7. link.peer = firstPin
      BY <2>2, <3>2, <3>3, <3>4, <3>6 DEF PinIsKept
    <3>8. link.peer \in Own(pc)
      BY <2>4, <3>4, <3>7 DEF Own
    <3> QED BY <2>1, <3>3, <3>5, <3>8 DEF TrustInv, OwnApart
  <2> QED BY <2>2, <2>3, <2>4, <2>5 DEF PairingOutlivesRestarts
<1> QED BY <1>1, TrustInvInit, TrustInvStep, PTL DEF TrustSpec

-----------------------------------------------------------------------------
(* Sound: sequence numbers, concealment and the playback buffer.           *)

Ascends(slots) == \A i, j \in 1 .. Len(slots) : i < j => slots[i] < slots[j]

PlaybackTyped ==
  /\ newest \in -1 .. MaxPackets - 1 /\ started \in BOOLEAN /\ audioLast \in Int
  /\ numbered \in Nat /\ stretch \in Nat
  /\ buffer \in Seq(Int) /\ heard \in Int

\* The client has the number of the stretch's newest packet once it has one.
NumbersFollow == newest # -1 => started /\ audioLast = newest % Width

\* The last slot that sound can have filled: that of the newest packet, or the last before
\* those that concealment could still put before this stretch's first.
Filled == IF newest = -1 THEN Slot(stretch, -MaxConcealed) - 1 ELSE Slot(stretch, newest)

NoneAhead ==
  /\ numbered = 0 => stretch = 0 /\ buffer = <<>> /\ heard = -1
  /\ numbered > 0 => heard <= Filled /\ \A i \in 1 .. Len(buffer) : buffer[i] <= Filled

BufferInOrder ==
  /\ Len(buffer) <= BufferSlots /\ Ascends(buffer)
  /\ \A i \in 1 .. Len(buffer) : heard < buffer[i]

PlaybackInv == PlaybackTyped /\ NumbersFollow /\ NoneAhead /\ BufferInOrder

-----------------------------------------------------------------------------
(* The numbers.                                                            *)

LEMMA PlaybackBounds ==
  /\ Width \in Nat /\ ReorderWindow \in Nat /\ MaxConcealed \in Nat /\ BufferSlots \in Nat /\ Reorders \in Nat
  /\ MaxPackets \in Nat /\ MaxStreams \in Nat
  /\ Reorders <= ReorderWindow /\ ReorderWindow < Width \div 2 /\ Width \div 2 \in Nat
  /\ 2 * (Width \div 2) <= Width /\ Width > 0
PROOF BY PlaybackAssumption

LEMMA Divides ==
  ASSUME NEW w \in Int, w > 0, NEW a \in Int
  PROVE  a % w \in 0 .. w - 1 /\ a \div w \in Int /\ a = w * (a \div w) + (a % w)
PROOF
<1>1. a = w * (a \div w) + (a % w)
  BY SMT
<1>2. a % w \in 0 .. w - 1 /\ a \div w \in Int
  OBVIOUS
<1> QED BY <1>1, <1>2

LEMMA RemainderOf ==
  ASSUME NEW w \in Int, w > 0, NEW a \in Int, NEW q \in Int, NEW r \in 0 .. w - 1, a = w * q + r
  PROVE  a % w = r
PROOF
<1>1. a = q * w + r
  OBVIOUS
<1> QED BY <1>1, SMT

\* The signed difference of two wrapped numbers is that of the numbers, less than half
\* the numbers apart.
LEMMA DeltaOfWrapped ==
  ASSUME NEW m \in Int, NEW n \in Int, m - n >= -(Width \div 2), m - n < Width \div 2
  PROVE  Delta(m % Width, n % Width) = m - n
PROOF
<1> USE PlaybackBounds
<1> DEFINE half == Width \div 2
           d == ((m % Width) - (n % Width)) % Width
<1>1. /\ m % Width \in 0 .. Width - 1 /\ m \div Width \in Int /\ m = Width * (m \div Width) + (m % Width)
      /\ n % Width \in 0 .. Width - 1 /\ n \div Width \in Int /\ n = Width * (n \div Width) + (n % Width)
  BY Divides
<1>2. PICK k \in Int : (m % Width) - (n % Width) = Width * k + (m - n)
  <2> DEFINE qm == m \div Width
             qn == n \div Width
             rm == (m % Width)
             rn == (n % Width)
  <2>1. qm \in Int /\ qn \in Int /\ rm \in Int /\ rn \in Int /\ m = Width * qm + rm /\ n = Width * qn + rn
    BY <1>1
  <2>2. SUFFICES \E k \in Int : rm - rn = Width * k + (m - n)
    OBVIOUS
  <2> HIDE DEF qm, qn, rm, rn
  <2>3. rm - rn = Width * (qn - qm) + (m - n) /\ qn - qm \in Int
    BY <2>1
  <2> QED BY <2>3
<1>3. half \in Nat /\ 2 * half <= Width /\ m - n >= -half /\ m - n < half
  OBVIOUS
<1>4. Delta(m % Width, n % Width) = IF d >= half THEN d - Width ELSE d
  BY DEF Delta
<1> HIDE DEF half
<1>5. CASE m - n >= 0
  <2>1. m - n \in 0 .. Width - 1 /\ (m % Width) - (n % Width) \in Int
    BY <1>1, <1>3, <1>5
  <2>2. d = m - n
    BY <1>2, <2>1, RemainderOf
  <2> QED BY <1>3, <1>4, <2>2
<1>6. CASE m - n < 0
  <2>1. m - n + Width \in 0 .. Width - 1 /\ (m % Width) - (n % Width) \in Int
    BY <1>1, <1>3, <1>6
  <2>2. (m % Width) - (n % Width) = Width * (k - 1) + (m - n + Width)
    BY <1>2
  <2>3. d = m - n + Width
    BY <1>2, <2>1, <2>2, RemainderOf
  <2>4. d >= half /\ d - Width = m - n
    BY <1>3, <1>6, <2>3
  <2> QED BY <1>4, <2>4
<1> QED BY <1>5, <1>6

\* However far ahead a number is, the difference is not more than that.
LEMMA DeltaNotMore ==
  ASSUME NEW m \in Int, NEW n \in Int, m - n >= 0
  PROVE  Delta(m % Width, n % Width) <= m - n
PROOF
<1> USE PlaybackBounds
<1> DEFINE rm == (m % Width)
           rn == (n % Width)
           qm == m \div Width
           qn == n \div Width
           d == (rm - rn) % Width
           qd == (rm - rn) \div Width
<1>1. /\ rm \in 0 .. Width - 1 /\ qm \in Int /\ m = Width * qm + rm
      /\ rn \in 0 .. Width - 1 /\ qn \in Int /\ n = Width * qn + rn
  BY Divides
<1>2. rm - rn \in Int
  BY <1>1
<1>3. d \in 0 .. Width - 1 /\ qd \in Int /\ rm - rn = Width * qd + d
  BY <1>2, Divides
<1>4. Delta(rm, rn) <= d
  BY <1>3 DEF Delta
<1> HIDE DEF rm, rn, qm, qn, d, qd
<1>5. PICK k \in Int : m - n = Width * k + d
  <2>1. m - n = Width * (qm - qn + qd) + d /\ qm - qn + qd \in Int
    BY <1>1, <1>3
  <2> QED BY <2>1
<1>6. k >= 0
  <2>1. SUFFICES ASSUME k <= -1 PROVE FALSE
    BY <1>5
  <2>2. Width * k <= -Width
    BY <2>1, <1>5
  <2> QED BY <1>3, <1>5, <2>2
<1>7. Width * k >= 0
  BY <1>6
<1>8. d <= m - n
  BY <1>3, <1>5, <1>7
<1>9. Delta(rm, rn) \in Int
  BY <1>2, Divides DEF Delta
<1> QED BY <1>3, <1>4, <1>8, <1>9 DEF rm, rn

\* How many packets are missing is a number the client conceals.
LEMMA MissingTyped ==
  ASSUME PlaybackTyped, NEW number \in Int
  PROVE  OnAudio(number) \in Int /\ (OnAudio(number) >= 0 => OnAudio(number) \in 0 .. MaxConcealed)
PROOF
<1> USE PlaybackBounds
<1>1. audioLast \in Int
  BY DEF PlaybackTyped
<1>2. Delta(number, audioLast) \in Int
  BY <1>1, Divides DEF Delta
<1> QED BY <1>2 DEF OnAudio

\* What is concealed before a packet lies behind the newest one.
LEMMA MissingBetween ==
  ASSUME PlaybackInv, NEW n \in 0 .. MaxPackets - 1, n >= newest - Reorders,
         OnAudio(n % Width) >= 0, newest # -1
  PROVE  n - OnAudio(n % Width) > newest
PROOF
<1> USE PlaybackBounds
<1>1. n % Width \in Int /\ newest \in Int /\ started /\ audioLast = newest % Width
  BY Divides DEF PlaybackInv, PlaybackTyped, NumbersFollow
<1>2. Delta(n % Width, audioLast) \in Int
  BY <1>1, Divides DEF Delta
<1>3. n > newest
  <2>1. SUFFICES ASSUME n <= newest PROVE FALSE
    BY <1>1
  <2>2. n - newest >= -ReorderWindow /\ n - newest >= -(Width \div 2) /\ n - newest < Width \div 2
    BY <1>1, <2>1
  <2>3. Delta(n % Width, audioLast) = n - newest
    BY <1>1, <2>2, DeltaOfWrapped
  <2>4. OnAudio(n % Width) = -1
    BY <1>1, <2>1, <2>2, <2>3 DEF OnAudio
  <2> QED BY <2>4
<1>4. Delta(n % Width, audioLast) <= n - newest
  BY <1>1, <1>3, DeltaNotMore
<1>5. OnAudio(n % Width) <= n - newest - 1
  BY <1>1, <1>2, <1>3, <1>4 DEF OnAudio
<1>6. OnAudio(n % Width) \in Int
  BY <1>1, MissingTyped DEF PlaybackInv
<1> QED BY <1>1, <1>5, <1>6

-----------------------------------------------------------------------------
(* The buffer.                                                             *)

\* Later sound is appended in order, and room is made for it at the front.
LEMMA AppendedInOrder ==
  ASSUME PlaybackInv, NEW slots \in Seq(Int), Ascends(slots), NEW top \in Int,
         \A j \in 1 .. Len(slots) : slots[j] <= top /\ heard < slots[j],
         \A i \in 1 .. Len(buffer), j \in 1 .. Len(slots) : buffer[i] < slots[j],
         \A i \in 1 .. Len(buffer) : buffer[i] <= top
  PROVE  /\ Buffered(slots) \in Seq(Int) /\ Len(Buffered(slots)) <= BufferSlots /\ Ascends(Buffered(slots))
         /\ \A i \in 1 .. Len(Buffered(slots)) : heard < Buffered(slots)[i] /\ Buffered(slots)[i] <= top
PROOF
<1> USE PlaybackBounds
<1> DEFINE all == buffer \o slots
<1>1. buffer \in Seq(Int) /\ Len(buffer) \in Nat /\ Len(slots) \in Nat
  BY DEF PlaybackInv, PlaybackTyped
<1>2. /\ all \in Seq(Int) /\ Len(all) = Len(buffer) + Len(slots)
      /\ \A i \in 1 .. Len(all) : all[i] = IF i <= Len(buffer) THEN buffer[i] ELSE slots[i - Len(buffer)]
  BY <1>1, ConcatProperties
<1>3. Ascends(buffer) /\ \A i \in 1 .. Len(buffer) : heard < buffer[i]
  BY DEF PlaybackInv, BufferInOrder
<1>4. \A i \in 1 .. Len(all) : heard < all[i] /\ all[i] <= top
  BY <1>1, <1>2, <1>3
<1>5. Ascends(all)
  <2> SUFFICES ASSUME NEW i \in 1 .. Len(all), NEW j \in 1 .. Len(all), i < j PROVE all[i] < all[j]
    BY DEF Ascends
  <2>1. CASE j <= Len(buffer)
    BY <1>1, <1>2, <1>3, <2>1 DEF Ascends
  <2>2. CASE i <= Len(buffer) /\ j > Len(buffer)
    BY <1>1, <1>2, <2>2
  <2>3. CASE i > Len(buffer)
    <3>1. i - Len(buffer) \in 1 .. Len(slots) /\ j - Len(buffer) \in 1 .. Len(slots) /\ i - Len(buffer) < j - Len(buffer)
      BY <1>1, <1>2, <2>3
    <3>2. slots[i - Len(buffer)] < slots[j - Len(buffer)]
      BY <3>1 DEF Ascends
    <3> QED BY <1>1, <1>2, <2>3, <3>2
  <2> QED BY <1>1, <1>2, <2>1, <2>2, <2>3
<1>6. Buffered(slots) = IF Len(all) > BufferSlots THEN SubSeq(all, Len(all) - BufferSlots + 1, Len(all)) ELSE all
  BY DEF Buffered
<1> HIDE DEF all
<1>7. CASE ~(Len(all) > BufferSlots)
  BY <1>1, <1>2, <1>4, <1>5, <1>6, <1>7
<1>8. CASE Len(all) > BufferSlots
  <2> DEFINE from == Len(all) - BufferSlots
             kept == SubSeq(all, from + 1, Len(all))
  <2>1. from \in Nat /\ from + 1 \in Int /\ Len(all) \in Int /\ Len(all) - (from + 1) + 1 = BufferSlots
    BY <1>1, <1>2, <1>8
  <2>2. \A i \in from + 1 .. Len(all) : all[i] \in Int
    BY <1>2, <2>1
  <2> HIDE DEF from
  <2>3. /\ kept \in Seq(Int) /\ Len(kept) = IF from + 1 <= Len(all) THEN Len(all) - (from + 1) + 1 ELSE 0
        /\ \A i \in 1 .. Len(all) - (from + 1) + 1 : kept[i] = all[from + 1 + i - 1]
    BY <2>1, <2>2, SubSeqProperties
  <2>4. Len(kept) \in Nat /\ Len(kept) <= BufferSlots
    BY <2>1, <2>3
  <2>5. \A i \in 1 .. Len(kept) : kept[i] = all[from + i] /\ from + i \in 1 .. Len(all)
    BY <2>1, <2>3, <2>4
  <2> HIDE DEF kept
  <2>6. Ascends(kept)
    BY <1>5, <2>1, <2>4, <2>5 DEF Ascends
  <2>7. Buffered(slots) = kept
    BY <1>6, <1>8 DEF from, kept
  <2> QED BY <1>4, <2>3, <2>4, <2>5, <2>6, <2>7
<1> QED BY <1>7, <1>8

-----------------------------------------------------------------------------
(* The steps.                                                              *)

PerSession == MaxPackets + MaxConcealed + 1

LEMMA SlotIs ==
  ASSUME PlaybackTyped
  PROVE  /\ PerSession \in Nat /\ PerSession = MaxPackets + MaxConcealed + 1
         /\ stretch * PerSession \in Int
         /\ \A n \in Int : Slot(stretch, n) = stretch * PerSession + n
         /\ \A n \in Int : Slot(stretch + 1, n) = stretch * PerSession + PerSession + n
         /\ \A n \in Int : Slot(stretch + 2, n) = stretch * PerSession + PerSession + PerSession + n
         /\ Filled \in Int /\ Filled < stretch * PerSession + MaxPackets
PROOF
<1> USE PlaybackBounds
<1>0. PerSession = MaxPackets + MaxConcealed + 1
  BY DEF PerSession
<1>1. PerSession \in Nat /\ stretch * PerSession \in Int
  BY DEF PerSession, PlaybackTyped
<1>2. /\ (stretch + 1) * PerSession = stretch * PerSession + PerSession
      /\ (stretch + 2) * PerSession = stretch * PerSession + PerSession + PerSession
  BY <1>1 DEF PlaybackTyped
<1>3. \A t, n \in Int : Slot(t, n) = t * PerSession + n
  BY DEF Slot, PerSession
<1>4. stretch \in Int /\ stretch + 1 \in Int /\ stretch + 2 \in Int
  BY DEF PlaybackTyped
<1>5. /\ \A n \in Int : Slot(stretch, n) = stretch * PerSession + n
      /\ \A n \in Int : Slot(stretch + 1, n) = stretch * PerSession + PerSession + n
      /\ \A n \in Int : Slot(stretch + 2, n) = stretch * PerSession + PerSession + PerSession + n
  BY <1>2, <1>3, <1>4
<1>6. -MaxConcealed \in Int /\ newest \in Int /\ newest <= MaxPackets - 1
  BY DEF PlaybackTyped
<1> DEFINE base == stretch * PerSession
<1>7. base \in Int /\ \A n \in Int : Slot(stretch, n) = base + n
  BY <1>1, <1>5
<1> HIDE DEF base
<1>8. Filled \in Int /\ Filled < base + MaxPackets
  BY <1>6, <1>7 DEF Filled
<1> QED BY <1>0, <1>1, <1>5, <1>8 DEF base

\* The sound of a packet and of those concealed before it fills slots not filled before, in order.
LEMMA PlaysInOrder ==
  ASSUME PlaybackInv, numbered > 0, NEW number \in Int, NEW slot \in Int, Plays(number, slot),
         slot - OnAudio(number) > Filled
  PROVE  /\ buffer' \in Seq(Int) /\ Len(buffer') <= BufferSlots /\ Ascends(buffer')
         /\ \A i \in 1 .. Len(buffer') : heard < buffer'[i] /\ buffer'[i] <= slot
         /\ heard <= slot
         /\ started' = TRUE /\ audioLast' = number
PROOF
<1> USE PlaybackBounds
<1> DEFINE missing == OnAudio(number)
<1>1. PICK concealed \in 0 .. missing, decoded \in {<<>>, <<slot>>} :
        /\ started' = TRUE /\ audioLast' = number
        /\ buffer' = Buffered([i \in 1 .. concealed |-> slot - missing + i - 1] \o decoded)
  BY DEF Plays
<1>2. missing \in 0 .. MaxConcealed
  BY MissingTyped DEF PlaybackInv, Plays
<1> HIDE DEF missing
<1>3. /\ Len(buffer) \in Nat /\ heard \in Int /\ \A i \in 1 .. Len(buffer) : buffer[i] \in Int
      /\ numbered \in Nat
  BY DEF PlaybackInv, PlaybackTyped
<1>6. slot - missing > Filled /\ Filled \in Int
  BY SlotIs DEF PlaybackInv, missing
<1>7. heard <= Filled /\ \A i \in 1 .. Len(buffer) : buffer[i] <= Filled
  BY <1>3 DEF PlaybackInv, NoneAhead
<1> DEFINE hidden == [i \in 1 .. concealed |-> slot - missing + i - 1]
           slots == hidden \o decoded
<1>8. hidden \in Seq(Int) /\ Len(hidden) = concealed /\ concealed \in Nat
      /\ \A i \in 1 .. concealed : hidden[i] = slot - missing + i - 1
  <2>1. concealed \in Nat /\ \A i \in 1 .. concealed : slot - missing + i - 1 \in Int
    BY <1>2
  <2>2. \A i \in 1 .. concealed : hidden[i] = slot - missing + i - 1 /\ hidden[i] \in Int
    BY <1>6, <2>1
  <2>3. hidden \in [1 .. concealed -> Int]
    BY <2>2
  <2>4. hidden \in Seq(Int) /\ Len(hidden) = concealed
    BY <2>1, <2>3
  <2> QED BY <2>1, <2>2, <2>4
<1>9. decoded \in Seq(Int) /\ (decoded = <<>> \/ (Len(decoded) = 1 /\ decoded[1] = slot))
  <2>1. CASE decoded = <<>>
    BY <2>1
  <2>2. CASE decoded = <<slot>>
    BY <1>6, <2>2
  <2> QED BY <1>1, <2>1, <2>2
<1> HIDE DEF hidden
<1>10. /\ slots \in Seq(Int) /\ Len(slots) \in Nat /\ Len(slots) = concealed + Len(decoded) /\ Len(decoded) \in {0, 1}
       /\ \A i \in 1 .. Len(slots) : slots[i] = IF i <= concealed THEN hidden[i] ELSE decoded[i - concealed]
  <2>1. /\ slots \in Seq(Int) /\ Len(slots) = Len(hidden) + Len(decoded)
        /\ \A i \in 1 .. Len(hidden) + Len(decoded) :
             slots[i] = IF i <= Len(hidden) THEN hidden[i] ELSE decoded[i - Len(hidden)]
    BY <1>8, <1>9, ConcatProperties
  <2>2. Len(decoded) \in {0, 1}
    BY <1>9
  <2> QED BY <1>8, <2>1, <2>2
<1> HIDE DEF slots
<1>11. \A i \in 1 .. Len(slots) :
         \/ i <= concealed /\ slots[i] = slot - missing + i - 1
         \/ i = concealed + 1 /\ slots[i] = slot
  <2> SUFFICES ASSUME NEW i \in 1 .. Len(slots)
               PROVE  \/ i <= concealed /\ slots[i] = slot - missing + i - 1
                      \/ i = concealed + 1 /\ slots[i] = slot
    OBVIOUS
  <2>1. CASE i <= concealed
    BY <1>8, <1>10, <2>1
  <2>2. CASE ~(i <= concealed)
    <3>0. i \in Int /\ concealed \in Int /\ i <= concealed + Len(decoded)
      BY <1>8, <1>10
    <3>1. i = concealed + 1 /\ Len(decoded) = 1
      <4>1. CASE Len(decoded) = 0
        BY <2>2, <3>0, <4>1
      <4>2. CASE Len(decoded) = 1
        BY <2>2, <3>0, <4>2
      <4> QED BY <1>10, <4>1, <4>2
    <3>2. decoded # <<>>
      BY <3>1
    <3> QED BY <1>8, <1>9, <1>10, <2>2, <3>1, <3>2
  <2> QED BY <2>1, <2>2
<1>12. concealed <= missing /\ missing \in Int
  BY <1>1, <1>2
<1>13. Ascends(slots)
  <2> SUFFICES ASSUME NEW i \in 1 .. Len(slots), NEW j \in 1 .. Len(slots), i < j PROVE slots[i] < slots[j]
    BY DEF Ascends
  <2>1. i \in Int /\ j \in Int /\ concealed \in Int /\ slot \in Int
    BY <1>6, <1>8, <1>10
  <2>2. slots[i] = slot - missing + i - 1
    BY <1>11, <2>1
  <2>3. CASE j <= concealed
    <3>1. slots[j] = slot - missing + j - 1
      BY <1>11, <2>1, <2>3
    <3> QED BY <1>12, <2>2, <3>1
  <2>4. CASE j = concealed + 1
    <3>1. slots[j] = slot
      BY <1>11, <2>1, <2>4
    <3> QED BY <1>12, <2>2, <2>4, <3>1
  <2> QED BY <1>11, <2>3, <2>4
<1>14. \A i \in 1 .. Len(slots) : slots[i] > Filled /\ slots[i] <= slot /\ slots[i] \in Int
  <2> SUFFICES ASSUME NEW i \in 1 .. Len(slots) PROVE slots[i] > Filled /\ slots[i] <= slot /\ slots[i] \in Int
    OBVIOUS
  <2>2. i \in Int /\ i >= 1 /\ concealed \in Int /\ slot \in Int /\ missing \in Nat /\ Filled \in Int
    BY <1>6, <1>2, <1>6, <1>8, <1>10
  <2>3. CASE i <= concealed /\ slots[i] = slot - missing + i - 1
    BY <1>6, <1>12, <2>2, <2>3
  <2>4. CASE slots[i] = slot
    BY <1>6, <2>2, <2>4
  <2> QED BY <1>11, <2>3, <2>4
<1>15. slot \in Int /\ Filled <= slot
  BY <1>6, <1>2, <1>6
<1>16. /\ Buffered(slots) \in Seq(Int) /\ Len(Buffered(slots)) <= BufferSlots /\ Ascends(Buffered(slots))
       /\ \A i \in 1 .. Len(Buffered(slots)) : heard < Buffered(slots)[i] /\ Buffered(slots)[i] <= slot
  <2>1. \A j \in 1 .. Len(slots) : slots[j] <= slot /\ heard < slots[j]
    BY <1>3, <1>6, <1>7, <1>14
  <2>2. \A i \in 1 .. Len(buffer), j \in 1 .. Len(slots) : buffer[i] < slots[j]
    BY <1>3, <1>6, <1>7, <1>14
  <2>3. \A i \in 1 .. Len(buffer) : buffer[i] <= slot
    BY <1>3, <1>6, <1>7, <1>15
  <2> QED BY <1>10, <1>13, <1>15, <2>1, <2>2, <2>3, AppendedInOrder
<1>17. buffer' = Buffered(slots)
  BY <1>1 DEF slots, hidden
<1>18. heard <= slot
  BY <1>3, <1>7, <1>15, <1>6
<1> QED BY <1>1, <1>16, <1>17, <1>18

\* A packet of the session is not older than what is filled.
LEMMA ReceiveStep == ASSUME PlaybackInv, NEW n \in 0 .. MaxPackets - 1, ReceiveAudio(n) PROVE PlaybackInv'
PROOF
<1> USE PlaybackBounds
<1> DEFINE number == n % Width
           slot == Slot(stretch, n)
           missing == OnAudio(number)
<1>1. /\ numbered > 0 /\ n >= newest - Reorders /\ Plays(number, slot) /\ newest' = n
      /\ numbered' = numbered /\ heard' = heard /\ stretch' = stretch
  BY DEF ReceiveAudio
<1>2. number \in Int /\ n \in Int
  BY Divides
<1>3. missing \in 0 .. MaxConcealed
  BY <1>1, <1>2, MissingTyped DEF PlaybackInv, Plays
<1>4. slot \in Int /\ slot - missing > Filled
  <2> DEFINE base == stretch * PerSession
  <2>1. base \in Int /\ \A k \in Int : Slot(stretch, k) = base + k
    BY SlotIs DEF PlaybackInv
  <2> HIDE DEF base
  <2>2. slot = base + n
    BY <1>2, <2>1
  <2>3. CASE newest = -1
    <3>1. -MaxConcealed \in Int
      OBVIOUS
    <3>2. Filled = base - MaxConcealed - 1
      BY <2>1, <2>3, <3>1 DEF Filled
    <3> QED BY <1>2, <1>3, <2>1, <2>2, <3>2
  <2>4. CASE newest # -1
    <3>1. newest \in Int
      BY DEF PlaybackInv, PlaybackTyped
    <3>2. Filled = base + newest
      BY <2>1, <2>4, <3>1 DEF Filled
    <3>3. n - missing > newest
      BY <1>1, <1>3, <2>4, MissingBetween
    <3> HIDE DEF missing
    <3> QED BY <1>2, <1>3, <2>1, <2>2, <3>1, <3>2, <3>3
  <2> QED BY <2>3, <2>4
<1>5. /\ buffer' \in Seq(Int) /\ Len(buffer') <= BufferSlots /\ Ascends(buffer')
      /\ \A i \in 1 .. Len(buffer') : heard < buffer'[i] /\ buffer'[i] <= slot
      /\ heard <= slot /\ started' = TRUE /\ audioLast' = number
  BY <1>1, <1>2, <1>4, PlaysInOrder
<1>6. started' \in BOOLEAN
  BY <1>5
<1>7. PlaybackTyped'
  BY <1>1, <1>2, <1>5, <1>6 DEF PlaybackInv, PlaybackTyped
<1>8. NumbersFollow'
  BY <1>1, <1>5 DEF NumbersFollow
<1>9. Filled' = slot
  BY <1>1 DEF Filled, Slot
<1>10. NoneAhead' /\ BufferInOrder'
  <2> HIDE DEF slot
  <2> QED BY <1>1, <1>5, <1>9 DEF NoneAhead, BufferInOrder
<1> QED BY <1>7, <1>8, <1>10 DEF PlaybackInv

\* A packet of another session begins a stretch, and what follows it another one.
LEMMA ForeignStep ==
  ASSUME PlaybackInv, NEW session \in 1 .. sounding, NEW n \in 0 .. MaxPackets - 1, ReceiveForeign(session, n)
  PROVE  PlaybackInv'
PROOF
<1> USE PlaybackBounds
<1> DEFINE number == n % Width
           slot == Slot(stretch + 1, n)
           missing == OnAudio(number)
           base == stretch * PerSession
<1>1. /\ numbered > 0 /\ Plays(number, slot) /\ newest' = -1
      /\ numbered' = numbered /\ heard' = heard /\ stretch' = stretch + 2
  BY DEF ReceiveForeign
<1>2. number \in Int /\ n \in Int
  BY Divides
<1>3. missing \in 0 .. MaxConcealed
  BY <1>1, <1>2, MissingTyped DEF PlaybackInv, Plays
<1>4. /\ base \in Int /\ PerSession \in Nat /\ PerSession = MaxPackets + MaxConcealed + 1
      /\ slot = base + PerSession + n
      /\ Slot(stretch + 2, -MaxConcealed) = base + PerSession + PerSession + (-MaxConcealed)
      /\ Filled \in Int /\ Filled < base + MaxPackets
  <2>1. -MaxConcealed \in Int
    OBVIOUS
  <2> QED BY <1>2, <2>1, SlotIs DEF PlaybackInv
<1> HIDE DEF base
<1>5. slot \in Int /\ slot - missing > Filled
  <2> HIDE DEF slot, missing
  <2> QED BY <1>2, <1>3, <1>4
<1>6. /\ buffer' \in Seq(Int) /\ Len(buffer') <= BufferSlots /\ Ascends(buffer')
      /\ \A i \in 1 .. Len(buffer') : heard < buffer'[i] /\ buffer'[i] <= slot
      /\ heard <= slot /\ started' = TRUE /\ audioLast' = number
  BY <1>1, <1>2, <1>5, PlaysInOrder
<1>7. started' \in BOOLEAN /\ stretch' \in Nat
  BY <1>1, <1>6 DEF PlaybackInv, PlaybackTyped
<1>8. PlaybackTyped' /\ NumbersFollow'
  BY <1>1, <1>2, <1>6, <1>7 DEF PlaybackInv, PlaybackTyped, NumbersFollow
<1>9. Filled' = Slot(stretch + 2, -MaxConcealed) - 1
  BY <1>1 DEF Filled, Slot
<1>10. Filled' \in Int /\ slot <= Filled'
  <2> HIDE DEF slot
  <2> QED BY <1>2, <1>4, <1>9
<1>11. NoneAhead' /\ BufferInOrder'
  <2>1. PICK last, top \in Int : last = slot /\ top = Filled'
    BY <1>5, <1>10
  <2>2. last <= top /\ heard <= last /\ \A i \in 1 .. Len(buffer') : buffer'[i] <= last /\ heard < buffer'[i]
    BY <1>6, <1>10, <2>1
  <2>3. heard \in Int /\ \A i \in 1 .. Len(buffer') : buffer'[i] \in Int
    BY <1>6 DEF PlaybackInv, PlaybackTyped
  <2>4. heard <= top /\ \A i \in 1 .. Len(buffer') : buffer'[i] <= top
    BY <2>2, <2>3
  <2> QED BY <1>1, <1>6, <2>1, <2>4 DEF NoneAhead, BufferInOrder
<1> QED BY <1>8, <1>11 DEF PlaybackInv

LEMMA PumpStep == ASSUME PlaybackInv, NEW slots \in 1 .. BufferSlots, Pump(slots) PROVE PlaybackInv'
PROOF
<1> USE PlaybackBounds
<1>1. /\ slots \in 1 .. Len(buffer) /\ heard' = buffer[slots] /\ buffer' = SubSeq(buffer, slots + 1, Len(buffer))
      /\ newest' = newest /\ started' = started /\ audioLast' = audioLast
      /\ numbered' = numbered /\ stretch' = stretch
  BY DEF Pump
<1>2. buffer \in Seq(Int) /\ Len(buffer) \in Nat /\ \A i \in 1 .. Len(buffer) : buffer[i] \in Int
  BY DEF PlaybackInv, PlaybackTyped
<1>3. /\ buffer' \in Seq(Int)
      /\ Len(buffer') = IF slots + 1 <= Len(buffer) THEN Len(buffer) - (slots + 1) + 1 ELSE 0
      /\ \A i \in 1 .. Len(buffer) - (slots + 1) + 1 : buffer'[i] = buffer[slots + 1 + i - 1]
  <2>1. slots + 1 \in Int /\ Len(buffer) \in Int /\ \A i \in slots + 1 .. Len(buffer) : buffer[i] \in Int
    BY <1>1, <1>2
  <2> QED BY <1>1, <2>1, SubSeqProperties
<1>4. /\ Len(buffer') = Len(buffer) - slots
      /\ \A i \in 1 .. Len(buffer') : slots + i \in 1 .. Len(buffer) /\ buffer'[i] = buffer[slots + i]
  BY <1>1, <1>2, <1>3
<1>5. /\ Len(buffer) <= BufferSlots /\ \A i, j \in 1 .. Len(buffer) : i < j => buffer[i] < buffer[j]
      /\ numbered > 0 => \A i \in 1 .. Len(buffer) : buffer[i] <= Filled
      /\ numbered = 0 => buffer = <<>>
  BY DEF PlaybackInv, NoneAhead, BufferInOrder, Ascends
<1>6. PlaybackTyped' /\ NumbersFollow'
  BY <1>1, <1>2, <1>3 DEF PlaybackInv, PlaybackTyped, NumbersFollow
<1>7. NoneAhead'
  <2>1. numbered # 0
    BY <1>1, <1>5
  <2>2. Filled' = Filled
    BY <1>1 DEF Filled, Slot
  <2> QED BY <1>1, <1>4, <1>5, <2>1, <2>2 DEF NoneAhead
<1>8. BufferInOrder'
  <2>1. Len(buffer') <= BufferSlots
    BY <1>1, <1>2, <1>4, <1>5
  <2>2. Ascends(buffer')
    BY <1>1, <1>2, <1>4, <1>5 DEF Ascends
  <2>3. \A i \in 1 .. Len(buffer') : heard' < buffer'[i]
    BY <1>1, <1>2, <1>4, <1>5
  <2> QED BY <2>1, <2>2, <2>3 DEF BufferInOrder
<1> QED BY <1>6, <1>7, <1>8 DEF PlaybackInv

\* The slots of a stretch, and of what may be concealed before it, come after those of the last.
LEMMA ResetStep == ASSUME PlaybackInv, ResetNumbers PROVE PlaybackInv'
PROOF
<1> USE PlaybackBounds
<1>1. PICK session \in numbered + 1 .. sounding :
        /\ numbered' = session /\ started' = FALSE /\ newest' = -1 /\ stretch' = stretch + 1
        /\ audioLast' = audioLast /\ buffer' = buffer /\ heard' = heard
  BY DEF ResetNumbers
<1>2. /\ numbered \in Nat /\ stretch \in Nat /\ heard \in Int /\ buffer \in Seq(Int)
      /\ \A i \in 1 .. Len(buffer) : buffer[i] \in Int
  BY DEF PlaybackInv, PlaybackTyped
<1>3. numbered' \in Nat /\ numbered' > 0 /\ stretch' \in Nat /\ started' \in BOOLEAN
  <2>1. started' \in BOOLEAN
    BY <1>1, Zenon
  <2>2. session \in Int /\ session > numbered
    BY <1>2
  <2> QED BY <1>1, <1>2, <2>1, <2>2
<1>4. PlaybackTyped' /\ NumbersFollow' /\ BufferInOrder'
  BY <1>1, <1>2, <1>3 DEF PlaybackInv, PlaybackTyped, NumbersFollow, BufferInOrder
<1> DEFINE base == stretch * PerSession
<1>5. /\ base \in Int /\ PerSession \in Nat /\ PerSession = MaxPackets + MaxConcealed + 1
      /\ Slot(stretch + 1, -MaxConcealed) = base + PerSession + (-MaxConcealed)
      /\ Filled \in Int /\ Filled < base + MaxPackets
  <2>1. -MaxConcealed \in Int
    OBVIOUS
  <2> QED BY <2>1, SlotIs DEF PlaybackInv
<1>6. Filled' = Slot(stretch + 1, -MaxConcealed) - 1
  BY <1>1 DEF Filled, Slot
<1>7. CASE numbered > 0
  <2> HIDE DEF base
  <2>1. Filled' \in Int /\ Filled <= Filled'
    BY <1>5, <1>6
  <2>2. PICK last, top \in Int : last = Filled /\ top = Filled'
    BY <1>5, <2>1
  <2>3. heard <= last /\ last <= top /\ \A i \in 1 .. Len(buffer) : buffer[i] <= last
    BY <1>7, <2>1, <2>2 DEF PlaybackInv, NoneAhead
  <2>4. heard <= top /\ \A i \in 1 .. Len(buffer) : buffer[i] <= top
    BY <1>2, <2>3
  <2>5. NoneAhead'
    BY <1>1, <1>3, <2>2, <2>4 DEF NoneAhead
  <2> QED BY <1>4, <2>5 DEF PlaybackInv
<1>8. CASE numbered = 0
  <2>1. buffer = <<>> /\ heard = -1 /\ stretch = 0
    BY <1>8 DEF PlaybackInv, NoneAhead
  <2>2. base = 0
    BY <1>5, <2>1
  <2> HIDE DEF base
  <2>3. Filled' \in Int /\ -1 <= Filled'
    BY <1>5, <1>6, <2>2
  <2>4. NoneAhead'
    BY <1>1, <1>3, <2>1, <2>3 DEF NoneAhead
  <2> QED BY <1>4, <2>4 DEF PlaybackInv
<1> QED BY <1>2, <1>7, <1>8

\* The engine's part changes nothing of the client's.
LEMMA SendStep == ASSUME PlaybackInv, SendPacket \/ NextStream PROVE PlaybackInv'
PROOF
<1>1. UNCHANGED <<numbered, newest, started, audioLast, buffer, heard, stretch>>
  BY DEF SendPacket, NextStream
<1> QED BY <1>1 DEF PlaybackInv, PlaybackTyped, NumbersFollow, NoneAhead, Filled, Slot, BufferInOrder, Ascends

LEMMA PlaybackInvInit == PlaybackInit => PlaybackInv
PROOF
<1> USE PlaybackBounds
<1> SUFFICES ASSUME PlaybackInit PROVE PlaybackInv
  OBVIOUS
<1>1. /\ newest = -1 /\ started = FALSE /\ audioLast = 0 /\ buffer = <<>> /\ heard = -1
      /\ numbered = 0 /\ stretch = 0
  BY DEF PlaybackInit
<1>2. started \in BOOLEAN
  BY <1>1
<1>3. PlaybackTyped
  BY <1>1, <1>2 DEF PlaybackTyped
<1> QED BY <1>1, <1>3 DEF PlaybackInv, NumbersFollow, NoneAhead, BufferInOrder, Ascends

LEMMA PlaybackInvStep == PlaybackInv /\ [PlaybackNext]_playbackVars => PlaybackInv'
PROOF
<1> SUFFICES ASSUME PlaybackInv, [PlaybackNext]_playbackVars PROVE PlaybackInv'
  OBVIOUS
<1>0. CASE SendPacket \/ NextStream
  BY <1>0, SendStep
<1>1. CASE ResetNumbers
  BY <1>1, ResetStep
<1>2. ASSUME NEW n \in 0 .. MaxPackets - 1, ReceiveAudio(n) PROVE PlaybackInv'
  BY <1>2, ReceiveStep
<1>5. ASSUME NEW n \in 0 .. MaxPackets - 1, NEW session \in 1 .. sounding, ReceiveForeign(session, n) PROVE PlaybackInv'
  BY <1>5, ForeignStep
<1>3. ASSUME NEW slots \in 1 .. BufferSlots, Pump(slots) PROVE PlaybackInv'
  BY <1>3, PumpStep
<1>4. CASE UNCHANGED playbackVars
  BY <1>4 DEF playbackVars, PlaybackInv, PlaybackTyped, NumbersFollow, NoneAhead, Filled, Slot, BufferInOrder, Ascends
<1> QED BY <1>0, <1>1, <1>2, <1>3, <1>4, <1>5 DEF PlaybackNext

\* For any width of the numbers, windows and buffer, any number of sessions, and packets of one read
\* among those of another: between two packets of other sessions, sound is neither played twice nor
\* out of order, and what is concealed stands in no other packet's place (SoundInOrder).
THEOREM SoundStaysInOrder == PlaybackSpec => []SoundInOrder
PROOF
<1>1. PlaybackInv => SoundInOrder
  <2> SUFFICES ASSUME PlaybackInv PROVE SoundInOrder
    OBVIOUS
  <2>1. Len(buffer) <= BufferSlots /\ \A i, j \in 1 .. Len(buffer) : i < j => buffer[i] < buffer[j]
    BY DEF PlaybackInv, BufferInOrder, Ascends
  <2>2. buffer # <<>> => heard < Head(buffer)
    BY DEF PlaybackInv, PlaybackTyped, BufferInOrder
  <2> QED BY <2>1, <2>2 DEF SoundInOrder
<1> QED BY <1>1, PlaybackInvInit, PlaybackInvStep, PTL DEF PlaybackSpec

-----------------------------------------------------------------------------
(* The application's loop: codec, pose log and the picture on the display. *)

Frames == [stream : Nat, index : Nat]

\* The queue is of the stream that was opened last.
Received == [stream : {stream.id}, index : Nat, posed : BOOLEAN, intact : BOOLEAN]

\* The loop has configured for the stream that was opened last, or a later one has opened
\* that it will be told of.
OfItsStream(frame) == configured = stream.id => frame.stream = stream.id

\* The codec holds frames that were submitted under the configuration that stands.
Submitted ==
  {s \in [frame : Frames, pts : Nat] :
     s.pts = s.frame.index * appConfig.duration /\ OfItsStream(s.frame)}

Logged == {e \in Frames : e # Nothing => OfItsStream(e)}

StreamWhole == stream = [id |-> stream.id, config |-> stream.config, at |-> stream.at]
CodecWhole == codec = [on |-> codec.on, size |-> codec.size, input |-> codec.input, output |-> codec.output]

HeadsetTyped ==
  /\ stream.id \in Nat /\ stream.config.duration \in Nat \ {0} /\ stream.config.posed \in BOOLEAN
  /\ configured \in Nat /\ configured <= stream.id
  /\ appConfig.duration \in Nat \ {0} /\ appConfig.posed \in BOOLEAN
  /\ nextIndex \in Nat

HeadsetInv ==
  /\ StreamWhole /\ CodecWhole /\ HeadsetTyped
  /\ received \in Seq(Received)
  /\ codec.input \in Seq(Submitted) /\ codec.output \in Seq(Submitted)
  /\ poseLog \in [0 .. LogSize - 1 -> Logged]
  /\ PictureTurnedFromItsPose

LEMMA QuotientOf ==
  ASSUME NEW w \in Int, w > 0, NEW q \in Int, NEW r \in 0 .. w - 1
  PROVE  (q * w + r) \div w = q
PROOF BY SMT

\* A timestamp gives back the index that it was made from: frameIndexOf() rounds.
LEMMA IndexOfTimestamp ==
  ASSUME NEW i \in Nat, NEW d \in Nat \ {0}
  PROVE  (i * d + d \div 2) \div d = i
PROOF
<1>1. d \div 2 \in 0 .. d - 1
  OBVIOUS
<1> QED BY <1>1, QuotientOf

LEMMA PoseIsOfFrame ==
  ASSUME HeadsetInv, configured = stream.id, NEW s \in Submitted
  PROVE  PoseFor(s.pts) \in {Nothing, s.frame}
PROOF
<1> DEFINE d == appConfig.duration
           index == (s.pts + d \div 2) \div d
           entry == poseLog[index % LogSize]
<1>1. /\ s.frame \in Frames /\ s.pts = s.frame.index * d /\ s.frame.stream = stream.id
      /\ d \in Nat \ {0} /\ poseLog \in [0 .. LogSize - 1 -> Logged]
  BY DEF Submitted, OfItsStream, HeadsetInv, HeadsetTyped
<1>2. index = s.frame.index
  BY <1>1, IndexOfTimestamp DEF Frames
<1>3. PoseFor(s.pts) = IF appConfig.posed /\ entry.index = index THEN entry ELSE Nothing
  BY DEF PoseFor
<1> HIDE DEF index
<1>4. index % LogSize \in 0 .. LogSize - 1
  BY <1>1, <1>2, HeadsetAssumption DEF Frames
<1>5. entry \in Frames /\ (entry # Nothing => entry.stream = stream.id)
  BY <1>1, <1>4 DEF Logged, OfItsStream
<1>6. ASSUME entry.index = index, entry # Nothing PROVE entry = s.frame
  BY <1>1, <1>2, <1>5, <1>6 DEF Frames
<1> QED BY <1>3, <1>6

LEMMA WiderSeq ==
  ASSUME NEW S, NEW T, S \subseteq T, NEW s \in Seq(S)
  PROVE  s \in Seq(T)
OBVIOUS

\* Steps that leave the configuration and the stream's number alone.
LEMMA SameSets ==
  ASSUME appConfig' = appConfig, configured' = configured, stream'.id = stream.id
  PROVE  Submitted' = Submitted /\ Logged' = Logged /\ Received' = Received
PROOF BY DEF Submitted, Logged, Received, OfItsStream

LEMMA HeadsetInvInit == HeadsetInit => HeadsetInv
PROOF
<1> SUFFICES ASSUME HeadsetInit PROVE HeadsetInv
  OBVIOUS
<1>1. StreamWhole /\ CodecWhole
  BY DEF HeadsetInit, StreamWhole, CodecWhole, NoCodec
<1>4. HeadsetTyped
  <2>1. NativeConfig.duration = 1 /\ NativeConfig.posed \in BOOLEAN
    BY DEF NativeConfig
  <2>2. stream.id = 0 /\ stream.config = NativeConfig /\ appConfig = NativeConfig /\ configured = 0 /\ nextIndex = 0
    BY DEF HeadsetInit
  <2> QED BY <2>1, <2>2 DEF HeadsetTyped
<1>2. received = <<>> /\ codec.input = <<>> /\ codec.output = <<>> /\ picture.shown = FALSE
  BY DEF HeadsetInit, NoCodec, NoPicture
<1>3. poseLog \in [0 .. LogSize - 1 -> Logged]
  BY DEF HeadsetInit, NoLog, Logged, Nothing, Frames
<1> QED BY <1>1, <1>2, <1>3, <1>4 DEF HeadsetInv, PictureTurnedFromItsPose

LEMMA DecoderDecodesStep == ASSUME HeadsetInv, DecoderDecodes PROVE HeadsetInv'
PROOF
<1>1. /\ UNCHANGED <<stream, configured, appConfig, nextIndex, received, poseLog, picture>>
      /\ codec.input # <<>>
      /\ codec' = [codec EXCEPT !.input = Tail(@), !.output = Append(@, Head(codec.input))]
  BY DEF DecoderDecodes, streamVars, pictureVars
<1>2. Submitted' = Submitted /\ Logged' = Logged /\ Received' = Received
  BY <1>1, SameSets
<1>3. /\ codec = [on |-> codec.on, size |-> codec.size, input |-> codec.input, output |-> codec.output]
      /\ codec.input \in Seq(Submitted) /\ codec.output \in Seq(Submitted)
  BY DEF HeadsetInv, CodecWhole
<1>4. codec' = [on |-> codec.on, size |-> codec.size, input |-> Tail(codec.input),
                output |-> Append(codec.output, Head(codec.input))]
  BY <1>1, <1>3
<1>5. Tail(codec.input) \in Seq(Submitted) /\ Head(codec.input) \in Submitted
  BY <1>1, <1>3
<1>6. codec'.input \in Seq(Submitted) /\ codec'.output \in Seq(Submitted)
  BY <1>3, <1>4, <1>5
<1>7. CodecWhole'
  BY <1>4 DEF CodecWhole
<1>8. StreamWhole' /\ HeadsetTyped'
  BY <1>1 DEF HeadsetInv, StreamWhole, HeadsetTyped
<1> QED BY <1>1, <1>2, <1>6, <1>7, <1>8 DEF HeadsetInv, PictureTurnedFromItsPose

\* A stream opens: the loop has not configured for it, so the codec may keep the last one's.
LEMMA StreamOpensStep == ASSUME HeadsetInv, StreamOpens PROVE HeadsetInv'
PROOF
<1>1. PICK config \in StreamConfigs : stream' = [id |-> stream.id + 1, config |-> config, at |-> "opened"]
  BY DEF StreamOpens
<1>2. /\ received' = <<>> /\ nextIndex' \in {0, nextIndex}
      /\ UNCHANGED <<codec, poseLog, appConfig, configured, picture>>
  BY DEF StreamOpens, pictureVars
<1>3. config.duration \in Nat \ {0} /\ config.posed \in BOOLEAN
  BY HeadsetAssumption
<1>4. stream.id \in Nat /\ configured \in Nat /\ configured <= stream.id /\ nextIndex \in Nat
  BY DEF HeadsetInv, HeadsetTyped
<1>5. stream'.id = stream.id + 1 /\ configured' # stream'.id
  BY <1>1, <1>2, <1>4
<1>6. HeadsetTyped' /\ StreamWhole' /\ CodecWhole'
  <2>1. HeadsetTyped'
    BY <1>1, <1>2, <1>3, <1>4, <1>5 DEF HeadsetInv, HeadsetTyped
  <2>2. StreamWhole'
    BY <1>1 DEF StreamWhole
  <2>3. CodecWhole'
    BY <1>2 DEF HeadsetInv, CodecWhole
  <2> QED BY <2>1, <2>2, <2>3
<1>7. Submitted \subseteq Submitted' /\ Logged \subseteq Logged'
  BY <1>2, <1>5 DEF Submitted, Logged, OfItsStream
<1>8. codec.input \in Seq(Submitted') /\ codec.output \in Seq(Submitted')
  BY <1>7, WiderSeq DEF HeadsetInv
<1>9. poseLog \in [0 .. LogSize - 1 -> Logged']
  BY <1>7 DEF HeadsetInv
<1> QED BY <1>2, <1>6, <1>8, <1>9 DEF HeadsetInv, PictureTurnedFromItsPose

\* The launches, the session thread and the OpenXR session: the queue at most loses its frames.
LEMMA OutsideSteps ==
  ASSUME HeadsetInv,
         Launch \/ StreamStarted \/ StreamDown \/ SessionChanges \/ CheckLaunch \/ EventsHandled \/ AllFed
  PROVE  HeadsetInv'
PROOF
<1>1. /\ received' = received \/ received' = <<>>
      /\ stream' = stream \/ \E at \in {"asked", "on"} : stream' = [stream EXCEPT !.at = at]
      /\ UNCHANGED <<nextIndex, codec, poseLog, appConfig, configured, picture>>
  BY DEF Launch, StreamStarted, StreamDown, SessionChanges, CheckLaunch, EventsHandled, AllFed,
         streamVars, pictureVars
<1>2. StreamWhole /\ CodecWhole /\ HeadsetTyped
  BY DEF HeadsetInv
<1>3. stream'.id = stream.id /\ stream'.config = stream.config /\ StreamWhole'
  BY <1>1, <1>2 DEF StreamWhole
<1>4. Submitted' = Submitted /\ Logged' = Logged /\ Received' = Received
  BY <1>1, <1>3, SameSets
<1>5. HeadsetTyped' /\ CodecWhole'
  <2>1. UNCHANGED <<nextIndex, codec, appConfig, configured>>
    BY <1>1
  <2> QED BY <1>2, <1>3, <2>1 DEF HeadsetTyped, CodecWhole
<1>6. received' \in Seq(Received)
  <2>1. CASE received' = received
    BY <2>1 DEF HeadsetInv
  <2>2. CASE received' = <<>>
    BY <2>2
  <2> QED BY <1>1, <2>1, <2>2
<1> QED BY <1>1, <1>3, <1>4, <1>5, <1>6 DEF HeadsetInv, PictureTurnedFromItsPose

LEMMA FrameReceivedStep == ASSUME HeadsetInv, FrameReceived PROVE HeadsetInv'
PROOF
<1>1. PICK i \in nextIndex .. MaxFrameIndex, intact \in BOOLEAN :
        /\ nextIndex' = i + 1
        /\ received' = Append(received, [stream |-> stream.id, index |-> i,
                                         posed |-> stream.config.posed, intact |-> intact])
  BY DEF FrameReceived
<1>2. UNCHANGED <<stream, codec, poseLog, appConfig, configured, picture>>
  BY DEF FrameReceived, pictureVars
<1>3. nextIndex \in Nat /\ i \in Nat /\ stream.config.posed \in BOOLEAN
  BY HeadsetAssumption DEF HeadsetInv, HeadsetTyped
<1>4. Submitted' = Submitted /\ Logged' = Logged /\ Received' = Received
  BY <1>2, SameSets
<1>5. HeadsetTyped' /\ StreamWhole' /\ CodecWhole'
  BY <1>1, <1>2, <1>3 DEF HeadsetInv, HeadsetTyped, StreamWhole, CodecWhole
<1>6. [stream |-> stream.id, index |-> i, posed |-> stream.config.posed, intact |-> intact] \in Received
  BY <1>3 DEF Received
<1>7. received' \in Seq(Received)
  BY <1>1, <1>6 DEF HeadsetInv
<1> QED BY <1>2, <1>4, <1>5, <1>7 DEF HeadsetInv, PictureTurnedFromItsPose

\* Configured again, the codec and the pose log are empty: whatever was in them was of
\* another configuration.
LEMMA ConfigureStep ==
  ASSUME HeadsetInv, ConfigureDecoder(stream.config), UNCHANGED <<stream, received, nextIndex>>
  PROVE  HeadsetInv'
PROOF
<1>1. appConfig' = stream.config /\ configured' = stream.id /\ poseLog' = NoLog
  BY DEF ConfigureDecoder
<1>2. /\ picture' = picture \/ picture' = NoPicture
      /\ codec' = Flushed(codec)
           \/ \E ok \in BOOLEAN : codec' = [NoCodec EXCEPT !.on = ok, !.size = stream.config.size]
  BY DEF ConfigureDecoder
<1>3. CodecWhole
  BY DEF HeadsetInv
<1>4. CodecWhole' /\ codec'.input = <<>> /\ codec'.output = <<>>
  BY <1>2, <1>3 DEF CodecWhole, Flushed, NoCodec
<1>5. HeadsetTyped' /\ StreamWhole'
  BY <1>1 DEF HeadsetInv, HeadsetTyped, StreamWhole
<1>6. poseLog' \in [0 .. LogSize - 1 -> Logged']
  BY <1>1 DEF NoLog, Logged, Nothing, Frames
<1>7. Received' = Received
  BY DEF Received
<1>8. PictureTurnedFromItsPose'
  <2>1. picture' = picture \/ picture'.shown = FALSE
    <3>1. NoPicture.shown = FALSE
      BY DEF NoPicture
    <3> QED BY <1>2, <3>1
  <2> QED BY <2>1 DEF HeadsetInv, PictureTurnedFromItsPose
<1> QED BY <1>4, <1>5, <1>6, <1>7, <1>8 DEF HeadsetInv

LEMMA HandleStreamEventStep == ASSUME HeadsetInv, HandleStreamEvent PROVE HeadsetInv'
PROOF
<1>1. UNCHANGED <<stream, received, nextIndex>>
  BY DEF HandleStreamEvent, streamVars
<1>2. CASE ConfigureDecoder(stream.config)
  BY <1>1, <1>2, ConfigureStep
<1>3. CASE UNCHANGED <<codec, poseLog, appConfig, configured, picture>>
  <2>1. Submitted' = Submitted /\ Logged' = Logged /\ Received' = Received
    BY <1>1, <1>3, SameSets
  <2> QED BY <1>1, <1>3, <2>1 DEF HeadsetInv, StreamWhole, CodecWhole, HeadsetTyped, PictureTurnedFromItsPose
<1> QED BY <1>2, <1>3 DEF HandleStreamEvent, pictureVars

LEMMA FeedFrameStep == ASSUME HeadsetInv, FeedFrame PROVE HeadsetInv'
PROOF
<1> DEFINE f == Head(received)
           sent == [frame |-> Of(f), pts |-> f.index * appConfig.duration]
<1>1. /\ received # <<>> /\ (received' = Tail(received) \/ received' = <<>>)
      /\ poseLog' \in {poseLog, [poseLog EXCEPT ![f.index % LogSize] = Of(f)]}
      /\ codec' \in {codec, Flushed(codec), [codec EXCEPT !.input = Append(@, sent)]}
      /\ UNCHANGED <<stream, nextIndex, appConfig, configured, picture>>
  BY DEF FeedFrame
<1>2. Submitted' = Submitted /\ Logged' = Logged /\ Received' = Received
  BY <1>1, SameSets
<1>3. /\ received \in Seq(Received) /\ codec.input \in Seq(Submitted) /\ codec.output \in Seq(Submitted)
      /\ CodecWhole
      /\ poseLog \in [0 .. LogSize - 1 -> Logged]
      /\ appConfig.duration \in Nat \ {0} /\ stream.id \in Nat
  BY DEF HeadsetInv, HeadsetTyped
<1>4. f \in Received /\ Tail(received) \in Seq(Received)
  BY <1>1, <1>3
<1>5. f.index \in Nat /\ Of(f) \in Frames /\ Of(f).stream = stream.id /\ Of(f).index = f.index
  BY <1>3, <1>4 DEF Received, Of, Frames
<1>6. sent \in Submitted
  <2>1. f.index * appConfig.duration \in Nat
    BY <1>3, <1>5
  <2> QED BY <1>5, <2>1 DEF Submitted, OfItsStream
<1>7. Of(f) \in Logged
  BY <1>5 DEF Logged, OfItsStream
<1> HIDE DEF sent, f
<1>8. poseLog' \in [0 .. LogSize - 1 -> Logged]
  BY <1>1, <1>3, <1>7
<1>9. /\ CodecWhole'
      /\ codec'.input \in Seq(Submitted) /\ codec'.output \in Seq(Submitted)
  <2>1. CASE codec' = codec
    BY <1>3, <2>1 DEF CodecWhole
  <2>2. CASE codec' = Flushed(codec)
    <3>1. codec' = [on |-> codec.on, size |-> codec.size, input |-> <<>>, output |-> <<>>]
      BY <1>3, <2>2 DEF CodecWhole, Flushed
    <3> QED BY <3>1 DEF CodecWhole
  <2>3. CASE codec' = [codec EXCEPT !.input = Append(@, sent)]
    <3>1. codec' = [on |-> codec.on, size |-> codec.size, input |-> Append(codec.input, sent), output |-> codec.output]
      BY <1>3, <2>3 DEF CodecWhole
    <3>2. Append(codec.input, sent) \in Seq(Submitted)
      BY <1>3, <1>6
    <3> QED BY <1>3, <3>1, <3>2 DEF CodecWhole
  <2> QED BY <1>1, <2>1, <2>2, <2>3
<1>10. HeadsetTyped' /\ StreamWhole'
  <2>1. UNCHANGED <<stream, nextIndex, appConfig, configured>>
    BY <1>1
  <2> QED BY <2>1 DEF HeadsetInv, HeadsetTyped, StreamWhole
<1>11. received' \in Seq(Received)
  <2>1. CASE received' = Tail(received)
    BY <1>4, <2>1
  <2>2. CASE received' = <<>>
    BY <2>2
  <2> QED BY <1>1, <2>1, <2>2
<1> QED BY <1>1, <1>2, <1>8, <1>9, <1>10, <1>11 DEF HeadsetInv, PictureTurnedFromItsPose

LEMMA RenderFrameStep == ASSUME HeadsetInv, RenderFrame PROVE HeadsetInv'
PROOF
<1>1. UNCHANGED <<stream, received, nextIndex, poseLog, appConfig, configured>>
  BY DEF RenderFrame, streamVars
<1>2. Submitted' = Submitted /\ Logged' = Logged /\ Received' = Received
  BY <1>1, SameSets
<1>3. CASE UNCHANGED <<codec, picture>>
  BY <1>1, <1>2, <1>3 DEF HeadsetInv, StreamWhole, CodecWhole, HeadsetTyped, PictureTurnedFromItsPose
<1>4. CASE ~ UNCHANGED <<codec, picture>>
  <2> DEFINE out == Head(codec.output)
  <2>1. /\ codec.output # <<>> /\ codec' = [codec EXCEPT !.output = Tail(@)]
        /\ picture' = [frame |-> out.frame, turnedFrom |-> PoseFor(out.pts), shown |-> TRUE,
                       settled |-> configured = stream.id]
    BY <1>4 DEF RenderFrame
  <2>2. /\ CodecWhole
        /\ codec.input \in Seq(Submitted) /\ codec.output \in Seq(Submitted)
    BY DEF HeadsetInv, HeadsetTyped
  <2>3. out \in Submitted /\ Tail(codec.output) \in Seq(Submitted)
    BY <2>1, <2>2
  <2>4. codec' = [on |-> codec.on, size |-> codec.size, input |-> codec.input, output |-> Tail(codec.output)]
    BY <2>1, <2>2 DEF CodecWhole
  <2>5. /\ CodecWhole'
        /\ codec'.input \in Seq(Submitted) /\ codec'.output \in Seq(Submitted)
    BY <2>2, <2>3, <2>4 DEF CodecWhole
  <2>6. HeadsetTyped' /\ StreamWhole'
    BY <1>1 DEF HeadsetInv, HeadsetTyped, StreamWhole
  <2>7. configured = stream.id => PoseFor(out.pts) \in {Nothing, out.frame}
    BY <2>3, PoseIsOfFrame
  <2>8. PictureTurnedFromItsPose'
    BY <2>1, <2>7 DEF PictureTurnedFromItsPose
  <2> QED BY <1>1, <1>2, <2>5, <2>6, <2>8 DEF HeadsetInv
<1> QED BY <1>3, <1>4

LEMMA HeadsetInvStep == HeadsetInv /\ [HeadsetNext]_headsetVars => HeadsetInv'
PROOF
<1> SUFFICES ASSUME HeadsetInv, [HeadsetNext]_headsetVars PROVE HeadsetInv'
  OBVIOUS
<1>1. CASE UNCHANGED headsetVars
  <2>1. UNCHANGED <<stream, received, nextIndex, codec, poseLog, appConfig, configured, picture>>
    BY <1>1 DEF headsetVars, streamVars, pictureVars
  <2>2. Submitted' = Submitted /\ Logged' = Logged /\ Received' = Received
    BY <2>1, SameSets
  <2> QED BY <2>1, <2>2 DEF HeadsetInv, StreamWhole, CodecWhole, HeadsetTyped, PictureTurnedFromItsPose
<1> QED
  BY <1>1, DecoderDecodesStep, StreamOpensStep, OutsideSteps, FrameReceivedStep, HandleStreamEventStep,
     FeedFrameStep, RenderFrameStep
  DEF HeadsetNext

(***************************************************************************)
(* While the loop has configured for the stream that was opened last, a    *)
(* picture on the display is turned from the pose of its own frame or from *)
(* none (RenderPoseLog::find() on the index that a timestamp gives back),  *)
(* for any log size, frame durations, input buffers and streams.           *)
(***************************************************************************)
THEOREM PictureHasItsOwnPose == HeadsetSpec => []PictureTurnedFromItsPose
PROOF
<1>1. HeadsetInv => PictureTurnedFromItsPose
  BY DEF HeadsetInv
<1> QED BY <1>1, HeadsetInvInit, HeadsetInvStep, PTL DEF HeadsetSpec

-----------------------------------------------------------------------------
(* The framing of the control connection, on either stream.                *)

Octets == Nat \X Nat \X Nat

Streams ==
  [unsent : Seq(Octets), wire : Seq(Octets), inbox : Seq(Octets), lengths : Seq(Nat \ {0}),
   got : Seq(Seq(Octets))]

BytesOf(flow) == flow.inbox \o flow.wire \o flow.unsent

\* Bytes of messages of these lengths, the first of message taken + 1 and the last of the last.
Complete(p, lengths, taken) ==
  /\ taken <= Len(lengths)
  /\ p = <<>> <=> taken = Len(lengths)
  /\ p # <<>> =>
       /\ p[1] = <<taken + 1, 1, lengths[taken + 1]>>
       /\ \A i \in 1 .. Len(p) - 1 : p[i + 1] = NextByte(p[i], lengths)
       /\ p[Len(p)] = <<Len(lengths), HeaderBytes + lengths[Len(lengths)], lengths[Len(lengths)]>>

InMessage(b, lengths) ==
  b[1] \in 1 .. Len(lengths) /\ b[3] = lengths[b[1]] /\ b[2] \in 1 .. HeaderBytes + b[3]

\* Two bytes of a message are as far apart as their positions say, and one of a later message
\* comes after what is left of this one.
Apart(x, y, distance) ==
  /\ x[1] <= y[1]
  /\ x[1] = y[1] => y[2] - x[2] = distance
  /\ x[1] < y[1] => distance > HeaderBytes + x[3] - x[2]

Spaced(p, lengths) ==
  /\ \A i \in 1 .. Len(p) : InMessage(p[i], lengths)
  /\ \A i, j \in 1 .. Len(p) : i < j => Apart(p[i], p[j], j - i)

StreamInv(flow) ==
  /\ flow \in Streams
  /\ InOrder(flow)
  /\ Complete(BytesOf(flow), flow.lengths, Len(flow.got))
  /\ Spaced(BytesOf(flow), flow.lengths)

\* The first message of them: the first bytes are those of its header and body.
LEMMA FirstMessage ==
  ASSUME NEW p \in Seq(Octets), NEW lengths \in Seq(Nat \ {0}), NEW taken \in Nat,
         Complete(p, lengths, taken), Spaced(p, lengths), p # <<>>
  PROVE  LET length == lengths[taken + 1]
         IN  /\ length \in Nat \ {0} /\ taken + 1 \in 1 .. Len(lengths)
             /\ \A i \in 1 .. Len(p) :
                  i <= HeaderBytes + length => p[i] = <<taken + 1, i, length>>
<1> DEFINE length == lengths[taken + 1]
<1>1. Len(p) \in Nat \ {0} /\ Len(lengths) \in Nat /\ HeaderBytes \in Nat \ {0}
  BY ControlStreamAssumption DEF ControlStreamAssumption
<1>2. p[1] = <<taken + 1, 1, length>> /\ taken <= Len(lengths) /\ taken # Len(lengths)
  BY DEF Complete
<1>3. taken + 1 \in 1 .. Len(lengths) /\ length \in Nat \ {0}
  BY <1>1, <1>2
<1> HIDE DEF length
<1>4. ASSUME NEW i \in 1 .. Len(p), i <= HeaderBytes + length
      PROVE  p[i] = <<taken + 1, i, length>>
  <2>1. CASE i = 1
    BY <1>2, <2>1
  <2>2. CASE i # 1
    <3>1. Apart(p[1], p[i], i - 1)
      BY <1>1, <2>2 DEF Spaced
    <3>2. InMessage(p[i], lengths) /\ p[i] \in Octets
      BY DEF Spaced
    <3>3. /\ p[1][1] = taken + 1 /\ p[1][2] = 1 /\ p[1][3] = length
      BY <1>2
    <3>4. p[i] = <<p[i][1], p[i][2], p[i][3]>> /\ p[i][1] \in Nat /\ p[i][2] \in Nat
      BY <3>2, SMTT(60) DEF Octets
    <3>5. p[i][1] = taken + 1
      BY <1>1, <1>3, <1>4, <3>1, <3>3, <3>4, SMTT(60) DEF Apart
    <3>6. p[i][2] = i
      BY <3>1, <3>3, <3>4, <3>5 DEF Apart
    <3>7. p[i][3] = length
      BY <3>2, <3>5 DEF InMessage, length
    <3> QED
      BY <3>4, <3>5, <3>6, <3>7
  <2> QED
    BY <2>1, <2>2
<1> QED
  BY <1>3, <1>4 DEF length

\* A message is added behind the others.
LEMMA MessageAdded ==
  ASSUME NEW p \in Seq(Octets), NEW lengths \in Seq(Nat \ {0}), NEW taken \in Nat,
         Complete(p, lengths, taken), Spaced(p, lengths), NEW length \in Nat \ {0}
  PROVE  LET q == p \o Framed(Len(lengths) + 1, length)
             longer == Append(lengths, length)
         IN  q \in Seq(Octets) /\ Complete(q, longer, taken) /\ Spaced(q, longer)
<1> DEFINE n == Len(lengths) + 1
           frame == Framed(n, length)
           q == p \o frame
           longer == Append(lengths, length)
           size == HeaderBytes + length
<1>1. Len(p) \in Nat /\ Len(lengths) \in Nat /\ HeaderBytes \in Nat \ {0} /\ n \in Nat /\ size \in Nat \ {0}
  BY ControlStreamAssumption DEF ControlStreamAssumption
<1>2. /\ frame \in Seq(Octets) /\ Len(frame) = size
      /\ \A i \in 1 .. size : frame[i] = <<n, i, length>>
  <2>1. frame = [i \in 1 .. size |-> <<n, i, length>>]
    BY DEF Framed
  <2>2. \A i \in 1 .. size : <<n, i, length>> \in Octets
    BY <1>1 DEF Octets
  <2> HIDE DEF frame, size, n
  <2> QED
    BY <1>1, <2>1, <2>2
<1>3. /\ longer \in Seq(Nat \ {0}) /\ Len(longer) = n /\ longer[n] = length
      /\ \A i \in 1 .. Len(lengths) : longer[i] = lengths[i]
  BY <1>1
<1> HIDE DEF frame
<1>4. /\ q \in Seq(Octets) /\ Len(q) = Len(p) + size
      /\ \A i \in 1 .. Len(p) : q[i] = p[i]
      /\ \A i \in Len(p) + 1 .. Len(p) + size : q[i] = <<n, i - Len(p), length>>
  <2>1. /\ q \in Seq(Octets) /\ Len(q) = Len(p) + Len(frame)
        /\ \A i \in 1 .. Len(p) + Len(frame) : q[i] = IF i <= Len(p) THEN p[i] ELSE frame[i - Len(p)]
    BY <1>2, ConcatProperties
  <2> HIDE DEF q, size
  <2>2. ASSUME NEW i \in Len(p) + 1 .. Len(p) + size
        PROVE  q[i] = <<n, i - Len(p), length>>
    BY <1>1, <1>2, <2>1, <2>2
  <2> QED
    BY <1>1, <1>2, <2>1, <2>2
<1> HIDE DEF q, longer, size, n
<1>5. n = Len(lengths) + 1 /\ size = HeaderBytes + length
  BY DEF n, size
<1>6. \A i \in 1 .. Len(p) :
        /\ InMessage(p[i], lengths) /\ InMessage(p[i], longer) /\ p[i] \in Octets
        /\ p[i][1] \in Nat /\ p[i][2] \in Nat /\ p[i][3] \in Nat
        /\ p[i][1] < n
  <2> SUFFICES ASSUME NEW i \in 1 .. Len(p)
               PROVE  /\ InMessage(p[i], lengths) /\ InMessage(p[i], longer) /\ p[i] \in Octets
                      /\ p[i][1] \in Nat /\ p[i][2] \in Nat /\ p[i][3] \in Nat
                      /\ p[i][1] < n
    OBVIOUS
  <2>1. InMessage(p[i], lengths) /\ p[i] \in Octets
    BY DEF Spaced
  <2>2. p[i][1] \in Nat /\ p[i][2] \in Nat /\ p[i][3] \in Nat
    BY <2>1 DEF Octets
  <2>3. p[i][1] \in 1 .. Len(lengths)
    BY <2>1 DEF InMessage
  <2>4. p[i][1] < n
    BY <1>1, <1>5, <2>3
  <2>5. InMessage(p[i], longer)
    <3>1. p[i][1] \in 1 .. Len(longer)
      BY <1>1, <1>3, <1>5, <2>3
    <3>2. longer[p[i][1]] = lengths[p[i][1]]
      BY <1>3, <2>3
    <3> QED
      BY <2>1, <3>1, <3>2 DEF InMessage
  <2> QED
    BY <2>1, <2>2, <2>4, <2>5
<1>7. \A i \in Len(p) + 1 .. Len(p) + size :
        /\ q[i][1] = n /\ q[i][2] = i - Len(p) /\ q[i][3] = length
        /\ InMessage(q[i], longer)
  <2> SUFFICES ASSUME NEW i \in Len(p) + 1 .. Len(p) + size
               PROVE  /\ q[i][1] = n /\ q[i][2] = i - Len(p) /\ q[i][3] = length
                      /\ InMessage(q[i], longer)
    OBVIOUS
  <2>1. q[i][1] = n /\ q[i][2] = i - Len(p) /\ q[i][3] = length
    BY <1>4
  <2>2. n \in 1 .. Len(longer) /\ i - Len(p) \in 1 .. HeaderBytes + length
    BY <1>1, <1>3, <1>5
  <2> QED
    BY <1>3, <2>1, <2>2 DEF InMessage
\* What is left of a message behind one of its bytes is all there.
<1>8. ASSUME NEW i \in 1 .. Len(p)
      PROVE  HeaderBytes + p[i][3] - p[i][2] <= Len(p) - i
  <2> DEFINE last == p[Len(p)]
  <2>1. Len(p) \in 1 .. Len(p) /\ p # <<>>
    BY <1>1
  <2>2. last = <<Len(lengths), HeaderBytes + lengths[Len(lengths)], lengths[Len(lengths)]>>
    BY <2>1 DEF Complete
  <2>3. last[2] = HeaderBytes + last[3] /\ last[3] = lengths[last[1]]
    BY <2>2
  <2>4. /\ last[1] \in Nat /\ last[2] \in Nat /\ last[3] \in Nat
    BY <1>6, <2>1
  <2>5. CASE i = Len(p)
    BY <1>1, <2>3, <2>4, <2>5
  <2>6. CASE i # Len(p)
    <3>1. Apart(p[i], last, Len(p) - i)
      BY <1>1, <2>1, <2>6 DEF Spaced
    <3>2. p[i][3] = lengths[p[i][1]] /\ p[i][1] \in Nat /\ p[i][2] \in Nat /\ p[i][3] \in Nat
      BY <1>6 DEF InMessage
    <3> HIDE DEF last
    <3> DEFINE a == p[i][1]
               b == p[i][2]
               c == p[i][3]
               d == Len(p) - i
               m == last[1]
               k == last[2]
               l == last[3]
    <3> d \in Int
      BY <1>1
    <3> a \in Nat /\ b \in Nat /\ c \in Nat /\ m \in Nat /\ k \in Nat /\ l \in Nat
      BY <2>4, <3>2
    <3>5. a <= m /\ (a = m => k - b = d) /\ (a < m => d > HeaderBytes + c - b)
      BY <3>1 DEF Apart
    <3>6. k = HeaderBytes + l /\ (a = m => c = l)
      BY <2>3, <3>2
    <3> HIDE DEF a, b, c, d, m, k, l
    <3>3. CASE a = m
      <4>1. HeaderBytes + c - b <= d
        BY <1>1, <3>3, <3>5, <3>6
      <4> QED
        BY <4>1 DEF b, c, d
    <3>4. CASE a # m
      <4>1. HeaderBytes + c - b <= d
        BY <1>1, <3>4, <3>5
      <4> QED
        BY <4>1 DEF b, c, d
    <3> QED
      BY <3>3, <3>4
  <2> QED
    BY <2>5, <2>6
<1>9. Spaced(q, longer)
  <2>1. \A i \in 1 .. Len(q) : InMessage(q[i], longer)
    <3> SUFFICES ASSUME NEW i \in 1 .. Len(q) PROVE InMessage(q[i], longer)
      OBVIOUS
    <3>1. i \in 1 .. Len(p) \/ i \in Len(p) + 1 .. Len(p) + size
      BY <1>1, <1>4
    <3> QED
      BY <1>4, <1>6, <1>7, <3>1
  <2>2. ASSUME NEW i \in 1 .. Len(q), NEW j \in 1 .. Len(q), i < j
        PROVE  Apart(q[i], q[j], j - i)
    <3>1. CASE j \in 1 .. Len(p)
      <4>1. i \in 1 .. Len(p)
        BY <1>1, <1>4, <2>2, <3>1
      <4> QED
        BY <1>4, <2>2, <3>1, <4>1 DEF Spaced
    <3>2. CASE i \in Len(p) + 1 .. Len(p) + size /\ j \in Len(p) + 1 .. Len(p) + size
      <4>1. /\ q[i][1] = n /\ q[i][2] = i - Len(p) /\ q[j][1] = n /\ q[j][2] = j - Len(p)
        BY <1>7, <3>2
      <4> QED
        BY <1>1, <4>1 DEF Apart
    <3>3. CASE i \in 1 .. Len(p) /\ j \in Len(p) + 1 .. Len(p) + size
      <4>1. q[i] = p[i] /\ q[j][1] = n
        BY <1>4, <1>7, <3>3
      <4>2. p[i][1] < n /\ p[i][1] \in Nat /\ p[i][2] \in Nat /\ p[i][3] \in Nat
        BY <1>6, <3>3
      <4>3. HeaderBytes + p[i][3] - p[i][2] <= Len(p) - i
        BY <1>8, <3>3
      <4>4. j - i > HeaderBytes + p[i][3] - p[i][2]
        BY <1>1, <3>3, <4>2, <4>3, SMTT(60)
      <4> QED
        BY <1>1, <4>1, <4>2, <4>4, SMTT(60) DEF Apart
    <3> QED
      BY <1>1, <1>4, <2>2, <3>1, <3>2, <3>3
  <2> QED
    BY <2>1, <2>2 DEF Spaced
<1>10. taken <= Len(longer) /\ taken # Len(longer) /\ q # <<>>
  <2>1. taken <= Len(lengths)
    BY DEF Complete
  <2> QED
    BY <1>1, <1>3, <1>4, <1>5, <2>1
<1>11. q[1] = <<taken + 1, 1, longer[taken + 1]>>
  <2>1. CASE p = <<>>
    <3>1. taken = Len(lengths) /\ Len(p) = 0
      BY <2>1 DEF Complete
    <3>2. 1 \in Len(p) + 1 .. Len(p) + size
      BY <1>1, <3>1
    <3> QED
      BY <1>3, <1>4, <1>5, <3>1, <3>2
  <2>2. CASE p # <<>>
    <3>1. p[1] = <<taken + 1, 1, lengths[taken + 1]>> /\ taken <= Len(lengths) /\ taken # Len(lengths)
      BY <2>2 DEF Complete
    <3>2. 1 \in 1 .. Len(p) /\ taken + 1 \in 1 .. Len(lengths)
      BY <1>1, <2>2, <3>1
    <3> QED
      BY <1>3, <1>4, <3>1, <3>2
  <2> QED
    BY <2>1, <2>2
<1>12. ASSUME NEW i \in 1 .. Len(q) - 1
       PROVE  q[i + 1] = NextByte(q[i], longer)
  <2>1. CASE i \in 1 .. Len(p) - 1
    <3>1. i \in 1 .. Len(p) /\ i + 1 \in 1 .. Len(p) /\ p # <<>>
      BY <1>1, <2>1
    <3>2. p[i + 1] = NextByte(p[i], lengths)
      BY <2>1, <3>1 DEF Complete
    <3>3. q[i] = p[i] /\ q[i + 1] = p[i + 1]
      BY <1>4, <3>1
    <3>4. CASE p[i][2] < HeaderBytes + p[i][3]
      BY <3>2, <3>3, <3>4 DEF NextByte
    <3>5. CASE ~(p[i][2] < HeaderBytes + p[i][3])
      <4>1. p[i + 1] = <<p[i][1] + 1, 1, lengths[p[i][1] + 1]>>
        BY <3>2, <3>5 DEF NextByte
      <4>2. p[i + 1][1] \in 1 .. Len(lengths)
        BY <1>6, <3>1 DEF InMessage
      <4>3. p[i][1] + 1 \in 1 .. Len(lengths)
        BY <4>1, <4>2
      <4>4. longer[p[i][1] + 1] = lengths[p[i][1] + 1]
        BY <1>3, <4>3
      <4> QED
        BY <3>3, <3>5, <4>1, <4>4 DEF NextByte
    <3> QED
      BY <3>4, <3>5
  <2>2. CASE i = Len(p)
    <3>1. p # <<>> /\ i \in 1 .. Len(p) /\ i + 1 \in Len(p) + 1 .. Len(p) + size
      BY <1>1, <2>2
    <3>2. p[i] = <<Len(lengths), HeaderBytes + lengths[Len(lengths)], lengths[Len(lengths)]>>
      BY <2>2, <3>1 DEF Complete
    <3>3. q[i] = p[i] /\ q[i + 1] = <<n, 1, length>>
      BY <1>1, <1>4, <2>2, <3>1, SMTT(60)
    <3>4. q[i][1] = Len(lengths) /\ ~(q[i][2] < HeaderBytes + q[i][3])
      <4>1. q[i][1] = Len(lengths) /\ q[i][2] = HeaderBytes + q[i][3]
        BY <3>2, <3>3
      <4>2. q[i][2] \in Nat
        BY <1>6, <3>1, <3>3
      <4> QED
        BY <4>1, <4>2
    <3> QED
      BY <1>3, <1>5, <3>3, <3>4 DEF NextByte
  <2>3. CASE i \in Len(p) + 1 .. Len(p) + size - 1
    <3>1. /\ i \in Len(p) + 1 .. Len(p) + size /\ i + 1 \in Len(p) + 1 .. Len(p) + size
          /\ (i + 1) - Len(p) = (i - Len(p)) + 1 /\ i - Len(p) < HeaderBytes + length
      BY <1>1, <1>5, <2>3
    <3>2. q[i + 1] = <<n, (i - Len(p)) + 1, length>>
      BY <1>4, <3>1
    <3>3. q[i][1] = n /\ q[i][2] = i - Len(p) /\ q[i][3] = length
      BY <1>7, <3>1
    <3> QED
      BY <3>1, <3>2, <3>3 DEF NextByte
  <2> QED
    BY <1>1, <1>4, <2>1, <2>2, <2>3
<1>13. q[Len(q)] = <<Len(longer), HeaderBytes + longer[Len(longer)], longer[Len(longer)]>>
  <2>1. Len(q) \in Len(p) + 1 .. Len(p) + size /\ Len(q) - Len(p) = size
    BY <1>1, <1>4
  <2> QED
    BY <1>3, <1>4, <1>5, <2>1
<1>14. Complete(q, longer, taken)
  BY <1>10, <1>11, <1>12, <1>13 DEF Complete
<1> QED
  BY <1>4, <1>9, <1>14 DEF q, longer, frame, n

\* The first message is taken away.
LEMMA MessageTaken ==
  ASSUME NEW p \in Seq(Octets), NEW lengths \in Seq(Nat \ {0}), NEW taken \in Nat,
         Complete(p, lengths, taken), Spaced(p, lengths), p # <<>>,
         NEW size \in Nat \ {0}, size <= Len(p),
         p[size][1] = taken + 1, p[size][2] >= HeaderBytes + p[size][3],
         size = Len(p) => taken + 1 = Len(lengths),
         NEW q \in Seq(Octets), Len(q) = Len(p) - size,
         \A i \in 1 .. Len(p) - size : q[i] = p[i + size]
  PROVE  Complete(q, lengths, taken + 1) /\ Spaced(q, lengths)
<1>1. taken + 1 \in 1 .. Len(lengths)
  BY FirstMessage
<1>3. Len(p) \in Nat /\ Len(lengths) \in Nat /\ Len(q) \in Nat
  OBVIOUS
<1>5. /\ p[Len(p)] = <<Len(lengths), HeaderBytes + lengths[Len(lengths)], lengths[Len(lengths)]>>
      /\ \A i \in 1 .. Len(p) - 1 : p[i + 1] = NextByte(p[i], lengths)
  BY DEF Complete
<1>6. ASSUME size < Len(p)
      PROVE  p[size + 1] = <<(taken + 1) + 1, 1, lengths[(taken + 1) + 1]>> /\ taken + 1 < Len(lengths)
  <2>1. size \in 1 .. Len(p) - 1 /\ size + 1 \in 1 .. Len(p)
    BY <1>3, <1>6
  <2>2. p[size + 1] = NextByte(p[size], lengths)
    BY <1>5, <2>1
  <2>3. p[size + 1] = <<(taken + 1) + 1, 1, lengths[(taken + 1) + 1]>>
    <3>1. p[size] \in Octets /\ HeaderBytes \in Nat
      BY <2>1, ControlStreamAssumption DEF ControlStreamAssumption
    <3>2. p[size][2] \in Nat /\ p[size][3] \in Nat
      BY <3>1 DEF Octets
    <3>3. ~(p[size][2] < HeaderBytes + p[size][3])
      BY <3>1, <3>2, SMTT(60)
    <3> QED
      BY <2>2, <3>3 DEF NextByte
  <2>4. p[size + 1][1] \in 1 .. Len(lengths)
    BY <2>1 DEF Spaced, InMessage
  <2>5. taken + 1 < Len(lengths)
    BY <1>3, <2>3, <2>4
  <2> QED
    BY <2>3, <2>5
<1>7. q = <<>> <=> taken + 1 = Len(lengths)
  <2>1. CASE size = Len(p)
    <3>1. Len(q) = 0
      BY <1>3, <2>1
    <3> QED
      BY <2>1, <3>1
  <2>2. CASE size < Len(p)
    <3>1. Len(q) # 0 /\ q # <<>>
      BY <1>3, <2>2
    <3>2. taken + 1 < Len(lengths)
      BY <1>6, <2>2
    <3>3. taken + 1 # Len(lengths)
      BY <1>3, <3>2
    <3> QED
      BY <3>1, <3>3
  <2> QED
    BY <1>3, <2>1, <2>2
<1>8. ASSUME q # <<>>
      PROVE  /\ q[1] = <<(taken + 1) + 1, 1, lengths[(taken + 1) + 1]>>
             /\ \A i \in 1 .. Len(q) - 1 : q[i + 1] = NextByte(q[i], lengths)
             /\ q[Len(q)] = <<Len(lengths), HeaderBytes + lengths[Len(lengths)], lengths[Len(lengths)]>>
  <2>1. size < Len(p) /\ 1 \in 1 .. Len(p) - size /\ Len(q) \in 1 .. Len(p) - size /\ Len(q) + size = Len(p)
    <3>1. Len(q) # 0
      BY <1>8
    <3>2. Len(p) - size # 0 /\ Len(q) = Len(p) - size
      BY <3>1
    <3>3. size < Len(p) /\ 1 <= Len(p) - size
      BY <1>3, <3>2
    <3>4. Len(q) \in Nat /\ Len(q) + size = Len(p)
      BY <1>3, <3>2
    <3> QED
      BY <1>3, <3>2, <3>3, <3>4
  <2>2. q[1] = p[size + 1] /\ q[Len(q)] = p[Len(p)]
    <3>1. q[1] = p[1 + size] /\ 1 + size = size + 1
      BY <1>3, <2>1
    <3> QED
      BY <2>1, <3>1
  <2>3. ASSUME NEW i \in 1 .. Len(q) - 1
        PROVE  q[i + 1] = NextByte(q[i], lengths)
    <3>0. i \in 1 .. (Len(p) - size) - 1
      OBVIOUS
    <3>1. /\ i \in 1 .. Len(p) - size /\ i + 1 \in 1 .. Len(p) - size
          /\ i + size \in 1 .. Len(p) - 1 /\ (i + 1) + size = (i + size) + 1
      BY <1>3, <3>0
    <3>2. q[i] = p[i + size] /\ q[i + 1] = p[(i + size) + 1]
      <4>1. q[i + 1] = p[(i + 1) + size]
        BY <3>1
      <4> QED
        BY <3>1, <4>1
    <3> QED
      BY <1>5, <3>1, <3>2
  <2>4. q[1] = <<(taken + 1) + 1, 1, lengths[(taken + 1) + 1]>>
    BY <1>6, <2>1, <2>2
  <2>5. q[Len(q)] = <<Len(lengths), HeaderBytes + lengths[Len(lengths)], lengths[Len(lengths)]>>
    BY <1>5, <2>2
  <2> QED
    BY <2>3, <2>4, <2>5
<1>9. Complete(q, lengths, taken + 1)
  <2>1. taken + 1 <= Len(lengths)
    BY <1>1, <1>3
  <2> QED
    BY <1>7, <1>8, <2>1, Zenon DEF Complete
<1>10. Spaced(q, lengths)
  <2>1. ASSUME NEW i \in 1 .. Len(q) PROVE InMessage(q[i], lengths)
    <3>1. i \in 1 .. Len(p) - size /\ i + size \in 1 .. Len(p)
      BY <1>3
    <3> QED
      BY <3>1 DEF Spaced
  <2>2. ASSUME NEW i \in 1 .. Len(q), NEW j \in 1 .. Len(q), i < j
        PROVE  Apart(q[i], q[j], j - i)
    <3>0. i \in 1 .. Len(p) - size /\ j \in 1 .. Len(p) - size
      OBVIOUS
    <3>1. /\ i \in 1 .. Len(p) - size /\ i + size \in 1 .. Len(p)
          /\ j \in 1 .. Len(p) - size /\ j + size \in 1 .. Len(p)
          /\ i + size < j + size /\ (j + size) - (i + size) = j - i
      BY <1>3, <2>2, <3>0
    <3>2. Apart(p[i + size], p[j + size], (j + size) - (i + size))
      BY <3>1 DEF Spaced
    <3> QED
      BY <3>1, <3>2
  <2> QED
    BY <2>1, <2>2 DEF Spaced
<1> QED
  BY <1>9, <1>10

\* What the operations do to the fields of a stream.
LEMMA StreamFields ==
  ASSUME NEW flow \in Streams
  PROVE  /\ flow.unsent \in Seq(Octets) /\ flow.wire \in Seq(Octets)
         /\ flow.inbox \in Seq(Octets) /\ flow.lengths \in Seq(Nat \ {0})
         /\ flow.got \in Seq(Seq(Octets))
         /\ BytesOf(flow) \in Seq(Octets)
BY DEF Streams, BytesOf

LEMMA Halves ==
  ASSUME NEW s \in Seq(Octets), NEW n \in Nat, n <= Len(s)
  PROVE  /\ SubSeq(s, 1, n) \in Seq(Octets) /\ Rest(s, n) \in Seq(Octets)
         /\ Len(SubSeq(s, 1, n)) = n /\ Len(Rest(s, n)) = Len(s) - n
         /\ \A i \in 1 .. n : SubSeq(s, 1, n)[i] = s[i]
         /\ \A i \in 1 .. Len(s) - n : Rest(s, n)[i] = s[i + n]
         /\ SubSeq(s, 1, n) \o Rest(s, n) = s
<1>1. Len(s) \in Nat /\ \A i \in 1 .. Len(s) : s[i] \in Octets
  OBVIOUS
<1> DEFINE a == SubSeq(s, 1, n)
           b == Rest(s, n)
<1>2. a \in Seq(Octets) /\ Len(a) = n /\ \A i \in 1 .. n : a[i] = s[i]
  <2>1. \A i \in 1 .. n : s[i] \in Octets
    BY <1>1
  <2>2. /\ a \in Seq(Octets)
        /\ Len(a) = IF 1 <= n THEN n - 1 + 1 ELSE 0
        /\ \A i \in 1 .. n - 1 + 1 : a[i] = s[1 + i - 1]
    BY <2>1, SubSeqProperties
  <2> HIDE DEF a
  <2>3. \A i \in 1 .. n : i \in 1 .. n - 1 + 1 /\ 1 + i - 1 = i
    OBVIOUS
  <2> QED
    BY <2>2, <2>3
<1>3. b \in Seq(Octets) /\ Len(b) = Len(s) - n /\ \A i \in 1 .. Len(s) - n : b[i] = s[i + n]
  <2>1. \A i \in n + 1 .. Len(s) : s[i] \in Octets
    BY <1>1
  <2>2. n + 1 \in Int /\ Len(s) \in Int /\ b = SubSeq(s, n + 1, Len(s))
    BY <1>1 DEF Rest
  <2>3. /\ b \in Seq(Octets)
        /\ Len(b) = IF n + 1 <= Len(s) THEN Len(s) - (n + 1) + 1 ELSE 0
        /\ \A i \in 1 .. Len(s) - (n + 1) + 1 : b[i] = s[(n + 1) + i - 1]
    BY <2>1, <2>2, SubSeqProperties
  <2> HIDE DEF b
  <2>4. \A i \in 1 .. Len(s) - n : i \in 1 .. Len(s) - (n + 1) + 1 /\ (n + 1) + i - 1 = i + n
    BY <1>1
  <2>5. \A i \in 1 .. Len(s) - n : b[i] = s[i + n]
    BY <2>3, <2>4
  <2> QED
    BY <1>1, <2>3, <2>5
<1> HIDE DEF a, b
<1>4. a \o b = s
  <2>1. /\ a \o b \in Seq(Octets) /\ Len(a \o b) = Len(a) + Len(b)
        /\ \A i \in 1 .. Len(a) + Len(b) : (a \o b)[i] = IF i <= Len(a) THEN a[i] ELSE b[i - Len(a)]
    BY <1>2, <1>3, ConcatProperties
  <2>2. ASSUME NEW i \in 1 .. Len(s) PROVE (a \o b)[i] = s[i]
    <3>1. CASE i <= n
      BY <1>1, <1>2, <1>3, <2>1, <3>1
    <3>2. CASE ~(i <= n)
      <4>1. i - n \in 1 .. Len(s) - n /\ (i - n) + n = i
        BY <1>1, <3>2
      <4>2. (a \o b)[i] = b[i - n]
        BY <1>1, <1>2, <1>3, <2>1, <3>2
      <4> QED
        BY <1>3, <4>1, <4>2
    <3> QED
      BY <3>1, <3>2
  <2>3. Len(a \o b) = Len(s)
    BY <1>1, <1>2, <1>3, <2>1
  <2> QED
    BY <2>1, <2>2, <2>3, SeqEqual
<1> QED
  BY <1>2, <1>3, <1>4 DEF a, b

\* Of sequences of bytes.
LEMMA Concatenation ==
  ASSUME NEW x, NEW y, x \in Seq(Octets), y \in Seq(Octets)
  PROVE  /\ x \o y \in Seq(Octets) /\ Len(x \o y) = Len(x) + Len(y)
         /\ \A i \in 1 .. Len(x) + Len(y) : (x \o y)[i] = IF i <= Len(x) THEN x[i] ELSE y[i - Len(x)]
         /\ \A z \in Seq(Octets) : (x \o y) \o z = x \o (y \o z)
<1>1. \A z \in Seq(Octets) : (x \o y) \o z = x \o (y \o z)
  BY ConcatAssociative
<1>2. /\ x \o y \in Seq(Octets) /\ Len(x \o y) = Len(x) + Len(y)
      /\ \A i \in 1 .. Len(x) + Len(y) : (x \o y)[i] = IF i <= Len(x) THEN x[i] ELSE y[i - Len(x)]
  BY ConcatProperties
<1> QED
  BY <1>1, <1>2

LEMMA Associative ==
  ASSUME NEW x, NEW y, NEW z, x \in Seq(Octets), y \in Seq(Octets), z \in Seq(Octets)
  PROVE  (x \o y) \o z = x \o (y \o z)
BY Concatenation, SMTT(60)

\* The bytes in the inbox, on the wire and in the writer, in that order.
LEMMA BytesInOrder ==
  ASSUME NEW a \in Seq(Octets), NEW b \in Seq(Octets), NEW c \in Seq(Octets)
  PROVE  /\ a \o b \o c \in Seq(Octets)
         /\ Len(a \o b \o c) = Len(a) + Len(b) + Len(c)
         /\ \A i \in 1 .. Len(a) : (a \o b \o c)[i] = a[i]
         /\ \A i \in 1 .. Len(b) + Len(c) : (a \o b \o c)[Len(a) + i] = (b \o c)[i]
         /\ a \o b \o c = a \o (b \o c)
<1>1. a \o b \o c = a \o (b \o c)
  BY Concatenation
<1> DEFINE d == b \o c
<1>2. d \in Seq(Octets) /\ Len(d) = Len(b) + Len(c)
  BY Concatenation
<1>3. Len(a) \in Nat /\ Len(b) \in Nat /\ Len(c) \in Nat
  OBVIOUS
<1> HIDE DEF d
<1>4. /\ a \o d \in Seq(Octets) /\ Len(a \o d) = Len(a) + Len(d)
      /\ \A i \in 1 .. Len(a) + Len(d) : (a \o d)[i] = IF i <= Len(a) THEN a[i] ELSE d[i - Len(a)]
  BY <1>2, Concatenation, Zenon
<1>5. \A i \in 1 .. Len(a) : (a \o d)[i] = a[i]
  BY <1>2, <1>3, <1>4
<1>6. ASSUME NEW i \in 1 .. Len(d) PROVE (a \o d)[Len(a) + i] = d[i]
  <2>1. Len(a) + i \in 1 .. Len(a) + Len(d) /\ ~(Len(a) + i <= Len(a)) /\ (Len(a) + i) - Len(a) = i
    BY <1>2, <1>3
  <2> QED
    BY <1>4, <2>1
<1>7. a \o b \o c = a \o d
  BY <1>1 DEF d
<1>8. Len(a \o d) = Len(a) + Len(b) + Len(c)
  BY <1>2, <1>3, <1>4
<1>9. \A i \in 1 .. Len(b) + Len(c) : (a \o d)[Len(a) + i] = d[i]
  BY <1>2, <1>6
<1> QED
  BY <1>4, <1>5, <1>7, <1>8, <1>9 DEF d

\* Whatever moves along keeps the order.
LEMMA BytesMove ==
  ASSUME NEW flow \in Streams, NEW n \in Nat
  PROVE  /\ n <= Len(flow.wire) => BytesOf(Arrive(flow, n)) = BytesOf(flow)
         /\ n <= Len(flow.unsent) => BytesOf(Sends(flow, n)) = BytesOf(flow)
<1> DEFINE a == flow.inbox
           b == flow.wire
           c == flow.unsent
<1>1. a \in Seq(Octets) /\ b \in Seq(Octets) /\ c \in Seq(Octets)
  BY DEF Streams
<1>2. ASSUME n <= Len(b) PROVE BytesOf(Arrive(flow, n)) = BytesOf(flow)
  <2> DEFINE first == SubSeq(b, 1, n)
             rest == Rest(b, n)
             next0 == Arrive(flow, n)
  <2>1. next0.inbox = a \o first /\ next0.wire = rest /\ next0.unsent = c
    BY DEF Arrive, Streams
  <2>2. first \in Seq(Octets) /\ rest \in Seq(Octets) /\ first \o rest = b
    BY <1>1, <1>2, Halves
  <2>3. BytesOf(next0) = (a \o first) \o rest \o c
    BY <2>1 DEF BytesOf
  <2> HIDE DEF a, b, c, first, rest, next0
  <2>4. (a \o first) \o rest = a \o (first \o rest)
    <3>1. a \in Seq(Octets) /\ first \in Seq(Octets) /\ rest \in Seq(Octets)
      BY <1>1, <2>2
    <3> QED
      BY <3>1, Associative
  <2>5. BytesOf(next0) = a \o b \o c
    BY <2>2, <2>3, <2>4
  <2> QED
    BY <2>5 DEF BytesOf, a, b, c, next0
<1>3. ASSUME n <= Len(c) PROVE BytesOf(Sends(flow, n)) = BytesOf(flow)
  <2> DEFINE first == SubSeq(c, 1, n)
             rest == Rest(c, n)
             next0 == Sends(flow, n)
  <2>1. next0.inbox = a /\ next0.wire = b \o first /\ next0.unsent = rest
    BY DEF Sends, Streams
  <2>2. first \in Seq(Octets) /\ rest \in Seq(Octets) /\ first \o rest = c
    BY <1>1, <1>3, Halves
  <2>3. BytesOf(next0) = a \o (b \o first) \o rest
    BY <2>1 DEF BytesOf
  <2> HIDE DEF a, b, c, first, rest, next0
  <2>4. a \o (b \o first) = (a \o b) \o first
    BY <1>1, <2>2, Associative, SMTT(60)
  <2>5. a \o b \in Seq(Octets)
    BY <1>1, Concatenation
  <2>6. ((a \o b) \o first) \o rest = (a \o b) \o (first \o rest)
    <3> DEFINE ab == a \o b
    <3>1. ab \in Seq(Octets) /\ first \in Seq(Octets) /\ rest \in Seq(Octets)
      BY <2>2, <2>5
    <3> HIDE DEF ab
    <3>2. (ab \o first) \o rest = ab \o (first \o rest)
      BY <3>1, Associative
    <3> QED
      BY <3>2 DEF ab
  <2>7. BytesOf(next0) = a \o b \o c
    BY <2>2, <2>3, <2>4, <2>6
  <2> QED
    BY <2>7 DEF BytesOf, a, b, c, next0
<1> QED
  BY <1>2, <1>3

\* Bytes go out or come in.
LEMMA StreamMoves ==
  ASSUME NEW flow, StreamInv(flow), NEW n \in Nat, NEW moved,
         \/ moved = Arrive(flow, n) /\ n <= Len(flow.wire)
         \/ moved = Sends(flow, n) /\ n <= Len(flow.unsent)
  PROVE  StreamInv(moved)
<1>1. flow \in Streams
  BY DEF StreamInv
<1>2. BytesOf(moved) = BytesOf(flow)
  BY <1>1, BytesMove
<1>3. moved \in Streams /\ moved.lengths = flow.lengths /\ moved.got = flow.got
  <2>1. CASE moved = Arrive(flow, n) /\ n <= Len(flow.wire)
    <3> DEFINE first == SubSeq(flow.wire, 1, n)
               rest == Rest(flow.wire, n)
               inbox0 == flow.inbox \o first
    <3>1. first \in Seq(Octets) /\ rest \in Seq(Octets) /\ flow.inbox \in Seq(Octets)
      BY <1>1, <2>1, Halves, StreamFields
    <3>2. moved = [flow EXCEPT !.inbox = inbox0, !.wire = rest]
      BY <2>1 DEF Arrive
    <3> HIDE DEF first, rest
    <3>3. inbox0 \in Seq(Octets)
      BY <3>1, Concatenation
    <3> HIDE DEF inbox0
    <3> QED
      BY <1>1, <3>1, <3>2, <3>3 DEF Streams
  <2>2. CASE moved = Sends(flow, n) /\ n <= Len(flow.unsent)
    <3> DEFINE first == SubSeq(flow.unsent, 1, n)
               rest == Rest(flow.unsent, n)
               wire0 == flow.wire \o first
    <3>1. first \in Seq(Octets) /\ rest \in Seq(Octets) /\ flow.wire \in Seq(Octets)
      BY <1>1, <2>2, Halves, StreamFields
    <3>2. moved = [flow EXCEPT !.wire = wire0, !.unsent = rest]
      BY <2>2 DEF Sends
    <3> HIDE DEF first, rest
    <3>3. wire0 \in Seq(Octets)
      BY <3>1, Concatenation
    <3> HIDE DEF wire0
    <3> QED
      BY <1>1, <3>1, <3>2, <3>3 DEF Streams
  <2> QED
    BY <2>1, <2>2
<1> QED
  BY <1>2, <1>3 DEF StreamInv, InOrder

\* A message is handed to the writer.
LEMMA StreamSubmits ==
  ASSUME NEW flow, StreamInv(flow), flow.unsent = <<>>, NEW length \in Nat \ {0}
  PROVE  StreamInv(Submit(flow, length))
<1> DEFINE lengths == flow.lengths
           frame == Framed(Len(lengths) + 1, length)
           longer == Append(lengths, length)
           next0 == Submit(flow, length)
           p == BytesOf(flow)
           taken == Len(flow.got)
<1>1. /\ flow \in Streams /\ lengths \in Seq(Nat \ {0}) /\ p \in Seq(Octets)
      /\ flow.inbox \in Seq(Octets) /\ flow.wire \in Seq(Octets)
      /\ flow.got \in Seq(Seq(Octets)) /\ taken \in Nat
  BY StreamFields DEF StreamInv
<1>2. frame \in Seq(Octets)
  <2>1. HeaderBytes \in Nat /\ Len(lengths) + 1 \in Nat
    BY <1>1, ControlStreamAssumption DEF ControlStreamAssumption
  <2>2. \A i \in 1 .. HeaderBytes + length : <<Len(lengths) + 1, i, length>> \in Octets
    BY <2>1 DEF Octets
  <2> HIDE DEF lengths
  <2> QED
    BY <2>1, <2>2 DEF Framed
<1>3. /\ next0 \in Streams
      /\ next0.unsent = frame /\ next0.lengths = longer /\ next0.got = flow.got
      /\ next0.wire = flow.wire /\ next0.inbox = flow.inbox
  <2>1. longer \in Seq(Nat \ {0})
    BY <1>1
  <2>2. next0 = [flow EXCEPT !.unsent = frame, !.lengths = longer]
    BY DEF Submit
  <2> HIDE DEF longer, frame, next0
  <2> QED
    BY <1>1, <1>2, <2>1, <2>2 DEF Streams
<1>4. BytesOf(next0) = p \o frame
  <2> DEFINE front == flow.inbox \o flow.wire
  <2>1. BytesOf(next0) = front \o frame
    BY <1>3 DEF BytesOf
  <2>2. p = front \o <<>>
    BY DEF BytesOf
  <2>3. front \in Seq(Octets)
    BY <1>1, Concatenation
  <2> HIDE DEF front, p
  <2>4. front \o <<>> = front
    BY <2>3, ConcatEmptySeq
  <2> QED
    BY <2>1, <2>2, <2>4
<1>5. Complete(p, lengths, taken) /\ Spaced(p, lengths)
  BY DEF StreamInv
<1>6. Complete(p \o frame, longer, taken) /\ Spaced(p \o frame, longer)
  <2> HIDE DEF lengths, p, taken
  <2> QED
    BY <1>1, <1>5, MessageAdded
<1>7. InOrder(next0)
  <2>1. \A n \in DOMAIN flow.got : longer[n] = lengths[n]
    <3>1. taken <= Len(lengths)
      BY <1>5 DEF Complete
    <3>2. DOMAIN flow.got = 1 .. taken /\ \A n \in 1 .. Len(lengths) : longer[n] = lengths[n]
      BY <1>1
    <3> QED
      BY <1>1, <3>1, <3>2
  <2> QED
    BY <1>3, <2>1 DEF StreamInv, InOrder
<1> QED
  BY <1>3, <1>4, <1>6, <1>7 DEF StreamInv

\* The first message in the inbox is taken out of it.
LEMMA StreamTakes ==
  ASSUME NEW flow, StreamInv(flow), Whole(flow.inbox)
  PROVE  StreamInv(Take(flow))
<1> DEFINE a == flow.inbox
           b == flow.wire
           c == flow.unsent
           lengths == flow.lengths
           taken == Len(flow.got)
           p == BytesOf(flow)
           length == LengthIn(a)
           size == HeaderBytes + length
           rest == Rest(a, size)
           q == rest \o b \o c
           front == SubSeq(a, 1, size)
           message == Rest(front, HeaderBytes)
           next0 == Take(flow)
<1>1. /\ flow \in Streams /\ lengths \in Seq(Nat \ {0})
      /\ a \in Seq(Octets) /\ b \in Seq(Octets) /\ c \in Seq(Octets)
      /\ flow.got \in Seq(Seq(Octets)) /\ taken \in Nat
  BY StreamFields DEF StreamInv
<1>2. HeaderBytes \in Nat \ {0}
  BY ControlStreamAssumption DEF ControlStreamAssumption
<1>3. Len(a) >= HeaderBytes /\ Len(a) >= size /\ length = a[1][3]
  BY DEF Whole, LengthIn
<1>4. Complete(p, lengths, taken) /\ Spaced(p, lengths)
  BY DEF StreamInv
<1>5. p = a \o b \o c
  BY DEF BytesOf
<1>6. next0 = [flow EXCEPT !.got = Append(@, message), !.inbox = rest]
  BY DEF Take
<1>7. flow.got = flow.got /\ rest = Rest(a, size) /\ q = rest \o b \o c
  OBVIOUS
<1>8. size = HeaderBytes + length
  OBVIOUS
<1> HIDE DEF a, b, c, lengths, p, length, size, next0, rest, q, front, message, taken
<1>9. /\ p \in Seq(Octets) /\ Len(p) = Len(a) + Len(b) + Len(c)
      /\ \A i \in 1 .. Len(a) : p[i] = a[i]
      /\ \A i \in 1 .. Len(b) + Len(c) : p[Len(a) + i] = (b \o c)[i]
  BY <1>1, <1>5, BytesInOrder
<1>10. Len(a) \in Nat \ {0} /\ Len(b) \in Nat /\ Len(c) \in Nat /\ Len(p) \in Nat \ {0} /\ p # <<>>
  BY <1>1, <1>2, <1>3, <1>9
<1>11. p[1] = <<taken + 1, 1, lengths[taken + 1]>> /\ p[1] = a[1]
  BY <1>4, <1>9, <1>10 DEF Complete
<1>12. length = lengths[taken + 1]
  BY <1>3, <1>11
<1>13. /\ length \in Nat \ {0} /\ taken + 1 \in 1 .. Len(lengths)
       /\ \A i \in 1 .. Len(p) : i <= HeaderBytes + length => p[i] = <<taken + 1, i, length>>
  <2>1. p \in Seq(Octets) /\ lengths \in Seq(Nat \ {0}) /\ taken \in Nat /\ p # <<>>
    BY <1>1, <1>9, <1>10
  <2>2. /\ lengths[taken + 1] \in Nat \ {0} /\ taken + 1 \in 1 .. Len(lengths)
        /\ \A i \in 1 .. Len(p) :
             i <= HeaderBytes + lengths[taken + 1] => p[i] = <<taken + 1, i, lengths[taken + 1]>>
    BY <1>4, <2>1, FirstMessage
  <2> QED
    BY <1>12, <2>2
<1>14. size \in Nat \ {0} /\ size <= Len(a) /\ size <= Len(p)
  BY <1>2, <1>3, <1>8, <1>9, <1>10, <1>13, SMTT(60)
<1>15. p[size] = <<taken + 1, size, length>>
  BY <1>8, <1>10, <1>13, <1>14
<1>16. size = Len(p) => taken + 1 = Len(lengths)
  <2>1. p[Len(p)][1] = Len(lengths)
    BY <1>4, <1>10 DEF Complete
  <2> QED
    BY <1>15, <2>1
<1>17. /\ rest \in Seq(Octets) /\ Len(rest) = Len(a) - size
       /\ \A i \in 1 .. Len(a) - size : rest[i] = a[i + size]
  BY <1>1, <1>7, <1>14, Halves
<1>18. /\ q \in Seq(Octets) /\ Len(q) = Len(rest) + Len(b) + Len(c)
       /\ \A i \in 1 .. Len(rest) : q[i] = rest[i]
       /\ \A i \in 1 .. Len(b) + Len(c) : q[Len(rest) + i] = (b \o c)[i]
  <2>1. rest \in Seq(Octets) /\ b \in Seq(Octets) /\ c \in Seq(Octets)
    BY <1>1, <1>17
  <2>2. /\ rest \o b \o c \in Seq(Octets) /\ Len(rest \o b \o c) = Len(rest) + Len(b) + Len(c)
        /\ \A i \in 1 .. Len(rest) : (rest \o b \o c)[i] = rest[i]
        /\ \A i \in 1 .. Len(b) + Len(c) : (rest \o b \o c)[Len(rest) + i] = (b \o c)[i]
    BY <2>1, BytesInOrder
  <2> QED
    BY <1>7, <2>2
<1>19. Len(q) = Len(p) - size
  BY <1>9, <1>10, <1>14, <1>17, <1>18
<1>20. ASSUME NEW i \in 1 .. Len(p) - size PROVE q[i] = p[i + size]
  <2>1. CASE i <= Len(a) - size
    <3>1. i \in 1 .. Len(a) - size /\ i \in 1 .. Len(rest) /\ i + size \in 1 .. Len(a)
      BY <1>10, <1>14, <1>17, <2>1
    <3> QED
      BY <1>9, <1>17, <1>18, <3>1
  <2>2. CASE ~(i <= Len(a) - size)
    <3> DEFINE k == i - (Len(a) - size)
    <3>1. k \in 1 .. Len(b) + Len(c) /\ Len(rest) + k = i /\ Len(a) + k = i + size
      BY <1>9, <1>10, <1>14, <1>17, <2>2
    <3> HIDE DEF k
    <3>2. q[Len(rest) + k] = (b \o c)[k] /\ p[Len(a) + k] = (b \o c)[k]
      BY <1>9, <1>18, <3>1
    <3> QED
      BY <3>1, <3>2
  <2> QED
    BY <2>1, <2>2
<1>21. Complete(q, lengths, taken + 1) /\ Spaced(q, lengths)
  <2>1. p[size][1] = taken + 1 /\ p[size][2] >= HeaderBytes + p[size][3]
    <3>1. p[size][1] = taken + 1 /\ p[size][2] = size /\ p[size][3] = length
      BY <1>15
    <3> QED
      BY <1>8, <1>14, <3>1
  <2> QED
    BY <1>1, <1>4, <1>9, <1>10, <1>14, <1>16, <1>18, <1>19, <1>20, <2>1, MessageTaken
<1>22. message \in Seq(Octets) /\ message = Body(taken + 1, length)
  <2>1. front \in Seq(Octets) /\ Len(front) = size /\ \A i \in 1 .. size : front[i] = a[i]
    BY <1>1, <1>14, Halves DEF front
  <2>2. HeaderBytes \in Nat /\ HeaderBytes <= Len(front) /\ Len(front) - HeaderBytes = length
    BY <1>2, <1>8, <1>13, <2>1
  <2>3. /\ message \in Seq(Octets) /\ Len(message) = length
        /\ \A i \in 1 .. length : message[i] = front[i + HeaderBytes]
    BY <2>1, <2>2, Halves DEF message
  <2>4. ASSUME NEW i \in 1 .. length PROVE message[i] = <<taken + 1, HeaderBytes + i, length>>
    <3>1. /\ i + HeaderBytes \in 1 .. size /\ i + HeaderBytes \in 1 .. Len(a)
          /\ i + HeaderBytes \in 1 .. Len(p) /\ i + HeaderBytes = HeaderBytes + i
          /\ i + HeaderBytes <= HeaderBytes + length
      BY <1>2, <1>8, <1>9, <1>10, <1>13, <1>14
    <3>2. p[i + HeaderBytes] = <<taken + 1, i + HeaderBytes, length>>
      BY <1>13, <3>1
    <3>3. message[i] = a[i + HeaderBytes]
      BY <2>1, <2>3, <3>1
    <3>4. message[i] = p[i + HeaderBytes]
      BY <1>9, <3>1, <3>3
    <3> QED
      BY <3>1, <3>2, <3>4
  <2> DEFINE body == Body(taken + 1, length)
  <2>5. body = [i \in 1 .. length |-> <<taken + 1, HeaderBytes + i, length>>]
    BY DEF Body
  <2>6. \A i \in 1 .. length : <<taken + 1, HeaderBytes + i, length>> \in Octets
    BY <1>1, <1>2, <1>13 DEF Octets
  <2> HIDE DEF body
  <2>7. body \in Seq(Octets) /\ Len(body) = length /\ \A i \in 1 .. length : body[i] = <<taken + 1, HeaderBytes + i, length>>
    BY <1>13, <2>5, <2>6
  <2>8. message = body
    BY <2>3, <2>4, <2>7, SeqEqual
  <2> QED
    BY <2>3, <2>8 DEF body
<1>23. /\ next0 \in Streams /\ BytesOf(next0) = q
       /\ next0.lengths = lengths /\ next0.got = Append(flow.got, message)
  <2> DEFINE got0 == Append(flow.got, message)
  <2>1. got0 \in Seq(Seq(Octets))
    BY <1>1, <1>22
  <2>2. next0 = [flow EXCEPT !.got = got0, !.inbox = rest]
    BY <1>6
  <2> HIDE DEF got0
  <2>3. /\ next0 \in Streams /\ next0.got = got0 /\ next0.inbox = rest
        /\ next0.wire = flow.wire /\ next0.unsent = flow.unsent /\ next0.lengths = flow.lengths
    BY <1>1, <1>17, <2>1, <2>2 DEF Streams
  <2> QED
    BY <1>7, <2>3 DEF BytesOf, got0, b, c, lengths
<1>24. Len(next0.got) = taken + 1
  BY <1>1, <1>22, <1>23 DEF taken
<1>25. InOrder(next0)
  <2> SUFFICES ASSUME NEW n \in DOMAIN next0.got
               PROVE  next0.got[n] = Body(n, lengths[n])
    BY <1>23 DEF InOrder
  <2>1. n \in 1 .. taken \/ n = taken + 1
    BY <1>1, <1>22, <1>23 DEF taken
  <2>2. CASE n \in 1 .. taken
    <3>1. n \in DOMAIN flow.got /\ next0.got[n] = flow.got[n]
      BY <1>1, <1>22, <1>23, <2>2 DEF taken
    <3> QED
      BY <3>1 DEF StreamInv, InOrder, lengths
  <2>3. CASE n = taken + 1
    <3>1. next0.got[n] = message
      BY <1>1, <1>22, <1>23, <2>3 DEF taken
    <3> QED
      BY <1>12, <1>22, <2>3, <3>1
  <2> QED
    BY <2>1, <2>2, <2>3
<1> QED
  BY <1>21, <1>23, <1>24, <1>25 DEF StreamInv, next0

ControlStreamInv == StreamInv(toEngine) /\ StreamInv(toClient)

LEMMA StreamSafe ==
  ASSUME NEW flow, StreamInv(flow)
  PROVE  InOrder(flow) /\ Accounted(flow)
BY DEF StreamInv, Complete, BytesOf, Accounted

LEMMA StreamBegins == StreamInv(NewStream)
<1>1. NewStream \in Streams
  BY DEF NewStream, Streams
<1>2. BytesOf(NewStream) = <<>>
  <2>1. BytesOf(NewStream) = (<<>> \o <<>>) \o <<>>
    BY DEF NewStream, BytesOf
  <2>2. <<>> \in Seq(Octets)
    OBVIOUS
  <2>3. <<>> \o <<>> = <<>>
    BY <2>2, ConcatEmptySeq
  <2> QED
    BY <2>1, <2>3
<1>3. NewStream.lengths = <<>> /\ NewStream.got = <<>>
  BY DEF NewStream
<1>4. Len(<<>>) = 0
  OBVIOUS
<1> QED
  BY <1>1, <1>2, <1>3, <1>4 DEF StreamInv, InOrder, Complete, Spaced

LEMMA ControlStreamStep ==
  ASSUME ControlStreamInv, [ControlStreamNext]_controlVars
  PROVE  ControlStreamInv'
<1>1. StreamInv(toEngine) /\ StreamInv(toClient)
  BY DEF ControlStreamInv
<1>2. /\ Len(toEngine.wire) \in Nat /\ Len(toEngine.unsent) \in Nat
      /\ Len(toClient.wire) \in Nat /\ Len(toClient.unsent) \in Nat
  BY <1>1, StreamFields DEF StreamInv
\* A read or a write of a part moves a stream, a read of a whole message also takes it.
<1>3. ASSUME NEW n \in 1 .. ReadBytes + HeaderBytes + MaxMessageLen
      PROVE  /\ ClientWrites(n) => ControlStreamInv'
             /\ EngineWrites(n) => ControlStreamInv'
             /\ ReadExact(n) => ControlStreamInv'
             /\ ReadSome(n) => ControlStreamInv'
             /\ RecvBytes(n) => ControlStreamInv'
  <2>1. n \in Nat
    OBVIOUS
  <2>2. CASE ClientWrites(n)
    <3>1. toEngine' = Sends(toEngine, n) /\ n <= Len(toEngine.unsent) /\ toClient' = toClient
      BY <1>2, <2>2 DEF ClientWrites
    <3>2. StreamInv(toEngine')
      BY <1>1, <2>1, <3>1, StreamMoves
    <3> QED
      BY <1>1, <3>1, <3>2 DEF ControlStreamInv
  <2>3. CASE EngineWrites(n)
    <3>1. toClient' = Sends(toClient, n) /\ n <= Len(toClient.unsent) /\ toEngine' = toEngine
      BY <1>2, <2>3 DEF EngineWrites
    <3>2. StreamInv(toClient')
      BY <1>1, <2>1, <3>1, StreamMoves
    <3> QED
      BY <1>1, <3>1, <3>2 DEF ControlStreamInv
  <2>4. CASE ReadExact(n)
    <3> DEFINE read == Arrive(toEngine, n)
    <3>1. /\ toEngine' = IF Whole(read.inbox) THEN Take(read) ELSE read
          /\ n <= Len(toEngine.wire) /\ toClient' = toClient
      BY <1>2, <2>4 DEF ReadExact
    <3>2. StreamInv(read)
      BY <1>1, <2>1, <3>1, StreamMoves
    <3> HIDE DEF read
    <3>3. StreamInv(toEngine')
      BY <3>1, <3>2, StreamTakes
    <3> QED
      BY <1>1, <3>1, <3>3 DEF ControlStreamInv
  <2>5. CASE ReadSome(n)
    <3>1. toEngine' = Arrive(toEngine, n) /\ n <= Len(toEngine.wire) /\ toClient' = toClient
      BY <1>2, <2>5 DEF ReadSome
    <3>2. StreamInv(toEngine')
      BY <1>1, <2>1, <3>1, StreamMoves
    <3> QED
      BY <1>1, <3>1, <3>2 DEF ControlStreamInv
  <2>6. CASE RecvBytes(n)
    <3>1. toClient' = Arrive(toClient, n) /\ n <= Len(toClient.wire) /\ toEngine' = toEngine
      BY <1>2, <2>6 DEF RecvBytes
    <3>2. StreamInv(toClient')
      BY <1>1, <2>1, <3>1, StreamMoves
    <3> QED
      BY <1>1, <3>1, <3>2 DEF ControlStreamInv
  <2> QED
    BY <2>2, <2>3, <2>4, <2>5, <2>6
<1>4. ASSUME NEW length \in 1 .. MaxMessageLen
      PROVE  /\ ClientSubmits(length) => ControlStreamInv'
             /\ EngineSubmits(length) => ControlStreamInv'
  <2>1. length \in Nat \ {0}
    BY ControlStreamAssumption DEF ControlStreamAssumption
  <2>2. CASE ClientSubmits(length)
    <3>1. toEngine.unsent = <<>> /\ toEngine' = Submit(toEngine, length) /\ toClient' = toClient
      BY <2>2 DEF ClientSubmits
    <3>2. StreamInv(toEngine')
      BY <1>1, <2>1, <3>1, StreamSubmits
    <3> QED
      BY <1>1, <3>1, <3>2 DEF ControlStreamInv
  <2>3. CASE EngineSubmits(length)
    <3>1. toClient.unsent = <<>> /\ toClient' = Submit(toClient, length) /\ toEngine' = toEngine
      BY <2>3 DEF EngineSubmits
    <3>2. StreamInv(toClient')
      BY <1>1, <2>1, <3>1, StreamSubmits
    <3> QED
      BY <1>1, <3>1, <3>2 DEF ControlStreamInv
  <2> QED
    BY <2>2, <2>3
<1>5. CASE TakeControlMessage
  <2>1. Whole(toEngine.inbox) /\ toEngine' = Take(toEngine) /\ toClient' = toClient
    BY <1>5 DEF TakeControlMessage
  <2>2. StreamInv(toEngine')
    BY <1>1, <2>1, StreamTakes
  <2> QED
    BY <1>1, <2>1, <2>2 DEF ControlStreamInv
<1>6. CASE TakeMessage
  <2>1. Whole(toClient.inbox) /\ toClient' = Take(toClient) /\ toEngine' = toEngine
    BY <1>6 DEF TakeMessage
  <2>2. StreamInv(toClient')
    BY <1>1, <2>1, StreamTakes
  <2> QED
    BY <1>1, <2>1, <2>2 DEF ControlStreamInv
<1>7. CASE WriteTimesOut \/ EngineDrops \/ ClientLeaves \/ UNCHANGED controlVars
  <2>1. toEngine' = toEngine /\ toClient' = toClient
    BY <1>7 DEF WriteTimesOut, EngineDrops, ClientLeaves, controlVars
  <2> QED
    BY <1>1, <2>1 DEF ControlStreamInv
<1>8. CASE Connect
  <2>1. toEngine' = NewStream /\ toClient' = NewStream
    BY <1>8 DEF Connect
  <2> QED
    BY <2>1, StreamBegins DEF ControlStreamInv
<1> QED
  BY <1>3, <1>4, <1>5, <1>6, <1>7, <1>8, Zenon DEF ControlStreamNext

\* Every message of a connection arrives whole, once and in order, in both directions: whatever its
\* length, however write_all() and writeAll() cut it and the reads return it, and whichever of
\* read_message_generic() and take_control_message() meets it in the engine.
THEOREM EveryMessageArrives == ControlStreamSpec => []MessagesArriveInOrder
<1>1. ControlStreamInit => ControlStreamInv
  BY StreamBegins DEF ControlStreamInit, ControlStreamInv
<1>2. ControlStreamInv /\ [ControlStreamNext]_controlVars => ControlStreamInv'
  BY ControlStreamStep
<1>3. ControlStreamInv => MessagesArriveInOrder
  BY StreamSafe DEF ControlStreamInv, MessagesArriveInOrder
<1> QED
  BY <1>1, <1>2, <1>3, PTL DEF ControlStreamSpec

=============================================================================
