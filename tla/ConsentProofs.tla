---------------------------- MODULE ConsentProofs ----------------------------
(***************************************************************************)
(* Theorems about Consent, for any number of consents and faults: which    *)
(* token reaches the keychain and the running client.                      *)
(***************************************************************************)
EXTENDS Consent, TLAPS

(* What the lock and the generations say.  The generation grows by one per  *)
(* consent, so a consent of this process is as many generations behind as   *)
(* it is consents behind: the holder of the lock is the newest.             *)
LockDiscipline ==
  /\ \A c \in Consents :
       stage[c] # "idle" \/ attempt = c =>
         c <= started /\ genOf[c] = generation - (started - c)
  /\ \A c \in Consents : stage[c] \in {"saving", "saved"} <=> lock = c
  /\ lock # None => genOf[lock] = generation
  /\ ~Up => attempt = None /\ lock = None /\ \A c \in Consents : stage[c] = "idle"

(* While a token is saved the client still agrees with the keychain; once   *)
(* it is, the keychain has the token that the client is about to get.       *)
TokensInStep ==
  /\ Up /\ (lock = None \/ stage[lock] = "saving") => live = keychain \/ unsure
  /\ lock # None /\ stage[lock] = "saved" => keychain = lock

CInv == CTypeOK /\ LockDiscipline /\ TokensInStep

(* The holder of the lock is the newest consent.                            *)
LEMMA HolderIsNewest ==
  ASSUME CTypeOK, LockDiscipline, NEW c \in Consents, lock = c
  PROVE  c = started
<1>1. stage[c] # "idle"
  BY DEF LockDiscipline
<1>2. genOf[c] = generation - (started - c) /\ genOf[c] = generation
  BY <1>1 DEF LockDiscipline, Consents, None
<1> QED
  BY <1>2, ConsentAssumption DEF CTypeOK, Consents

(* The initial states satisfy the invariant.                                *)
LEMMA CInitInv == CInit => CInv
<1> SUFFICES ASSUME CInit PROVE CInv
  OBVIOUS
<1> USE ConsentAssumption DEF ConsentAssumption
<1>1. CTypeOK
  <2>1. started \in 0..MaxConsents /\ faults \in 0..MaxFaults /\ generation \in Nat
    BY DEF CInit
  <2>2. attempt \in Consents \cup {None} /\ lock \in Consents \cup {None}
    BY DEF CInit
  <2>3. genOf \in [Consents -> Nat] /\ stage \in [Consents -> {"idle", "exchanging", "saving", "saved"}]
    BY DEF CInit
  <2>4. keychain \in Tokens \cup {None} /\ live \in Tokens \cup {None}
    BY DEF CInit, Tokens
  <2>5. unsure \in BOOLEAN
    BY DEF CInit
  <2> QED
    BY <2>1, <2>2, <2>3, <2>4, <2>5 DEF CTypeOK
<1>2. LockDiscipline
  BY DEF CInit, LockDiscipline, Consents, None, Up
<1>3. TokensInStep
  BY DEF CInit, TokensInStep, None, Up
<1> QED
  BY <1>1, <1>2, <1>3 DEF CInv

(* Every step keeps the types.                                              *)
LEMMA CTypeStep ==
  ASSUME CTypeOK, [CNext]_cvars
  PROVE  CTypeOK'
<1> USE ConsentAssumption DEF ConsentAssumption, CTypeOK, Consents, Tokens, None, Original
<1>1. CASE StartConsent
  BY <1>1 DEF StartConsent
<1>2. CASE Expire
  BY <1>2 DEF Expire
<1>3. ASSUME NEW c \in Consents, Handler(c) PROVE CTypeOK'
  <2>1. CASE Callback(c)
    BY <2>1 DEF Callback
  <2>2. CASE ExchangeFails(c)
    BY <2>2 DEF ExchangeFails
  <2>3. CASE Superseded(c)
    BY <2>3 DEF Superseded
  <2>4. CASE BeginInstall(c)
    BY <2>4 DEF BeginInstall
  <2>5. CASE SaveGmailToken(c)
    BY <2>5 DEF SaveGmailToken
  <2>6. CASE SaveFails(c)
    <3>1. CASE UNCHANGED <<keychain, unsure>>
      BY <2>6, <3>1 DEF SaveFails, Fault
    <3>2. CASE keychain' = c /\ unsure' = TRUE
      BY <2>6, <3>2 DEF SaveFails, Fault
    <3> QED
      BY <2>6, <3>1, <3>2 DEF SaveFails
  <2>7. CASE Replace(c)
    BY <2>7 DEF Replace
  <2> QED
    BY <1>3, <2>1, <2>2, <2>3, <2>4, <2>5, <2>6, <2>7 DEF Handler
<1>4. CASE Die
  BY <1>4 DEF Die, Fault
<1>5. CASE Boot
  BY <1>5 DEF Boot
<1>6. CASE BootFromDisk
  BY <1>6 DEF BootFromDisk, Fault
<1>7. CASE UNCHANGED cvars
  BY <1>7 DEF cvars
<1> QED
  BY <1>1, <1>2, <1>3, <1>4, <1>5, <1>6, <1>7 DEF CNext, Reconnect

(* Every step keeps the discipline of the lock.                             *)
LEMMA LockStep ==
  ASSUME CTypeOK, LockDiscipline, [CNext]_cvars
  PROVE  LockDiscipline'
<1> USE ConsentAssumption DEF ConsentAssumption, CTypeOK, LockDiscipline, Consents, Tokens, None, Original, Up
<1>1. CASE StartConsent
  BY <1>1 DEF StartConsent
<1>2. CASE Expire
  BY <1>2 DEF Expire
<1>3. ASSUME NEW c \in Consents, Handler(c) PROVE LockDiscipline'
  <2>1. CASE Callback(c)
    BY <2>1 DEF Callback
  <2>2. CASE ExchangeFails(c)
    BY <2>2 DEF ExchangeFails
  <2>3. CASE Superseded(c)
    BY <2>3 DEF Superseded
  <2>4. CASE BeginInstall(c)
    <3>1. /\ lock = None /\ lock' = c /\ stage' = [stage EXCEPT ![c] = "saving"]
          /\ genOf[c] = generation /\ stage[c] = "exchanging"
          /\ UNCHANGED <<started, generation, attempt, genOf, live>>
      BY <2>4 DEF BeginInstall
    <3>2. \A e \in Consents : stage'[e] \in {"saving", "saved"} <=> lock' = e
      BY <3>1
    <3>3. \A e \in Consents :
            stage'[e] # "idle" \/ attempt' = e =>
              e <= started' /\ genOf'[e] = generation' - (started' - e)
      BY <3>1
    <3>4. Up
      BY <3>1
    <3> QED
      BY <3>1, <3>2, <3>3, <3>4
  <2>5. CASE SaveGmailToken(c)
    BY <2>5 DEF SaveGmailToken
  <2>6. CASE SaveFails(c)
    BY <2>6 DEF SaveFails, Fault
  <2>7. CASE Replace(c)
    BY <2>7 DEF Replace
  <2> QED
    BY <1>3, <2>1, <2>2, <2>3, <2>4, <2>5, <2>6, <2>7 DEF Handler
<1>4. CASE Die
  BY <1>4 DEF Die, Fault
<1>5. CASE Boot
  BY <1>5 DEF Boot
<1>6. CASE BootFromDisk
  BY <1>6 DEF BootFromDisk, Fault
<1>7. CASE UNCHANGED cvars
  BY <1>7 DEF cvars
<1> QED
  BY <1>1, <1>2, <1>3, <1>4, <1>5, <1>6, <1>7 DEF CNext, Reconnect

(* Every step keeps client and keychain in step.                            *)
LEMMA TokensStep ==
  ASSUME CTypeOK, LockDiscipline, TokensInStep, [CNext]_cvars
  PROVE  TokensInStep'
<1> USE ConsentAssumption DEF ConsentAssumption, CTypeOK, LockDiscipline, TokensInStep, Consents, Tokens, None, Original, Up
<1>1. CASE StartConsent
  BY <1>1 DEF StartConsent
<1>2. CASE Expire
  BY <1>2 DEF Expire
<1>3. ASSUME NEW c \in Consents, Handler(c) PROVE TokensInStep'
  <2>1. CASE Callback(c)
    BY <2>1 DEF Callback
  <2>2. CASE ExchangeFails(c)
    BY <2>2 DEF ExchangeFails
  <2>3. CASE Superseded(c)
    BY <2>3 DEF Superseded
  <2>4. CASE BeginInstall(c)
    BY <2>4 DEF BeginInstall
  <2>5. CASE SaveGmailToken(c)
    BY <2>5 DEF SaveGmailToken
  <2>6. CASE SaveFails(c)
    BY <2>6 DEF SaveFails, Fault
  <2>7. CASE Replace(c)
    BY <2>7 DEF Replace
  <2> QED
    BY <1>3, <2>1, <2>2, <2>3, <2>4, <2>5, <2>6, <2>7 DEF Handler
<1>4. CASE Die
  BY <1>4 DEF Die, Fault
<1>5. CASE Boot
  BY <1>5 DEF Boot
<1>6. CASE BootFromDisk
  BY <1>6 DEF BootFromDisk, Fault
<1>7. CASE UNCHANGED cvars
  BY <1>7 DEF cvars
<1> QED
  BY <1>1, <1>2, <1>3, <1>4, <1>5, <1>6, <1>7 DEF CNext, Reconnect

(* The invariant holds in every state.                                      *)
LEMMA CInvariant == CSpec => []CInv
<1>1. CInit => CInv
  BY CInitInv
<1>2. CInv /\ [CNext]_cvars => CInv'
  BY CTypeStep, LockStep, TokensStep DEF CInv
<1> QED
  BY <1>1, <1>2, PTL DEF CSpec

(* Outside an installation the running client and the keychain agree, save  *)
(* for the two excuses (gmail_auth.go:115-116).                             *)
THEOREM CredentialsStayTogether == CSpec => []CredentialsAgree
<1>1. CInv => CredentialsAgree
  BY DEF CInv, TokensInStep, CredentialsAgree
<1> QED
  BY <1>1, CInvariant, PTL

(* A step brings a consent's token into the keychain or the client only if  *)
(* it is the newest consent.                                                *)
LEMMA NewestStep ==
  ASSUME CInv, [CNext]_cvars, NEW c \in Consents
  PROVE  /\ keychain # c /\ keychain' = c => c = started'
         /\ live # c /\ live' = c /\ Up => c = started'
<1> USE DEF CInv
<1>1. ASSUME NEW d \in Consents, Handler(d)
      PROVE  /\ keychain # c /\ keychain' = c => c = started'
             /\ live # c /\ live' = c /\ Up => c = started'
  <2>1. stage[d] \in {"saving", "saved"} => d = started
    BY HolderIsNewest DEF LockDiscipline
  <2>2. /\ started' = started
        /\ keychain' = keychain \/ (keychain' = d /\ stage[d] = "saving")
        /\ live' = live \/ (live' = d /\ stage[d] = "saved")
    BY <1>1 DEF Handler, Callback, ExchangeFails, Superseded, BeginInstall, SaveGmailToken,
                SaveFails, Replace, Fault
  <2> QED
    BY <2>1, <2>2
<1>2. CASE StartConsent \/ Expire \/ UNCHANGED cvars
  BY <1>2 DEF StartConsent, Expire, cvars
<1>3. CASE Die
  BY <1>3, ConsentAssumption DEF Die, Fault, Consents, None
<1>4. CASE Boot \/ BootFromDisk
  BY <1>4, ConsentAssumption DEF Boot, BootFromDisk, Fault, Consents, Original, Up
<1> QED
  BY <1>1, <1>2, <1>3, <1>4 DEF CNext, Reconnect

(* gmail_auth.go:114-122: the newest consent wins, however many handlers    *)
(* are in flight and whenever the process dies.                             *)
THEOREM NewestConsentStands == CSpec => NewestConsentWins
<1>1. CInv /\ [CNext]_cvars =>
        [\A c \in Consents :
           /\ keychain # c /\ keychain' = c => c = started'
           /\ live # c /\ live' = c /\ Up => c = started']_cvars
  BY NewestStep
<1> QED
  BY <1>1, CInvariant, PTL DEF CSpec, NewestConsentWins
=============================================================================
