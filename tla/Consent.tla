------------------------------- MODULE Consent -------------------------------
(***************************************************************************)
(* Reconnecting Gmail in the browser: internal/webui (gmail_auth.go), the  *)
(* token source of internal/gmailwatch (token_source.go), the keychain and *)
(* the wiring of both in cmd/postbode (daemon.go).                         *)
(*                                                                         *)
(* Each consent is an HTTP handler of its own; GmailAuth.mu guards the     *)
(* current attempt and its generation.  A token is named by the consent    *)
(* that obtained it, and Original is the one Postbode was set up with,     *)
(* which stays in the cache file on disk.  The generation starts at 0 in   *)
(* every process; consents are numbered through.                           *)
(***************************************************************************)
EXTENDS Integers

CONSTANTS
  MaxConsents,     \* bound: consents started
  MaxFaults    \* bound: crashes, failed saves and an unavailable keychain

ASSUME ConsentAssumption == MaxConsents \in Nat /\ MaxFaults \in Nat

Consents == 1..MaxConsents

None == -1       \* no consent, no token
Original == 0    \* the token of the cache file

Tokens == Consents \cup {Original}

VARIABLES
  started,     \* consents started so far
  generation,  \* GmailAuth.generation
  attempt,     \* GmailAuth.attempt: the consent whose callback is awaited
  genOf,       \* consentAttempt.generation, per consent
  stage,       \* where the callback of each consent is
  lock,        \* the consent whose handler holds GmailAuth.mu across Install
  keychain,    \* the token in the keychain
  live,        \* the token of the running Gmail client, None when down
  faults,  \* faults so far
  unsure       \* history: a save may have taken effect although it failed, or
               \* the keychain could not be read at start

cvars == <<started, generation, attempt, genOf, stage, lock, keychain, live, faults, unsure>>

Up == live # None

Fault ==
  /\ faults < MaxFaults
  /\ faults' = faults + 1

(* handleGmailAuthStart: the newest consent replaces the awaited one.       *)
StartConsent ==
  /\ Up
  /\ lock = None
  /\ started < MaxConsents
  /\ started' = started + 1
  /\ generation' = generation + 1
  /\ attempt' = started'
  /\ genOf' = [genOf EXCEPT ![started'] = generation']
  /\ UNCHANGED <<stage, lock, keychain, live, faults, unsure>>

(* The ten minutes pass: an expired attempt is as good as none.             *)
Expire ==
  /\ Up
  /\ attempt # None
  /\ attempt' = None
  /\ UNCHANGED <<started, generation, genOf, stage, lock, keychain, live, faults, unsure>>

(* handleGmailAuthCallback: only the awaited consent is valid (any other    *)
(* state or cookie is a 400 that changes nothing), and it is consumed       *)
(* before the network is used; Google may have declined it.                 *)
Callback(c) ==
  /\ Up
  /\ lock = None
  /\ c = attempt
  /\ attempt' = None
  /\ \E next \in {"exchanging", "idle"} : stage' = [stage EXCEPT ![c] = next]
  /\ UNCHANGED <<started, generation, genOf, lock, keychain, live, faults, unsure>>

(* Config.Exchange, without the lock; Google refuses, or too late.          *)
ExchangeFails(c) ==
  /\ stage[c] = "exchanging"
  /\ stage' = [stage EXCEPT ![c] = "idle"]
  /\ UNCHANGED <<started, generation, attempt, genOf, lock, keychain, live, faults, unsure>>

(* A token, and the lock again: an older exchange than the newest start is  *)
(* a 409.                                                                   *)
Superseded(c) ==
  /\ stage[c] = "exchanging"
  /\ lock = None
  /\ genOf[c] # generation
  /\ stage' = [stage EXCEPT ![c] = "idle"]
  /\ UNCHANGED <<started, generation, attempt, genOf, lock, keychain, live, faults, unsure>>

(* Slip: the generation is not compared again after the exchange.           *)
BeginInstallAnyway(c) ==
  /\ stage[c] = "exchanging"
  /\ lock = None
  /\ lock' = c
  /\ stage' = [stage EXCEPT ![c] = "saving"]
  /\ UNCHANGED <<started, generation, attempt, genOf, keychain, live, faults, unsure>>

BeginInstall(c) ==
  /\ stage[c] = "exchanging"
  /\ lock = None
  /\ genOf[c] = generation
  /\ lock' = c
  /\ stage' = [stage EXCEPT ![c] = "saving"]
  /\ UNCHANGED <<started, generation, attempt, genOf, keychain, live, faults, unsure>>

(* installGmailToken: the keychain first, then the running client.          *)
SaveGmailToken(c) ==
  /\ stage[c] = "saving"
  /\ keychain' = c
  /\ stage' = [stage EXCEPT ![c] = "saved"]
  /\ UNCHANGED <<started, generation, attempt, genOf, lock, live, faults, unsure>>

(* Slip: the client gets the token whether or not it could be saved.        *)
SaveFailsReplaced(c) ==
  /\ stage[c] = "saving"
  /\ Fault
  /\ live' = c
  /\ lock' = None
  /\ stage' = [stage EXCEPT ![c] = "idle"]
  /\ UNCHANGED <<started, generation, attempt, genOf, keychain, unsure>>

(* security(1) fails, or is killed after twenty seconds or when the browser *)
(* goes away, and may have stored the token all the same.                   *)
SaveFails(c) ==
  /\ stage[c] = "saving"
  /\ Fault
  /\ \/ UNCHANGED <<keychain, unsure>>
     \/ keychain' = c /\ unsure' = TRUE
  /\ lock' = None
  /\ stage' = [stage EXCEPT ![c] = "idle"]
  /\ UNCHANGED <<started, generation, attempt, genOf, live>>

Replace(c) ==
  /\ stage[c] = "saved"
  /\ live' = c
  /\ lock' = None
  /\ stage' = [stage EXCEPT ![c] = "idle"]
  /\ UNCHANGED <<started, generation, attempt, genOf, keychain, faults, unsure>>

Handler(c) ==
  \/ Callback(c)
  \/ ExchangeFails(c)
  \/ Superseded(c)
  \/ BeginInstall(c)
  \/ SaveGmailToken(c)
  \/ SaveFails(c)
  \/ Replace(c)

(* The process dies, and its handlers with it.                              *)
Die ==
  /\ Up
  /\ Fault
  /\ live' = None
  /\ stage' = [c \in Consents |-> "idle"]
  /\ genOf' = [c \in Consents |-> 0]
  /\ attempt' = None
  /\ lock' = None
  /\ generation' = 0
  /\ UNCHANGED <<started, keychain, unsure>>

(* buildGmailService: an empty keychain gets the token of the cache file,   *)
(* and the client gets the one of the keychain ...                          *)
Boot ==
  /\ ~Up
  /\ keychain' = IF keychain = None THEN Original ELSE keychain
  /\ live' = keychain'
  /\ unsure' = FALSE
  /\ UNCHANGED <<started, generation, attempt, genOf, stage, lock, faults>>

(* ... or, when the keychain cannot be read, the one of the cache file.     *)
BootFromDisk ==
  /\ ~Up
  /\ Fault
  /\ live' = Original
  /\ unsure' = TRUE
  /\ UNCHANGED <<started, generation, attempt, genOf, stage, lock, keychain>>

CInit ==
  /\ started = 0
  /\ generation = 0
  /\ attempt = None
  /\ genOf = [c \in Consents |-> 0]
  /\ stage = [c \in Consents |-> "idle"]
  /\ lock = None
  /\ keychain \in {None, Original}
  /\ live = None
  /\ faults = 0
  /\ unsure = FALSE

Reconnect ==
  \/ StartConsent
  \/ Expire
  \/ \E c \in Consents : Handler(c)

CNext ==
  \/ Reconnect
  \/ Die
  \/ Boot
  \/ BootFromDisk

CSpec == CInit /\ [][CNext]_cvars
-----------------------------------------------------------------------------
(* Properties. *)

(* Type invariant.                                                          *)
CTypeOK ==
  /\ started \in 0..MaxConsents
  /\ generation \in Nat
  /\ attempt \in Consents \cup {None}
  /\ genOf \in [Consents -> Nat]
  /\ stage \in [Consents -> {"idle", "exchanging", "saving", "saved"}]
  /\ lock \in Consents \cup {None}
  /\ keychain \in Tokens \cup {None}
  /\ live \in Tokens \cup {None}
  /\ faults \in 0..MaxFaults
  /\ unsure \in BOOLEAN

(* gmail_auth.go:114-122: the token of a consent reaches the keychain or    *)
(* the running client only while it is the newest consent anybody started,  *)
(* however many handlers are in flight and whenever their exchanges end.    *)
NewestConsentWins ==
  [][\A c \in Consents :
       /\ keychain # c /\ keychain' = c => c = started'
       /\ live # c /\ live' = c /\ Up => c = started']_cvars

(* gmail_auth.go:115-116, "persisted and live credentials cannot diverge":  *)
(* outside an installation the running client has the token of the          *)
(* keychain, unless a save failed after taking effect or the keychain could *)
(* not be read at start.                                                    *)
CredentialsAgree == Up /\ lock = None => live = keychain \/ unsure
=============================================================================
