---------------------------- MODULE DeviceAuth ----------------------------
(***************************************************************************)
(* Pairing and device authentication of the daemon (termd/src/auth/mod.rs, *)
(* auth/credentials.rs, the credential operations of net/protocol.rs and   *)
(* their HTTP handlers in net/server.rs): pair tickets, device             *)
(* certificates, one-time challenges, the replay window and access tokens, *)
(* across restarts and failed writes of the state file.                    *)
(*                                                                         *)
(* A handler runs under the daemon's mutex: one step.  A device signs a    *)
(* proof for a challenge it was given; the proof may reach the daemon any  *)
(* number of times, on either endpoint that takes one, and late.  A key is *)
(* a number, 0 "not trusted"; a proof stands for its own random nonce.     *)
(***************************************************************************)
EXTENDS Integers, FiniteSets

CONSTANTS
    Devices,        \* device ids
    Keys,           \* device public keys, 1..n
    Tickets,        \* pair tickets
    MaxChallenge,   \* bound: challenges issued
    MaxClock,       \* bound: the clock
    MaxBoot,        \* bound: restarts of the daemon
    TicketTtl, ChallengeTtl,
    Skew,           \* allowed_clock_skew_ms
    PerDevice       \* MAX_OUTSTANDING_PER_DEVICE (code: 8)

ASSUME DeviceAuthAssumption ==
    /\ Keys \subseteq Nat \ {0}
    /\ {MaxChallenge, MaxClock, MaxBoot, Skew} \subseteq Nat
    /\ {TicketTtl, ChallengeTtl, PerDevice} \subseteq Nat \ {0}

VARIABLES
    aclock,     \* current_unix_timestamp_millis
    boot,       \* restarts so far
    trust,      \* trusted_store in memory: the key trusted for each device
    stored,     \* the same on disk
    unsaved,    \* history: devices whose last pairing could not be saved
    ticket,     \* expiry of each issued ticket, -1 when not issued
    spent,      \* consumed_pair_ticket_ids
    certs,      \* certificates issued: device and key
    chal,       \* AuthChallengeManager: challenge -> record
    issued,     \* challenges issued so far
    nonces,     \* ReplayProtector: recorded nonces (proofs) with their time
    proofs,     \* proofs devices have signed
    uses        \* history: credentials granted per challenge

authVars == <<aclock, boot, trust, stored, unsaved, ticket, spent, certs, chal,
              issued, nonces, proofs, uses>>
aTickets == <<ticket, spent>>
aProof   == <<chal, issued, nonces, proofs, uses>>

ChalIds == 1..MaxChallenge
Proofs == [dev : Devices, key : Keys, ch : ChalIds, ts : 0..(MaxClock + Skew)]
ChalRecord == [dev : Devices, at : Nat, exp : Nat, st : {"Active", "Consumed"}]

AuthTypeOK ==
    /\ aclock \in 0..MaxClock /\ boot \in 0..MaxBoot
    /\ trust \in [Devices -> Keys \cup {0}] /\ stored \in [Devices -> Keys \cup {0}]
    /\ unsaved \subseteq Devices
    /\ ticket \in [Tickets -> Int] /\ spent \subseteq Tickets
    /\ certs \subseteq Devices \X Keys
    /\ issued \in 0..MaxChallenge
    /\ DOMAIN chal \subseteq 1..issued
    /\ \A c \in DOMAIN chal : chal[c] \in ChalRecord
    /\ nonces \subseteq Proofs \X Nat /\ proofs \subseteq Proofs
    /\ uses \in [ChalIds -> Nat]

AuthInit ==
    /\ aclock = 0 /\ boot = 0
    /\ trust = [d \in Devices |-> 0] /\ stored = trust /\ unsaved = {}
    /\ ticket = [t \in Tickets |-> -1] /\ spent = {} /\ certs = {}
    /\ chal = <<>> /\ issued = 0 /\ nonces = {} /\ proofs = {}
    /\ uses = [c \in ChalIds |-> 0]

----------------------------------------------------------------------------
(* Credentials *)

(* verify_credential: a credential is good up to and including its expiry. *)
VerifyCredential(exp) == ~(aclock > exp)

(* device_certificate_claims / require_trusted_identity: a certificate is  *)
(* good while its key is the one trusted for its device.                   *)
CertificateClaims(d, k) == <<d, k>> \in certs /\ trust[d] = k

(* issue_pair_ticket_credential, over the local pairing endpoint *)
IssuePairTicket(t) ==
    /\ ticket[t] = -1
    /\ ticket' = [ticket EXCEPT ![t] = aclock + TicketTtl]
    /\ UNCHANGED <<aclock, boot, trust, stored, unsaved, spent, certs, aProof>>

(* issue_device_certificate: signed by the daemon, it never expires. *)
IssueCertificate(d, k) == certs \cup {<<d, k>>}

(* trust_device: a device known already gets the new key. *)
TrustDevice(d, k) == [trust EXCEPT ![d] = k]

(* pair_device_certificate: the device is trusted in memory, the state is  *)
(* saved, and only then the ticket counts as consumed.                     *)
PairDeviceCertificate(t, d, k) ==
    /\ ticket[t] # -1 /\ VerifyCredential(ticket[t]) /\ t \notin spent
    /\ trust' = TrustDevice(d, k)
    /\ \/ /\ stored' = trust' /\ unsaved' = {}
          /\ spent' = spent \cup {t} /\ certs' = IssueCertificate(d, k)
       \/ /\ unsaved' = unsaved \cup {d}
          /\ UNCHANGED <<stored, spent, certs>>

(* auth_pair: POST /api/auth/pair *)
AuthPair(t, d, k) ==
    /\ PairDeviceCertificate(t, d, k)
    /\ UNCHANGED <<aclock, boot, ticket, aProof>>

----------------------------------------------------------------------------
(* Challenges *)

Restricted(ids) == [c \in ids |-> chal[c]]
Expired(c) == aclock > chal[c].exp

(* prune_unusable_except: consumed and expired records go, but not the one *)
(* in use.                                                                 *)
PruneUnusable(keep) ==
    {c \in DOMAIN chal : c \in keep \/ (~Expired(c) /\ chal[c].st # "Consumed")}

ActiveOf(ids, d) == {c \in ids : chal[c].dev = d /\ chal[c].st = "Active"}

(* enforce_device_outstanding_cap: the device's oldest active challenges   *)
(* go until there is room for one more.                                    *)
EnforceCap(ids, d) ==
    LET excess == Cardinality(ActiveOf(ids, d)) - PerDevice + 1
    IN  ids \ {c \in ActiveOf(ids, d) :
                 Cardinality({o \in ActiveOf(ids, d) : o < c}) < excess}

(* AuthChallengeManager::issue *)
IssueChallenge(d) ==
    /\ issued < MaxChallenge
    /\ issued' = issued + 1
    /\ chal' = [c \in EnforceCap(PruneUnusable({}), d) \cup {issued + 1} |->
                   IF c = issued + 1
                   THEN [dev |-> d, at |-> aclock, exp |-> aclock + ChallengeTtl,
                         st |-> "Active"]
                   ELSE chal[c]]
    /\ UNCHANGED <<aclock, boot, trust, stored, unsaved, aTickets, certs, nonces,
                   proofs, uses>>

(* issue_access_token_challenge: for the holder of a certificate *)
AccessTokenChallenge(d, k) == CertificateClaims(d, k) /\ IssueChallenge(d)

(* issue_device_certificate_migration_challenge: for any trusted device *)
MigrationChallenge(d) == trust[d] # 0 /\ IssueChallenge(d)

(* POST /api/auth/challenge, /api/auth/device-certificate/challenge *)
AuthChallenge(d) == MigrationChallenge(d) \/ \E k \in Keys : AccessTokenChallenge(d, k)

(* The device signs a proof for a challenge of its own; its clock may run  *)
(* ahead of the daemon's.                                                  *)
DeviceProves(d, k, c) ==
    /\ c \in 1..issued /\ \A p \in proofs : p.ch # c
    /\ \E skew \in 0..Skew :
         proofs' = proofs \cup {[dev |-> d, key |-> k, ch |-> c, ts |-> aclock + skew]}
    /\ UNCHANGED <<aclock, boot, trust, stored, unsaved, aTickets, certs, chal,
                   issued, nonces, uses>>

(* Mutant: the challenge stays usable. *)
ConsumeKeepsActive(p) ==
    chal' = Restricted(PruneUnusable({p.ch}))

(* AuthChallengeManager::consume: a challenge that takes part in an        *)
(* attempt is burnt, whatever becomes of the attempt; an expired one goes. *)
Consume(p) ==
    LET kept == PruneUnusable({p.ch})
    IN  chal' = IF p.ch \notin DOMAIN chal THEN Restricted(kept)
                ELSE IF chal[p.ch].st = "Active" /\ Expired(p.ch)
                THEN Restricted(kept \ {p.ch})
                ELSE [Restricted(kept) EXCEPT ![p.ch].st = "Consumed"]

Consumable(p) ==
    /\ p.ch \in DOMAIN chal /\ chal[p.ch].st = "Active"
    /\ ~Expired(p.ch) /\ chal[p.ch].dev = p.dev

(* ReplayProtector: prune by the window, then the timestamp and the nonce. *)
PruneNonces == {n \in nonces : aclock - n[2] <= Skew}
ReplayCheck(p) ==
    /\ p.ts - aclock <= Skew /\ aclock - p.ts <= Skew
    /\ \A n \in PruneNonces : n[1] # p

(* Ed25519SignatureVerifier: only the trusted key's signature verifies. *)
SignatureVerifies(p) == trust[p.dev] = p.key

(* What the two endpoints share: consume, check, verify the signature      *)
(* against the trusted key, record the nonce.                              *)
ProofAccepted(p) == Consumable(p) /\ ReplayCheck(p) /\ SignatureVerifies(p)
TakeProof(p) ==
    /\ Consume(p)
    /\ nonces' = IF ~Consumable(p) THEN nonces
                 ELSE PruneNonces \cup
                      (IF ProofAccepted(p) THEN {<<p, aclock>>} ELSE {})
    /\ uses' = IF ProofAccepted(p) THEN [uses EXCEPT ![p.ch] = @ + 1] ELSE uses
    /\ UNCHANGED <<aclock, boot, trust, stored, unsaved, aTickets, issued, proofs>>

(* exchange_access_token: the certificate is checked first. *)
ExchangeAccessToken(p, k) ==
    /\ CertificateClaims(p.dev, k)
    /\ TakeProof(p) /\ UNCHANGED certs

(* migrate_device_certificate: the certificate is for the trusted key. *)
MigrateCertificate(p) ==
    /\ TakeProof(p)
    /\ certs' = IF ProofAccepted(p) THEN IssueCertificate(p.dev, p.key) ELSE certs

(* auth_access_token and auth_device_certificate_migrate: a proof arrives, *)
(* for the first time or again, at one endpoint or the other.              *)
ProofArrives(p) == MigrateCertificate(p) \/ \E k \in Keys : ExchangeAccessToken(p, k)

----------------------------------------------------------------------------
(* Any other operation that saves the daemon's state saves trust too. *)
StatePersists ==
    /\ stored # trust
    /\ stored' = trust /\ unsaved' = {}
    /\ UNCHANGED <<aclock, boot, trust, aTickets, certs, aProof>>

AuthTick ==
    /\ aclock < MaxClock
    /\ aclock' = aclock + 1
    /\ UNCHANGED <<boot, trust, stored, unsaved, aTickets, certs, aProof>>

(* The daemon is restarted: challenges, nonces and the consumed tickets    *)
(* were in memory only.                                                    *)
AuthRestart ==
    /\ boot < MaxBoot
    /\ boot' = boot + 1
    /\ trust' = stored /\ unsaved' = {}
    /\ spent' = {} /\ chal' = <<>> /\ nonces' = {}
    /\ UNCHANGED <<aclock, stored, ticket, certs, issued, proofs, uses>>

AuthNext ==
    \/ \E t \in Tickets : IssuePairTicket(t)
    \/ \E t \in Tickets, d \in Devices, k \in Keys : AuthPair(t, d, k)
    \/ \E d \in Devices : AuthChallenge(d)
    \/ \E d \in Devices, k \in Keys, c \in ChalIds : DeviceProves(d, k, c)
    \/ \E p \in proofs : ProofArrives(p)
    \/ StatePersists \/ AuthTick \/ AuthRestart

AuthSpec == AuthInit /\ [][AuthNext]_authVars

----------------------------------------------------------------------------
(* Properties *)

(* A challenge grants at most one credential, over both endpoints, replays *)
(* after the nonce was pruned, eviction by the cap and restarts.           *)
ChallengeGrantsOnce == \A c \in ChalIds : uses[c] <= 1

(* However often a device asks, and however records are pruned, it holds   *)
(* no more than the cap's number of challenges that could still be used.   *)
OutstandingBounded ==
    \A d \in Devices : Cardinality(ActiveOf(DOMAIN chal, d)) <= PerDevice

(* A key trusted in memory and not on disk comes from a pairing that was   *)
(* answered with an error: a certificate from a pairing survives a crash.  *)
TrustIsDurable == \A d \in Devices : trust[d] # stored[d] => d \in unsaved

(* Access is earned and trust is kept: a challenge grants at most one      *)
(* access token whatever is replayed, a device never has more challenges   *)
(* outstanding than the cap, and what a device was told to be trusted with *)
(* survives a restart (consume, enforce_outstanding_cap, pair_device).     *)
AuthIsSound == ChallengeGrantsOnce /\ OutstandingBounded /\ TrustIsDurable
=============================================================================
