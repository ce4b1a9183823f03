------------------------------ MODULE Pairing ------------------------------
(***************************************************************************)
(* The engine's PIN pairing state with its brute-force lockout             *)
(* (control/pairing.rs: PairingState and PersistedLockout).                *)
(*                                                                         *)
(* One PairingState lives in each TcpControlServer.  The lockout record in *)
(* lockout.json outlives it, so that neither a new server (every accept of *)
(* the engine makes one) nor an engine restart shortens a lockout.         *)
(*                                                                         *)
(* Time is a counter.  The code reads a monotonic clock for the running    *)
(* state and the wall clock for the file; the model has one clock for      *)
(* both, that is, nobody resets the wall clock.  An absent Instant and an  *)
(* absent file are NoTime.                                                 *)
(***************************************************************************)
EXTENDS Naturals

CONSTANTS
  Pins,         \* the PINs (0..999999 in the code)
  MaxAttempts,  \* [pairing] max_attempts: wrong PINs before the lockout
  Lockout,      \* [pairing] lockout_seconds
  Lifetime,     \* PIN_LIFETIME_SECONDS
  HoldWindow,   \* the reconnect hold of the engine, for which a PIN is rearmed
  MaxTime       \* bound: the clock stops here

ASSUME PairingAssumption ==
  /\ Pins # {}
  /\ MaxAttempts \in Nat \ {0}
  /\ Lockout \in Nat \ {0}
  /\ Lifetime \in Nat \ {0}
  /\ HoldWindow \in Nat \ {0}
  /\ MaxTime \in Nat

NoTime == 0

VARIABLES
  now,           \* the clock
  pin,           \* PairingState.pin
  attempts,      \* PairingState.attempts
  lockoutUntil,  \* PairingState.lockout_until
  paired,        \* PairingState.paired
  issuedAt,      \* PairingState.issued_at
  lifetime,      \* PairingState.lifetime
  disk,          \* lockout.json: PersistedLockout.lockout_until_unix_us
  bannedUntil,   \* history: the end of the latest lockout that reached the disk,
                 \* unless the right PIN was taken since
  forgot         \* history: a lockout ran that this server could not read

pairingVars ==
  <<now, pin, attempts, lockoutUntil, paired, issuedAt, lifetime, disk,
    bannedUntil, forgot>>

-----------------------------------------------------------------------------
IsLocked == now < lockoutUntil

\* expires_in() is zero.
PinExpired == now >= issuedAt + lifetime

\* rotate_pin(): a new random PIN, which may be the old one again.
RotatePin ==
  /\ pin' \in Pins
  /\ attempts' = 0
  /\ issuedAt' = now

\* PersistedLockout::save() and clear(): an I/O error is ignored and leaves
\* the file as it was (a record is written by a rename, so never in part).
WriteDisk(t) == disk' \in {t, disk}

\* PersistedLockout::load() and what with_limits() makes of the record: a
\* lockout that still runs is resumed, a stale record cleared.
ResumeLockout ==
  /\ forgot' = FALSE
  /\ IF disk > now
       THEN lockoutUntil' = disk /\ disk' = disk
       ELSE lockoutUntil' = NoTime /\ WriteDisk(NoTime)

\* load() when the file cannot be read or parsed: the default record, which
\* says that there is no lockout, and nothing to clear.
LoadFails ==
  /\ forgot' = (disk > now)
  /\ lockoutUntil' = NoTime
  /\ disk' = disk

-----------------------------------------------------------------------------
(* Mutants: plausible bugs in the operations that follow.           *)
NewStateForgets ==          \* a new server does not read the record
  /\ pin' \in Pins
  /\ attempts' = 0
  /\ paired' = FALSE
  /\ issuedAt' = now
  /\ lifetime' = Lifetime
  /\ lockoutUntil' = NoTime
  /\ forgot' = FALSE
  /\ UNCHANGED <<now, disk, bannedUntil>>

-----------------------------------------------------------------------------
(* verify() returns LockedOut without looking at the PIN. *)
VerifyLocked(p) ==
  /\ IsLocked
  /\ UNCHANGED pairingVars

(* verify() with the right PIN. *)
VerifyOk(p) ==
  /\ ~IsLocked
  /\ p = pin
  /\ paired' = TRUE
  /\ attempts' = 0
  /\ lockoutUntil' = NoTime
  /\ WriteDisk(NoTime)
  /\ bannedUntil' = NoTime
  /\ UNCHANGED <<now, pin, issuedAt, lifetime, forgot>>

(* verify() with a wrong PIN, attempts left. *)
VerifyWrong(p) ==
  /\ ~IsLocked
  /\ p # pin
  /\ attempts + 1 < MaxAttempts
  /\ attempts' = attempts + 1
  /\ UNCHANGED <<now, pin, lockoutUntil, paired, issuedAt, lifetime, disk,
                 bannedUntil, forgot>>

(* verify() with the wrong PIN that exhausts the attempts. *)
VerifyLockout(p) ==
  /\ ~IsLocked
  /\ p # pin
  /\ attempts + 1 >= MaxAttempts
  /\ lockoutUntil' = now + Lockout
  /\ RotatePin
  /\ WriteDisk(now + Lockout)
  /\ bannedUntil' = IF disk' = now + Lockout THEN now + Lockout ELSE bannedUntil
  /\ UNCHANGED <<now, paired, lifetime, forgot>>

VerifyFails(p) == VerifyLocked(p) \/ VerifyWrong(p) \/ VerifyLockout(p)

Verify(p) == VerifyOk(p) \/ VerifyFails(p)

(* rotate_if_expired() when the PIN has expired; otherwise it does nothing. *)
RotateExpired ==
  /\ PinExpired
  /\ RotatePin
  /\ UNCHANGED <<now, lockoutUntil, paired, lifetime, disk, bannedUntil, forgot>>

(* rearm_for_reconnect(): the paired session dropped. *)
Rearm ==
  /\ paired' = FALSE
  /\ issuedAt' = now
  /\ lifetime' = HoldWindow
  /\ UNCHANGED <<now, pin, attempts, lockoutUntil, disk, bannedUntil, forgot>>

(* with_limits(): a new server, in this process or after a restart, picks   *)
(* up the lockout that is still running, unless it cannot read it.          *)
NewState ==
  /\ pin' \in Pins
  /\ attempts' = 0
  /\ paired' = FALSE
  /\ issuedAt' = now
  /\ lifetime' = Lifetime
  /\ ResumeLockout \/ LoadFails
  /\ UNCHANGED <<now, bannedUntil>>

AdvanceClock ==
  /\ now < MaxTime
  /\ now' = now + 1

Tick ==
  /\ AdvanceClock
  /\ UNCHANGED <<pin, attempts, lockoutUntil, paired, issuedAt, lifetime,
                 disk, bannedUntil, forgot>>

-----------------------------------------------------------------------------
PairingInit ==
  /\ now = 1
  /\ pin \in Pins
  /\ attempts = 0
  /\ lockoutUntil = NoTime
  /\ paired = FALSE
  /\ issuedAt = 1
  /\ lifetime = Lifetime
  /\ disk = NoTime
  /\ bannedUntil = NoTime
  /\ forgot = FALSE

PairingNext ==
  \/ \E p \in Pins : Verify(p)
  \/ RotateExpired
  \/ paired /\ Rearm
  \/ NewState
  \/ Tick

PairingSpec == PairingInit /\ [][PairingNext]_pairingVars

-----------------------------------------------------------------------------
PairingTypeOK ==
  /\ now \in Nat
  /\ pin \in Pins
  /\ attempts \in Nat
  /\ lockoutUntil \in Nat
  /\ paired \in BOOLEAN
  /\ issuedAt \in Nat
  /\ lifetime \in {Lifetime, HoldWindow}
  /\ disk \in Nat
  /\ bannedUntil \in Nat
  /\ forgot \in BOOLEAN

(* "A restart of the engine/companion cannot be used to reset the          *)
(* remaining lockout window" (PairingState): while a lockout that reached  *)
(* the disk runs and the right PIN was not taken since, every server that  *)
(* could read the record is locked for exactly the time that remains of    *)
(* it, also one that comes after servers that could not, whatever lockouts *)
(* of their own those wrote or failed to write.                            *)
LockoutHolds == now < bannedUntil /\ ~forgot => lockoutUntil = bannedUntil

(* On a server that could read the record nobody is paired during a        *)
(* lockout, and a lockout under way is neither shortened nor restarted by  *)
(* further guesses.                                                        *)
NoPairingInLockout ==
  [][now < bannedUntil /\ ~forgot => /\ paired' => paired
                                     /\ bannedUntil' = bannedUntil]_pairingVars
=============================================================================
