----------------------------- MODULE ServiceGate -----------------------------
(***************************************************************************)
(* The door that every call of the AI service passes (ai_integration/      *)
(* security.py): a call is signed with the time and a nonce, and is let in *)
(* when the time is near enough and the shared cache does not hold its     *)
(* nonce.  The network may deliver a call late and more than once.         *)
(*                                                                         *)
(* Signatures and hashes are taken as unforgeable: every call here was     *)
(* signed by the service.  The cache is external.                          *)
(***************************************************************************)
EXTENDS Naturals

CONSTANTS
  Call,               \* the signed calls, each with a nonce of its own
  Skew,               \* BARAQ_HMAC_MAX_CLOCK_SKEW_SECONDS
  NonceTtl,           \* BARAQ_HMAC_NONCE_TTL_SECONDS
  MaxClock            \* bound: the last second

(* The ranges that settings.py demands; it does not relate the two. *)
ASSUME GateAssumption == Skew \in Nat \ {0} /\ NonceTtl \in Nat \ {0} /\ MaxClock \in Nat

VARIABLES
  clock,              \* the seconds of this server
  stamp,              \* per call: the time it was signed with, or Unsigned
  expiry,             \* the cache: per nonce the time it is dropped, 0: not held
  admitted,           \* history: the times at which a call was let in
  forgotten           \* history: the cache lost nonces before their time

gateVars == <<clock, stamp, expiry, admitted, forgotten>>

Unsigned == MaxClock + Skew + 1
Time == 0..MaxClock

GateTypeOK ==
  /\ clock \in Time
  /\ stamp \in [Call -> 0..Unsigned]
  /\ expiry \in [Call -> 0..(MaxClock + NonceTtl)]
  /\ admitted \in [Call -> SUBSET Time]
  /\ forgotten \in BOOLEAN

GateInit ==
  /\ clock = 0
  /\ stamp = [c \in Call |-> Unsigned]
  /\ expiry = [c \in Call |-> 0]
  /\ admitted = [c \in Call |-> {}]
  /\ forgotten = FALSE

-----------------------------------------------------------------------------
PassSecond ==
  /\ clock < MaxClock
  /\ clock' = clock + 1
  /\ UNCHANGED <<stamp, expiry, admitted, forgotten>>

(* The service signs by its own clock, which may be ahead or behind. *)
SignCall(c, t) ==
  /\ stamp[c] = Unsigned
  /\ stamp' = [stamp EXCEPT ![c] = t]
  /\ UNCHANGED <<clock, expiry, admitted, forgotten>>

(* _verify_hmac_v2: neither too old nor too far ahead. *)
Timely(t) == clock <= t + Skew /\ t <= clock + Skew

(* Mutant: the nonce is kept for a second. *)
AdmitBriefly(c) ==
  /\ stamp[c] # Unsigned /\ Timely(stamp[c])
  /\ expiry[c] <= clock
  /\ expiry' = [expiry EXCEPT ![c] = clock + 1]
  /\ admitted' = [admitted EXCEPT ![c] = @ \cup {clock}]
  /\ UNCHANGED <<clock, stamp, forgotten>>

(* verify_internal_request: cache.add keeps the nonce unless it is held.  When
   the cache does not answer the call is refused, and nothing changes. *)
Admit(c) ==
  /\ stamp[c] # Unsigned /\ Timely(stamp[c])
  /\ expiry[c] <= clock
  /\ expiry' = [expiry EXCEPT ![c] = clock + NonceTtl]
  /\ admitted' = [admitted EXCEPT ![c] = @ \cup {clock}]
  /\ UNCHANGED <<clock, stamp, forgotten>>

(* The cache is restarted, or evicts what it holds. *)
ForgetNonces ==
  /\ \E c \in Call : expiry[c] > clock
  /\ expiry' = [c \in Call |-> 0]
  /\ forgotten' = TRUE
  /\ UNCHANGED <<clock, stamp, admitted>>

-----------------------------------------------------------------------------
GateNext ==
  \/ PassSecond \/ ForgetNonces
  \/ \E c \in Call : Admit(c) \/ \E t \in 0..(MaxClock + Skew) : SignCall(c, t)

GateSpec == GateInit /\ [][GateNext]_gateVars

-----------------------------------------------------------------------------
(* However often a call is delivered, it is let in twice only NonceTtl seconds
   apart, and no further apart than twice the skew: what the nonce cache and
   the time window promise together. *)
AdmittedApart ==
  \A c \in Call : \A s, t \in admitted[c] :
    /\ t <= s + 2 * Skew
    /\ s < t => forgotten \/ s + NonceTtl <= t

(* ... so a call takes effect once, if a nonce is kept longer than that.  The
   defaults, 300 and 600 seconds, miss it by one second. *)
AdmittedOnce == \A c \in Call : \A s, t \in admitted[c] : forgotten \/ s = t
=============================================================================
