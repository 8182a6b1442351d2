---------------------------------- MODULE Hsm ----------------------------------
(***************************************************************************)
(* A PKCS#11 token as oe-hsm uses it (Pkcs11Token): the key pairs under    *)
(* the label that the program asks for, and what each process holds open   *)
(* on it.  A call of the program is one step: the PKCS#11 calls it is made *)
(* of run under the mutex of SyncToken, milliseconds from one another.     *)
(* The two objects of a pair come together (C_GenerateKeyPair), so a pair  *)
(* is one value; the digest, the scheme and the slot are left out.         *)
(***************************************************************************)
EXTENDS Integers, FiniteSets

CONSTANTS
    None,       \* no value
    Token, Process,
    KeyPair,    \* pairs that tokens may generate
    Imported,   \* pairs born elsewhere, that an operator may put in a token
    MaxEvents   \* sessions and tokens lost, pairs imported, reads and processes that fail

ASSUME HsmAssumption ==
    /\ KeyPair \cap Imported = {} /\ None \notin KeyPair \cup Imported
    /\ MaxEvents \in Nat

AnyPair == KeyPair \cup Imported

VARIABLES
    keys,       \* the pairs under the label of each token
    made,       \* history: the pairs that exist or existed
    handle,     \* what each process has open on each token
    lost,       \* history: the tokens that lost their keys
    events

hsmVars == <<keys, made, handle, lost, events>>

\* A Pkcs11Token: its session, whether the provenance of its key was verified,
\* the public key it remembers; and, as history, the pairs that signed for it.
Closed == [session |-> "closed", checked |-> FALSE, cached |-> None, used |-> {}]
Opened == [Closed EXCEPT !.session = "live"]

HsmInit ==
    /\ keys = [t \in Token |-> {}]
    /\ made = {}
    /\ handle = [p \in Process |-> [t \in Token |-> Closed]]
    /\ lost = {}
    /\ events = 0

-----------------------------------------------------------------------------
(* The operations of a process. *)

Open(p, t) == handle' = [handle EXCEPT ![p][t] = Opened]
CloseAll(p) == handle' = [handle EXCEPT ![p] = [t \in Token |-> Closed]]

\* public_key_der: the first public key that answers to the label.
PublicKeys(t) == keys[t]

\* generate_rsa_key: whatever the token already holds under this label.
Generate(t) ==
    \E k \in KeyPair \ made :
        /\ keys' = [keys EXCEPT ![t] = @ \cup {k}]
        /\ made' = made \cup {k}

\* Mutant: the public key is forgotten with the session.
ReconnectedAnew(h) == [h EXCEPT !.session = "live", !.checked = FALSE, !.cached = None]

\* reconnect: a new session; the provenance of the key is verified again, the
\* public key that the process remembers stays.
Reconnected(h) == [h EXCEPT !.session = "live", !.checked = FALSE]

\* retrying: one reconnection when the session is lost, or shows no private key.
Ready(h, t) == IF h.session = "lost" \/ keys[t] = {} THEN Reconnected(h) ELSE h

\* Mutant: the first of the keys that answer to the label.
AnyOfThem(t) == keys[t]

\* find_unique_private_key: two keys under one label are refused.
TheKey(t) == IF Cardinality(keys[t]) = 1 THEN keys[t] ELSE {}

\* sign_digest_with: the key, its provenance, the signature, and its verification
\* with the public key, read now or remembered since the first signature.
CanSign(p, t, k) ==
    LET h == Ready(handle[p][t], t)
    IN  /\ h.session = "live"
        /\ k \in TheKey(t)
        /\ h.checked \/ k \notin Imported
        /\ h.cached \in {None, k}

Signs(p, t, k) ==
    LET h == Ready(handle[p][t], t)
    IN  /\ CanSign(p, t, k)
        /\ handle' = [handle EXCEPT ![p][t] =
               [h EXCEPT !.checked = TRUE, !.cached = k, !.used = @ \cup {k}]]
        /\ UNCHANGED <<keys, made, lost, events>>

-----------------------------------------------------------------------------
(* What happens to the module. *)

Event == events < MaxEvents /\ events' = events + 1

\* The sessions that processes hold on a token are gone.
Disconnected(t) ==
    handle' = [p \in Process |-> [handle[p] EXCEPT ![t] =
                  IF @.session = "live" THEN [@ EXCEPT !.session = "lost"] ELSE @]]

\* The module restarts, or the session is closed.
SessionLost(t) == Event /\ Disconnected(t) /\ UNCHANGED <<keys, made, lost>>

\* The token is initialized again, or another one of its name is there.
TokenLost(t) ==
    /\ Event
    /\ keys' = [keys EXCEPT ![t] = {}]
    /\ lost' = lost \cup {t}
    /\ Disconnected(t)
    /\ UNCHANGED made

\* An operator imports a pair under the label.
Import(t, i) ==
    /\ Event /\ i \notin made
    /\ keys' = [keys EXCEPT ![t] = @ \cup {i}]
    /\ made' = made \cup {i}
    /\ UNCHANGED <<handle, lost>>

HsmEvent ==
    \E t \in Token : \/ SessionLost(t) \/ TokenLost(t)
                     \/ \E i \in Imported : Import(t, i)

-----------------------------------------------------------------------------

HsmTypeOK ==
    /\ keys \in [Token -> SUBSET AnyPair]
    /\ made \subseteq AnyPair
    /\ handle \in [Process -> [Token ->
           [session : {"closed", "live", "lost"}, checked : BOOLEAN,
            cached : AnyPair \cup {None}, used : SUBSET AnyPair]]]
    /\ lost \subseteq Token
    /\ events \in 0 .. MaxEvents

\* What a process opened signs with one key, born in the module, for as long as
\* the process runs: through lost sessions, and through a token that came back
\* with another key under the same label.
SignaturesAreOwn ==
    \A p \in Process, t \in Token :
        LET used == handle[p][t].used
        IN  used \cap Imported = {} /\ \A k, j \in used : k = j

=============================================================================
