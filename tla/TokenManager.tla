---------------------------- MODULE TokenManager ----------------------------
(***************************************************************************)
(* The announce tokens of src/discoverers/dht/token.rs: a token is a hash  *)
(* of an address and a secret, the secret is rotated, and the tokens of    *)
(* the current and of the previous secret verify.                          *)
(*                                                                         *)
(* Secrets are 32 random bytes, so each one drawn is new: secret n is the  *)
(* n-th drawn. The 8-byte hash is taken to be injective.                   *)
(***************************************************************************)
EXTENDS Integers

CONSTANTS
  Addr,
  RotationInterval,  \* SECRET_ROTATION_INTERVAL (300)
  MaxTime            \* bound of the clock

VARIABLES
  current_secret, previous_secret,
  last_rotation,   \* when current_secret was drawn
  now,
  issued           \* history: the tokens handed out, with address and time

secretVars == <<current_secret, previous_secret, last_rotation>>
vars == <<secretVars, now, issued>>

-----------------------------------------------------------------------------
generate_with_secret(addr, secret) == <<addr, secret>>

generate(addr) == generate_with_secret(addr, current_secret)

verify(addr, token) ==
  \/ token = generate_with_secret(addr, current_secret)
  \/ token = generate_with_secret(addr, previous_secret)

\* TokenManager::new draws two secrets; the previous one signs nothing.
Init ==
  /\ previous_secret = 1
  /\ current_secret = 2
  /\ last_rotation = 0
  /\ now = 0
  /\ issued = {}

\* A get_peers answer carries a token for the address that asked.
Issue(addr) ==
  /\ issued' = issued \cup {[addr |-> addr, token |-> generate(addr), at |-> now]}
  /\ UNCHANGED <<secretVars, now>>

\* Planted fault: the secret that goes is not kept.
Rotate_forgets ==
  /\ now - last_rotation >= RotationInterval
  /\ current_secret' = current_secret + 1
  /\ last_rotation' = now
  /\ UNCHANGED previous_secret

\* Planted fault: three secrets take turns instead of new ones being drawn.
Rotate_reuses ==
  /\ now - last_rotation >= RotationInterval
  /\ previous_secret' = current_secret
  /\ current_secret' = (current_secret + 1) % 3
  /\ last_rotation' = now

\* maybe_rotate, when it rotates.
Rotate ==
  /\ now - last_rotation >= RotationInterval
  /\ previous_secret' = current_secret
  /\ current_secret' = current_secret + 1
  /\ last_rotation' = now

MaybeRotate == Rotate /\ UNCHANGED <<now, issued>>

Tick ==
  /\ now < MaxTime
  /\ now' = now + 1
  /\ UNCHANGED <<secretVars, issued>>

Next == (\E addr \in Addr : Issue(addr)) \/ MaybeRotate \/ Tick

Spec == Init /\ [][Next]_vars

-----------------------------------------------------------------------------
TypeOK ==
  /\ current_secret \in Nat /\ previous_secret \in Nat
  /\ now \in 0..MaxTime /\ last_rotation \in 0..now
  /\ issued \subseteq [addr : Addr, token : Addr \X Nat, at : 0..now]

\* A token handed out less than one rotation interval ago verifies for the
\* address it was handed to, whatever rotations fall in between: a peer has
\* that long to announce. It takes a second rotation to refuse a token.
FreshTokenVerifies ==
  \A t \in issued : now - t.at < RotationInterval => verify(t.addr, t.token)

\* A token that was refused is never accepted again.
RefusedForGood ==
  [][\A t \in issued : ~verify(t.addr, t.token) => ~verify(t.addr, t.token)']_vars

=============================================================================
