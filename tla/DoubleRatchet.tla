--------------------------- MODULE DoubleRatchet ---------------------------
(***************************************************************************)
(* The double ratchet of crypto/double-ratchet: one end's state and what   *)
(* send and recv make of it, as operators.                                 *)
(*                                                                         *)
(* Cryptography is symbolic: a derived secret is the term it is derived    *)
(* from, so two secrets are equal exactly when the same inputs made them.  *)
(* A random value is a name <<who, n>>; a key pair, public or private, is  *)
(* the name it was drawn as.  A chain that was derived is known by the     *)
(* ratchet inputs that led to it, and its position (step) says how often   *)
(* its root has been hashed on.                                            *)
(***************************************************************************)
EXTENDS Integers, Sequences

CONSTANTS MaxKept,      \* MAX_KEPT_MISSING_MESSAGES
          KyberPeriod   \* KYBER_PERIOD

\* "odd number to make participants alternate": 35 in the code.
ASSUME RatchetAssumption ==
    /\ MaxKept \in Nat \ {0}
    /\ KyberPeriod \in Nat /\ KyberPeriod > 1 /\ KyberPeriod % 2 = 1

\* u32::MAX, the step of a sending chain that is yet to be derived (Chain::guard)
Guarding == -1

\* x25519: both ends compute the same secret from the two keys.
Dh(x, y) == {x, y}

\* kyber: the ciphertext for the owner of pk and the secret it carries.
Encapsulate(pk, random) == <<pk, random>>

\* Opening with the wrong key gives some other secret, not an error.
Decapsulate(cp, seed) == IF cp[1] = seed THEN cp ELSE <<cp, seed, seed>>

Nothing == <<>>         \* a zeroed ciphertext or secret; xor with it changes nothing

\* What a chain's root (or the hash of it that names a session) stands for.
Zeroed == [kind |-> "zeroed", inputs |-> <<>>]
Handshake == [kind |-> "handshake", inputs |-> <<>>]
InitChain == [kind |-> "init", inputs |-> <<>>]
Derived(inputs) == [kind |-> "derived", inputs |-> inputs]

\* Chain::next_sc: the key at the chain's position.
KeyAt(chain, step) == <<chain.root, step>>
NextSc(chain) == [chain EXCEPT !.step = @ + 1]

\* Chain::next_rk of the root chain.
NextRk(root, input) == [step |-> root.step + 1, inputs |-> Append(root.inputs, input)]

----------------------------------------------------------------------------
\* DoubleRatchet::sender, the end that asks for the session.
Sender(random) ==
    [root |-> [step |-> 2, inputs |-> <<>>],
     sender |-> [step |-> 1, root |-> InitChain], sender_hash |-> InitChain,
     receiver |-> [step |-> 0, root |-> Zeroed], receiver_hash |-> Handshake,
     prev_sub_count |-> 0, kyber |-> random, x25519 |-> random,
     cp |-> Nothing, ss |-> Nothing, seed |-> {}, missing |-> <<>>]

\* DoubleRatchet::recipient, the end that is asked; init is the keys of the other.
Recipient(init, random) ==
    LET sealed == Encapsulate(init, random)
    IN  [root |-> [step |-> 2, inputs |-> <<>>],
         sender |-> [step |-> Guarding, root |-> Zeroed], sender_hash |-> Handshake,
         receiver |-> [step |-> 1, root |-> InitChain], receiver_hash |-> InitChain,
         prev_sub_count |-> 0, kyber |-> random, x25519 |-> random,
         cp |-> sealed, ss |-> sealed, seed |-> Dh(random, init), missing |-> <<>>]

\* Mutant of IsMajor: the period is counted from the step after.
IsMajorEarly(step) == (step + 1) % KyberPeriod = 0

\* Whether the chain of this step also takes a post-quantum secret.
IsMajor(step) == step % KyberPeriod = 0

\* send, its guard: a sending chain that is yet to be derived is derived first.
Ready(dr) ==
    IF dr.sender.step # Guarding THEN dr
    ELSE LET input == <<dr.seed, IF IsMajor(dr.root.step + 1) THEN dr.ss ELSE Nothing>>
             root  == NextRk(dr.root, input)
             chain == Derived(root.inputs)
         IN  [dr EXCEPT !.root = root, !.sender = [step |-> 0, root |-> chain],
                        !.sender_hash = chain, !.seed = {}]

\* Mutant of Send: the sending chain is not moved on.
SendInPlace(dr) ==
    LET d == Ready(dr)
    IN  [header |-> [step |-> d.root.step, sub_step |-> d.sender.step,
                     prev_sub_count |-> d.prev_sub_count, x25519 |-> d.x25519,
                     major |-> IsMajor(d.root.step), public |-> d.kyber, cp |-> d.cp],
         key    |-> KeyAt(d.sender, d.sender.step),
         dr     |-> d]

\* send: the header and the key of the next message, and the state after it.
Send(dr) ==
    LET d == Ready(dr)
    IN  [header |-> [step |-> d.root.step, sub_step |-> d.sender.step,
                     prev_sub_count |-> d.prev_sub_count, x25519 |-> d.x25519,
                     major |-> IsMajor(d.root.step), public |-> d.kyber, cp |-> d.cp],
         key    |-> KeyAt(d.sender, d.sender.step),
         dr     |-> [d EXCEPT !.sender = NextSc(@)]]

----------------------------------------------------------------------------
\* The youngest MaxKept keys: a push into the full array removes the oldest first.
Kept(s) == IF Len(s) <= MaxKept THEN s ELSE SubSeq(s, Len(s) - MaxKept + 1, Len(s))

\* add_missing_message: keeps the keys of the messages up to latest, which is
\* not before the chain's position.  They are filed under the current root step.
AddMissing(dr, latest) ==
    LET at   == dr.receiver.step
        skip == [i \in 1 .. latest - at |->
                    [step |-> dr.root.step, sub_step |-> at + i - 1,
                     key |-> KeyAt(dr.receiver, at + i - 1)]]
    IN  [dr EXCEPT !.missing = Kept(@ \o skip), !.receiver.step = latest]

\* The outcome of recv: the key, and the state it leaves.
RecvErr(dr) == [ok |-> FALSE, dr |-> dr, key |-> Nothing]

\* Mutant of FindMissing: the key that was found stays in the array.
FindMissingKeeps(dr, h) ==
    LET at == {i \in 1 .. Len(dr.missing) :
                    dr.missing[i].step = h.step /\ dr.missing[i].sub_step = h.sub_step}
    IN  IF at = {} THEN RecvErr(dr)
        ELSE [ok |-> TRUE, dr |-> dr, key |-> dr.missing[CHOOSE i \in at : \A j \in at : i <= j].key]

\* find_missing_message: takes the first key filed under the header's id.
FindMissing(dr, h) ==
    LET at == {i \in 1 .. Len(dr.missing) :
                    dr.missing[i].step = h.step /\ dr.missing[i].sub_step = h.sub_step}
        i  == CHOOSE i \in at : \A j \in at : i <= j
    IN  IF at = {} THEN RecvErr(dr)
        ELSE [ok |-> TRUE, key |-> dr.missing[i].key,
              dr |-> [dr EXCEPT !.missing = SubSeq(@, 1, i - 1) \o SubSeq(@, i + 1, Len(@))]]

\* Mutant of Turned: the new x25519 key is drawn before the old one is used.
TurnedAfterRotation(dr, h, random) ==
    LET ss   == IF h.major THEN Decapsulate(h.cp, dr.kyber) ELSE Nothing
        root == NextRk(dr.root, <<Dh(random, h.x25519), ss>>)
        new  == [dr EXCEPT !.root = root, !.x25519 = random,
                           !.prev_sub_count = dr.sender.step,
                           !.sender = [step |-> Guarding, root |-> Zeroed],
                           !.receiver = [step |-> 0, root |-> Derived(root.inputs)],
                           !.receiver_hash = Derived(root.inputs),
                           !.seed = Dh(random, h.x25519)]
    IN  IF ~h.major THEN new
        ELSE [new EXCEPT !.kyber = random, !.cp = Encapsulate(h.public, random),
                         !.ss = Encapsulate(h.public, random)]

\* recv, the first message of a new chain: the root chain moves on, the keys
\* are drawn anew and the sending chain waits for the next send.
Turned(dr, h, random) ==
    LET ss   == IF h.major THEN Decapsulate(h.cp, dr.kyber) ELSE Nothing
        root == NextRk(dr.root, <<Dh(dr.x25519, h.x25519), ss>>)
        new  == [dr EXCEPT !.root = root, !.x25519 = random,
                           !.prev_sub_count = dr.sender.step,
                           !.sender = [step |-> Guarding, root |-> Zeroed],
                           !.receiver = [step |-> 0, root |-> Derived(root.inputs)],
                           !.receiver_hash = Derived(root.inputs),
                           !.seed = Dh(random, h.x25519)]
    IN  IF ~h.major THEN new
        ELSE [new EXCEPT !.kyber = random, !.cp = Encapsulate(h.public, random),
                         !.ss = Encapsulate(h.public, random)]

\* recv, the message at or after the chain's position.
Advance(dr, h) ==
    LET d == AddMissing(dr, h.sub_step)
    IN  [ok |-> TRUE, key |-> KeyAt(d.receiver, d.receiver.step), dr |-> [d EXCEPT !.receiver = NextSc(@)]]

\* recv
Recv(dr, h, random) ==
    CASE h.step < dr.root.step -> FindMissing(dr, h)
      [] h.step = dr.root.step /\ h.sub_step < dr.receiver.step -> FindMissing(dr, h)
      [] h.step = dr.root.step /\ h.sub_step >= dr.receiver.step -> Advance(dr, h)
      [] h.step > dr.root.step /\ h.prev_sub_count < dr.receiver.step -> RecvErr(dr)
      [] OTHER -> Advance(Turned(AddMissing(dr, h.prev_sub_count), h, random), h)
=============================================================================
