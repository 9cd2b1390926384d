-------------------------- MODULE FriendChatProofs --------------------------
(***************************************************************************)
(* What holds of two friends' ratchets for any number of messages, any     *)
(* number of kept keys, any odd period and any faults.                     *)
(*                                                                         *)
(* SoundState, which no fault disturbs, ties a ratchet to its inputs: how  *)
(* many there are says whose turn it is.  Order adds that the inputs of    *)
(* all messages lie on one line and how far a ratchet may be behind it,    *)
(* unless the friend request comes twice or a user both handles mail while *)
(* a send awaits and sends in parallel; without the mail, the copies that  *)
(* await agree on the chain they send on.  Freshness and Secrecy rest on   *)
(* the two: a sender whose sends come one after the other is past the keys *)
(* it has used, a receiver past those of what it has read.  Meeting is     *)
(* about mail that is only reordered or repeated: the two ends are then at *)
(* most one unread chain apart, and the message that opens this chain is   *)
(* still in the mail.                                                      *)
(***************************************************************************)
EXTENDS FriendChat, SubsequencesProofs, SequenceTheorems, FiniteSetTheorems

\* The values a ratchet is made of.
Name == Users \X Nat
Cipher == {Nothing} \cup (Name \X Name)
Secret == Cipher \cup (Cipher \X Name \X Name)
Input == (SUBSET Name) \X Secret
Inputs == Seq(Input)
ChainRoot == [kind : {"zeroed", "handshake", "init", "derived"}, inputs : Inputs]
Chain == [step : Int, root : ChainRoot]
Key == ChainRoot \X Int
Missing == [step : Int, sub_step : Int, key : Key]

Ratchet ==
    [root : [step : Nat, inputs : Inputs], sender : Chain, sender_hash : ChainRoot,
     receiver : Chain, receiver_hash : ChainRoot, prev_sub_count : Int,
     kyber : Name, x25519 : Name, cp : Cipher, ss : Cipher, seed : SUBSET Name,
     missing : Seq(Missing)]

Header == [step : Nat, sub_step : Nat, prev_sub_count : Int, x25519 : Name, major : BOOLEAN,
           public : Name, cp : Cipher]
FriendMessage == [kind : {"message"}, from : Users, no : Nat, header : Header, session : ChainRoot,
                  key : Key]
FriendRequest == [kind : {"request"}, init : Name]

\* Whose turn it is to derive the chain that n inputs lead to.
TurnOf(u, n) == n % 2 = IF u = "alice" THEN 0 ELSE 1

\* The chain that these inputs lead to.
ChainOf(inputs) == IF inputs = <<>> THEN InitChain ELSE Derived(inputs)

\* A ciphertext that u can send: it is for a key the other one drew.
Sealed(u, cp) == cp # Nothing /\ cp[1][1] = Other(u)

\* A ratchet of u.  It has a sending chain just when its inputs are the right number for one.
Sound(u, dr) ==
    /\ dr \in Ratchet
    /\ dr.root.step = Len(dr.root.inputs) + 2
    /\ dr.sender.step = Guarding => TurnOf(Other(u), Len(dr.root.inputs))
    /\ dr.sender.step # Guarding => /\ dr.sender.step \in Nat
                                    /\ TurnOf(u, Len(dr.root.inputs))
                                    /\ dr.sender.root = ChainOf(dr.root.inputs)
    /\ dr.receiver.step \in Nat
    /\ Len(dr.receiver.root.inputs) <= Len(dr.root.inputs)
    /\ dr.kyber[1] = u
    /\ (dr.root.step < KyberPeriod /\ u = "alice") \/ Sealed(u, dr.cp)

\* A message that was sent: its header says how many inputs led to its key.
InputsOf(m) == m.key[1].inputs
Genuine(m) ==
    /\ m \in FriendMessage
    /\ m.key = <<ChainOf(InputsOf(m)), m.header.sub_step>>
    /\ m.header.step = Len(InputsOf(m)) + 2
    /\ TurnOf(m.from, Len(InputsOf(m)))
    /\ m.header.public[1] = m.from
    /\ m.header.major = IsMajor(m.header.step)
    /\ m.header.major => Sealed(m.from, m.header.cp)
-----------------------------------------------------------------------------
LEMMA RemoveAtFacts ==
    ASSUME NEW S, NEW s \in Seq(S), NEW i \in DOMAIN s
    PROVE  /\ RemoveAt(s, i) \in Seq(S) /\ Len(RemoveAt(s, i)) = Len(s) - 1
           /\ \A j \in 1 .. Len(s) - 1 : RemoveAt(s, i)[j] = s[IF j < i THEN j ELSE j + 1]
<1> DEFINE a == SubSeq(s, 1, i - 1)
           b == SubSeq(s, i + 1, Len(s))
<1>1. Len(s) \in Nat /\ i \in 1 .. Len(s) /\ \A j \in 1 .. Len(s) : s[j] \in S
  BY LenProperties
<1>2. /\ a \in Seq(S) /\ Len(a) = i - 1 /\ \A j \in 1 .. i - 1 : a[j] = s[j]
  <2>1. 1 \in Int /\ i - 1 \in Int /\ \A j \in 1 .. i - 1 : s[j] \in S
    BY <1>1, SMT
  <2>2. /\ a \in Seq(S) /\ Len(a) = (IF 1 <= i - 1 THEN i - 1 - 1 + 1 ELSE 0)
        /\ \A j \in 1 .. i - 1 - 1 + 1 : a[j] = s[1 + j - 1]
    BY <2>1, SubSeqProperties
  <2> HIDE DEF a
  <2>3. i - 1 - 1 + 1 = i - 1 /\ (IF 1 <= i - 1 THEN i - 1 - 1 + 1 ELSE 0) = i - 1
    BY <1>1, SMT
  <2>4. \A j \in 1 .. i - 1 : 1 + j - 1 = j
    BY <1>1, SMT
  <2> QED BY <2>2, <2>3, <2>4
<1>3. /\ b \in Seq(S) /\ Len(b) = Len(s) - i /\ \A j \in 1 .. Len(s) - i : b[j] = s[i + j]
  <2>1. i + 1 \in Int /\ Len(s) \in Int /\ \A j \in i + 1 .. Len(s) : s[j] \in S
    BY <1>1, SMT
  <2>2. /\ b \in Seq(S) /\ Len(b) = (IF i + 1 <= Len(s) THEN Len(s) - (i + 1) + 1 ELSE 0)
        /\ \A j \in 1 .. Len(s) - (i + 1) + 1 : b[j] = s[(i + 1) + j - 1]
    BY <2>1, SubSeqProperties
  <2> HIDE DEF b
  <2> QED BY <1>1, <2>2, SMT
<1>4. RemoveAt(s, i) = a \o b
  BY DEF RemoveAt
<1> HIDE DEF a, b
<1>5. /\ a \o b \in Seq(S) /\ Len(a \o b) = Len(a) + Len(b)
      /\ \A j \in 1 .. Len(a) + Len(b) : (a \o b)[j] = IF j <= Len(a) THEN a[j] ELSE b[j - Len(a)]
  BY <1>2, <1>3, ConcatProperties
<1> DEFINE c == a \o b
<1>6. Len(c) = Len(s) - 1 /\ \A j \in 1 .. Len(s) - 1 : c[j] = IF j <= i - 1 THEN a[j] ELSE b[j - (i - 1)]
  <2>1. Len(a) + Len(b) = Len(s) - 1
    BY <1>1, <1>2, <1>3, SMT
  <2> QED BY <1>2, <1>5, <2>1
<1> HIDE DEF c
<1>7. ASSUME NEW j \in 1 .. Len(s) - 1
      PROVE  c[j] = s[IF j < i THEN j ELSE j + 1]
  <2>1. CASE j < i
    <3>1. j \in 1 .. i - 1 /\ j <= i - 1
      BY <1>1, <2>1, SMT
    <3> QED BY <1>2, <1>6, <2>1, <3>1
  <2>2. CASE ~(j < i)
    <3>1. j - (i - 1) \in 1 .. Len(s) - i /\ ~(j <= i - 1) /\ i + (j - (i - 1)) = j + 1
      BY <1>1, <2>2, SMT
    <3> QED BY <1>3, <1>6, <2>2, <3>1
  <2> QED BY <2>1, <2>2
<1> QED BY <1>4, <1>5, <1>6, <1>7 DEF c

\* Sequences of inputs, and prefixes of them.
LEMMA InputFacts ==
    /\ <<>> \in Inputs /\ Len(<<>>) = 0
    /\ \A s \in Inputs : Len(s) \in Nat /\ (Len(s) = 0 <=> s = <<>>)
    /\ \A s \in Inputs : \A x \in Input :
          Append(s, x) \in Inputs /\ Len(Append(s, x)) = Len(s) + 1 /\ Append(s, x) # <<>>
BY EmptySeq, LenProperties, AppendProperties DEF Inputs

LEMMA PrefixFacts ==
    /\ \A s \in Inputs : IsPrefix(s, s) /\ IsPrefix(<<>>, s)
    /\ \A s \in Inputs : \A x \in Input : IsPrefix(s, Append(s, x))
    /\ \A r, s, t \in Inputs : IsPrefix(r, s) /\ IsPrefix(s, t) => IsPrefix(r, t)
    /\ \A s, t \in Inputs : IsPrefix(s, t) /\ Len(s) = Len(t) => s = t
<1>1. \A s, t \in Inputs : IsPrefix(s, t) <=> Len(s) <= Len(t) /\ \A i \in 1 .. Len(s) : s[i] = t[i]
  <2> TAKE s, t \in Inputs
  <2>1. Len(s) \in Nat /\ Len(t) \in Nat /\ s \in Seq(Input) /\ t \in Seq(Input)
    BY LenProperties DEF Inputs
  <2>2. \A q \in Seq(Input) : Len(s) <= Len(q) =>
          /\ Len(SubSeq(q, 1, Len(s))) = Len(s) /\ SubSeq(q, 1, Len(s)) \in Seq(Input)
          /\ \A i \in 1 .. Len(s) : SubSeq(q, 1, Len(s))[i] = q[i]
    <3> SUFFICES ASSUME NEW q \in Seq(Input), Len(s) <= Len(q)
                 PROVE  /\ Len(SubSeq(q, 1, Len(s))) = Len(s) /\ SubSeq(q, 1, Len(s)) \in Seq(Input)
                        /\ \A i \in 1 .. Len(s) : SubSeq(q, 1, Len(s))[i] = q[i]
      OBVIOUS
    <3>1. 1 \in Int /\ Len(s) \in Int /\ \A i \in 1 .. Len(s) : q[i] \in Input
      BY <2>1, LenProperties, SMT
    <3>2. /\ SubSeq(q, 1, Len(s)) \in Seq(Input)
          /\ Len(SubSeq(q, 1, Len(s))) = (IF 1 <= Len(s) THEN Len(s) - 1 + 1 ELSE 0)
          /\ \A i \in 1 .. Len(s) - 1 + 1 : SubSeq(q, 1, Len(s))[i] = q[1 + i - 1]
      BY <3>1, SubSeqProperties
    <3> QED BY <2>1, <3>2, SMT
  <2>3. ASSUME Len(s) <= Len(t)
        PROVE  SubSeq(s, 1, Len(s)) = SubSeq(t, 1, Len(s)) <=> \A i \in 1 .. Len(s) : s[i] = t[i]
    <3> DEFINE p == SubSeq(s, 1, Len(s))
               q == SubSeq(t, 1, Len(s))
    <3>1. /\ Len(p) = Len(s) /\ p \in Seq(Input) /\ \A i \in 1 .. Len(s) : p[i] = s[i]
          /\ Len(q) = Len(s) /\ q \in Seq(Input) /\ \A i \in 1 .. Len(s) : q[i] = t[i]
      BY <2>1, <2>2, <2>3
    <3> HIDE DEF p, q
    <3>2. (\A i \in 1 .. Len(p) : p[i] = q[i]) => p = q
      BY <3>1, SeqEqual
    <3> QED BY <3>1, <3>2 DEF p, q
  <2> QED BY <2>1, <2>3 DEF IsPrefix
<1>2. \A s \in Inputs : Len(s) \in Nat
  BY InputFacts
<1>3. \A s \in Inputs : \A x \in Input : /\ Append(s, x) \in Inputs /\ Len(Append(s, x)) = Len(s) + 1
                                         /\ \A i \in 1 .. Len(s) : Append(s, x)[i] = s[i]
  BY AppendProperties, InputFacts DEF Inputs
<1>4. \A s \in Inputs : IsPrefix(s, s) /\ IsPrefix(<<>>, s)
  BY <1>1, <1>2, InputFacts, SMT
<1>5. \A s \in Inputs : \A x \in Input : IsPrefix(s, Append(s, x))
  <2> TAKE s \in Inputs
  <2> TAKE x \in Input
  <2> DEFINE t == Append(s, x)
  <2>1. t \in Inputs /\ Len(t) = Len(s) + 1 /\ \A i \in 1 .. Len(s) : t[i] = s[i]
    BY <1>3
  <2> HIDE DEF t
  <2>2. IsPrefix(s, t)
    BY <1>1, <1>2, <2>1, SMT
  <2> QED BY <2>2 DEF t
<1>6. \A r, s, t \in Inputs : IsPrefix(r, s) /\ IsPrefix(s, t) => IsPrefix(r, t)
  BY <1>1, <1>2, SMT
<1>7. \A s, t \in Inputs : IsPrefix(s, t) /\ Len(s) = Len(t) => s = t
  BY <1>1, SeqEqual DEF Inputs
<1> QED BY <1>4, <1>5, <1>6, <1>7

\* What a guarding ratchet will derive, and how many inputs the chain has that dr sends on
\* or will send on next.
NextInput(dr) == <<dr.seed, IF IsMajor(dr.root.step + 1) THEN dr.ss ELSE Nothing>>
NextInputs(dr) == Append(dr.root.inputs, NextInput(dr))
Reach(dr) == Len(dr.root.inputs) + (IF dr.sender.step = Guarding THEN 1 ELSE 0)

LEMMA TurnFacts ==
    \A u \in Users : /\ Other(u) \in Users /\ Other(Other(u)) = u /\ Other(u) # u
                     /\ \A v \in Users : v = u \/ v = Other(u)
                     /\ \A n \in Nat : /\ ~(TurnOf(u, n) /\ TurnOf(Other(u), n))
                                       /\ TurnOf(u, n + 1) <=> TurnOf(Other(u), n)
BY SMT DEF Users, Other, TurnOf

\* A multiple of the period is reached by bob first, and never in step 2.
LEMMA MajorFacts ==
    ASSUME NEW n \in Nat, TurnOf("alice", n)
    PROVE  n + 2 # KyberPeriod /\ (n + 2 < KyberPeriod => ~IsMajor(n + 2))
BY RatchetAssumption, SMT DEF TurnOf, IsMajor

LEMMA NextInputIs ==
    ASSUME NEW dr \in Ratchet
    PROVE  /\ NextInput(dr) \in Input /\ NextInputs(dr) \in Inputs
           /\ Len(NextInputs(dr)) = Len(dr.root.inputs) + 1
           /\ NextInputs(dr) # <<>>
<1>1. dr.seed \in SUBSET Name /\ dr.ss \in Cipher /\ dr.root.inputs \in Inputs
  BY DEF Ratchet
<1>2. NextInput(dr) \in Input
  BY <1>1 DEF NextInput, Input, Secret, Cipher
<1> QED BY <1>1, <1>2, InputFacts DEF NextInputs

\* send, its guard.
LEMMA ReadySound ==
    ASSUME NEW u \in Users, NEW dr, Sound(u, dr)
    PROVE  /\ Sound(u, Ready(dr)) /\ Ready(dr).sender.step \in Nat /\ Ready(dr).sender.step # Guarding
           /\ Ready(dr).receiver = dr.receiver /\ Ready(dr).missing = dr.missing
           /\ dr.sender.step # Guarding => Ready(dr) = dr
           /\ dr.sender.step = Guarding => /\ Ready(dr).root.inputs = NextInputs(dr)
                                           /\ Ready(dr).sender.step = 0
<1>1. CASE dr.sender.step # Guarding
  BY <1>1 DEF Ready, Sound
<1>2. CASE dr.sender.step = Guarding
  <2> DEFINE rt == [step |-> dr.root.step + 1, inputs |-> NextInputs(dr)]
             ch == Derived(NextInputs(dr))
             d == [dr EXCEPT !.root = rt, !.sender = [step |-> 0, root |-> ch],
                             !.sender_hash = ch, !.seed = {}]
  <2>1. Ready(dr) = d
    BY <1>2 DEF Ready, NextRk, NextInputs, NextInput
  <2>2. dr \in Ratchet
    BY DEF Sound
  <2>3. /\ NextInputs(dr) \in Inputs /\ NextInputs(dr) # <<>>
        /\ Len(NextInputs(dr)) = Len(dr.root.inputs) + 1 /\ Len(dr.root.inputs) \in Nat
    BY <2>2, NextInputIs, InputFacts DEF Ratchet
  <2>4. rt \in [step : Nat, inputs : Inputs] /\ ch \in ChainRoot /\ ch = ChainOf(NextInputs(dr))
        /\ rt.inputs = NextInputs(dr) /\ rt.step = Len(rt.inputs) + 2 /\ rt.step = dr.root.step + 1
        /\ dr.root.step = Len(dr.root.inputs) + 2
    BY <2>2, <2>3 DEF Ratchet, Derived, ChainRoot, ChainOf, Sound
  <2> HIDE DEF rt, ch
  <2>5. /\ d \in Ratchet /\ d.root = rt /\ d.sender = [step |-> 0, root |-> ch]
        /\ d.receiver = dr.receiver /\ d.missing = dr.missing /\ d.cp = dr.cp /\ d.kyber = dr.kyber
    <3> DEFINE sn == [step |-> 0, root |-> ch]
    <3>1. sn \in Chain /\ {} \in SUBSET Name
      BY <2>4 DEF Chain
    <3> HIDE DEF sn
    <3>2. [dr EXCEPT !.root = rt, !.sender = sn, !.sender_hash = ch, !.seed = {}] \in Ratchet
      BY <2>2, <2>4, <3>1 DEF Ratchet
    <3>3. d = [dr EXCEPT !.root = rt, !.sender = sn, !.sender_hash = ch, !.seed = {}]
      BY DEF sn
    <3>4. /\ d.root = rt /\ d.sender = sn
          /\ d.receiver = dr.receiver /\ d.missing = dr.missing /\ d.cp = dr.cp /\ d.kyber = dr.kyber
      BY <2>2, <3>3 DEF Ratchet
    <3> QED BY <3>2, <3>3, <3>4 DEF sn
  <2> HIDE DEF d
  <2>6. TurnOf(u, Len(rt.inputs))
    BY <1>2, <2>3, <2>4, TurnFacts, SMTT(20) DEF Sound
  <2>7. (d.root.step < KyberPeriod /\ u = "alice") \/ Sealed(u, d.cp)
    <3>1. CASE Sealed(u, dr.cp)
      BY <2>5, <3>1
    <3>2. CASE dr.root.step < KyberPeriod /\ u = "alice"
      <4>1. rt.step # KyberPeriod
        BY <2>3, <2>4, <2>6, <3>2, MajorFacts
      <4>2. rt.step < KyberPeriod
        BY <2>3, <2>4, <3>2, <4>1, RatchetAssumption, SMT
      <4> QED BY <2>5, <3>2, <4>2
    <3> QED BY <3>1, <3>2 DEF Sound
  <2>8. Len(d.receiver.root.inputs) <= Len(d.root.inputs)
    <3>1. Len(dr.receiver.root.inputs) \in Nat
      BY <2>2, InputFacts DEF Ratchet, Chain, ChainRoot
    <3>2. Len(dr.receiver.root.inputs) <= Len(dr.root.inputs)
      BY DEF Sound
    <3> QED BY <2>3, <2>4, <2>5, <3>1, <3>2, SMT
  <2>9. Sound(u, d)
    BY <2>4, <2>5, <2>6, <2>7, <2>8 DEF Sound, Guarding
  <2> QED BY <1>2, <2>1, <2>4, <2>5, <2>9 DEF Guarding
<1> QED BY <1>1, <1>2

\* send: the ratchet after it, and the message that is made of the header and the key.
LEMMA SendSound ==
    ASSUME NEW u \in Users, NEW dr, Sound(u, dr)
    PROVE  /\ Sound(u, Send(dr).dr) /\ Send(dr).header \in Header /\ Send(dr).key \in Key
           /\ Send(dr).dr.sender.step \in Nat /\ Send(dr).dr.sender.step # Guarding
           /\ Send(dr).dr.receiver = dr.receiver /\ Send(dr).dr.missing = dr.missing
           /\ Send(dr).dr.root.inputs = IF dr.sender.step = Guarding THEN NextInputs(dr) ELSE dr.root.inputs
           /\ Len(Send(dr).dr.root.inputs) = Reach(dr) /\ Reach(dr) \in Nat
           /\ Send(dr).key = <<ChainOf(Send(dr).dr.root.inputs), Send(dr).header.sub_step>>
           /\ Send(dr).header.sub_step = IF dr.sender.step = Guarding THEN 0 ELSE dr.sender.step
           /\ Send(dr).dr.sender.step = Send(dr).header.sub_step + 1
           /\ Send(dr).header.step = Len(Send(dr).dr.root.inputs) + 2
           /\ TurnOf(u, Len(Send(dr).dr.root.inputs))
           /\ Send(dr).header.public[1] = u
           /\ Send(dr).header.major = IsMajor(Send(dr).header.step)
           /\ Send(dr).header.major => Sealed(u, Send(dr).header.cp)
<1> DEFINE d == Ready(dr)
           h == [step |-> d.root.step, sub_step |-> d.sender.step,
                 prev_sub_count |-> d.prev_sub_count, x25519 |-> d.x25519,
                 major |-> IsMajor(d.root.step), public |-> d.kyber, cp |-> d.cp]
           e == [d EXCEPT !.sender = [d.sender EXCEPT !.step = d.sender.step + 1]]
<1>1. Send(dr) = [header |-> h, key |-> <<d.sender.root, d.sender.step>>, dr |-> e]
  BY DEF Send, KeyAt, NextSc
<1>2. /\ Sound(u, d) /\ d.sender.step \in Nat /\ d.sender.step # Guarding
      /\ d.receiver = dr.receiver /\ d.missing = dr.missing
      /\ dr.sender.step # Guarding => d = dr
      /\ dr.sender.step = Guarding => d.root.inputs = NextInputs(dr) /\ d.sender.step = 0
  BY ReadySound
<1> HIDE DEF d
<1>3. d \in Ratchet
  BY <1>2 DEF Sound
<1>4. /\ d.sender \in Chain /\ d.root.step \in Nat /\ d.prev_sub_count \in Int /\ d.x25519 \in Name
      /\ d.kyber \in Name /\ d.cp \in Cipher /\ d.root.inputs \in Inputs
  BY <1>3 DEF Ratchet
<1>5. h \in Header /\ <<d.sender.root, d.sender.step>> \in Key
  BY <1>2, <1>4 DEF Header, Key, Chain, IsMajor
<1>6. /\ e \in Ratchet /\ e.sender.step = d.sender.step + 1 /\ e.sender.root = d.sender.root
      /\ e.root = d.root /\ e.receiver = d.receiver /\ e.missing = d.missing /\ e.cp = d.cp
      /\ e.kyber = d.kyber
  <2> DEFINE sc == [d.sender EXCEPT !.step = d.sender.step + 1]
  <2>1. sc \in Chain /\ sc.step = d.sender.step + 1 /\ sc.root = d.sender.root
    BY <1>2, <1>4 DEF Chain
  <2> HIDE DEF sc
  <2>2. [d EXCEPT !.sender = sc] \in Ratchet /\ [d EXCEPT !.sender = sc].sender = sc
    BY <1>3, <2>1 DEF Ratchet
  <2> QED BY <1>3, <2>1, <2>2 DEF sc, Ratchet
<1>7. e.sender.step \in Nat /\ e.sender.step # Guarding
  BY <1>2, <1>6, SMT DEF Guarding
<1>8. Sound(u, e)
  BY <1>2, <1>6, <1>7 DEF Sound
<1>9. Len(d.root.inputs) = Reach(dr) /\ Reach(dr) \in Nat
  <2>1. dr \in Ratchet /\ Len(dr.root.inputs) \in Nat
    BY InputFacts DEF Sound, Ratchet
  <2>2. CASE dr.sender.step = Guarding
    BY <1>2, <2>1, <2>2, NextInputIs DEF Reach
  <2>3. CASE dr.sender.step # Guarding
    BY <1>2, <2>1, <2>3 DEF Reach
  <2> QED BY <2>2, <2>3
<1>10. /\ d.root.step = Len(d.root.inputs) + 2 /\ TurnOf(u, Len(d.root.inputs))
       /\ d.sender.root = ChainOf(d.root.inputs) /\ d.kyber[1] = u
  BY <1>2 DEF Sound
<1>11. IsMajor(d.root.step) => Sealed(u, d.cp)
  <2>1. Len(d.root.inputs) \in Nat
    BY <1>4, InputFacts
  <2> QED BY <1>2, <1>10, <2>1, MajorFacts DEF Sound
<1> DEFINE out == Send(dr)
<1>12. out.header = h /\ out.key = <<d.sender.root, d.sender.step>> /\ out.dr = e
  BY <1>1
<1> HIDE DEF out, e
<1>13. out.header \in Header /\ out.header.step = d.root.step /\ out.header.sub_step = d.sender.step
       /\ out.header.public = d.kyber /\ out.header.major = IsMajor(d.root.step) /\ out.header.cp = d.cp
  BY <1>5, <1>12
<1> HIDE DEF h
<1>14. d.sender.step = IF dr.sender.step = Guarding THEN 0 ELSE dr.sender.step
  BY <1>2
<1>15. d.root.inputs = IF dr.sender.step = Guarding THEN NextInputs(dr) ELSE dr.root.inputs
  BY <1>2
<1> QED BY <1>2, <1>5, <1>6, <1>7, <1>8, <1>9, <1>10, <1>11, <1>12, <1>13, <1>14, <1>15 DEF out

\* What the ratchet does with its kept keys: a key is in the past of dr when its chain is not
\* later and its position there is behind; used are the keys of what was read.
Past(dr, key) == /\ key[1] \in ChainRoot /\ Len(key[1].inputs) <= Len(dr.receiver.root.inputs)
                 /\ key[1] = dr.receiver.root => key[2] < dr.receiver.step
Spent(dr, used) ==
    /\ \A i \in DOMAIN dr.missing : Past(dr, dr.missing[i].key)
    /\ \A i, j \in DOMAIN dr.missing : dr.missing[i].key = dr.missing[j].key => i = j
    /\ \A key \in used : Past(dr, key) /\ \A i \in DOMAIN dr.missing : dr.missing[i].key # key

\* What stays when a message of the present or an earlier chain is read.
SameChain(dr, e) ==
    /\ dr.receiver.step \in Nat => e.receiver.step \in Nat
    /\ e = [dr EXCEPT !.missing = e.missing, !.receiver = [step |-> e.receiver.step, root |-> dr.receiver.root]]
    /\ e.missing \in Seq(Missing) /\ e.receiver.step \in Int

LEMMA SameChainKeeps ==
    ASSUME NEW dr \in Ratchet, NEW e, SameChain(dr, e)
    PROVE  /\ e \in Ratchet /\ e.root = dr.root /\ e.sender = dr.sender /\ e.kyber = dr.kyber
           /\ e.cp = dr.cp /\ e.seed = dr.seed /\ e.ss = dr.ss /\ e.receiver.root = dr.receiver.root
           /\ e.x25519 = dr.x25519 /\ e.sender_hash = dr.sender_hash
           /\ e.receiver_hash = dr.receiver_hash /\ e.prev_sub_count = dr.prev_sub_count
           /\ \A u : Sound(u, dr) => Sound(u, e)
<1> DEFINE ms == e.missing
           rc == [step |-> e.receiver.step, root |-> dr.receiver.root]
<1>1. e = [dr EXCEPT !.missing = ms, !.receiver = rc] /\ ms \in Seq(Missing) /\ rc \in Chain
  BY DEF SameChain, Ratchet, Chain
<1>2. rc.root = dr.receiver.root /\ rc.step = e.receiver.step
  OBVIOUS
<1> HIDE DEF ms, rc
<1>3. /\ e \in Ratchet /\ e.root = dr.root /\ e.sender = dr.sender /\ e.kyber = dr.kyber
      /\ e.cp = dr.cp /\ e.seed = dr.seed /\ e.ss = dr.ss /\ e.receiver = rc /\ e.x25519 = dr.x25519
      /\ e.sender_hash = dr.sender_hash /\ e.receiver_hash = dr.receiver_hash
      /\ e.prev_sub_count = dr.prev_sub_count
  BY <1>1 DEF Ratchet
<1>4. \A u : Sound(u, dr) => Sound(u, e)
  BY <1>2, <1>3 DEF Sound, SameChain
<1> QED BY <1>2, <1>3, <1>4

\* add_missing_message
LEMMA AddIs ==
    ASSUME NEW dr \in Ratchet, dr.receiver.step \in Nat, NEW latest \in Int, latest >= dr.receiver.step
    PROVE  LET a == AddMissing(dr, latest)  n == Len(dr.missing)  at == dr.receiver.step
           IN  /\ SameChain(dr, a) /\ a.receiver.step = latest
               /\ \E off \in Nat : \A j \in DOMAIN a.missing :
                    /\ j \in Nat /\ j + off \in 1 .. n + (latest - at)
                    /\ j + off <= n => j + off \in DOMAIN dr.missing
                    /\ a.missing[j].key = IF j + off <= n THEN dr.missing[j + off].key
                                          ELSE <<dr.receiver.root, at + (j + off - n) - 1>>
<1> DEFINE n == Len(dr.missing)
           at == dr.receiver.step
           skip == [i \in 1 .. latest - at |-> [step |-> dr.root.step, sub_step |-> at + i - 1,
                                                key |-> KeyAt(dr.receiver, at + i - 1)]]
           c == dr.missing \o skip
           k == Kept(c)
           a == AddMissing(dr, latest)
<1>1. a = [dr EXCEPT !.missing = k, !.receiver.step = latest]
  BY DEF AddMissing
<1>2. /\ dr.missing \in Seq(Missing) /\ n \in Nat /\ dr.receiver \in Chain /\ dr.root.step \in Nat
      /\ DOMAIN dr.missing = 1 .. n
  BY LenProperties DEF Ratchet
<1>3. /\ skip \in Seq(Missing) /\ Len(skip) = latest - at
      /\ \A i \in 1 .. latest - at : skip[i].key = <<dr.receiver.root, at + i - 1>>
  <2>1. \A i \in 1 .. latest - at : skip[i] = [step |-> dr.root.step, sub_step |-> at + i - 1,
                                               key |-> <<dr.receiver.root, at + i - 1>>]
    BY DEF KeyAt
  <2>2. latest - at \in Nat /\ \A i \in 1 .. latest - at : at + i - 1 \in Int
    BY SMT
  <2>3. dr.receiver.root \in ChainRoot
    BY <1>2 DEF Chain
  <2>4. \A i \in 1 .. latest - at : skip[i] \in Missing
    <3> TAKE i \in 1 .. latest - at
    <3> DEFINE s == at + i - 1
    <3>1. s \in Int /\ skip[i] = [step |-> dr.root.step, sub_step |-> s, key |-> <<dr.receiver.root, s>>]
      BY <2>1, <2>2
    <3> HIDE DEF s, skip
    <3>2. <<dr.receiver.root, s>> \in Key /\ dr.root.step \in Int
      BY <1>2, <2>3, <3>1 DEF Key
    <3> QED BY <3>1, <3>2 DEF Missing
  <2>5. skip \in [1 .. latest - at -> Missing]
    BY <2>4
  <2> HIDE DEF skip, at
  <2>6. skip \in Seq(Missing)
    BY <2>2, <2>5, SeqDef
  <2>7. Len(skip) = latest - at
    <3>1. Len(skip) \in Nat /\ DOMAIN skip = 1 .. Len(skip) /\ DOMAIN skip = 1 .. latest - at
      BY <2>5, <2>6, LenProperties
    <3> QED BY <2>2, <3>1, SMT
  <2> QED BY <2>1, <2>6, <2>7
<1>0. at \in Nat
  OBVIOUS
<1> HIDE DEF skip, at, n
<1>4. /\ c \in Seq(Missing) /\ Len(c) = n + (latest - at)
      /\ \A i \in 1 .. n + (latest - at) : c[i] = IF i <= n THEN dr.missing[i] ELSE skip[i - n]
  <2>1. /\ c \in Seq(Missing) /\ Len(c) = Len(dr.missing) + Len(skip)
        /\ \A i \in 1 .. Len(dr.missing) + Len(skip) :
              c[i] = IF i <= Len(dr.missing) THEN dr.missing[i] ELSE skip[i - Len(dr.missing)]
    BY <1>2, <1>3, ConcatProperties
  <2> HIDE DEF c
  <2> QED BY <1>3, <2>1 DEF n
<1> HIDE DEF c
<1>5. PICK off \in Nat : /\ k \in Seq(Missing)
                         /\ \A j \in DOMAIN k : j \in Nat /\ j + off \in 1 .. Len(c) /\ k[j] = c[j + off]
  <2>1. Len(c) \in Nat /\ DOMAIN c = 1 .. Len(c) /\ MaxKept \in Nat
    BY <1>4, LenProperties, RatchetAssumption
  <2>2. CASE Len(c) <= MaxKept
    <3>1. k = c
      BY <2>2 DEF Kept
    <3>2. \A j \in DOMAIN k : j \in Nat /\ j + 0 \in 1 .. Len(c) /\ j + 0 = j
      BY <2>1, <3>1, SMT
    <3>3. \A j \in DOMAIN k : k[j] = c[j + 0]
      BY <3>1, <3>2
    <3> QED BY <1>4, <3>1, <3>2, <3>3
  <2>3. CASE ~(Len(c) <= MaxKept)
    <3> DEFINE off == Len(c) - MaxKept
               lo == Len(c) - MaxKept + 1
    <3>1. k = SubSeq(c, lo, Len(c)) /\ off \in Nat /\ lo \in Int /\ Len(c) \in Int
      BY <2>1, <2>3, SMT DEF Kept
    <3>2. \A i \in lo .. Len(c) : c[i] \in Missing
      <4>1. lo \in 1 .. Len(c)
        BY <2>1, <2>3, RatchetAssumption, SMT
      <4>2. \A i \in lo .. Len(c) : i \in 1 .. Len(c)
        BY <2>1, <4>1, SMT
      <4> QED BY <1>4, <2>1, <4>2, ElementOfSeq
    <3>3. /\ k \in Seq(Missing) /\ Len(k) = (IF lo <= Len(c) THEN Len(c) - lo + 1 ELSE 0)
          /\ \A j \in 1 .. Len(c) - lo + 1 : k[j] = c[lo + j - 1]
      BY <3>1, <3>2, SubSeqProperties, SMTT(20)
    <3>4. DOMAIN k = 1 .. Len(k) /\ Len(k) \in Nat
      BY <3>3, LenProperties
    <3>5. Len(c) - lo + 1 = MaxKept /\ Len(k) = MaxKept
      BY <2>1, <2>3, <3>3, RatchetAssumption, SMT
    <3> HIDE DEF k
    <3>6. \A j \in DOMAIN k : j \in Nat /\ j \in 1 .. Len(c) - lo + 1 /\ lo + j - 1 = j + off /\ j + off \in 1 .. Len(c)
      BY <2>1, <2>3, <3>4, <3>5, SMTT(20)
    <3>7. \A j \in DOMAIN k : k[j] = c[j + off]
      <4> TAKE j \in DOMAIN k
      <4>1. PICK i : i = lo + j - 1 /\ i = j + off
        BY <3>6
      <4>2. k[j] = c[i]
        BY <3>3, <3>6, <4>1
      <4> QED BY <4>1, <4>2
    <3> QED BY <3>1, <3>3, <3>6, <3>7
  <2> QED BY <2>2, <2>3
<1> HIDE DEF k
<1>6. \A j \in DOMAIN k :
        /\ j \in Nat /\ j + off \in 1 .. n + (latest - at)
        /\ j + off <= n => j + off \in DOMAIN dr.missing
        /\ k[j].key = IF j + off <= n THEN dr.missing[j + off].key
                                      ELSE <<dr.receiver.root, at + (j + off - n) - 1>>
  <2> TAKE j \in DOMAIN k
  <2>1. j \in Nat /\ j + off \in 1 .. n + (latest - at) /\ k[j] = c[j + off]
    BY <1>4, <1>5
  <2>2. PICK i \in 1 .. n + (latest - at) : i = j + off
    BY <2>1
  <2>3. c[i] = IF i <= n THEN dr.missing[i] ELSE skip[i - n]
    BY <1>4
  <2>4. CASE i <= n
    <3>1. i \in 1 .. n /\ k[j] = dr.missing[i]
      BY <2>1, <2>2, <2>3, <2>4, SMT
    <3> QED BY <1>2, <2>1, <2>2, <2>4, <3>1
  <2>5. CASE ~(i <= n)
    <3>1. i - n \in 1 .. latest - at /\ k[j] = skip[i - n]
      BY <1>2, <2>1, <2>2, <2>3, <2>5, SMT DEF at
    <3>2. k[j].key = <<dr.receiver.root, at + (i - n) - 1>>
      BY <1>3, <3>1
    <3>3. at + (i - n) - 1 = at + (j + off - n) - 1 /\ ~(j + off <= n)
      BY <1>0, <1>2, <2>1, <2>2, <2>5, SMT
    <3>4. k[j].key = <<dr.receiver.root, at + (j + off - n) - 1>>
      BY <3>2, <3>3
    <3> QED BY <2>1, <3>3, <3>4
  <2> QED BY <2>4, <2>5
<1>7. a.missing = k /\ a.receiver = [step |-> latest, root |-> dr.receiver.root]
      /\ a = [dr EXCEPT !.missing = k, !.receiver = [step |-> latest, root |-> dr.receiver.root]]
  <2>1. [dr.receiver EXCEPT !.step = latest] = [step |-> latest, root |-> dr.receiver.root]
    BY <1>2 DEF Chain
  <2> HIDE DEF a
  <2> QED BY <1>1, <2>1 DEF Ratchet
<1>8. latest \in Nat
  BY SMT
<1>9. SameChain(dr, a) /\ a.receiver.step = latest
  BY <1>5, <1>7, <1>8 DEF SameChain
<1> QED BY <1>5, <1>6, <1>7, <1>9 DEF n, at

\* Keys that are kept are new ones of the receiving chain.
LEMMA AddSpent ==
    ASSUME NEW dr \in Ratchet, dr.receiver.step \in Nat, NEW latest \in Int, latest >= dr.receiver.step,
           NEW used, used \subseteq Key, Spent(dr, used)
    PROVE  Spent(AddMissing(dr, latest), used)
<1> DEFINE a == AddMissing(dr, latest)
           n == Len(dr.missing)
           at == dr.receiver.step
<1>1. SameChain(dr, a) /\ a.receiver.step = latest
  BY AddIs
<1>2. PICK off \in Nat : \A j \in DOMAIN a.missing :
         /\ j \in Nat /\ j + off \in 1 .. n + (latest - at)
         /\ j + off <= n => j + off \in DOMAIN dr.missing
         /\ a.missing[j].key = IF j + off <= n THEN dr.missing[j + off].key
                               ELSE <<dr.receiver.root, at + (j + off - n) - 1>>
  BY AddIs
<1>3. a.receiver.root = dr.receiver.root /\ dr.receiver.root \in ChainRoot
  BY <1>1, SameChainKeeps DEF Ratchet, Chain
<1>4. n \in Nat /\ at \in Nat /\ \A i \in DOMAIN dr.missing : dr.missing[i].key \in Key
  <2>1. dr.missing \in Seq(Missing)
    BY DEF Ratchet
  <2>2. \A i \in DOMAIN dr.missing : dr.missing[i] \in Missing
    BY <2>1, LenProperties
  <2> QED BY <2>1, <2>2, LenProperties DEF Missing
<1> HIDE DEF a, at, n
\* Where a kept key of a comes from
<1> DEFINE New(key) == \E p \in Int : key = <<dr.receiver.root, p>> /\ at <= p /\ p < latest
<1>5. ASSUME NEW key \in Key, Past(dr, key)
      PROVE  Past(a, key) /\ ~New(key)
  <2>1. key[1] \in ChainRoot /\ key[2] \in Int
    BY DEF Key
  <2>2. key[1] = dr.receiver.root => key[2] < at
    BY <1>5 DEF Past, at
  <2>3. Past(a, key)
    BY <1>1, <1>3, <1>4, <1>5, <2>1, <2>2, SMT DEF Past, at
  <2>4. ~New(key)
    BY <1>4, <2>1, <2>2, SMT
  <2> QED BY <2>3, <2>4
<1>6. ASSUME NEW key, New(key)
      PROVE  Past(a, key)
  <2>1. PICK p \in Int : key = <<dr.receiver.root, p>> /\ at <= p /\ p < latest
    BY <1>6
  <2>2. key[1] = dr.receiver.root /\ key[2] = p
    BY <2>1
  <2>3. Len(dr.receiver.root.inputs) \in Nat
    BY <1>3, InputFacts DEF ChainRoot
  <2> QED BY <1>1, <1>3, <2>1, <2>2, <2>3, SMT DEF Past
<1>7. ASSUME NEW j \in DOMAIN a.missing
      PROVE  \/ /\ j + off \in DOMAIN dr.missing /\ j + off <= n
                /\ a.missing[j].key = dr.missing[j + off].key
             \/ /\ ~(j + off <= n) /\ New(a.missing[j].key)
                /\ a.missing[j].key = <<dr.receiver.root, at + (j + off - n) - 1>>
  <2>1. CASE j + off <= n
    BY <1>2, <2>1
  <2>2. CASE ~(j + off <= n)
    <3> DEFINE p == at + (j + off - n) - 1
    <3>1. p \in Int /\ at <= p /\ p < latest
      <4>1. j \in Nat /\ j + off \in 1 .. n + (latest - at)
        BY <1>2
      <4> QED BY <1>4, <2>2, <4>1, SMT
    <3>2. a.missing[j].key = <<dr.receiver.root, p>>
      BY <1>2, <2>2
    <3> HIDE DEF p
    <3>3. New(a.missing[j].key)
      BY <3>1, <3>2
    <3> QED BY <2>2, <3>2, <3>3 DEF p
  <2> QED BY <2>1, <2>2
<1>8. ASSUME NEW i \in DOMAIN a.missing, NEW j \in DOMAIN a.missing, a.missing[i].key = a.missing[j].key
      PROVE  i = j
  <2>1. i \in Nat /\ j \in Nat
    BY <1>2
  <2>2. CASE i + off <= n /\ j + off <= n
    <3>1. i + off = j + off
      BY <1>7, <1>8, <2>2 DEF Spent
    <3> QED BY <2>1, <3>1, SMT
  <2>3. CASE ~(i + off <= n) /\ ~(j + off <= n)
    <3> DEFINE p == at + (i + off - n) - 1
               q == at + (j + off - n) - 1
    <3>1. <<dr.receiver.root, p>> = <<dr.receiver.root, q>>
      BY <1>7, <1>8, <2>3
    <3>2. p = q
      BY <3>1
    <3> QED BY <1>4, <2>1, <3>2, SMT
  <2>4. CASE ((i + off <= n) /\ ~(j + off <= n)) \/ (~(i + off <= n) /\ (j + off <= n))
    BY <1>4, <1>5, <1>7, <1>8, <2>4 DEF Spent
  <2> QED BY <2>2, <2>3, <2>4
<1> HIDE DEF New
<1>9. \A j \in DOMAIN a.missing : Past(a, a.missing[j].key)
  BY <1>4, <1>5, <1>6, <1>7 DEF Spent
<1>10. \A key \in used : Past(a, key) /\ \A j \in DOMAIN a.missing : a.missing[j].key # key
  BY <1>4, <1>5, <1>7 DEF Spent
<1> QED BY <1>8, <1>9, <1>10 DEF Spent, a

\* find_missing_message
LEMMA FindIs ==
    ASSUME NEW dr \in Ratchet, NEW h, FindMissing(dr, h).ok
    PROVE  LET r == FindMissing(dr, h)
           IN  /\ SameChain(dr, r.dr) /\ r.dr.receiver = dr.receiver
               /\ \E i \in DOMAIN dr.missing :
                    /\ r.key = dr.missing[i].key
                    /\ \A j \in DOMAIN r.dr.missing :
                         LET k == IF j < i THEN j ELSE j + 1
                         IN  /\ j \in Nat /\ k \in DOMAIN dr.missing /\ k # i
                             /\ r.dr.missing[j] = dr.missing[k]
<1> DEFINE at == {i \in 1 .. Len(dr.missing) :
                    dr.missing[i].step = h.step /\ dr.missing[i].sub_step = h.sub_step}
           i == CHOOSE x \in at : \A j \in at : x <= j
           ms == SubSeq(dr.missing, 1, i - 1) \o SubSeq(dr.missing, i + 1, Len(dr.missing))
           r == FindMissing(dr, h)
<1>1. at # {} /\ r = [ok |-> TRUE, key |-> dr.missing[i].key, dr |-> [dr EXCEPT !.missing = ms]]
  BY DEF FindMissing, RecvErr
<1>2. dr.missing \in Seq(Missing) /\ dr.receiver \in Chain
  BY DEF Ratchet
<1>3. Len(dr.missing) \in Nat /\ DOMAIN dr.missing = 1 .. Len(dr.missing)
  BY <1>2, LenProperties
<1>4. i \in DOMAIN dr.missing
  <2>1. at \subseteq Nat /\ at \subseteq DOMAIN dr.missing
    BY <1>3, SMT
  <2>2. \E x \in at : \A j \in at : x <= j
    <3> HIDE DEF at
    <3> QED BY <1>1, <2>1, LeastNumber
  <2>3. i \in at
    BY <2>2
  <2> QED BY <2>1, <2>3
<1>5. ms = RemoveAt(dr.missing, i)
  BY DEF RemoveAt
<1> HIDE DEF at, i, ms, r
<1>6. /\ ms \in Seq(Missing) /\ Len(ms) = Len(dr.missing) - 1
      /\ \A j \in 1 .. Len(dr.missing) - 1 : ms[j] = dr.missing[IF j < i THEN j ELSE j + 1]
  BY <1>2, <1>4, <1>5, RemoveAtFacts
<1>7. DOMAIN ms = 1 .. Len(dr.missing) - 1
  BY <1>6, LenProperties
<1>8. r.dr = [dr EXCEPT !.missing = ms] /\ r.key = dr.missing[i].key
  BY <1>1
<1>9. r.dr.missing = ms /\ r.dr.receiver = dr.receiver
  BY <1>8 DEF Ratchet
<1>10. SameChain(dr, r.dr)
  <2>1. [step |-> r.dr.receiver.step, root |-> dr.receiver.root] = dr.receiver /\ dr.receiver.step \in Int
    BY <1>2, <1>9 DEF Chain
  <2>2. [dr EXCEPT !.missing = ms, !.receiver = dr.receiver] = [dr EXCEPT !.missing = ms]
    BY DEF Ratchet
  <2> QED BY <1>6, <1>8, <1>9, <2>1, <2>2 DEF SameChain
<1>11. \A j \in DOMAIN ms : LET k == IF j < i THEN j ELSE j + 1
                            IN j \in Nat /\ k \in DOMAIN dr.missing /\ k # i /\ ms[j] = dr.missing[k]
  <2> TAKE j \in DOMAIN ms
  <2>1. j \in 1 .. Len(dr.missing) - 1 /\ i \in 1 .. Len(dr.missing)
    BY <1>3, <1>4, <1>7
  <2> DEFINE k == IF j < i THEN j ELSE j + 1
  <2>2. j \in Nat /\ k \in 1 .. Len(dr.missing) /\ k # i
    BY <1>3, <2>1, SMT
  <2>3. ms[j] = dr.missing[k]
    BY <1>6, <2>1
  <2> QED BY <1>3, <2>2, <2>3
<1> QED BY <1>4, <1>8, <1>9, <1>10, <1>11 DEF r

LEMMA FindSpent ==
    ASSUME NEW dr \in Ratchet, NEW h, FindMissing(dr, h).ok, NEW used, Spent(dr, used)
    PROVE  Spent(FindMissing(dr, h).dr, used \cup {FindMissing(dr, h).key})
<1> DEFINE r == FindMissing(dr, h)
<1>1. r.dr.receiver = dr.receiver
  BY FindIs
<1>2. PICK i \in DOMAIN dr.missing :
         /\ r.key = dr.missing[i].key
         /\ \A j \in DOMAIN r.dr.missing :
              LET k == IF j < i THEN j ELSE j + 1
              IN  j \in Nat /\ k \in DOMAIN dr.missing /\ k # i /\ r.dr.missing[j] = dr.missing[k]
  BY FindIs
<1> HIDE DEF r
<1>3. \A key : Past(dr, key) => Past(r.dr, key)
  BY <1>1 DEF Past
<1>4. \A j \in DOMAIN r.dr.missing : \E k \in DOMAIN dr.missing : k # i /\ r.dr.missing[j] = dr.missing[k]
  BY <1>2
<1>5. ASSUME NEW j \in DOMAIN r.dr.missing, NEW l \in DOMAIN r.dr.missing,
             r.dr.missing[j].key = r.dr.missing[l].key
      PROVE  j = l
  <2>1. (IF j < i THEN j ELSE j + 1) = (IF l < i THEN l ELSE l + 1)
    BY <1>2, <1>5 DEF Spent
  <2>2. j \in Nat /\ l \in Nat /\ i \in Nat
    <3>1. dr.missing \in Seq(Missing)
      BY DEF Ratchet
    <3>2. DOMAIN dr.missing = 1 .. Len(dr.missing) /\ Len(dr.missing) \in Nat
      BY <3>1, LenProperties
    <3> QED BY <1>2, <3>2, SMT
  <2> QED BY <2>1, <2>2, SMT
<1>6. \A j \in DOMAIN r.dr.missing : Past(r.dr, r.dr.missing[j].key)
  BY <1>3, <1>4 DEF Spent
<1>7. \A key \in used \cup {r.key} : Past(r.dr, key) /\ \A j \in DOMAIN r.dr.missing : r.dr.missing[j].key # key
  BY <1>2, <1>3, <1>4 DEF Spent
<1> QED BY <1>5, <1>6, <1>7 DEF Spent, r

\* recv, the message at or after the chain's position.
LEMMA AdvanceIs ==
    ASSUME NEW dr \in Ratchet, dr.receiver.step \in Nat, NEW h, h.sub_step \in Nat,
           h.sub_step >= dr.receiver.step
    PROVE  /\ SameChain(dr, Advance(dr, h).dr) /\ Advance(dr, h).dr.receiver.step = h.sub_step + 1
           /\ Advance(dr, h).key = <<dr.receiver.root, h.sub_step>>
           /\ \A used \in SUBSET Key : Spent(dr, used) =>
                 Spent(Advance(dr, h).dr, used \cup {Advance(dr, h).key})
<1> DEFINE a == AddMissing(dr, h.sub_step)
           key == <<dr.receiver.root, h.sub_step>>
           e == [a EXCEPT !.receiver = NextSc(a.receiver)]
<1>1. SameChain(dr, a) /\ a.receiver.step = h.sub_step
  BY AddIs
<1>2. \A used \in SUBSET Key : Spent(dr, used) => Spent(a, used)
  BY AddSpent
<1>3. a \in Ratchet /\ a.receiver.root = dr.receiver.root
  BY <1>1, SameChainKeeps
<1>4. a.receiver = [step |-> h.sub_step, root |-> dr.receiver.root] /\ dr.receiver.root \in ChainRoot
  BY <1>1, <1>3 DEF Ratchet, Chain
<1>5. Advance(dr, h).key = key /\ Advance(dr, h).dr = e
  BY <1>4 DEF Advance, KeyAt
<1> DEFINE rc == [step |-> h.sub_step + 1, root |-> dr.receiver.root]
<1>6. NextSc(a.receiver) = rc /\ rc.step = h.sub_step + 1 /\ rc.root = dr.receiver.root
  BY <1>4 DEF NextSc
<1> HIDE DEF a, rc
<1>7. e = [a EXCEPT !.receiver = rc] /\ e.receiver = rc /\ e.missing = a.missing
  BY <1>3, <1>6 DEF Ratchet
<1> HIDE DEF e
<1>8. SameChain(dr, e)
  <2>1. a = [dr EXCEPT !.missing = a.missing, !.receiver = [step |-> h.sub_step, root |-> dr.receiver.root]]
    BY <1>1 DEF SameChain
  <2>2. [a EXCEPT !.receiver = rc] = [dr EXCEPT !.missing = a.missing, !.receiver = rc]
    BY <2>1 DEF Ratchet
  <2>3. rc = [step |-> e.receiver.step, root |-> dr.receiver.root] /\ e.receiver.step \in Nat
    BY <1>6, <1>7 DEF rc
  <2>4. e = [dr EXCEPT !.missing = e.missing, !.receiver = rc]
    BY <1>7, <2>2
  <2>5. e.missing \in Seq(Missing)
    BY <1>3, <1>7 DEF Ratchet
  <2> QED BY <2>3, <2>4, <2>5 DEF SameChain
<1>9. ASSUME NEW used \in SUBSET Key, Spent(dr, used)
      PROVE  Spent(e, used \cup {key})
  <2>1. Spent(a, used)
    BY <1>2, <1>9
  <2>2. \A k : Past(a, k) /\ (k \in Key) => Past(e, k) /\ k # key
    <3> TAKE k
    <3> HAVE Past(a, k) /\ k \in Key
    <3>1. k[1] \in ChainRoot /\ k[2] \in Int
      BY DEF Key
    <3>2. k[1] = dr.receiver.root => k[2] < h.sub_step
      BY <1>4 DEF Past
    <3>3. key[1] = dr.receiver.root /\ key[2] = h.sub_step
      OBVIOUS
    <3>4. Past(e, k)
      BY <1>4, <1>6, <1>7, <3>1, <3>2, SMT DEF Past
    <3>5. k # key
      BY <3>1, <3>2, <3>3, SMT
    <3> QED BY <3>4, <3>5
  <2>3. Past(e, key)
    <3>1. Len(dr.receiver.root.inputs) \in Nat
      BY <1>4, InputFacts DEF ChainRoot
    <3>2. key[1] = dr.receiver.root /\ key[2] = h.sub_step
      OBVIOUS
    <3> HIDE DEF key
    <3> QED BY <1>4, <1>6, <1>7, <3>1, <3>2, SMT DEF Past
  <2>4. \A i \in DOMAIN a.missing : a.missing[i].key \in Key
    <3>1. a.missing \in Seq(Missing)
      BY <1>3 DEF Ratchet
    <3>2. \A i \in DOMAIN a.missing : a.missing[i] \in Missing
      BY <3>1, LenProperties
    <3> QED BY <3>2 DEF Missing
  <2> HIDE DEF key
  <2>5. \A i \in DOMAIN e.missing : Past(e, e.missing[i].key) /\ e.missing[i].key # key
    BY <1>7, <2>1, <2>2, <2>4 DEF Spent
  <2>6. \A k \in used : Past(e, k) /\ \A i \in DOMAIN e.missing : e.missing[i].key # k
    BY <1>7, <2>1, <2>2 DEF Spent
  <2>7. \A i, j \in DOMAIN e.missing : e.missing[i].key = e.missing[j].key => i = j
    BY <1>7, <2>1 DEF Spent
  <2> QED BY <2>3, <2>5, <2>6, <2>7 DEF Spent
<1> QED BY <1>5, <1>6, <1>7, <1>8, <1>9

\* recv, the first message of a new chain.
TurnInput(dr, h) == <<Dh(dr.x25519, h.x25519), IF h.major THEN Decapsulate(h.cp, dr.kyber) ELSE Nothing>>

LEMMA TurnedIs ==
    ASSUME NEW u \in Users, NEW dr \in Ratchet, NEW h \in Header, NEW random \in Name, random[1] = u,
           h.major => Sealed(Other(u), h.cp), h.public[1] = Other(u), dr.kyber[1] = u
    PROVE  LET t == Turned(dr, h, random)  inputs == Append(dr.root.inputs, TurnInput(dr, h))
           IN  /\ t \in Ratchet /\ TurnInput(dr, h) \in Input /\ inputs \in Inputs
               /\ t.root = [step |-> dr.root.step + 1, inputs |-> inputs]
               /\ t.sender.step = Guarding /\ t.receiver = [step |-> 0, root |-> Derived(inputs)]
               /\ t.missing = dr.missing /\ t.kyber[1] = u
               /\ IF h.major THEN Sealed(u, t.cp) ELSE t.cp = dr.cp
<1> DEFINE ss == IF h.major THEN Decapsulate(h.cp, dr.kyber) ELSE Nothing
           inputs == Append(dr.root.inputs, TurnInput(dr, h))
           root == [step |-> dr.root.step + 1, inputs |-> inputs]
           sn == [step |-> Guarding, root |-> Zeroed]
           rc == [step |-> 0, root |-> Derived(inputs)]
           seed == Dh(random, h.x25519)
           new == [dr EXCEPT !.root = root, !.x25519 = random, !.prev_sub_count = dr.sender.step,
                             !.sender = sn, !.receiver = rc, !.receiver_hash = Derived(inputs),
                             !.seed = seed]
           cp == Encapsulate(h.public, random)
           t == Turned(dr, h, random)
<1>1. t = IF ~h.major THEN new ELSE [new EXCEPT !.kyber = random, !.cp = cp, !.ss = cp]
  BY DEF Turned, NextRk, TurnInput
<1>2. /\ dr.root.step \in Nat /\ dr.root.inputs \in Inputs /\ dr.x25519 \in Name /\ dr.kyber \in Name
      /\ dr.sender \in Chain
      /\ h.x25519 \in Name /\ h.major \in BOOLEAN /\ h.public \in Name /\ h.cp \in Cipher
  BY DEF Ratchet, Header
<1>3. ss \in Secret
  <2>1. CASE h.major
    <3>1. h.cp \in Name \X Name
      BY <1>2, <2>1 DEF Cipher, Sealed
    <3> QED BY <1>2, <2>1, <3>1 DEF Decapsulate, Secret, Cipher
  <2>2. CASE ~h.major
    BY <2>2 DEF Secret, Cipher
  <2> QED BY <2>1, <2>2
<1>4. seed \in SUBSET Name /\ Dh(dr.x25519, h.x25519) \in SUBSET Name
  BY <1>2 DEF Dh
<1>5. TurnInput(dr, h) \in Input
  BY <1>3, <1>4 DEF TurnInput, Input
<1>6. inputs \in Inputs
  BY <1>2, <1>5, InputFacts
<1>7. cp \in Cipher /\ cp # Nothing /\ cp[1] = h.public
  <2>1. cp = <<h.public, random>>
    BY DEF Encapsulate
  <2> QED BY <1>2, <2>1 DEF Cipher, Nothing
<1> HIDE DEF ss, inputs
<1>8. /\ root \in [step : Nat, inputs : Inputs] /\ Derived(inputs) \in ChainRoot /\ Zeroed \in ChainRoot
      /\ sn \in Chain /\ rc \in Chain /\ sn.step = Guarding /\ dr.sender.step \in Int
  BY <1>2, <1>6, InputFacts DEF Derived, Zeroed, ChainRoot, Chain, Guarding
<1> HIDE DEF root, sn, rc, seed, cp
<1>9. /\ new \in Ratchet /\ new.root = root /\ new.sender = sn /\ new.receiver = rc
      /\ new.missing = dr.missing /\ new.kyber = dr.kyber /\ new.cp = dr.cp
  BY <1>4, <1>8 DEF Ratchet
<1> HIDE DEF new, t
<1>10. CASE h.major
  <2>1. t = [new EXCEPT !.kyber = random, !.cp = cp, !.ss = cp]
    BY <1>1, <1>10
  <2>2. /\ t \in Ratchet /\ t.root = root /\ t.sender = sn /\ t.receiver = rc
        /\ t.missing = dr.missing /\ t.kyber = random /\ t.cp = cp
    BY <1>7, <1>9, <2>1 DEF Ratchet
  <2> QED BY <1>5, <1>6, <1>7, <1>8, <1>10, <2>2 DEF t, inputs, root, rc, Sealed
<1>11. CASE ~h.major
  BY <1>1, <1>5, <1>6, <1>8, <1>9, <1>11 DEF t, inputs, root, rc
<1> QED BY <1>10, <1>11

LEMMA TurnedSpent ==
    ASSUME NEW dr, NEW t, NEW used, Spent(dr, used), t.missing = dr.missing,
           Len(dr.receiver.root.inputs) \in Nat, Len(t.receiver.root.inputs) \in Nat,
           \A root \in ChainRoot : Len(root.inputs) \in Nat,
           Len(t.receiver.root.inputs) > Len(dr.receiver.root.inputs)
    PROVE  Spent(t, used)
<1>1. ASSUME NEW key, Past(dr, key)
      PROVE  Past(t, key)
  <2>1. key[1] \in ChainRoot /\ Len(key[1].inputs) \in Nat
        /\ Len(key[1].inputs) <= Len(dr.receiver.root.inputs)
    BY <1>1 DEF Past
  <2>2. Len(key[1].inputs) # Len(t.receiver.root.inputs) /\ Len(key[1].inputs) <= Len(t.receiver.root.inputs)
    <3>1. PICK a \in Nat, b \in Nat, c \in Nat : /\ a = Len(key[1].inputs) /\ b = Len(dr.receiver.root.inputs)
                                              /\ c = Len(t.receiver.root.inputs)
      BY <2>1
    <3>2. a <= b /\ c > b
      BY <2>1, <3>1
    <3>3. a # c /\ a <= c
      BY <3>2, SMT
    <3> QED BY <3>1, <3>3
  <2>3. key[1] # t.receiver.root /\ Len(key[1].inputs) <= Len(t.receiver.root.inputs)
    BY <2>2
  <2> QED BY <2>1, <2>3 DEF Past
<1> QED BY <1>1 DEF Spent

\* What recv makes of a sound ratchet and a genuine message of the other end that decrypts.
Stays(dr, e) == e.root = dr.root /\ e.sender = dr.sender /\ e.seed = dr.seed /\ e.ss = dr.ss
Turns(dr, e, m) ==
    /\ dr.sender.step # Guarding /\ e.sender.step = Guarding /\ e.root.inputs = InputsOf(m)
    /\ \E x \in Input : InputsOf(m) = Append(dr.root.inputs, x)

LEMMA GenuineFacts ==
    ASSUME NEW m, Genuine(m)
    PROVE  /\ m.from \in Users /\ InputsOf(m) \in Inputs /\ Len(InputsOf(m)) \in Nat
           /\ m.key \in Key /\ m.key[1] = ChainOf(InputsOf(m)) /\ m.key[2] = m.header.sub_step
           /\ m.header \in Header /\ m.header.sub_step \in Nat /\ m.header.step \in Nat
           /\ m.header.step = Len(InputsOf(m)) + 2 /\ TurnOf(m.from, Len(InputsOf(m)))
<1>1. m \in FriendMessage /\ m.header \in Header /\ m.key \in Key
  BY DEF Genuine, FriendMessage
<1>2. m.key[1] \in ChainRoot
  BY <1>1 DEF Key
<1>3. InputsOf(m) \in Inputs
  BY <1>2 DEF InputsOf, ChainRoot
<1>4. m.key[1] = ChainOf(InputsOf(m)) /\ m.key[2] = m.header.sub_step
  BY DEF Genuine
<1> QED BY <1>1, <1>3, <1>4, InputFacts DEF Genuine, FriendMessage, Header

LEMMA RecvSound ==
    ASSUME NEW u \in Users, NEW dr, Sound(u, dr), NEW m, Genuine(m), m.from = Other(u),
           NEW random \in Name, random[1] = u, Decrypted(dr, m, random).ok
    PROVE  LET r == Decrypted(dr, m, random)
           IN  /\ Sound(u, r.dr) /\ r.key = m.key
               /\ Stays(dr, r.dr) \/ Turns(dr, r.dr, m)
               /\ \A used \in SUBSET Key : Spent(dr, used) => Spent(r.dr, used \cup {m.key})
<1> DEFINE r == Recv(dr, m.header, random)
           h == m.header
<1>1. Decrypted(dr, m, random) = [r EXCEPT !.ok = r.ok /\ r.key = m.key]
  BY DEF Decrypted
<1>2. dr \in Ratchet /\ dr.receiver.step \in Nat /\ dr.root.step \in Nat /\ dr.receiver \in Chain
  BY DEF Sound, Ratchet
<1>3. h \in Header /\ h.sub_step \in Nat /\ h.step \in Nat /\ h.prev_sub_count \in Int
  BY GenuineFacts DEF Header
<1> HIDE DEF h
\* Both shapes of a result are records with these fields.
<1>4. \A e, k : [[ok |-> TRUE, key |-> k, dr |-> e] EXCEPT !.ok = TRUE /\ k = m.key].ok => k = m.key
  OBVIOUS
<1> DEFINE Result(x) == /\ Decrypted(dr, m, random).dr = x.dr /\ Decrypted(dr, m, random).key = x.key
                        /\ x.ok = TRUE /\ x.key = m.key
<1>5. CASE \/ h.step < dr.root.step
           \/ h.step = dr.root.step /\ h.sub_step < dr.receiver.step
  <2>1. r = FindMissing(dr, h)
    BY <1>2, <1>3, <1>5, SMT DEF Recv, h
  <2>2. \/ r = [ok |-> FALSE, dr |-> dr, key |-> Nothing]
        \/ \E k, e : r = [ok |-> TRUE, key |-> k, dr |-> e]
    BY <2>1 DEF FindMissing, RecvErr
  <2> HIDE DEF r
  <2>3. r.ok /\ Result(r)
    BY <1>1, <2>2
  <2>4. SameChain(dr, r.dr) /\ \A used : Spent(dr, used) => Spent(r.dr, used \cup {r.key})
    BY <1>2, <2>1, <2>3, FindIs, FindSpent
  <2>5. Stays(dr, r.dr) /\ Sound(u, r.dr)
    BY <1>2, <2>4, SameChainKeeps DEF Stays
  <2> QED BY <2>3, <2>4, <2>5
<1>6. CASE h.step = dr.root.step /\ h.sub_step >= dr.receiver.step
  <2>1. r = Advance(dr, h)
    BY <1>2, <1>3, <1>6, SMT DEF Recv, h
  <2>2. \E k, e : r = [ok |-> TRUE, key |-> k, dr |-> e]
    BY <2>1 DEF Advance
  <2> HIDE DEF r
  <2>3. r.ok /\ Result(r)
    BY <1>1, <2>2
  <2>4. SameChain(dr, r.dr) /\ \A used \in SUBSET Key : Spent(dr, used) => Spent(r.dr, used \cup {r.key})
    BY <1>2, <1>3, <1>6, <2>1, AdvanceIs
  <2>5. Stays(dr, r.dr) /\ Sound(u, r.dr)
    BY <1>2, <2>4, SameChainKeeps DEF Stays
  <2> QED BY <2>3, <2>4, <2>5
<1>7. CASE h.step > dr.root.step /\ h.prev_sub_count < dr.receiver.step
  <2>1. r = RecvErr(dr)
    BY <1>2, <1>3, <1>7, SMT DEF Recv, h
  <2> DEFINE v == r.ok /\ r.key = m.key
  <2>2. v = FALSE /\ r = [ok |-> FALSE, dr |-> dr, key |-> Nothing]
    BY <2>1 DEF RecvErr
  <2>3. Decrypted(dr, m, random) = [r EXCEPT !.ok = FALSE]
    <3>1. Decrypted(dr, m, random) = [r EXCEPT !.ok = v]
      BY <1>1
    <3> HIDE DEF v
    <3> QED BY <2>2, <3>1
  <2> HIDE DEF r
  <2> QED BY <2>2, <2>3
<1>8. CASE h.step > dr.root.step /\ ~(h.prev_sub_count < dr.receiver.step)
  <2> DEFINE a == AddMissing(dr, h.prev_sub_count)
             t == Turned(a, h, random)
             inputs == Append(dr.root.inputs, TurnInput(a, h))
  <2>1. r = Advance(t, h)
    BY <1>2, <1>3, <1>8, SMT DEF Recv, h
  <2>2. \E k, e : r = [ok |-> TRUE, key |-> k, dr |-> e]
    BY <2>1 DEF Advance
  <2>3. h.prev_sub_count >= dr.receiver.step
    BY <1>2, <1>3, <1>8, SMT
  <2>4. SameChain(dr, a)
    BY <1>2, <1>3, <2>3, AddIs
  <2>5. \A used \in SUBSET Key : Spent(dr, used) => Spent(a, used)
    BY <1>2, <1>3, <2>3, AddSpent
  <2>6. /\ a \in Ratchet /\ a.root = dr.root /\ a.sender = dr.sender /\ a.cp = dr.cp /\ a.kyber[1] = u
        /\ a.receiver.root = dr.receiver.root
    BY <1>2, <2>4, SameChainKeeps DEF Sound
  <2> HIDE DEF a
  <2>7. h.public[1] = Other(u) /\ (h.major => Sealed(Other(u), h.cp)) /\ h.major = IsMajor(h.step)
    BY DEF Genuine, h
  <2>8. /\ t \in Ratchet /\ TurnInput(a, h) \in Input /\ inputs \in Inputs
        /\ t.root = [step |-> dr.root.step + 1, inputs |-> inputs]
        /\ t.sender.step = Guarding /\ t.receiver = [step |-> 0, root |-> Derived(inputs)]
        /\ t.missing = a.missing /\ t.kyber[1] = u
        /\ IF h.major THEN Sealed(u, t.cp) ELSE t.cp = dr.cp
    <3> DEFINE new == Append(a.root.inputs, TurnInput(a, h))
    <3>1. /\ t \in Ratchet /\ TurnInput(a, h) \in Input /\ new \in Inputs
          /\ t.root = [step |-> a.root.step + 1, inputs |-> new]
          /\ t.sender.step = Guarding /\ t.receiver = [step |-> 0, root |-> Derived(new)]
          /\ t.missing = a.missing /\ t.kyber[1] = u
          /\ IF h.major THEN Sealed(u, t.cp) ELSE t.cp = a.cp
      BY <1>3, <2>6, <2>7, TurnedIs
    <3>2. new = inputs
      BY <2>6
    <3> HIDE DEF new, inputs, t
    <3> QED BY <2>6, <3>1, <3>2
  <2> HIDE DEF r, t
  <2>9. r.ok /\ Result(r)
    BY <1>1, <2>2
  <2>10. /\ Len(inputs) = Len(dr.root.inputs) + 1 /\ inputs # <<>> /\ Len(dr.root.inputs) \in Nat
         /\ Len(dr.receiver.root.inputs) \in Nat
    <3>1. dr.root.inputs \in Inputs /\ dr.receiver.root.inputs \in Inputs
      BY <1>2 DEF Ratchet, Chain, ChainRoot
    <3> QED BY <2>8, <3>1, InputFacts
  <2>11. h.sub_step >= t.receiver.step /\ t.receiver.step \in Nat /\ t.receiver.root = Derived(inputs)
    BY <1>3, <2>8, SMT
  <2>12. /\ SameChain(t, r.dr) /\ r.key = <<Derived(inputs), h.sub_step>>
         /\ \A used \in SUBSET Key : Spent(t, used) => Spent(r.dr, used \cup {r.key})
    BY <1>3, <2>1, <2>8, <2>11, AdvanceIs
  <2> HIDE DEF inputs
  <2>13. InputsOf(m) = inputs
    <3>1. Derived(inputs).inputs = inputs
      BY DEF Derived
    <3> QED BY <2>9, <2>12, <3>1 DEF InputsOf
  <2>14. TurnOf(u, Len(dr.root.inputs)) /\ h.step = dr.root.step + 1
    <3>1. TurnOf(Other(u), Len(dr.root.inputs) + 1) /\ h.step = Len(inputs) + 2
      BY <2>10, <2>13, GenuineFacts DEF h
    <3> QED BY <2>10, <3>1, TurnFacts, SMT DEF Sound
  <2>15. dr.sender.step # Guarding
    BY <2>10, <2>14, TurnFacts DEF Sound
  <2>16. Sound(u, t)
    <3>1. (t.root.step < KyberPeriod /\ u = "alice") \/ Sealed(u, t.cp)
      <4>1. CASE h.major \/ Sealed(u, dr.cp)
        BY <2>8, <4>1
      <4>2. CASE ~h.major /\ dr.root.step < KyberPeriod /\ u = "alice"
        <5>1. h.step # KyberPeriod
          <6>1. IsMajor(KyberPeriod)
            BY RatchetAssumption, SMT DEF IsMajor
          <6> QED BY <2>7, <4>2, <6>1
        <5>2. t.root.step = h.step
          BY <2>8, <2>14
        <5>3. h.step < KyberPeriod
          BY <1>2, <2>14, <4>2, <5>1, RatchetAssumption, SMT
        <5> QED BY <4>2, <5>2, <5>3
      <4> QED BY <4>1, <4>2 DEF Sound
    <3>2. TurnOf(Other(u), Len(t.root.inputs))
      BY <2>8, <2>13, GenuineFacts
    <3>3. t.root.step = Len(t.root.inputs) + 2
      BY <2>8, <2>10, SMT DEF Sound
    <3>4. t.receiver.step \in Nat /\ t.receiver.root.inputs = inputs /\ t.root.inputs = inputs
      BY <2>8 DEF Derived
    <3>5. Len(t.receiver.root.inputs) <= Len(t.root.inputs)
      BY <2>10, <3>4, SMT
    <3> QED BY <2>8, <3>1, <3>2, <3>3, <3>4, <3>5 DEF Sound
  <2>17. Sound(u, r.dr) /\ r.dr.root = t.root /\ r.dr.sender = t.sender
    BY <2>8, <2>12, <2>16, SameChainKeeps
  <2>18. Turns(dr, r.dr, m)
    BY <2>8, <2>13, <2>15, <2>17 DEF Turns, inputs
  <2>19. \A used \in SUBSET Key : Spent(dr, used) => Spent(r.dr, used \cup {m.key})
    <3> TAKE used \in SUBSET Key
    <3> HAVE Spent(dr, used)
    <3>1. Spent(a, used)
      BY <2>5
    <3>2. Len(t.receiver.root.inputs) > Len(a.receiver.root.inputs)
      <4>1. Len(dr.receiver.root.inputs) <= Len(dr.root.inputs)
        BY DEF Sound
      <4>2. t.receiver.root.inputs = inputs
        BY <2>8 DEF Derived
      <4> QED BY <2>6, <2>10, <4>1, <4>2, SMT
    <3>3. \A root \in ChainRoot : Len(root.inputs) \in Nat
      BY InputFacts DEF ChainRoot
    <3>4. Len(t.receiver.root.inputs) \in Nat /\ Len(a.receiver.root.inputs) \in Nat
      BY <2>6, <2>8, <3>3 DEF Ratchet, Chain
    <3>5. Spent(t, used)
      BY <2>8, <3>1, <3>2, <3>3, <3>4, TurnedSpent
    <3> QED BY <2>9, <2>12, <3>5
  <2> QED BY <2>9, <2>17, <2>18, <2>19
<1>9. \/ h.step < dr.root.step
      \/ h.step = dr.root.step /\ h.sub_step < dr.receiver.step
      \/ h.step = dr.root.step /\ h.sub_step >= dr.receiver.step
      \/ h.step > dr.root.step
  BY <1>2, <1>3, SMT
<1> QED BY <1>5, <1>6, <1>7, <1>8, <1>9

-----------------------------------------------------------------------------
Item == FriendMessage \cup FriendRequest

\* Mail for u is a message of the other one that was sent, or the request to bob.
Addressed(u, m, st) == \/ m \in st /\ m.from = Other(u)
                       \/ m \in FriendRequest /\ u = "bob" /\ m.init[1] = "alice"

Waiting == [new : BOOLEAN, dr : Ratchet]
RatchetsSound(fr, pd) ==
    /\ fr = [u \in Users |-> fr[u]] /\ pd \in [Users -> Seq(Waiting)]
    /\ \A u \in Users : /\ fr[u] # <<>> => Sound(u, fr[u][1])
                        /\ \A i \in DOMAIN pd[u] : Sound(u, pd[u][i].dr)
MailSound(ml, st) ==
    /\ ml \in [Users -> Seq(Item)]
    /\ \A u \in Users : \A i \in DOMAIN ml[u] : Addressed(u, ml[u][i], st)
SentSound(st) == IsFiniteSet(st) /\ \A m \in st : Genuine(m)

\* A user with more than one send under way has sent in parallel.
Single == "parallel" \in suffered \/ \A u \in Users : Len(pending[u]) <= 1

\* What holds whatever happens.
SoundState == /\ RatchetsSound(friends, pending) /\ MailSound(mail, sent) /\ SentSound(sent)
              /\ drawn \in [Users -> Nat] /\ opened \in [Users -> Seq(FriendMessage)]
              /\ Single

LEMMA SoundStateIs ==
    ASSUME RatchetsSound(friends', pending'), MailSound(mail', sent'), SentSound(sent'),
           drawn' \in [Users -> Nat], opened' \in [Users -> Seq(FriendMessage)], Single'
    PROVE  SoundState'
BY DEF SoundState, RatchetsSound, MailSound, SentSound

\* What is left of the sends that await, or added to them.
LEMMA WaitingFacts ==
    ASSUME NEW S, NEW s \in Seq(S)
    PROVE  /\ Len(s) \in Nat /\ DOMAIN s = 1 .. Len(s) /\ (s = <<>> <=> Len(s) = 0)
           /\ \A x \in S : /\ Append(s, x) \in Seq(S) /\ Len(Append(s, x)) = Len(s) + 1
                          /\ \A j \in DOMAIN Append(s, x) :
                                Append(s, x)[j] = x \/ \E k \in DOMAIN s : Append(s, x)[j] = s[k]
           /\ \A i \in DOMAIN s : /\ RemoveAt(s, i) \in Seq(S) /\ Len(RemoveAt(s, i)) = Len(s) - 1
                                 /\ \A j \in DOMAIN RemoveAt(s, i) :
                                       \E k \in DOMAIN s : RemoveAt(s, i)[j] = s[k]
<1>1. Len(s) \in Nat /\ DOMAIN s = 1 .. Len(s) /\ (s = <<>> <=> Len(s) = 0)
  BY LenProperties, EmptySeq
<1>2. ASSUME NEW x \in S
      PROVE  /\ Append(s, x) \in Seq(S) /\ Len(Append(s, x)) = Len(s) + 1
             /\ \A j \in DOMAIN Append(s, x) :
                   Append(s, x)[j] = x \/ \E k \in DOMAIN s : Append(s, x)[j] = s[k]
  <2> DEFINE t == Append(s, x)
  <2>1. /\ t \in Seq(S) /\ Len(t) = Len(s) + 1 /\ \A j \in 1 .. Len(s) : t[j] = s[j]
        /\ t[Len(s) + 1] = x
    BY AppendProperties
  <2>2. DOMAIN t = 1 .. Len(t)
    BY <2>1, LenProperties
  <2> HIDE DEF t
  <2>3. \A j \in DOMAIN t : j \in DOMAIN s \/ j = Len(s) + 1
    BY <1>1, <2>1, <2>2, SMT
  <2>4. \A j \in DOMAIN t : t[j] = x \/ \E k \in DOMAIN s : t[j] = s[k]
    BY <1>1, <2>1, <2>3
  <2> QED BY <2>1, <2>4 DEF t
<1>3. ASSUME NEW i \in DOMAIN s
      PROVE  /\ RemoveAt(s, i) \in Seq(S) /\ Len(RemoveAt(s, i)) = Len(s) - 1
             /\ \A j \in DOMAIN RemoveAt(s, i) : \E k \in DOMAIN s : RemoveAt(s, i)[j] = s[k]
  <2> DEFINE t == RemoveAt(s, i)
  <2>1. /\ t \in Seq(S) /\ Len(t) = Len(s) - 1
        /\ \A j \in 1 .. Len(s) - 1 : t[j] = s[IF j < i THEN j ELSE j + 1]
    BY RemoveAtFacts
  <2>2. DOMAIN t = 1 .. Len(t)
    BY <2>1, LenProperties
  <2> HIDE DEF t
  <2>3. \A j \in DOMAIN t : j \in 1 .. Len(s) - 1 /\ (IF j < i THEN j ELSE j + 1) \in DOMAIN s
    BY <1>1, <2>1, <2>2, SMT
  <2>4. \A j \in DOMAIN t : \E k \in DOMAIN s : t[j] = s[k]
    BY <2>1, <2>3
  <2> QED BY <2>1, <2>4 DEF t
<1> QED BY <1>1, <1>2, <1>3

\* What is true of every element of s is true of those that are left, and of those that
\* are there when x has come.
LEMMA RestOfWaiting ==
    ASSUME NEW S, NEW s \in Seq(S), NEW i \in DOMAIN s
    PROVE  /\ RemoveAt(s, i) \in Seq(S) /\ Len(RemoveAt(s, i)) = Len(s) - 1
           /\ \A j \in DOMAIN RemoveAt(s, i) : \E k \in DOMAIN s : RemoveAt(s, i)[j] = s[k]
BY WaitingFacts

LEMMA MoreWaiting ==
    ASSUME NEW S, NEW s \in Seq(S), NEW x \in S
    PROVE  /\ Append(s, x) \in Seq(S)
           /\ \A j \in DOMAIN Append(s, x) :
                 Append(s, x)[j] = x \/ \E k \in DOMAIN s : Append(s, x)[j] = s[k]
BY WaitingFacts

\* The sends of u that await.
LEMMA PendingFacts ==
    ASSUME SoundState, NEW u \in Users
    PROVE  /\ pending \in [Users -> Seq(Waiting)] /\ pending[u] \in Seq(Waiting)
           /\ Len(pending[u]) \in Nat /\ DOMAIN pending[u] = 1 .. Len(pending[u])
           /\ \A i \in DOMAIN pending[u] : pending[u][i] \in Waiting /\ Sound(u, pending[u][i].dr)
           /\ "parallel" \notin suffered =>
                 \A i \in DOMAIN pending[u] : /\ i = 1 /\ pending[u] # <<>>
                                             /\ RemoveAt(pending[u], i) = <<>>
<1>1. /\ pending \in [Users -> Seq(Waiting)] /\ pending[u] \in Seq(Waiting)
      /\ \A i \in DOMAIN pending[u] : Sound(u, pending[u][i].dr)
  BY DEF SoundState, RatchetsSound
<1> DEFINE s == pending[u]
<1>2. /\ Len(s) \in Nat /\ DOMAIN s = 1 .. Len(s)
      /\ \A i \in DOMAIN s : s[i] \in Waiting
      /\ \A i \in DOMAIN s : RemoveAt(s, i) \in Seq(Waiting) /\ Len(RemoveAt(s, i)) = Len(s) - 1
  BY <1>1, WaitingFacts, LenProperties
<1>3. ASSUME "parallel" \notin suffered, NEW i \in DOMAIN s
      PROVE  i = 1 /\ s # <<>> /\ RemoveAt(s, i) = <<>>
  <2>1. Len(s) <= 1
    BY <1>3 DEF SoundState, Single
  <2> DEFINE n == Len(s)  t == RemoveAt(s, i)
  <2>2. n \in Nat /\ n <= 1 /\ i \in 1 .. n /\ Len(t) = n - 1 /\ t \in Seq(Waiting)
    BY <1>2, <1>3, <2>1
  <2> HIDE DEF n, t
  <2>3. n = 1 /\ i = 1 /\ Len(t) = 0
    BY <2>2, SMT
  <2>4. t = <<>>
    BY <2>2, <2>3, WaitingFacts
  <2>5. s # <<>>
    <3>1. Len(<<>>) = 0
      OBVIOUS
    <3> QED BY <2>3, <3>1 DEF n
  <2> QED BY <2>3, <2>4, <2>5 DEF t
<1> QED BY <1>1, <1>2, <1>3

LEMMA RatchetSet ==
    ASSUME NEW fr, NEW pd, RatchetsSound(fr, pd), NEW u \in Users
    PROVE  /\ \A d : Sound(u, d) => RatchetsSound([fr EXCEPT ![u] = <<d>>], pd)
           /\ \A p \in Waiting : Sound(u, p.dr) => /\ RatchetsSound(fr, [pd EXCEPT ![u] = <<p>>])
                                                 /\ RatchetsSound(fr, [pd EXCEPT ![u] = Append(@, p)])
           /\ \A i \in DOMAIN pd[u] : RatchetsSound(fr, [pd EXCEPT ![u] = RemoveAt(@, i)])
<1>1. \A x : <<x>> # <<>> /\ <<x>>[1] = x
  OBVIOUS
<1>2. ASSUME NEW d, Sound(u, d)
      PROVE  RatchetsSound([fr EXCEPT ![u] = <<d>>], pd)
  <2> DEFINE new == [fr EXCEPT ![u] = <<d>>]
  <2>1. new = [v \in Users |-> new[v]] /\ \A v \in Users : new[v] = IF v = u THEN <<d>> ELSE fr[v]
    BY DEF RatchetsSound
  <2> HIDE DEF new
  <2>2. RatchetsSound(new, pd)
    BY <1>1, <1>2, <2>1 DEF RatchetsSound
  <2> QED BY <2>2 DEF new
<1>3. ASSUME NEW q \in Seq(Waiting), \A i \in DOMAIN q : Sound(u, q[i].dr)
      PROVE  RatchetsSound(fr, [pd EXCEPT ![u] = q])
  <2> DEFINE new == [pd EXCEPT ![u] = q]
  <2>1. /\ new \in [Users -> Seq(Waiting)]
        /\ \A v \in Users : new[v] = IF v = u THEN q ELSE pd[v]
    BY <1>3 DEF RatchetsSound
  <2> HIDE DEF new
  <2>2. RatchetsSound(fr, new)
    BY <1>3, <2>1 DEF RatchetsSound
  <2> QED BY <2>2 DEF new
<1>4. pd[u] \in Seq(Waiting) /\ \A i \in DOMAIN pd[u] : Sound(u, pd[u][i].dr)
  BY DEF RatchetsSound
<1>5. ASSUME NEW x \in Waiting, Sound(u, x.dr)
      PROVE  /\ RatchetsSound(fr, [pd EXCEPT ![u] = <<x>>])
             /\ RatchetsSound(fr, [pd EXCEPT ![u] = Append(@, x)])
  <2>1. <<x>> \in Seq(Waiting) /\ \A i \in DOMAIN <<x>> : <<x>>[i] = x
    OBVIOUS
  <2> DEFINE q == Append(pd[u], x)
  <2>2. q \in Seq(Waiting) /\ \A j \in DOMAIN q : q[j] = x \/ \E k \in DOMAIN pd[u] : q[j] = pd[u][k]
    BY <1>4, <1>5, MoreWaiting
  <2> HIDE DEF q
  <2>3. \A i \in DOMAIN q : Sound(u, q[i].dr)
    BY <1>4, <1>5, <2>2
  <2>4. RatchetsSound(fr, [pd EXCEPT ![u] = q])
    BY <1>3, <2>2, <2>3
  <2>5. RatchetsSound(fr, [pd EXCEPT ![u] = <<x>>])
    BY <1>3, <1>5, <2>1
  <2> QED BY <2>4, <2>5 DEF q
<1>6. ASSUME NEW i \in DOMAIN pd[u]
      PROVE  RatchetsSound(fr, [pd EXCEPT ![u] = RemoveAt(@, i)])
  <2> DEFINE q == RemoveAt(pd[u], i)
  <2>1. q \in Seq(Waiting) /\ \A j \in DOMAIN q : \E k \in DOMAIN pd[u] : q[j] = pd[u][k]
    BY <1>4, RestOfWaiting
  <2> HIDE DEF q
  <2>2. \A j \in DOMAIN q : Sound(u, q[j].dr)
    BY <1>4, <2>1
  <2>3. RatchetsSound(fr, [pd EXCEPT ![u] = q])
    BY <1>3, <2>1, <2>2
  <2> QED BY <2>3 DEF q
<1> QED BY <1>2, <1>5, <1>6

LEMMA MailSet ==
    ASSUME NEW ml, NEW st, MailSound(ml, st), NEW u \in Users, NEW s \in Seq(Item),
           \A i \in DOMAIN s : Addressed(u, s[i], st)
    PROVE  MailSound([ml EXCEPT ![u] = s], st)
BY DEF MailSound

LEMMA MailGrows ==
    ASSUME NEW ml, NEW st, MailSound(ml, st), NEW u \in Users, NEW m \in Item, Addressed(u, m, st)
    PROVE  MailSound([ml EXCEPT ![u] = Append(@, m)], st)
<1> DEFINE s == ml[u]  t == Append(s, m)
<1>1. s \in Seq(Item) /\ \A i \in DOMAIN s : Addressed(u, s[i], st)
  BY DEF MailSound
<1> HIDE DEF s
<1>2. /\ t \in Seq(Item) /\ Len(t) = Len(s) + 1 /\ \A i \in 1 .. Len(s) : t[i] = s[i]
      /\ t[Len(s) + 1] = m
  BY <1>1, AppendProperties
<1>3. DOMAIN t = 1 .. Len(t) /\ DOMAIN s = 1 .. Len(s) /\ Len(s) \in Nat
  BY <1>1, <1>2, LenProperties
<1> HIDE DEF t
<1>4. \A i \in DOMAIN t : i \in DOMAIN s \/ i = Len(s) + 1
  BY <1>2, <1>3, SMT
<1>5. \A i \in DOMAIN t : Addressed(u, t[i], st)
  BY <1>1, <1>2, <1>3, <1>4
<1> QED BY <1>2, <1>5, MailSet DEF t, s

LEMMA MailShrinks ==
    ASSUME NEW ml, NEW st, MailSound(ml, st), NEW u \in Users
    PROVE  /\ \A i \in DOMAIN ml[u] : /\ MailSound([ml EXCEPT ![u] = RemoveAt(@, i)], st)
                                      /\ ml[u][i] \in Item /\ Addressed(u, ml[u][i], st)
           /\ ml[u] # <<>> => /\ MailSound([ml EXCEPT ![u] = Tail(@)], st)
                              /\ Head(ml[u]) \in Item /\ Addressed(u, Head(ml[u]), st)
<1> DEFINE s == ml[u]
<1>1. s \in Seq(Item) /\ \A i \in DOMAIN s : Addressed(u, s[i], st)
  BY DEF MailSound
<1> HIDE DEF s
<1>2. DOMAIN s = 1 .. Len(s) /\ Len(s) \in Nat /\ \A i \in DOMAIN s : s[i] \in Item
  BY <1>1, LenProperties
<1>3. ASSUME NEW i \in DOMAIN s
      PROVE  MailSound([ml EXCEPT ![u] = RemoveAt(s, i)], st)
  <2> DEFINE t == RemoveAt(s, i)
  <2>1. /\ t \in Seq(Item) /\ Len(t) = Len(s) - 1
        /\ \A j \in 1 .. Len(s) - 1 : t[j] = s[IF j < i THEN j ELSE j + 1]
    BY <1>1, <1>3, RemoveAtFacts
  <2>2. DOMAIN t = 1 .. Len(s) - 1
    BY <2>1, LenProperties
  <2> HIDE DEF t
  <2>3. \A j \in DOMAIN t : (IF j < i THEN j ELSE j + 1) \in DOMAIN s
    BY <1>2, <1>3, <2>2, SMT
  <2>4. \A j \in DOMAIN t : Addressed(u, t[j], st)
    BY <1>1, <2>1, <2>2, <2>3
  <2> QED BY <2>1, <2>4, MailSet DEF t
<1>4. ASSUME s # <<>>
      PROVE  /\ MailSound([ml EXCEPT ![u] = Tail(s)], st) /\ Head(s) \in Item /\ Addressed(u, Head(s), st)
  <2> DEFINE t == Tail(s)
  <2>1. /\ t \in Seq(Item) /\ Len(t) = Len(s) - 1 /\ \A j \in 1 .. Len(t) : t[j] = s[j + 1]
    BY <1>1, <1>4, HeadTailProperties
  <2>2. DOMAIN t = 1 .. Len(t) /\ 1 \in DOMAIN s /\ Head(s) = s[1]
    BY <1>1, <1>2, <1>4, <2>1, LenProperties, SMT
  <2> HIDE DEF t
  <2>3. \A j \in DOMAIN t : j + 1 \in DOMAIN s
    BY <1>2, <2>1, <2>2, SMT
  <2>4. \A j \in DOMAIN t : Addressed(u, t[j], st)
    BY <1>1, <2>1, <2>2, <2>3
  <2> QED BY <1>1, <1>2, <2>1, <2>2, <2>4, MailSet DEF t
<1> QED BY <1>1, <1>2, <1>3, <1>4 DEF s

LEMMA RandomIs ==
    ASSUME drawn \in [Users -> Nat], NEW u \in Users
    PROVE  Random(u) \in Name /\ Random(u)[1] = u
BY DEF Random, Name

\* The two ends of a session as they begin.
LEMMA BeginSound ==
    ASSUME NEW init \in Name, init[1] = "alice"
    PROVE  /\ Sound("alice", Sender(init))
           /\ \A random \in Name : random[1] = "bob" => Sound("bob", Recipient(init, random))
<1>1. /\ InitChain \in ChainRoot /\ Zeroed \in ChainRoot /\ Handshake \in ChainRoot /\ <<>> \in Seq(Missing)
      /\ Len(<<>>) = 0 /\ <<>> \in Inputs /\ Nothing \in Cipher
  BY InputFacts, EmptySeq DEF InitChain, Zeroed, Handshake, ChainRoot, Cipher
<1>2. TurnOf("alice", 0) /\ Other("alice") = "bob" /\ Other("bob") = "alice"
  BY SMT DEF TurnOf, Other
<1>3. Sound("alice", Sender(init))
  <2> DEFINE d == Sender(init)
             root == [step |-> 2, inputs |-> <<>>]
             sn == [step |-> 1, root |-> InitChain]
             rc == [step |-> 0, root |-> Zeroed]
  <2>1. root \in [step : Nat, inputs : Inputs] /\ sn \in Chain /\ rc \in Chain
    BY <1>1 DEF Chain
  <2>2. d = [root |-> root, sender |-> sn, sender_hash |-> InitChain, receiver |-> rc,
             receiver_hash |-> Handshake, prev_sub_count |-> 0, kyber |-> init, x25519 |-> init,
             cp |-> Nothing, ss |-> Nothing, seed |-> {}, missing |-> <<>>]
    BY DEF Sender
  <2>3. root.step = 2 /\ root.inputs = <<>> /\ sn.step = 1 /\ sn.root = InitChain /\ rc.step = 0
        /\ rc.root.inputs = <<>>
    BY DEF Zeroed
  <2> HIDE DEF root, sn, rc
  <2>4. d \in Ratchet
    BY <1>1, <2>1, <2>2 DEF Ratchet
  <2>5. d.root = root /\ d.sender = sn /\ d.receiver = rc /\ d.kyber = init
    BY <2>2
  <2> HIDE DEF d
  <2>6. d.root.step < KyberPeriod
    BY <2>3, <2>5, RatchetAssumption, SMT
  <2>7. d.sender.step # Guarding /\ d.sender.step \in Nat
    BY <2>3, <2>5, SMT DEF Guarding
  <2>8. Sound("alice", d)
    BY <1>1, <1>2, <2>3, <2>4, <2>5, <2>6, <2>7, SMT DEF Sound, ChainOf
  <2> QED BY <2>8 DEF d
<1>4. ASSUME NEW random \in Name, random[1] = "bob"
      PROVE  Sound("bob", Recipient(init, random))
  <2> DEFINE d == Recipient(init, random)
             root == [step |-> 2, inputs |-> <<>>]
             sn == [step |-> Guarding, root |-> Zeroed]
             rc == [step |-> 1, root |-> InitChain]
             cp == <<init, random>>
             seed == Dh(random, init)
  <2>1. /\ root \in [step : Nat, inputs : Inputs] /\ sn \in Chain /\ rc \in Chain /\ cp \in Cipher
        /\ seed \in SUBSET Name /\ cp # Nothing /\ cp[1] = init
    BY <1>1 DEF Chain, Guarding, Dh, Cipher, Nothing
  <2>2. d = [root |-> root, sender |-> sn, sender_hash |-> Handshake, receiver |-> rc,
             receiver_hash |-> InitChain, prev_sub_count |-> 0, kyber |-> random, x25519 |-> random,
             cp |-> cp, ss |-> cp, seed |-> seed, missing |-> <<>>]
    BY DEF Recipient, Encapsulate
  <2>3. root.step = 2 /\ root.inputs = <<>> /\ sn.step = Guarding /\ rc.step = 1
        /\ rc.root.inputs = <<>>
    BY DEF InitChain
  <2> HIDE DEF root, sn, rc, cp, seed
  <2>4. d \in Ratchet
    BY <1>1, <2>1, <2>2 DEF Ratchet
  <2>5. d.root = root /\ d.sender = sn /\ d.receiver = rc /\ d.kyber = random /\ d.cp = cp
    BY <2>2
  <2> HIDE DEF d
  <2>6. Sealed("bob", d.cp)
    BY <1>2, <2>1, <2>5 DEF Sealed
  <2>7. Sound("bob", d)
    BY <1>1, <1>2, <1>4, <2>3, <2>4, <2>5, <2>6, SMT DEF Sound
  <2> QED BY <2>7 DEF d
<1> QED BY <1>3, <1>4

-----------------------------------------------------------------------------
\* The steps of the session, by what they do to a ratchet.
Sends(u, m, e) ==
    /\ friends[u] # <<>>
    /\ \/ pending[u] = <<>> /\ suffered' = suffered
       \/ pending[u] # <<>> /\ "parallel" \in suffered' /\ suffered \subseteq suffered'
    /\ Genuine(m) /\ m.from = u /\ InputsOf(m) = e.root.inputs /\ m.key[2] + 1 = e.sender.step
    /\ e = Send(friends[u][1]).dr /\ m.header = Send(friends[u][1]).header
    /\ m.session = friends[u][1].sender_hash
    /\ friends[u][1].sender.step # Guarding => m.key[2] = friends[u][1].sender.step
    /\ Sound(u, e)
    /\ mail' = [mail EXCEPT ![Other(u)] = Append(@, m)]
    /\ sent' = sent \cup {m}
    /\ pending' = [pending EXCEPT ![u] = Append(@, [new |-> FALSE, dr |-> e])]
    /\ UNCHANGED <<friends, friend_index, drawn, opened>>

Accepts(u, m) ==
    /\ m \in FriendRequest /\ u = "bob" /\ m.init[1] = "alice"
    /\ Sound(u, Recipient(m.init, Random(u)))
    /\ friends' = [friends EXCEPT ![u] = <<Recipient(m.init, Random(u))>>]
    /\ drawn' = [drawn EXCEPT ![u] = @ + 1]
    /\ UNCHANGED opened

Reads(u, m, e) ==
    /\ m \in sent /\ m \in FriendMessage /\ m.from = Other(u) /\ friends[u] # <<>>
    /\ Sound(u, e) /\ (Stays(friends[u][1], e) \/ Turns(friends[u][1], e, m))
    /\ \A used \in SUBSET Key : Spent(friends[u][1], used) => Spent(e, used \cup {m.key})
    /\ friends' = [friends EXCEPT ![u] = <<e>>]
    /\ opened' = [opened EXCEPT ![u] = Append(@, m)]
    /\ drawn' = drawn \/ drawn' = [drawn EXCEPT ![u] = @ + 1]

LEMMA SendIs ==
    ASSUME SoundState, NEW u \in Users, SendFriendMessage(u)
    PROVE  \E m, e : Sends(u, m, e)
<1> DEFINE dr == friends[u][1]
           out == Send(dr)
           no == Cardinality({m \in sent : m.from = u}) + 1
           m == [kind |-> "message", from |-> u, no |-> no, header |-> out.header,
                 session |-> SessionOf(dr), key |-> out.key]
<1>1. /\ friends[u] # <<>>
      /\ \/ pending[u] = <<>> /\ suffered' = suffered
         \/ pending[u] # <<>> /\ "parallel" \in suffered' /\ suffered \subseteq suffered'
      /\ mail' = [mail EXCEPT ![Other(u)] = Append(@, m)] /\ sent' = sent \cup {m}
      /\ pending' = [pending EXCEPT ![u] = Append(@, [new |-> FALSE, dr |-> out.dr])]
      /\ UNCHANGED <<friends, friend_index, drawn, opened>>
  BY DEF SendFriendMessage, Fault
<1>2. Sound(u, dr) /\ IsFiniteSet(sent)
  BY <1>1 DEF SoundState, RatchetsSound, SentSound
<1>3. no \in Nat
  <2> DEFINE S == {n \in sent : n.from = u}
  <2>1. S \in SUBSET sent
    OBVIOUS
  <2>2. IsFiniteSet(S)
    BY <1>2, <2>1, FS_Subset
  <2>3. Cardinality(S) \in Nat
    BY <2>2, FS_CardinalityType
  <2> QED BY <2>3
<1>4. dr.sender_hash \in ChainRoot
  BY <1>2 DEF Sound, Ratchet
<1> HIDE DEF no, dr
<1>5. /\ Sound(u, out.dr) /\ out.header \in Header /\ out.key \in Key
      /\ out.key = <<ChainOf(out.dr.root.inputs), out.header.sub_step>>
      /\ out.header.sub_step = IF dr.sender.step = Guarding THEN 0 ELSE dr.sender.step
      /\ out.dr.sender.step = out.header.sub_step + 1
      /\ out.header.step = Len(out.dr.root.inputs) + 2
      /\ TurnOf(u, Len(out.dr.root.inputs))
      /\ out.header.public[1] = u
      /\ out.header.major = IsMajor(out.header.step)
      /\ out.header.major => Sealed(u, out.header.cp)
  BY <1>2, SendSound
<1> HIDE DEF out
<1>6. /\ m.from = u /\ m.key = out.key /\ m.header = out.header /\ m \in FriendMessage
      /\ m.session = dr.sender_hash
  BY <1>3, <1>4, <1>5 DEF FriendMessage, SessionOf
<1> HIDE DEF m
<1>7. ChainOf(out.dr.root.inputs).inputs = out.dr.root.inputs
  BY DEF ChainOf, InitChain, Derived
<1>8. InputsOf(m) = out.dr.root.inputs /\ m.key[2] = out.header.sub_step
  BY <1>5, <1>6, <1>7 DEF InputsOf
<1>9. Genuine(m)
  BY <1>5, <1>6, <1>8 DEF Genuine
<1>10. Sends(u, m, out.dr)
  BY <1>1, <1>5, <1>6, <1>8, <1>9 DEF Sends, out, dr
<1> QED BY <1>10

\* The copy of a send is put back, or dropped.
Finishes(u, i, q) ==
    /\ i \in DOMAIN pending[u] /\ q = pending[u][i] /\ pending[u] # <<>> /\ Sound(u, q.dr)
    /\ friends' = [friends EXCEPT ![u] = <<q.dr>>]
    /\ friend_index' = [friend_index EXCEPT ![u] = IF q.new THEN @ \cup {q.dr.receiver_hash} ELSE @]
    /\ pending' = [pending EXCEPT ![u] = RemoveAt(@, i)]
    /\ UNCHANGED <<mail, drawn, sent, opened, suffered>>
Fails(u, i) ==
    /\ i \in DOMAIN pending[u] /\ pending[u] # <<>> /\ pending' = [pending EXCEPT ![u] = RemoveAt(@, i)]
    /\ "unacked" \in suffered' /\ suffered \subseteq suffered'
    /\ UNCHANGED <<friends, friend_index, mail, drawn, sent, opened>>

LEMMA FinishIs ==
    ASSUME SoundState, NEW u \in Users, NEW i
    PROVE  /\ FinishSend(u, i) => Finishes(u, i, pending[u][i])
           /\ FailSend(u, i) => Fails(u, i)
<1>1. ASSUME i \in DOMAIN pending[u] PROVE pending[u] # <<>> /\ Sound(u, pending[u][i].dr)
  <2>1. DOMAIN <<>> = {}
    OBVIOUS
  <2> QED BY <1>1, <2>1, PendingFacts
<1>2. FinishSend(u, i) => Finishes(u, i, pending[u][i])
  BY <1>1 DEF FinishSend, Finishes
<1>3. FailSend(u, i) => Fails(u, i)
  BY <1>1 DEF FailSend, Fails, Fault
<1> QED BY <1>2, <1>3

\* As long as no send is started while another awaits, there is one at a time.
LEMMA SendAlone ==
    ASSUME SoundState, NEW u \in Users, NEW m, NEW e, Sends(u, m, e), "parallel" \notin suffered'
    PROVE  /\ pending[u] = <<>> /\ suffered' = suffered
           /\ pending' = [pending EXCEPT ![u] = <<[new |-> FALSE, dr |-> e]>>]
<1>1. \A x : Append(<<>>, x) = <<x>>
  OBVIOUS
<1> QED BY <1>1 DEF Sends

LEMMA FinishAlone ==
    ASSUME SoundState, NEW u \in Users, NEW i, "parallel" \notin suffered, i \in DOMAIN pending[u]
    PROVE  /\ i = 1
           /\ [pending EXCEPT ![u] = RemoveAt(@, i)] = [pending EXCEPT ![u] = <<>>]
BY PendingFacts

LEMMA SuffersOn == [Next]_vars => suffered \subseteq suffered'
BY DEF Next, vars, SendFriendRequest, SendFriendMessage, FinishSend, FailSend, Deliver, Handle, Lose,
       Duplicate, Fault

LEMMA HandleIs ==
    ASSUME SoundState, NEW u \in Users, NEW i \in DOMAIN mail[u], Handle(u, i)
    PROVE  /\ mail' = [mail EXCEPT ![u] = RemoveAt(@, i)] /\ UNCHANGED <<pending, sent>>
           /\ suffered \subseteq suffered'
           /\ pending[u] = <<>> \/ "overlap" \in suffered'
           /\ \/ Accepts(u, mail[u][i])
              \/ \E e : Reads(u, mail[u][i], e)
              \/ UNCHANGED <<friends, drawn, opened>>
<1> DEFINE m == mail[u][i]
           dr == friends[u][1]
           r == Decrypted(dr, m, Random(u))
<1>1. /\ mail' = [mail EXCEPT ![u] = RemoveAt(@, i)] /\ UNCHANGED <<pending, sent>>
      /\ suffered \subseteq suffered'
      /\ pending[u] = <<>> \/ "overlap" \in suffered'
  BY DEF Handle, Fault
<1>2. m \in Item /\ Addressed(u, m, sent)
  BY MailShrinks DEF SoundState
<1>3. Random(u) \in Name /\ Random(u)[1] = u
  BY RandomIs DEF SoundState
<1>4. \/ m.kind = "request" /\ HandleRequest(u, m)
      \/ m.kind = "message" /\ HandleMessage(u, m)
  BY DEF Handle
<1>5. CASE m.kind = "request" /\ HandleRequest(u, m)
  <2>1. m \notin FriendMessage
    BY <1>5 DEF FriendMessage
  <2>2. \A n \in sent : n \in FriendMessage
    BY DEF SoundState, SentSound, Genuine
  <2>3. m \in FriendRequest /\ u = "bob" /\ m.init[1] = "alice"
    BY <1>2, <2>1, <2>2 DEF Addressed
  <2>4. m.init \in Name
    BY <2>3 DEF FriendRequest
  <2>5. Sound(u, Recipient(m.init, Random(u)))
    BY <1>3, <2>3, <2>4, BeginSound
  <2>6. Accepts(u, m)
    BY <1>5, <2>3, <2>5 DEF Accepts, HandleRequest
  <2> QED BY <1>1, <2>6
<1>6. CASE m.kind = "message" /\ HandleMessage(u, m)
  <2>1. m \notin FriendRequest
    BY <1>6 DEF FriendRequest
  <2>2. m \in sent /\ m.from = Other(u)
    BY <1>2, <2>1 DEF Addressed
  <2>3. Genuine(m) /\ m \in FriendMessage
    BY <2>2 DEF SoundState, SentSound, Genuine
  <2>4. CASE friends[u] # <<>> /\ r.ok /\ m.session \in friend_index[u]
    <3>1. /\ friends' = [friends EXCEPT ![u] = <<r.dr>>]
          /\ drawn' = [drawn EXCEPT ![u] = IF r.dr.root.step = friends[u][1].root.step THEN @ ELSE @ + 1]
          /\ opened' = [opened EXCEPT ![u] = Append(@, m)]
      BY <1>6, <2>4 DEF HandleMessage
    <3>2. drawn' = drawn \/ drawn' = [drawn EXCEPT ![u] = @ + 1]
      <4>1. drawn \in [Users -> Nat]
        BY DEF SoundState
      <4> HIDE DEF r
      <4> QED BY <3>1, <4>1
    <3>3. Sound(u, dr)
      BY <2>4 DEF SoundState, RatchetsSound
    <3>4. /\ Sound(u, r.dr) /\ (Stays(dr, r.dr) \/ Turns(dr, r.dr, m))
          /\ \A used \in SUBSET Key : Spent(dr, used) => Spent(r.dr, used \cup {m.key})
      BY <1>3, <2>2, <2>3, <2>4, <3>3, RecvSound
    <3>5. Reads(u, m, r.dr)
      BY <2>2, <2>3, <2>4, <3>1, <3>2, <3>4 DEF Reads
    <3> QED BY <1>1, <3>5
  <2>5. CASE ~(friends[u] # <<>> /\ r.ok /\ m.session \in friend_index[u])
    BY <1>1, <1>6, <2>5 DEF HandleMessage
  <2> QED BY <2>4, <2>5
<1> QED BY <1>4, <1>5, <1>6

\* Mail that stays addressed to u while more is sent.
LEMMA MailStays ==
    ASSUME NEW ml, NEW st, NEW more, MailSound(ml, st)
    PROVE  MailSound(ml, st \cup more)
BY DEF MailSound, Addressed

LEMMA SoundStateInit == Init => SoundState
<1> SUFFICES ASSUME Init PROVE SoundState
  OBVIOUS
<1>1. \A S : <<>> \in Seq(S) /\ DOMAIN <<>> = {}
  OBVIOUS
<1>2. RatchetsSound(friends, pending)
  BY <1>1 DEF Init, RatchetsSound
<1>3. MailSound(mail, sent) /\ SentSound(sent)
  BY <1>1, FS_EmptySet DEF Init, MailSound, SentSound
<1>4. drawn \in [Users -> Nat] /\ opened \in [Users -> Seq(FriendMessage)]
  BY <1>1 DEF Init
<1>5. Single
  <2>1. Len(<<>>) = 0
    OBVIOUS
  <2> QED BY <2>1 DEF Init, Single
<1> QED BY <1>2, <1>3, <1>4, <1>5 DEF SoundState

LEMMA SingleStep == SoundState /\ [Next]_vars => Single'
<1> SUFFICES ASSUME SoundState, [Next]_vars, "parallel" \notin suffered', NEW u \in Users
             PROVE  Len(pending'[u]) <= 1
  BY DEF Single
<1>1. "parallel" \notin suffered /\ Len(pending[u]) <= 1
  BY SuffersOn DEF SoundState, Single
<1>2. pending \in [Users -> Seq(Waiting)]
  BY DEF SoundState, RatchetsSound
<1>3. Len(<<>>) <= 1 /\ \A x : Len(<<x>>) <= 1
  OBVIOUS
<1>4. CASE SendFriendRequest
  <2>1. PICK p : pending' = [pending EXCEPT !["alice"] = <<p>>]
    BY <1>4 DEF SendFriendRequest
  <2>2. pending'[u] = pending[u] \/ pending'[u] = <<p>>
    BY <1>2, <2>1
  <2> QED BY <1>1, <1>3, <2>2
<1>5. ASSUME NEW v \in Users, SendFriendMessage(v) PROVE Len(pending'[u]) <= 1
  <2>1. PICK m, e : Sends(v, m, e)
    BY <1>5, SendIs
  <2>2. pending' = [pending EXCEPT ![v] = <<[new |-> FALSE, dr |-> e]>>]
    BY <2>1, SendAlone
  <2>3. pending'[u] = pending[u] \/ pending'[u] = <<[new |-> FALSE, dr |-> e]>>
    BY <1>2, <2>2
  <2> QED BY <1>1, <1>3, <2>3
<1>6. ASSUME NEW v \in Users, NEW i \in DOMAIN pending[v], FinishSend(v, i) \/ FailSend(v, i)
      PROVE  Len(pending'[u]) <= 1
  <2>1. pending' = [pending EXCEPT ![v] = RemoveAt(@, i)]
    BY <1>6 DEF FinishSend, FailSend
  <2>2. pending' = [pending EXCEPT ![v] = <<>>]
    BY <1>1, <2>1, FinishAlone
  <2>3. pending'[u] = pending[u] \/ pending'[u] = <<>>
    BY <1>2, <2>2
  <2> QED BY <1>1, <1>3, <2>3
<1>7. CASE pending' = pending
  BY <1>1, <1>7
<1>8. ASSUME NEW v \in Users, Deliver(v) \/ Lose(v) \/ Duplicate(v) PROVE pending' = pending
  BY <1>8 DEF Deliver, Handle, Lose, Duplicate
<1> QED BY <1>4, <1>5, <1>6, <1>7, <1>8 DEF Next, vars

LEMMA SoundStateStep == SoundState /\ [Next]_vars => SoundState'
<1> SUFFICES ASSUME SoundState, [Next]_vars PROVE SoundState'
  OBVIOUS
<1>0. Single'
  BY SingleStep
<1> USE DEF SoundState
<1>1. CASE SendFriendRequest
  <2> DEFINE m == [kind |-> "request", init |-> Random("alice")]
             p == [new |-> TRUE, dr |-> Sender(Random("alice"))]
  <2>1. /\ mail' = [mail EXCEPT !["bob"] = Append(@, m)] /\ pending' = [pending EXCEPT !["alice"] = <<p>>]
        /\ drawn' = [drawn EXCEPT !["alice"] = @ + 1] /\ UNCHANGED <<friends, sent, opened>>
    BY <1>1 DEF SendFriendRequest
  <2>2. Random("alice") \in Name /\ Random("alice")[1] = "alice" /\ "alice" \in Users /\ "bob" \in Users
    BY RandomIs DEF Users
  <2>3. m \in FriendRequest /\ m.init[1] = "alice"
    BY <2>2 DEF FriendRequest
  <2>4. Sound("alice", p.dr)
    BY <2>2, BeginSound
  <2>8. p \in Waiting
    BY <2>4 DEF Waiting, Sound
  <2> HIDE DEF m, p
  <2>5. MailSound(mail', sent')
    <3>1. MailSound([mail EXCEPT !["bob"] = Append(@, m)], sent)
      BY <2>2, <2>3, MailGrows DEF Item, Addressed
    <3> QED BY <2>1, <3>1
  <2>6. RatchetsSound(friends', pending')
    BY <2>1, <2>2, <2>4, <2>8, RatchetSet
  <2>7. drawn' \in [Users -> Nat]
    <3>1. drawn["alice"] + 1 \in Nat
      BY <2>2
    <3> QED BY <2>1, <3>1
  <2> QED BY <2>1, <2>5, <2>6, <2>7, <1>0, SoundStateIs
<1>2. ASSUME NEW u \in Users, SendFriendMessage(u) PROVE SoundState'
  <2>1. PICK m, e : Sends(u, m, e)
    BY <1>2, SendIs
  <2> DEFINE p == [new |-> FALSE, dr |-> e]
  <2>2. /\ Genuine(m) /\ m.from = u /\ Sound(u, e)
        /\ mail' = [mail EXCEPT ![Other(u)] = Append(@, m)] /\ sent' = sent \cup {m}
        /\ pending' = [pending EXCEPT ![u] = Append(@, p)] /\ UNCHANGED <<friends, drawn, opened>>
    BY <2>1 DEF Sends
  <2>3. m \in FriendMessage /\ Other(u) \in Users /\ Other(Other(u)) = u /\ p.dr = e
    BY <2>2, TurnFacts DEF Genuine
  <2>4. MailSound(mail, sent \cup {m})
    BY MailStays
  <2>5. MailSound([mail EXCEPT ![Other(u)] = Append(@, m)], sent \cup {m})
    <3>1. m \in Item /\ Addressed(Other(u), m, sent \cup {m})
      BY <2>2, <2>3 DEF Item, Addressed
    <3> DEFINE st == sent \cup {m}
    <3> HIDE DEF st
    <3>2. MailSound([mail EXCEPT ![Other(u)] = Append(@, m)], st)
      BY <2>3, <2>4, <3>1, MailGrows DEF st
    <3> QED BY <3>2 DEF st
  <2>6. SentSound(sent')
    BY <2>2, FS_AddElement DEF SentSound
  <2>7. RatchetsSound(friends', pending')
    <3>1. p \in Waiting /\ Sound(u, p.dr)
      BY <2>2 DEF Waiting, Sound
    <3> HIDE DEF p
    <3> QED BY <2>2, <3>1, RatchetSet
  <2>8. MailSound(mail', sent')
    BY <2>2, <2>5
  <2> QED BY <2>2, <2>6, <2>7, <2>8, <1>0, SoundStateIs
<1>3. ASSUME NEW u \in Users, NEW i \in DOMAIN pending[u], FinishSend(u, i) PROVE SoundState'
  <2> DEFINE d == pending[u][i].dr
  <2>1. /\ Sound(u, d) /\ friends' = [friends EXCEPT ![u] = <<d>>]
        /\ pending' = [pending EXCEPT ![u] = RemoveAt(@, i)] /\ UNCHANGED <<mail, drawn, sent, opened>>
    BY <1>3, FinishIs DEF Finishes
  <2> HIDE DEF d
  <2>2. RatchetsSound(friends', pending)
    BY <2>1, RatchetSet
  <2>3. RatchetsSound(friends', pending')
    BY <2>1, <2>2, RatchetSet
  <2> QED BY <2>1, <2>3, <1>0, SoundStateIs
<1>4. ASSUME NEW u \in Users, NEW i \in DOMAIN pending[u], FailSend(u, i) PROVE SoundState'
  <2>1. /\ pending' = [pending EXCEPT ![u] = RemoveAt(@, i)]
        /\ UNCHANGED <<friends, mail, drawn, sent, opened>>
    BY <1>4, FinishIs DEF Fails
  <2>2. RatchetsSound(friends', pending')
    BY <2>1, RatchetSet
  <2> QED BY <2>1, <2>2, <1>0, SoundStateIs
<1>5. ASSUME NEW u \in Users, Deliver(u) PROVE SoundState'
  <2>1. PICK i \in DOMAIN mail[u] : Handle(u, i)
    BY <1>5 DEF Deliver
  <2> DEFINE m == mail[u][i]
  <2>2. /\ mail' = [mail EXCEPT ![u] = RemoveAt(@, i)] /\ UNCHANGED <<pending, sent>>
        /\ \/ Accepts(u, m) \/ \E e : Reads(u, m, e) \/ UNCHANGED <<friends, drawn, opened>>
    BY <2>1, HandleIs
  <2> HIDE DEF m
  <2>3. MailSound(mail', sent') /\ SentSound(sent')
    <3>1. MailSound([mail EXCEPT ![u] = RemoveAt(@, i)], sent)
      BY MailShrinks
    <3> QED BY <2>2, <3>1
  <2>4. CASE UNCHANGED <<friends, drawn, opened>>
    BY <2>2, <2>3, <2>4, <1>0, SoundStateIs
  <2>5. CASE Accepts(u, m)
    <3> DEFINE d == Recipient(m.init, Random(u))
    <3>1. /\ Sound(u, d) /\ friends' = [friends EXCEPT ![u] = <<d>>]
          /\ drawn' = [drawn EXCEPT ![u] = @ + 1] /\ UNCHANGED opened
      BY <2>5 DEF Accepts
    <3> HIDE DEF d
    <3>2. RatchetsSound(friends', pending')
      BY <2>2, <3>1, RatchetSet
    <3>3. drawn' \in [Users -> Nat]
      BY <3>1
    <3> QED BY <2>3, <3>1, <3>2, <3>3, <1>0, SoundStateIs
  <2>6. CASE \E e : Reads(u, m, e)
    <3>1. PICK e : Reads(u, m, e)
      BY <2>6
    <3>2. /\ m \in FriendMessage /\ Sound(u, e) /\ friends' = [friends EXCEPT ![u] = <<e>>]
          /\ opened' = [opened EXCEPT ![u] = Append(@, m)]
          /\ drawn' = drawn \/ drawn' = [drawn EXCEPT ![u] = @ + 1]
      BY <3>1 DEF Reads
    <3>3. RatchetsSound(friends', pending')
      BY <2>2, <3>2, RatchetSet
    <3>4. drawn' \in [Users -> Nat]
      BY <3>2
    <3>5. opened' \in [Users -> Seq(FriendMessage)]
      <4>1. Append(opened[u], m) \in Seq(FriendMessage)
        BY <3>2, AppendProperties
      <4> QED BY <3>2, <4>1
    <3> QED BY <2>3, <3>3, <3>4, <3>5, <1>0, SoundStateIs
  <2> QED BY <2>2, <2>4, <2>5, <2>6
<1>6. ASSUME NEW u \in Users, Lose(u) PROVE SoundState'
  <2>1. /\ mail[u] # <<>> /\ mail' = [mail EXCEPT ![u] = Tail(@)]
        /\ UNCHANGED <<friends, pending, drawn, sent, opened>>
    BY <1>6 DEF Lose
  <2>2. MailSound([mail EXCEPT ![u] = Tail(@)], sent)
    BY <2>1, MailShrinks
  <2>3. MailSound(mail', sent')
    BY <2>1, <2>2
  <2> QED BY <2>1, <2>3, <1>0, SoundStateIs
<1>7. ASSUME NEW u \in Users, Duplicate(u) PROVE SoundState'
  <2>1. /\ mail[u] # <<>> /\ mail' = [mail EXCEPT ![u] = Append(@, Head(@))]
        /\ UNCHANGED <<friends, pending, drawn, sent, opened>>
    BY <1>7 DEF Duplicate
  <2>2. Head(mail[u]) \in Item /\ Addressed(u, Head(mail[u]), sent)
    BY <2>1, MailShrinks
  <2>3. MailSound(mail', sent')
    <3> DEFINE m == Head(mail[u])
    <3>1. m \in Item /\ Addressed(u, m, sent) /\ mail' = [mail EXCEPT ![u] = Append(@, m)]
      BY <2>1, <2>2
    <3> HIDE DEF m
    <3>2. MailSound([mail EXCEPT ![u] = Append(@, m)], sent)
      BY <3>1, MailGrows
    <3> QED BY <2>1, <3>1, <3>2
  <2> QED BY <2>1, <2>3, <1>0, SoundStateIs
<1>8. CASE UNCHANGED vars
  BY <1>8, <1>0, SoundStateIs DEF vars
<1> QED BY <1>1, <1>2, <1>3, <1>4, <1>5, <1>6, <1>7, <1>8 DEF Next

LEMMA AlwaysSound == Spec => []SoundState
BY SoundStateInit, SoundStateStep, PTL DEF Spec

\* debug_assert_ne!(self.cp, [0; ..]) in send and the comment on the period: whatever happens to
\* the mail, a major message carries a ciphertext for a key that its receiver drew, and the next
\* major message is the other one's.
THEOREM MajorsTakeTurns == Spec => []MajorsAlternate
<1>1. SoundState => MajorsAlternate
  <2> SUFFICES ASSUME SoundState, NEW m \in sent, m.header.major
               PROVE  /\ m.header.cp # Nothing /\ m.header.cp[1][1] = Other(m.from)
                      /\ \A n \in sent : n.header.step = m.header.step + KyberPeriod => n.from # m.from
    BY DEF MajorsAlternate
  <2>1. \A n \in sent : Genuine(n)
    BY DEF SoundState, SentSound
  <2>2. Sealed(m.from, m.header.cp)
    BY <2>1 DEF Genuine
  <2>3. ASSUME NEW n \in sent, n.header.step = m.header.step + KyberPeriod, n.from = m.from
        PROVE  FALSE
    <3> DEFINE a == Len(InputsOf(m))
               b == Len(InputsOf(n))
               u == m.from
    <3>1. /\ a \in Nat /\ m.header.step = a + 2 /\ TurnOf(u, a)
          /\ b \in Nat /\ n.header.step = b + 2 /\ TurnOf(u, b)
      BY <2>1, <2>3, GenuineFacts
    <3> HIDE DEF a, b, u
    <3>2. b = a + KyberPeriod
      BY <2>3, <3>1, RatchetAssumption, SMT
    <3> QED BY <3>1, <3>2, RatchetAssumption, SMT DEF TurnOf
  <2> QED BY <2>2, <2>3 DEF Sealed
<1> QED BY <1>1, AlwaysSound, PTL

-----------------------------------------------------------------------------
\* As long as the friend request is delivered once, the chains that were sent on lie on one line.
Comparable(st) ==
    \A m, n \in st : Len(InputsOf(m)) <= Len(InputsOf(n)) => IsPrefix(InputsOf(m), InputsOf(n))

\* dr is up to one chain behind what the other one sends on; when it waits to derive a chain,
\* what the other one has sent on later chains has been derived after that chain.
Aligned(u, dr, st) ==
    /\ dr.root.inputs = <<>> \/ \E m \in st : InputsOf(m) = dr.root.inputs
    /\ \A m \in st : Len(InputsOf(m)) <= Reach(dr) + (IF m.from = u THEN 0 ELSE 1)
    /\ dr.sender.step = Guarding =>
          \A m \in st : Len(InputsOf(m)) > Len(dr.root.inputs) => IsPrefix(NextInputs(dr), InputsOf(m))

\* How the friendship begins.
NoRequest(s) == \A i \in DOMAIN s : s[i] \notin FriendRequest
OneRequest(s) == \A i, j \in DOMAIN s : s[i] \in FriendRequest /\ s[j] \in FriendRequest => i = j
Begun ==
    /\ \A u \in Users : friends[u] = <<>> => opened[u] = <<>> /\ \A m \in sent : m.from # u
    /\ friends["bob"] = <<>> => pending["bob"] = <<>> /\ \A m \in sent : InputsOf(m) = <<>>
    /\ friends["bob"] # <<>> => NoRequest(mail["bob"])
    /\ OneRequest(mail["bob"])
    /\ drawn["alice"] = 0 => \A u \in Users : friends[u] = <<>> /\ pending[u] = <<>> /\ mail[u] = <<>>

RatchetsAligned(fr, pd, st) ==
    \A u \in Users : /\ fr[u] # <<>> => Aligned(u, fr[u][1], st)
                     /\ \A i \in DOMAIN pd[u] : Aligned(u, pd[u][i].dr, st)

\* The inputs of the chain that dr sends on or will send on next: what the sends of a user that
\* await agree on, as long as no mail is handled meanwhile.
Target(dr) == IF dr.sender.step = Guarding THEN NextInputs(dr) ELSE dr.root.inputs
SameTargets(fr, pd) ==
    \A u \in Users : IF fr[u] = <<>> THEN Len(pd[u]) <= 1
                     ELSE \A i \in DOMAIN pd[u] : Target(pd[u][i].dr) = Target(fr[u][1])
Steady == "overlap" \in suffered \/ SameTargets(friends, pending)

AlignedState == Comparable(sent) /\ RatchetsAligned(friends, pending, sent) /\ Begun /\ Steady
Calm == "replay" \notin suffered /\ ~({"overlap", "parallel"} \subseteq suffered)
Order == Calm => AlignedState

LEMMA RequestFacts ==
    ASSUME NEW s \in Seq(Item)
    PROVE  /\ \A m \in Item : m \notin FriendRequest =>
                 /\ NoRequest(s) => NoRequest(Append(s, m))
                 /\ OneRequest(s) => OneRequest(Append(s, m))
           /\ \A i \in DOMAIN s : /\ NoRequest(s) => NoRequest(RemoveAt(s, i))
                                  /\ OneRequest(s) => OneRequest(RemoveAt(s, i))
                                  /\ OneRequest(s) /\ s[i] \in FriendRequest => NoRequest(RemoveAt(s, i))
           /\ s # <<>> => /\ NoRequest(s) => NoRequest(Tail(s))
                          /\ OneRequest(s) => OneRequest(Tail(s))
<1>1. DOMAIN s = 1 .. Len(s) /\ Len(s) \in Nat
  BY LenProperties
<1>2. ASSUME NEW m \in Item, m \notin FriendRequest
      PROVE  /\ NoRequest(s) => NoRequest(Append(s, m))
             /\ OneRequest(s) => OneRequest(Append(s, m))
  <2> DEFINE t == Append(s, m)
  <2>1. /\ t \in Seq(Item) /\ Len(t) = Len(s) + 1 /\ \A i \in 1 .. Len(s) : t[i] = s[i]
        /\ t[Len(s) + 1] = m
    BY AppendProperties
  <2>2. DOMAIN t = 1 .. Len(t)
    BY <2>1, LenProperties
  <2> HIDE DEF t
  <2>3. \A i \in DOMAIN t : t[i] \in FriendRequest => i \in DOMAIN s /\ s[i] = t[i]
    <3>1. \A i \in DOMAIN t : i \in DOMAIN s \/ i = Len(s) + 1
      BY <1>1, <2>1, <2>2, SMT
    <3> QED BY <1>1, <1>2, <2>1, <3>1
  <2>4. (NoRequest(s) => NoRequest(t)) /\ (OneRequest(s) => OneRequest(t))
    BY <2>3 DEF NoRequest, OneRequest
  <2> QED BY <2>4 DEF t
<1>3. ASSUME NEW i \in DOMAIN s
      PROVE  /\ NoRequest(s) => NoRequest(RemoveAt(s, i))
             /\ OneRequest(s) => OneRequest(RemoveAt(s, i))
             /\ OneRequest(s) /\ s[i] \in FriendRequest => NoRequest(RemoveAt(s, i))
  <2> DEFINE t == RemoveAt(s, i)
             Place(j) == IF j < i THEN j ELSE j + 1
  <2>1. t \in Seq(Item) /\ Len(t) = Len(s) - 1 /\ \A j \in 1 .. Len(s) - 1 : t[j] = s[Place(j)]
    BY <1>3, RemoveAtFacts
  <2>2. DOMAIN t = 1 .. Len(s) - 1
    BY <2>1, LenProperties
  <2> HIDE DEF t
  <2>3. /\ \A j \in DOMAIN t : Place(j) \in DOMAIN s /\ Place(j) # i
        /\ \A j, k \in DOMAIN t : Place(j) = Place(k) => j = k
    BY <1>1, <1>3, <2>2, SMT
  <2> HIDE DEF Place
  <2>4. \A j \in DOMAIN t : t[j] = s[Place(j)]
    BY <2>1, <2>2
  <2>5. /\ NoRequest(s) => NoRequest(t)
        /\ OneRequest(s) => OneRequest(t)
        /\ OneRequest(s) /\ s[i] \in FriendRequest => NoRequest(t)
    BY <1>3, <2>3, <2>4 DEF NoRequest, OneRequest
  <2> QED BY <2>5 DEF t
<1>4. ASSUME s # <<>>
      PROVE  (NoRequest(s) => NoRequest(Tail(s))) /\ (OneRequest(s) => OneRequest(Tail(s)))
  <2> DEFINE t == Tail(s)
  <2>1. t \in Seq(Item) /\ Len(t) = Len(s) - 1 /\ \A j \in 1 .. Len(t) : t[j] = s[j + 1]
    BY <1>4, HeadTailProperties
  <2>2. DOMAIN t = 1 .. Len(t)
    BY <2>1, LenProperties
  <2> HIDE DEF t
  <2>3. \A j \in DOMAIN t : j \in Int /\ j + 1 \in DOMAIN s
    BY <1>1, <2>1, <2>2, SMT
  <2>4. \A j, k \in DOMAIN t : j + 1 = k + 1 => j = k
    BY <2>3, SMT
  <2>5. \A j \in DOMAIN t : t[j] = s[j + 1]
    BY <2>1, <2>2
  <2>6. NoRequest(s) => NoRequest(t)
    BY <2>3, <2>5 DEF NoRequest
  <2>7. OneRequest(s) => OneRequest(t)
    BY <2>3, <2>4, <2>5 DEF OneRequest
  <2> QED BY <2>6, <2>7 DEF t
<1> QED BY <1>2, <1>3, <1>4

\* Sending on an aligned ratchet.
LEMMA SendAligned ==
    ASSUME SoundState, Comparable(sent), NEW u \in Users, NEW m, NEW e, Sends(u, m, e),
           Aligned(u, friends[u][1], sent)
    PROVE  /\ Comparable(sent') /\ Aligned(u, e, sent') /\ Target(e) = Target(friends[u][1])
           /\ \A d : Sound(u, d) /\ Aligned(u, d, sent) /\ Target(d) = Target(friends[u][1])
                      => Aligned(u, d, sent')
           /\ \A d : Sound(Other(u), d) /\ Aligned(Other(u), d, sent) => Aligned(Other(u), d, sent')
<1> DEFINE dr == friends[u][1]
           old == dr.root.inputs
           new == InputsOf(m)
           st == sent \cup {m}
<1>1. /\ Sound(u, dr) /\ Sound(u, e) /\ Genuine(m) /\ m.from = u /\ new = e.root.inputs
      /\ e = Send(dr).dr /\ sent' = st /\ Aligned(u, dr, sent)
  BY DEF Sends, SoundState, RatchetsSound
<1>2. /\ dr \in Ratchet /\ old \in Inputs /\ Len(old) \in Nat
      /\ new \in Inputs /\ Len(new) \in Nat
  BY <1>1, InputFacts, GenuineFacts DEF Sound, Ratchet
<1>3. \A n \in st : Genuine(n) /\ InputsOf(n) \in Inputs /\ Len(InputsOf(n)) \in Nat
                    /\ n.from \in Users /\ TurnOf(n.from, Len(InputsOf(n)))
  BY <1>1, GenuineFacts DEF SoundState, SentSound
<1>4. /\ e.sender.step # Guarding /\ Len(new) = Reach(dr)
      /\ dr.sender.step # Guarding => new = old
      /\ dr.sender.step = Guarding => /\ new = NextInputs(dr) /\ Len(new) = Len(old) + 1
                                      /\ IsPrefix(old, new)
  <2>1. /\ e.sender.step # Guarding /\ Len(new) = Reach(dr)
        /\ new = IF dr.sender.step = Guarding THEN NextInputs(dr) ELSE old
    BY <1>1, SendSound
  <2>2. IsPrefix(old, NextInputs(dr)) /\ Len(NextInputs(dr)) = Len(old) + 1
    BY <1>2, NextInputIs, PrefixFacts DEF NextInputs
  <2> QED BY <2>1, <2>2
<1>5. /\ old = <<>> \/ \E n \in sent : InputsOf(n) = old
      /\ \A n \in sent : Len(InputsOf(n)) <= Len(new) + (IF n.from = u THEN 0 ELSE 1)
      /\ dr.sender.step = Guarding =>
           \A n \in sent : Len(InputsOf(n)) > Len(old) => IsPrefix(new, InputsOf(n))
  BY <1>1, <1>4 DEF Aligned
<1> HIDE DEF dr, old, new
\* Old inputs against the inputs of the ratchet, and of the new message.
<1>6. \A n \in sent : /\ Len(InputsOf(n)) <= Len(old) => IsPrefix(InputsOf(n), old)
                      /\ Len(old) <= Len(InputsOf(n)) => IsPrefix(old, InputsOf(n))
  <2> TAKE n \in sent
  <2>1. CASE old = <<>>
    <3>1. Len(old) = 0 /\ IsPrefix(old, InputsOf(n)) /\ IsPrefix(old, old)
      BY <1>3, <2>1, InputFacts, PrefixFacts
    <3>2. Len(InputsOf(n)) <= Len(old) => InputsOf(n) = old
      BY <1>3, <2>1, <3>1, InputFacts, SMT
    <3> QED BY <3>1, <3>2
  <2>2. CASE \E q \in sent : InputsOf(q) = old
    BY <2>2 DEF Comparable
  <2> QED BY <1>5, <2>1, <2>2
<1>7. \A n \in sent : /\ Len(InputsOf(n)) <= Len(new) => IsPrefix(InputsOf(n), new)
                      /\ Len(new) <= Len(InputsOf(n)) => IsPrefix(new, InputsOf(n))
  <2> TAKE n \in sent
  <2> DEFINE q == InputsOf(n)
  <2>1. q \in Inputs /\ Len(q) \in Nat
    BY <1>3
  <2>2. /\ Len(q) <= Len(old) => IsPrefix(q, old)
        /\ dr.sender.step = Guarding /\ Len(q) > Len(old) => IsPrefix(new, q)
    BY <1>5, <1>6
  <2> HIDE DEF q
  <2>3. CASE dr.sender.step # Guarding
    BY <1>4, <1>6, <2>3 DEF q
  <2>4. CASE dr.sender.step = Guarding
    <3>1. Len(q) <= Len(old) \/ Len(q) > Len(old)
      BY <1>2, <2>1, SMT
    <3>2. CASE Len(q) <= Len(old)
      <4>1. IsPrefix(q, new)
        BY <1>2, <1>4, <2>1, <2>2, <2>4, <3>2, PrefixFacts
      <4>2. ~(Len(new) <= Len(q))
        BY <1>2, <1>4, <2>1, <2>4, <3>2, SMT
      <4> QED BY <4>1, <4>2 DEF q
    <3>3. CASE Len(q) > Len(old)
      <4>1. IsPrefix(new, q)
        BY <2>2, <2>4, <3>3
      <4>2. Len(q) <= Len(new) => Len(q) = Len(new)
        BY <1>2, <1>4, <2>1, <2>4, <3>3, SMT
      <4>3. Len(q) <= Len(new) => q = new
        BY <1>2, <2>1, <4>1, <4>2, PrefixFacts
      <4> QED BY <1>2, <4>1, <4>3, PrefixFacts DEF q
    <3> QED BY <3>1, <3>2, <3>3
  <2> QED BY <2>3, <2>4
<1>8. Comparable(st)
  BY <1>2, <1>7, PrefixFacts DEF Comparable, new
<1>9. Aligned(u, e, st)
  <2>1. Reach(e) = Len(new)
    BY <1>1, <1>2, <1>4 DEF Reach
  <2>2. \A n \in st : Len(InputsOf(n)) <= Len(new) + (IF n.from = u THEN 0 ELSE 1)
    <3>1. Len(new) <= Len(new) + 0 /\ InputsOf(m) = new
      BY <1>2, SMT DEF new
    <3> QED BY <1>1, <1>5, <3>1
  <2>3. InputsOf(m) = e.root.inputs
    BY <1>1 DEF new
  <2> QED BY <1>4, <2>1, <2>2, <2>3 DEF Aligned
<1>10. ASSUME NEW d, Sound(u, d), Aligned(u, d, sent), Target(d) = Target(dr)
       PROVE  Aligned(u, d, st)
  <2> DEFINE have == d.root.inputs
  <2>1. d \in Ratchet /\ have \in Inputs /\ Len(have) \in Nat
    BY <1>10, InputFacts DEF Sound, Ratchet
  <2>2. Target(dr) = new
    BY <1>4 DEF Target, old
  <2>3. Reach(d) = Len(new) /\ (d.sender.step = Guarding => NextInputs(d) = new)
    <3>1. Len(NextInputs(d)) = Len(have) + 1
      BY <2>1, NextInputIs
    <3>2. CASE d.sender.step = Guarding
      BY <1>10, <2>2, <3>1, <3>2 DEF Target, Reach
    <3>3. CASE d.sender.step # Guarding
      <4>1. have = new /\ Reach(d) = Len(have) + 0
        BY <1>10, <2>2, <3>3 DEF Target, Reach
      <4> HIDE DEF have
      <4> QED BY <2>1, <3>3, <4>1, SMT
    <3> QED BY <3>2, <3>3
  <2>4. /\ have = <<>> \/ \E n \in sent : InputsOf(n) = have
        /\ \A n \in sent : Len(InputsOf(n)) <= Reach(d) + (IF n.from = u THEN 0 ELSE 1)
        /\ d.sender.step = Guarding =>
              \A n \in sent : Len(InputsOf(n)) > Len(have) => IsPrefix(NextInputs(d), InputsOf(n))
    BY <1>10 DEF Aligned
  <2>5. \A n \in st : Len(InputsOf(n)) <= Reach(d) + (IF n.from = u THEN 0 ELSE 1)
    <3>1. Len(new) <= Len(new) + 0 /\ InputsOf(m) = new
      BY <1>2, SMT DEF new
    <3> QED BY <1>1, <2>3, <2>4, <3>1
  <2>6. d.sender.step = Guarding =>
          \A n \in st : Len(InputsOf(n)) > Len(have) => IsPrefix(NextInputs(d), InputsOf(n))
    BY <1>2, <2>3, <2>4, PrefixFacts DEF new
  <2> QED BY <2>4, <2>5, <2>6 DEF Aligned
<1>13. Target(e) = Target(dr)
  BY <1>1, <1>4 DEF Target, old
<1> DEFINE v == Other(u)
<1>11. v \in Users /\ v # u /\ Other(v) = u
  BY TurnFacts
<1> HIDE DEF v
<1>12. ASSUME NEW d, Sound(v, d), Aligned(v, d, sent)
       PROVE  Aligned(v, d, st)
  <2> DEFINE have == d.root.inputs
             next == NextInputs(d)
  <2>1. /\ d \in Ratchet /\ have \in Inputs /\ Len(have) \in Nat /\ Reach(d) \in Nat
        /\ d.sender.step = Guarding => Reach(d) = Len(have) + 1 /\ TurnOf(u, Len(have))
        /\ next \in Inputs /\ Len(next) = Len(have) + 1
    <3>1. d \in Ratchet /\ have \in Inputs /\ Len(have) \in Nat
      BY <1>12, InputFacts DEF Sound, Ratchet
    <3>2. next \in Inputs /\ Len(next) = Len(have) + 1
      BY <3>1, NextInputIs
    <3>3. d.sender.step = Guarding => TurnOf(u, Len(have))
      BY <1>11, <1>12 DEF Sound
    <3>4. Reach(d) = Len(have) + (IF d.sender.step = Guarding THEN 1 ELSE 0)
      BY DEF Reach
    <3> HIDE DEF have, next
    <3> QED BY <3>1, <3>2, <3>3, <3>4, SMT
  <2>2. /\ \A n \in sent : Len(InputsOf(n)) <= Reach(d) + (IF n.from = v THEN 0 ELSE 1)
        /\ d.sender.step = Guarding =>
             \A n \in sent : Len(InputsOf(n)) > Len(have) => IsPrefix(next, InputsOf(n))
        /\ have = <<>> \/ \E n \in sent : InputsOf(n) = have
    BY <1>12 DEF Aligned
  <2> HIDE DEF have, next
  \* Inputs of the ratchet of u that are not its own turn are inputs v has sent on.
  <2>3. Len(old) = 0 \/ \E n \in sent : InputsOf(n) = old /\ TurnOf(n.from, Len(old))
    BY <1>3, <1>5, InputFacts
  <2>4. dr.sender.step = Guarding => Len(old) <= Reach(d)
    <3> SUFFICES ASSUME dr.sender.step = Guarding PROVE Len(old) <= Reach(d)
      OBVIOUS
    <3>1. CASE Len(old) = 0
      BY <2>1, <3>1, SMT
    <3>2. CASE \E n \in sent : InputsOf(n) = old /\ TurnOf(n.from, Len(old))
      <4>1. PICK n \in sent : InputsOf(n) = old /\ TurnOf(n.from, Len(old))
        BY <3>2
      <4>2. TurnOf(v, Len(old))
        BY <1>1 DEF Sound, v, old
      <4>3. n.from = v
        <5>1. n.from \in Users /\ (n.from = v \/ n.from = Other(v))
          BY <1>3, <1>11, TurnFacts
        <5>2. TurnOf(u, Len(old)) => FALSE
          BY <1>2, <1>11, <4>2, TurnFacts
        <5> QED BY <1>11, <4>1, <5>1, <5>2
      <4>4. Len(InputsOf(n)) <= Reach(d) + 0
        BY <2>2, <4>3
      <4> QED BY <2>1, <4>1, <4>4
    <3> QED BY <2>3, <3>1, <3>2
  <2>5. dr.sender.step # Guarding => Len(old) <= Reach(d) + 1
    <3> SUFFICES ASSUME dr.sender.step # Guarding PROVE Len(old) <= Reach(d) + 1
      OBVIOUS
    <3>1. CASE Len(old) = 0
      BY <2>1, <3>1, SMT
    <3>2. CASE \E n \in sent : InputsOf(n) = old /\ TurnOf(n.from, Len(old))
      BY <1>2, <1>3, <2>1, <2>2, <3>2, SMT
    <3> QED BY <2>3, <3>1, <3>2
  <2>6. Len(new) <= Reach(d) + 1
    BY <1>2, <1>4, <2>1, <2>4, <2>5, SMT
  <2>7. ASSUME d.sender.step = Guarding, Len(new) > Len(have)
        PROVE  IsPrefix(next, new)
    <3>1. TurnOf(u, Len(new))
      BY <1>1, GenuineFacts DEF new
    <3>2. Len(new) = Len(have) + 2
      <4>1. Len(new) = Len(have) + 1 \/ Len(new) = Len(have) + 2
        BY <1>2, <2>1, <2>6, <2>7, SMT
      <4>2. Len(new) # Len(have) + 1
        BY <1>11, <2>1, <2>7, <3>1, TurnFacts
      <4> QED BY <4>1, <4>2
    <3>3. Len(old) > Len(have) /\ Len(old) > 0
      BY <1>2, <1>4, <2>1, <3>2, SMT
    <3>4. PICK n \in sent : InputsOf(n) = old
      BY <1>5, <3>3, InputFacts, SMT
    <3>5. IsPrefix(next, old) /\ IsPrefix(old, new)
      BY <1>2, <1>4, <2>2, <2>7, <3>3, <3>4, PrefixFacts
    <3> QED BY <1>2, <2>1, <3>5, PrefixFacts
  <2>8. \A n \in st : Len(InputsOf(n)) <= Reach(d) + (IF n.from = v THEN 0 ELSE 1)
    BY <1>1, <1>11, <2>2, <2>6 DEF new
  <2>9. d.sender.step = Guarding =>
          \A n \in st : Len(InputsOf(n)) > Len(have) => IsPrefix(next, InputsOf(n))
    BY <2>2, <2>7 DEF new
  <2> QED BY <2>2, <2>8, <2>9 DEF Aligned, have, next
<1> QED BY <1>1, <1>8, <1>9, <1>10, <1>12, <1>13 DEF v, dr

\* Reading a message on an aligned ratchet.
LEMMA ReadAligned ==
    ASSUME SoundState, NEW u \in Users, NEW dr, Sound(u, dr), Aligned(u, dr, sent), NEW e,
           NEW m \in sent, Stays(dr, e) \/ Turns(dr, e, m)
    PROVE  Aligned(u, e, sent)
<1>1. CASE Stays(dr, e)
  <2>1. Reach(e) = Reach(dr) /\ NextInputs(e) = NextInputs(dr)
    BY <1>1 DEF Stays, Reach, NextInputs, NextInput
  <2> QED BY <1>1, <2>1 DEF Aligned, Stays
<1>2. CASE Turns(dr, e, m)
  <2>1. PICK x \in Input : InputsOf(m) = Append(dr.root.inputs, x)
    BY <1>2 DEF Turns
  <2>2. /\ dr.sender.step # Guarding /\ e.sender.step = Guarding /\ e.root.inputs = InputsOf(m)
    BY <1>2 DEF Turns
  <2> DEFINE k == Len(dr.root.inputs)
  <2>3. k \in Nat /\ Len(InputsOf(m)) = k + 1
    BY <2>1, InputFacts DEF Sound, Ratchet
  <2>4. Reach(dr) = k + 0 /\ Reach(e) = Len(InputsOf(m)) + 1
    BY <2>2 DEF Reach
  <2>5. \A n \in sent : Len(InputsOf(n)) \in Nat /\ Len(InputsOf(n)) <= Reach(dr) + (IF n.from = u THEN 0 ELSE 1)
    BY GenuineFacts DEF Aligned, SoundState, SentSound
  <2> HIDE DEF k
  <2>6. \A n \in sent : Len(InputsOf(n)) <= k + 1
    BY <2>3, <2>4, <2>5, SMT
  <2>7. \A n \in sent : Len(InputsOf(n)) <= Reach(e) + 0 /\ Len(InputsOf(n)) <= Reach(e) + 1
    BY <2>3, <2>4, <2>5, <2>6, SMT
  <2>8. \A n \in sent : ~(Len(InputsOf(n)) > Len(InputsOf(m)))
    BY <2>3, <2>5, <2>6, SMT
  <2> QED BY <2>2, <2>7, <2>8 DEF Aligned
<1> QED BY <1>1, <1>2

LEMMA AlignedSet ==
    ASSUME NEW fr, NEW pd, NEW st, RatchetsAligned(fr, pd, st), NEW u \in Users,
           fr = [v \in Users |-> fr[v]], pd \in [Users -> Seq(Waiting)]
    PROVE  /\ \A d : Aligned(u, d, st) => RatchetsAligned([fr EXCEPT ![u] = <<d>>], pd, st)
           /\ \A p : Aligned(u, p.dr, st) => RatchetsAligned(fr, [pd EXCEPT ![u] = <<p>>], st)
           /\ \A p \in Waiting : Aligned(u, p.dr, st) => RatchetsAligned(fr, [pd EXCEPT ![u] = Append(@, p)], st)
           /\ \A i \in DOMAIN pd[u] : RatchetsAligned(fr, [pd EXCEPT ![u] = RemoveAt(@, i)], st)
<1>1. \A x : <<x>> # <<>> /\ <<x>>[1] = x
  OBVIOUS
<1>2. ASSUME NEW d, Aligned(u, d, st)
      PROVE  RatchetsAligned([fr EXCEPT ![u] = <<d>>], pd, st)
  <2> DEFINE new == [fr EXCEPT ![u] = <<d>>]
  <2>1. \A v \in Users : new[v] = IF v = u THEN <<d>> ELSE fr[v]
    OBVIOUS
  <2> HIDE DEF new
  <2>2. RatchetsAligned(new, pd, st)
    BY <1>1, <1>2, <2>1 DEF RatchetsAligned
  <2> QED BY <2>2 DEF new
<1>3. ASSUME NEW q, \A i \in DOMAIN q : Aligned(u, q[i].dr, st)
      PROVE  RatchetsAligned(fr, [pd EXCEPT ![u] = q], st)
  <2> DEFINE new == [pd EXCEPT ![u] = q]
  <2>1. \A v \in Users : new[v] = IF v = u THEN q ELSE pd[v]
    OBVIOUS
  <2> HIDE DEF new
  <2>2. RatchetsAligned(fr, new, st)
    BY <1>3, <2>1 DEF RatchetsAligned
  <2> QED BY <2>2 DEF new
<1>4. pd[u] \in Seq(Waiting) /\ \A i \in DOMAIN pd[u] : Aligned(u, pd[u][i].dr, st)
  BY DEF RatchetsAligned
<1>5. ASSUME NEW p, Aligned(u, p.dr, st)
      PROVE  RatchetsAligned(fr, [pd EXCEPT ![u] = <<p>>], st)
  <2>1. \A i \in DOMAIN <<p>> : <<p>>[i] = p
    OBVIOUS
  <2> QED BY <1>3, <1>5, <2>1
<1>6. ASSUME NEW p \in Waiting, Aligned(u, p.dr, st)
      PROVE  RatchetsAligned(fr, [pd EXCEPT ![u] = Append(@, p)], st)
  <2> DEFINE q == Append(pd[u], p)
  <2>1. \A j \in DOMAIN q : q[j] = p \/ \E k \in DOMAIN pd[u] : q[j] = pd[u][k]
    BY <1>4, MoreWaiting
  <2> HIDE DEF q
  <2>2. \A j \in DOMAIN q : Aligned(u, q[j].dr, st)
    BY <1>4, <1>6, <2>1
  <2>3. RatchetsAligned(fr, [pd EXCEPT ![u] = q], st)
    BY <1>3, <2>2
  <2> QED BY <2>3 DEF q
<1>7. ASSUME NEW i \in DOMAIN pd[u]
      PROVE  RatchetsAligned(fr, [pd EXCEPT ![u] = RemoveAt(@, i)], st)
  <2>1. \A j \in DOMAIN RemoveAt(pd[u], i) : \E k \in DOMAIN pd[u] : RemoveAt(pd[u], i)[j] = pd[u][k]
    BY <1>4, RestOfWaiting
  <2> DEFINE q == RemoveAt(pd[u], i)
  <2> HIDE DEF q
  <2>2. ASSUME NEW j \in DOMAIN q PROVE Aligned(u, q[j].dr, st)
    <3>1. PICK k \in DOMAIN pd[u] : q[j] = pd[u][k]
      BY <2>1, <2>2 DEF q
    <3> QED BY <1>4, <3>1
  <2>3. RatchetsAligned(fr, [pd EXCEPT ![u] = q], st)
    BY <1>3, <2>2
  <2> QED BY <2>3 DEF q
<1> QED BY <1>2, <1>5, <1>6, <1>7

\* A user's sends that await go on agreeing when one more starts, and when one is put back.
LEMMA TargetsSet ==
    ASSUME NEW fr, NEW pd, SameTargets(fr, pd), NEW u \in Users,
           fr = [v \in Users |-> fr[v]], pd \in [Users -> Seq(Waiting)]
    PROVE  /\ \A p \in Waiting : fr[u] # <<>> /\ Target(p.dr) = Target(fr[u][1])
                                 => SameTargets(fr, [pd EXCEPT ![u] = Append(@, p)])
           /\ \A d : pd[u] = <<>> => SameTargets([fr EXCEPT ![u] = <<d>>], pd)
           /\ fr[u] = <<>> => \A p : SameTargets(fr, [pd EXCEPT ![u] = <<p>>])
           /\ \A i \in DOMAIN pd[u] :
                 /\ SameTargets(fr, [pd EXCEPT ![u] = RemoveAt(@, i)])
                 /\ SameTargets([fr EXCEPT ![u] = <<pd[u][i].dr>>], [pd EXCEPT ![u] = RemoveAt(@, i)])
<1>1. \A x : <<x>> # <<>> /\ <<x>>[1] = x
  OBVIOUS
<1>2. ASSUME NEW f, NEW q, IF f = <<>> THEN Len(q) <= 1
                           ELSE \A i \in DOMAIN q : Target(q[i].dr) = Target(f[1])
      PROVE  SameTargets([fr EXCEPT ![u] = f], [pd EXCEPT ![u] = q])
  <2> DEFINE newf == [fr EXCEPT ![u] = f]
             newp == [pd EXCEPT ![u] = q]
  <2>1. /\ \A v \in Users : newf[v] = IF v = u THEN f ELSE fr[v]
        /\ \A v \in Users : newp[v] = IF v = u THEN q ELSE pd[v]
    OBVIOUS
  <2> HIDE DEF newf, newp
  <2>2. SameTargets(newf, newp)
    BY <1>2, <2>1 DEF SameTargets
  <2> QED BY <2>2 DEF newf, newp
<1>3. /\ [fr EXCEPT ![u] = fr[u]] = fr /\ [pd EXCEPT ![u] = pd[u]] = pd /\ pd[u] \in Seq(Waiting)
      /\ IF fr[u] = <<>> THEN Len(pd[u]) <= 1
         ELSE \A i \in DOMAIN pd[u] : Target(pd[u][i].dr) = Target(fr[u][1])
  BY DEF SameTargets
<1>4. ASSUME NEW p \in Waiting, fr[u] # <<>>, Target(p.dr) = Target(fr[u][1])
      PROVE  SameTargets(fr, [pd EXCEPT ![u] = Append(@, p)])
  <2> DEFINE f == fr[u]  q == Append(pd[u], p)
  <2>1. \A j \in DOMAIN q : q[j] = p \/ \E k \in DOMAIN pd[u] : q[j] = pd[u][k]
    BY <1>3, MoreWaiting
  <2> HIDE DEF q
  <2>3. f # <<>> /\ \A j \in DOMAIN q : Target(q[j].dr) = Target(f[1])
    BY <1>3, <1>4, <2>1
  <2> HIDE DEF f
  <2>2. SameTargets([fr EXCEPT ![u] = f], [pd EXCEPT ![u] = q])
    BY <1>2, <2>3
  <2> QED BY <1>3, <2>2 DEF f, q
<1>5. ASSUME NEW d, pd[u] = <<>> PROVE SameTargets([fr EXCEPT ![u] = <<d>>], pd)
  <2>1. DOMAIN <<>> = {}
    OBVIOUS
  <2> DEFINE f == <<d>>  q == pd[u]
  <2>2. f # <<>> /\ \A i \in DOMAIN q : Target(q[i].dr) = Target(f[1])
    BY <1>1, <1>5, <2>1
  <2> HIDE DEF f, q
  <2>3. SameTargets([fr EXCEPT ![u] = f], [pd EXCEPT ![u] = q])
    BY <1>2, <2>2
  <2> QED BY <1>3, <2>3 DEF f, q
<1>6. ASSUME fr[u] = <<>>, NEW p PROVE SameTargets(fr, [pd EXCEPT ![u] = <<p>>])
  <2> DEFINE f == fr[u]  q == <<p>>
  <2>1. f = <<>> /\ Len(q) <= 1
    BY <1>6
  <2> HIDE DEF f, q
  <2>2. SameTargets([fr EXCEPT ![u] = f], [pd EXCEPT ![u] = q])
    BY <1>2, <2>1
  <2> QED BY <1>3, <2>2 DEF f, q
<1>7. ASSUME NEW i \in DOMAIN pd[u]
      PROVE  /\ SameTargets(fr, [pd EXCEPT ![u] = RemoveAt(@, i)])
             /\ SameTargets([fr EXCEPT ![u] = <<pd[u][i].dr>>], [pd EXCEPT ![u] = RemoveAt(@, i)])
  <2> DEFINE r == RemoveAt(pd[u], i)  old == fr[u]  d == pd[u][i].dr
  <2>1. /\ \A j \in DOMAIN r : \E k \in DOMAIN pd[u] : r[j] = pd[u][k]
        /\ r \in Seq(Waiting) /\ Len(r) = Len(pd[u]) - 1
    BY <1>3, <1>7, RestOfWaiting
  <2>2. SameTargets([fr EXCEPT ![u] = old], [pd EXCEPT ![u] = r])
    <3>1. IF old = <<>> THEN Len(r) <= 1 ELSE \A j \in DOMAIN r : Target(r[j].dr) = Target(old[1])
      <4>1. Len(pd[u]) \in Nat
        BY <1>3, LenProperties
      <4>2. CASE old = <<>>
        <5>1. Len(pd[u]) <= 1
          BY <1>3, <4>2
        <5> HIDE DEF r
        <5>2. Len(r) <= 1
          BY <2>1, <4>1, <5>1, SMT
        <5> QED BY <4>2, <5>2
      <4>3. CASE old # <<>>
        BY <1>3, <2>1, <4>3
      <4> QED BY <4>2, <4>3
    <3> HIDE DEF r, old
    <3> QED BY <1>2, <3>1
  <2>3. SameTargets([fr EXCEPT ![u] = <<d>>], [pd EXCEPT ![u] = r])
    <3>1. \A j \in DOMAIN r : Target(r[j].dr) = Target(d)
      <4>1. CASE fr[u] # <<>>
        BY <1>3, <1>7, <2>1, <4>1
      <4>2. CASE fr[u] = <<>>
        <5>1. Len(pd[u]) <= 1 /\ Len(pd[u]) \in Nat /\ DOMAIN r = 1 .. Len(r)
          BY <1>3, <2>1, <4>2, LenProperties
        <5> HIDE DEF r
        <5>2. \A j \in DOMAIN r : FALSE
          BY <2>1, <5>1, SMT
        <5> QED BY <5>2
      <4> QED BY <4>1, <4>2
    <3> DEFINE f == <<d>>
    <3>2. f # <<>> /\ f[1] = d
      BY <1>1
    <3> HIDE DEF f, r, d
    <3>3. SameTargets([fr EXCEPT ![u] = f], [pd EXCEPT ![u] = r])
      BY <1>2, <3>1, <3>2
    <3> QED BY <3>3 DEF f
  <2> QED BY <1>3, <2>2, <2>3 DEF r, old, d
<1> QED BY <1>4, <1>5, <1>6, <1>7

\* The ends of a session as they begin, before anything was derived.
LEMMA BeginAligned ==
    ASSUME SoundState, \A m \in sent : InputsOf(m) = <<>>
    PROVE  /\ \A init : Aligned("alice", Sender(init), sent)
           /\ \A init, random : Aligned("bob", Recipient(init, random), sent)
<1>1. \A n \in sent : Len(InputsOf(n)) = 0
  BY InputFacts
<1>2. ASSUME NEW u, NEW d, d.root.inputs = <<>>
      PROVE  Aligned(u, d, sent)
  <2>1. Len(d.root.inputs) = 0 /\ Reach(d) = 0 + (IF d.sender.step = Guarding THEN 1 ELSE 0)
    BY <1>2, InputFacts DEF Reach
  <2>2. \A n \in sent : Len(InputsOf(n)) <= Reach(d) + (IF n.from = u THEN 0 ELSE 1)
    BY <1>1, <2>1, SMT
  <2>3. \A n \in sent : ~(Len(InputsOf(n)) > Len(d.root.inputs))
    BY <1>1, <2>1, SMT
  <2> QED BY <1>2, <2>2, <2>3 DEF Aligned
<1>3. \A init : Sender(init).root.inputs = <<>>
  BY DEF Sender
<1>4. \A init, random : Recipient(init, random).root.inputs = <<>>
  BY DEF Recipient
<1> QED BY <1>2, <1>3, <1>4

LEMMA AlignedStateIs ==
    ASSUME Comparable(sent'), RatchetsAligned(friends', pending', sent'), Begun',
           "overlap" \in suffered' \/ SameTargets(friends', pending')
    PROVE  AlignedState'
BY DEF AlignedState, Comparable, RatchetsAligned, Aligned, Steady, SameTargets

LEMMA OrderInit == Init => Order
<1> SUFFICES ASSUME Init PROVE AlignedState
  BY DEF Order
<1>1. /\ friends = [u \in Users |-> <<>>] /\ pending = [u \in Users |-> <<>>]
      /\ mail = [u \in Users |-> <<>>] /\ sent = {} /\ opened = [u \in Users |-> <<>>]
      /\ "bob" \in Users
  BY DEF Init, Users
<1>2. Comparable(sent) /\ RatchetsAligned(friends, pending, sent)
  BY <1>1 DEF Comparable, RatchetsAligned
<1>3. Begun
  BY <1>1 DEF Begun, NoRequest, OneRequest
<1>4. Steady
  <2>1. Len(<<>>) = 0
    OBVIOUS
  <2> QED BY <1>1, <2>1 DEF Steady, SameTargets
<1> QED BY <1>2, <1>3, <1>4 DEF AlignedState

LEMMA OrderStep == SoundState /\ SoundState' /\ Order /\ [Next]_vars => Order'
<1> SUFFICES ASSUME SoundState, SoundState', Order, [Next]_vars, Calm'
             PROVE  AlignedState'
  BY DEF Order
<1>1. suffered \subseteq suffered' /\ Calm /\ "replay" \notin suffered'
  BY SuffersOn DEF Calm
<1>2. /\ Comparable(sent) /\ RatchetsAligned(friends, pending, sent) /\ Begun
      /\ "overlap" \notin suffered' => SameTargets(friends, pending)
  BY <1>1 DEF Order, AlignedState, Steady
<1>3. /\ friends = [v \in Users |-> friends[v]] /\ pending \in [Users -> Seq(Waiting)]
      /\ mail \in [Users -> Seq(Item)] /\ drawn \in [Users -> Nat] /\ "alice" \in Users /\ "bob" \in Users
      /\ \A v \in Users : v = "alice" \/ v = "bob"
  BY DEF SoundState, RatchetsSound, MailSound, Users
<1>4. \A x : <<x>> # <<>>
  OBVIOUS
<1>5. CASE SendFriendRequest
  <2> DEFINE m == [kind |-> "request", init |-> Random("alice")]
             p == [new |-> TRUE, dr |-> Sender(Random("alice"))]
  <2>1. /\ drawn["alice"] = 0 /\ mail' = [mail EXCEPT !["bob"] = Append(@, m)]
        /\ pending' = [pending EXCEPT !["alice"] = <<p>>]
        /\ drawn' = [drawn EXCEPT !["alice"] = @ + 1] /\ UNCHANGED <<friends, sent, opened>>
    BY <1>5 DEF SendFriendRequest
  <2>2. \A v \in Users : friends[v] = <<>> /\ pending[v] = <<>> /\ mail[v] = <<>>
    BY <1>2, <2>1 DEF Begun
  <2>3. sent = {}
    <3>1. \A n \in sent : n.from \in Users
      BY GenuineFacts DEF SoundState, SentSound
    <3> QED BY <1>2, <2>2, <3>1 DEF Begun
  <2>4. Aligned("alice", p.dr, sent)
    BY <2>3, BeginAligned
  <2> HIDE DEF p, m
  <2>5. RatchetsAligned(friends', pending', sent')
    BY <1>2, <1>3, <2>1, <2>4, AlignedSet
  <2>6. OneRequest(mail'["bob"])
    <3>1. mail'["bob"] = Append(<<>>, m)
      BY <1>3, <2>1, <2>2
    <3>2. Append(<<>>, m) = <<m>>
      OBVIOUS
    <3> QED BY <3>1, <3>2 DEF OneRequest
  <2>7. drawn'["alice"] # 0
    <3>1. drawn'["alice"] = 0 + 1
      BY <1>3, <2>1
    <3> QED BY <3>1
  <2>8. Begun'
    <3>1. friends'["bob"] = <<>> /\ pending'["bob"] = <<>>
      BY <1>3, <2>1, <2>2
    <3> QED BY <1>2, <2>1, <2>3, <2>6, <2>7, <3>1 DEF Begun
  <2>9. Comparable(sent')
    BY <1>2, <2>1
  <2>10. "overlap" \in suffered' \/ SameTargets(friends', pending')
    BY <1>2, <1>3, <2>1, <2>2, TargetsSet
  <2> QED BY <2>5, <2>8, <2>9, <2>10, AlignedStateIs
<1>6. ASSUME NEW u \in Users, SendFriendMessage(u) PROVE AlignedState'
  <2>1. PICK m, e : Sends(u, m, e)
    BY <1>6, SendIs
  <2> DEFINE p == [new |-> FALSE, dr |-> e]
             v == Other(u)
  <2>2. /\ friends[u] # <<>> /\ Genuine(m) /\ m.from = u /\ Sound(u, e) /\ InputsOf(m) = e.root.inputs
        /\ mail' = [mail EXCEPT ![v] = Append(@, m)] /\ sent' = sent \cup {m}
        /\ pending' = [pending EXCEPT ![u] = Append(@, p)] /\ UNCHANGED <<friends, drawn, opened>>
        /\ pending[u] = <<>> \/ "parallel" \in suffered'
    BY <2>1 DEF Sends
  <2>3. Aligned(u, friends[u][1], sent)
    BY <1>2, <2>2 DEF RatchetsAligned
  <2>4. /\ Comparable(sent') /\ Aligned(u, p.dr, sent') /\ Target(p.dr) = Target(friends[u][1])
        /\ \A d : Sound(u, d) /\ Aligned(u, d, sent) /\ Target(d) = Target(friends[u][1]) => Aligned(u, d, sent')
        /\ \A d : Sound(v, d) /\ Aligned(v, d, sent) => Aligned(v, d, sent')
    BY <1>2, <2>1, <2>3, SendAligned
  <2>5. v \in Users /\ v # u /\ \A w \in Users : w = u \/ w = v
    BY TurnFacts
  <2>8. p \in Waiting
    BY <2>2 DEF Waiting, Sound
  <2> HIDE DEF p, v
  <2>9. ASSUME NEW i \in DOMAIN pending[u]
        PROVE  Target(pending[u][i].dr) = Target(friends[u][1])
    <3>1. pending[u] # <<>>
      <4>1. DOMAIN <<>> = {}
        OBVIOUS
      <4> QED BY <2>9, <4>1
    <3>2. "overlap" \notin suffered'
      BY <2>2, <3>1 DEF Calm
    <3> QED BY <1>2, <2>2, <2>9, <3>2 DEF SameTargets
  <2>6. RatchetsAligned(friends', pending', sent')
    <3>1. RatchetsAligned(friends, pending, sent')
      <4>1. \A w \in Users : /\ friends[w] # <<>> => Sound(w, friends[w][1])
                             /\ \A i \in DOMAIN pending[w] : Sound(w, pending[w][i].dr)
        BY DEF SoundState, RatchetsSound
      <4>2. ASSUME NEW w \in Users, friends[w] # <<>> PROVE Aligned(w, friends[w][1], sent')
        BY <1>2, <2>4, <2>5, <4>1, <4>2 DEF RatchetsAligned
      <4>3. ASSUME NEW w \in Users, NEW i \in DOMAIN pending[w] PROVE Aligned(w, pending[w][i].dr, sent')
        BY <1>2, <2>4, <2>5, <2>9, <4>1, <4>3 DEF RatchetsAligned
      <4> QED BY <4>2, <4>3 DEF RatchetsAligned
    <3> DEFINE st == sent'
    <3>2. RatchetsAligned(friends, pending, st) /\ Aligned(u, p.dr, st)
      BY <2>4, <3>1
    <3> HIDE DEF st
    <3>3. RatchetsAligned(friends, [pending EXCEPT ![u] = Append(@, p)], st)
      BY <1>3, <2>8, <3>2, AlignedSet
    <3> QED BY <2>2, <3>3 DEF st
  <2>10. "overlap" \in suffered' \/ SameTargets(friends', pending')
    BY <1>2, <1>3, <2>2, <2>4, <2>8, TargetsSet
  <2>7. Begun'
    <3>1. m \in Item /\ m \notin FriendRequest
      BY <2>2 DEF Genuine, Item, FriendMessage, FriendRequest
    <3>2. /\ NoRequest(mail["bob"]) => NoRequest(mail'["bob"])
          /\ OneRequest(mail["bob"]) => OneRequest(mail'["bob"])
      <4>1. mail["bob"] \in Seq(Item) /\ mail'["bob"] = IF v = "bob" THEN Append(mail["bob"], m) ELSE mail["bob"]
        BY <1>3, <2>2, <2>5
      <4> QED BY <3>1, <4>1, RequestFacts
    <3>3. drawn'["alice"] # 0
      BY <1>2, <2>2 DEF Begun
    <3>4. ASSUME friends["bob"] = <<>>
          PROVE  pending'["bob"] = <<>> /\ \A n \in sent' : InputsOf(n) = <<>>
      <4>1. u = "alice" /\ pending["bob"] = <<>> /\ \A n \in sent : InputsOf(n) = <<>>
        BY <1>2, <1>3, <2>2, <3>4 DEF Begun
      <4> DEFINE dr == friends[u][1]
      <4>2. dr.root.inputs = <<>>
        BY <2>3, <4>1 DEF Aligned
      <4>3. Sound(u, dr)
        BY <2>2 DEF SoundState, RatchetsSound
      <4>4. dr.sender.step # Guarding
        <5>1. Len(dr.root.inputs) = 0
          BY <4>2, InputFacts
        <5>2. ~TurnOf(Other("alice"), 0)
          BY DEF TurnOf, Other
        <5> QED BY <4>1, <4>3, <5>1, <5>2 DEF Sound
      <4>5. e.root.inputs = dr.root.inputs
        <5>1. e = Send(dr).dr
          BY <2>1 DEF Sends
        <5> QED BY <4>3, <4>4, <5>1, SendSound
      <4>6. pending'["bob"] = pending["bob"]
        BY <1>3, <2>2, <4>1
      <4> QED BY <2>2, <4>1, <4>2, <4>5, <4>6
    <3> QED BY <1>2, <2>2, <3>2, <3>3, <3>4 DEF Begun
  <2> QED BY <2>4, <2>6, <2>7, <2>10, AlignedStateIs
<1>7. ASSUME NEW u \in Users, NEW i \in DOMAIN pending[u], FinishSend(u, i) PROVE AlignedState'
  <2> DEFINE d == pending[u][i].dr
             q == RemoveAt(pending[u], i)
  <2>1. /\ pending[u] # <<>> /\ friends' = [friends EXCEPT ![u] = <<d>>]
        /\ pending' = [pending EXCEPT ![u] = RemoveAt(@, i)] /\ UNCHANGED <<mail, drawn, sent, opened, suffered>>
    BY <1>7, FinishIs DEF Finishes
  <2>2. Aligned(u, d, sent)
    BY <1>2, <2>1 DEF RatchetsAligned
  <2>3. RatchetsAligned(friends', pending', sent')
    <3> HIDE DEF d
    <3>1. RatchetsAligned(friends', pending, sent) /\ friends' = [v \in Users |-> friends'[v]]
      BY <1>2, <1>3, <2>1, <2>2, AlignedSet
    <3> DEFINE fr == friends'
    <3>2. RatchetsAligned(fr, pending, sent) /\ fr = [v \in Users |-> fr[v]]
      BY <3>1
    <3> HIDE DEF fr
    <3>3. RatchetsAligned(fr, [pending EXCEPT ![u] = RemoveAt(@, i)], sent)
      BY <1>3, <3>2, AlignedSet
    <3>4. sent' = sent /\ pending' = [pending EXCEPT ![u] = RemoveAt(@, i)]
      BY <2>1
    <3> QED BY <3>3, <3>4 DEF fr
  <2>9. "overlap" \in suffered' \/ SameTargets(friends', pending')
    BY <1>2, <1>3, <1>7, <2>1, TargetsSet
  <2> HIDE DEF d, q
  <2>4. \A w \in Users : /\ friends'[w] = (IF w = u THEN <<d>> ELSE friends[w])
                         /\ pending'[w] = (IF w = u THEN q ELSE pending[w])
    BY <1>3, <2>1 DEF q
  <2>5. drawn["alice"] # 0
    BY <1>2, <2>1 DEF Begun
  <2>6. u = "bob" => friends["bob"] # <<>>
    BY <1>2, <2>1 DEF Begun
  <2>7. Begun'
    BY <1>2, <1>3, <1>4, <2>1, <2>4, <2>5, <2>6 DEF Begun
  <2>8. Comparable(sent')
    BY <1>2, <2>1
  <2> QED BY <2>3, <2>7, <2>8, <2>9, AlignedStateIs
<1>8. ASSUME NEW u \in Users, NEW i \in DOMAIN pending[u], FailSend(u, i) PROVE AlignedState'
  <2> DEFINE q == RemoveAt(pending[u], i)
  <2>1. /\ pending[u] # <<>> /\ pending' = [pending EXCEPT ![u] = RemoveAt(@, i)]
        /\ UNCHANGED <<friends, mail, drawn, sent, opened>>
    BY <1>8, FinishIs DEF Fails
  <2>2. RatchetsAligned(friends', pending', sent')
    BY <1>2, <1>3, <2>1, AlignedSet
  <2>6. "overlap" \in suffered' \/ SameTargets(friends', pending')
    BY <1>2, <1>3, <1>8, <2>1, TargetsSet
  <2> HIDE DEF q
  <2>3. \A w \in Users : pending'[w] = (IF w = u THEN q ELSE pending[w])
    BY <1>3, <2>1 DEF q
  <2>4. Begun'
    BY <1>2, <1>3, <2>1, <2>3 DEF Begun
  <2>5. Comparable(sent')
    BY <1>2, <2>1
  <2> QED BY <2>2, <2>4, <2>5, <2>6, AlignedStateIs
<1>9. ASSUME NEW u \in Users, Deliver(u) PROVE AlignedState'
  <2>1. PICK i \in DOMAIN mail[u] : Handle(u, i)
    BY <1>9 DEF Deliver
  <2> DEFINE m == mail[u][i]
  <2>2. /\ mail' = [mail EXCEPT ![u] = RemoveAt(@, i)] /\ UNCHANGED <<pending, sent>>
        /\ \/ Accepts(u, m) \/ \E e : Reads(u, m, e) \/ UNCHANGED <<friends, drawn, opened>>
        /\ pending[u] = <<>> \/ "overlap" \in suffered'
    BY <2>1, HandleIs
  <2>3. drawn["alice"] # 0
    <3>1. mail[u] # <<>>
      BY <2>1
    <3> QED BY <1>2, <3>1 DEF Begun
  <2>4. /\ NoRequest(mail["bob"]) => NoRequest(mail'["bob"])
        /\ OneRequest(mail["bob"]) => OneRequest(mail'["bob"])
        /\ u = "bob" /\ m \in FriendRequest /\ OneRequest(mail["bob"]) => NoRequest(mail'["bob"])
    <3>1. mail["bob"] \in Seq(Item) /\ mail'["bob"] = IF u = "bob" THEN RemoveAt(mail["bob"], i) ELSE mail["bob"]
      BY <1>3, <2>2
    <3> QED BY <2>1, <3>1, RequestFacts
  <2> HIDE DEF m
  <2>5. CASE UNCHANGED <<friends, drawn, opened>>
    <3>1. Begun'
      BY <1>2, <2>2, <2>3, <2>4, <2>5 DEF Begun
    <3>2. Comparable(sent') /\ RatchetsAligned(friends', pending', sent')
      BY <1>2, <2>2, <2>5
    <3>3. "overlap" \in suffered' \/ SameTargets(friends', pending')
      BY <1>2, <2>2, <2>5
    <3> QED BY <3>1, <3>2, <3>3, AlignedStateIs
  <2>6. CASE Accepts(u, m)
    <3> DEFINE d == Recipient(m.init, Random(u))
    <3>1. /\ m \in FriendRequest /\ u = "bob" /\ friends' = [friends EXCEPT !["bob"] = <<d>>]
          /\ drawn' = [drawn EXCEPT !["bob"] = @ + 1] /\ UNCHANGED opened
      BY <2>6 DEF Accepts
    <3>2. friends["bob"] = <<>>
      BY <1>2, <2>1, <3>1 DEF Begun, NoRequest, m
    <3>3. pending["bob"] = <<>> /\ \A n \in sent : InputsOf(n) = <<>>
      BY <1>2, <3>2 DEF Begun
    <3>4. Aligned("bob", d, sent)
      BY <3>3, BeginAligned
    <3> HIDE DEF d
    <3>5. RatchetsAligned(friends', pending', sent')
      BY <1>2, <1>3, <2>2, <3>1, <3>4, AlignedSet
    <3>6. NoRequest(mail'["bob"]) /\ OneRequest(mail'["bob"])
      BY <1>2, <2>4, <3>1 DEF Begun
    <3>7. drawn'["alice"] = drawn["alice"] /\ \A w \in Users : friends'[w] = (IF w = "bob" THEN <<d>> ELSE friends[w])
      BY <1>3, <3>1
    <3>8. Begun'
      BY <1>2, <1>3, <1>4, <2>2, <2>3, <3>1, <3>6, <3>7 DEF Begun
    <3>9. Comparable(sent')
      BY <1>2, <2>2
    <3>10. "overlap" \in suffered' \/ SameTargets(friends', pending')
      BY <1>2, <1>3, <2>2, <3>1, <3>3, TargetsSet
    <3> QED BY <3>5, <3>8, <3>9, <3>10, AlignedStateIs
  <2>7. CASE \E e : Reads(u, m, e)
    <3>1. PICK e : Reads(u, m, e)
      BY <2>7
    <3>2. /\ m \in sent /\ friends[u] # <<>> /\ (Stays(friends[u][1], e) \/ Turns(friends[u][1], e, m))
          /\ friends' = [friends EXCEPT ![u] = <<e>>] /\ opened' = [opened EXCEPT ![u] = Append(@, m)]
          /\ drawn' = drawn \/ drawn' = [drawn EXCEPT ![u] = @ + 1]
      BY <3>1 DEF Reads
    <3>3. Sound(u, friends[u][1]) /\ Aligned(u, friends[u][1], sent)
      BY <1>2, <3>2 DEF SoundState, RatchetsSound, RatchetsAligned
    <3>4. Aligned(u, e, sent)
      BY <3>2, <3>3, ReadAligned
    <3>5. RatchetsAligned(friends', pending', sent')
      BY <1>2, <1>3, <2>2, <3>2, <3>4, AlignedSet
    <3>6. \A w \in Users : /\ friends'[w] = (IF w = u THEN <<e>> ELSE friends[w])
                           /\ w # u => opened'[w] = opened[w]
      <4>1. opened \in [Users -> Seq(FriendMessage)]
        BY DEF SoundState
      <4> QED BY <1>3, <3>2, <4>1
    <3>7. drawn'["alice"] # 0
      <4>1. drawn["alice"] \in Nat /\ drawn["alice"] + 1 # 0
        BY <1>3
      <4>2. drawn'["alice"] = drawn["alice"] \/ drawn'["alice"] = drawn["alice"] + 1
        BY <1>3, <3>2
      <4> QED BY <2>3, <4>1, <4>2
    <3>8. Begun'
      BY <1>2, <1>3, <1>4, <2>2, <2>4, <3>2, <3>6, <3>7 DEF Begun
    <3>9. Comparable(sent')
      BY <1>2, <2>2
    <3>10. "overlap" \in suffered' \/ SameTargets(friends', pending')
      BY <1>2, <1>3, <2>2, <3>2, TargetsSet
    <3> QED BY <3>5, <3>8, <3>9, <3>10, AlignedStateIs
  <2> QED BY <2>2, <2>5, <2>6, <2>7
<1>10. ASSUME NEW u \in Users, Lose(u) PROVE AlignedState'
  <2>1. /\ mail[u] # <<>> /\ mail' = [mail EXCEPT ![u] = Tail(@)]
        /\ UNCHANGED <<friends, pending, drawn, sent, opened>>
    BY <1>10 DEF Lose
  <2>2. drawn["alice"] # 0
    BY <1>2, <2>1 DEF Begun
  <2>3. /\ NoRequest(mail["bob"]) => NoRequest(mail'["bob"])
        /\ OneRequest(mail["bob"]) => OneRequest(mail'["bob"])
    <3>1. mail["bob"] \in Seq(Item) /\ mail'["bob"] = IF u = "bob" THEN Tail(mail["bob"]) ELSE mail["bob"]
      BY <1>3, <2>1
    <3> QED BY <2>1, <3>1, RequestFacts
  <2>4. Begun'
    BY <1>2, <2>1, <2>2, <2>3 DEF Begun
  <2>5. Comparable(sent') /\ RatchetsAligned(friends', pending', sent')
    BY <1>2, <2>1
  <2>6. "overlap" \in suffered' \/ SameTargets(friends', pending')
    BY <1>2, <2>1
  <2> QED BY <2>4, <2>5, <2>6, AlignedStateIs
<1>11. ASSUME NEW u \in Users, Duplicate(u) PROVE AlignedState'
  <2> DEFINE m == Head(mail[u])
  <2>1. /\ mail[u] # <<>> /\ mail' = [mail EXCEPT ![u] = Append(@, m)]
        /\ suffered' = suffered \cup {IF m.kind = "message" THEN "duplicate" ELSE "replay"}
        /\ UNCHANGED <<friends, pending, drawn, sent, opened>>
    BY <1>11 DEF Duplicate, Fault
  <2>2. m \in Item
    BY <2>1, MailShrinks DEF SoundState
  <2> HIDE DEF m
  <2>3. m.kind = "message"
    BY <1>1, <2>1
  <2>4. m \notin FriendRequest
    BY <2>3 DEF FriendRequest
  <2>5. drawn["alice"] # 0
    BY <1>2, <2>1 DEF Begun
  <2>6. /\ NoRequest(mail["bob"]) => NoRequest(mail'["bob"])
        /\ OneRequest(mail["bob"]) => OneRequest(mail'["bob"])
    <3>1. mail["bob"] \in Seq(Item) /\ mail'["bob"] = IF u = "bob" THEN Append(mail["bob"], m) ELSE mail["bob"]
      BY <1>3, <2>1
    <3> QED BY <2>2, <2>4, <3>1, RequestFacts
  <2>7. Begun'
    BY <1>2, <2>1, <2>5, <2>6 DEF Begun
  <2>8. Comparable(sent') /\ RatchetsAligned(friends', pending', sent')
    BY <1>2, <2>1
  <2>9. "overlap" \in suffered' \/ SameTargets(friends', pending')
    BY <1>2, <2>1
  <2> QED BY <2>7, <2>8, <2>9, AlignedStateIs
<1>12. CASE UNCHANGED vars
  <2>1. /\ UNCHANGED <<friends, pending, mail, drawn, sent, opened>>
    BY <1>12 DEF vars
  <2>2. Begun'
    BY <1>2, <2>1 DEF Begun
  <2>3. Comparable(sent') /\ RatchetsAligned(friends', pending', sent')
    BY <1>2, <2>1
  <2>4. "overlap" \in suffered' \/ SameTargets(friends', pending')
    BY <1>2, <2>1
  <2> QED BY <2>2, <2>3, <2>4, AlignedStateIs
<1> QED BY <1>5, <1>6, <1>7, <1>8, <1>9, <1>10, <1>11, <1>12 DEF Next

LEMMA AlwaysInOrder == Spec => []Order
BY SoundStateInit, SoundStateStep, OrderInit, OrderStep, PTL DEF Spec

\* recv is run on a copy that is kept only if the content decrypts: unless the friend request
\* comes twice, or mail is handled while a send awaits and sends are started in parallel, the two
\* ratchets never fork, whatever else happens to the mail and to the sends.
THEOREM RatchetsNeverPart == Spec => []RatchetsAgree
<1>1. SoundState /\ Order => RatchetsAgree
  <2> SUFFICES ASSUME SoundState, AlignedState, NEW u \in Users, NEW v \in Users,
                      friends[u] # <<>>, friends[v] # <<>>,
                      Len(friends[u][1].root.inputs) <= Len(friends[v][1].root.inputs)
               PROVE  IsPrefix(friends[u][1].root.inputs, friends[v][1].root.inputs)
    BY DEF Order, Calm, RatchetsAgree
  <2> DEFINE mine == friends[u][1].root.inputs
             theirs == friends[v][1].root.inputs
  <2>1. mine \in Inputs /\ theirs \in Inputs
    BY DEF SoundState, RatchetsSound, Sound, Ratchet
  <2>2. /\ mine = <<>> \/ \E m \in sent : InputsOf(m) = mine
        /\ theirs = <<>> \/ \E m \in sent : InputsOf(m) = theirs
    BY DEF AlignedState, RatchetsAligned, Aligned
  <2> HIDE DEF mine, theirs
  <2>3. CASE mine = <<>>
    BY <2>1, <2>3, PrefixFacts DEF mine, theirs
  <2>4. CASE theirs = <<>>
    <3>1. Len(mine) = 0
      BY <2>1, <2>4, InputFacts, SMT DEF mine, theirs
    <3> QED BY <2>1, <2>3, <3>1, InputFacts
  <2>5. CASE (\E m \in sent : InputsOf(m) = mine) /\ (\E m \in sent : InputsOf(m) = theirs)
    BY <2>5 DEF AlignedState, Comparable, mine, theirs
  <2> QED BY <2>2, <2>3, <2>4, <2>5
<1> QED BY <1>1, AlwaysSound, AlwaysInOrder, PTL

-----------------------------------------------------------------------------
\* The ratchet that the next message of u is made with, once its send is through.
Current(u) == IF pending[u] = <<>> THEN friends[u][1] ELSE pending[u][1].dr

\* dr is past all keys that u has used.
Unused(u, dr, st) ==
    \A m \in st : m.from = u => /\ Len(InputsOf(m)) <= Len(dr.root.inputs)
                                /\ Len(InputsOf(m)) = Len(dr.root.inputs) => m.key[2] < dr.sender.step
KeysDiffer(st) == \A m, n \in st : m.key = n.key => m = n

FreshState ==
    KeysDiffer(sent) /\ \A u \in Users : friends[u] # <<>> => Unused(u, Current(u), sent)
Freshness == suffered \cap {"replay", "unacked", "parallel"} = {} => FreshState

LEMMA FreshStateIs ==
    ASSUME KeysDiffer(sent'), \A w \in Users : friends'[w] # <<>> => Unused(w, Current(w)', sent')
    PROVE  FreshState'
BY DEF FreshState, KeysDiffer, Unused, Current

\* Sending takes a key that was not used before, and is past it afterwards.
LEMMA SendFresh ==
    ASSUME SoundState, NEW u \in Users, NEW m, NEW e, Sends(u, m, e),
           KeysDiffer(sent), Unused(u, friends[u][1], sent)
    PROVE  KeysDiffer(sent') /\ Unused(u, e, sent')
<1> DEFINE dr == friends[u][1]
           a == Len(dr.root.inputs)
           b == Len(e.root.inputs)
           s == dr.sender.step
           k == m.key[2]
<1>1. /\ Sound(u, dr) /\ Sound(u, e) /\ Genuine(m) /\ m.from = u /\ InputsOf(m) = e.root.inputs
      /\ k + 1 = e.sender.step /\ e = Send(dr).dr
      /\ s # Guarding => k = s
      /\ sent' = sent \cup {m}
  BY DEF Sends, SoundState, RatchetsSound
<1>2. a \in Nat /\ b \in Nat /\ k \in Nat /\ s \in Int
  BY <1>1, InputFacts, GenuineFacts DEF Sound, Ratchet, Chain, Header
<1>3. \/ s # Guarding /\ b = a /\ k = s
      \/ b = a + 1
  <2>1. dr \in Ratchet
    BY <1>1 DEF Sound
  <2>2. e.root.inputs = IF s = Guarding THEN NextInputs(dr) ELSE dr.root.inputs
    BY <1>1, SendSound
  <2>3. Len(NextInputs(dr)) = a + 1
    BY <2>1, NextInputIs
  <2> QED BY <1>1, <2>2, <2>3
<1>4. \A n \in sent : n.from = u => /\ Len(InputsOf(n)) <= a
                                    /\ Len(InputsOf(n)) = a => n.key[2] < s
  BY DEF Unused
<1>5. \A n \in sent : /\ Len(InputsOf(n)) \in Nat /\ n.key[2] \in Nat /\ n.from \in Users
                      /\ TurnOf(n.from, Len(InputsOf(n)))
  BY GenuineFacts DEF SoundState, SentSound
<1> HIDE DEF dr, a, b, s
<1>6. \A n \in sent : n.from = u => /\ Len(InputsOf(n)) <= b
                                    /\ Len(InputsOf(n)) = b => n.key[2] < k
  BY <1>2, <1>3, <1>4, <1>5, SMT
<1>7. Unused(u, e, sent')
  <2>1. Len(InputsOf(m)) <= b /\ k < e.sender.step
    BY <1>1, <1>2, SMT DEF b
  <2>2. \A n \in sent : n.from = u => /\ Len(InputsOf(n)) <= b
                                      /\ Len(InputsOf(n)) = b => n.key[2] < e.sender.step
    <3> DEFINE t == e.sender.step
    <3>1. t = k + 1
      BY <1>1
    <3> HIDE DEF t, k
    <3>2. \A n \in sent : n.from = u => /\ Len(InputsOf(n)) <= b
                                        /\ Len(InputsOf(n)) = b => n.key[2] < t
      BY <1>2, <1>5, <1>6, <3>1, SMT
    <3> QED BY <3>2 DEF t
  <2> QED BY <1>1, <2>1, <2>2 DEF Unused, b
<1>8. KeysDiffer(sent')
  <2>1. ASSUME NEW n \in sent, n.key = m.key PROVE FALSE
    <3>1. InputsOf(n) = InputsOf(m) /\ n.key[2] = k
      BY <2>1 DEF InputsOf
    <3>2. Len(InputsOf(n)) = b /\ TurnOf(u, b)
      BY <1>1, <3>1, GenuineFacts DEF b
    <3>3. n.from = u
      <4>1. n.from = u \/ n.from = Other(u)
        BY <1>5, TurnFacts
      <4>2. ~TurnOf(Other(u), b)
        BY <1>2, <3>2, TurnFacts
      <4>3. TurnOf(n.from, b)
        BY <1>5, <3>2
      <4> QED BY <4>1, <4>2, <4>3
    <3>4. n.key[2] < k
      BY <1>6, <3>2, <3>3
    <3> QED BY <1>2, <3>1, <3>4, SMT
  <2> QED BY <1>1, <2>1 DEF KeysDiffer
<1> QED BY <1>7, <1>8

\* Reading leaves the sending chain as it is, or moves on to a later one.
LEMMA ReadFresh ==
    ASSUME SoundState, NEW u \in Users, NEW dr, Sound(u, dr), Unused(u, dr, sent), NEW e,
           NEW m \in sent, Stays(dr, e) \/ Turns(dr, e, m)
    PROVE  Unused(u, e, sent)
<1>1. CASE Stays(dr, e)
  BY <1>1 DEF Stays, Unused
<1>2. CASE Turns(dr, e, m)
  <2>1. PICK x \in Input : InputsOf(m) = Append(dr.root.inputs, x) /\ e.root.inputs = InputsOf(m)
    BY <1>2 DEF Turns
  <2>2. Len(dr.root.inputs) \in Nat /\ Len(e.root.inputs) = Len(dr.root.inputs) + 1
    BY <2>1, InputFacts DEF Sound, Ratchet
  <2>3. \A n \in sent : Len(InputsOf(n)) \in Nat /\ (n.from = u => Len(InputsOf(n)) <= Len(dr.root.inputs))
    BY GenuineFacts DEF Unused, SoundState, SentSound
  <2>4. \A n \in sent : n.from = u => /\ Len(InputsOf(n)) <= Len(e.root.inputs)
                                      /\ Len(InputsOf(n)) # Len(e.root.inputs)
    BY <2>2, <2>3, SMT
  <2> QED BY <2>4 DEF Unused
<1> QED BY <1>1, <1>2

LEMMA FreshnessInit == Init => Freshness
BY DEF Init, Freshness, FreshState, KeysDiffer

LEMMA FreshnessStep == SoundState /\ Order /\ Freshness /\ [Next]_vars => Freshness'
<1> SUFFICES ASSUME SoundState, Order, Freshness, [Next]_vars,
                    suffered' \cap {"replay", "unacked", "parallel"} = {}
             PROVE  FreshState'
  BY DEF Freshness
<1>1. suffered \subseteq suffered' /\ "parallel" \notin suffered' /\ "parallel" \notin suffered /\ Calm
  BY SuffersOn DEF Calm
<1>2. /\ Begun /\ KeysDiffer(sent)
      /\ \A w \in Users : friends[w] # <<>> => Unused(w, Current(w), sent)
  BY <1>1 DEF Order, AlignedState, Freshness, FreshState
<1>3. /\ friends = [v \in Users |-> friends[v]] /\ pending \in [Users -> Seq(Waiting)]
      /\ "alice" \in Users /\ "bob" \in Users
  BY DEF SoundState, RatchetsSound, Users
<1>4. \A w \in Users : friends[w] = <<>> => \A d : Unused(w, d, sent)
  BY <1>2 DEF Begun, Unused
<1>5. \A x : <<x>> # <<>> /\ <<x>>[1] = x
  OBVIOUS
\* A step that sends nothing and leaves what the next message is made with as it was.
<1>6. ASSUME sent' = sent, \A w \in Users : friends'[w] # <<>> => Unused(w, Current(w)', sent)
      PROVE  FreshState'
  BY <1>2, <1>6, FreshStateIs
<1>7. CASE SendFriendRequest
  <2>1. UNCHANGED <<friends, sent>> /\ drawn["alice"] = 0
    BY <1>7 DEF SendFriendRequest
  <2>2. \A w \in Users : friends[w] = <<>>
    BY <1>2, <2>1 DEF Begun
  <2> QED BY <1>6, <2>1, <2>2
<1>8. ASSUME NEW u \in Users, SendFriendMessage(u) PROVE FreshState'
  <2>1. PICK m, e : Sends(u, m, e)
    BY <1>8, SendIs
  <2> DEFINE p == [new |-> FALSE, dr |-> e]
  <2>2. /\ friends[u] # <<>> /\ pending[u] = <<>> /\ m.from = u /\ sent' = sent \cup {m}
        /\ pending' = [pending EXCEPT ![u] = <<p>>] /\ friends' = friends
    <3>1. pending[u] = <<>> /\ pending' = [pending EXCEPT ![u] = <<p>>]
      BY <1>1, <2>1, SendAlone
    <3>2. friends[u] # <<>> /\ m.from = u /\ sent' = sent \cup {m} /\ friends' = friends
      BY <2>1 DEF Sends
    <3> QED BY <3>1, <3>2
  <2>3. KeysDiffer(sent') /\ Unused(u, p.dr, sent')
    BY <1>2, <2>1, <2>2, SendFresh DEF Current
  <2> HIDE DEF p
  <2>4. \A w \in Users : Current(w)' = IF w = u THEN p.dr ELSE Current(w)
    BY <1>3, <1>5, <2>2 DEF Current
  <2>5. \A w \in Users : \A d : w # u /\ Unused(w, d, sent) => Unused(w, d, sent')
    BY <2>2 DEF Unused
  <2>6. \A w \in Users : friends'[w] # <<>> => Unused(w, Current(w)', sent')
    BY <1>2, <2>2, <2>3, <2>4, <2>5
  <2> QED BY <2>3, <2>6, FreshStateIs
<1>9. ASSUME NEW u \in Users, NEW i \in DOMAIN pending[u], FinishSend(u, i) PROVE FreshState'
  <2> DEFINE d == pending[u][1].dr
  <2>1. /\ pending[u] # <<>> /\ friends' = [friends EXCEPT ![u] = <<d>>]
        /\ pending' = [pending EXCEPT ![u] = <<>>] /\ sent' = sent
    <3>1. i = 1 /\ [pending EXCEPT ![u] = RemoveAt(@, i)] = [pending EXCEPT ![u] = <<>>]
      BY <1>1, <1>9, FinishAlone
    <3>2. Finishes(u, i, pending[u][i])
      BY <1>9, FinishIs
    <3> QED BY <3>1, <3>2 DEF Finishes
  <2>2. Current(u) = d
    BY <2>1 DEF Current
  <2> HIDE DEF d
  <2>3. \A w \in Users : Current(w)' = IF w = u THEN d ELSE Current(w)
    BY <1>3, <1>5, <2>1 DEF Current
  <2>4. Unused(u, d, sent)
    BY <1>2, <1>4, <2>2
  <2>5. \A w \in Users : w # u => friends'[w] = friends[w]
    BY <1>3, <2>1
  <2> QED BY <1>2, <1>6, <2>1, <2>3, <2>4, <2>5
<1>10. ASSUME NEW u \in Users, NEW i \in DOMAIN pending[u], FailSend(u, i) PROVE FreshState'
  BY <1>10 DEF FailSend, Fault
<1>11. ASSUME NEW u \in Users, Deliver(u) PROVE FreshState'
  <2>1. PICK i \in DOMAIN mail[u] : Handle(u, i)
    BY <1>11 DEF Deliver
  <2> DEFINE m == mail[u][i]
  <2>2. /\ UNCHANGED <<pending, sent>>
        /\ \/ Accepts(u, m) \/ \E e : Reads(u, m, e) \/ UNCHANGED <<friends, drawn, opened>>
    BY <2>1, HandleIs
  <2> HIDE DEF m
  <2>3. CASE UNCHANGED <<friends, drawn, opened>>
    <3>1. \A w \in Users : Current(w)' = Current(w)
      BY <2>2, <2>3 DEF Current
    <3> QED BY <1>2, <1>6, <2>2, <2>3, <3>1
  <2>4. ASSUME NEW d, friends' = [friends EXCEPT ![u] = <<d>>],
               pending[u] = <<>> \/ friends[u] # <<>>, pending[u] = <<>> => Unused(u, d, sent)
        PROVE  FreshState'
    <3>1. \A w \in Users : Current(w)' = IF w = u /\ pending[u] = <<>> THEN d ELSE Current(w)
      BY <1>3, <1>5, <2>2, <2>4 DEF Current
    <3>2. \A w \in Users : w # u => friends'[w] = friends[w]
      BY <1>3, <2>4
    <3> QED BY <1>2, <1>6, <2>2, <2>4, <3>1, <3>2
  <2>5. CASE Accepts(u, m)
    <3>1. /\ m \in FriendRequest /\ u = "bob"
          /\ friends' = [friends EXCEPT ![u] = <<Recipient(m.init, Random(u))>>]
      BY <2>5 DEF Accepts
    <3>2. friends["bob"] = <<>> /\ pending["bob"] = <<>>
      BY <1>2, <2>1, <3>1 DEF Begun, NoRequest, m
    <3> QED BY <1>4, <2>4, <3>1, <3>2
  <2>6. CASE \E e : Reads(u, m, e)
    <3>1. PICK e : Reads(u, m, e)
      BY <2>6
    <3>2. /\ m \in sent /\ friends[u] # <<>> /\ (Stays(friends[u][1], e) \/ Turns(friends[u][1], e, m))
          /\ friends' = [friends EXCEPT ![u] = <<e>>]
      BY <3>1 DEF Reads
    <3>3. ASSUME pending[u] = <<>> PROVE Unused(u, e, sent)
      <4>1. Sound(u, friends[u][1]) /\ Unused(u, friends[u][1], sent)
        BY <1>2, <3>2, <3>3 DEF SoundState, RatchetsSound, Current
      <4> QED BY <3>2, <4>1, ReadFresh
    <3> QED BY <2>4, <3>2, <3>3
  <2> QED BY <2>2, <2>3, <2>5, <2>6
<1>12. ASSUME UNCHANGED <<friends, pending, sent>> PROVE FreshState'
  <2>1. \A w \in Users : Current(w)' = Current(w)
    BY <1>12 DEF Current
  <2> QED BY <1>2, <1>6, <1>12, <2>1
<1>13. ASSUME NEW u \in Users, Lose(u) \/ Duplicate(u) PROVE FreshState'
  BY <1>12, <1>13 DEF Lose, Duplicate
<1>14. CASE UNCHANGED vars
  BY <1>12, <1>14 DEF vars
<1> QED BY <1>7, <1>8, <1>9, <1>10, <1>11, <1>13, <1>14 DEF Next

\* send moves the chain on for every message, and starts a new one after an answer: no two
\* messages are encrypted with one key, as long as no send is reported as failed
\* and every send is over before the next.
THEOREM KeysAreNotReused == Spec => []KeysAreFresh
<1>1. Spec => []Freshness
  BY SoundStateInit, SoundStateStep, OrderInit, OrderStep, FreshnessInit, FreshnessStep, PTL DEF Spec
<1>2. Freshness => KeysAreFresh
  BY DEF Freshness, FreshState, KeysDiffer, KeysAreFresh
<1> QED BY <1>1, <1>2, PTL

-----------------------------------------------------------------------------
\* The keys of what u has read.
ReadKeys(u) == {opened[u][i].key : i \in DOMAIN opened[u]}

SecretState ==
    \A u \in Users : /\ friends[u] # <<>> => Spent(friends[u][1], ReadKeys(u))
                     /\ \A i \in DOMAIN pending[u] : Spent(pending[u][i].dr, ReadKeys(u))
Secrecy == suffered \cap {"replay", "overlap"} = {} => SecretState

LEMMA SecretStateIs ==
    ASSUME \A w \in Users : /\ friends'[w] # <<>> => Spent(friends'[w][1], ReadKeys(w)')
                            /\ \A i \in DOMAIN pending'[w] : Spent(pending'[w][i].dr, ReadKeys(w)')
    PROVE  SecretState'
BY DEF SecretState, Spent, Past, ReadKeys

LEMMA BeginSpent ==
    /\ \A init : Spent(Sender(init), {})
    /\ \A init, random : Spent(Recipient(init, random), {})
<1>1. DOMAIN <<>> = {}
  OBVIOUS
<1>2. \A init : Sender(init).missing = <<>>
  BY DEF Sender
<1>3. \A init, random : Recipient(init, random).missing = <<>>
  BY DEF Recipient
<1> QED BY <1>1, <1>2, <1>3 DEF Spent

LEMMA SecrecyInit == Init => Secrecy
BY DEF Init, Secrecy, SecretState

LEMMA SecrecyStep == SoundState /\ Order /\ Secrecy /\ [Next]_vars => Secrecy'
<1> SUFFICES ASSUME SoundState, Order, Secrecy, [Next]_vars, suffered' \cap {"replay", "overlap"} = {}
             PROVE  SecretState'
  BY DEF Secrecy
<1>1. suffered \subseteq suffered' /\ Calm
  BY SuffersOn DEF Calm
<1>2. /\ Begun
      /\ \A w \in Users : /\ friends[w] # <<>> => Spent(friends[w][1], ReadKeys(w))
                          /\ \A i \in DOMAIN pending[w] : Spent(pending[w][i].dr, ReadKeys(w))
  BY <1>1 DEF Order, AlignedState, Secrecy, SecretState
<1>3. /\ friends = [v \in Users |-> friends[v]] /\ pending \in [Users -> Seq(Waiting)]
      /\ opened \in [Users -> Seq(FriendMessage)] /\ "alice" \in Users /\ "bob" \in Users
  BY DEF SoundState, RatchetsSound, Users
<1>4. \A x : <<x>> # <<>> /\ <<x>>[1] = x /\ \A i \in DOMAIN <<x>> : <<x>>[i] = x
  OBVIOUS
\* Before the friendship nothing was read.
<1>5. \A w \in Users : friends[w] = <<>> => ReadKeys(w) = {}
  BY <1>2 DEF Begun, ReadKeys
<1>6. ASSUME opened' = opened PROVE \A w \in Users : ReadKeys(w)' = ReadKeys(w)
  BY <1>6 DEF ReadKeys
<1>7. CASE SendFriendRequest
  <2> DEFINE p == [new |-> TRUE, dr |-> Sender(Random("alice"))]
  <2>1. /\ pending' = [pending EXCEPT !["alice"] = <<p>>] /\ UNCHANGED <<friends, opened>>
        /\ drawn["alice"] = 0
    BY <1>7 DEF SendFriendRequest
  <2>2. Spent(p.dr, ReadKeys("alice"))
    BY <1>2, <1>3, <1>5, <2>1, BeginSpent DEF Begun
  <2> HIDE DEF p
  <2>3. \A w \in Users : pending'[w] = IF w = "alice" THEN <<p>> ELSE pending[w]
    BY <1>3, <2>1
  <2> QED BY <1>2, <1>4, <1>6, <2>1, <2>2, <2>3, SecretStateIs
<1>8. ASSUME NEW u \in Users, SendFriendMessage(u) PROVE SecretState'
  <2>1. PICK m, e : Sends(u, m, e)
    BY <1>8, SendIs
  <2> DEFINE p == [new |-> FALSE, dr |-> e]
             dr == friends[u][1]
  <2>2. /\ friends[u] # <<>> /\ e = Send(dr).dr
        /\ pending' = [pending EXCEPT ![u] = Append(@, p)] /\ UNCHANGED <<friends, opened>> /\ Sound(u, e)
    BY <2>1 DEF Sends
  <2>7. p \in Waiting
    BY <2>2 DEF Waiting, Sound
  <2>3. Sound(u, dr) /\ Spent(dr, ReadKeys(u))
    BY <1>2, <2>2 DEF SoundState, RatchetsSound
  <2>4. e.receiver = dr.receiver /\ e.missing = dr.missing
    BY <2>2, <2>3, SendSound
  <2>5. Spent(p.dr, ReadKeys(u))
    BY <2>3, <2>4 DEF Spent, Past
  <2> HIDE DEF p, dr
  <2>6. \A w \in Users : pending'[w] = IF w = u THEN Append(pending[u], p) ELSE pending[w]
    BY <1>3, <2>2
  <2>8. \A w \in Users : \A i \in DOMAIN pending'[w] : Spent(pending'[w][i].dr, ReadKeys(w))
    <3>1. \A i \in DOMAIN Append(pending[u], p) :
             Append(pending[u], p)[i] = p \/ \E k \in DOMAIN pending[u] : Append(pending[u], p)[i] = pending[u][k]
      BY <1>3, <2>7, MoreWaiting
    <3> QED BY <1>2, <2>5, <2>6, <3>1
  <2> QED BY <1>2, <1>6, <2>2, <2>8, SecretStateIs
\* The copies that go on awaiting.
<1>15. ASSUME NEW u \in Users, NEW i \in DOMAIN pending[u], pending' = [pending EXCEPT ![u] = RemoveAt(@, i)]
       PROVE  \A w \in Users : \A j \in DOMAIN pending'[w] : Spent(pending'[w][j].dr, ReadKeys(w))
  <2>1. \A j \in DOMAIN RemoveAt(pending[u], i) : \E k \in DOMAIN pending[u] : RemoveAt(pending[u], i)[j] = pending[u][k]
    BY <1>3, <1>15, RestOfWaiting
  <2>2. \A w \in Users : pending'[w] = IF w = u THEN RemoveAt(pending[u], i) ELSE pending[w]
    BY <1>3, <1>15
  <2> QED BY <1>2, <2>1, <2>2
<1>9. ASSUME NEW u \in Users, NEW i \in DOMAIN pending[u], FinishSend(u, i) PROVE SecretState'
  <2> DEFINE d == pending[u][i].dr
  <2>1. /\ friends' = [friends EXCEPT ![u] = <<d>>]
        /\ pending' = [pending EXCEPT ![u] = RemoveAt(@, i)] /\ opened' = opened
    BY <1>9, FinishIs DEF Finishes
  <2>2. Spent(d, ReadKeys(u))
    BY <1>2, <2>1
  <2>4. \A w \in Users : \A j \in DOMAIN pending'[w] : Spent(pending'[w][j].dr, ReadKeys(w))
    BY <1>15, <2>1
  <2> HIDE DEF d
  <2>3. \A w \in Users : friends'[w] = (IF w = u THEN <<d>> ELSE friends[w])
    BY <1>3, <2>1
  <2> QED BY <1>2, <1>4, <1>6, <2>1, <2>2, <2>3, <2>4, SecretStateIs
<1>10. ASSUME NEW u \in Users, NEW i \in DOMAIN pending[u], FailSend(u, i) PROVE SecretState'
  <2>1. pending' = [pending EXCEPT ![u] = RemoveAt(@, i)] /\ UNCHANGED <<friends, opened>>
    BY <1>10, FinishIs DEF Fails
  <2>2. \A w \in Users : \A j \in DOMAIN pending'[w] : Spent(pending'[w][j].dr, ReadKeys(w))
    BY <1>15, <2>1
  <2> QED BY <1>2, <1>6, <2>1, <2>2, SecretStateIs
<1>11. ASSUME NEW u \in Users, Deliver(u) PROVE SecretState'
  <2>1. PICK i \in DOMAIN mail[u] : Handle(u, i)
    BY <1>11 DEF Deliver
  <2> DEFINE m == mail[u][i]
  <2>2. /\ UNCHANGED <<pending, sent>> /\ pending[u] = <<>>
        /\ \/ Accepts(u, m) \/ \E e : Reads(u, m, e) \/ UNCHANGED <<friends, drawn, opened>>
    BY <2>1, HandleIs
  <2> HIDE DEF m
  <2>3. CASE UNCHANGED <<friends, drawn, opened>>
    BY <1>2, <1>6, <2>2, <2>3, SecretStateIs
  <2>4. CASE Accepts(u, m)
    <3> DEFINE d == Recipient(m.init, Random(u))
    <3>1. m \in FriendRequest /\ u = "bob" /\ friends' = [friends EXCEPT ![u] = <<d>>] /\ opened' = opened
      BY <2>4 DEF Accepts
    <3>2. friends["bob"] = <<>>
      BY <1>2, <2>1, <3>1 DEF Begun, NoRequest, m
    <3>3. Spent(d, ReadKeys(u))
      BY <1>5, <3>1, <3>2, BeginSpent
    <3> HIDE DEF d
    <3>4. \A w \in Users : friends'[w] = IF w = u THEN <<d>> ELSE friends[w]
      BY <1>3, <3>1
    <3> QED BY <1>2, <1>4, <1>6, <2>2, <3>1, <3>3, <3>4, SecretStateIs
  <2>5. CASE \E e : Reads(u, m, e)
    <3>1. PICK e : Reads(u, m, e)
      BY <2>5
    <3>2. /\ m \in FriendMessage /\ friends[u] # <<>>
          /\ \A used \in SUBSET Key : Spent(friends[u][1], used) => Spent(e, used \cup {m.key})
          /\ friends' = [friends EXCEPT ![u] = <<e>>]
          /\ opened' = [opened EXCEPT ![u] = Append(@, m)]
      BY <3>1 DEF Reads
    <3>3. ReadKeys(u) \in SUBSET Key
      <4>1. \A j \in DOMAIN opened[u] : opened[u][j] \in FriendMessage
        BY <1>3, LenProperties
      <4> QED BY <4>1 DEF ReadKeys, FriendMessage
    <3>4. Spent(e, ReadKeys(u) \cup {m.key})
      BY <1>2, <3>2, <3>3
    <3>5. \A w \in Users : /\ friends'[w] = (IF w = u THEN <<e>> ELSE friends[w])
                           /\ opened'[w] = (IF w = u THEN Append(opened[u], m) ELSE opened[w])
      BY <1>3, <3>2
    <3>6. ReadKeys(u)' = ReadKeys(u) \cup {m.key}
      <4> DEFINE s == opened[u]  t == Append(s, m)
      <4>1. s \in Seq(FriendMessage)
        BY <1>3
      <4>2. /\ t \in Seq(FriendMessage) /\ Len(t) = Len(s) + 1 /\ \A j \in 1 .. Len(s) : t[j] = s[j]
            /\ t[Len(s) + 1] = m
        BY <3>2, <4>1, AppendProperties
      <4>3. DOMAIN s = 1 .. Len(s) /\ DOMAIN t = 1 .. Len(t) /\ Len(s) \in Nat
        BY <4>1, <4>2, LenProperties
      <4> HIDE DEF s, t
      <4>4. DOMAIN t = DOMAIN s \cup {Len(s) + 1}
        BY <4>2, <4>3, SMT
      <4>5. {t[j].key : j \in DOMAIN t} = {s[j].key : j \in DOMAIN s} \cup {m.key}
        BY <4>2, <4>3, <4>4
      <4>6. ReadKeys(u)' = {t[j].key : j \in DOMAIN t}
        BY <3>5 DEF ReadKeys, s, t
      <4> QED BY <4>5, <4>6 DEF ReadKeys, s
    <3>7. \A w \in Users : w # u => ReadKeys(w)' = ReadKeys(w)
      BY <3>5 DEF ReadKeys
    <3>8. Spent(e, ReadKeys(u)')
      BY <3>4, <3>6
    <3> QED BY <1>2, <1>4, <2>2, <3>5, <3>7, <3>8, SecretStateIs
  <2> QED BY <2>2, <2>3, <2>4, <2>5
<1>12. ASSUME UNCHANGED <<friends, pending, opened>> PROVE SecretState'
  BY <1>2, <1>6, <1>12, SecretStateIs
<1>13. ASSUME NEW u \in Users, Lose(u) \/ Duplicate(u) PROVE SecretState'
  BY <1>12, <1>13 DEF Lose, Duplicate
<1>14. CASE UNCHANGED vars
  BY <1>12, <1>14 DEF vars
<1> QED BY <1>7, <1>8, <1>9, <1>10, <1>11, <1>13, <1>14 DEF Next

\* recv moves the chain on and find_missing_message takes a key out: the key of a message that
\* was read cannot be had from the vault any more, whatever came late, twice or not at all.
THEOREM ReadKeysStayGone == Spec => []ReadKeysAreGone
<1>1. Spec => []Secrecy
  BY SoundStateInit, SoundStateStep, OrderInit, OrderStep, SecrecyInit, SecrecyStep, PTL DEF Spec
<1>2. SoundState /\ Order /\ Secrecy => ReadKeysAreGone
  <2> SUFFICES ASSUME SoundState, AlignedState, SecretState, NEW u \in Users, NEW i \in DOMAIN opened[u]
               PROVE  ~HoldsKey(friends[u][1], opened[u][i].key)
    BY DEF Order, Calm, Secrecy, ReadKeysAreGone
  <2> DEFINE key == opened[u][i].key
             dr == friends[u][1]
  <2>1. friends[u] # <<>>
    BY DEF AlignedState, Begun
  <2>2. Sound(u, dr) /\ Spent(dr, ReadKeys(u)) /\ key \in ReadKeys(u)
    BY <2>1 DEF SoundState, RatchetsSound, SecretState, ReadKeys
  <2>3. key[2] \in Int /\ dr.receiver.step \in Nat
    <3>1. opened[u] \in Seq(FriendMessage)
      BY DEF SoundState
    <3>2. opened[u][i] \in FriendMessage
      BY <3>1, LenProperties
    <3>3. key \in Key
      BY <3>2 DEF FriendMessage
    <3> HIDE DEF key
    <3> QED BY <2>2, <3>3 DEF Key, Sound
  <2> HIDE DEF key, dr
  <2>4. /\ key[1] = dr.receiver.root => key[2] < dr.receiver.step
        /\ \A j \in DOMAIN dr.missing : dr.missing[j].key # key
    BY <2>2 DEF Spent, Past
  <2>5. ~HoldsKey(dr, key)
    BY <2>3, <2>4, SMT DEF HoldsKey
  <2> QED BY <2>5 DEF key, dr
<1> QED BY <1>1, <1>2, AlwaysSound, AlwaysInOrder, PTL

-----------------------------------------------------------------------------
\* As long as the mail is only disordered, the two ends are at most one unread chain apart.

\* After n inputs, the next chain that also takes a post-quantum secret is u's.
NextMajor(u, n) ==
    \E k \in n + 1 .. n + KyberPeriod :
        IsMajor(k + 2) /\ TurnOf(u, k) /\ \A j \in n + 1 .. k - 1 : ~IsMajor(j + 2)

\* The one who sends on that chain has sealed the secret for the key of the other one.
Fits(a, b) == a.cp # Nothing /\ a.cp[1] = b.kyber /\ a.ss = a.cp
Prepared(u, a, b, n) == \/ NextMajor(u, n) /\ Fits(a, b)
                        \/ NextMajor(Other(u), n) /\ Fits(b, a)

\* a, of u, sends on the chain that b reads; b, of the other one, is yet to derive the next one.
Even(u, a, b) ==
    /\ a.root.inputs = b.root.inputs
    /\ a.sender.step # Guarding /\ b.sender.step = Guarding
    /\ a.receiver_hash = b.sender_hash /\ b.receiver_hash = a.sender_hash
    /\ b.seed = Dh(b.x25519, a.x25519)
    /\ b.receiver.step <= a.sender.step /\ a.receiver.step <= b.prev_sub_count
    /\ Prepared(u, a, b, Len(b.root.inputs))

\* a sends on a chain of which b has read nothing.
Ahead(u, a, b) ==
    /\ a.root.inputs = Append(b.root.inputs, <<Dh(b.x25519, a.x25519),
                                               IF IsMajor(a.root.step) THEN a.ss ELSE Nothing>>)
    /\ a.sender.step # Guarding /\ b.sender.step # Guarding
    /\ a.receiver_hash = b.sender_hash
    /\ b.receiver.step <= a.prev_sub_count /\ a.receiver.step <= b.sender.step
    /\ Prepared(u, a, b, Len(b.root.inputs))

\* m is the first message of that chain, as b expects it.
Opens(m, a, b) ==
    /\ m.header.sub_step = 0 /\ InputsOf(m) = a.root.inputs /\ m.session = b.receiver_hash
    /\ m.header.x25519 = a.x25519 /\ m.header.public = a.kyber /\ m.header.cp = a.cp
    /\ m.header.prev_sub_count = a.prev_sub_count

\* A ratchet that sends has used its chain, and names its sessions after its chains.
Tidy(dr) == /\ dr.sender.step # Guarding =>
                  dr.sender.step >= 1 /\ dr.sender_hash = ChainOf(dr.root.inputs)
            /\ Len(dr.receiver_hash.inputs) <= Len(dr.root.inputs)

LEMMA RemainderFacts ==
    ASSUME NEW P \in Nat, P > 1, NEW q \in Nat
    PROVE  /\ (P * q + P) % P = 0
           /\ \A d \in 0 .. P - 1 : (P * q + d) % P = d
BY SMTT(30)

LEMMA PeriodFacts ==
    ASSUME NEW n \in Nat, IsMajor(n)
    PROVE  /\ \A d \in 1 .. KyberPeriod - 1 : ~IsMajor(n + d)
           /\ IsMajor(n + KyberPeriod)
<1> DEFINE P == KyberPeriod
           q == n \div P
<1>1. P \in Nat /\ P > 1 /\ n % P = 0
  BY RatchetAssumption DEF IsMajor
<1>2. q \in Nat /\ n = P * q
  BY <1>1, SMT
<1> HIDE DEF q, P
<1>3. (P * q + P) % P = 0 /\ \A d \in 0 .. P - 1 : (P * q + d) % P = d
  BY <1>1, <1>2, RemainderFacts
<1>4. \A d \in 1 .. P - 1 : d \in 0 .. P - 1 /\ d # 0
  BY <1>1, SMT
<1> QED BY <1>2, <1>3, <1>4 DEF IsMajor, P

LEMMA NextMajorFacts ==
    /\ NextMajor("bob", 0)
    /\ \A u \in Users : \A n \in Nat : NextMajor(u, n) =>
          IF IsMajor(n + 3) THEN TurnOf(u, n + 1) /\ NextMajor(Other(u), n + 1)
                            ELSE NextMajor(u, n + 1)
<1>1. NextMajor("bob", 0)
  <2> DEFINE k == KyberPeriod - 2
  <2>1. k \in 0 + 1 .. 0 + KyberPeriod /\ TurnOf("bob", k) /\ k + 2 = KyberPeriod
    BY RatchetAssumption, SMT DEF TurnOf
  <2>2. IsMajor(0)
    BY RatchetAssumption, SMT DEF IsMajor
  <2>3. IsMajor(k + 2)
    BY <2>1, <2>2, RatchetAssumption, SMT DEF IsMajor
  <2>4. ASSUME NEW j \in 0 + 1 .. k - 1 PROVE ~IsMajor(j + 2)
    <3>1. j + 2 \in 1 .. KyberPeriod - 1 /\ 0 + (j + 2) = j + 2
      BY <2>1, RatchetAssumption, SMT
    <3>2. ~IsMajor(0 + (j + 2))
      BY <2>2, <3>1, PeriodFacts
    <3> QED BY <3>1, <3>2
  <2> QED BY <2>1, <2>3, <2>4 DEF NextMajor
<1>2. ASSUME NEW u \in Users, NEW n \in Nat, NextMajor(u, n)
      PROVE  IF IsMajor(n + 3) THEN TurnOf(u, n + 1) /\ NextMajor(Other(u), n + 1)
                               ELSE NextMajor(u, n + 1)
  <2>1. PICK k \in n + 1 .. n + KyberPeriod :
          IsMajor(k + 2) /\ TurnOf(u, k) /\ \A j \in n + 1 .. k - 1 : ~IsMajor(j + 2)
    BY <1>2 DEF NextMajor
  <2>2. k \in Nat /\ n + 1 \in Nat /\ (n + 1) + 2 = n + 3 /\ KyberPeriod \in Nat /\ KyberPeriod > 1
    BY RatchetAssumption, SMT
  <2>3. CASE IsMajor(n + 3)
    <3>1. k = n + 1
      <4>1. n + 1 \in n + 1 .. k - 1 \/ k = n + 1
        BY <2>2, SMT
      <4> QED BY <2>1, <2>2, <2>3, <4>1
    <3> DEFINE l == n + 1 + KyberPeriod
    <3>2. l \in (n + 1) + 1 .. (n + 1) + KyberPeriod /\ l + 2 = (n + 3) + KyberPeriod /\ l \in Nat
      BY <2>2, SMT
    <3>3. IsMajor(l + 2)
      <4>1. IsMajor((n + 3) + KyberPeriod)
        BY <2>3, PeriodFacts
      <4> QED BY <3>2, <4>1
    <3>4. TurnOf(Other(u), l)
      BY <2>1, <3>1, RatchetAssumption, SMT DEF TurnOf, Other, Users
    <3>5. ASSUME NEW j \in (n + 1) + 1 .. l - 1 PROVE ~IsMajor(j + 2)
      <4>1. j - (n + 1) \in 1 .. KyberPeriod - 1 /\ (n + 3) + (j - (n + 1)) = j + 2
        BY <2>2, <3>2, SMT
      <4>2. ~IsMajor((n + 3) + (j - (n + 1)))
        BY <2>3, <4>1, PeriodFacts
      <4> QED BY <4>1, <4>2
    <3> HIDE DEF l
    <3>6. NextMajor(Other(u), n + 1)
      BY <3>2, <3>3, <3>4, <3>5 DEF NextMajor
    <3> QED BY <2>1, <2>3, <3>1, <3>6
  <2>4. CASE ~IsMajor(n + 3)
    <3>1. k # n + 1
      BY <2>1, <2>2, <2>4
    <3>2. k \in (n + 1) + 1 .. (n + 1) + KyberPeriod
      BY <2>2, <3>1, SMT
    <3>3. \A j \in (n + 1) + 1 .. k - 1 : j \in n + 1 .. k - 1
      BY <2>2, SMT
    <3> QED BY <2>1, <2>4, <3>2, <3>3 DEF NextMajor
  <2> QED BY <2>3, <2>4
<1> QED BY <1>1, <1>2

\* send, in the fields that matter to the other one.
LEMMA SendMoves ==
    ASSUME NEW u \in Users, NEW dr, Sound(u, dr)
    PROVE  LET e == Send(dr).dr  h == Send(dr).header
           IN  /\ e.x25519 = dr.x25519 /\ e.kyber = dr.kyber /\ e.cp = dr.cp /\ e.ss = dr.ss
               /\ e.prev_sub_count = dr.prev_sub_count /\ e.receiver = dr.receiver
               /\ e.receiver_hash = dr.receiver_hash
               /\ h.x25519 = dr.x25519 /\ h.public = dr.kyber /\ h.cp = dr.cp
               /\ h.prev_sub_count = dr.prev_sub_count
               /\ dr.sender.step # Guarding =>
                    /\ e.root = dr.root /\ e.sender_hash = dr.sender_hash /\ e.seed = dr.seed
                    /\ e.sender.step = dr.sender.step + 1 /\ h.sub_step = dr.sender.step
               /\ dr.sender.step = Guarding =>
                    /\ e.root.inputs = NextInputs(dr) /\ e.root.step = dr.root.step + 1
                    /\ e.sender_hash = Derived(NextInputs(dr))
                    /\ e.sender.step = 1 /\ h.sub_step = 0
<1> DEFINE root == NextRk(dr.root, NextInput(dr))
           chain == Derived(root.inputs)
           sn == [step |-> 0, root |-> chain]
           d == Ready(dr)
           e == [d EXCEPT !.sender = NextSc(@)]
           h == [step |-> d.root.step, sub_step |-> d.sender.step,
                 prev_sub_count |-> d.prev_sub_count, x25519 |-> d.x25519,
                 major |-> IsMajor(d.root.step), public |-> d.kyber, cp |-> d.cp]
<1>1. Send(dr).dr = e /\ Send(dr).header = h
  BY DEF Send
<1>2. dr \in Ratchet /\ dr.sender.step \in Int
  BY DEF Sound, Ratchet, Chain
<1>3. d \in Ratchet /\ d.sender \in Chain
  BY ReadySound DEF Sound, Ratchet
<1>4. d = IF dr.sender.step # Guarding THEN dr
          ELSE [dr EXCEPT !.root = root, !.sender = sn, !.sender_hash = chain, !.seed = {}]
  BY DEF Ready, NextInput
<1>5. /\ NextSc(d.sender).step = d.sender.step + 1 /\ sn.step = 0
      /\ root.inputs = NextInputs(dr) /\ root.step = dr.root.step + 1
  BY <1>3 DEF NextSc, NextRk, NextInputs, Chain
<1>6. /\ h.x25519 = d.x25519 /\ h.public = d.kyber /\ h.cp = d.cp
      /\ h.prev_sub_count = d.prev_sub_count /\ h.sub_step = d.sender.step
  OBVIOUS
<1> DEFINE nx == NextSc(d.sender)
<1>7. e = [d EXCEPT !.sender = nx]
  OBVIOUS
<1> HIDE DEF d, h, root, sn, nx, e
<1>8. /\ e.x25519 = d.x25519 /\ e.kyber = d.kyber /\ e.cp = d.cp /\ e.ss = d.ss
      /\ e.prev_sub_count = d.prev_sub_count /\ e.receiver = d.receiver
      /\ e.receiver_hash = d.receiver_hash /\ e.root = d.root /\ e.sender_hash = d.sender_hash
      /\ e.seed = d.seed /\ e.sender = nx
  BY <1>3, <1>7 DEF Ratchet
<1>9. nx.step = d.sender.step + 1
  BY <1>5 DEF nx
<1>10. CASE dr.sender.step # Guarding
  <2>1. d = dr
    BY <1>4, <1>10
  <2> QED BY <1>1, <1>6, <1>8, <1>9, <1>10, <2>1
<1>11. CASE dr.sender.step = Guarding
  <2>1. d = [dr EXCEPT !.root = root, !.sender = sn, !.sender_hash = chain, !.seed = {}]
    BY <1>4, <1>11
  <2> HIDE DEF chain
  <2>2. /\ d.x25519 = dr.x25519 /\ d.kyber = dr.kyber /\ d.cp = dr.cp /\ d.ss = dr.ss
        /\ d.prev_sub_count = dr.prev_sub_count /\ d.receiver = dr.receiver
        /\ d.receiver_hash = dr.receiver_hash /\ d.root = root /\ d.sender_hash = chain
        /\ d.sender = sn
    BY <1>2, <2>1 DEF Ratchet
  <2>3. chain = Derived(NextInputs(dr)) /\ nx.step = 1 /\ d.sender.step = 0
    BY <1>5, <1>9, <2>2 DEF chain
  <2> QED BY <1>1, <1>5, <1>6, <1>8, <1>11, <2>2, <2>3
<1> QED BY <1>10, <1>11

\* recv of a message of the present or an earlier chain.
LEMMA ReadMoves ==
    ASSUME NEW u \in Users, NEW dr, Sound(u, dr), NEW m, Genuine(m), NEW random,
           Decrypted(dr, m, random).ok, m.header.step <= dr.root.step
    PROVE  LET e == Decrypted(dr, m, random).dr
           IN  /\ SameChain(dr, e)
               /\ e.receiver.step # dr.receiver.step =>
                     m.header.step = dr.root.step /\ e.receiver.step = m.header.sub_step + 1
<1> DEFINE r == Recv(dr, m.header, random)
           h == m.header
<1>1. Decrypted(dr, m, random) = [r EXCEPT !.ok = r.ok /\ r.key = m.key]
  BY DEF Decrypted
<1>2. dr \in Ratchet /\ dr.receiver.step \in Nat /\ dr.root.step \in Nat
  BY DEF Sound, Ratchet
<1>3. h.sub_step \in Nat /\ h.step \in Nat
  BY GenuineFacts
<1> HIDE DEF h
<1>4. CASE \/ h.step < dr.root.step
           \/ h.step = dr.root.step /\ h.sub_step < dr.receiver.step
  <2>1. r = FindMissing(dr, h)
    BY <1>2, <1>3, <1>4, SMT DEF Recv, h
  <2>2. \/ r = [ok |-> FALSE, dr |-> dr, key |-> Nothing]
        \/ \E k, e : r = [ok |-> TRUE, key |-> k, dr |-> e]
    BY <2>1 DEF FindMissing, RecvErr
  <2> HIDE DEF r
  <2>3. r.ok /\ Decrypted(dr, m, random).dr = r.dr
    BY <1>1, <2>2
  <2>4. SameChain(dr, r.dr) /\ r.dr.receiver = dr.receiver
    BY <1>2, <2>1, <2>3, FindIs
  <2> QED BY <2>3, <2>4
<1>5. CASE h.step = dr.root.step /\ h.sub_step >= dr.receiver.step
  <2>1. r = Advance(dr, h)
    BY <1>2, <1>3, <1>5, SMT DEF Recv, h
  <2>2. \E k, e : r = [ok |-> TRUE, key |-> k, dr |-> e]
    BY <2>1 DEF Advance
  <2> HIDE DEF r
  <2>3. Decrypted(dr, m, random).dr = r.dr
    BY <1>1, <2>2
  <2>4. SameChain(dr, r.dr) /\ r.dr.receiver.step = h.sub_step + 1
    BY <1>2, <1>3, <1>5, <2>1, AdvanceIs
  <2> QED BY <1>5, <2>3, <2>4 DEF h
<1>6. \/ h.step < dr.root.step
      \/ h.step = dr.root.step /\ h.sub_step < dr.receiver.step
      \/ h.step = dr.root.step /\ h.sub_step >= dr.receiver.step
  BY <1>2, <1>3, SMT DEF h
<1> QED BY <1>4, <1>5, <1>6

\* The fields of a ratchet that has turned that the other one does not see.
LEMMA TurnedMoves ==
    ASSUME NEW dr \in Ratchet, NEW h \in Header, NEW random \in Name
    PROVE  LET t == Turned(dr, h, random)
           IN  /\ t.x25519 = random /\ t.prev_sub_count = dr.sender.step
               /\ t.receiver_hash = Derived(Append(dr.root.inputs, TurnInput(dr, h)))
               /\ t.sender_hash = dr.sender_hash /\ t.seed = Dh(random, h.x25519)
               /\ IF h.major THEN t.kyber = random /\ t.cp = <<h.public, random>> /\ t.ss = t.cp
                  ELSE t.kyber = dr.kyber /\ t.cp = dr.cp /\ t.ss = dr.ss
<1> DEFINE inputs == Append(dr.root.inputs, TurnInput(dr, h))
           root == [step |-> dr.root.step + 1, inputs |-> inputs]
           sn == [step |-> Guarding, root |-> Zeroed]
           rc == [step |-> 0, root |-> Derived(inputs)]
           hash == Derived(inputs)
           seed == Dh(random, h.x25519)
           new == [dr EXCEPT !.root = root, !.x25519 = random, !.prev_sub_count = dr.sender.step,
                             !.sender = sn, !.receiver = rc, !.receiver_hash = hash,
                             !.seed = seed]
           cp == <<h.public, random>>
           t == Turned(dr, h, random)
<1>1. t = IF ~h.major THEN new ELSE [new EXCEPT !.kyber = random, !.cp = cp, !.ss = cp]
  BY DEF Turned, NextRk, TurnInput, Encapsulate
<1> HIDE DEF root, sn, rc, hash, seed, cp, t
<1>2. /\ new.x25519 = random /\ new.prev_sub_count = dr.sender.step /\ new.receiver_hash = hash
      /\ new.sender_hash = dr.sender_hash /\ new.seed = seed
      /\ new.kyber = dr.kyber /\ new.cp = dr.cp /\ new.ss = dr.ss
  BY DEF Ratchet
<1>3. ASSUME NEW x, x = [new EXCEPT !.kyber = random, !.cp = cp, !.ss = cp]
      PROVE  /\ x.x25519 = random /\ x.prev_sub_count = dr.sender.step /\ x.receiver_hash = hash
             /\ x.sender_hash = dr.sender_hash /\ x.seed = seed
             /\ x.kyber = random /\ x.cp = cp /\ x.ss = cp
  BY <1>3 DEF Ratchet
<1> HIDE DEF new
<1>4. /\ t.x25519 = random /\ t.prev_sub_count = dr.sender.step /\ t.receiver_hash = hash
      /\ t.sender_hash = dr.sender_hash /\ t.seed = seed
      /\ IF h.major THEN t.kyber = random /\ t.cp = cp /\ t.ss = cp
         ELSE t.kyber = dr.kyber /\ t.cp = dr.cp /\ t.ss = dr.ss
  BY <1>1, <1>2, <1>3
<1> QED BY <1>4 DEF hash, seed, cp, t

\* The first message of the chain is read when it comes, and then the ends are even.
LEMMA OpenerTurns ==
    ASSUME NEW u \in Users, NEW a, NEW b, Sound(u, a), Sound(Other(u), b), Ahead(u, a, b), Tidy(a),
           NEW m, Genuine(m), m.from = u, Opens(m, a, b),
           NEW random \in Name, random[1] = Other(u)
    PROVE  LET r == Decrypted(b, m, random)
           IN  r.ok /\ Even(u, a, r.dr) /\ Tidy(r.dr) /\ r.dr.receiver_hash = Derived(a.root.inputs)
<1> DEFINE v == Other(u)
           h == m.header
           n == Len(b.root.inputs)
           psc == h.prev_sub_count
           c == AddMissing(b, psc)
           t == Turned(c, h, random)
           r == Recv(b, h, random)
           new == a.root.inputs
<1>1. v \in Users /\ Other(v) = u /\ v # u
  BY TurnFacts
<1>2. /\ a \in Ratchet /\ b \in Ratchet /\ b.receiver.step \in Nat /\ n \in Nat /\ b.root.inputs \in Inputs
      /\ b.root.step = n + 2 /\ b.kyber[1] = v /\ b.sender.step \in Int /\ a.sender.step \in Int
      /\ new \in Inputs
  <2>1. a \in Ratchet /\ b \in Ratchet /\ b.receiver.step \in Nat /\ b.root.step = n + 2 /\ b.kyber[1] = v
    BY DEF Sound
  <2>2. b.root.inputs \in Inputs /\ new \in Inputs /\ b.sender.step \in Int /\ a.sender.step \in Int
    BY <2>1 DEF Ratchet, Chain
  <2> QED BY <2>1, <2>2, InputFacts
<1>3. /\ h \in Header /\ h.sub_step = 0 /\ h.major = IsMajor(h.step) /\ h.public[1] = u
      /\ (h.major => Sealed(u, h.cp)) /\ InputsOf(m) = new /\ m.key = <<ChainOf(new), 0>>
      /\ h.step = Len(new) + 2 /\ TurnOf(u, Len(new))
  BY GenuineFacts DEF Genuine, Opens
<1>4. /\ h.x25519 = a.x25519 /\ h.public = a.kyber /\ h.cp = a.cp /\ psc = a.prev_sub_count
      /\ m.session = b.receiver_hash
  BY DEF Opens
<1> DEFINE x == <<Dh(b.x25519, a.x25519), IF IsMajor(a.root.step) THEN a.ss ELSE Nothing>>
<1>5. /\ new = Append(b.root.inputs, x) /\ b.sender.step # Guarding /\ a.sender.step # Guarding
      /\ b.receiver.step <= psc /\ a.receiver.step <= b.sender.step
      /\ a.receiver_hash = b.sender_hash /\ Prepared(u, a, b, n)
  BY <1>4 DEF Ahead
<1>6. Len(new) = n + 1 /\ new # <<>> /\ a.root.step = n + 3 /\ h.step = n + 3
  <2>1. x \in Input
    BY <1>2 DEF Ratchet, Dh, Input, Secret, Cipher, Nothing
  <2> HIDE DEF x, new
  <2>2. Len(new) = n + 1 /\ new # <<>>
    BY <1>2, <1>5, <2>1, InputFacts
  <2>3. a.root.step = Len(new) + 2
    BY DEF Sound, new
  <2> QED BY <1>2, <1>3, <2>2, <2>3, SMT
<1> HIDE DEF h, new, x
<1>7. h.major => /\ NextMajor(u, n) /\ Fits(a, b) /\ NextMajor(v, n + 1)
  <2> SUFFICES ASSUME h.major PROVE NextMajor(u, n) /\ Fits(a, b) /\ NextMajor(v, n + 1)
    OBVIOUS
  <2>1. IsMajor(n + 3)
    BY <1>3, <1>6
  <2>2. ~NextMajor(v, n)
    <3>1. ~TurnOf(v, n + 1)
      BY <1>2, <1>3, <1>6, TurnFacts
    <3> QED BY <1>1, <1>2, <2>1, <3>1, NextMajorFacts
  <2>3. NextMajor(u, n) /\ Fits(a, b)
    BY <1>5, <2>2 DEF Prepared
  <2> QED BY <1>2, <2>1, <2>3, NextMajorFacts
<1>8. ~h.major => Prepared(u, a, b, n + 1)
  <2>1. h.major \in BOOLEAN /\ h.major = IsMajor(n + 3)
    BY <1>3, <1>6 DEF Header
  <2> QED BY <1>1, <1>2, <1>5, <2>1, NextMajorFacts DEF Prepared
<1>9. psc \in Int /\ SameChain(b, c)
  <2>1. psc \in Int
    BY <1>3 DEF Header
  <2> QED BY <1>2, <1>5, <2>1, AddIs
<1>10. /\ c \in Ratchet /\ c.root = b.root /\ c.sender = b.sender /\ c.kyber = b.kyber
       /\ c.cp = b.cp /\ c.ss = b.ss /\ c.x25519 = b.x25519 /\ c.sender_hash = b.sender_hash
  BY <1>2, <1>9, SameChainKeeps
<1> HIDE DEF c
<1>11. Append(c.root.inputs, TurnInput(c, h)) = new
  <2>1. h.major => Decapsulate(h.cp, c.kyber) = a.ss
    BY <1>4, <1>7, <1>10 DEF Fits, Decapsulate
  <2>2. h.major = IsMajor(a.root.step) /\ h.major \in BOOLEAN
    BY <1>3, <1>6 DEF Header
  <2>3. TurnInput(c, h) = x
    BY <1>4, <1>10, <2>1, <2>2 DEF TurnInput, x
  <2> QED BY <1>5, <1>10, <2>3
<1>12. /\ t \in Ratchet /\ t.root.inputs = new
       /\ t.sender.step = Guarding /\ t.receiver = [step |-> 0, root |-> Derived(new)]
  <2>1. c.kyber[1] = v /\ h.public[1] = Other(v) /\ (h.major => Sealed(Other(v), h.cp))
    BY <1>1, <1>2, <1>3, <1>10
  <2>2. LET inputs == Append(c.root.inputs, TurnInput(c, h))
        IN  /\ t \in Ratchet /\ t.root = [step |-> c.root.step + 1, inputs |-> inputs]
            /\ t.sender.step = Guarding /\ t.receiver = [step |-> 0, root |-> Derived(inputs)]
    BY <1>1, <1>3, <1>10, <2>1, TurnedIs, SMTT(20)
  <2> HIDE DEF t
  <2> QED BY <1>11, <2>2
<1>13. /\ t.x25519 = random /\ t.prev_sub_count = b.sender.step /\ t.receiver_hash = Derived(new)
       /\ t.sender_hash = b.sender_hash /\ t.seed = Dh(random, a.x25519)
       /\ IF h.major THEN t.kyber = random /\ t.cp = <<a.kyber, random>> /\ t.ss = t.cp
          ELSE t.kyber = b.kyber /\ t.cp = b.cp /\ t.ss = b.ss
  <2>1. /\ t.x25519 = random /\ t.prev_sub_count = c.sender.step
        /\ t.receiver_hash = Derived(Append(c.root.inputs, TurnInput(c, h)))
        /\ t.sender_hash = c.sender_hash /\ t.seed = Dh(random, h.x25519)
        /\ IF h.major THEN t.kyber = random /\ t.cp = <<h.public, random>> /\ t.ss = t.cp
           ELSE t.kyber = c.kyber /\ t.cp = c.cp /\ t.ss = c.ss
    BY <1>3, <1>10, TurnedMoves
  <2> HIDE DEF t
  <2> QED BY <1>4, <1>10, <1>11, <2>1
<1>14. r = Advance(t, h)
  <2>1. h.step > b.root.step /\ ~(h.prev_sub_count < b.receiver.step)
    BY <1>2, <1>5, <1>6, <1>9, SMT
  <2>2. h.step \in Int /\ b.root.step \in Int
    BY <1>2, <1>6, SMT
  <2> QED BY <2>1, <2>2, SMT DEF Recv, c, t
<1>15. \E k, e : r = [ok |-> TRUE, key |-> k, dr |-> e]
  BY <1>14 DEF Advance
<1>16. SameChain(t, r.dr) /\ r.key = <<Derived(new), 0>> /\ r.dr.receiver.step = 1
  <2>1. t.receiver.step = 0 /\ t.receiver.root = Derived(new)
    BY <1>12
  <2> HIDE DEF t
  <2>2. /\ SameChain(t, Advance(t, h).dr) /\ Advance(t, h).key = <<t.receiver.root, h.sub_step>>
        /\ Advance(t, h).dr.receiver.step = h.sub_step + 1
    BY <1>3, <1>12, <2>1, AdvanceIs
  <2> QED BY <1>3, <1>14, <2>1, <2>2
<1> DEFINE e == r.dr
<1>17. r.key = m.key
  BY <1>3, <1>6, <1>16 DEF ChainOf
<1>18. Decrypted(b, m, random).ok /\ Decrypted(b, m, random).dr = e
  <2>1. Decrypted(b, m, random) = [r EXCEPT !.ok = r.ok /\ r.key = m.key]
    BY DEF Decrypted, h
  <2>2. (r.ok /\ r.key = m.key) = TRUE
    BY <1>15, <1>17
  <2>3. Decrypted(b, m, random) = [r EXCEPT !.ok = TRUE]
    BY <2>1, <2>2
  <2> HIDE DEF r
  <2> QED BY <1>15, <2>3
<1> HIDE DEF r, t, e
<1>19. /\ e.root = t.root /\ e.sender = t.sender /\ e.kyber = t.kyber /\ e.cp = t.cp /\ e.ss = t.ss
       /\ e.seed = t.seed /\ e.x25519 = t.x25519 /\ e.sender_hash = t.sender_hash
       /\ e.receiver_hash = t.receiver_hash /\ e.prev_sub_count = t.prev_sub_count
       /\ e.receiver.step = 1
  BY <1>12, <1>16, SameChainKeeps DEF e
<1>20. Prepared(u, a, e, n + 1)
  <2>1. CASE h.major
    <3>1. e.kyber = random /\ e.cp = <<a.kyber, random>> /\ e.ss = e.cp
      BY <1>13, <1>19, <2>1
    <3>2. Fits(e, a)
      BY <3>1 DEF Fits, Nothing
    <3> QED BY <1>7, <2>1, <3>2 DEF Prepared
  <2>2. CASE ~h.major
    <3>1. e.kyber = b.kyber /\ e.cp = b.cp /\ e.ss = b.ss
      BY <1>13, <1>19, <2>2
    <3> QED BY <1>8, <2>2, <3>1 DEF Prepared, Fits
  <2> QED BY <2>1, <2>2
<1>21. a.sender.step >= 1 /\ a.sender_hash = Derived(new)
  BY <1>5, <1>6 DEF Tidy, ChainOf, new
<1>22. Even(u, a, e)
  <2>1. e.root.inputs = new /\ Len(e.root.inputs) = n + 1
    BY <1>6, <1>12, <1>19
  <2>2. e.receiver.step <= a.sender.step /\ a.receiver.step <= e.prev_sub_count
    BY <1>2, <1>5, <1>13, <1>19, <1>21, SMT
  <2>3. e.seed = Dh(e.x25519, a.x25519)
    BY <1>13, <1>19
  <2> QED BY <1>5, <1>12, <1>13, <1>19, <1>20, <1>21, <2>1, <2>2, <2>3 DEF Even, new
<1>23. Tidy(e)
  <2>1. e.sender.step = Guarding /\ e.receiver_hash.inputs = new /\ e.root.inputs = new
    BY <1>12, <1>13, <1>19 DEF Derived
  <2>2. Len(new) <= Len(new)
    BY <1>2, <1>6, SMT
  <2> QED BY <2>1, <2>2 DEF Tidy
<1> QED BY <1>13, <1>18, <1>19, <1>22, <1>23 DEF new

\* Sending, on either side of an even pair or of a pair that is one chain apart.
LEMMA SendTidy ==
    ASSUME NEW u \in Users, NEW dr, Sound(u, dr), Tidy(dr)
    PROVE  Tidy(Send(dr).dr)
<1> DEFINE e == Send(dr).dr
           k == Len(dr.receiver_hash.inputs)
           n == Len(dr.root.inputs)
<1>1. /\ e.receiver_hash = dr.receiver_hash
      /\ dr.sender.step # Guarding =>
           e.root = dr.root /\ e.sender_hash = dr.sender_hash /\ e.sender.step = dr.sender.step + 1
      /\ dr.sender.step = Guarding =>
           /\ e.root.inputs = NextInputs(dr) /\ e.sender_hash = Derived(NextInputs(dr))
           /\ e.sender.step = 1
  BY SendMoves
<1> HIDE DEF e
<1>2. /\ k \in Nat /\ n \in Nat /\ dr.sender.step \in Int /\ NextInputs(dr) # <<>>
      /\ Len(NextInputs(dr)) = n + 1
  <2>1. dr \in Ratchet
    BY DEF Sound
  <2>2. dr.receiver_hash.inputs \in Inputs /\ dr.root.inputs \in Inputs /\ dr.sender.step \in Int
    BY <2>1 DEF Ratchet, ChainRoot, Chain
  <2> QED BY <2>1, <2>2, InputFacts, NextInputIs
<1>3. k <= n /\ (dr.sender.step # Guarding => dr.sender.step >= 1 /\ dr.sender_hash = ChainOf(dr.root.inputs))
  BY DEF Tidy
<1> HIDE DEF k, n
<1>4. CASE dr.sender.step # Guarding
  <2>1. e.sender.step >= 1
    BY <1>1, <1>2, <1>3, <1>4, SMT
  <2> QED BY <1>1, <1>3, <1>4, <2>1 DEF Tidy, e, k, n
<1>5. CASE dr.sender.step = Guarding
  <2>1. e.sender.step >= 1 /\ k <= n + 1
    BY <1>1, <1>2, <1>3, <1>5, SMT
  <2>2. e.sender_hash = ChainOf(e.root.inputs)
    BY <1>1, <1>2, <1>5 DEF ChainOf
  <2> QED BY <1>1, <1>2, <1>5, <2>1, <2>2 DEF Tidy, e, k
<1> QED BY <1>4, <1>5

LEMMA SendEven ==
    ASSUME NEW u \in Users, NEW a, NEW b, Sound(u, a), Sound(Other(u), b), Even(u, a, b)
    PROVE  /\ Even(u, Send(a).dr, b)
           /\ Ahead(Other(u), Send(b).dr, a)
           /\ \A m : m.header = Send(b).header /\ m.session = b.sender_hash
                     /\ InputsOf(m) = Send(b).dr.root.inputs => Opens(m, Send(b).dr, a)
<1> DEFINE v == Other(u)
           n == Len(b.root.inputs)
           d == Send(a).dr
           e == Send(b).dr
           h == Send(b).header
<1>1. v \in Users /\ Other(v) = u
  BY TurnFacts
<1>2. /\ a.root.inputs = b.root.inputs /\ a.sender.step # Guarding /\ b.sender.step = Guarding
      /\ a.receiver_hash = b.sender_hash /\ b.receiver_hash = a.sender_hash
      /\ b.seed = Dh(b.x25519, a.x25519)
      /\ b.receiver.step <= a.sender.step /\ a.receiver.step <= b.prev_sub_count
      /\ Prepared(u, a, b, n)
  BY DEF Even
<1>3. /\ d.x25519 = a.x25519 /\ d.kyber = a.kyber /\ d.cp = a.cp /\ d.ss = a.ss
      /\ d.receiver = a.receiver /\ d.receiver_hash = a.receiver_hash
      /\ d.root = a.root /\ d.sender_hash = a.sender_hash /\ d.sender.step = a.sender.step + 1
  BY <1>2, SendMoves
<1>4. /\ e.x25519 = b.x25519 /\ e.kyber = b.kyber /\ e.cp = b.cp /\ e.ss = b.ss
      /\ e.prev_sub_count = b.prev_sub_count /\ e.receiver = b.receiver
      /\ e.receiver_hash = b.receiver_hash
      /\ h.x25519 = b.x25519 /\ h.public = b.kyber /\ h.cp = b.cp
      /\ h.prev_sub_count = b.prev_sub_count
      /\ e.root.inputs = NextInputs(b) /\ e.root.step = b.root.step + 1
      /\ e.sender_hash = Derived(NextInputs(b)) /\ e.sender.step = 1 /\ h.sub_step = 0
  BY <1>1, <1>2, SendMoves
<1>5. /\ a.sender.step \in Nat /\ b.receiver.step \in Nat /\ a.receiver.step \in Nat
  BY <1>2 DEF Sound
<1> HIDE DEF d, e, h, n
<1>6. Even(u, d, b)
  <2>1. d.sender.step # Guarding /\ b.receiver.step <= d.sender.step
    BY <1>2, <1>3, <1>5, SMT DEF Guarding
  <2>2. Prepared(u, d, b, n)
    BY <1>2, <1>3 DEF Prepared, Fits
  <2> QED BY <1>2, <1>3, <2>1, <2>2 DEF Even, n
<1>7. Ahead(v, e, a)
  <2>1. b.seed = Dh(a.x25519, e.x25519)
    BY <1>2, <1>4 DEF Dh
  <2>2. e.root.inputs = Append(a.root.inputs, <<Dh(a.x25519, e.x25519),
                                                IF IsMajor(e.root.step) THEN e.ss ELSE Nothing>>)
    BY <1>2, <1>4, <2>1 DEF NextInputs, NextInput
  <2>3. e.sender.step # Guarding /\ e.receiver.step <= a.sender.step /\ a.receiver.step <= e.prev_sub_count
    BY <1>2, <1>4, <1>5, SMT DEF Guarding
  <2>4. e.receiver_hash = a.sender_hash
    BY <1>2, <1>4
  <2>5. Prepared(v, e, a, Len(a.root.inputs))
    BY <1>1, <1>2, <1>4 DEF Prepared, Fits, n
  <2> QED BY <1>2, <2>2, <2>3, <2>4, <2>5 DEF Ahead
<1>8. ASSUME NEW m, m.header = h, m.session = b.sender_hash, InputsOf(m) = e.root.inputs
      PROVE  Opens(m, e, a)
  BY <1>2, <1>4, <1>8 DEF Opens
<1>9. \A m : m.header = h /\ m.session = b.sender_hash /\ InputsOf(m) = e.root.inputs => Opens(m, e, a)
  BY <1>8
<1> HIDE DEF v
<1> QED BY <1>6, <1>7, <1>9 DEF d, e, h, v

LEMMA SendAhead ==
    ASSUME NEW u \in Users, NEW a, NEW b, Sound(u, a), Sound(Other(u), b), Ahead(u, a, b)
    PROVE  /\ Ahead(u, Send(a).dr, b) /\ Ahead(u, a, Send(b).dr)
           /\ \A m : Opens(m, a, b) => Opens(m, Send(a).dr, b) /\ Opens(m, a, Send(b).dr)
<1> DEFINE n == Len(b.root.inputs)
           d == Send(a).dr
           e == Send(b).dr
           x == <<Dh(b.x25519, a.x25519), IF IsMajor(a.root.step) THEN a.ss ELSE Nothing>>
<1>1. Other(u) \in Users
  BY TurnFacts
<1>2. /\ a.root.inputs = Append(b.root.inputs, x) /\ a.sender.step # Guarding /\ b.sender.step # Guarding
      /\ a.receiver_hash = b.sender_hash
      /\ b.receiver.step <= a.prev_sub_count /\ a.receiver.step <= b.sender.step
      /\ Prepared(u, a, b, n)
  BY DEF Ahead
<1>3. /\ d.x25519 = a.x25519 /\ d.kyber = a.kyber /\ d.cp = a.cp /\ d.ss = a.ss
      /\ d.prev_sub_count = a.prev_sub_count
      /\ d.receiver = a.receiver /\ d.receiver_hash = a.receiver_hash
      /\ d.root = a.root /\ d.sender_hash = a.sender_hash /\ d.sender.step = a.sender.step + 1
  BY <1>2, SendMoves
<1>4. /\ e.x25519 = b.x25519 /\ e.kyber = b.kyber /\ e.cp = b.cp /\ e.ss = b.ss
      /\ e.prev_sub_count = b.prev_sub_count
      /\ e.receiver = b.receiver /\ e.receiver_hash = b.receiver_hash
      /\ e.root = b.root /\ e.sender_hash = b.sender_hash /\ e.sender.step = b.sender.step + 1
  BY <1>1, <1>2, SendMoves
<1>5. a.sender.step \in Nat /\ b.sender.step \in Nat /\ a.receiver.step \in Nat
  BY <1>2 DEF Sound
<1> HIDE DEF d, e, n
<1>6. d.sender.step # Guarding /\ e.sender.step # Guarding /\ a.receiver.step <= e.sender.step
  BY <1>2, <1>3, <1>4, <1>5, SMT DEF Guarding
<1>7. Ahead(u, d, b)
  <2>1. Prepared(u, d, b, n)
    BY <1>2, <1>3 DEF Prepared, Fits
  <2> QED BY <1>2, <1>3, <1>6, <2>1 DEF Ahead, n
<1>8. Ahead(u, a, e)
  <2>1. Prepared(u, a, e, n)
    BY <1>2, <1>4 DEF Prepared, Fits
  <2> QED BY <1>2, <1>4, <1>6, <2>1 DEF Ahead, n
<1>9. \A m : Opens(m, a, b) => Opens(m, d, b) /\ Opens(m, a, e)
  BY <1>3, <1>4 DEF Opens
<1> QED BY <1>7, <1>8, <1>9 DEF d, e

\* Reading a message of the present or an earlier chain, on either side.
LEMMA ReadTidy ==
    ASSUME NEW dr \in Ratchet, NEW e, SameChain(dr, e), Tidy(dr)
    PROVE  Tidy(e)
<1>1. e.sender = dr.sender /\ e.sender_hash = dr.sender_hash /\ e.root = dr.root /\ e.receiver_hash = dr.receiver_hash
  BY SameChainKeeps
<1> QED BY <1>1 DEF Tidy

LEMMA ReadEven ==
    ASSUME NEW u \in Users, NEW a \in Ratchet, NEW b \in Ratchet, Even(u, a, b)
    PROVE  /\ \A e : SameChain(a, e) /\ e.receiver.step = a.receiver.step => Even(u, e, b)
           /\ \A e : SameChain(b, e) /\ e.receiver.step <= a.sender.step => Even(u, a, e)
<1>1. ASSUME NEW e, SameChain(a, e), e.receiver.step = a.receiver.step
      PROVE  Even(u, e, b)
  <2>1. /\ e.root = a.root /\ e.sender = a.sender /\ e.kyber = a.kyber /\ e.cp = a.cp /\ e.ss = a.ss
        /\ e.x25519 = a.x25519 /\ e.sender_hash = a.sender_hash /\ e.receiver_hash = a.receiver_hash
    BY <1>1, SameChainKeeps
  <2> QED BY <1>1, <2>1 DEF Even, Prepared, Fits
<1>2. ASSUME NEW e, SameChain(b, e), e.receiver.step <= a.sender.step
      PROVE  Even(u, a, e)
  <2>1. /\ e.root = b.root /\ e.sender = b.sender /\ e.kyber = b.kyber /\ e.cp = b.cp /\ e.ss = b.ss
        /\ e.seed = b.seed /\ e.prev_sub_count = b.prev_sub_count
        /\ e.x25519 = b.x25519 /\ e.sender_hash = b.sender_hash /\ e.receiver_hash = b.receiver_hash
    BY <1>2, SameChainKeeps
  <2> QED BY <1>2, <2>1 DEF Even, Prepared, Fits
<1> QED BY <1>1, <1>2

LEMMA ReadAhead ==
    ASSUME NEW u \in Users, NEW a \in Ratchet, NEW b \in Ratchet, Ahead(u, a, b)
    PROVE  /\ \A e : SameChain(a, e) /\ e.receiver.step = a.receiver.step =>
                 Ahead(u, e, b) /\ \A m : Opens(m, a, b) => Opens(m, e, b)
           /\ \A e : SameChain(b, e) /\ e.receiver.step = b.receiver.step =>
                 Ahead(u, a, e) /\ \A m : Opens(m, a, b) => Opens(m, a, e)
<1>1. ASSUME NEW e, SameChain(a, e), e.receiver.step = a.receiver.step
      PROVE  Ahead(u, e, b) /\ \A m : Opens(m, a, b) => Opens(m, e, b)
  <2>1. /\ e.root = a.root /\ e.sender = a.sender /\ e.kyber = a.kyber /\ e.cp = a.cp /\ e.ss = a.ss
        /\ e.prev_sub_count = a.prev_sub_count
        /\ e.x25519 = a.x25519 /\ e.sender_hash = a.sender_hash /\ e.receiver_hash = a.receiver_hash
    BY <1>1, SameChainKeeps
  <2> QED BY <1>1, <2>1 DEF Ahead, Opens, Prepared, Fits
<1>2. ASSUME NEW e, SameChain(b, e), e.receiver.step = b.receiver.step
      PROVE  Ahead(u, a, e) /\ \A m : Opens(m, a, b) => Opens(m, a, e)
  <2>1. /\ e.root = b.root /\ e.sender = b.sender /\ e.kyber = b.kyber /\ e.cp = b.cp /\ e.ss = b.ss
        /\ e.x25519 = b.x25519 /\ e.sender_hash = b.sender_hash /\ e.receiver_hash = b.receiver_hash
    BY <1>2, SameChainKeeps
  <2> QED BY <1>2, <2>1 DEF Ahead, Opens, Prepared, Fits
<1> QED BY <1>1, <1>2

-----------------------------------------------------------------------------
\* u has a ratchet, if only one it has yet to save.
Exists(u) == friends[u] # <<>> \/ pending[u] # <<>>

\* The one session hash under which a friend's message is looked up.
IndexIs(u) ==
    /\ friend_index[u] = IF friends[u] = <<>> THEN {} ELSE {friends[u][1].receiver_hash}
    /\ pending[u] # <<>> =>
          IF friends[u] = <<>> THEN pending[u][1].new
          ELSE ~pending[u][1].new /\ pending[u][1].dr.receiver_hash = friends[u][1].receiver_hash

\* Alice's ratchet before bob has answered, and the request that may be on its way.
Alone(dr) == /\ dr.root.inputs = <<>> /\ dr.sender.step # Guarding /\ dr.receiver.step = 0
             /\ dr.receiver_hash = Handshake /\ dr.kyber = dr.x25519
Asks(s, dr) == \A i \in DOMAIN s : s[i] \in FriendRequest => s[i].init = dr.x25519

\* The first message of every chain is read, but for those in open.
FirstsRead(st, op, open) ==
    \A m \in st : m.header.sub_step = 0 => m \in Range(op[Other(m.from)]) \/ m \in open

\* The two ends: even, or one chain apart with the message that opens it still in the box.
Meet(u, a, b, box, st, op) ==
    \/ Even(u, a, b) /\ FirstsRead(st, op, {})
    \/ Ahead(u, a, b) /\ \E m \in Range(box) : /\ m \in st /\ m.from = u /\ Opens(m, a, b)
                                               /\ FirstsRead(st, op, {m})

\* A message names the chain its key is of, but for the first, which names the one before.
SessionsNamed(st) == \A m \in st : m.header.sub_step # 0 => m.session = m.key[1]

\* The two ends as they are when the mail has only been disordered.
MetState ==
    /\ friend_index = [u \in Users |-> friend_index[u]]
    /\ drawn["alice"] # 0 => Exists("alice")
    /\ \A u \in Users : IndexIs(u) /\ (Exists(u) => Tidy(Current(u)))
    /\ SessionsNamed(sent)
    /\ friends["bob"] = <<>> /\ Exists("alice") =>
          /\ Alone(Current("alice")) /\ Asks(mail["bob"], Current("alice"))
          /\ \A m \in sent : m.header.sub_step # 0
    /\ friends["bob"] # <<>> =>
          /\ Exists("alice")
          /\ \E u \in Users : Meet(u, Current(u), Current(Other(u)), mail[Other(u)], sent, opened)
Meeting == OnlyDisorder => MetState

LEMMA BoxFacts ==
    ASSUME NEW S, NEW s \in Seq(S), NEW m \in S
    PROVE  /\ Range(Append(s, m)) = Range(s) \cup {m}
           /\ \A i \in DOMAIN s : \A x \in Range(s) : x = s[i] \/ x \in Range(RemoveAt(s, i))
<1>1. DOMAIN s = 1 .. Len(s) /\ Len(s) \in Nat
  BY LenProperties
<1>2. Range(Append(s, m)) = Range(s) \cup {m}
  <2> DEFINE t == Append(s, m)
  <2>1. /\ t \in Seq(S) /\ Len(t) = Len(s) + 1 /\ \A i \in 1 .. Len(s) : t[i] = s[i]
        /\ t[Len(s) + 1] = m
    BY AppendProperties
  <2>2. DOMAIN t = 1 .. Len(s) + 1
    BY <2>1, LenProperties
  <2> HIDE DEF t
  <2>3. \A i : i \in DOMAIN t <=> i \in DOMAIN s \/ i = Len(s) + 1
    BY <1>1, <2>2, SMT
  <2>4. Range(t) = Range(s) \cup {m}
    BY <1>1, <2>1, <2>3 DEF Range
  <2> QED BY <2>4 DEF t
<1>3. ASSUME NEW i \in DOMAIN s, NEW x \in Range(s), x # s[i]
      PROVE  x \in Range(RemoveAt(s, i))
  <2> DEFINE t == RemoveAt(s, i)
  <2>1. t \in Seq(S) /\ Len(t) = Len(s) - 1 /\ \A j \in 1 .. Len(s) - 1 : t[j] = s[IF j < i THEN j ELSE j + 1]
    BY RemoveAtFacts
  <2>2. DOMAIN t = 1 .. Len(s) - 1
    BY <2>1, LenProperties
  <2>3. PICK k \in DOMAIN s : x = s[k]
    BY <1>3 DEF Range
  <2> HIDE DEF t
  <2> DEFINE j == IF k < i THEN k ELSE k - 1
  <2>4. j \in 1 .. Len(s) - 1 /\ (IF j < i THEN j ELSE j + 1) = k
    BY <1>1, <1>3, <2>3, SMT
  <2> HIDE DEF j
  <2>5. j \in DOMAIN t /\ t[j] = x
    BY <2>1, <2>2, <2>3, <2>4
  <2>6. x \in Range(t)
    BY <2>5 DEF Range
  <2> QED BY <2>6 DEF t
<1> QED BY <1>2, <1>3

LEMMA AsksFacts ==
    ASSUME NEW s \in Seq(Item), NEW dr, Asks(s, dr)
    PROVE  /\ \A m \in Item : m \notin FriendRequest => Asks(Append(s, m), dr)
           /\ \A i \in DOMAIN s : Asks(RemoveAt(s, i), dr)
<1>1. DOMAIN s = 1 .. Len(s) /\ Len(s) \in Nat
  BY LenProperties
<1>2. ASSUME NEW m \in Item, m \notin FriendRequest
      PROVE  Asks(Append(s, m), dr)
  <2> DEFINE t == Append(s, m)
  <2>1. /\ t \in Seq(Item) /\ Len(t) = Len(s) + 1 /\ \A i \in 1 .. Len(s) : t[i] = s[i]
        /\ t[Len(s) + 1] = m
    BY AppendProperties
  <2>2. DOMAIN t = 1 .. Len(s) + 1
    BY <2>1, LenProperties
  <2> HIDE DEF t
  <2>3. \A i \in DOMAIN t : i \in DOMAIN s \/ i = Len(s) + 1
    BY <1>1, <2>2, SMT
  <2>4. Asks(t, dr)
    BY <1>1, <1>2, <2>1, <2>3 DEF Asks
  <2> QED BY <2>4 DEF t
<1>3. ASSUME NEW i \in DOMAIN s
      PROVE  Asks(RemoveAt(s, i), dr)
  <2> DEFINE t == RemoveAt(s, i)
             Place(j) == IF j < i THEN j ELSE j + 1
  <2>1. t \in Seq(Item) /\ Len(t) = Len(s) - 1 /\ \A j \in 1 .. Len(s) - 1 : t[j] = s[Place(j)]
    BY RemoveAtFacts
  <2>2. DOMAIN t = 1 .. Len(s) - 1
    BY <2>1, LenProperties
  <2> HIDE DEF t
  <2>3. \A j \in DOMAIN t : Place(j) \in DOMAIN s
    BY <1>1, <1>3, <2>2, SMT
  <2> HIDE DEF Place
  <2>4. Asks(t, dr)
    BY <2>1, <2>2, <2>3 DEF Asks
  <2> QED BY <2>4 DEF t
<1> QED BY <1>2, <1>3

LEMMA MetStateIs ==
    ASSUME friend_index' = [u \in Users |-> friend_index'[u]], drawn'["alice"] # 0 => Exists("alice")',
           \A u \in Users : IndexIs(u)' /\ (Exists(u)' => Tidy(Current(u)')),
           SessionsNamed(sent'),
           friends'["bob"] = <<>> /\ Exists("alice")' =>
              /\ Alone(Current("alice")') /\ Asks(mail'["bob"], Current("alice")')
              /\ \A m \in sent' : m.header.sub_step # 0,
           friends'["bob"] # <<>> =>
              /\ Exists("alice")'
              /\ \E u \in Users : Meet(u, Current(u)', Current(Other(u))', mail'[Other(u)], sent', opened')
    PROVE  MetState'
BY DEF MetState, Tidy, SessionsNamed, Alone, Asks, Meet, Even, Ahead, Opens, FirstsRead, Prepared, Fits

LEMMA MeetingInit == Init => Meeting
<1> SUFFICES ASSUME Init PROVE MetState
  BY DEF Meeting
<1>1. /\ friends = [u \in Users |-> <<>>] /\ pending = [u \in Users |-> <<>>] /\ sent = {}
      /\ friend_index = [u \in Users |-> {}] /\ drawn = [u \in Users |-> 0]
      /\ "alice" \in Users /\ "bob" \in Users
  BY DEF Init, Users
<1>2. \A u \in Users : ~Exists(u) /\ IndexIs(u)
  BY <1>1 DEF Exists, IndexIs
<1> QED BY <1>1, <1>2 DEF MetState, SessionsNamed

LEMMA PairSound ==
    ASSUME SoundState, AlignedState, FreshState, NEW u \in Users, Exists(u)
    PROVE  Sound(u, Current(u)) /\ Unused(u, Current(u), sent)
<1>1. Sound(u, Current(u))
  BY DEF Exists, Current, SoundState, RatchetsSound
<1>2. friends[u] = <<>> => Unused(u, Current(u), sent)
  BY DEF AlignedState, Begun, Unused
<1> QED BY <1>1, <1>2 DEF FreshState

LEMMA AheadFacts ==
    ASSUME NEW u \in Users, NEW a, NEW b, Sound(u, a), Sound(Other(u), b), Ahead(u, a, b)
    PROVE  Len(a.root.inputs) = Len(b.root.inputs) + 1
<1> DEFINE x == <<Dh(b.x25519, a.x25519), IF IsMajor(a.root.step) THEN a.ss ELSE Nothing>>
<1>1. a \in Ratchet /\ b \in Ratchet /\ b.root.inputs \in Inputs
  BY DEF Sound, Ratchet
<1>2. x \in Input
  BY <1>1 DEF Ratchet, Dh, Input, Secret, Cipher, Nothing
<1>3. a.root.inputs = Append(b.root.inputs, x)
  BY DEF Ahead
<1> HIDE DEF x
<1> QED BY <1>1, <1>2, <1>3, InputFacts

\* Reading a message of the present or an earlier chain.
LEMMA LateMeets ==
    ASSUME SoundState, NEW u \in Users, NEW w \in Users, NEW a, NEW b, NEW box, NEW left, NEW op,
           Sound(w, a), Sound(Other(w), b), Unused(w, a, sent), Meet(w, a, b, box, sent, op),
           NEW op2, \A x \in Users : Range(op[x]) \subseteq Range(op2[x]),
           NEW m \in sent, m.from = Other(u), NEW e, NEW dr, dr = IF u = w THEN a ELSE b,
           SameChain(dr, e), m.header.step <= dr.root.step,
           e.receiver.step # dr.receiver.step =>
               m.header.step = dr.root.step /\ e.receiver.step = m.header.sub_step + 1,
           \A n \in Range(box) : (u # w /\ n = m) \/ n \in Range(left)
    PROVE  Meet(w, IF u = w THEN e ELSE a, IF u = w THEN b ELSE e, left, sent, op2)
<1> DEFINE v == Other(w)
           k == Len(InputsOf(m))
           p == Len(a.root.inputs)
           q == Len(b.root.inputs)
<1>1. v \in Users /\ v # w /\ Other(v) = w /\ (u = w \/ u = v)
  BY TurnFacts
<1>2. /\ Genuine(m) /\ k \in Nat /\ m.header.step = k + 2 /\ TurnOf(m.from, k) /\ m.header.sub_step \in Nat
      /\ m.key[2] = m.header.sub_step
  BY GenuineFacts DEF SoundState, SentSound
<1>3. /\ a \in Ratchet /\ b \in Ratchet /\ p \in Nat /\ q \in Nat
      /\ a.root.step = p + 2 /\ b.root.step = q + 2
  <2>1. a \in Ratchet /\ b \in Ratchet /\ a.root.step = p + 2 /\ b.root.step = q + 2
    BY DEF Sound
  <2>2. a.root.inputs \in Inputs /\ b.root.inputs \in Inputs
    BY <2>1 DEF Ratchet
  <2> QED BY <2>1, <2>2, InputFacts
<1>4. /\ a.sender.step # Guarding => TurnOf(w, p)
      /\ b.sender.step # Guarding => TurnOf(v, q)
  BY DEF Sound
<1> HIDE DEF k, p, q, v
<1>5. \A open : FirstsRead(sent, op, open) => FirstsRead(sent, op2, open)
  <2>1. \A n \in sent : Other(n.from) \in Users
    BY GenuineFacts, TurnFacts DEF SoundState, SentSound
  <2> QED BY <2>1 DEF FirstsRead
<1>6. CASE Even(w, a, b) /\ FirstsRead(sent, op, {})
  <2>1. p = q /\ a.sender.step # Guarding /\ b.receiver.step <= a.sender.step
    BY <1>6 DEF Even, p, q
  <2>2. CASE u = w
    <3>1. e.receiver.step = dr.receiver.step
      <4> SUFFICES ASSUME e.receiver.step # dr.receiver.step PROVE FALSE
        OBVIOUS
      <4>1. k = p
        BY <1>2, <1>3, <2>2, SMT
      <4>2. TurnOf(w, p) /\ TurnOf(v, p)
        BY <1>2, <1>4, <2>1, <2>2, <4>1 DEF v
      <4> QED BY <1>3, <4>2, TurnFacts DEF v
    <3>2. Even(w, e, b)
      BY <1>3, <1>6, <2>2, <3>1, ReadEven
    <3> QED BY <1>5, <1>6, <2>2, <3>2 DEF Meet
  <2>3. CASE u # w
    <3>1. e.receiver.step <= a.sender.step
      <4>1. CASE e.receiver.step = dr.receiver.step
        BY <2>1, <2>3, <4>1
      <4>2. CASE e.receiver.step # dr.receiver.step
        <5>1. k = p
          BY <1>2, <1>3, <2>1, <2>3, <4>2, SMT
        <5>2. m.from = w
          BY <1>1, <2>3
        <5>3. m.key[2] < a.sender.step
          BY <5>1, <5>2 DEF Unused, k, p
        <5>4. a.sender.step \in Int
          BY <1>3 DEF Ratchet, Chain
        <5> QED BY <1>2, <4>2, <5>3, <5>4, SMT
      <4> QED BY <4>1, <4>2
    <3>2. Even(w, a, e)
      BY <1>3, <1>6, <2>3, <3>1, ReadEven
    <3> QED BY <1>5, <1>6, <2>3, <3>2 DEF Meet
  <2> QED BY <2>2, <2>3
<1>7. CASE Ahead(w, a, b) /\ \E n \in Range(box) : /\ n \in sent /\ n.from = w /\ Opens(n, a, b)
                                                   /\ FirstsRead(sent, op, {n})
  <2>1. PICK n \in Range(box) : n \in sent /\ n.from = w /\ Opens(n, a, b) /\ FirstsRead(sent, op, {n})
    BY <1>7
  <2>2. p = q + 1 /\ a.sender.step # Guarding /\ b.sender.step # Guarding
    BY <1>7, AheadFacts DEF Ahead, p, q
  <2>3. e.receiver.step = dr.receiver.step
    <3> SUFFICES ASSUME e.receiver.step # dr.receiver.step PROVE FALSE
      OBVIOUS
    <3>1. CASE u = w
      <4>1. k = p
        BY <1>2, <1>3, <3>1, SMT
      <4>2. TurnOf(w, p) /\ TurnOf(v, p)
        BY <1>2, <1>4, <2>2, <3>1, <4>1 DEF v
      <4> QED BY <1>3, <4>2, TurnFacts DEF v
    <3>2. CASE u # w
      <4>1. k = q /\ m.from = w
        BY <1>1, <1>2, <1>3, <3>2, SMT
      <4>2. TurnOf(w, q) /\ TurnOf(v, q)
        BY <1>2, <1>4, <2>2, <4>1
      <4> QED BY <1>3, <4>2, TurnFacts DEF v
    <3> QED BY <3>1, <3>2
  <2>4. n \in Range(left)
    <3> SUFFICES ASSUME u # w, n = m PROVE FALSE
      BY <2>1
    <3>1. k = p
      BY <2>1 DEF Opens, k, p
    <3> QED BY <1>2, <1>3, <2>2, <3>1, SMT
  <2>5. CASE u = w
    <3>1. Ahead(w, e, b) /\ Opens(n, e, b)
      BY <1>3, <1>7, <2>1, <2>3, <2>5, ReadAhead
    <3> QED BY <1>5, <2>1, <2>4, <2>5, <3>1 DEF Meet
  <2>6. CASE u # w
    <3>1. Ahead(w, a, e) /\ Opens(n, a, e)
      BY <1>3, <1>7, <2>1, <2>3, <2>6, ReadAhead
    <3> QED BY <1>5, <2>1, <2>4, <2>6, <3>1 DEF Meet
  <2> QED BY <2>5, <2>6
<1> QED BY <1>6, <1>7 DEF Meet

\* A message of a later chain than the ratchet's is the one that opens the chain.
LEMMA LaterOpens ==
    ASSUME SoundState, Comparable(sent), KeysDiffer(sent), SessionsNamed(sent),
           NEW u \in Users, NEW w \in Users, NEW a, NEW b, NEW box, NEW op,
           Sound(w, a), Sound(Other(w), b), Unused(w, a, sent), Unused(Other(w), b, sent),
           Tidy(b), Meet(w, a, b, box, sent, op),
           NEW m \in sent, m.from = Other(u), NEW dr, dr = IF u = w THEN a ELSE b,
           m.session = dr.receiver_hash, m.header.step > dr.root.step
    PROVE  u # w /\ Ahead(w, a, b) /\ Opens(m, a, b) /\ FirstsRead(sent, op, {m})
<1> DEFINE v == Other(w)
           k == Len(InputsOf(m))
           p == Len(a.root.inputs)
           q == Len(b.root.inputs)
           g == Len(b.receiver_hash.inputs)
<1>1. v \in Users /\ v # w /\ Other(v) = w /\ (u = w \/ u = v)
  BY TurnFacts
<1>2. /\ Genuine(m) /\ k \in Nat /\ m.header.step = k + 2 /\ InputsOf(m) \in Inputs
      /\ m.key = <<ChainOf(InputsOf(m)), m.header.sub_step>> /\ m.key[1] = ChainOf(InputsOf(m))
  BY GenuineFacts DEF SoundState, SentSound, Genuine
<1>3. /\ p \in Nat /\ q \in Nat /\ a.root.step = p + 2 /\ b.root.step = q + 2 /\ g <= q /\ g \in Nat
  <2>1. a \in Ratchet /\ b \in Ratchet /\ a.root.step = p + 2 /\ b.root.step = q + 2
    BY DEF Sound
  <2>2. a.root.inputs \in Inputs /\ b.root.inputs \in Inputs /\ b.receiver_hash.inputs \in Inputs
    BY <2>1 DEF Ratchet, ChainRoot
  <2> QED BY <2>1, <2>2, InputFacts DEF Tidy
<1>4. /\ u = w => k <= q /\ k > p
      /\ u # w => k <= p /\ k > q
  <2>1. u = w => m.from = v /\ k > p
    BY <1>2, <1>3, SMT DEF v
  <2>2. u # w => m.from = w /\ k > q
    BY <1>1, <1>2, <1>3, SMT
  <2> QED BY <2>1, <2>2 DEF Unused, k, p, q, v
<1> HIDE DEF k, p, q, v, g
<1>5. ~Even(w, a, b)
  <2> SUFFICES ASSUME Even(w, a, b) PROVE FALSE
    OBVIOUS
  <2>1. p = q
    BY DEF Even, p, q
  <2> QED BY <1>2, <1>3, <1>4, <2>1, SMT
<1>6. Ahead(w, a, b)
  BY <1>5 DEF Meet
<1>7. PICK n \in Range(box) : n \in sent /\ n.from = w /\ Opens(n, a, b) /\ FirstsRead(sent, op, {n})
  BY <1>5 DEF Meet
<1>8. p = q + 1
  BY <1>6, AheadFacts DEF p, q
<1>9. u # w /\ k = p
  BY <1>2, <1>3, <1>4, <1>8, SMT
<1>10. Genuine(n) /\ InputsOf(n) = a.root.inputs /\ n.header.sub_step = 0 /\ InputsOf(n) \in Inputs
       /\ n.key = <<ChainOf(InputsOf(n)), 0>>
  BY <1>7, GenuineFacts DEF SoundState, SentSound, Genuine, Opens
<1>11. InputsOf(m) = InputsOf(n)
  <2>1. Len(InputsOf(m)) = Len(InputsOf(n)) /\ Len(InputsOf(m)) <= Len(InputsOf(n))
    BY <1>2, <1>3, <1>9, <1>10, SMT DEF k, p
  <2>2. IsPrefix(InputsOf(m), InputsOf(n))
    BY <1>7, <2>1 DEF Comparable
  <2> QED BY <1>2, <1>10, <2>1, <2>2, PrefixFacts
<1>12. m.header.sub_step = 0
  <2> SUFFICES ASSUME m.header.sub_step # 0 PROVE FALSE
    OBVIOUS
  <2>1. b.receiver_hash = ChainOf(InputsOf(m))
    BY <1>2, <1>9 DEF SessionsNamed
  <2>2. ChainOf(InputsOf(m)).inputs = InputsOf(m)
    BY DEF ChainOf, InitChain, Derived
  <2>3. g = k
    BY <2>1, <2>2 DEF g, k
  <2> QED BY <1>2, <1>3, <1>8, <1>9, <2>3, SMT
<1>13. m = n
  BY <1>2, <1>7, <1>10, <1>11, <1>12 DEF KeysDiffer
<1> QED BY <1>6, <1>7, <1>9, <1>13

\* What the steps below have in common.
Together == /\ SoundState /\ AlignedState /\ FreshState /\ MetState

LEMMA SendMeets ==
    ASSUME Together, NEW u \in Users, SendFriendMessage(u), "parallel" \notin suffered'
    PROVE  MetState'
<1>1. PICK m, e : Sends(u, m, e)
  BY SendIs DEF Together
<1> DEFINE dr == friends[u][1]
           v == Other(u)
           p == [new |-> FALSE, dr |-> e]
<1>2. /\ friends[u] # <<>> /\ pending[u] = <<>> /\ Genuine(m) /\ m.from = u
      /\ InputsOf(m) = e.root.inputs /\ e = Send(dr).dr /\ m.header = Send(dr).header
      /\ m.session = dr.sender_hash /\ mail' = [mail EXCEPT ![v] = Append(@, m)] /\ sent' = sent \cup {m}
      /\ pending' = [pending EXCEPT ![u] = <<p>>]
      /\ UNCHANGED <<friends, friend_index, drawn, opened>>
  <2>1. pending[u] = <<>> /\ pending' = [pending EXCEPT ![u] = <<p>>]
    BY <1>1, SendAlone DEF Together
  <2>2. /\ friends[u] # <<>> /\ Genuine(m) /\ m.from = u
        /\ InputsOf(m) = e.root.inputs /\ e = Send(dr).dr /\ m.header = Send(dr).header
        /\ m.session = dr.sender_hash /\ mail' = [mail EXCEPT ![v] = Append(@, m)] /\ sent' = sent \cup {m}
        /\ UNCHANGED <<friends, friend_index, drawn, opened>>
    BY <1>1 DEF Sends
  <2> QED BY <2>1, <2>2
<1>3. /\ v \in Users /\ v # u /\ Other(v) = u /\ \A w \in Users : w = u \/ w = v
      /\ "alice" \in Users /\ "bob" \in Users /\ Other("alice") = "bob" /\ Other("bob") = "alice"
  BY TurnFacts DEF Users, Other
<1>4. /\ friends = [w \in Users |-> friends[w]] /\ pending \in [Users -> Seq(Waiting)]
      /\ mail \in [Users -> Seq(Item)]
  BY DEF Together, SoundState, RatchetsSound, MailSound
<1>5. /\ \A w \in Users : IndexIs(w) /\ (Exists(w) => Tidy(Current(w)))
      /\ SessionsNamed(sent)
  BY DEF Together, MetState
<1>6. Current(u) = dr /\ Exists(u) /\ Sound(u, dr) /\ Tidy(dr) /\ dr.sender.step \in Int
  <2>1. Current(u) = dr /\ Exists(u)
    BY <1>2 DEF Current, Exists
  <2> HIDE DEF dr
  <2>2. Sound(u, dr) /\ Tidy(dr)
    BY <1>5, <2>1, PairSound DEF Together
  <2> QED BY <2>1, <2>2 DEF Sound, Ratchet, Chain
<1> HIDE DEF dr
<1>7. /\ e.receiver_hash = dr.receiver_hash /\ e.receiver = dr.receiver /\ e.kyber = dr.kyber
      /\ e.x25519 = dr.x25519
      /\ dr.sender.step # Guarding =>
            /\ e.root = dr.root /\ m.header.sub_step = dr.sender.step /\ dr.sender.step >= 1
            /\ e.sender.step = dr.sender.step + 1
            /\ dr.sender_hash = ChainOf(dr.root.inputs)
      /\ dr.sender.step = Guarding => m.header.sub_step = 0
  BY <1>2, <1>6, SendMoves DEF Tidy
<1>8. Tidy(e)
  BY <1>2, <1>6, SendTidy
<1>9. dr.sender.step # Guarding => m.header.sub_step # 0
  BY <1>6, <1>7, SMT
<1>10. \A x : <<x>> # <<>> /\ <<x>>[1] = x
  OBVIOUS
<1>11. \A w \in Users : Current(w)' = IF w = u THEN e ELSE Current(w)
  <2>1. p.dr = e
    OBVIOUS
  <2> HIDE DEF p
  <2> QED BY <1>2, <1>4, <1>10, <2>1 DEF Current
<1>12. \A w \in Users : Exists(w)' <=> Exists(w)
  BY <1>2, <1>4, <1>10 DEF Exists
<1>13. \A w \in Users : IndexIs(w)'
  <2> TAKE w \in Users
  <2>1. p.new = FALSE /\ p.dr = e
    OBVIOUS
  <2> HIDE DEF p
  <2>2. pending'[w] = IF w = u THEN <<p>> ELSE pending[w]
    BY <1>2, <1>4
  <2>3. UNCHANGED <<friends, friend_index>>
    BY <1>2
  <2>4. CASE w = u
    <3>1. friend_index[w] = IF friends[w] = <<>> THEN {} ELSE {friends[w][1].receiver_hash}
      BY <1>5 DEF IndexIs
    <3>2. friends[w] # <<>> /\ ~p.new /\ p.dr.receiver_hash = friends[w][1].receiver_hash
      BY <1>2, <1>7, <2>1, <2>4 DEF dr
    <3> QED BY <1>10, <2>2, <2>3, <2>4, <3>1, <3>2 DEF IndexIs
  <2>5. CASE w # u
    BY <1>5, <2>2, <2>3, <2>5 DEF IndexIs
  <2> QED BY <2>4, <2>5
<1>14. SessionsNamed(sent')
  <2>1. m.header.sub_step # 0 => m.session = m.key[1]
    <3>1. m.key[1] = ChainOf(InputsOf(m))
      BY <1>2, GenuineFacts
    <3> QED BY <1>2, <1>7, <3>1
  <2> QED BY <1>2, <1>5, <2>1 DEF SessionsNamed
<1>15. m \in Item /\ m \notin FriendRequest
  BY <1>2 DEF Genuine, Item, FriendMessage, FriendRequest
<1>16. \A w \in Users : mail'[w] = IF w = v THEN Append(mail[w], m) ELSE mail[w]
  BY <1>2, <1>3, <1>4
<1>17. ASSUME friends["bob"] = <<>>, Exists("alice")
       PROVE  /\ Alone(Current("alice")') /\ Asks(mail'["bob"], Current("alice")')
              /\ \A n \in sent' : n.header.sub_step # 0
  <2>1. u = "alice" /\ v = "bob"
    BY <1>2, <1>3, <1>17 DEF Users
  <2>2. Alone(dr) /\ Asks(mail["bob"], dr) /\ \A n \in sent : n.header.sub_step # 0
    BY <1>6, <1>17, <2>1 DEF Together, MetState
  <2>3. dr.sender.step # Guarding /\ dr.root.inputs = <<>>
    BY <2>2 DEF Alone
  <2>4. Alone(e)
    <3>1. e.sender.step # Guarding
      BY <1>6, <1>7, <2>3, SMT DEF Guarding
    <3> QED BY <1>7, <2>2, <2>3, <3>1 DEF Alone
  <2>5. Asks(mail'["bob"], e)
    <3>1. Asks(mail["bob"], e) /\ mail["bob"] \in Seq(Item)
      BY <1>3, <1>4, <1>7, <2>2 DEF Asks
    <3> QED BY <1>3, <1>15, <1>16, <2>1, <3>1, AsksFacts
  <2>6. Current("alice")' = e
    BY <1>3, <1>11, <2>1
  <2> QED BY <1>2, <1>9, <2>2, <2>3, <2>4, <2>5, <2>6
\* The pair.
<1>18. ASSUME friends["bob"] # <<>>
       PROVE  /\ Exists("alice")
              /\ \E w \in Users : Meet(w, Current(w)', Current(Other(w))', mail'[Other(w)], sent', opened')
  <2>1. Exists("alice") /\ Exists("bob")
    BY <1>18 DEF Together, MetState, Exists
  <2>2. \A w \in Users : Exists(w) /\ Sound(w, Current(w))
    <3>1. \A w \in Users : Exists(w)
      BY <2>1 DEF Users
    <3> QED BY <3>1, PairSound DEF Together
  <2>3. PICK w \in Users : Meet(w, Current(w), Current(Other(w)), mail[Other(w)], sent, opened)
    BY <1>18 DEF Together, MetState
  <2> DEFINE a == Current(w)
             b == Current(Other(w))
  <2>4. Sound(w, a) /\ Sound(Other(w), b) /\ Other(w) \in Users /\ Other(w) # w /\ Other(Other(w)) = w
    BY <2>2, TurnFacts
  <2>5. dr = IF u = w THEN a ELSE b
    BY <1>3, <1>6, <2>4
  <2>6. /\ Current(w)' = IF u = w THEN e ELSE a
        /\ Current(Other(w))' = IF u = w THEN b ELSE e
    BY <1>3, <1>11, <2>4
  <2> DEFINE box == mail[Other(w)]
             new == mail'[Other(w)]
             other == mail'[w]
  <2>7. /\ Range(box) \subseteq Range(new)
        /\ u # w => m \in Range(other)
    <3>1. \A x \in Users : Range(Append(mail[x], m)) = Range(mail[x]) \cup {m}
      BY <1>4, <1>15, BoxFacts
    <3>2. u # w => w = v
      BY <1>3
    <3> QED BY <1>16, <2>4, <3>1, <3>2
  <2>8. \A open : /\ FirstsRead(sent, opened, open) /\ m.header.sub_step # 0 => FirstsRead(sent', opened', open)
                  /\ FirstsRead(sent, opened, {}) => FirstsRead(sent', opened', {m})
    BY <1>2 DEF FirstsRead
  <2>9. Meet(w, a, b, box, sent, opened)
    BY <2>3
  <2> HIDE DEF a, b, box, new
  <2>10. CASE Even(w, a, b) /\ FirstsRead(sent, opened, {})
    <3>1. CASE u = w
      <4>1. Even(w, e, b)
        BY <1>2, <2>4, <2>5, <2>10, <3>1, SendEven
      <4>2. FirstsRead(sent', opened', {})
        BY <1>9, <2>5, <2>8, <2>10, <3>1 DEF Even
      <4>3. Meet(w, e, b, new, sent', opened')
        BY <4>1, <4>2 DEF Meet
      <4> QED BY <2>1, <2>6, <3>1, <4>3 DEF new
    <3>2. CASE u # w
      <4>1. u = Other(w)
        BY <1>3, <2>4, <3>2
      <4>2. Ahead(u, e, a) /\ Opens(m, e, a)
        BY <1>2, <2>4, <2>5, <2>10, <3>2, <4>1, SendEven
      <4>3. Meet(u, e, a, other, sent', opened')
        BY <1>2, <2>7, <2>8, <2>10, <3>2, <4>2 DEF Meet
      <4>4. Other(u) = w /\ Current(u)' = e /\ Current(Other(u))' = a
        BY <2>4, <2>6, <3>2, <4>1
      <4> HIDE DEF other
      <4>5. Meet(u, Current(u)', Current(Other(u))', other, sent', opened')
        BY <4>3, <4>4
      <4> QED BY <2>1, <4>4, <4>5 DEF other
    <3> QED BY <3>1, <3>2
  <2>11. CASE Ahead(w, a, b) /\ \E n \in Range(box) : /\ n \in sent /\ n.from = w /\ Opens(n, a, b)
                                                      /\ FirstsRead(sent, opened, {n})
    <3>1. PICK n \in Range(box) : n \in sent /\ n.from = w /\ Opens(n, a, b) /\ FirstsRead(sent, opened, {n})
      BY <2>11
    <3>2. dr.sender.step # Guarding
      BY <2>5, <2>11 DEF Ahead
    <3>3. n \in Range(new) /\ n \in sent' /\ FirstsRead(sent', opened', {n})
      BY <1>2, <1>9, <2>7, <2>8, <3>1, <3>2
    <3>4. /\ Ahead(w, IF u = w THEN e ELSE a, IF u = w THEN b ELSE e)
          /\ Opens(n, IF u = w THEN e ELSE a, IF u = w THEN b ELSE e)
      BY <1>2, <2>4, <2>5, <2>11, <3>1, SendAhead
    <3>5. Meet(w, IF u = w THEN e ELSE a, IF u = w THEN b ELSE e, new, sent', opened')
      BY <3>1, <3>3, <3>4 DEF Meet
    <3> QED BY <2>1, <2>6, <3>5 DEF new
  <2> QED BY <2>9, <2>10, <2>11 DEF Meet
<1>19. drawn'["alice"] # 0 => Exists("alice")'
  BY <1>2, <1>3, <1>12 DEF Together, MetState
<1>20. \A w \in Users : Exists(w)' => Tidy(Current(w)')
  BY <1>5, <1>8, <1>11, <1>12
<1>21. friends'["bob"] = friends["bob"] /\ friend_index' = [w \in Users |-> friend_index'[w]]
  BY <1>2 DEF Together, MetState
<1> HIDE DEF p
<1> QED BY <1>3, <1>12, <1>13, <1>14, <1>17, <1>18, <1>19, <1>20, <1>21, MetStateIs

\* The request reaches bob.
LEMMA AcceptMeets ==
    ASSUME Together, NEW i \in DOMAIN mail["bob"], mail["bob"][i] \in FriendRequest,
           HandleRequest("bob", mail["bob"][i]), mail' = [mail EXCEPT !["bob"] = RemoveAt(@, i)],
           UNCHANGED <<pending, sent>>
    PROVE  MetState'
<1> DEFINE m == mail["bob"][i]
           random == Random("bob")
           b == Recipient(m.init, random)
           a == Current("alice")
<1>1. /\ friends = [w \in Users |-> friends[w]] /\ pending \in [Users -> Seq(Waiting)]
      /\ friend_index["bob"] = IF friends["bob"] = <<>> THEN {} ELSE {friends["bob"][1].receiver_hash}
      /\ friend_index = [w \in Users |-> friend_index[w]]
      /\ mail \in [Users -> Seq(Item)] /\ drawn \in [Users -> Nat]
      /\ "alice" \in Users /\ "bob" \in Users /\ Other("alice") = "bob" /\ Other("bob") = "alice"
      /\ \A w \in Users : w = "alice" \/ w = "bob"
  BY DEF Together, SoundState, RatchetsSound, MailSound, MetState, IndexIs, Users, Other
<1>2. /\ friends' = [friends EXCEPT !["bob"] = <<b>>]
      /\ friend_index' = [friend_index EXCEPT !["bob"] = @ \cup {b.receiver_hash}]
      /\ drawn' = [drawn EXCEPT !["bob"] = @ + 1]
      /\ UNCHANGED <<opened, pending, sent>>
  BY DEF HandleRequest
<1>3. friends["bob"] = <<>> /\ pending["bob"] = <<>> /\ drawn["alice"] # 0
  <2>1. friends["bob"] = <<>>
    BY DEF Together, AlignedState, Begun, NoRequest
  <2>2. mail["bob"] # <<>>
    OBVIOUS
  <2> QED BY <1>1, <2>1, <2>2 DEF Together, AlignedState, Begun
<1>4. Exists("alice")
  BY <1>3 DEF Together, MetState
<1>5. /\ Alone(a) /\ m.init = a.x25519 /\ \A n \in sent : n.header.sub_step # 0
      /\ Tidy(a) /\ Sound("alice", a)
  <2>1. /\ Alone(a) /\ Asks(mail["bob"], a) /\ \A n \in sent : n.header.sub_step # 0
    BY <1>3, <1>4 DEF Together, MetState
  <2>2. Tidy(a) /\ Sound("alice", a)
    BY <1>1, <1>4, PairSound DEF Together, MetState
  <2> QED BY <2>1, <2>2 DEF Asks
<1>6. /\ b.root.inputs = <<>> /\ b.sender.step = Guarding /\ b.sender_hash = Handshake
      /\ b.receiver_hash = InitChain /\ b.receiver.step = 1 /\ b.prev_sub_count = 0
      /\ b.x25519 = random /\ b.cp = <<m.init, random>> /\ b.ss = b.cp /\ b.seed = Dh(random, m.init)
  BY DEF Recipient, Encapsulate
<1> HIDE DEF b, random
<1>7. /\ a.root.inputs = <<>> /\ a.sender.step # Guarding /\ a.receiver.step = 0
      /\ a.receiver_hash = Handshake /\ a.kyber = a.x25519
      /\ a.sender.step >= 1 /\ a.sender_hash = InitChain
  BY <1>5 DEF Alone, Tidy, ChainOf
<1> HIDE DEF a
<1>8. Tidy(b)
  <2>1. b.receiver_hash.inputs = <<>> /\ Len(<<>>) <= Len(<<>>)
    BY <1>6, InputFacts DEF InitChain
  <2> QED BY <1>6, <2>1 DEF Tidy
<1>9. Even("alice", a, b)
  <2>1. b.cp # Nothing /\ b.cp[1] = a.kyber
    BY <1>5, <1>6, <1>7 DEF Nothing
  <2>2. Prepared("alice", a, b, 0)
    BY <1>1, <1>6, <2>1, NextMajorFacts DEF Prepared, Fits
  <2>3. b.receiver.step <= a.sender.step /\ a.receiver.step <= b.prev_sub_count
    BY <1>6, <1>7
  <2>4. Len(b.root.inputs) = 0
    BY <1>6, InputFacts
  <2> QED BY <1>5, <1>6, <1>7, <2>2, <2>3, <2>4 DEF Even
<1>10. FirstsRead(sent', opened', {})
  BY <1>2, <1>5 DEF FirstsRead
<1>11. \A x : <<x>> # <<>> /\ <<x>>[1] = x
  OBVIOUS
<1>12. Current("alice")' = a /\ Current("bob")' = b
  BY <1>1, <1>2, <1>3, <1>11 DEF Current, a
<1>13. Meet("alice", Current("alice")', Current(Other("alice"))', mail'[Other("alice")], sent', opened')
  BY <1>1, <1>9, <1>10, <1>12 DEF Meet
<1>14. Exists("alice")' /\ friends'["bob"] # <<>>
  BY <1>1, <1>2, <1>4, <1>11 DEF Exists
<1>15. \A w \in Users : IndexIs(w)'
  <2>1. IndexIs("bob")'
    <3>1. friend_index["bob"] = {}
      BY <1>1, <1>3
    <3>2. friend_index'["bob"] = {b.receiver_hash}
      BY <1>1, <1>2, <3>1
    <3>3. friends'["bob"] = <<b>> /\ pending'["bob"] = <<>>
      BY <1>1, <1>2, <1>3
    <3> QED BY <1>11, <3>2, <3>3 DEF IndexIs
  <2>2. IndexIs("alice")'
    <3>1. /\ friends'["alice"] = friends["alice"] /\ pending' = pending
          /\ friend_index'["alice"] = friend_index["alice"]
      BY <1>1, <1>2
    <3>2. IndexIs("alice")
      BY <1>1 DEF Together, MetState
    <3> QED BY <3>1, <3>2 DEF IndexIs
  <2> QED BY <1>1, <2>1, <2>2
<1>16. \A w \in Users : Exists(w)' => Tidy(Current(w)')
  BY <1>1, <1>5, <1>8, <1>12 DEF a
<1>17. SessionsNamed(sent')
  BY <1>2 DEF Together, MetState
<1>18. friend_index' = [w \in Users |-> friend_index'[w]]
  BY <1>1, <1>2
<1> QED BY <1>1, <1>13, <1>14, <1>15, <1>16, <1>17, <1>18, MetStateIs

\* The mail in a user's box once the item at place i is taken out.
LEMMA BoxesAfter ==
    ASSUME SoundState, NEW u \in Users, NEW i \in DOMAIN mail[u], mail' = [mail EXCEPT ![u] = RemoveAt(@, i)]
    PROVE  /\ \A w \in Users : \A x \in Range(mail[w]) : (w = u /\ x = mail[u][i]) \/ x \in Range(mail'[w])
           /\ \A dr : Asks(mail["bob"], dr) => Asks(mail'["bob"], dr)
<1>1. mail \in [Users -> Seq(Item)] /\ mail[u] \in Seq(Item) /\ "bob" \in Users
  BY DEF SoundState, MailSound, Users
<1>2. \A w \in Users : mail'[w] = IF w = u THEN RemoveAt(mail[u], i) ELSE mail[w]
  BY <1>1
<1>3. \A x \in Range(mail[u]) : x = mail[u][i] \/ x \in Range(RemoveAt(mail[u], i))
  <2>1. \A s \in Seq(Item) : \A k \in DOMAIN s : s[k] \in Item
    BY LenProperties
  <2> QED BY <1>1, <2>1, BoxFacts
<1>4. \A dr : Asks(mail[u], dr) => Asks(RemoveAt(mail[u], i), dr)
  BY <1>1, AsksFacts
<1> QED BY <1>1, <1>2, <1>3, <1>4

\* A message that cannot be read is not the one that opens the chain.
LEMMA RejectMeets ==
    ASSUME Together, NEW u \in Users, NEW i \in DOMAIN mail[u], mail' = [mail EXCEPT ![u] = RemoveAt(@, i)],
           pending[u] = <<>>, mail[u][i] \in sent,
           ~(mail[u][i].session \in friend_index[u] /\ friends[u] # <<>>
             /\ Decrypted(friends[u][1], mail[u][i], Random(u)).ok),
           UNCHANGED <<pending, sent, friends, friend_index, drawn, opened>>
    PROVE  MetState'
<1> DEFINE m == mail[u][i]
<1>1. \A w \in Users : (Exists(w)' <=> Exists(w)) /\ Current(w)' = Current(w) /\ (IndexIs(w)' <=> IndexIs(w))
  BY DEF Exists, Current, IndexIs
<1>2. /\ \A w \in Users : \A x \in Range(mail[w]) : (w = u /\ x = m) \/ x \in Range(mail'[w])
      /\ \A dr : Asks(mail["bob"], dr) => Asks(mail'["bob"], dr)
  BY BoxesAfter DEF Together
<1> HIDE DEF m
<1>3. "alice" \in Users
  BY DEF Users
<1>4. ASSUME friends["bob"] # <<>>
      PROVE  \E w \in Users : Meet(w, Current(w)', Current(Other(w))', mail'[Other(w)], sent', opened')
  <2>1. Exists("alice") /\ Exists("bob")
    BY <1>4 DEF Together, MetState, Exists
  <2>2. \A w \in Users : Exists(w) /\ Sound(w, Current(w)) /\ Tidy(Current(w)) /\ IndexIs(w)
    <3>1. \A w \in Users : Exists(w)
      BY <2>1 DEF Users
    <3> QED BY <3>1, PairSound DEF Together, MetState
  <2>3. PICK w \in Users : Meet(w, Current(w), Current(Other(w)), mail[Other(w)], sent, opened)
    BY <1>4 DEF Together, MetState
  <2> DEFINE a == Current(w)
             b == Current(Other(w))
             v == Other(w)
  <2>4. Sound(w, a) /\ Sound(Other(w), b) /\ Tidy(a) /\ v \in Users
    BY <2>2, TurnFacts
  <2>5. CASE Even(w, a, b) /\ FirstsRead(sent, opened, {})
    <3>1. Meet(w, a, b, mail'[v], sent', opened')
      BY <2>5 DEF Meet
    <3> QED BY <1>1, <2>4, <3>1
  <2>6. CASE Ahead(w, a, b) /\ \E n \in Range(mail[v]) : /\ n \in sent /\ n.from = w /\ Opens(n, a, b)
                                                         /\ FirstsRead(sent, opened, {n})
    <3>1. PICK n \in Range(mail[v]) : n \in sent /\ n.from = w /\ Opens(n, a, b) /\ FirstsRead(sent, opened, {n})
      BY <2>6
    <3>2. ~(v = u /\ n = m)
      <4> SUFFICES ASSUME v = u, n = m PROVE FALSE
        OBVIOUS
      <4>1. friends[u] # <<>> /\ b = friends[u][1]
        BY <2>2 DEF Exists, Current
      <4> HIDE DEF a, b
      <4>2. n.session = b.receiver_hash
        BY <3>1 DEF Opens
      <4>3. n.session \in friend_index[u]
        BY <2>2, <4>1, <4>2 DEF IndexIs
      <4>4. Random(u) \in Name /\ Random(u)[1] = u
        BY RandomIs DEF Together, SoundState
      <4>5. Genuine(n)
        BY <3>1 DEF Together, SoundState, SentSound
      <4>6. Decrypted(b, n, Random(u)).ok
        BY <2>4, <2>6, <3>1, <4>4, <4>5, OpenerTurns
      <4> QED BY <4>1, <4>3, <4>6 DEF m
    <3>3. n \in Range(mail'[v])
      BY <1>2, <2>4, <3>1, <3>2
    <3>4. Meet(w, a, b, mail'[v], sent', opened')
      BY <2>6, <3>1, <3>3 DEF Meet
    <3> QED BY <1>1, <2>4, <3>4
  <2> QED BY <2>3, <2>5, <2>6 DEF Meet
<1>5. drawn'["alice"] # 0 => Exists("alice")'
  BY <1>1, <1>3 DEF Together, MetState
<1>6. \A w \in Users : IndexIs(w)' /\ (Exists(w)' => Tidy(Current(w)'))
  BY <1>1 DEF Together, MetState
<1>7. SessionsNamed(sent')
  BY DEF Together, MetState
<1>8. friends'["bob"] = <<>> /\ Exists("alice")' =>
          /\ Alone(Current("alice")') /\ Asks(mail'["bob"], Current("alice")')
          /\ \A n \in sent' : n.header.sub_step # 0
  BY <1>1, <1>2, <1>3 DEF Together, MetState
<1>9. friends'["bob"] # <<>> => Exists("alice")'
  BY <1>1, <1>3 DEF Together, MetState
<1>10. friend_index' = [w \in Users |-> friend_index'[w]]
  BY DEF Together, MetState
<1> QED BY <1>4, <1>5, <1>6, <1>7, <1>8, <1>9, <1>10, MetStateIs

\* A message that is read.
Takes(u, i, m, e) ==
    /\ m = mail[u][i] /\ mail' = [mail EXCEPT ![u] = RemoveAt(@, i)]
    /\ pending[u] = <<>> /\ m \in sent /\ m.from = Other(u)
    /\ m.session \in friend_index[u] /\ friends[u] # <<>>
    /\ Decrypted(friends[u][1], m, Random(u)).ok
    /\ e = Decrypted(friends[u][1], m, Random(u)).dr
    /\ friends' = [friends EXCEPT ![u] = <<e>>]
    /\ friend_index' = [friend_index EXCEPT ![u] = (@ \ {m.session}) \cup {e.receiver_hash}]
    /\ opened' = [opened EXCEPT ![u] = Append(@, m)]
    /\ UNCHANGED <<pending, sent>>

LEMMA ReadMeets ==
    ASSUME Together, NEW u \in Users, NEW i \in DOMAIN mail[u], NEW m, NEW e, Takes(u, i, m, e)
    PROVE  MetState'
<1> DEFINE dr == friends[u][1]
           random == Random(u)
<1>1. /\ friends = [w \in Users |-> friends[w]] /\ pending \in [Users -> Seq(Waiting)]
      /\ friend_index = [w \in Users |-> friend_index[w]]
      /\ opened \in [Users -> Seq(FriendMessage)]
      /\ "alice" \in Users /\ "bob" \in Users /\ Other("alice") = "bob"
      /\ \A w \in Users : w = "alice" \/ w = "bob"
  BY DEF Together, SoundState, RatchetsSound, MetState, Users, Other
<1>0. /\ mail' = [mail EXCEPT ![u] = RemoveAt(@, i)] /\ m = mail[u][i]
      /\ pending[u] = <<>> /\ m \in sent /\ m.from = Other(u)
      /\ m.session \in friend_index[u] /\ friends[u] # <<>>
      /\ friends' = [friends EXCEPT ![u] = <<e>>]
      /\ friend_index' = [friend_index EXCEPT ![u] = (@ \ {m.session}) \cup {e.receiver_hash}]
      /\ opened' = [opened EXCEPT ![u] = Append(@, m)]
      /\ UNCHANGED <<pending, sent>>
  BY DEF Takes
<1>2. friends["bob"] # <<>>
  <2>1. u = "bob" \/ m.from = "bob"
    BY <1>1, <1>0
  <2> QED BY <1>1, <1>0, <2>1 DEF Together, AlignedState, Begun
<1>3. \A w \in Users : Exists(w)
  BY <1>1, <1>2 DEF Together, MetState, Exists
<1>4. \A w \in Users : /\ Sound(w, Current(w)) /\ Unused(w, Current(w), sent) /\ Tidy(Current(w))
                       /\ IndexIs(w)
  BY <1>3, PairSound DEF Together, MetState
<1>5. Current(u) = dr /\ m.session = dr.receiver_hash /\ friend_index[u] = {dr.receiver_hash}
  BY <1>4, <1>0 DEF Current, IndexIs
<1>6. random \in Name /\ random[1] = u
  BY RandomIs DEF Together, SoundState
<1>7. Genuine(m) /\ m \in FriendMessage /\ Other(u) \in Users /\ m.header.step \in Nat
  BY <1>0, GenuineFacts, TurnFacts DEF Together, SoundState, SentSound, Genuine
<1>8. Decrypted(dr, m, random).ok /\ e = Decrypted(dr, m, random).dr /\ m.from = Other(u) /\ m \in sent
  BY DEF Takes
<1>9. \A x : <<x>> # <<>> /\ <<x>>[1] = x
  OBVIOUS
<1>10. /\ \A w \in Users : \A x \in Range(mail[w]) : (w = u /\ x = m) \/ x \in Range(mail'[w])
  BY <1>0, BoxesAfter DEF Together
<1>11. /\ \A w \in Users : Range(opened[w]) \subseteq Range(opened'[w])
       /\ m \in Range(opened'[u])
  <2>1. \A w \in Users : opened'[w] = IF w = u THEN Append(opened[w], m) ELSE opened[w]
    BY <1>1, <1>0
  <2>2. \A w \in Users : Range(Append(opened[w], m)) = Range(opened[w]) \cup {m}
    BY <1>1, <1>7, BoxFacts
  <2> QED BY <2>1, <2>2
<1>12. \A w \in Users : /\ Current(w)' = IF w = u THEN e ELSE Current(w)
                        /\ Exists(w)'
  BY <1>1, <1>3, <1>9, <1>0 DEF Current, Exists
<1> HIDE DEF dr, random
<1>13. PICK w \in Users : Meet(w, Current(w), Current(Other(w)), mail[Other(w)], sent, opened)
  BY <1>2 DEF Together, MetState
<1> DEFINE a == Current(w)
           b == Current(Other(w))
           v == Other(w)
           left == mail'[v]
<1>14. /\ v \in Users /\ v # w /\ (u = w \/ u = v) /\ dr = IF u = w THEN a ELSE b
       /\ Sound(w, a) /\ Sound(Other(w), b) /\ Unused(w, a, sent) /\ Unused(Other(w), b, sent)
       /\ Tidy(a) /\ Tidy(b) /\ Meet(w, a, b, mail[v], sent, opened)
  BY <1>4, <1>5, <1>13, TurnFacts
<1>15. Sound(u, dr) /\ Tidy(dr) /\ dr \in Ratchet /\ dr.root.step \in Nat
  BY <1>4, <1>5 DEF Sound, Ratchet
<1>16. Current(w)' = (IF u = w THEN e ELSE a) /\ Current(Other(w))' = (IF u = w THEN b ELSE e)
  BY <1>12, <1>14
<1> HIDE DEF a, b, left
<1>17. Tidy(e) /\ Meet(w, Current(w)', Current(Other(w))', left, sent, opened')
  <2>1. CASE m.header.step <= dr.root.step
    <3>1. /\ SameChain(dr, e)
          /\ e.receiver.step # dr.receiver.step =>
                m.header.step = dr.root.step /\ e.receiver.step = m.header.sub_step + 1
      BY <1>7, <1>8, <1>15, <2>1, ReadMoves
    <3>2. \A n \in Range(mail[v]) : (u # w /\ n = m) \/ n \in Range(left)
      BY <1>10, <1>14 DEF left
    <3>3. SoundState
      BY DEF Together
    <3> HIDE DEF v
    <3>4. Meet(w, IF u = w THEN e ELSE a, IF u = w THEN b ELSE e, left, sent, opened')
      BY <1>8, <1>11, <1>14, <2>1, <3>1, <3>2, <3>3, LateMeets, ZenonT(30)
    <3> QED BY <1>15, <1>16, <3>1, <3>4, ReadTidy
  <2>2. CASE m.header.step > dr.root.step
    <3>1. Comparable(sent) /\ KeysDiffer(sent) /\ SessionsNamed(sent) /\ SoundState
      BY DEF Together, AlignedState, FreshState, MetState
    <3>2. u # w /\ Ahead(w, a, b) /\ Opens(m, a, b) /\ FirstsRead(sent, opened, {m})
      BY <1>5, <1>8, <1>14, <2>2, <3>1, LaterOpens
    <3>3. dr = b /\ u = Other(w) /\ m.from = w
      BY <1>8, <1>14, <3>2, TurnFacts
    <3>4. Even(w, a, e) /\ Tidy(e)
      BY <1>6, <1>7, <1>8, <1>14, <3>2, <3>3, OpenerTurns
    <3>5. FirstsRead(sent, opened', {})
      <4>1. \A n \in sent : Other(n.from) \in Users
        BY <3>1, GenuineFacts, TurnFacts DEF SoundState, SentSound
      <4> QED BY <1>8, <1>11, <3>2, <3>3, <4>1 DEF FirstsRead
    <3>6. Meet(w, a, e, left, sent, opened')
      BY <3>4, <3>5 DEF Meet
    <3> QED BY <1>16, <3>2, <3>4, <3>6
  <2> QED BY <1>7, <1>15, <2>1, <2>2, SMT
<1>18. \A x \in Users : IndexIs(x)'
  <2> TAKE x \in Users
  <2>1. CASE x = u
    <3>1. friend_index'[u] = (friend_index[u] \ {m.session}) \cup {e.receiver_hash}
      BY <1>1, <1>0
    <3>2. friend_index'[u] = {e.receiver_hash}
      BY <1>5, <3>1
    <3>3. friends'[u] = <<e>> /\ pending'[u] = <<>>
      BY <1>1, <1>0
    <3>4. IndexIs(u)'
      BY <1>9, <3>2, <3>3 DEF IndexIs
    <3> QED BY <2>1, <3>4
  <2>2. CASE x # u
    <3>1. friends'[x] = friends[x] /\ friend_index'[x] = friend_index[x] /\ pending' = pending
      BY <1>1, <1>0, <2>2
    <3> QED BY <1>4, <3>1 DEF IndexIs
  <2> QED BY <2>1, <2>2
<1>19. \A x \in Users : Exists(x)' => Tidy(Current(x)')
  BY <1>4, <1>12, <1>17
<1>20. SessionsNamed(sent')
  BY <1>0 DEF Together, MetState
<1>21. friends'["bob"] # <<>> /\ Exists("alice")'
  BY <1>1, <1>2, <1>9, <1>12, <1>0
<1>22. friend_index' = [x \in Users |-> friend_index'[x]]
  BY <1>1, <1>0
<1>23. sent' = sent
  BY <1>0
<1>24. \E x \in Users : Meet(x, Current(x)', Current(Other(x))', mail'[Other(x)], sent', opened')
  BY <1>17, <1>23 DEF left
<1> QED BY <1>18, <1>19, <1>20, <1>21, <1>22, <1>24, MetStateIs

LEMMA HandleMeets ==
    ASSUME Together, NEW u \in Users, NEW i \in DOMAIN mail[u], Handle(u, i), pending[u] = <<>>
    PROVE  MetState'
<1> DEFINE m == mail[u][i]
           e == Decrypted(friends[u][1], m, Random(u)).dr
<1>1. mail' = [mail EXCEPT ![u] = RemoveAt(@, i)] /\ UNCHANGED <<pending, sent>>
  BY DEF Handle
<1>2. m \in Item /\ Addressed(u, m, sent)
  BY MailShrinks DEF Together, SoundState
<1>3. /\ \A n \in sent : n.kind = "message" /\ n \in FriendMessage
      /\ \A n \in FriendRequest : n.kind = "request"
  BY DEF Together, SoundState, SentSound, Genuine, FriendMessage, FriendRequest
<1>4. \/ m.kind = "request" /\ HandleRequest(u, m)
      \/ m.kind = "message" /\ HandleMessage(u, m)
  BY DEF Handle
<1>5. CASE m.kind = "request" /\ HandleRequest(u, m)
  <2>1. m \in FriendRequest /\ u = "bob"
    BY <1>2, <1>3, <1>5 DEF Addressed
  <2> QED BY <1>1, <1>5, <2>1, AcceptMeets
<1>6. CASE m.kind = "message" /\ HandleMessage(u, m)
  <2>1. m \in sent /\ m.from = Other(u)
    BY <1>2, <1>3, <1>6 DEF Addressed
  <2>2. CASE m.session \in friend_index[u] /\ friends[u] # <<>> /\ Decrypted(friends[u][1], m, Random(u)).ok
    <3>1. /\ friends' = [friends EXCEPT ![u] = <<e>>]
          /\ friend_index' = [friend_index EXCEPT ![u] = (@ \ {m.session}) \cup {e.receiver_hash}]
          /\ opened' = [opened EXCEPT ![u] = Append(@, m)]
      BY <1>6, <2>2 DEF HandleMessage
    <3>2. Takes(u, i, m, e)
      BY <1>1, <2>1, <2>2, <3>1 DEF Takes
    <3> QED BY <3>2, ReadMeets
  <2>3. CASE ~(m.session \in friend_index[u] /\ friends[u] # <<>> /\ Decrypted(friends[u][1], m, Random(u)).ok)
    <3>1. UNCHANGED <<friends, friend_index, drawn, opened>>
      BY <1>6, <2>3 DEF HandleMessage
    <3> QED BY <1>1, <2>1, <2>3, <3>1, RejectMeets
  <2> QED BY <2>2, <2>3
<1> QED BY <1>4, <1>5, <1>6

\* The friend request is on its way.
LEMMA AskMeets ==
    ASSUME Together, SendFriendRequest
    PROVE  MetState'
<1> DEFINE init == Random("alice")
           m == [kind |-> "request", init |-> init]
           a == Sender(init)
           p == [new |-> TRUE, dr |-> a]
<1>1. /\ drawn["alice"] = 0 /\ mail' = [mail EXCEPT !["bob"] = Append(@, m)]
      /\ pending' = [pending EXCEPT !["alice"] = <<p>>]
      /\ UNCHANGED <<friends, friend_index, sent, opened>>
  BY DEF SendFriendRequest
<1>2. /\ pending \in [Users -> Seq(Waiting)] /\ mail \in [Users -> Seq(Item)]
      /\ friend_index = [w \in Users |-> friend_index[w]] /\ \A w \in Users : IndexIs(w)
      /\ "alice" \in Users /\ "bob" \in Users /\ "alice" # "bob" /\ \A w \in Users : w = "alice" \/ w = "bob"
  BY DEF Together, SoundState, RatchetsSound, MailSound, MetState, Users
<1>3. \A w \in Users : friends[w] = <<>> /\ pending[w] = <<>> /\ mail[w] = <<>>
  BY <1>1 DEF Together, AlignedState, Begun
<1>4. sent = {}
  <2>1. \A n \in sent : n.from \in Users
    BY GenuineFacts DEF Together, SoundState, SentSound
  <2> QED BY <1>3, <2>1 DEF Together, AlignedState, Begun
<1>5. /\ a.root.inputs = <<>> /\ a.sender.step = 1 /\ a.sender_hash = InitChain /\ a.receiver.step = 0
      /\ a.receiver_hash = Handshake /\ a.kyber = init /\ a.x25519 = init
  BY DEF Sender
<1>6. p.new = TRUE /\ p.dr = a /\ m.init = init
  OBVIOUS
<1> HIDE DEF a, init, p
<1>7. Alone(a) /\ Tidy(a)
  <2>1. Len(a.receiver_hash.inputs) <= Len(a.root.inputs)
    BY <1>5, InputFacts DEF Handshake
  <2>2. a.sender.step # Guarding /\ a.sender.step >= 1
    BY <1>5 DEF Guarding
  <2> QED BY <1>5, <2>1, <2>2 DEF Alone, Tidy, ChainOf
<1>8. \A x : <<x>> # <<>> /\ <<x>>[1] = x
  OBVIOUS
<1>9. pending'["alice"] = <<p>> /\ pending'["bob"] = <<>>
  BY <1>1, <1>2, <1>3
<1>10. Current("alice")' = a /\ Exists("alice")' /\ ~Exists("bob")'
  BY <1>1, <1>2, <1>3, <1>6, <1>8, <1>9 DEF Current, Exists
<1>11. Asks(mail'["bob"], a)
  <2>1. mail'["bob"] = Append(<<>>, m)
    BY <1>1, <1>2, <1>3
  <2>2. Append(<<>>, m) = <<m>>
    OBVIOUS
  <2>3. \A k \in DOMAIN <<m>> : <<m>>[k] = m
    OBVIOUS
  <2> HIDE DEF m
  <2> QED BY <1>5, <1>6, <2>1, <2>2, <2>3 DEF Asks
<1>12. \A w \in Users : IndexIs(w)'
  <2>1. IndexIs("alice")'
    <3>1. friend_index'["alice"] = {} /\ friends'["alice"] = <<>>
      BY <1>1, <1>2, <1>3 DEF IndexIs
    <3> QED BY <1>6, <1>8, <1>9, <3>1 DEF IndexIs
  <2>2. IndexIs("bob")'
    <3>1. friend_index'["bob"] = {} /\ friends'["bob"] = <<>>
      BY <1>1, <1>2, <1>3 DEF IndexIs
    <3> QED BY <1>9, <3>1 DEF IndexIs
  <2> QED BY <1>2, <2>1, <2>2
<1>13. SessionsNamed(sent') /\ \A n \in sent' : n.header.sub_step # 0
  BY <1>1, <1>4 DEF SessionsNamed
<1>14. friends'["bob"] = <<>> /\ friend_index' = [w \in Users |-> friend_index'[w]]
  BY <1>1, <1>2, <1>3
<1>15. \A w \in Users : Exists(w)' => Tidy(Current(w)')
  BY <1>2, <1>7, <1>10
<1> QED BY <1>7, <1>10, <1>11, <1>12, <1>13, <1>14, <1>15, MetStateIs

\* The copy is put back.
LEMMA FinishMeets ==
    ASSUME Together, NEW u \in Users, NEW i \in DOMAIN pending[u], FinishSend(u, i), "parallel" \notin suffered
    PROVE  MetState'
<1> DEFINE p == pending[u][1]
<1>1. /\ pending[u] # <<>> /\ friends' = [friends EXCEPT ![u] = <<p.dr>>]
      /\ friend_index' = [friend_index EXCEPT ![u] = IF p.new THEN @ \cup {p.dr.receiver_hash} ELSE @]
      /\ pending' = [pending EXCEPT ![u] = <<>>] /\ UNCHANGED <<mail, drawn, sent, opened>>
  <2>1. i = 1 /\ [pending EXCEPT ![u] = RemoveAt(@, i)] = [pending EXCEPT ![u] = <<>>]
    BY FinishAlone DEF Together
  <2>2. Finishes(u, i, pending[u][i])
    BY FinishIs DEF Together
  <2> QED BY <2>1, <2>2 DEF Finishes
<1>2. /\ friends = [w \in Users |-> friends[w]] /\ pending \in [Users -> Seq(Waiting)]
      /\ friend_index = [w \in Users |-> friend_index[w]] /\ \A w \in Users : IndexIs(w)
      /\ "alice" \in Users /\ "bob" \in Users
  BY DEF Together, SoundState, RatchetsSound, MetState, Users
<1>3. Current(u) = p.dr /\ Exists(u)
  BY <1>1 DEF Current, Exists
<1>4. u = "bob" => friends[u] # <<>>
  BY <1>1 DEF Together, AlignedState, Begun
<1>5. /\ friend_index[u] = IF friends[u] = <<>> THEN {} ELSE {friends[u][1].receiver_hash}
      /\ IF friends[u] = <<>> THEN p.new
         ELSE ~p.new /\ p.dr.receiver_hash = friends[u][1].receiver_hash
  BY <1>1, <1>2 DEF IndexIs
<1> HIDE DEF p
<1>6. \A x : <<x>> # <<>> /\ <<x>>[1] = x
  OBVIOUS
<1>7. friends'[u] = <<p.dr>> /\ pending'[u] = <<>>
      /\ \A w \in Users : w # u => friends'[w] = friends[w] /\ pending'[w] = pending[w]
  BY <1>1, <1>2
<1>8. \A w \in Users : Current(w)' = Current(w) /\ (Exists(w)' <=> Exists(w))
  BY <1>3, <1>6, <1>7 DEF Current, Exists
<1>9. IndexIs(u)'
  <2>1. friend_index'[u] = {p.dr.receiver_hash}
    <3>1. friend_index'[u] = IF p.new THEN friend_index[u] \cup {p.dr.receiver_hash} ELSE friend_index[u]
      BY <1>1, <1>2
    <3>2. CASE friends[u] = <<>>
      BY <1>5, <3>1, <3>2
    <3>3. CASE friends[u] # <<>>
      BY <1>5, <3>1, <3>3
    <3> QED BY <3>2, <3>3
  <2> QED BY <1>6, <1>7, <2>1 DEF IndexIs
<1>10. \A w \in Users : IndexIs(w)'
  <2> TAKE w \in Users
  <2>1. CASE w = u
    BY <1>9, <2>1
  <2>2. CASE w # u
    <3>1. friend_index'[w] = friend_index[w]
      BY <1>1, <1>2, <2>2
    <3> QED BY <1>2, <1>7, <2>2, <3>1 DEF IndexIs
  <2> QED BY <2>1, <2>2
<1>11. friends'["bob"] = <<>> <=> friends["bob"] = <<>>
  BY <1>2, <1>4, <1>6, <1>7
<1>12. \A w \in Users : Other(w) \in Users
  BY TurnFacts
<1>13. /\ friend_index' = [w \in Users |-> friend_index'[w]] /\ sent' = sent /\ mail' = mail
       /\ opened' = opened /\ drawn' = drawn
  BY <1>1, <1>2
<1> HIDE DEF Exists
<1>14. \A w \in Users : Exists(w)' => Tidy(Current(w)')
  BY <1>8 DEF Together, MetState
<1>15. /\ drawn'["alice"] # 0 => Exists("alice")'
       /\ SessionsNamed(sent')
       /\ friends'["bob"] = <<>> /\ Exists("alice")' =>
              /\ Alone(Current("alice")') /\ Asks(mail'["bob"], Current("alice")')
              /\ \A m \in sent' : m.header.sub_step # 0
  BY <1>2, <1>8, <1>11, <1>13 DEF Together, MetState
<1>16. friends'["bob"] # <<>> =>
              /\ Exists("alice")'
              /\ \E w \in Users : Meet(w, Current(w)', Current(Other(w))', mail'[Other(w)], sent', opened')
  BY <1>2, <1>8, <1>11, <1>12, <1>13 DEF Together, MetState
<1> QED BY <1>10, <1>13, <1>14, <1>15, <1>16, MetStateIs

\* A message comes twice.
LEMMA DuplicateMeets ==
    ASSUME Together, NEW u \in Users, mail[u] # <<>>, Head(mail[u]).kind = "message",
           mail' = [mail EXCEPT ![u] = Append(@, Head(@))],
           UNCHANGED <<friends, friend_index, pending, drawn, sent, opened>>
    PROVE  MetState'
<1> DEFINE m == Head(mail[u])
<1>1. mail \in [Users -> Seq(Item)] /\ "alice" \in Users /\ "bob" \in Users
  BY DEF Together, SoundState, MailSound, Users
<1>2. m \in Item /\ m \notin FriendRequest
  <2>1. m \in Item
    BY <1>1, HeadTailProperties
  <2> QED BY <2>1 DEF FriendRequest
<1> HIDE DEF m
<1>3. \A w \in Users : mail'[w] = IF w = u THEN Append(mail[u], m) ELSE mail[w]
  BY <1>1 DEF m
<1>4. /\ \A w \in Users : Range(mail[w]) \subseteq Range(mail'[w])
      /\ \A dr : Asks(mail["bob"], dr) => Asks(mail'["bob"], dr)
  BY <1>1, <1>2, <1>3, BoxFacts, AsksFacts
<1>5. \A w \in Users : (Exists(w)' <=> Exists(w)) /\ Current(w)' = Current(w) /\ (IndexIs(w)' <=> IndexIs(w))
  BY DEF Exists, Current, IndexIs
<1>6. friends' = friends /\ sent' = sent /\ opened' = opened /\ drawn' = drawn /\ friend_index' = friend_index
  OBVIOUS
<1>7. \A w \in Users : Other(w) \in Users
  BY TurnFacts
<1>8. \A w \in Users : \A a, b : Meet(w, a, b, mail[Other(w)], sent, opened) =>
                                   Meet(w, a, b, mail'[Other(w)], sent', opened')
  BY <1>4, <1>6, <1>7 DEF Meet
<1>9. /\ drawn'["alice"] # 0 => Exists("alice")'
      /\ SessionsNamed(sent') /\ friend_index' = [w \in Users |-> friend_index'[w]]
      /\ \A w \in Users : IndexIs(w)' /\ (Exists(w)' => Tidy(Current(w)'))
      /\ friends'["bob"] = <<>> /\ Exists("alice")' =>
              /\ Alone(Current("alice")') /\ Asks(mail'["bob"], Current("alice")')
              /\ \A n \in sent' : n.header.sub_step # 0
  BY <1>1, <1>4, <1>5, <1>6 DEF Together, MetState
<1>10. friends'["bob"] # <<>> =>
              /\ Exists("alice")'
              /\ \E w \in Users : Meet(w, Current(w)', Current(Other(w))', mail'[Other(w)], sent', opened')
  <2> SUFFICES ASSUME friends["bob"] # <<>>
               PROVE  /\ Exists("alice")'
                      /\ \E w \in Users : Meet(w, Current(w)', Current(Other(w))', mail'[Other(w)], sent', opened')
    BY <1>6
  <2>1. Exists("alice")
    BY DEF Together, MetState
  <2>2. PICK w \in Users : Meet(w, Current(w), Current(Other(w)), mail[Other(w)], sent, opened)
    BY DEF Together, MetState
  <2>3. Meet(w, Current(w), Current(Other(w)), mail'[Other(w)], sent', opened')
    BY <1>8, <2>2
  <2>4. Current(w)' = Current(w) /\ Current(Other(w))' = Current(Other(w))
    BY <1>5, <1>7
  <2>5. Meet(w, Current(w)', Current(Other(w))', mail'[Other(w)], sent', opened')
    BY <2>3, <2>4
  <2>6. Exists("alice")'
    BY <1>1, <1>5, <2>1
  <2> QED BY <2>5, <2>6
<1> QED BY <1>9, <1>10, MetStateIs

LEMMA MeetingStep == SoundState /\ Order /\ Freshness /\ Meeting /\ [Next]_vars => Meeting'
<1> SUFFICES ASSUME SoundState, Order, Freshness, Meeting, [Next]_vars, OnlyDisorder'
             PROVE  MetState'
  BY DEF Meeting
<1>1. suffered \subseteq suffered' /\ suffered' \subseteq {"reorder", "duplicate"}
  BY SuffersOn DEF OnlyDisorder
<1>2. /\ OnlyDisorder /\ Calm /\ suffered \cap {"replay", "unacked", "parallel"} = {}
      /\ "parallel" \notin suffered /\ "parallel" \notin suffered'
  BY <1>1 DEF OnlyDisorder, Calm
<1>3. Together
  BY <1>2 DEF Together, Order, Freshness, Meeting
<1>4. CASE SendFriendRequest
  BY <1>3, <1>4, AskMeets
<1>5. ASSUME NEW u \in Users, SendFriendMessage(u) PROVE MetState'
  BY <1>2, <1>3, <1>5, SendMeets
<1>6. ASSUME NEW u \in Users, NEW i \in DOMAIN pending[u], FinishSend(u, i) PROVE MetState'
  BY <1>2, <1>3, <1>6, FinishMeets
<1>7. ASSUME NEW u \in Users, NEW i \in DOMAIN pending[u], FailSend(u, i) PROVE FALSE
  BY <1>1, <1>7 DEF FailSend, Fault
<1>8. ASSUME NEW u \in Users, Deliver(u) PROVE MetState'
  <2>1. PICK i \in DOMAIN mail[u] : Handle(u, i)
    BY <1>8 DEF Deliver
  <2>2. pending[u] = <<>>
    BY <1>1, <1>3, <2>1, HandleIs DEF Together
  <2> QED BY <1>3, <2>1, <2>2, HandleMeets
<1>9. ASSUME NEW u \in Users, Lose(u) PROVE FALSE
  BY <1>1, <1>9 DEF Lose, Fault
<1>10. ASSUME NEW u \in Users, Duplicate(u) PROVE MetState'
  <2>1. /\ mail[u] # <<>> /\ mail' = [mail EXCEPT ![u] = Append(@, Head(@))]
        /\ UNCHANGED <<friends, friend_index, pending, drawn, sent, opened>>
    BY <1>10 DEF Duplicate
  <2>2. Head(mail[u]).kind = "message"
    BY <1>1, <1>10 DEF Duplicate, Fault
  <2> QED BY <1>3, <2>1, <2>2, DuplicateMeets
<1>11. CASE UNCHANGED vars
  <2>1. UNCHANGED <<friends, friend_index, pending, mail, drawn, sent, opened>>
    BY <1>11 DEF vars
  <2>2. MetState
    BY <1>3 DEF Together
  <2>3. MetState' = MetState
    BY <2>1 DEF MetState, Exists, Current, IndexIs, Tidy, SessionsNamed, Alone, Asks, Meet, Even, Ahead, Opens,
                FirstsRead, Prepared, Fits
  <2> QED BY <2>2, <2>3
<1> QED BY <1>4, <1>5, <1>6, <1>7, <1>8, <1>9, <1>10, <1>11 DEF Next

LEMMA AlwaysMeeting == Spec => [](Meeting /\ SoundState)
BY SoundStateInit, SoundStateStep, OrderInit, OrderStep, FreshnessInit, FreshnessStep, MeetingInit, MeetingStep,
   PTL DEF Spec

LEMMA QuietPair ==
    ASSUME SoundState, MetState, Quiet
    PROVE  \E u \in Users : /\ Even(u, friends[u][1], friends[Other(u)][1])
                            /\ FirstsRead(sent, opened, {})
<1>1. "bob" \in Users /\ \A u \in Users : Other(u) \in Users
  BY TurnFacts DEF Users
<1>2. \A u \in Users : /\ Current(u) = friends[u][1] /\ mail[u] = <<>> /\ friends[u] # <<>>
  BY DEF Quiet, Current
<1>3. PICK u \in Users : Meet(u, Current(u), Current(Other(u)), mail[Other(u)], sent, opened)
  BY <1>1, <1>2 DEF MetState
<1>4. Range(mail[Other(u)]) = {}
  <2>1. mail[Other(u)] = <<>>
    BY <1>1, <1>2
  <2>2. DOMAIN <<>> = {}
    OBVIOUS
  <2> QED BY <2>1, <2>2 DEF Range
<1> QED BY <1>1, <1>2, <1>3, <1>4 DEF Meet

\* match_rs in the tests of the ratchet: when the mail is delivered, however it was reordered or
\* repeated on the way, each end sends under the session hash that the other one looks it up by.
THEOREM SessionsMatch == Spec => []MatchWhenQuiet
<1>1. SoundState /\ Meeting => MatchWhenQuiet
  <2> SUFFICES ASSUME SoundState, MetState, Quiet, NEW u \in Users
               PROVE  friends[u][1].sender_hash \in friend_index[Other(u)]
    BY DEF Meeting, MatchWhenQuiet
  <2>1. PICK w \in Users : Even(w, friends[w][1], friends[Other(w)][1])
    BY QuietPair
  <2>2. /\ friends[w][1].receiver_hash = friends[Other(w)][1].sender_hash
        /\ friends[Other(w)][1].receiver_hash = friends[w][1].sender_hash
    BY <2>1 DEF Even
  <2>3. \A x \in Users : friend_index[x] = {friends[x][1].receiver_hash}
    BY DEF MetState, IndexIs, Quiet
  <2>4. /\ Other(u) \in Users /\ Other(w) \in Users /\ Other(Other(w)) = w /\ (u = w \/ u = Other(w))
    BY TurnFacts
  <2> QED BY <2>2, <2>3, <2>4
<1> QED BY <1>1, AlwaysMeeting, PTL

\* recv turns the ratchet on the first message of a chain only: when the mail is delivered, however
\* it was reordered or repeated on the way, every such message has been read.
THEOREM AnswersGetThrough == Spec => []AnswersArrive
<1>1. SoundState /\ Meeting => AnswersArrive
  <2> SUFFICES ASSUME SoundState, MetState, Quiet
               PROVE  FirstsRead(sent, opened, {})
    BY DEF Meeting, AnswersArrive, FirstsRead
  <2> QED BY QuietPair
<1> QED BY <1>1, AlwaysMeeting, PTL
=============================================================================
