---------------------------- MODULE ProfileStore ----------------------------
(***************************************************************************)
(* What one server stores for a profile (chat/server/src/storage/profile): *)
(* the two nonces of root.bin, the mailbox file and the vault table, and   *)
(* what the operations of storage.rs make of them.                         *)
(*                                                                         *)
(* The mailbox is a file that is written at its cursor.  read_mail cuts it *)
(* to length 0 and leaves the cursor where the reading ended, so that the  *)
(* next mail is written behind a hole of zero bytes.  Lengths are in       *)
(* bytes; all mails have MailLen bytes and are stored behind 2 bytes of    *)
(* length.  A vault maps its keys to values, 0 if there is none, and the   *)
(* root of the merkle tree over a vault is the vault itself.               *)
(***************************************************************************)
EXTENDS Integers, Sequences, FiniteSets

CONSTANTS Keys,          \* the keys of the vault
          MailLen,       \* length of a mail
          MailBoxCap,    \* MAIL_BOX_CAP
          MaxVaultKeys   \* MAX_VAULT_KEY_COUNT

ASSUME StoreAssumption ==
    /\ MailLen \in Nat \ {0} /\ MailBoxCap \in Nat /\ MaxVaultKeys \in Nat
    /\ IsFiniteSet(Keys)

EmptyVault == [k \in Keys |-> 0]
EmptyFile == [hole |-> 0, mails |-> <<>>, cursor |-> 0]

\* Storage::create_profile and Handle::create
Created == [vault_version |-> 0, mail_action |-> 0, vault |-> EmptyVault, file |-> EmptyFile]

Length(file) == IF file.mails = <<>> THEN 0
                ELSE file.hole + Len(file.mails) * (MailLen + 2)

\* Handle::load: the mailbox is opened and its cursor moved to the end.
Loaded(pf) == [pf EXCEPT !.file.cursor = Length(pf.file)]

\* The outcome of an operation: its answer and what is stored then.
Err(pf, error) == [ans |-> <<error>>, pf |-> pf]

\* Handle::append_mail
AppendMail(pf, mail) ==
    IF Length(pf.file) + MailLen > MailBoxCap THEN Err(pf, "MailboxFull")
    ELSE [ans |-> <<"Ok">>,
          pf  |-> [pf EXCEPT !.file =
                     [hole   |-> IF @.mails = <<>> THEN @.cursor ELSE @.hole,
                      mails  |-> Append(@.mails, mail),
                      cursor |-> @.cursor + MailLen + 2]]]

\* advancee_nonce refuses a nonce that is not newer than the stored one.
Outdated(stored, new) == new <= stored

\* Handle::read_mail: the file is read from its start, and cut.
TakenOut(file) == [EmptyFile EXCEPT !.cursor = Length(file)]

\* Mutant of ReadMail: the file is not cut.
ReadMailKeeps(pf, nonce) ==
    IF Outdated(pf.mail_action, nonce) THEN Err(pf, "InvalidAction")
    ELSE [ans |-> <<"Ok", pf.file.hole, pf.file.mails>>,
          pf  |-> [pf EXCEPT !.mail_action = nonce]]

\* Storage::read_mail: the nonce is advanced, then the mailbox emptied.
ReadMail(pf, nonce) ==
    IF Outdated(pf.mail_action, nonce) THEN Err(pf, "InvalidAction")
    ELSE [ans |-> <<"Ok", IF pf.file.mails = <<>> THEN 0 ELSE pf.file.hole, pf.file.mails>>,
          pf  |-> [pf EXCEPT !.mail_action = nonce, !.file = TakenOut(@)]]

\* unpack_mail: a hole is read as empty mails, which decode to nothing; behind
\* a hole of odd length the lengths are read one byte off.
Unpacked(hole, mails) == IF hole % 2 = 0 THEN mails ELSE <<>>

\* The vault after some keys of it have been given the values of another.
Overlaid(vault, keys, values) == [k \in Keys |-> IF k \in keys THEN values[k] ELSE vault[k]]

\* Mutant of InsertToVault: the root is not compared.
InsertUnchecked(pf, changes, root, nonce) ==
    LET new == Overlaid(pf.vault, changes, root)
    IN  IF Outdated(pf.vault_version, nonce) THEN Err(pf, "InvalidAction")
        ELSE [ans |-> <<"Ok">>, pf |-> [pf EXCEPT !.vault_version = nonce, !.vault = new]]

\* Storage::insert_to_vault: root is the vault the caller gives as the outcome, and
\* the values of the changed keys are those it has there.  The signature on the root
\* is not verified, and its identity not compared with the profile's.
InsertToVault(pf, changes, root, nonce) ==
    LET new == Overlaid(pf.vault, changes, root)
    IN  IF Cardinality({k \in Keys : new[k] # 0}) >= MaxVaultKeys THEN Err(pf, "TooManyKeys")
        ELSE IF new # root THEN Err(pf, "InvalidProofContext")
        ELSE IF Outdated(pf.vault_version, nonce) THEN Err(pf, "InvalidAction")
        ELSE [ans |-> <<"Ok">>, pf |-> [pf EXCEPT !.vault_version = nonce, !.vault = new]]
=============================================================================
