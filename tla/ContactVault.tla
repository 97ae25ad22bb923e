---------------------------- MODULE ContactVault ----------------------------
(***************************************************************************)
(* The contacts of email senders and their encryption at rest              *)
(* (src/internal/adapters/storage/postgres_contacts.go, postgres_crypto.go)*)
(* The service stores the sender of a reviewed email under its current key *)
(* in two statements; an operator changes the keys by restarting it, and   *)
(* RotateContactEncryption, a maintenance operation, re-encrypts row by    *)
(* row what it has read before.  Every statement is committed on its own,  *)
(* so the two interleave, and each may stop anywhere.                      *)
(*                                                                         *)
(* Ciphertexts are authenticated: only the key that wrote one opens it.    *)
(***************************************************************************)
EXTENDS Integers

CONSTANTS
  People,       \* the senders; each has one address, kept under its hash
  Legacy,       \* those an older version stored in clear
  Keys,         \* encryption keys
  NoKey,        \* the key of a store without one, and of a value in clear
  Keyrings,     \* the configurations an operator may start a process with
  MaxContacts,  \* bound on the rows of the table contacts
  NoValue,      \* the empty string
  NoRow         \* a row that is not in its table

ASSUME KeyAssumption ==
  /\ NoKey \notin Keys
  /\ Keyrings \subseteq [current : Keys \cup {NoKey}, previous : SUBSET Keys]

Values == [field : {"name", "email"}, person : People]

ASSUME ValueAssumption == NoValue \notin Values

\* A stored private field: empty, in clear, or encrypted with a key.
Empty == [key |-> NoKey, value |-> NoValue]

Cells == [key : Keys \cup {NoKey}, value : Values \cup {NoValue}]

Ids == 1 .. MaxContacts

NoId == 0

\* A contact is about a person, which the table does not say.
Contacts == [person : People, fullName : Cells]

Addresses == [contact : Ids, email : Cells, displayName : Cells]

ASSUME RowAssumption ==
  /\ MaxContacts \in Nat
  /\ NoRow \notin Contacts /\ NoRow \notin Addresses
  /\ Legacy \subseteq People

VARIABLES
  contacts,   \* the table contacts
  addresses,  \* the table contact_addresses, by the hash of the address
  service,    \* keyring of the running service
  pc,         \* where UpsertEmailContact is
  sender,     \* the identity it stores
  contact,    \* the row it has inserted
  rpc,        \* where RotateContactEncryption is
  ring,       \* its keyring
  work,       \* what it has read and not yet rewritten
  clean,      \* history: may the rotation underway retire all other keys?
  sole        \* history: the key it left as the only one needed, or NoKey

vars == <<contacts, addresses, service, pc, sender, contact, rpc, ring, work,
          clean, sole>>

tables == <<contacts, addresses>>

upsertVars == <<pc, sender, contact>>

rotationVars == <<rpc, ring, work, clean, sole>>

Senders == [person : People, named : BOOLEAN, mailed : BOOLEAN]

NameItems == [id : Ids, fullName : Cells]

AddressItems == [hash : People, email : Cells, displayName : Cells]

TypeOK ==
  /\ contacts \in [Ids -> Contacts \cup {NoRow}]
  /\ addresses \in [People -> Addresses \cup {NoRow}]
  /\ service \in Keyrings
  /\ pc \in {"idle", "inserting", "linking"}
  /\ sender \in Senders
  /\ contact \in Ids \cup {NoId}
  /\ rpc \in {"idle", "names", "addresses"}
  /\ ring \in Keyrings
  /\ work \subseteq (NameItems \cup AddressItems)
  /\ clean \in BOOLEAN
  /\ sole \in Keys \cup {NoKey}
------------------------------------------------------------------------------
(* Encryption.                                                             *)

Name(p) == [field |-> "name", person |-> p]

Email(p) == [field |-> "email", person |-> p]

\* Seeded fault: a store without a key keeps the value as it is.
EncryptOrKeep(value, keyring) ==
  IF value = NoValue THEN Empty
  ELSE [key |-> keyring.current, value |-> value]

\* encryptContactPrivateValue: without a key, nothing is stored.
Encrypt(value, keyring) ==
  IF value = NoValue \/ keyring.current = NoKey THEN Empty
  ELSE [key |-> keyring.current, value |-> value]

Opens(keyring, cell) ==
  cell.key \in {NoKey, keyring.current} \cup keyring.previous

\* decryptContactPrivateValue: what is not encrypted is returned as it is, what
\* no key opens as the empty string.
Decrypt(cell, keyring) ==
  IF Opens(keyring, cell) THEN cell.value ELSE NoValue

StoredIds == {id \in Ids : contacts[id] # NoRow}

Known == {p \in People : addresses[p] # NoRow}

\* The private fields in the database.
NameCells == {contacts[id].fullName : id \in StoredIds}

AddressCells ==
  {addresses[p].email : p \in Known} \cup {addresses[p].displayName : p \in Known}

AllCells == NameCells \cup AddressCells

Clear(value) == [key |-> NoKey, value |-> value]

Sealed(cell) == cell.key # NoKey \/ cell = Empty

\* The database as an older version left it, and a first configuration.
Init ==
  /\ \E row \in [Legacy -> Ids] :
       /\ \A p, q \in Legacy : row[p] = row[q] => p = q
       /\ contacts = [id \in Ids |->
            IF \E p \in Legacy : row[p] = id
            THEN LET p == CHOOSE q \in Legacy : row[q] = id
                 IN  [person |-> p, fullName |-> Clear(Name(p))]
            ELSE NoRow]
       /\ addresses = [p \in People |->
            IF p \in Legacy
            THEN [contact |-> row[p], email |-> Clear(Email(p)),
                  displayName |-> Clear(Name(p))]
            ELSE NoRow]
  /\ service \in Keyrings
  /\ pc = "idle"
  /\ sender \in Senders
  /\ contact = NoId
  /\ rpc = "idle"
  /\ ring \in Keyrings
  /\ work = {}
  /\ clean = FALSE
  /\ sole = NoKey
------------------------------------------------------------------------------
(* UpsertEmailContact.                                                     *)

\* Seeded fault: the address is not looked up.
UpsertUnseen(from) ==
  /\ pc = "idle"
  /\ sender' = from
  /\ pc' = "inserting"
  /\ UNCHANGED <<tables, service, contact, rotationVars>>

\* An address that is known is returned as it is, or the lookup fails: nothing
\* changes.  Otherwise, and for a sender without an address, a contact is made.
Upsert(from) ==
  /\ pc = "idle"
  /\ ~ (from.mailed /\ from.person \in Known)
  /\ sender' = from
  /\ pc' = "inserting"
  /\ UNCHANGED <<tables, service, contact, rotationVars>>

SenderName == IF sender.named THEN Name(sender.person) ELSE NoValue

PutContact(id) ==
  contacts' = [contacts EXCEPT ![id] =
    [person |-> sender.person, fullName |-> Encrypt(SenderName, service)]]

InsertContact ==
  /\ pc = "inserting"
  /\ \E id \in Ids \ StoredIds : PutContact(id) /\ contact' = id
  /\ pc' = IF sender.mailed THEN "linking" ELSE "idle"
  /\ UNCHANGED <<addresses, service, sender, rotationVars>>

\* Seeded fault: after a failed insert the handler goes on.
InsertContactIgnored ==
  /\ pc = "inserting"
  /\ pc' = "linking"
  /\ UNCHANGED <<tables, service, sender, contact, rotationVars>>

\* The insert fails; it may have taken effect.
InsertContactFails ==
  /\ pc = "inserting"
  /\ UNCHANGED contacts \/ \E id \in Ids \ StoredIds : PutContact(id)
  /\ pc' = "idle"
  /\ UNCHANGED <<addresses, service, sender, contact, rotationVars>>

\* The insert of the address, or, on a conflict, its update.
PutAddress ==
  LET p == sender.person
  IN  addresses' = [addresses EXCEPT ![p] =
        IF p \in Known
        THEN [@ EXCEPT !.contact = contact,
                       !.displayName = Encrypt(SenderName, service)]
        ELSE [contact |-> contact, email |-> Encrypt(Email(p), service),
              displayName |-> Encrypt(SenderName, service)]]

LinkAddress ==
  /\ pc = "linking"
  /\ PutAddress
  /\ pc' = "idle"
  /\ UNCHANGED <<contacts, service, sender, contact, rotationVars>>

\* It fails; it may have taken effect.  If not, the contact stays unlinked.
LinkAddressFails ==
  /\ pc = "linking"
  /\ UNCHANGED addresses \/ PutAddress
  /\ pc' = "idle"
  /\ UNCHANGED <<contacts, service, sender, contact, rotationVars>>

\* The service dies, or is restarted with other keys.
Restart(keyring) ==
  /\ service' = keyring
  /\ pc' = "idle"
  /\ IF keyring.current \in {ring.current, NoKey} THEN UNCHANGED clean
     ELSE clean' = FALSE
  /\ sole' = IF keyring.current \in {sole, NoKey} THEN sole ELSE NoKey
  /\ UNCHANGED <<tables, sender, contact, rpc, ring, work>>
------------------------------------------------------------------------------
(* RotateContactEncryption.                                                *)

\* Without a current key it is refused; with one it reads the names.
StartRotation(keyring) ==
  /\ rpc = "idle"
  /\ keyring.current # NoKey
  /\ ring' = keyring
  /\ work' = {[id |-> id, fullName |-> contacts[id].fullName] :
                id \in {i \in StoredIds : contacts[i].fullName # Empty}}
  /\ rpc' = "names"
  /\ clean' = /\ service.current \in {keyring.current, NoKey}
              /\ \A cell \in AllCells : Opens(keyring, cell)
  /\ sole' = IF keyring.current = sole THEN sole ELSE NoKey
  /\ UNCHANGED <<tables, service, upsertVars>>

\* Seeded fault: a name that no key opens is overwritten.
RotateNameBlindly(item) ==
  /\ rpc = "names"
  /\ item \in work
  /\ contacts' = [contacts EXCEPT ![item.id].fullName =
                    Encrypt(Decrypt(item.fullName, ring), ring)]
  /\ work' = work \ {item}
  /\ UNCHANGED <<addresses, service, upsertVars, rpc, ring, clean, sole>>

\* A name that no key opens is left alone.
RotateName(item) ==
  /\ rpc = "names"
  /\ item \in work
  /\ LET plain == Decrypt(item.fullName, ring)
     IN  contacts' = IF plain = NoValue THEN contacts
                     ELSE [contacts EXCEPT ![item.id].fullName =
                             Encrypt(plain, ring)]
  /\ work' = work \ {item}
  /\ UNCHANGED <<addresses, service, upsertVars, rpc, ring, clean, sole>>

ReadAddresses ==
  /\ rpc = "names"
  /\ work = {}
  /\ work' = {[hash |-> p, email |-> addresses[p].email,
               displayName |-> addresses[p].displayName] :
                p \in {q \in Known : addresses[q].email # Empty
                                       \/ addresses[q].displayName # Empty}}
  /\ rpc' = "addresses"
  /\ UNCHANGED <<tables, service, upsertVars, ring, clean, sole>>

\* Seeded fault: the two fields of an address are written in the wrong order.
RotateAddressSwapped(item) ==
  /\ rpc = "addresses"
  /\ item \in work
  /\ addresses' = [addresses EXCEPT ![item.hash] =
       [@ EXCEPT !.email = Encrypt(Decrypt(item.displayName, ring), ring),
                 !.displayName = Encrypt(Decrypt(item.email, ring), ring)]]
  /\ work' = work \ {item}
  /\ UNCHANGED <<contacts, service, upsertVars, rpc, ring, clean, sole>>

\* Seeded fault: an address without a name is passed over.
RotateNamedAddress(item) ==
  /\ rpc = "addresses"
  /\ item \in work
  /\ addresses' = IF item.displayName = Empty THEN addresses
       ELSE [addresses EXCEPT ![item.hash] =
         [@ EXCEPT !.email = Encrypt(Decrypt(item.email, ring), ring),
                   !.displayName = Encrypt(Decrypt(item.displayName, ring), ring)]]
  /\ work' = work \ {item}
  /\ UNCHANGED <<contacts, service, upsertVars, rpc, ring, clean, sole>>

\* Both fields of an address are rewritten, also one that no key opens.
RotateAddress(item) ==
  /\ rpc = "addresses"
  /\ item \in work
  /\ addresses' = [addresses EXCEPT ![item.hash] =
       [@ EXCEPT !.email = Encrypt(Decrypt(item.email, ring), ring),
                 !.displayName = Encrypt(Decrypt(item.displayName, ring), ring)]]
  /\ work' = work \ {item}
  /\ UNCHANGED <<contacts, service, upsertVars, rpc, ring, clean, sole>>

FinishRotation ==
  /\ rpc = "addresses"
  /\ work = {}
  /\ rpc' = "idle"
  /\ sole' = IF clean THEN ring.current ELSE sole
  /\ UNCHANGED <<tables, service, upsertVars, ring, work, clean>>

\* A statement fails, or the maintenance process dies: what was rewritten stays.
StopRotation ==
  /\ rpc # "idle"
  /\ rpc' = "idle"
  /\ work' = {}
  /\ UNCHANGED <<tables, service, upsertVars, ring, clean, sole>>

Next ==
  \/ \E from \in Senders : Upsert(from)
  \/ InsertContact \/ InsertContactFails
  \/ LinkAddress \/ LinkAddressFails
  \/ \E keyring \in Keyrings : Restart(keyring) \/ StartRotation(keyring)
  \/ \E item \in work : RotateName(item) \/ RotateAddress(item)
  \/ ReadAddresses \/ FinishRotation \/ StopRotation

Spec == Init /\ [][Next]_vars
------------------------------------------------------------------------------
(* Properties.                                                             *)

\* A contact found by an address is about its sender, and a private field holds
\* what was seen of that sender, or nothing.
RowsAgree ==
  /\ \A id \in StoredIds :
       contacts[id].fullName.value \in {Name(contacts[id].person), NoValue}
  /\ \A p \in Known :
       /\ addresses[p].contact \in StoredIds
       /\ contacts[addresses[p].contact].person = p
       /\ addresses[p].email.value \in {Email(p), NoValue}
       /\ addresses[p].displayName.value \in {Name(p), NoValue}

\* No step writes a private value in clear, whether or not the store has a key
\* (docs/ARCHITECTURE_GOVERNANCE.md:158): clear fields are those of old rows.
NoNewClearText ==
  [][/\ \A id \in StoredIds' :
          \/ Sealed(contacts'[id].fullName)
          \/ id \in StoredIds /\ ~ Sealed(contacts[id].fullName)
     /\ \A p \in Known' :
          \/ Sealed(addresses'[p].email) /\ Sealed(addresses'[p].displayName)
          \/ p \in Known /\ ~ (/\ Sealed(addresses[p].email)
                               /\ Sealed(addresses[p].displayName))]_vars

\* After a rotation that could read every field, and while no service writes
\* with another key, the previous keys are needed for nothing.
OtherKeysRetired ==
  sole # NoKey => \A cell \in AllCells : cell.key = sole \/ cell = Empty

\* A known address stays with its contact, so that what is learned about a
\* sender is learned about one contact.
AddressKeepsContact ==
  [][\A p \in Known : /\ addresses'[p] # NoRow
                      /\ addresses'[p].contact = addresses[p].contact]_vars

\* What a rotation can read it can read afterwards, with the same content,
\* wherever it is interrupted and whatever the service does meanwhile.
RotationKeepsReadable ==
  [][rpc # "idle" =>
       /\ \A id \in StoredIds :
            Opens(ring, contacts[id].fullName) =>
              /\ Opens(ring, contacts'[id].fullName)
              /\ contacts'[id].fullName.value = contacts[id].fullName.value
       /\ \A p \in Known :
            /\ Opens(ring, addresses[p].email) =>
                 /\ Opens(ring, addresses'[p].email)
                 /\ addresses'[p].email.value = addresses[p].email.value
            /\ Opens(ring, addresses[p].displayName) =>
                 /\ Opens(ring, addresses'[p].displayName)
                 /\ addresses'[p].displayName.value
                      = addresses[p].displayName.value]_vars

\* A name is never erased: a rotation that lacks its key leaves it for one that
\* has it.
NamesSurvive ==
  [][\A id \in StoredIds :
       contacts[id].fullName # Empty => contacts'[id].fullName # Empty]_vars

\* The same of an address: docs/ARCHITECTURE_GOVERNANCE.md:160 says a rotation
\* decrypts and re-encrypts, not that it erases.
AddressesSurvive ==
  [][\A p \in Known :
       addresses[p].email # Empty => addresses'[p].email # Empty]_vars
==============================================================================
