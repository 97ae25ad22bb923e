-------------------------- MODULE ContactVaultProofs --------------------------
(***************************************************************************)
(* Theorems about ContactVault, for any senders, keys and keyrings, any    *)
(* number of contacts and any database left by an older version.           *)
(***************************************************************************)
EXTENDS ContactVault, TLAPS

(***************************************************************************)
(* The inductive invariant.                                                *)
(***************************************************************************)

\* A ciphertext is never about nothing.
WellFormed(cell) == cell.value = NoValue => cell = Empty

CellsInv ==
  /\ \A id \in StoredIds : WellFormed(contacts[id].fullName)
  /\ \A p \in Known :
       WellFormed(addresses[p].email) /\ WellFormed(addresses[p].displayName)

\* Between its statements an upsert works for an address nobody knows, and with
\* a contact of that person.
UpsertInv ==
  /\ pc # "idle" /\ sender.mailed => sender.person \notin Known
  /\ pc = "linking" =>
       /\ sender.mailed
       /\ contact \in StoredIds
       /\ contacts[contact].person = sender.person

\* What the rotation has read and not yet rewritten is still what is stored:
\* an upsert adds rows and changes none.
WorkInv ==
  /\ rpc = "idle" => work = {}
  /\ rpc # "idle" => ring.current # NoKey
  /\ rpc = "names" =>
       \A item \in work :
         /\ item \in NameItems
         /\ item.id \in StoredIds
         /\ item.fullName = contacts[item.id].fullName
  /\ rpc = "addresses" =>
       \A item \in work :
         /\ item \in AddressItems
         /\ item.hash \in Known
         /\ item.email = addresses[item.hash].email
         /\ item.displayName = addresses[item.hash].displayName

NeedsOnly(key, cell) == cell.key = key \/ cell = Empty

\* A rotation that could read everything when it began, while the service writes
\* with its key or with none: what it has passed needs its key only.
CleanInv ==
  clean /\ rpc # "idle" =>
    /\ service.current \in {ring.current, NoKey}
    /\ \A cell \in AllCells : Opens(ring, cell)
    /\ \A id \in StoredIds :
         \/ NeedsOnly(ring.current, contacts[id].fullName)
         \/ rpc = "names" /\ \E item \in work : item.id = id
    /\ rpc = "addresses" =>
         \A p \in Known :
           \/ /\ NeedsOnly(ring.current, addresses[p].email)
              /\ NeedsOnly(ring.current, addresses[p].displayName)
           \/ \E item \in work : item.hash = p

\* While one key is the only one needed, nobody writes with another.
SoleInv ==
  sole # NoKey =>
    /\ service.current \in {sole, NoKey}
    /\ rpc # "idle" => ring.current = sole
    /\ \A cell \in AllCells : NeedsOnly(sole, cell)

VInv ==
  /\ TypeOK
  /\ CellsInv
  /\ RowsAgree
  /\ UpsertInv
  /\ WorkInv
  /\ CleanInv
  /\ SoleInv
------------------------------------------------------------------------------
(* Encryption.                                                             *)

\* What is encrypted is stored under the current key, or not at all.
LEMMA EncryptFacts ==
  ASSUME NEW value \in Values \cup {NoValue}, NEW keyring \in Keyrings
  PROVE  /\ Encrypt(value, keyring) \in Cells
         /\ Encrypt(value, keyring).value \in {value, NoValue}
         /\ WellFormed(Encrypt(value, keyring))
         /\ Sealed(Encrypt(value, keyring))
         /\ NeedsOnly(keyring.current, Encrypt(value, keyring))
         /\ Opens(keyring, Encrypt(value, keyring))
  BY KeyAssumption
  DEF Encrypt, Cells, Empty, WellFormed, Sealed, NeedsOnly, Opens

\* A field that the rotation re-encrypts needs its key only, and keeps its
\* content if any of its keys opened it.
LEMMA RecryptFacts ==
  ASSUME NEW cell \in Cells, WellFormed(cell),
         NEW keyring \in Keyrings, keyring.current # NoKey,
         NEW new, new = Encrypt(Decrypt(cell, keyring), keyring)
  PROVE  /\ new \in Cells
         /\ WellFormed(new)
         /\ Sealed(new)
         /\ NeedsOnly(keyring.current, new)
         /\ Opens(keyring, new)
         /\ new.value \in {cell.value, NoValue}
         /\ Opens(keyring, cell) => new.value = cell.value
<1>1. Decrypt(cell, keyring) \in Values \cup {NoValue}
  BY DEF Decrypt, Cells
<1>2. /\ new \in Cells
      /\ WellFormed(new)
      /\ Sealed(new)
      /\ NeedsOnly(keyring.current, new)
      /\ Opens(keyring, new)
  BY <1>1, EncryptFacts
<1>3. new.value = Decrypt(cell, keyring)
  BY DEF Encrypt, Empty
<1> QED
  BY <1>2, <1>3 DEF Decrypt

\* The name and the address of a sender are values.
LEMMA SenderTyped ==
  ASSUME TypeOK
  PROVE  /\ SenderName \in Values \cup {NoValue}
         /\ SenderName \in {Name(sender.person), NoValue}
         /\ Email(sender.person) \in Values
         /\ sender.person \in People
  BY DEF TypeOK, Senders, SenderName, Name, Email, Values

\* The fields of the rows are fields.
LEMMA RowsTyped ==
  ASSUME TypeOK
  PROVE  /\ \A id \in StoredIds :
              id \in Ids /\ contacts[id] \in Contacts /\ contacts[id].fullName \in Cells
         /\ \A p \in Known :
              /\ p \in People /\ addresses[p] \in Addresses
              /\ addresses[p].email \in Cells
              /\ addresses[p].displayName \in Cells
  BY DEF TypeOK, StoredIds, Known, Contacts, Addresses
------------------------------------------------------------------------------
(* The initial states.                                                     *)

LEMMA InitVault == Init => VInv
<1> SUFFICES ASSUME Init PROVE VInv
  OBVIOUS
<1>1. PICK row \in [Legacy -> Ids] :
        /\ \A p, q \in Legacy : row[p] = row[q] => p = q
        /\ contacts = [id \in Ids |->
             IF \E p \in Legacy : row[p] = id
             THEN LET p == CHOOSE q \in Legacy : row[q] = id
                  IN  [person |-> p, fullName |-> Clear(Name(p))]
             ELSE NoRow]
        /\ addresses = [p \in People |->
             IF p \in Legacy
             THEN [contact |-> row[p], email |-> Clear(Email(p)),
                   displayName |-> Clear(Name(p))]
             ELSE NoRow]
  BY DEF Init
<1>2. \A p \in People : /\ Clear(Name(p)) \in Cells /\ Clear(Email(p)) \in Cells
                        /\ Clear(Name(p)).value = Name(p)
                        /\ Clear(Email(p)).value = Email(p)
                        /\ WellFormed(Clear(Name(p))) /\ WellFormed(Clear(Email(p)))
  BY ValueAssumption DEF Clear, Cells, Name, Email, Values, WellFormed
<1>3. Legacy \subseteq People
  BY RowAssumption
<1>4. ASSUME NEW id \in Ids
      PROVE  \/ contacts[id] = NoRow
             \/ \E p \in Legacy :
                  /\ row[p] = id
                  /\ contacts[id] = [person |-> p, fullName |-> Clear(Name(p))]
  BY <1>1
<1>5. ASSUME NEW p \in Legacy
      PROVE  contacts[row[p]] = [person |-> p, fullName |-> Clear(Name(p))]
  <2>1. row[p] \in Ids
    BY <1>1
  <2>2. (CHOOSE q \in Legacy : row[q] = row[p]) = p
    BY <1>1
  <2> QED
    BY <1>1, <2>1, <2>2
<1>6. \A p \in People :
        addresses[p] = IF p \in Legacy
                       THEN [contact |-> row[p], email |-> Clear(Email(p)),
                             displayName |-> Clear(Name(p))]
                       ELSE NoRow
  BY <1>1
<1>7. TypeOK
  <2>1. contacts \in [Ids -> Contacts \cup {NoRow}]
    <3>1. ASSUME NEW id \in Ids, contacts[id] # NoRow
          PROVE  contacts[id] \in Contacts
      <4>1. PICK p \in Legacy :
              contacts[id] = [person |-> p, fullName |-> Clear(Name(p))]
        BY <1>4, <3>1
      <4>2. p \in People /\ Clear(Name(p)) \in Cells
        BY <1>2, <1>3
      <4> QED
        BY <4>1, <4>2 DEF Contacts
    <3> QED
      BY <1>1, <3>1
  <2>2. addresses \in [People -> Addresses \cup {NoRow}]
    <3>1. \A p \in People : addresses[p] \in Addresses \cup {NoRow}
      BY <1>1, <1>2, <1>6 DEF Addresses
    <3> QED
      BY <1>1, <3>1
  <2> QED
    BY <2>1, <2>2 DEF Init, TypeOK
<1>8. Known \subseteq Legacy
  BY <1>6 DEF Known
<1>9. CellsInv /\ RowsAgree
  <2>1. ASSUME NEW id \in StoredIds
        PROVE  /\ WellFormed(contacts[id].fullName)
               /\ contacts[id].fullName.value = Name(contacts[id].person)
    <3>1. PICK p \in Legacy :
            contacts[id] = [person |-> p, fullName |-> Clear(Name(p))]
      BY <1>4 DEF StoredIds
    <3>2. contacts[id].person = p /\ contacts[id].fullName = Clear(Name(p))
      BY <3>1
    <3> QED
      BY <1>2, <1>3, <3>2
  <2>2. ASSUME NEW p \in Known
        PROVE  /\ WellFormed(addresses[p].email)
               /\ WellFormed(addresses[p].displayName)
               /\ addresses[p].contact \in StoredIds
               /\ contacts[addresses[p].contact].person = p
               /\ addresses[p].email.value = Email(p)
               /\ addresses[p].displayName.value = Name(p)
    <3>1. p \in Legacy /\ p \in People /\ row[p] \in Ids
      BY <1>1, <1>3, <1>8
    <3>2. /\ addresses[p].contact = row[p]
          /\ addresses[p].email = Clear(Email(p))
          /\ addresses[p].displayName = Clear(Name(p))
      <4>1. addresses[p] = [contact |-> row[p], email |-> Clear(Email(p)),
                            displayName |-> Clear(Name(p))]
        BY <1>6, <3>1
      <4> QED
        BY <4>1
    <3>3. contacts[row[p]] = [person |-> p, fullName |-> Clear(Name(p))]
      BY <1>5, <3>1
    <3>4. contacts[row[p]] \in Contacts /\ contacts[row[p]].person = p
      BY <1>2, <3>1, <3>3 DEF Contacts
    <3>5. row[p] \in StoredIds
      BY <3>1, <3>4, RowAssumption DEF StoredIds
    <3> QED
      BY <1>2, <3>1, <3>2, <3>4, <3>5
  <2> QED
    BY <2>1, <2>2 DEF CellsInv, RowsAgree
<1>10. UpsertInv /\ WorkInv /\ CleanInv /\ SoleInv
  BY DEF Init, UpsertInv, WorkInv, CleanInv, SoleInv
<1> QED
  BY <1>7, <1>9, <1>10 DEF VInv
------------------------------------------------------------------------------
(* What the statements do to the tables.                                   *)

\* The contact that is inserted is about the sender and sealed; the others stay
\* as they are.
LEMMA PutContactFacts ==
  ASSUME TypeOK, NEW id \in Ids \ StoredIds, PutContact(id)
  PROVE  /\ contacts' \in [Ids -> Contacts \cup {NoRow}]
         /\ StoredIds' = StoredIds \cup {id}
         /\ \A i \in StoredIds : contacts'[i] = contacts[i]
         /\ contacts'[id].person = sender.person
         /\ contacts'[id].fullName = Encrypt(SenderName, service)
<1> DEFINE row == [person |-> sender.person, fullName |-> Encrypt(SenderName, service)]
<1>1. row \in Contacts
  <2>1. Encrypt(SenderName, service) \in Cells
    BY SenderTyped, EncryptFacts DEF TypeOK
  <2> QED
    BY <2>1, SenderTyped DEF Contacts
<1>2. contacts' = [contacts EXCEPT ![id] = row]
  BY DEF PutContact
<1>3. contacts \in [Ids -> Contacts \cup {NoRow}]
  BY DEF TypeOK
<1>4. row # NoRow
  BY <1>1, RowAssumption
<1>5. contacts' \in [Ids -> Contacts \cup {NoRow}] /\ contacts'[id] = row
  BY <1>1, <1>2, <1>3
<1>6. \A i \in Ids \ {id} : contacts'[i] = contacts[i]
  BY <1>2, <1>3
<1> QED
  BY <1>4, <1>5, <1>6 DEF StoredIds

\* So does the address that is linked, which nobody knew.
LEMMA PutAddressFacts ==
  ASSUME TypeOK, UpsertInv, pc = "linking", PutAddress,
         NEW p, p = sender.person
  PROVE  /\ addresses' \in [People -> Addresses \cup {NoRow}]
         /\ p \in People /\ p \notin Known
         /\ Known' = Known \cup {p}
         /\ \A q \in Known : addresses'[q] = addresses[q]
         /\ addresses'[p].contact = contact
         /\ addresses'[p].email = Encrypt(Email(p), service)
         /\ addresses'[p].displayName = Encrypt(SenderName, service)
<1> DEFINE row == [contact |-> contact, email |-> Encrypt(Email(p), service),
                   displayName |-> Encrypt(SenderName, service)]
<1>1. row \in Addresses
  <2>1. /\ Encrypt(SenderName, service) \in Cells
        /\ Encrypt(Email(p), service) \in Cells
    BY SenderTyped, EncryptFacts DEF TypeOK
  <2>2. contact \in Ids
    BY DEF UpsertInv, StoredIds
  <2> QED
    BY <2>1, <2>2 DEF Addresses
<1>2. p \in People /\ p \notin Known
  BY SenderTyped DEF UpsertInv
<1>3. addresses' = [addresses EXCEPT ![p] = row]
  BY <1>2 DEF PutAddress
<1>4. addresses \in [People -> Addresses \cup {NoRow}]
  BY DEF TypeOK
<1>5. row # NoRow
  BY <1>1, RowAssumption
<1>6. addresses' \in [People -> Addresses \cup {NoRow}] /\ addresses'[p] = row
  BY <1>1, <1>2, <1>3, <1>4
<1>7. \A q \in People \ {p} : addresses'[q] = addresses[q]
  BY <1>3, <1>4
<1> QED
  BY <1>2, <1>5, <1>6, <1>7 DEF Known

\* A name that the rotation opens comes under its key, with the same content;
\* any other stays as it is.
LEMMA RotateNameFacts ==
  ASSUME VInv, NEW item \in work, RotateName(item), NEW id, id = item.id
  PROVE  /\ contacts' \in [Ids -> Contacts \cup {NoRow}]
         /\ id \in StoredIds /\ StoredIds' = StoredIds
         /\ \A i \in StoredIds : contacts'[i].person = contacts[i].person
         /\ \A i \in StoredIds \ {id} : contacts'[i] = contacts[i]
         /\ WellFormed(contacts'[id].fullName)
         /\ contacts'[id].fullName.value = contacts[id].fullName.value
         /\ \/ contacts'[id].fullName = contacts[id].fullName
            \/ Sealed(contacts'[id].fullName)
         /\ Opens(ring, contacts[id].fullName) =>
              /\ NeedsOnly(ring.current, contacts'[id].fullName)
              /\ Opens(ring, contacts'[id].fullName)
<1> DEFINE old == contacts[id].fullName
           new == Encrypt(Decrypt(old, ring), ring)
<1>1. /\ id \in Ids /\ id \in StoredIds /\ item.fullName = old
      /\ contacts[id] \in Contacts /\ old \in Cells
      /\ ring \in Keyrings /\ ring.current # NoKey
      /\ WellFormed(old)
  BY RowsTyped DEF VInv, WorkInv, CellsInv, RotateName, TypeOK
<1>2. contacts \in [Ids -> Contacts \cup {NoRow}]
  BY DEF VInv, TypeOK
<1>3. CASE Decrypt(old, ring) = NoValue
  <2>1. contacts' = contacts
    BY <1>1, <1>3 DEF RotateName
  <2>2. Opens(ring, old) => old = Empty
    BY <1>1, <1>3 DEF Decrypt, WellFormed
  <2> QED
    BY <1>1, <1>2, <2>1, <2>2 DEF StoredIds, NeedsOnly
<1>4. CASE Decrypt(old, ring) # NoValue
  <2>1. contacts' = [contacts EXCEPT ![id].fullName = new]
    BY <1>1, <1>4 DEF RotateName
  <2>2. Opens(ring, old)
    BY <1>4 DEF Decrypt
  <2>3. /\ new \in Cells /\ WellFormed(new) /\ Sealed(new)
        /\ NeedsOnly(ring.current, new) /\ Opens(ring, new)
        /\ new.value = old.value
    BY <1>1, <2>2, RecryptFacts
  <2> HIDE DEF new
  <2>4. /\ contacts'[id] = [contacts[id] EXCEPT !.fullName = new]
        /\ \A i \in Ids \ {id} : contacts'[i] = contacts[i]
    BY <1>1, <1>2, <2>1
  <2>5. /\ contacts'[id] \in Contacts
        /\ contacts'[id].fullName = new
        /\ contacts'[id].person = contacts[id].person
    BY <1>1, <2>3, <2>4 DEF Contacts
  <2>6. contacts' \in [Ids -> Contacts \cup {NoRow}]
    BY <1>1, <1>2, <2>1, <2>4, <2>5
  <2>7. StoredIds' = StoredIds
    BY <1>1, <2>4, <2>5, RowAssumption DEF StoredIds
  <2> QED
    BY <1>1, <2>3, <2>4, <2>5, <2>6, <2>7 DEF StoredIds
<1> QED
  BY <1>3, <1>4

\* Both fields of an address come under the key of the rotation, those it opens
\* with the same content.
LEMMA RotateAddressFacts ==
  ASSUME VInv, NEW item \in work, RotateAddress(item), NEW p, p = item.hash
  PROVE  /\ addresses' \in [People -> Addresses \cup {NoRow}]
         /\ p \in Known /\ Known' = Known
         /\ \A q \in Known : addresses'[q].contact = addresses[q].contact
         /\ \A q \in Known \ {p} : addresses'[q] = addresses[q]
         /\ addresses'[p].email
              = Encrypt(Decrypt(addresses[p].email, ring), ring)
         /\ addresses'[p].displayName
              = Encrypt(Decrypt(addresses[p].displayName, ring), ring)
<1> DEFINE mail == Encrypt(Decrypt(addresses[p].email, ring), ring)
           name == Encrypt(Decrypt(addresses[p].displayName, ring), ring)
<1>1. /\ p \in People /\ p \in Known
      /\ item.email = addresses[p].email
      /\ item.displayName = addresses[p].displayName
      /\ addresses[p] \in Addresses
      /\ mail \in Cells /\ name \in Cells
  <2>1. /\ p \in People /\ p \in Known
        /\ item.email = addresses[p].email
        /\ item.displayName = addresses[p].displayName
        /\ addresses[p] \in Addresses
        /\ addresses[p].email \in Cells /\ addresses[p].displayName \in Cells
        /\ ring \in Keyrings /\ ring.current # NoKey
        /\ WellFormed(addresses[p].email) /\ WellFormed(addresses[p].displayName)
    BY RowsTyped DEF VInv, WorkInv, CellsInv, RotateAddress, TypeOK
  <2> QED
    BY <2>1, RecryptFacts
<1>2. addresses \in [People -> Addresses \cup {NoRow}]
  BY DEF VInv, TypeOK
<1>3. addresses' = [addresses EXCEPT ![p] = [@ EXCEPT !.email = mail,
                                                     !.displayName = name]]
  BY <1>1 DEF RotateAddress
<1> HIDE DEF mail, name
<1>4. /\ addresses'[p] = [addresses[p] EXCEPT !.email = mail, !.displayName = name]
      /\ \A q \in People \ {p} : addresses'[q] = addresses[q]
  BY <1>1, <1>2, <1>3
<1>5. /\ addresses'[p] \in Addresses
      /\ addresses'[p].email = mail
      /\ addresses'[p].displayName = name
      /\ addresses'[p].contact = addresses[p].contact
  BY <1>1, <1>4 DEF Addresses
<1>6. addresses' \in [People -> Addresses \cup {NoRow}]
  BY <1>1, <1>2, <1>3, <1>4, <1>5
<1>7. Known' = Known
  BY <1>1, <1>4, <1>5, RowAssumption DEF Known
<1> QED
  BY <1>1, <1>4, <1>5, <1>6, <1>7 DEF Known, mail, name
------------------------------------------------------------------------------
(* UpsertEmailContact keeps the invariant.                                 *)

\* A step of the upsert that leaves the tables alone.
LEMMA UpsertQuiet ==
  ASSUME VInv, UNCHANGED <<tables, service, contact, rotationVars>>,
         \/ pc' = "idle" /\ UNCHANGED sender
         \/ /\ pc' = "inserting"
            /\ sender' \in Senders
            /\ ~ (sender'.mailed /\ sender'.person \in Known)
  PROVE  VInv'
<1>1. TypeOK'
  BY DEF VInv, TypeOK, tables, rotationVars
<1>2. CellsInv' /\ RowsAgree'
  BY DEF VInv, CellsInv, RowsAgree, StoredIds, Known, tables
<1>3. UpsertInv'
  BY DEF VInv, UpsertInv, StoredIds, Known, tables
<1>4. WorkInv'
  BY DEF VInv, WorkInv, StoredIds, Known, tables, rotationVars
<1>5. CleanInv' /\ SoleInv'
  BY DEF VInv, CleanInv, SoleInv, AllCells, NameCells, AddressCells, StoredIds,
         Known, Opens, NeedsOnly, tables, rotationVars
<1> QED
  BY <1>1, <1>2, <1>3, <1>4, <1>5 DEF VInv

\* A contact is inserted, whether or not the upsert hears of it.
LEMMA InsertKeeps ==
  ASSUME VInv, pc = "inserting", NEW id \in Ids \ StoredIds, PutContact(id),
         UNCHANGED <<addresses, service, sender, rotationVars>>,
         \/ pc' = "idle" /\ contact' \in {contact, id}
         \/ pc' = "linking" /\ sender.mailed /\ contact' = id
  PROVE  VInv'
<1> DEFINE new == Encrypt(SenderName, service)
<1>1. /\ contacts' \in [Ids -> Contacts \cup {NoRow}]
      /\ StoredIds' = StoredIds \cup {id}
      /\ \A i \in StoredIds : contacts'[i] = contacts[i]
      /\ contacts'[id].person = sender.person
      /\ contacts'[id].fullName = new
  BY PutContactFacts DEF VInv
<1>2. /\ new.value \in {Name(sender.person), NoValue}
      /\ WellFormed(new) /\ Sealed(new)
      /\ NeedsOnly(service.current, new)
  BY SenderTyped, EncryptFacts DEF VInv, TypeOK
<1>3. Known' = Known /\ UNCHANGED <<rpc, ring, work, clean, sole>>
  BY DEF Known, rotationVars
<1> HIDE DEF new
<1>4. TypeOK'
  BY <1>1, <1>3 DEF VInv, TypeOK
<1>5. CellsInv' /\ RowsAgree'
  <2>1. \A i \in StoredIds' :
          /\ WellFormed(contacts'[i].fullName)
          /\ contacts'[i].fullName.value \in {Name(contacts'[i].person), NoValue}
    BY <1>1, <1>2 DEF VInv, CellsInv, RowsAgree
  <2>2. \A p \in Known :
          /\ addresses[p].contact \in StoredIds'
          /\ contacts'[addresses[p].contact].person = p
    BY <1>1 DEF VInv, RowsAgree
  <2> QED
    BY <1>3, <2>1, <2>2 DEF VInv, CellsInv, RowsAgree
<1>6. UpsertInv'
  BY <1>1, <1>3 DEF VInv, UpsertInv
<1>7. WorkInv'
  BY <1>1, <1>3 DEF VInv, WorkInv
<1>8. \A cell : cell \in AllCells' => cell \in AllCells \/ cell = new
  BY <1>1, <1>3 DEF AllCells, NameCells, AddressCells
<1>9. CleanInv'
  <2> SUFFICES ASSUME clean, rpc # "idle" PROVE CleanInv'
    BY <1>3 DEF CleanInv
  <2>1. service.current \in {ring.current, NoKey} /\ NeedsOnly(ring.current, new)
    BY <1>2 DEF VInv, CleanInv, NeedsOnly, Sealed
  <2>2. Opens(ring, new)
    BY <2>1 DEF NeedsOnly, Opens, Empty
  <2>3. \A cell \in AllCells' : Opens(ring, cell)
    BY <1>8, <2>2 DEF VInv, CleanInv
  <2>4. \A i \in StoredIds' :
          \/ NeedsOnly(ring.current, contacts'[i].fullName)
          \/ rpc = "names" /\ \E item \in work : item.id = i
    BY <1>1, <2>1 DEF VInv, CleanInv
  <2> QED
    BY <1>3, <2>1, <2>3, <2>4 DEF VInv, CleanInv, Opens
<1>10. SoleInv'
  <2> SUFFICES ASSUME sole # NoKey PROVE SoleInv'
    BY <1>3 DEF SoleInv
  <2>1. NeedsOnly(sole, new)
    BY <1>2 DEF VInv, SoleInv, NeedsOnly, Sealed
  <2> QED
    BY <1>3, <1>8, <2>1 DEF VInv, SoleInv, NeedsOnly
<1> QED
  BY <1>4, <1>5, <1>6, <1>7, <1>9, <1>10 DEF VInv

\* An address is linked, whether or not the upsert hears of it.
LEMMA LinkKeeps ==
  ASSUME VInv, pc = "linking", PutAddress, pc' = "idle",
         UNCHANGED <<contacts, service, sender, contact, rotationVars>>
  PROVE  VInv'
<1> PICK p : p = sender.person
  OBVIOUS
<1> DEFINE mail == Encrypt(Email(p), service)
           name == Encrypt(SenderName, service)
<1>1. /\ addresses' \in [People -> Addresses \cup {NoRow}]
      /\ p \in People /\ p \notin Known
      /\ Known' = Known \cup {p}
      /\ \A q \in Known : addresses'[q] = addresses[q]
      /\ addresses'[p].contact = contact
      /\ addresses'[p].email = mail
      /\ addresses'[p].displayName = name
  BY PutAddressFacts DEF VInv
<1>2. /\ mail.value \in {Email(p), NoValue} /\ name.value \in {Name(p), NoValue}
      /\ WellFormed(mail) /\ WellFormed(name)
      /\ Sealed(mail) /\ Sealed(name)
      /\ NeedsOnly(service.current, mail) /\ NeedsOnly(service.current, name)
  BY SenderTyped, EncryptFacts DEF VInv, TypeOK
<1>3. StoredIds' = StoredIds /\ UNCHANGED <<rpc, ring, work, clean, sole>>
  BY DEF StoredIds, rotationVars
<1> HIDE DEF mail, name
<1>4. TypeOK'
  BY <1>1, <1>3 DEF VInv, TypeOK
<1>5. CellsInv' /\ RowsAgree'
  <2>1. \A q \in Known' :
          /\ WellFormed(addresses'[q].email) /\ WellFormed(addresses'[q].displayName)
          /\ addresses'[q].contact \in StoredIds
          /\ contacts[addresses'[q].contact].person = q
          /\ addresses'[q].email.value \in {Email(q), NoValue}
          /\ addresses'[q].displayName.value \in {Name(q), NoValue}
    BY <1>1, <1>2 DEF VInv, CellsInv, RowsAgree, UpsertInv
  <2> QED
    BY <1>3, <2>1 DEF VInv, CellsInv, RowsAgree
<1>6. UpsertInv'
  BY DEF UpsertInv
<1>7. WorkInv'
  BY <1>1, <1>3 DEF VInv, WorkInv
<1>8. \A cell : cell \in AllCells' => cell \in AllCells \/ cell = mail \/ cell = name
  BY <1>1, <1>3 DEF AllCells, NameCells, AddressCells
<1>9. CleanInv'
  <2> SUFFICES ASSUME clean, rpc # "idle" PROVE CleanInv'
    BY <1>3 DEF CleanInv
  <2>1. /\ service.current \in {ring.current, NoKey}
        /\ NeedsOnly(ring.current, mail) /\ NeedsOnly(ring.current, name)
    BY <1>2 DEF VInv, CleanInv, NeedsOnly, Sealed
  <2>2. Opens(ring, mail) /\ Opens(ring, name)
    BY <2>1 DEF NeedsOnly, Opens, Empty
  <2>3. \A cell \in AllCells' : Opens(ring, cell)
    BY <1>8, <2>2 DEF VInv, CleanInv
  <2>4. rpc = "addresses" =>
          \A q \in Known' :
            \/ /\ NeedsOnly(ring.current, addresses'[q].email)
               /\ NeedsOnly(ring.current, addresses'[q].displayName)
            \/ \E item \in work : item.hash = q
    BY <1>1, <2>1 DEF VInv, CleanInv
  <2> QED
    BY <1>3, <2>1, <2>3, <2>4 DEF VInv, CleanInv, Opens
<1>10. SoleInv'
  <2> SUFFICES ASSUME sole # NoKey PROVE SoleInv'
    BY <1>3 DEF SoleInv
  <2>1. NeedsOnly(sole, mail) /\ NeedsOnly(sole, name)
    BY <1>2 DEF VInv, SoleInv, NeedsOnly, Sealed
  <2> QED
    BY <1>3, <1>8, <2>1 DEF VInv, SoleInv, NeedsOnly
<1> QED
  BY <1>4, <1>5, <1>6, <1>7, <1>9, <1>10 DEF VInv
------------------------------------------------------------------------------
(* Restarts and the rotation keep the invariant.                           *)

LEMMA RestartKeeps ==
  ASSUME VInv, NEW keyring \in Keyrings, Restart(keyring)
  PROVE  VInv'
<1>1. /\ service' = keyring /\ pc' = "idle"
      /\ \/ clean' = clean /\ keyring.current \in {ring.current, NoKey}
         \/ clean' = FALSE
      /\ \/ sole' = sole /\ keyring.current \in {sole, NoKey}
         \/ sole' = NoKey
      /\ UNCHANGED <<contacts, addresses, sender, contact, rpc, ring, work>>
  BY DEF Restart, tables
<1>2. TypeOK'
  BY <1>1 DEF VInv, TypeOK
<1>3. CellsInv' /\ RowsAgree' /\ UpsertInv' /\ WorkInv'
  BY <1>1
  DEF VInv, CellsInv, RowsAgree, UpsertInv, WorkInv, StoredIds, Known
<1>4. CleanInv' /\ SoleInv'
  BY <1>1
  DEF VInv, CleanInv, SoleInv, AllCells, NameCells, AddressCells, StoredIds,
      Known, Opens, NeedsOnly
<1> QED
  BY <1>2, <1>3, <1>4 DEF VInv

\* The rotation begins with the names.
LEMMA StartKeeps ==
  ASSUME VInv, NEW keyring \in Keyrings, StartRotation(keyring)
  PROVE  VInv'
<1>1. /\ keyring.current # NoKey
      /\ ring' = keyring /\ rpc' = "names"
      /\ work' = {[id |-> id, fullName |-> contacts[id].fullName] :
                    id \in {i \in StoredIds : contacts[i].fullName # Empty}}
      /\ clean' = (/\ service.current \in {keyring.current, NoKey}
                   /\ \A cell \in AllCells : Opens(keyring, cell))
      /\ \/ sole' = sole /\ keyring.current = sole
         \/ sole' = NoKey
      /\ UNCHANGED <<contacts, addresses, service, pc, sender, contact>>
  BY DEF StartRotation, tables, upsertVars
<1>2. /\ StoredIds' = StoredIds /\ Known' = Known
      /\ AllCells' = AllCells
  BY <1>1 DEF StoredIds, Known, AllCells, NameCells, AddressCells
<1>3. \A item \in work' :
        /\ item \in NameItems
        /\ item.id \in StoredIds
        /\ item.fullName = contacts[item.id].fullName
  <2>1. ASSUME NEW id \in StoredIds,
               NEW item, item = [id |-> id, fullName |-> contacts[id].fullName]
        PROVE  /\ item \in NameItems
               /\ item.id \in StoredIds
               /\ item.fullName = contacts[item.id].fullName
    BY <2>1, RowsTyped DEF VInv, NameItems
  <2> QED
    BY <1>1, <2>1
<1>4. \A id \in StoredIds :
        contacts[id].fullName = Empty \/ \E item \in work' : item.id = id
  <2> SUFFICES ASSUME NEW id \in StoredIds, contacts[id].fullName # Empty
               PROVE  \E item \in work' : item.id = id
    OBVIOUS
  <2> DEFINE item == [id |-> id, fullName |-> contacts[id].fullName]
  <2>1. item \in work' /\ item.id = id
    BY <1>1
  <2> QED
    BY <2>1
<1>5. TypeOK'
  <2>1. work' \subseteq NameItems
    BY <1>3
  <2>2. clean' \in BOOLEAN
    BY <1>1
  <2> QED
    BY <1>1, <2>1, <2>2 DEF VInv, TypeOK
<1>6. CellsInv' /\ RowsAgree' /\ UpsertInv'
  BY <1>1, <1>2 DEF VInv, CellsInv, RowsAgree, UpsertInv
<1>7. WorkInv'
  BY <1>1, <1>2, <1>3 DEF WorkInv
<1>8. CleanInv'
  <2> SUFFICES ASSUME clean' PROVE CleanInv'
    BY DEF CleanInv
  <2>1. /\ service.current \in {keyring.current, NoKey}
        /\ \A cell \in AllCells : Opens(keyring, cell)
    BY <1>1
  <2>2. \A id \in StoredIds :
          \/ NeedsOnly(keyring.current, contacts[id].fullName)
          \/ \E item \in work' : item.id = id
    BY <1>4 DEF NeedsOnly
  <2> QED
    BY <1>1, <1>2, <2>1, <2>2 DEF CleanInv, Opens
<1>9. SoleInv'
  BY <1>1, <1>2 DEF VInv, SoleInv, NeedsOnly
<1> QED
  BY <1>5, <1>6, <1>7, <1>8, <1>9 DEF VInv

\* One name is rewritten.
LEMMA RotateNameKeeps ==
  ASSUME VInv, NEW item \in work, RotateName(item)
  PROVE  VInv'
<1> PICK id : id = item.id
  OBVIOUS
<1> DEFINE old == contacts[id].fullName
           new == contacts'[id].fullName
<1>1. /\ contacts' \in [Ids -> Contacts \cup {NoRow}]
      /\ id \in StoredIds /\ StoredIds' = StoredIds
      /\ \A i \in StoredIds : contacts'[i].person = contacts[i].person
      /\ \A i \in StoredIds \ {id} : contacts'[i] = contacts[i]
      /\ WellFormed(new)
      /\ new.value = old.value
      /\ Opens(ring, old) => NeedsOnly(ring.current, new) /\ Opens(ring, new)
      /\ new = old \/ Opens(ring, old)
  <2>1. new = old \/ Opens(ring, old)
    <3>1. Decrypt(item.fullName, ring) = NoValue \/ Opens(ring, item.fullName)
      BY DEF Decrypt
    <3>2. Decrypt(item.fullName, ring) = NoValue => contacts' = contacts
      BY DEF RotateName
    <3>3. item.fullName = old
      BY DEF VInv, WorkInv, RotateName
    <3> QED
      BY <3>1, <3>2, <3>3
  <2> QED
    BY <2>1, RotateNameFacts
<1>2. /\ rpc = "names" /\ work' = work \ {item} /\ Known' = Known
      /\ UNCHANGED <<addresses, service, pc, sender, contact, rpc, ring, clean,
                     sole>>
  BY DEF RotateName, upsertVars, Known
<1>3. TypeOK'
  BY <1>1, <1>2 DEF VInv, TypeOK
<1>4. CellsInv' /\ RowsAgree' /\ UpsertInv'
  BY <1>1, <1>2 DEF VInv, CellsInv, RowsAgree, UpsertInv
<1>5. \A other \in work' :
        /\ other \in work /\ other \in NameItems
        /\ other.id \in StoredIds /\ other.id # id
        /\ other.fullName = contacts'[other.id].fullName
  <2> TAKE other \in work'
  <2>1. /\ other \in work /\ other # item
        /\ other \in NameItems /\ item \in NameItems
        /\ other.id \in StoredIds
        /\ other.fullName = contacts[other.id].fullName
        /\ item.fullName = contacts[item.id].fullName
    BY <1>2 DEF VInv, WorkInv
  <2>2. other.id # id
    BY <2>1 DEF NameItems
  <2> QED
    BY <1>1, <2>1, <2>2
<1>6. WorkInv'
  BY <1>1, <1>2, <1>5 DEF VInv, WorkInv
<1>7. \A cell : cell \in AllCells' => cell \in AllCells \/ cell = new
  BY <1>1, <1>2 DEF AllCells, NameCells, AddressCells
<1>8. old \in AllCells
  BY <1>1 DEF AllCells, NameCells
<1>9. CleanInv'
  <2> SUFFICES ASSUME clean PROVE CleanInv'
    BY <1>2 DEF CleanInv
  <2>1. NeedsOnly(ring.current, new) /\ Opens(ring, new)
    BY <1>1, <1>2, <1>8 DEF VInv, CleanInv
  <2>2. \A cell \in AllCells' : Opens(ring, cell)
    BY <1>2, <1>7, <2>1 DEF VInv, CleanInv
  <2>3. ASSUME NEW i \in StoredIds
        PROVE  \/ NeedsOnly(ring.current, contacts'[i].fullName)
               \/ \E other \in work' : other.id = i
    <3>1. CASE i = id
      BY <2>1, <3>1
    <3>2. CASE i # id
      <4>1. \/ NeedsOnly(ring.current, contacts[i].fullName)
            \/ \E other \in work : other.id = i
        BY <1>2 DEF VInv, CleanInv
      <4> QED
        BY <1>1, <1>2, <3>2, <4>1
    <3> QED
      BY <3>1, <3>2
  <2> QED
    BY <1>1, <1>2, <2>2, <2>3 DEF VInv, CleanInv, Opens
<1>10. SoleInv'
  <2> SUFFICES ASSUME sole # NoKey PROVE SoleInv'
    BY <1>2 DEF SoleInv
  <2>1. ring.current = sole /\ NeedsOnly(sole, old)
    BY <1>2, <1>8 DEF VInv, SoleInv
  <2>2. NeedsOnly(sole, new)
    BY <1>1, <2>1
  <2> QED
    BY <1>2, <1>7, <2>1, <2>2 DEF VInv, SoleInv, NeedsOnly
<1> QED
  BY <1>3, <1>4, <1>6, <1>9, <1>10 DEF VInv

\* The rotation goes on to the addresses.
LEMMA ReadKeeps ==
  ASSUME VInv, ReadAddresses
  PROVE  VInv'
<1>1. /\ rpc = "names" /\ work = {} /\ rpc' = "addresses"
      /\ work' = {[hash |-> p, email |-> addresses[p].email,
                   displayName |-> addresses[p].displayName] :
                    p \in {q \in Known : addresses[q].email # Empty
                                           \/ addresses[q].displayName # Empty}}
      /\ UNCHANGED <<contacts, addresses, service, pc, sender, contact, ring,
                     clean, sole>>
  BY DEF ReadAddresses, tables, upsertVars
<1>2. /\ StoredIds' = StoredIds /\ Known' = Known
      /\ AllCells' = AllCells
  BY <1>1 DEF StoredIds, Known, AllCells, NameCells, AddressCells
<1>3. \A item \in work' :
        /\ item \in AddressItems
        /\ item.hash \in Known
        /\ item.email = addresses[item.hash].email
        /\ item.displayName = addresses[item.hash].displayName
  <2>1. ASSUME NEW p \in Known, NEW item,
               item = [hash |-> p, email |-> addresses[p].email,
                       displayName |-> addresses[p].displayName]
        PROVE  /\ item \in AddressItems
               /\ item.hash \in Known
               /\ item.email = addresses[item.hash].email
               /\ item.displayName = addresses[item.hash].displayName
    BY <2>1, RowsTyped DEF VInv, AddressItems
  <2> QED
    BY <1>1, <2>1
<1>4. \A p \in Known :
        \/ addresses[p].email = Empty /\ addresses[p].displayName = Empty
        \/ \E item \in work' : item.hash = p
  <2> SUFFICES ASSUME NEW p \in Known,
                      addresses[p].email # Empty \/ addresses[p].displayName # Empty
               PROVE  \E item \in work' : item.hash = p
    OBVIOUS
  <2> DEFINE item == [hash |-> p, email |-> addresses[p].email,
                      displayName |-> addresses[p].displayName]
  <2>1. item \in work' /\ item.hash = p
    BY <1>1
  <2> QED
    BY <2>1
<1>5. TypeOK'
  <2>1. work' \subseteq AddressItems
    BY <1>3
  <2> QED
    BY <1>1, <2>1 DEF VInv, TypeOK
<1>6. CellsInv' /\ RowsAgree' /\ UpsertInv'
  BY <1>1, <1>2 DEF VInv, CellsInv, RowsAgree, UpsertInv
<1>7. WorkInv'
  BY <1>1, <1>2, <1>3 DEF VInv, WorkInv
<1>8. CleanInv'
  <2> SUFFICES ASSUME clean PROVE CleanInv'
    BY <1>1 DEF CleanInv
  <2>1. \A id \in StoredIds : NeedsOnly(ring.current, contacts[id].fullName)
    BY <1>1 DEF VInv, CleanInv
  <2>2. \A p \in Known :
          \/ /\ NeedsOnly(ring.current, addresses[p].email)
             /\ NeedsOnly(ring.current, addresses[p].displayName)
          \/ \E item \in work' : item.hash = p
    BY <1>4 DEF NeedsOnly
  <2>3. /\ service.current \in {ring.current, NoKey}
        /\ \A cell \in AllCells : Opens(ring, cell)
    BY <1>1 DEF VInv, CleanInv
  <2> QED
    BY <1>1, <1>2, <2>1, <2>2, <2>3 DEF CleanInv, Opens
<1>9. SoleInv'
  BY <1>1, <1>2 DEF VInv, SoleInv, NeedsOnly
<1> QED
  BY <1>5, <1>6, <1>7, <1>8, <1>9 DEF VInv

\* Both fields of an address are rewritten, readable or not.
LEMMA RotateAddressCells ==
  ASSUME VInv, NEW item \in work, RotateAddress(item), NEW p, p = item.hash,
         NEW old \in {addresses[p].email, addresses[p].displayName},
         NEW new, new = Encrypt(Decrypt(old, ring), ring)
  PROVE  /\ WellFormed(new) /\ Sealed(new)
         /\ NeedsOnly(ring.current, new) /\ Opens(ring, new)
         /\ new.value \in {old.value, NoValue}
         /\ Opens(ring, old) => new.value = old.value
<1>1. p \in Known
  BY RotateAddressFacts
<1>2. old \in Cells /\ WellFormed(old)
  BY <1>1, RowsTyped DEF VInv, CellsInv
<1>3. ring \in Keyrings /\ ring.current # NoKey
  BY DEF VInv, TypeOK, WorkInv, RotateAddress
<1> QED
  BY <1>2, <1>3, RecryptFacts

LEMMA RotateAddressKeeps ==
  ASSUME VInv, NEW item \in work, RotateAddress(item)
  PROVE  VInv'
<1> PICK p : p = item.hash
  OBVIOUS
<1> DEFINE mail == addresses'[p].email
           name == addresses'[p].displayName
<1>1. /\ addresses' \in [People -> Addresses \cup {NoRow}]
      /\ p \in Known /\ Known' = Known
      /\ \A q \in Known : addresses'[q].contact = addresses[q].contact
      /\ \A q \in Known \ {p} : addresses'[q] = addresses[q]
      /\ mail = Encrypt(Decrypt(addresses[p].email, ring), ring)
      /\ name = Encrypt(Decrypt(addresses[p].displayName, ring), ring)
  BY RotateAddressFacts
<1>2. /\ rpc = "addresses" /\ work' = work \ {item} /\ StoredIds' = StoredIds
      /\ UNCHANGED <<contacts, service, pc, sender, contact, rpc, ring, clean,
                     sole>>
  BY DEF RotateAddress, upsertVars, StoredIds
<1>3. /\ WellFormed(mail) /\ WellFormed(name)
      /\ NeedsOnly(ring.current, mail) /\ NeedsOnly(ring.current, name)
      /\ Opens(ring, mail) /\ Opens(ring, name)
      /\ mail.value \in {addresses[p].email.value, NoValue}
      /\ name.value \in {addresses[p].displayName.value, NoValue}
  BY <1>1, RotateAddressCells
<1> HIDE DEF mail, name
<1>4. TypeOK'
  BY <1>1, <1>2 DEF VInv, TypeOK
<1>5. CellsInv' /\ RowsAgree' /\ UpsertInv'
  <2>1. ASSUME NEW q \in Known
        PROVE  /\ WellFormed(addresses'[q].email) /\ WellFormed(addresses'[q].displayName)
               /\ addresses'[q].email.value \in {Email(q), NoValue}
               /\ addresses'[q].displayName.value \in {Name(q), NoValue}
    BY <1>1, <1>3 DEF VInv, CellsInv, RowsAgree, mail, name
  <2> QED
    BY <1>1, <1>2, <2>1 DEF VInv, CellsInv, RowsAgree, UpsertInv
<1>6. \A other \in work' :
        /\ other \in work /\ other \in AddressItems
        /\ other.hash \in Known /\ other.hash # p
        /\ other.email = addresses'[other.hash].email
        /\ other.displayName = addresses'[other.hash].displayName
  <2> TAKE other \in work'
  <2>1. /\ other \in work /\ other # item
        /\ other \in AddressItems /\ item \in AddressItems
        /\ other.hash \in Known
        /\ other.email = addresses[other.hash].email
        /\ other.displayName = addresses[other.hash].displayName
        /\ item.email = addresses[item.hash].email
        /\ item.displayName = addresses[item.hash].displayName
    BY <1>2 DEF VInv, WorkInv
  <2>2. other.hash # p
    BY <2>1 DEF AddressItems
  <2> QED
    BY <1>1, <2>1, <2>2
<1>7. WorkInv'
  BY <1>1, <1>2, <1>6 DEF VInv, WorkInv
<1>8. \A cell : cell \in AllCells' => cell \in AllCells \/ cell = mail \/ cell = name
  BY <1>1, <1>2 DEF AllCells, NameCells, AddressCells, mail, name
<1>9. CleanInv'
  <2> SUFFICES ASSUME clean PROVE CleanInv'
    BY <1>2 DEF CleanInv
  <2>1. \A cell \in AllCells' : Opens(ring, cell)
    BY <1>2, <1>3, <1>8 DEF VInv, CleanInv
  <2>2. ASSUME NEW q \in Known
        PROVE  \/ /\ NeedsOnly(ring.current, addresses'[q].email)
                  /\ NeedsOnly(ring.current, addresses'[q].displayName)
               \/ \E other \in work' : other.hash = q
    <3>1. CASE q = p
      BY <1>3, <3>1 DEF mail, name
    <3>2. CASE q # p
      <4>1. \/ /\ NeedsOnly(ring.current, addresses[q].email)
               /\ NeedsOnly(ring.current, addresses[q].displayName)
            \/ \E other \in work : other.hash = q
        BY <1>2 DEF VInv, CleanInv
      <4> QED
        BY <1>1, <1>2, <3>2, <4>1
    <3> QED
      BY <3>1, <3>2
  <2> QED
    BY <1>1, <1>2, <2>1, <2>2 DEF VInv, CleanInv, Opens
<1>10. SoleInv'
  <2> SUFFICES ASSUME sole # NoKey PROVE SoleInv'
    BY <1>2 DEF SoleInv
  <2>1. ring.current = sole
    BY <1>2 DEF VInv, SoleInv
  <2> QED
    BY <1>2, <1>3, <1>8, <2>1 DEF VInv, SoleInv, NeedsOnly
<1> QED
  BY <1>4, <1>5, <1>7, <1>9, <1>10 DEF VInv

\* The rotation ends, done or not.
LEMMA EndKeeps ==
  ASSUME VInv, FinishRotation \/ StopRotation
  PROVE  VInv'
<1>1. /\ rpc' = "idle" /\ work' = {}
      /\ UNCHANGED <<contacts, addresses, service, pc, sender, contact, ring,
                     clean>>
      /\ StoredIds' = StoredIds /\ Known' = Known /\ AllCells' = AllCells
  BY DEF FinishRotation, StopRotation, tables, upsertVars, StoredIds, Known,
         AllCells, NameCells, AddressCells
<1>2. \/ sole' = sole
      \/ /\ rpc = "addresses" /\ work = {} /\ clean
         /\ sole' = ring.current
  BY DEF FinishRotation, StopRotation
<1>3. TypeOK'
  <2>1. ring.current \in Keys \cup {NoKey}
    BY KeyAssumption DEF VInv, TypeOK
  <2> QED
    BY <1>1, <1>2, <2>1 DEF VInv, TypeOK
<1>4. CellsInv' /\ RowsAgree' /\ UpsertInv' /\ WorkInv' /\ CleanInv'
  BY <1>1 DEF VInv, CellsInv, RowsAgree, UpsertInv, WorkInv, CleanInv
<1>5. SoleInv'
  <2>1. CASE sole' = sole
    BY <1>1, <2>1 DEF VInv, SoleInv, NeedsOnly
  <2>2. CASE /\ rpc = "addresses" /\ work = {} /\ clean
             /\ sole' = ring.current
    <3>1. /\ service.current \in {ring.current, NoKey}
          /\ \A cell \in AllCells : NeedsOnly(ring.current, cell)
      BY <2>2 DEF VInv, CleanInv, AllCells, NameCells, AddressCells
    <3> QED
      BY <1>1, <2>2, <3>1 DEF SoleInv, NeedsOnly
  <2> QED
    BY <1>2, <2>1, <2>2
<1> QED
  BY <1>3, <1>4, <1>5 DEF VInv
------------------------------------------------------------------------------
(* The invariant, and what follows from it.                                *)

LEMMA NextVault == VInv /\ [Next]_vars => VInv'
<1> SUFFICES ASSUME VInv, [Next]_vars PROVE VInv'
  OBVIOUS
<1>1. ASSUME NEW from \in Senders, Upsert(from) PROVE VInv'
  BY <1>1, UpsertQuiet DEF Upsert
<1>2. CASE InsertContact
  <2>1. PICK id \in Ids \ StoredIds : PutContact(id) /\ contact' = id
    BY <1>2 DEF InsertContact
  <2>2. /\ pc = "inserting"
        /\ pc' = IF sender.mailed THEN "linking" ELSE "idle"
        /\ UNCHANGED <<addresses, service, sender, rotationVars>>
    BY <1>2 DEF InsertContact
  <2> QED
    BY <2>1, <2>2, InsertKeeps
<1>3. CASE InsertContactFails
  <2>1. /\ pc = "inserting" /\ pc' = "idle"
        /\ UNCHANGED <<addresses, service, sender, contact, rotationVars>>
    BY <1>3 DEF InsertContactFails
  <2>2. CASE UNCHANGED contacts
    BY <2>1, <2>2, UpsertQuiet DEF tables
  <2>3. ASSUME NEW id \in Ids \ StoredIds, PutContact(id) PROVE VInv'
    BY <2>1, <2>3, InsertKeeps
  <2> QED
    BY <1>3, <2>2, <2>3 DEF InsertContactFails
<1>4. CASE LinkAddress
  BY <1>4, LinkKeeps DEF LinkAddress
<1>5. CASE LinkAddressFails
  <2>1. CASE UNCHANGED addresses
    BY <1>5, <2>1, UpsertQuiet DEF LinkAddressFails, tables
  <2>2. CASE PutAddress
    BY <1>5, <2>2, LinkKeeps DEF LinkAddressFails
  <2> QED
    BY <1>5, <2>1, <2>2 DEF LinkAddressFails
<1>6. CASE UNCHANGED vars
  BY <1>6
  DEF vars, VInv, TypeOK, CellsInv, RowsAgree, UpsertInv, WorkInv, CleanInv,
      SoleInv, AllCells, NameCells, AddressCells, StoredIds, Known, Opens,
      NeedsOnly, tables, upsertVars, rotationVars
<1> QED
  BY <1>1, <1>2, <1>3, <1>4, <1>5, <1>6, RestartKeeps, StartKeeps,
     RotateNameKeeps, ReadKeeps, RotateAddressKeeps, EndKeeps
  DEF Next

THEOREM VaultInvariance == Spec => []VInv
  BY InitVault, NextVault, PTL DEF Spec

\* Type correctness.
THEOREM VaultTyped == Spec => []TypeOK
  BY VaultInvariance, PTL DEF VInv

\* Every contact found by an address is about its sender.
THEOREM RowsStayTrue == Spec => []RowsAgree
  BY VaultInvariance, PTL DEF VInv

\* After a rotation that could read everything, the other keys may be thrown
\* away for as long as nobody writes with them.
THEOREM KeysRetire == Spec => []OtherKeysRetired
<1>1. VInv => OtherKeysRetired
  BY DEF VInv, SoleInv, OtherKeysRetired, NeedsOnly
<1> QED
  BY <1>1, VaultInvariance, PTL
------------------------------------------------------------------------------
(* What a step may do to the private fields.                               *)

\* The only steps that write to the tables.
LEMMA TableSteps ==
  ASSUME [Next]_vars
  PROVE  \/ UNCHANGED tables
         \/ \E id \in Ids \ StoredIds : PutContact(id) /\ UNCHANGED addresses
         \/ pc = "linking" /\ PutAddress /\ UNCHANGED contacts
         \/ \E item \in work : RotateName(item)
         \/ \E item \in work : RotateAddress(item)
<1>1. CASE \E from \in Senders : Upsert(from)
  BY <1>1 DEF Upsert
<1>2. CASE InsertContact \/ InsertContactFails \/ LinkAddress \/ LinkAddressFails
  BY <1>2 DEF InsertContact, InsertContactFails, LinkAddress, LinkAddressFails, tables
<1>3. CASE \E keyring \in Keyrings : Restart(keyring) \/ StartRotation(keyring)
  BY <1>3 DEF Restart, StartRotation
<1>4. CASE ReadAddresses \/ FinishRotation \/ StopRotation
  BY <1>4 DEF ReadAddresses, FinishRotation, StopRotation
<1>5. CASE UNCHANGED vars
  BY <1>5 DEF vars, tables
<1> QED
  BY <1>1, <1>2, <1>3, <1>4, <1>5 DEF Next

\* What the two inserts store is sealed.
LEMMA InsertsSealed ==
  ASSUME TypeOK
  PROVE  /\ Sealed(Encrypt(SenderName, service))
         /\ Sealed(Encrypt(Email(sender.person), service))
  BY SenderTyped, EncryptFacts DEF TypeOK

\* No step writes a private field in clear.
SealedStep ==
  /\ \A id \in StoredIds' :
       \/ Sealed(contacts'[id].fullName)
       \/ id \in StoredIds /\ ~ Sealed(contacts[id].fullName)
  /\ \A p \in Known' :
       \/ Sealed(addresses'[p].email) /\ Sealed(addresses'[p].displayName)
       \/ p \in Known /\ ~ (/\ Sealed(addresses[p].email)
                            /\ Sealed(addresses[p].displayName))

THEOREM NothingInClear == Spec => NoNewClearText
<1>1. VInv /\ [Next]_vars => [SealedStep]_vars
  <2> SUFFICES ASSUME VInv, [Next]_vars PROVE SealedStep
    OBVIOUS
  <2> USE DEF VInv
  <2>1. CASE UNCHANGED tables
    BY <2>1 DEF SealedStep, tables, StoredIds, Known
  <2>2. ASSUME NEW id \in Ids \ StoredIds, PutContact(id), UNCHANGED addresses
        PROVE  SealedStep
    <3>1. /\ StoredIds' = StoredIds \cup {id} /\ Known' = Known
          /\ \A i \in StoredIds : contacts'[i] = contacts[i]
          /\ Sealed(contacts'[id].fullName)
      BY <2>2, PutContactFacts, InsertsSealed DEF Known
    <3> QED
      BY <2>2, <3>1 DEF SealedStep
  <2>3. CASE pc = "linking" /\ PutAddress /\ UNCHANGED contacts
    <3>1. /\ Known' = Known \cup {sender.person} /\ StoredIds' = StoredIds
          /\ \A q \in Known : addresses'[q] = addresses[q]
          /\ Sealed(addresses'[sender.person].email)
          /\ Sealed(addresses'[sender.person].displayName)
      BY <2>3, PutAddressFacts, InsertsSealed DEF StoredIds
    <3> QED
      BY <2>3, <3>1 DEF SealedStep
  <2>4. ASSUME NEW item \in work, RotateName(item) PROVE SealedStep
    <3>1. /\ StoredIds' = StoredIds
          /\ \A i \in StoredIds \ {item.id} : contacts'[i] = contacts[i]
          /\ \/ contacts'[item.id].fullName = contacts[item.id].fullName
             \/ Sealed(contacts'[item.id].fullName)
      BY <2>4, RotateNameFacts
    <3>2. UNCHANGED addresses /\ Known' = Known
      BY <2>4 DEF RotateName, Known
    <3> QED
      BY <3>1, <3>2 DEF SealedStep
  <2>5. ASSUME NEW item \in work, RotateAddress(item) PROVE SealedStep
    <3>1. /\ Known' = Known
          /\ \A q \in Known \ {item.hash} : addresses'[q] = addresses[q]
          /\ Sealed(addresses'[item.hash].email)
          /\ Sealed(addresses'[item.hash].displayName)
      BY <2>5, RotateAddressFacts, RotateAddressCells
    <3>2. UNCHANGED contacts /\ StoredIds' = StoredIds
      BY <2>5 DEF RotateAddress, StoredIds
    <3> QED
      BY <3>1, <3>2 DEF SealedStep
  <2> QED
    BY <2>1, <2>2, <2>3, <2>4, <2>5, TableSteps
<1>2. [SealedStep]_vars <=>
        [/\ \A id \in StoredIds' :
              \/ Sealed(contacts'[id].fullName)
              \/ id \in StoredIds /\ ~ Sealed(contacts[id].fullName)
         /\ \A p \in Known' :
              \/ Sealed(addresses'[p].email) /\ Sealed(addresses'[p].displayName)
              \/ p \in Known /\ ~ (/\ Sealed(addresses[p].email)
                                   /\ Sealed(addresses[p].displayName))]_vars
  BY DEF SealedStep
<1> QED
  BY <1>1, <1>2, VaultInvariance, PTL DEF Spec, NoNewClearText

\* Rows stay, addresses stay with their contact, and a name that is there is
\* not erased.
KeepingStep ==
  /\ \A p \in Known : /\ addresses'[p] # NoRow
                      /\ addresses'[p].contact = addresses[p].contact
  /\ \A id \in StoredIds :
       contacts[id].fullName # Empty => contacts'[id].fullName # Empty

LEMMA StepKeeps == VInv /\ [Next]_vars => KeepingStep
<1> SUFFICES ASSUME VInv, [Next]_vars PROVE KeepingStep
  OBVIOUS
<1> USE DEF VInv
<1>1. CASE UNCHANGED tables
  BY <1>1 DEF KeepingStep, tables, Known
<1>2. ASSUME NEW id \in Ids \ StoredIds, PutContact(id), UNCHANGED addresses
      PROVE  KeepingStep
  BY <1>2, PutContactFacts DEF KeepingStep, Known
<1>3. CASE pc = "linking" /\ PutAddress /\ UNCHANGED contacts
  BY <1>3, PutAddressFacts DEF KeepingStep, Known
<1>4. ASSUME NEW item \in work, RotateName(item) PROVE KeepingStep
  <2>1. /\ item.id \in StoredIds
        /\ \A i \in StoredIds \ {item.id} : contacts'[i] = contacts[i]
        /\ contacts'[item.id].fullName.value = contacts[item.id].fullName.value
    BY <1>4, RotateNameFacts
  <2>2. contacts[item.id].fullName # Empty => contacts'[item.id].fullName # Empty
    BY <2>1 DEF CellsInv, WellFormed, Empty
  <2>3. UNCHANGED addresses
    BY <1>4 DEF RotateName
  <2> QED
    BY <2>1, <2>2, <2>3 DEF KeepingStep, Known
<1>5. ASSUME NEW item \in work, RotateAddress(item) PROVE KeepingStep
  <2>1. /\ Known' = Known
        /\ \A q \in Known : addresses'[q].contact = addresses[q].contact
    BY <1>5, RotateAddressFacts
  <2>2. \A q \in Known : addresses'[q] # NoRow
    BY <2>1 DEF Known
  <2>3. UNCHANGED contacts
    BY <1>5 DEF RotateAddress
  <2> QED
    BY <2>1, <2>2, <2>3 DEF KeepingStep
<1> QED
  BY <1>1, <1>2, <1>3, <1>4, <1>5, TableSteps

\* An address stays with the contact it was stored with.
THEOREM AddressesStay == Spec => AddressKeepsContact
<1>1. VInv /\ [Next]_vars =>
        [\A p \in Known : /\ addresses'[p] # NoRow
                          /\ addresses'[p].contact = addresses[p].contact]_vars
  BY StepKeeps DEF KeepingStep
<1> QED
  BY <1>1, VaultInvariance, PTL DEF Spec, AddressKeepsContact

\* A rotation erases no name.
THEOREM NamesStay == Spec => NamesSurvive
<1>1. VInv /\ [Next]_vars =>
        [\A id \in StoredIds :
           contacts[id].fullName # Empty => contacts'[id].fullName # Empty]_vars
  BY StepKeeps DEF KeepingStep
<1> QED
  BY <1>1, VaultInvariance, PTL DEF Spec, NamesSurvive

\* What one step may do while a rotation is underway.
ReadableStep ==
  rpc # "idle" =>
    /\ \A id \in StoredIds :
         Opens(ring, contacts[id].fullName) =>
           /\ Opens(ring, contacts'[id].fullName)
           /\ contacts'[id].fullName.value = contacts[id].fullName.value
    /\ \A p \in Known :
         /\ Opens(ring, addresses[p].email) =>
              /\ Opens(ring, addresses'[p].email)
              /\ addresses'[p].email.value = addresses[p].email.value
         /\ Opens(ring, addresses[p].displayName) =>
              /\ Opens(ring, addresses'[p].displayName)
              /\ addresses'[p].displayName.value
                   = addresses[p].displayName.value

\* A rotation that stops anywhere leaves everything readable that it could
\* read, whatever is stored meanwhile.
THEOREM RotationLosesNothing == Spec => RotationKeepsReadable
<1>1. VInv /\ [Next]_vars => [ReadableStep]_vars
  <2> SUFFICES ASSUME VInv, [Next]_vars PROVE ReadableStep
    OBVIOUS
  <2> USE DEF VInv
  <2>1. CASE UNCHANGED tables
    BY <2>1 DEF ReadableStep, tables
  <2>2. ASSUME NEW id \in Ids \ StoredIds, PutContact(id), UNCHANGED addresses
        PROVE  ReadableStep
    <3>1. \A i \in StoredIds : contacts'[i] = contacts[i]
      BY <2>2, PutContactFacts
    <3> QED
      BY <2>2, <3>1 DEF ReadableStep
  <2>3. CASE pc = "linking" /\ PutAddress /\ UNCHANGED contacts
    <3>1. \A q \in Known : addresses'[q] = addresses[q]
      BY <2>3, PutAddressFacts
    <3> QED
      BY <2>3, <3>1 DEF ReadableStep
  <2>4. ASSUME NEW item \in work, RotateName(item) PROVE ReadableStep
    <3>1. /\ \A i \in StoredIds \ {item.id} : contacts'[i] = contacts[i]
          /\ contacts'[item.id].fullName.value = contacts[item.id].fullName.value
          /\ Opens(ring, contacts[item.id].fullName) =>
               Opens(ring, contacts'[item.id].fullName)
      BY <2>4, RotateNameFacts
    <3>2. UNCHANGED addresses
      BY <2>4 DEF RotateName
    <3> QED
      BY <3>1, <3>2 DEF ReadableStep
  <2>5. ASSUME NEW item \in work, RotateAddress(item) PROVE ReadableStep
    <3>1. \A q \in Known \ {item.hash} : addresses'[q] = addresses[q]
      BY <2>5, RotateAddressFacts
    <3>2. /\ Opens(ring, addresses'[item.hash].email)
          /\ Opens(ring, addresses'[item.hash].displayName)
          /\ Opens(ring, addresses[item.hash].email) =>
               addresses'[item.hash].email.value = addresses[item.hash].email.value
          /\ Opens(ring, addresses[item.hash].displayName) =>
               addresses'[item.hash].displayName.value
                 = addresses[item.hash].displayName.value
      BY <2>5, RotateAddressFacts, RotateAddressCells
    <3>3. UNCHANGED contacts
      BY <2>5 DEF RotateAddress
    <3> QED
      BY <3>1, <3>2, <3>3 DEF ReadableStep
  <2> QED
    BY <2>1, <2>2, <2>3, <2>4, <2>5, TableSteps
<1>2. [ReadableStep]_vars <=>
        [rpc # "idle" =>
           /\ \A id \in StoredIds :
                Opens(ring, contacts[id].fullName) =>
                  /\ Opens(ring, contacts'[id].fullName)
                  /\ contacts'[id].fullName.value = contacts[id].fullName.value
           /\ \A p \in Known :
                /\ Opens(ring, addresses[p].email) =>
                     /\ Opens(ring, addresses'[p].email)
                     /\ addresses'[p].email.value = addresses[p].email.value
                /\ Opens(ring, addresses[p].displayName) =>
                     /\ Opens(ring, addresses'[p].displayName)
                     /\ addresses'[p].displayName.value
                          = addresses[p].displayName.value]_vars
  BY DEF ReadableStep
<1> QED
  BY <1>1, <1>2, VaultInvariance, PTL DEF Spec, RotationKeepsReadable
==============================================================================
