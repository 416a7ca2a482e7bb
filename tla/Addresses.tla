----------------------------- MODULE Addresses ------------------------------
(***************************************************************************)
(* One person's addresses: the address half of UsersService.  A seller's   *)
(* pickup point is kept twice, on the Address row and on                   *)
(* SellerProfile.location, which the listing feed searches by radius.      *)
(*                                                                         *)
(* upsertAddress writes both in one transaction; create, update and delete *)
(* by id write them in separate statements.  The lines of an address are   *)
(* left out: an address is whether it is deleted and where its point is.   *)
(***************************************************************************)
EXTENDS Integers, Requests

CONSTANTS
    AddressIds,  \* bound on the rows ever inserted
    Points,
    AddressRoles

AddressRow == [deleted : BOOLEAN, point : Points \cup {Null}]
ASSUME AddressAssumption == Null \notin AddressRow

VARIABLES
    addressRole, \* User.role of the owner
    address,     \* the Address rows
    location,    \* SellerProfile.location
    loose        \* history: a write by id overlapped another write or broke off
                 \* half way, and no upsert with a point has followed

addresses == <<addressRole, address, location, loose>>

AddressesInit ==
    /\ addressRole \in AddressRoles
    /\ address = [a \in AddressIds |-> Null]
    /\ location = Null
    /\ loose = FALSE

Inserted == {a \in AddressIds : address[a] # Null}
LiveAddresses == {a \in Inserted : ~address[a].deleted}
Fresh == AddressIds \ Inserted

\* kindForRole: which kinds the partial unique index keeps to one row.  The
\* index counts deleted rows.
Singleton == addressRole \in {"SELLER", "DRIVER"}
MayInsert == Singleton => Inserted = {}

WritesById == {"insertAddress", "updateAddress", "deleteAddress", "writePoint", "mirrorPoint"}
AddressWrites == WritesById \cup {"upsert"}
Busy(t, pcs) == \E u \in Tasks \ {t} : task[u].pc \in pcs

-----------------------------------------------------------------------------
\* upsertAddress: finds the row, the most recent one if there are several
\* (which one that is makes no difference here),
UpsertAddress(t, point) ==
    /\ At(t, "idle")
    /\ \E a \in IF LiveAddresses = {} THEN {Null} ELSE LiveAddresses :
          Goto(t, "upsert", [id |-> a, point |-> point])
    /\ loose' = (loose \/ Busy(t, WritesById))
    /\ UNCHANGED <<addressRole, address, location>>

\* the row after the transaction: a point not given leaves the old one.
Written(a, point) ==
    IF address[a] = Null THEN [deleted |-> FALSE, point |-> point]
    ELSE [address[a] EXCEPT !.point = IF point = Null THEN @ ELSE point]

\* Mutant: only a new row is mirrored onto the profile.
WriteUpsertMirrorsNew(t) ==
    /\ At(t, "upsert")
    /\ LET point == Arg(t).point IN
       \E a \in IF Arg(t).id = Null THEN Fresh ELSE {Arg(t).id} :
          IF Arg(t).id = Null /\ ~MayInsert
          THEN UNCHANGED <<address, location, loose>>
          ELSE /\ address' = [address EXCEPT ![a] = Written(a, point)]
               /\ location' = IF point # Null /\ addressRole = "SELLER" /\ Arg(t).id = Null
                              THEN point ELSE location
               /\ loose' = (loose /\ (point = Null \/ Busy(t, WritesById)))
    /\ Done(t)
    /\ UNCHANGED addressRole
\* and writes it, its point and the seller's location in one transaction.
WriteUpsert(t) ==
    /\ At(t, "upsert")
    /\ LET point == Arg(t).point IN
       \E a \in IF Arg(t).id = Null THEN Fresh ELSE {Arg(t).id} :
          IF Arg(t).id = Null /\ ~MayInsert
          THEN UNCHANGED <<address, location, loose>>
          ELSE /\ address' = [address EXCEPT ![a] = Written(a, point)]
               /\ location' = IF point # Null /\ addressRole = "SELLER" THEN point ELSE location
               /\ loose' = (loose /\ (point = Null \/ Busy(t, WritesById)))
    /\ Done(t)
    /\ UNCHANGED addressRole

-----------------------------------------------------------------------------
(* By id                                                                   *)

Begin(t, pc, a, point) ==
    /\ At(t, "idle")
    /\ Goto(t, pc, [id |-> a, point |-> point])
    /\ loose' = (loose \/ Busy(t, AddressWrites))
    /\ UNCHANGED <<addressRole, address, location>>

CreateAddress(t, point) == Begin(t, "insertAddress", Null, point)
UpdateAddressById(t, a, point) == a \in LiveAddresses /\ Begin(t, "updateAddress", a, point)
DeleteAddressById(t, a) == a \in LiveAddresses /\ Begin(t, "deleteAddress", a, Null)

\* writePointIfPresent returns at once when no point is given.
ThenPoint(t, a) ==
    IF Arg(t).point = Null THEN Done(t) ELSE Goto(t, "writePoint", [Arg(t) EXCEPT !.id = a])

InsertAddress(t) ==
    /\ At(t, "insertAddress")
    /\ \/ MayInsert /\ \E a \in Fresh :
             /\ address' = [address EXCEPT ![a] = [deleted |-> FALSE, point |-> Null]]
             /\ ThenPoint(t, a)
       \/ ~MayInsert /\ Done(t) /\ UNCHANGED address
    /\ UNCHANGED <<addressRole, location, loose>>

\* The lines of the address, which are not modelled.
UpdateAddress(t) ==
    /\ At(t, "updateAddress")
    /\ ThenPoint(t, Arg(t).id)
    /\ UNCHANGED addresses

\* A soft delete; SellerProfile.location stays.
DeleteAddress(t) ==
    /\ At(t, "deleteAddress")
    /\ address' = [address EXCEPT ![Arg(t).id].deleted = TRUE]
    /\ Done(t)
    /\ UNCHANGED <<addressRole, location, loose>>

\* writePointIfPresent: two statements.
WritePoint(t) ==
    /\ At(t, "writePoint")
    /\ address' = [address EXCEPT ![Arg(t).id].point = Arg(t).point]
    /\ IF addressRole = "SELLER" THEN Goto(t, "mirrorPoint", Arg(t)) ELSE Done(t)
    /\ UNCHANGED <<addressRole, location, loose>>
MirrorPoint(t) ==
    /\ At(t, "mirrorPoint")
    /\ location' = Arg(t).point
    /\ Done(t)
    /\ UNCHANGED <<addressRole, address, loose>>

\* A statement fails: what the request has written stays.
AddressFails(t) ==
    /\ task[t].pc \in AddressWrites
    /\ loose' = (loose \/ At(t, "mirrorPoint"))
    /\ Done(t)
    /\ UNCHANGED <<addressRole, address, location>>

AddressesNext ==
    \E t \in Tasks :
        \/ \E point \in Points \cup {Null} :
              \/ UpsertAddress(t, point)
              \/ CreateAddress(t, point)
              \/ \E a \in AddressIds : UpdateAddressById(t, a, point)
        \/ \E a \in AddressIds : DeleteAddressById(t, a)
        \/ WriteUpsert(t) \/ InsertAddress(t) \/ UpdateAddress(t) \/ DeleteAddress(t)
        \/ WritePoint(t) \/ MirrorPoint(t) \/ AddressFails(t)

-----------------------------------------------------------------------------
(* Properties                                                              *)

\* upsertAddress "denormalizes the same point onto SellerProfile.location for
\* the listing-feed radius query": with no write under way, the point of a
\* seller's pickup address is where the feed looks for the seller, whatever
\* upserts overlapped or failed; a write by id that met another write, or
\* broke off, is excepted until the next upsert.
PickupMirrored ==
    \/ addressRole # "SELLER"
    \/ loose
    \/ \E t \in Tasks : task[t].pc \in AddressWrites
    \/ \A a \in LiveAddresses : address[a].point # Null => location = address[a].point
=============================================================================
