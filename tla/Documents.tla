------------------------------ MODULE Documents ------------------------------
(***************************************************************************)
(* The documents of the collection "public_addresses" and what the calls   *)
(* of functions/database_functions do to them.  A collection maps each     *)
(* public address to its document, or to NoDocument.  The fields are       *)
(* strings in the database; a string of decimal digits is modelled by its  *)
(* number, any other content of a field by NotANumber.                     *)
(***************************************************************************)
EXTENDS Integers

CONSTANTS Address,        \* the public addresses that may have a document
          Faults          \* the failures that happen: see FaultKinds

FaultKinds == {"database", "cursor", "wallet", "daemon", "refusal"}

ASSUME FaultsAssumption == Faults \subseteq FaultKinds

NotANumber == -1
NoAddress == "no address"

ASSUME AddressAssumption == NoAddress \notin Address

AnyDocument == [current |-> -1, total |-> -1, inactive |-> -2]
NoDocument  == [current |-> -2, total |-> -2, inactive |-> -2]

(* current_total and total are always printed with %lld; inactivity_count *)
(* is also written by a line that copies something else than a number.    *)
Document == [current : Nat, total : Nat, inactive : Nat \cup {NotANumber}]
Collection == [Address -> Document \cup {NoDocument}]

(***************************************************************************)
(* A filter is the JSON text given as DATA: either {"public_address":"X"}, *)
(* or the complete text of a document, which selects that document only    *)
(* while none of its fields has changed.                                   *)
(***************************************************************************)
Filter == [addr : Address \cup {NoAddress}, doc : Document \cup {AnyDocument}]

Selects(f, coll, a) ==
    /\ a = f.addr
    /\ coll[a] # NoDocument
    /\ f.doc \in {AnyDocument, coll[a]}

(* Deviation, for the checks: update_all_documents_from_collection. *)
UpdateAll(coll, f, field, value) ==
    [a \in Address |-> IF coll[a] # NoDocument
                       THEN [coll[a] EXCEPT ![field] = value]
                       ELSE coll[a]]

(* Deviation, for the checks: the update creates a missing document. *)
UpdateOrInsert(coll, f, field, value) ==
    [a \in Address |-> IF a = f.addr THEN [coll[a] EXCEPT ![field] = value]
                       ELSE coll[a]]

Update(coll, f, field, value) ==
    [a \in Address |-> IF Selects(f, coll, a)
                       THEN [coll[a] EXCEPT ![field] = value]
                       ELSE coll[a]]

Delete(coll, f) ==
    [a \in Address |-> IF Selects(f, coll, a) THEN NoDocument ELSE coll[a]]

(* The values a read may leave in a result buffer that held `before`: a   *)
(* filter that selects nothing is not an error and changes no byte of it. *)
ReadField(coll, f, field, before) ==
    IF f.addr \in Address /\ Selects(f, coll, f.addr)
    THEN coll[f.addr][field] ELSE before

(***************************************************************************)
(* The outcomes of a call that writes: what the collection is afterwards   *)
(* and what the function returns.  A call that selects nothing returns 1.  *)
(* When the connection fails the function returns 0, and the server may or *)
(* may not have applied the change.                                        *)
(***************************************************************************)
Outcomes(before, after) ==
    {[result |-> after, ret |-> 1]} \cup
    (IF "database" \in Faults
     THEN {[result |-> after, ret |-> 0], [result |-> before, ret |-> 0]}
     ELSE {})
==============================================================================
