--------------------------- MODULE StringDatabase ---------------------------
(***************************************************************************)
(* The string database (containers/string_database.c): entries found by    *)
(* identifier or by slot, each counting the references to it.  A database  *)
(* is a function from the slots in use to entries; slot 0 is the stub that *)
(* a lookup returns when it finds nothing.  The hash map, the pool and the *)
(* list of entries behind it are abstracted to that function, and the pool *)
(* hands out any free slot where the code hands out the one freed last.    *)
(***************************************************************************)
EXTENDS Integers, FiniteSets, Functions

Stub == 0

NoId == "no id"

\* string_database_alloc: the stub alone.
NewDatabase == [s \in {Stub} |-> [id |-> NoId, refs |-> 0]]

\* f with the value v at x, where it may not have had one.
With(f, x, v) == [y \in DOMAIN f \cup {x} |-> IF y = x THEN v ELSE f[y]]

Entries(db) == DOMAIN db \ {Stub}

\* string_database_lookup.
Lookup(db, i) ==
    IF \E s \in Entries(db) : db[s].id = i THEN CHOOSE s \in Entries(db) : db[s].id = i ELSE Stub

\* string_database_add_and_alias, called where the lookup of i gave the stub;
\* s is the slot of the pool.
AddAndAlias(db, s, i) == With(db, s, [id |-> i, refs |-> 0])

\* string_database_remove of an entry that was found.
RemoveEntry(db, i) == Restrict(db, DOMAIN db \ {Lookup(db, i)})

(* The stub is counted as well by the code, down to a wrap of the counter:  *)
(* nothing reads that count and it is left out here.                        *)
Count(db, s, n) == IF s = Stub THEN db ELSE [db EXCEPT ![s].refs = @ + n]

\* string_database_reference counts what the lookup finds ...
Reference(db, i) == Count(db, Lookup(db, i), 1)

\* ... and string_database_dereference the slot it is given.
Dereference(db, s) == Count(db, s, -1)

=============================================================================
