------------------------------ MODULE Entities ------------------------------
(***************************************************************************)
(* TypeORM entities.  Every service loads a row into an object, changes    *)
(* the object and calls save(object) some statements later.  The library   *)
(* is not part of the repository; it is modelled from how the services use *)
(* it.                                                                     *)
(***************************************************************************)

\* save(entity) selects the row by its id and updates the columns in which
\* the entity, as it was loaded earlier and changed since, differs from it.
Changed(entity, stored) == {c \in DOMAIN stored : entity[c] # stored[c]}
Patched(stored, entity, cols) ==
    [c \in DOMAIN stored |-> IF c \in cols THEN entity[c] ELSE stored[c]]
=============================================================================
