------------------------------ MODULE RowStore ------------------------------
(***************************************************************************)
(* The database under the services: PostgreSQL at its default isolation    *)
(* level READ COMMITTED (database.config.ts sets no other), reached through *)
(* TypeORM.  It is not part of the repository; it is modelled from how the *)
(* services use it: manager.findOne / manager.find inside                  *)
(* dataSource.transaction(...), and manager.save(entity).                  *)
(*                                                                         *)
(* A row is kept in two versions: cur, the committed one, and new, the one *)
(* written by the open transaction xid (NoTx when there is none, and then  *)
(* new = cur).  A row with an open writer is locked: another writer waits. *)
(***************************************************************************)

CONSTANT NoTx      \* "no transaction", not a worker

Versions(Row, Tx) == [cur : Row, new : Row, xid : Tx \cup {NoTx}]

\* A committed row that nobody is writing.
Stored(v) == [cur |-> v, new |-> v, xid |-> NoTx]

\* A statement of transaction w sees its own writes and what is committed.
Seen(row, w) == IF row.xid = w THEN row.new ELSE row.cur

\* The row lock: only its writer may write again before it commits or aborts.
Writable(row, w) == row.xid \in {NoTx, w}

Written(row, w, v) == [row EXCEPT !.new = v, !.xid = w]

\* End of transaction w for one row, and for every row of a table.
CommitRow(row, w)   == IF row.xid = w THEN Stored(row.new) ELSE row
RollbackRow(row, w) == IF row.xid = w THEN Stored(row.cur) ELSE row
CommitTable(table, w)   == [k \in DOMAIN table |-> CommitRow(table[k], w)]
RollbackTable(table, w) == [k \in DOMAIN table |-> RollbackRow(table[k], w)]
=============================================================================
