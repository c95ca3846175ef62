---------------------------- MODULE TillsProofs -----------------------------
(***************************************************************************)
(* Theorems about PointOfSale on one day of tills and deliveries (with any *)
(* maintenance of products and customers beside them, but no voids and no  *)
(* stock-outs): no deduction is lost or booked twice, what is in stock is  *)
(* what was booked, the oldest batch goes first, and every unit that left a *)
(* batch is on a sale.  Then the two sums that the tables cache, which err *)
(* to one side only: a balance is never more than what the sales leave     *)
(* open, and the stock of a product never less than what its batches hold. *)
(* Last, every step of such a day is a step of SalesBook.                  *)
(***************************************************************************)
EXTENDS TillsInvariant, StoreProofs

-----------------------------------------------------------------------------
(* Who may write a batch                                                   *)

\* On one day at most one checkout is past its INSERT.
LEMMA OneHolder ==
    ASSUME StoreSound, LastDay = 1, NEW v \in Workers, NEW w \in Workers, Holds(v), Holds(w)
    PROVE  v = w
<1>1. ASSUME NEW u \in Workers, Holds(u)
      PROVE  num[u] \in SaleIds /\ sale[num[u]].xid = u /\ ~Taken(num[u])
  <2>1. num[u] \in SaleIds /\ sale[num[u]].xid = u
    BY <1>1 DEF Holds, StoreSound, NumbersHeld
  <2>2. Inserted(num[u]) \/ Marked(num[u])
    BY <2>1, TablesAssumption DEF StoreSound, OpenSalesOwned
  <2> QED
    BY <2>1, <2>2, NoNumberIsNoSale DEF Inserted, Marked
<1>2. /\ num[v] \in SaleIds /\ sale[num[v]].xid = v /\ ~Taken(num[v])
      /\ num[w] \in SaleIds /\ sale[num[w]].xid = w /\ ~Taken(num[w])
  BY <1>1
<1>3. ASSUME NEW x \in Workers, NEW y \in Workers, num[x] \in SaleIds, num[y] \in SaleIds,
             ~Taken(num[x]), num[x][2] < num[y][2]
      PROVE  FALSE
  <2>1. num[x] = <<num[y][1], num[x][2]>> /\ num[x][2] \in 1 .. num[y][2] - 1
    BY <1>3, SmallerNumbers
  <2>2. Taken(<<num[y][1], num[x][2]>>)
    BY <1>3, <2>1 DEF StoreSound, NumbersFollow
  <2> QED
    BY <1>3, <2>1, <2>2
<1>4. ~(num[v][2] < num[w][2]) /\ ~(num[w][2] < num[v][2])
  BY <1>2, <1>3
<1>5. num[v] = num[w]
  <2>1. ASSUME NEW s \in SaleIds PROVE s = <<s[1], s[2]>> /\ s[1] = 1 /\ s[2] \in Int
    BY SmallerNumbers, TablesAssumption
  <2>2. /\ num[v] = <<num[v][1], num[v][2]>> /\ num[v][1] = 1 /\ num[v][2] \in Int
        /\ num[w] = <<num[w][1], num[w][2]>> /\ num[w][1] = 1 /\ num[w][2] \in Int
    BY <1>2, <2>1
  <2>3. num[v][2] = num[w][2]
    BY <1>4, <2>2
  <2> QED
    BY <2>2, <2>3
<1> QED
  BY <1>2, <1>5

\* A checkout that is at its batches holds the number of the day.
LEMMA AtBatchesHolds ==
    ASSUME StoreSound, NEW w \in Workers, At(pc[w], tx[w]) \in BatchSection
    PROVE  Holds(w)
<1>1. PICK l, t : l = pc[w] /\ t = tx[w]
  OBVIOUS
<1>2. NumberFits(l, t, num[w]) /\ At(l, t) \in BatchSection
  BY <1>1 DEF StoreSound, NumbersHeld
<1>3. num[w] \in SaleIds /\ l # "insertSale"
  BY <1>2 DEF NumberFits, Numberless, At, BatchSection, Saves
<1> QED
  BY <1>1, <1>3 DEF Holds

\* The product a checkout is at.
LEMMA ProductTyped ==
    ASSUME StoreSound, NEW w \in Workers, At(pc[w], tx[w]) \in Selling
    PROVE  ProductOf(tx[w]) \in Products
<1>1. PICK l, t : l = pc[w] /\ t = tx[w]
  OBVIOUS
<1>2. t.req \in SaleForm /\ t.i <= Len(t.req.items) /\ t.i \in Nat \ {0}
  BY <1>1 DEF StoreSound, HandlersKnow, Knows, LocalsTyped
<1> QED
  BY <1>1, <1>2, ItemTyped DEF ProductOf

\* A worker keeps what it knows of the batches while another one, which may write
\* the rows that were in the table only when it holds the number of the day, goes on.
LEMMA OthersBook ==
    ASSUME StoreSound, StoreSound', LedgerSound, BatchLedger',
           NEW w \in Workers, NEW v \in Workers \ {w}, LastDay = 1, pc'[v] = pc[v], tx'[v] = tx[v],
           \A b \in BatchIds : batch[b].xid \notin {NoTx, w} => batch'[b] = batch[b] /\ moved'[b] = moved[b],
           \A b \in BatchIds : batch'[b].xid = v => batch[b].xid = v,
           \A b \in BatchIds : batch[b].cur.made /\ batch'[b] # batch[b] => Holds(w),
           \A b \in BatchIds : moved'[b] # moved[b] => batch'[b] # batch[b]
    PROVE  Books(v, pc[v], tx[v])'
<1>1. PICK k, u : k = pc[v] /\ u = tx[v]
  OBVIOUS
<1>2. Books(v, k, u) /\ LocalsTyped(u)
  BY <1>1 DEF LedgerSound, StoreSound, HandlersKnow, Knows
<1>3. ASSUME At(k, u) = "takeBatch", NEW b \in BatchIds, batch[b].cur.made
      PROVE  moved'[b] = moved[b] /\ batch'[b] = batch[b]
  <2>1. Holds(v)
    BY <1>1, <1>3, AtBatchesHolds DEF BatchSection
  <2>2. ~Holds(w)
    BY <2>1, OneHolder
  <2> QED
    BY <1>3, <2>2
<1>4. ASSUME NEW b \in BatchIds
      PROVE  moved'[b] + u.moves[b] = IF SavesBatch(k, u, b) THEN u.ent.qty ELSE Seen(batch'[b], v).qty
  <2>1. moved[b] + u.moves[b] = IF SavesBatch(k, u, b) THEN u.ent.qty ELSE Seen(batch[b], v).qty
    BY <1>2 DEF Books, Tally
  <2>2. CASE SavesBatch(k, u, b)
    <3>1. At(k, u) = "takeBatch" /\ batch[b].cur.made
      BY <1>2, <2>2 DEF SavesBatch, Books, SaveFresh, At
    <3> QED
      BY <1>3, <2>1, <2>2, <3>1
  <2>3. CASE ~SavesBatch(k, u, b) /\ batch[b].xid = v
    <3>1. batch'[b] = batch[b] /\ moved'[b] = moved[b]
      BY <2>3, TablesAssumption
    <3> QED
      BY <2>1, <2>3, <3>1
  <2>4. CASE ~SavesBatch(k, u, b) /\ batch[b].xid # v
    <3>1. Seen(batch[b], v) = batch[b].cur /\ Seen(batch'[b], v) = batch'[b].cur
      BY <2>4 DEF Seen
    <3>2. batch[b].cur.qty = moved[b] /\ batch'[b].cur.qty = moved'[b]
      BY DEF LedgerSound, BatchLedger
    <3>3. moved[b] \in Int /\ moved'[b] \in Int
      BY DEF StoreSound, TypeOK
    <3>4. u.moves[b] \in Int
      BY <1>2 DEF LocalsTyped
    <3>5. moved[b] + u.moves[b] = moved[b]
      BY <2>1, <2>4, <3>1, <3>2
    <3>6. u.moves[b] = 0
      BY <3>3, <3>4, <3>5
    <3> QED
      BY <2>4, <3>1, <3>2, <3>3, <3>6
  <2> QED
    BY <2>2, <2>3, <2>4
<1>5. Tally(v, k, u)'
  BY <1>4 DEF Tally, SavesBatch
<1>6. ListFresh(v, k, u)'
  <2>1. DOMAIN u.list # {} => At(k, u) = "takeBatch"
    BY <1>2 DEF Books, ListFresh
  <2>2. ASSUME NEW j \in DOMAIN u.list, NEW b, b = <<ProductOf(u), j>>
        PROVE  u.list[j] = Seen(batch'[b], v) /\ u.list[j].made /\ batch'[b].cur.made
    <3>1. At(k, u) = "takeBatch"
      BY <2>1, <2>2
    <3>2. b \in BatchIds
      <4>1. j \in Slots
        BY <1>2 DEF LocalsTyped
      <4>2. ProductOf(u) \in Products
        BY <1>1, <3>1, ProductTyped DEF Selling, BatchSection
      <4> QED
        BY <2>2, <4>1, <4>2 DEF BatchIds
    <3>3. u.list[j] = Seen(batch[b], v) /\ u.list[j].made /\ batch[b].cur.made
      BY <1>2, <2>2 DEF Books, ListFresh
    <3> QED
      BY <1>3, <3>1, <3>2, <3>3
  <2> QED
    BY <2>1, <2>2 DEF ListFresh, ProductOf, At
<1>7. SaveFresh(v, k, u)'
  <2>1. SUFFICES ASSUME k \in Saves, u.tbl = "batch" PROVE SaveFresh(v, k, u)'
    BY DEF SaveFresh
  <2>2. u.then = "takeBatch" /\ batch[u.key].cur.made /\ At(k, u) = "takeBatch" /\ SaveFresh(v, k, u)
    BY <1>2, <2>1 DEF Books, SaveFresh, At
  <2>3. u.key \in BatchIds
    BY <1>1, <2>1 DEF StoreSound, HandlersKnow, Knows, SaveTyped
  <2>4. batch'[u.key] = batch[u.key]
    BY <1>3, <2>2, <2>3
  <2> QED
    BY <2>1, <2>2, <2>4 DEF SaveFresh, ProductOf
<1> QED
  BY <1>1, <1>2, <1>5, <1>6, <1>7 DEF Books, At

\* So the invariant holds after a step of worker w when w keeps its own part of it.
LEMMA OneBooks ==
    ASSUME StoreSound, StoreSound', LedgerSound, BatchLedger', LastDay = 1,
           NEW w \in Workers, NEW l, NEW t, Goto(w, l, t), \A v \in Workers \ {w} : num'[v] = num[v],
           \A b \in BatchIds : batch[b].xid \notin {NoTx, w} => batch'[b] = batch[b] /\ moved'[b] = moved[b],
           \A b \in BatchIds : batch'[b].xid \in {batch[b].xid, NoTx, w},
           \A b \in BatchIds : batch[b].cur.made /\ batch'[b] # batch[b] => Holds(w),
           \A b \in BatchIds : moved'[b] # moved[b] => batch'[b] # batch[b],
           Books(w, l, t)',
           \A b \in BatchIds : batch'[b].xid \in {NoTx, w} => BatchOwned(b)'
    PROVE  LedgerSound'
<1>1. /\ pc'[w] = l /\ tx'[w] = t
      /\ \A v \in Workers \ {w} : pc'[v] = pc[v] /\ tx'[v] = tx[v]
  BY DEF Goto, StoreSound, HandlersKnow
<1>2. ASSUME NEW v \in Workers PROVE Books(v, pc[v], tx[v])'
  <2>1. CASE v = w
    BY <1>1, <2>1
  <2>2. CASE v # w
    <3>1. v \in Workers \ {w} /\ pc'[v] = pc[v] /\ tx'[v] = tx[v]
      BY <1>1, <2>2
    <3>2. \A b \in BatchIds : batch'[b].xid = v => batch[b].xid = v
      BY <2>2, TablesAssumption
    <3> QED
      BY <3>1, <3>2, OthersBook
  <2> QED
    BY <2>1, <2>2
<1>3. ASSUME NEW b \in BatchIds PROVE BatchOwned(b)'
  <2>1. CASE batch'[b].xid \in {NoTx, w}
    BY <2>1
  <2>2. CASE batch'[b].xid \notin {NoTx, w}
    <3>1. PICK v : v = batch[b].xid
      OBVIOUS
    <3>2. batch'[b] = batch[b] /\ batch'[b].xid = v /\ v \notin {NoTx, w}
      BY <2>2, <3>1
    <3>3. v \in Workers \ {w}
      BY <3>1, <3>2 DEF StoreSound, TypeOK, Versions
    <3>4. /\ batch[b].new.made
          /\ IF batch[b].cur.made THEN Holds(v) ELSE At(pc[v], tx[v]) = "commit"
          /\ ~batch[b].cur.made => batch[b].cur.qty = 0
      BY <3>1, <3>2 DEF LedgerSound, BatchOwned
    <3>5. pc'[v] = pc[v] /\ tx'[v] = tx[v] /\ num'[v] = num[v]
      BY <1>1, <3>3
    <3>6. Holds(v)' <=> Holds(v)
      BY <3>5 DEF Holds, SaleIds
    <3>7. At(pc[v], tx[v])' = At(pc[v], tx[v])
      BY <3>5 DEF At
    <3> QED
      BY <3>2, <3>4, <3>6, <3>7 DEF BatchOwned
  <2> QED
    BY <2>1, <2>2
<1> QED
  BY <1>2, <1>3 DEF LedgerSound

\* Rows nobody touched have the writer they had.
LEMMA StillOwned ==
    ASSUME StoreSound, LedgerSound, NEW w \in Workers, NEW l, NEW t, Goto(w, l, t), UNCHANGED batch,
           Holds(w) => Holds(w)', At(pc[w], tx[w]) = "commit" => At(l, t) = "commit"
    PROVE  \A b \in BatchIds : batch'[b].xid \in {NoTx, w} => BatchOwned(b)'
<1>1. PICK k, u : k = pc[w] /\ u = tx[w]
  OBVIOUS
<1>3. pc'[w] = l /\ tx'[w] = t
  BY DEF Goto, StoreSound, HandlersKnow
<1>8. ASSUME NEW b \in BatchIds, batch'[b].xid \in {NoTx, w} PROVE BatchOwned(b)'
  <2>1. BatchOwned(b) /\ batch'[b] = batch[b]
    BY DEF LedgerSound
  <2>2. Holds(w) => Holds(w)'
    OBVIOUS
  <2>3. At(k, u) = "commit" => At(pc[w], tx[w])' = "commit"
    BY <1>1, <1>3 DEF At
  <2>4. CASE batch[b].xid = NoTx
    BY <2>1, <2>4 DEF BatchOwned
  <2>5. CASE batch[b].xid = w /\ w # NoTx
    <3>1. /\ batch[b].new.made
          /\ IF batch[b].cur.made THEN Holds(w) ELSE At(k, u) = "commit"
          /\ ~batch[b].cur.made => batch[b].cur.qty = 0
      BY <1>1, <2>1, <2>5 DEF BatchOwned
    <3> QED
      BY <2>1, <2>2, <2>3, <2>5, <3>1 DEF BatchOwned
  <2> QED
    BY <1>8, <2>1, <2>4, <2>5, TablesAssumption
<1> QED
  BY <1>8

\* A statement that is not about batches.
LEMMA Aside ==
    ASSUME StoreSound, StoreSound', LedgerSound, LastDay = 1,
           NEW w \in Workers, NEW l, NEW t, Goto(w, l, t), UNCHANGED <<batch, moved>>,
           \A v \in Workers \ {w} : num'[v] = num[v],
           Holds(w) => Holds(w)', At(pc[w], tx[w]) = "commit" => At(l, t) = "commit",
           At(l, t) \notin {"stockOut", "drainBatch"}, t.moves = tx[w].moves,
           ~(pc[w] \in Saves /\ tx[w].tbl = "batch"), ~(l \in Saves /\ t.tbl = "batch"),
           \/ DOMAIN t.list = {}
           \/ /\ t.list = tx[w].list /\ t.i = tx[w].i /\ t.req = tx[w].req
              /\ At(l, t) = At(pc[w], tx[w])
    PROVE  LedgerSound'
<1>1. PICK k, u : k = pc[w] /\ u = tx[w]
  OBVIOUS
<1>2. Books(w, k, u)
  BY <1>1 DEF LedgerSound
<1>3. pc'[w] = l /\ tx'[w] = t
  BY DEF Goto, StoreSound, HandlersKnow
<1>4. Tally(w, l, t)'
  <2>1. \A b \in BatchIds : moved[b] + u.moves[b] = Seen(batch[b], w).qty
    BY <1>1, <1>2 DEF Books, Tally, SavesBatch
  <2> QED
    BY <1>1, <2>1 DEF Tally, SavesBatch, Seen
<1>5. ListFresh(w, l, t)'
  <2>1. CASE DOMAIN t.list = {}
    BY <2>1 DEF ListFresh
  <2>2. CASE DOMAIN t.list # {}
    <3>1. t.list = u.list /\ t.i = u.i /\ t.req = u.req /\ At(l, t) = At(k, u) /\ ProductOf(t) = ProductOf(u)
      BY <1>1, <2>2 DEF ProductOf
    <3>2. ListFresh(w, k, u)
      BY <1>2 DEF Books
    <3>3. ListFresh(w, l, t)
      BY <3>1, <3>2 DEF ListFresh
    <3> QED
      BY <3>3 DEF ListFresh, Seen, ProductOf, At
  <2> QED
    BY <2>1, <2>2
<1>6. SaveFresh(w, l, t)'
  BY DEF SaveFresh
<1>7. Books(w, l, t)'
  BY <1>4, <1>5, <1>6 DEF Books, At
<1>8. \A b \in BatchIds : batch'[b].xid \in {NoTx, w} => BatchOwned(b)'
  BY StillOwned
<1>9. BatchLedger'
  BY DEF LedgerSound, BatchLedger
<1> QED
  BY <1>7, <1>8, <1>9, OneBooks

-----------------------------------------------------------------------------
(* Taking and leaving requests                                             *)

\* Who has no row open has booked nothing.
LEMMA NothingBooked ==
    ASSUME StoreSound, LedgerSound, NEW w \in Workers, ~(pc[w] \in Saves /\ tx[w].tbl = "batch"),
           NEW b \in BatchIds, batch[b].xid # w
    PROVE  tx[w].moves[b] = 0
<1>1. PICK l, t : l = pc[w] /\ t = tx[w]
  OBVIOUS
<1>2. moved[b] + t.moves[b] = batch[b].cur.qty
  BY <1>1 DEF LedgerSound, Books, Tally, SavesBatch, Seen
<1>3. batch[b].cur.qty = moved[b]
  BY DEF LedgerSound, BatchLedger
<1>4. moved[b] \in Int
  BY DEF StoreSound, TypeOK
<1>5. t.moves[b] \in Int
  BY <1>1 DEF StoreSound, HandlersKnow, Knows, LocalsTyped
<1>6. t.moves[b] = 0
  BY <1>2, <1>3, <1>4, <1>5
<1> QED
  BY <1>1, <1>6

\* A handler that has left has nothing to book.
LEMMA IdleBooks ==
    ASSUME NEW w \in Workers, StoreSound', BatchLedger', \A b \in BatchIds : batch'[b].xid # w
    PROVE  Books(w, "idle", NoLocals)'
<1>1. At("idle", NoLocals) = "idle" /\ "idle" \notin Saves
  BY DEF At, Saves
<1>2. DOMAIN NoLocals.list = {} /\ \A b \in BatchIds : NoLocals.moves[b] = 0
  BY DEF NoLocals, NoList, NoMoves
<1>3. Tally(w, "idle", NoLocals)'
  <2>1. SUFFICES ASSUME NEW b \in BatchIds PROVE moved'[b] + NoLocals.moves[b] = Seen(batch'[b], w).qty
    BY <1>1 DEF Tally, SavesBatch
  <2>2. Seen(batch'[b], w).qty = moved'[b]
    BY DEF Seen, BatchLedger
  <2>3. moved'[b] \in Int
    BY DEF StoreSound, TypeOK
  <2> QED
    BY <1>2, <2>2, <2>3
<1>4. ListFresh(w, "idle", NoLocals)' /\ SaveFresh(w, "idle", NoLocals)'
  BY <1>1, <1>2 DEF ListFresh, SaveFresh
<1> QED
  BY <1>1, <1>3, <1>4 DEF Books, At

LEMMA AbortKeepsLedger ==
    ASSUME LastDay = 1, StoreSound, StoreSound', LedgerSound, NEW w \in Workers, Abort(w)
    PROVE  LedgerSound'
<1>1. /\ Goto(w, "idle", NoLocals) /\ UNCHANGED moved
      /\ \A v \in Workers \ {w} : num'[v] = num[v]
  BY DEF Abort, Leave, StoreSound, TypeOK
<1>2. ASSUME NEW b \in BatchIds
      PROVE  /\ batch[b].xid # w => batch'[b] = batch[b]
             /\ batch[b].xid = w => batch'[b].xid = NoTx /\ batch'[b].cur = batch[b].cur
  BY DEF Abort, RollbackTable, RollbackRow, Stored, StoreSound, TypeOK
<1>3. \A b \in BatchIds : batch'[b].cur = batch[b].cur /\ batch'[b].xid # w
  BY <1>2, TablesAssumption
<1>4. BatchLedger'
  BY <1>1, <1>3 DEF LedgerSound, BatchLedger
<1>5. Books(w, "idle", NoLocals)'
  BY <1>3, <1>4, IdleBooks
<1>6. \A b \in BatchIds : batch'[b].xid \in {NoTx, w} => BatchOwned(b)'
  BY <1>3 DEF LedgerSound, BatchOwned
<1>7. \A b \in BatchIds : batch[b].cur.made /\ batch'[b] # batch[b] => Holds(w)
  BY <1>2, TablesAssumption DEF LedgerSound, BatchOwned
<1>8. \A b \in BatchIds : /\ batch[b].xid \notin {NoTx, w} => batch'[b] = batch[b] /\ moved'[b] = moved[b]
                          /\ batch'[b].xid \in {batch[b].xid, NoTx, w}
                          /\ moved'[b] # moved[b] => batch'[b] # batch[b]
  BY <1>1, <1>2
<1> QED
  BY <1>1, <1>4, <1>5, <1>6, <1>7, <1>8, OneBooks

\* A commit books what the handler did to the batches together with the batches.
LEMMA CommitKeepsLedger ==
    ASSUME LastDay = 1, StoreSound, StoreSound', LedgerSound, NEW w \in Workers, Commit(w)
    PROVE  LedgerSound'
<1>1. /\ pc[w] = "commit" /\ Goto(w, "idle", NoLocals)
      /\ \A v \in Workers \ {w} : num'[v] = num[v]
  BY DEF Commit, Leave, StoreSound, TypeOK
<1>2. ASSUME NEW b \in BatchIds
      PROVE  /\ batch[b].xid # w => batch'[b] = batch[b]
             /\ batch[b].xid = w => batch'[b].xid = NoTx /\ batch'[b].cur = batch[b].new
  BY DEF Commit, CommitTable, CommitRow, Stored, StoreSound, TypeOK
<1>3. ASSUME NEW b \in BatchIds PROVE moved'[b] = moved[b] + tx[w].moves[b]
  BY DEF Commit
<1>4. pc[w] \notin Saves
  BY <1>1 DEF Saves
<1>5. ASSUME NEW b \in BatchIds, batch[b].xid # w PROVE moved'[b] = moved[b]
  <2>1. tx[w].moves[b] = 0
    BY <1>4, <1>5, NothingBooked
  <2>2. moved[b] \in Int
    BY DEF StoreSound, TypeOK
  <2> QED
    BY <1>3, <2>1, <2>2
<1>6. BatchLedger'
  <2>1. SUFFICES ASSUME NEW b \in BatchIds PROVE batch'[b].cur.qty = moved'[b]
    BY DEF BatchLedger
  <2>2. CASE batch[b].xid = w
    <3>1. moved[b] + tx[w].moves[b] = batch[b].new.qty
      BY <1>4, <2>2 DEF LedgerSound, Books, Tally, SavesBatch, Seen
    <3> QED
      BY <1>2, <1>3, <2>2, <3>1
  <2>3. CASE batch[b].xid # w
    BY <1>2, <1>5, <2>3 DEF LedgerSound, BatchLedger
  <2> QED
    BY <2>2, <2>3
<1>7. \A b \in BatchIds : batch'[b].xid # w
  BY <1>2, TablesAssumption
<1>8. Books(w, "idle", NoLocals)'
  BY <1>6, <1>7, IdleBooks
<1>9. ASSUME NEW b \in BatchIds, batch'[b].xid \in {NoTx, w} PROVE BatchOwned(b)'
  <2>1. CASE batch[b].xid = w
    <3>1. batch[b].new.made
      BY <2>1, TablesAssumption DEF LedgerSound, BatchOwned
    <3> QED
      BY <1>2, <2>1, <3>1 DEF BatchOwned
  <2>2. CASE batch[b].xid # w
    <3>1. batch'[b] = batch[b] /\ batch[b].xid = NoTx
      BY <1>2, <1>7, <1>9, <2>2
    <3> QED
      BY <3>1 DEF LedgerSound, BatchOwned
  <2> QED
    BY <2>1, <2>2
<1>10. \A b \in BatchIds : batch[b].cur.made /\ batch'[b] # batch[b] => Holds(w)
  BY <1>2, TablesAssumption DEF LedgerSound, BatchOwned
<1>11. ASSUME NEW b \in BatchIds
       PROVE  /\ batch[b].xid \notin {NoTx, w} => batch'[b] = batch[b] /\ moved'[b] = moved[b]
              /\ batch'[b].xid \in {batch[b].xid, NoTx, w}
              /\ moved'[b] # moved[b] => batch'[b] # batch[b]
  <2>1. CASE batch[b].xid = w
    BY <1>2, <2>1, TablesAssumption
  <2>2. CASE batch[b].xid # w
    BY <1>2, <1>5, <2>2
  <2> QED
    BY <2>1, <2>2
<1> QED
  BY <1>1, <1>6, <1>8, <1>9, <1>10, <1>11, OneBooks

\* Neither voids nor stock-outs begin.
LEMMA BeginKeepsLedger ==
    ASSUME OnlyTillsAndDeliveries, StoreSound, StoreSound', LedgerSound,
           NEW w \in Workers, NEW r \in Requests, Begin(w, r)
    PROVE  LedgerSound'
<1>1. PICK t, l : t = [NoLocals EXCEPT !.req = r] /\ l = Entry(r)
  OBVIOUS
<1>2. pc[w] = "idle" /\ Goto(w, l, t) /\ UNCHANGED <<batch, moved, num>>
  BY <1>1 DEF Begin, tables
<1>3. l \in {"findCustomer", "findSale", "findStock", "findProduct", "findAccount", "findDebtor"}
  <2>1. r.kind \in {"sale", "void", "stockIn", "stockOut", "editProduct", "removeProduct",
                    "editCustomer", "deactivateCustomer", "payment"}
    BY FormsAssumption DEF SaleForm, VoidForm, StockForm, ProductForm, LimitForm, AccountForm, PaymentForm
  <2> QED
    BY <1>1, <2>1 DEF Entry
<1>4. At(pc[w], tx[w]) = "idle" /\ pc[w] \notin Saves /\ l \notin Saves /\ At(l, t) = l
  BY <1>2, <1>3 DEF At, Saves
<1>5. ~Holds(w)
  BY <1>2, <1>4, NoNumberIsNoSale DEF StoreSound, NumbersHeld, NumberFits, Numberless, Holds
<1>6. \A b \in BatchIds : batch[b].xid # w
  BY <1>4, <1>5, TablesAssumption DEF LedgerSound, BatchOwned
<1>7. t.moves = tx[w].moves
  <2>1. tx[w].moves \in [BatchIds -> Int]
    BY DEF StoreSound, HandlersKnow, Knows, LocalsTyped
  <2>2. \A b \in BatchIds : tx[w].moves[b] = 0
    BY <1>4, <1>6, NothingBooked
  <2>3. t.moves = NoMoves
    BY <1>1 DEF NoLocals
  <2> QED
    BY <2>1, <2>2, <2>3 DEF NoMoves
<1>8. DOMAIN t.list = {}
  BY <1>1 DEF NoLocals, NoList
<1> QED
  BY <1>2, <1>3, <1>4, <1>5, <1>7, <1>8, Aside DEF OnlyTillsAndDeliveries

-----------------------------------------------------------------------------
(* The statements of a checkout that are about its batches                 *)

\* What a handler knows at a statement of its own.
LEMMA OwnStatement ==
    ASSUME StoreSound, LedgerSound, NEW w \in Workers, NEW l, NEW t, l = pc[w], t = tx[w], l \notin Saves
    PROVE  /\ At(l, t) = l /\ Knows(l, t) /\ LocalsTyped(t) /\ NumberFits(l, t, num[w])
           /\ Books(w, l, t) /\ l \notin {"stockOut", "drainBatch"}
           /\ \A b \in BatchIds : moved[b] + t.moves[b] = Seen(batch[b], w).qty
           /\ l # "takeBatch" => DOMAIN t.list = {}
<1>1. At(l, t) = l /\ Knows(l, t) /\ LocalsTyped(t) /\ NumberFits(l, t, num[w]) /\ Books(w, l, t)
  BY DEF At, StoreSound, HandlersKnow, NumbersHeld, Knows, LedgerSound
<1> QED
  BY <1>1 DEF Books, Tally, ListFresh, SavesBatch

\* What find returns is in the table: the row of a delivery is not there before it commits.
LEMMA FindBatchesKeepsLedger ==
    ASSUME LastDay = 1, StoreSound, StoreSound', LedgerSound, NEW w \in Workers, FindBatches(w)
    PROVE  LedgerSound'
<1>1. PICK t, p : t = tx[w] /\ p = ProductOf(t)
  OBVIOUS
<1>2. PICK u : u = [t EXCEPT !.list = OpenBatches(p, w), !.left = t.req.items[t.i].qty]
  OBVIOUS
<1>3. /\ pc[w] = "findBatches" /\ Goto(w, "takeBatch", u) /\ UNCHANGED <<batch, moved, num>>
  BY <1>1, <1>2 DEF FindBatches, ProductOf, tables
<1>4. /\ At("findBatches", t) = "findBatches" /\ LocalsTyped(t)
      /\ \A b \in BatchIds : moved[b] + t.moves[b] = Seen(batch[b], w).qty
  BY <1>1, <1>3, OwnStatement DEF Saves
<1>5. /\ DOMAIN u = LocalNames /\ u.moves = t.moves /\ u.list = OpenBatches(p, w)
      /\ u.req = t.req /\ u.i = t.i
  BY <1>2, <1>4 DEF LocalsTyped, LocalNames
<1>6. p \in Products
  BY <1>1, <1>3, <1>4, ProductTyped DEF Selling, BatchSection
<1>7. At("takeBatch", u) = "takeBatch" /\ "takeBatch" \notin Saves
  BY DEF At, Saves
<1>8. Tally(w, "takeBatch", u)'
  BY <1>3, <1>4, <1>5, <1>7 DEF Tally, SavesBatch, Seen
<1>9. ListFresh(w, "takeBatch", u)
  <2>0. ProductOf(u) = p
    BY <1>1, <1>5 DEF ProductOf
  <2>1. SUFFICES ASSUME NEW k \in DOMAIN u.list, NEW b, b = <<p, k>>
                 PROVE  u.list[k] = Seen(batch[b], w) /\ u.list[k].made /\ batch[b].cur.made
    BY <1>7, <2>0 DEF ListFresh
  <2>2. k \in Slots /\ u.list[k] = Seen(batch[b], w) /\ Seen(batch[b], w).qty > 0
    BY <1>5, <2>1 DEF OpenBatches
  <2>3. b \in BatchIds
    BY <1>6, <2>1, <2>2 DEF BatchIds
  <2>4. BatchOwned(b)
    BY <2>3 DEF LedgerSound
  <2>5. CASE batch[b].xid = w
    BY <1>1, <1>3, <1>4, <2>2, <2>4, <2>5, TablesAssumption DEF BatchOwned, Seen
  <2>6. CASE batch[b].xid # w
    <3>1. Seen(batch[b], w) = batch[b].cur
      BY <2>6 DEF Seen
    <3>2. batch[b].cur.qty # 0
      BY <2>2, <3>1
    <3> QED
      BY <2>2, <2>4, <3>1, <3>2 DEF BatchOwned
  <2> QED
    BY <2>5, <2>6
<1>10. Books(w, "takeBatch", u)'
  <2>1. ListFresh(w, "takeBatch", u)'
    BY <1>3, <1>9 DEF ListFresh, Seen, ProductOf, At
  <2> QED
    BY <1>7, <1>8, <2>1 DEF Books, SaveFresh, At
<1>11. Holds(w) => Holds(w)'
  BY <1>3 DEF Holds, Goto, StoreSound, HandlersKnow, SaleIds
<1>12. \A b \in BatchIds : batch'[b].xid \in {NoTx, w} => BatchOwned(b)'
  BY <1>1, <1>3, <1>4, <1>11, StillOwned
<1>13. BatchLedger'
  BY <1>3 DEF LedgerSound, BatchLedger
<1> QED
  BY <1>3, <1>10, <1>12, <1>13, OneBooks

\* What a round takes from a batch it books, and saves what is left.
LEMMA TakeBatchKeepsLedger ==
    ASSUME LastDay = 1, StoreSound, StoreSound', LedgerSound, NEW w \in Workers, TakeBatch(w)
    PROVE  LedgerSound'
<1>1. PICK t, p : t = tx[w] /\ p = ProductOf(t)
  OBVIOUS
<1>2. pc[w] = "takeBatch" /\ UNCHANGED <<batch, moved, num>>
  BY DEF TakeBatch
<1>3. PICK k, b, d :
         /\ k \in Slots
         /\ IsOldest(k, t.list) /\ b = <<p, k>> /\ d = Smaller(t.list[k].qty, t.left)
         /\ Save(w, "batch", b, Deducted(t.list[k], d), "takeBatch", Took(t, k, b, d))
  BY <1>1 DEF TakeBatch, ProductOf
<1>4. PICK ent, v, u : /\ ent = Deducted(t.list[k], d) /\ v = Took(t, k, b, d)
                       /\ u = Saving("batch", b, ent, "takeBatch", v)
  OBVIOUS
<1>5. Goto(w, "select", u)
  BY <1>3, <1>4 DEF Save
<1>6. /\ At("takeBatch", t) = "takeBatch" /\ LocalsTyped(t) /\ ListFresh(w, "takeBatch", t)
      /\ \A c \in BatchIds : moved[c] + t.moves[c] = Seen(batch[c], w).qty
  BY <1>1, <1>2, OwnStatement DEF Saves, Books
<1>7. p \in Products
  BY <1>1, <1>2, <1>6, ProductTyped DEF Selling, BatchSection
<1>8. b \in BatchIds /\ k \in DOMAIN t.list /\ t.list[k] \in BatchRow
  BY <1>3, <1>6, <1>7 DEF BatchIds, IsOldest, LocalsTyped
<1>9. t.list[k] = Seen(batch[b], w) /\ t.list[k].made /\ batch[b].cur.made
  BY <1>1, <1>3, <1>6, <1>8 DEF ListFresh
<1>10. d \in Nat /\ ent \in BatchRow /\ ent.made /\ ent.qty = t.list[k].qty - d
  <2>1. d \in Nat /\ ent \in BatchRow
    BY <1>3, <1>4, <1>6, <1>8, DeductedTyped DEF LocalsTyped
  <2> QED
    BY <1>4, <1>8, <1>9, <2>1 DEF Deducted, BatchRow
<1>11. /\ v.list = Without(t.list, k) /\ v.moves = [t.moves EXCEPT ![b] = @ - d]
       /\ v.req = t.req /\ v.i = t.i /\ DOMAIN v = LocalNames
  BY <1>4, <1>6 DEF Took, LocalsTyped, LocalNames
<1>12. /\ u.list = v.list /\ u.moves = v.moves /\ u.req = t.req /\ u.i = t.i
       /\ u.tbl = "batch" /\ u.key = b /\ u.ent = ent /\ u.then = "takeBatch"
  BY <1>4, <1>11 DEF Saving, LocalNames
<1>13. At("select", u) = "takeBatch" /\ "select" \in Saves /\ ProductOf(u) = p
  BY <1>1, <1>12 DEF At, Saves, ProductOf
<1>14. Tally(w, "select", u)'
  <2>1. SUFFICES ASSUME NEW c \in BatchIds
                 PROVE  moved[c] + u.moves[c] = IF c = b THEN ent.qty ELSE Seen(batch[c], w).qty
    BY <1>2, <1>12, <1>13 DEF Tally, SavesBatch, Seen
  <2>2. CASE c = b
    <3>1. moved[b] + t.moves[b] = t.list[k].qty
      BY <1>6, <1>8, <1>9
    <3>2. u.moves[b] = t.moves[b] - d
      BY <1>6, <1>8, <1>11, <1>12 DEF LocalsTyped
    <3>3. moved[b] \in Int /\ t.moves[b] \in Int
      BY <1>6, <1>8 DEF StoreSound, TypeOK, LocalsTyped
    <3> QED
      BY <1>10, <2>2, <3>1, <3>2, <3>3
  <2>3. CASE c # b
    BY <1>6, <1>11, <1>12, <2>3 DEF LocalsTyped
  <2> QED
    BY <2>2, <2>3
<1>15. ListFresh(w, "select", u)'
  <2>1. \A j \in DOMAIN u.list : j \in DOMAIN t.list /\ u.list[j] = t.list[j]
    BY <1>11, <1>12 DEF Without
  <2>2. ListFresh(w, "select", u)
    BY <1>1, <1>6, <1>13, <2>1 DEF ListFresh
  <2> QED
    BY <1>2, <2>2 DEF ListFresh, Seen, ProductOf, At
<1>16. SaveFresh(w, "select", u)'
  <2>1. b[1] = p /\ b[2] = k /\ k \notin DOMAIN u.list
    BY <1>3, <1>11, <1>12 DEF Without
  <2> QED
    BY <1>2, <1>9, <1>10, <1>12, <1>13, <2>1 DEF SaveFresh, ProductOf
<1>17. Books(w, "select", u)'
  BY <1>13, <1>14, <1>15, <1>16 DEF Books, At
<1>18. Holds(w) => Holds(w)'
  BY <1>2, <1>5 DEF Holds, Goto, StoreSound, HandlersKnow, SaleIds
<1>19. \A c \in BatchIds : batch'[c].xid \in {NoTx, w} => BatchOwned(c)'
  BY <1>1, <1>2, <1>5, <1>6, <1>18, StillOwned
<1>20. BatchLedger'
  BY <1>2 DEF LedgerSound, BatchLedger
<1> QED
  BY <1>2, <1>5, <1>17, <1>19, <1>20, OneBooks

\* What a handler knows while it saves.
LEMMA WhileSaving ==
    ASSUME StoreSound, LedgerSound, NEW w \in Workers, NEW l \in Saves, NEW t, l = pc[w], t = tx[w]
    PROVE  /\ Knows(l, t) /\ LocalsTyped(t) /\ SaveTyped(t) /\ Books(w, l, t)
           /\ At(l, t) = t.then /\ At(t.then, Saved(t)) = t.then /\ t.then \notin Saves
           /\ t.then \notin {"stockOut", "drainBatch"}
           /\ Saved(t).moves = t.moves /\ Saved(t).list = t.list /\ Saved(t).req = t.req /\ Saved(t).i = t.i
           /\ \A b \in BatchIds :
                 moved[b] + t.moves[b] = IF SavesBatch(l, t, b) THEN t.ent.qty ELSE Seen(batch[b], w).qty
           /\ t.tbl = "batch" => t.then = "takeBatch" /\ t.key \in BatchIds /\ t.ent \in BatchRow
<1>1. Knows(l, t) /\ LocalsTyped(t) /\ SaveTyped(t) /\ Books(w, l, t) /\ At(l, t) = t.then
  BY DEF StoreSound, HandlersKnow, Knows, LedgerSound, At
<1>2. t.then \notin Saves /\ At(t.then, Saved(t)) = t.then
  BY <1>1 DEF SaveTyped, AfterSave, Saves, At
<1>3. Saved(t).moves = t.moves /\ Saved(t).list = t.list /\ Saved(t).req = t.req /\ Saved(t).i = t.i
  BY <1>1 DEF Saved, LocalsTyped, LocalNames
<1>4. \A b \in BatchIds :
         moved[b] + t.moves[b] = IF SavesBatch(l, t, b) THEN t.ent.qty ELSE Seen(batch[b], w).qty
  BY <1>1 DEF Books, Tally
<1>5. t.tbl = "batch" => t.then = "takeBatch" /\ t.key \in BatchIds /\ t.ent \in BatchRow
  BY <1>1 DEF Books, SaveFresh, SaveTyped
<1>6. t.then \notin {"stockOut", "drainBatch"}
  BY <1>1 DEF Books
<1> QED
  BY <1>1, <1>2, <1>3, <1>4, <1>5, <1>6

\* An entity whose changed columns are written is what the row becomes.
LEMMA WrittenAsComputed ==
    ASSUME NEW row \in BatchRow, NEW ent \in BatchRow, NEW cols, Changed(ent, row) \subseteq cols
    PROVE  Patched(row, ent, cols) = ent
  BY DEF Changed, Patched, BatchRow

LEMMA SaveSelectKeepsLedger ==
    ASSUME LastDay = 1, StoreSound, StoreSound', LedgerSound, NEW w \in Workers, SaveSelect(w)
    PROVE  LedgerSound'
<1>1. PICK t, cols : t = tx[w] /\ cols = Changed(t.ent, Seen(RowOf(t), w)) \cup Details(t.req)
  OBVIOUS
<1>2. pc[w] = "select" /\ UNCHANGED <<batch, moved, num>>
  BY DEF SaveSelect, tables
<1>3. "select" \in Saves /\ "update" \in Saves
  BY DEF Saves
<1>4. /\ Knows("select", t) /\ LocalsTyped(t) /\ SaveTyped(t) /\ Books(w, "select", t)
      /\ At("select", t) = t.then /\ At(t.then, Saved(t)) = t.then /\ t.then \notin Saves
      /\ t.then \notin {"stockOut", "drainBatch"}
      /\ Saved(t).moves = t.moves /\ Saved(t).list = t.list /\ Saved(t).req = t.req /\ Saved(t).i = t.i
      /\ t.tbl = "batch" => t.then = "takeBatch" /\ t.key \in BatchIds /\ t.ent \in BatchRow
      /\ \A b \in BatchIds :
            moved[b] + t.moves[b] = IF SavesBatch("select", t, b) THEN t.ent.qty ELSE Seen(batch[b], w).qty
  BY <1>1, <1>2, <1>3, WhileSaving
<1>5. PICK v : v = [t EXCEPT !.cols = cols]
  OBVIOUS
<1>6. /\ v.moves = t.moves /\ v.list = t.list /\ v.req = t.req /\ v.i = t.i /\ v.cols = cols
      /\ v.tbl = t.tbl /\ v.key = t.key /\ v.ent = t.ent /\ v.then = t.then
  BY <1>4, <1>5 DEF LocalsTyped, LocalNames
<1>7. At("update", v) = t.then /\ ProductOf(v) = ProductOf(t)
  BY <1>3, <1>6 DEF At, ProductOf
<1>8. ASSUME NEW l, NEW u, Goto(w, l, u), Books(w, l, u), l # "insertSale", At(l, u) = t.then
      PROVE  LedgerSound'
  <2>1. Books(w, l, u)'
    BY <1>2, <1>8 DEF Books, Tally, ListFresh, SaveFresh, SavesBatch, ProductOf, Seen, At
  <2>2. Holds(w) => Holds(w)'
    BY <1>2, <1>8 DEF Holds, Goto, StoreSound, HandlersKnow, SaleIds
  <2>3. \A b \in BatchIds : batch'[b].xid \in {NoTx, w} => BatchOwned(b)'
    BY <1>1, <1>2, <1>4, <1>8, <2>2, StillOwned
  <2>4. BatchLedger'
    BY <1>2 DEF LedgerSound, BatchLedger
  <2> QED
    BY <1>2, <1>8, <2>1, <2>3, <2>4, OneBooks
<1>9. CASE cols = {}
  <2>1. Goto(w, t.then, Saved(t))
    BY <1>1, <1>9 DEF SaveSelect
  <2>2. Tally(w, t.then, Saved(t))
    <3>1. SUFFICES ASSUME NEW b \in BatchIds PROVE moved[b] + t.moves[b] = Seen(batch[b], w).qty
      BY <1>4 DEF Tally, SavesBatch
    <3>2. CASE SavesBatch("select", t, b)
      <4>1. Changed(t.ent, Seen(batch[b], w)) = {}
        BY <1>1, <1>9, <3>2 DEF SavesBatch, RowOf
      <4>2. Seen(batch[b], w) \in BatchRow
        BY SeenTyped DEF StoreSound, TypeOK
      <4>3. t.ent.qty = Seen(batch[b], w).qty
        BY <4>1, <4>2 DEF Changed, BatchRow
      <4> QED
        BY <1>4, <3>2, <4>3
    <3>3. CASE ~SavesBatch("select", t, b)
      BY <1>4, <3>3
    <3> QED
      BY <3>2, <3>3
  <2>3. ListFresh(w, t.then, Saved(t))
    BY <1>4 DEF Books, ListFresh, ProductOf
  <2>4. SaveFresh(w, t.then, Saved(t))
    BY <1>4 DEF SaveFresh
  <2>5. Books(w, t.then, Saved(t))
    BY <1>4, <2>2, <2>3, <2>4 DEF Books
  <2>6. t.then # "insertSale"
    BY <1>4 DEF SaveTyped, AfterSave
  <2> QED
    BY <1>4, <1>8, <2>1, <2>5, <2>6
<1>10. CASE cols # {}
  <2>1. Goto(w, "update", v)
    BY <1>1, <1>5, <1>10 DEF SaveSelect
  <2>2. Tally(w, "update", v)
    BY <1>3, <1>4, <1>6 DEF Tally, SavesBatch
  <2>3. ListFresh(w, "update", v)
    BY <1>4, <1>6, <1>7 DEF Books, ListFresh
  <2>4. SaveFresh(w, "update", v)
    <3>1. SUFFICES ASSUME t.tbl = "batch"
                   PROVE  /\ t.then = "takeBatch" /\ batch[t.key].cur.made /\ t.ent.made
                          /\ t.key[1] = ProductOf(t) /\ t.key[2] \notin DOMAIN t.list
                          /\ Patched(Seen(batch[t.key], w), t.ent, cols) = t.ent
      BY <1>6, <1>7 DEF SaveFresh
    <3>2. Changed(t.ent, Seen(batch[t.key], w)) \subseteq cols
      BY <1>1, <3>1 DEF RowOf
    <3>3. Seen(batch[t.key], w) \in BatchRow /\ t.ent \in BatchRow
      BY <1>4, <3>1, SeenTyped DEF StoreSound, TypeOK
    <3> QED
      BY <1>3, <1>4, <3>1, <3>2, <3>3, WrittenAsComputed DEF Books, SaveFresh
  <2>5. Books(w, "update", v)
    BY <1>4, <1>7, <2>2, <2>3, <2>4 DEF Books
  <2> QED
    BY <1>7, <1>8, <2>1, <2>5
<1> QED
  BY <1>9, <1>10

\* The UPDATE writes what the checkout computed from the row, which nobody else changed.
LEMMA SaveUpdateKeepsLedger ==
    ASSUME LastDay = 1, StoreSound, StoreSound', LedgerSound, NEW w \in Workers, SaveUpdate(w)
    PROVE  LedgerSound'
<1>1. PICK t, l, u : t = tx[w] /\ l = t.then /\ u = Saved(t)
  OBVIOUS
<1>2. pc[w] = "update" /\ UNCHANGED <<moved, num>> /\ Goto(w, l, u)
  BY <1>1 DEF SaveUpdate
<1>3. "update" \in Saves
  BY DEF Saves
<1>4. /\ LocalsTyped(t) /\ SaveTyped(t) /\ Books(w, "update", t)
      /\ At("update", t) = l /\ At(l, u) = l /\ l \notin Saves
      /\ l \notin {"stockOut", "drainBatch"}
      /\ u.moves = t.moves /\ u.list = t.list /\ u.req = t.req /\ u.i = t.i
      /\ t.tbl = "batch" => l = "takeBatch" /\ t.key \in BatchIds /\ t.ent \in BatchRow
      /\ \A b \in BatchIds :
            moved[b] + t.moves[b] = IF SavesBatch("update", t, b) THEN t.ent.qty ELSE Seen(batch[b], w).qty
  BY <1>1, <1>2, <1>3, WhileSaving
<1>5. l # "insertSale"
  BY <1>1, <1>4 DEF SaveTyped, AfterSave
<1>6. Holds(w) => Holds(w)'
  BY <1>2, <1>5 DEF Holds, Goto, StoreSound, HandlersKnow, SaleIds
<1>7. CASE t.tbl # "batch"
  <2>1. UNCHANGED batch
    BY <1>1, <1>7 DEF SaveUpdate, Updated
  <2> QED
    BY <1>1, <1>2, <1>4, <1>6, <1>7, <2>1, Aside
<1>8. CASE t.tbl = "batch"
  <2>1. PICK key : key = t.key
    OBVIOUS
  <2>2. /\ key \in BatchIds /\ t.ent \in BatchRow /\ t.ent.made /\ l = "takeBatch" /\ batch[key].cur.made
        /\ key[1] = ProductOf(t) /\ key[2] \notin DOMAIN t.list
        /\ Patched(Seen(batch[key], w), t.ent, t.cols) = t.ent
    BY <1>1, <1>3, <1>4, <1>8, <2>1 DEF Books, SaveFresh
  <2>3. batch' = [batch EXCEPT ![key] = Written(@, w, t.ent)]
    BY <1>1, <1>8, <2>1, <2>2 DEF SaveUpdate, Updated
  <2>4. batch[key].xid \in {NoTx, w}
    BY <1>1, <1>8, <2>1 DEF SaveUpdate, Writable, RowOf
  <2>5. /\ batch'[key].cur = batch[key].cur /\ batch'[key].new = t.ent /\ batch'[key].xid = w
        /\ \A b \in BatchIds \ {key} : batch'[b] = batch[b]
    BY <2>2, <2>3 DEF Written, StoreSound, TypeOK, Versions
  <2>6. Holds(w)
    BY <1>1, <1>2, <1>4, <2>2, AtBatchesHolds DEF BatchSection
  <2>7. Tally(w, l, u)'
    <3>1. SUFFICES ASSUME NEW b \in BatchIds PROVE moved[b] + t.moves[b] = Seen(batch'[b], w).qty
      BY <1>2, <1>4 DEF Tally, SavesBatch
    <3>2. CASE b = key
      <4>1. Seen(batch'[b], w) = t.ent
        BY <2>5, <3>2 DEF Seen
      <4> QED
        BY <1>3, <1>4, <1>8, <2>1, <3>2, <4>1 DEF SavesBatch
    <3>3. CASE b # key
      <4>1. batch'[b] = batch[b]
        BY <2>5, <3>3
      <4> QED
        BY <1>4, <2>1, <3>3, <4>1 DEF SavesBatch
    <3> QED
      BY <3>2, <3>3
  <2>8. ListFresh(w, l, u)'
    <3>1. PICK p : p = ProductOf(t)
      OBVIOUS
    <3>2. ListFresh(w, l, t)
      BY <1>4, <2>2 DEF Books, ListFresh, At, Saves
    <3>3. ASSUME NEW j \in DOMAIN t.list, NEW b, b = <<p, j>>
          PROVE  t.list[j] = Seen(batch'[b], w) /\ t.list[j].made /\ batch'[b].cur.made
      <4>1. b \in BatchIds
        <5>1. j \in Slots
          BY <1>4 DEF LocalsTyped
        <5>2. p \in Products
          BY <1>1, <1>2, <1>4, <2>2, <3>1, ProductTyped DEF Selling, BatchSection
        <5> QED
          BY <3>3, <5>1, <5>2 DEF BatchIds
      <4>2. b # key
        BY <2>2, <3>3
      <4>3. t.list[j] = Seen(batch[b], w) /\ t.list[j].made /\ batch[b].cur.made
        BY <3>1, <3>2, <3>3 DEF ListFresh
      <4> QED
        BY <2>5, <4>1, <4>2, <4>3
    <3>4. ProductOf(u) = p
      BY <1>4, <3>1 DEF ProductOf
    <3>5. \A j \in DOMAIN t.list : t.list[j] = Seen(batch'[<<p, j>>], w) /\ t.list[j].made
                                   /\ batch'[<<p, j>>].cur.made
      BY <3>3
    <3>6. (ProductOf(u) = p /\ At(l, u) = l)'
      BY <1>4, <3>4 DEF ProductOf, At
    <3> QED
      BY <1>4, <2>2, <3>5, <3>6 DEF ListFresh
  <2>9. SaveFresh(w, l, u)'
    BY <1>4 DEF SaveFresh
  <2>10. Books(w, l, u)'
    BY <1>4, <2>7, <2>8, <2>9 DEF Books, At
  <2>11. ASSUME NEW b \in BatchIds, batch'[b].xid \in {NoTx, w} PROVE BatchOwned(b)'
    <3>1. CASE b = key
      BY <1>6, <2>2, <2>5, <2>6, <3>1 DEF BatchOwned
    <3>2. CASE b # key
      <4>1. batch'[b] = batch[b] /\ BatchOwned(b)
        BY <2>5, <3>2 DEF LedgerSound
      <4>2. batch[b].xid = w /\ ~batch[b].cur.made => FALSE
        BY <1>1, <1>2, <1>4, <2>2, <4>1, TablesAssumption DEF BatchOwned
      <4>3. CASE batch[b].xid = NoTx
        BY <4>1, <4>3 DEF BatchOwned
      <4>4. CASE batch[b].xid = w
        <5>1. batch[b].new.made /\ batch[b].cur.made
          BY <4>1, <4>2, <4>4, TablesAssumption DEF BatchOwned
        <5> QED
          BY <1>6, <2>6, <4>1, <4>4, <5>1 DEF BatchOwned
      <4> QED
        BY <2>11, <4>1, <4>3, <4>4
    <3> QED
      BY <3>1, <3>2
  <2>12. BatchLedger'
    <3>1. \A b \in BatchIds : batch'[b].cur = batch[b].cur
      BY <2>5
    <3> QED
      BY <1>2, <3>1 DEF LedgerSound, BatchLedger
  <2>13. \A b \in BatchIds : /\ batch[b].xid \notin {NoTx, w} => batch'[b] = batch[b]
                             /\ batch'[b].xid \in {batch[b].xid, NoTx, w}
    BY <2>4, <2>5
  <2> QED
    BY <1>2, <2>6, <2>10, <2>11, <2>12, <2>13, OneBooks
<1> QED
  BY <1>7, <1>8

-----------------------------------------------------------------------------
(* Deliveries, and the statements that are about no batch                  *)

\* A delivery books what it puts into its new row.
LEMMA StockInKeepsLedger ==
    ASSUME LastDay = 1, StoreSound, StoreSound', LedgerSound, NEW w \in Workers, StockIn(w)
    PROVE  LedgerSound'
<1>1. PICK t, q, d : t = tx[w] /\ q = t.req.product /\ d = t.req.qty
  OBVIOUS
<1>2. pc[w] = "stockIn" /\ UNCHANGED <<moved, num>>
  BY DEF StockIn
<1>3. /\ At("stockIn", t) = "stockIn" /\ LocalsTyped(t) /\ Knows("stockIn", t)
      /\ \A b \in BatchIds : moved[b] + t.moves[b] = Seen(batch[b], w).qty
      /\ DOMAIN t.list = {}
  BY <1>1, <1>2, OwnStatement DEF Saves
<1>4. t.req \in StockForm
  BY <1>3 DEF Knows, Adjusting
<1>5. q \in Products /\ d \in Nat
  BY <1>1, <1>4 DEF StockForm
<1>6. PICK ent : ent = [t.prod[q] EXCEPT !.stock = @ + d]
  OBVIOUS
<1>7. PICK k \in Slots :
         /\ Unmade(<<q, k>>)
         /\ batch' = [batch EXCEPT ![<<q, k>>] = Written(@, w, [qty |-> d, active |-> TRUE, made |-> TRUE])]
         /\ Save(w, "product", q, ent, "commit", [t EXCEPT !.moves[<<q, k>>] = d])
  BY <1>1, <1>6 DEF StockIn
<1>8. PICK b, row, v, u :
         /\ b = <<q, k>> /\ row = [qty |-> d, active |-> TRUE, made |-> TRUE]
         /\ v = [t EXCEPT !.moves[b] = d] /\ u = Saving("product", q, ent, "commit", v)
  OBVIOUS
<1>9. b \in BatchIds
  BY <1>5, <1>8 DEF BatchIds
<1>10. Goto(w, "select", u)
  BY <1>7, <1>8 DEF Save
<1>11. /\ u.list = t.list /\ u.moves = [t.moves EXCEPT ![b] = d] /\ u.tbl = "product" /\ u.then = "commit"
  BY <1>3, <1>8 DEF Saving, LocalsTyped, LocalNames
<1>12. /\ batch'[b].cur = batch[b].cur /\ batch'[b].new = row /\ batch'[b].xid = w
       /\ \A c \in BatchIds \ {b} : batch'[c] = batch[c]
  BY <1>7, <1>8, <1>9 DEF Written, StoreSound, TypeOK, Versions
<1>13. batch[b].xid = NoTx /\ ~batch[b].cur.made /\ batch[b].cur.qty = 0 /\ moved[b] = 0
  <2>1. batch[b].xid = NoTx /\ ~batch[b].cur.made
    BY <1>7, <1>8 DEF Unmade
  <2> QED
    BY <1>9, <2>1 DEF LedgerSound, BatchOwned, BatchLedger
<1>14. At("select", u) = "commit" /\ "select" \in Saves
  BY <1>11 DEF At, Saves
<1>15. Tally(w, "select", u)'
  <2>1. SUFFICES ASSUME NEW c \in BatchIds PROVE moved[c] + u.moves[c] = Seen(batch'[c], w).qty
    BY <1>2, <1>11 DEF Tally, SavesBatch
  <2>2. CASE c = b
    <3>1. u.moves[b] = d /\ Seen(batch'[b], w).qty = d
      BY <1>3, <1>8, <1>9, <1>11, <1>12 DEF LocalsTyped, Seen
    <3> QED
      BY <1>5, <1>13, <2>2, <3>1
  <2>3. CASE c # b
    BY <1>3, <1>11, <1>12, <2>3 DEF LocalsTyped
  <2> QED
    BY <2>2, <2>3
<1>16. Books(w, "select", u)'
  BY <1>3, <1>11, <1>14, <1>15 DEF Books, ListFresh, SaveFresh, At
<1>17. pc'[w] = "select" /\ tx'[w] = u
  BY <1>10 DEF Goto, StoreSound, HandlersKnow
<1>18. ASSUME NEW c \in BatchIds, batch'[c].xid \in {NoTx, w} PROVE BatchOwned(c)'
  <2>1. CASE c = b
    <3>1. row.made
      BY <1>8
    <3>2. At(pc'[w], tx'[w]) = "commit"
      BY <1>14, <1>17
    <3> QED
      BY <1>12, <1>13, <2>1, <3>1, <3>2 DEF BatchOwned, At
  <2>2. CASE c # b
    <3>1. batch'[c] = batch[c] /\ BatchOwned(c)
      BY <1>12, <2>2 DEF LedgerSound
    <3>2. CASE batch[c].xid = NoTx
      BY <3>1, <3>2 DEF BatchOwned
    <3>3. CASE batch[c].xid = w
      <4>1. batch[c].new.made /\ batch[c].cur.made /\ Holds(w)
        BY <1>1, <1>2, <1>3, <3>1, <3>3, TablesAssumption DEF BatchOwned
      <4>2. Holds(w)'
        BY <1>2, <1>17, <4>1 DEF Holds, SaleIds
      <4> QED
        BY <3>1, <3>3, <4>1, <4>2 DEF BatchOwned
    <3> QED
      BY <1>18, <3>1, <3>2, <3>3
  <2> QED
    BY <2>1, <2>2
<1>19. BatchLedger'
  <2>1. \A c \in BatchIds : batch'[c].cur = batch[c].cur
    BY <1>12
  <2> QED
    BY <1>2, <2>1 DEF LedgerSound, BatchLedger
<1>20. \A c \in BatchIds : /\ batch[c].xid \notin {NoTx, w} => batch'[c] = batch[c]
                           /\ batch'[c].xid \in {batch[c].xid, NoTx, w}
                           /\ batch[c].cur.made => batch'[c] = batch[c]
  BY <1>12, <1>13
<1> QED
  BY <1>2, <1>10, <1>16, <1>18, <1>19, <1>20, OneBooks

\* A handler goes on at another statement of its own without having touched a batch.
LEMMA AsideReads ==
    ASSUME LastDay = 1, StoreSound, StoreSound', LedgerSound, NEW w \in Workers,
           pc[w] \notin Saves, pc[w] # "commit", UNCHANGED <<batch, moved>>,
           \A v \in Workers \ {w} : num'[v] = num[v], Holds(w) => num'[w] = num[w],
           NEW l, l \notin {"select", "update", "stockOut", "drainBatch"}, l = "insertSale" => ~Holds(w),
           NEW t, t.moves = tx[w].moves, DOMAIN t.list = {}, Goto(w, l, t)
    PROVE  LedgerSound'
<1>1. At(pc[w], tx[w]) # "commit" /\ At(l, t) = l /\ l \notin Saves
  BY DEF At, Saves
<1>2. Holds(w) => Holds(w)'
  BY DEF Holds, Goto, StoreSound, HandlersKnow, SaleIds
<1> QED
  BY <1>1, <1>2, Aside

\* It begins to save an entity of another table.
LEMMA AsideSaves ==
    ASSUME LastDay = 1, StoreSound, StoreSound', LedgerSound, NEW w \in Workers,
           pc[w] \notin Saves, pc[w] # "commit", UNCHANGED <<batch, moved, num>>,
           NEW l, l \notin {"stockOut", "drainBatch"},
           NEW t, t.moves = tx[w].moves, DOMAIN t.list = {}, DOMAIN t = LocalNames,
           NEW tbl, tbl # "batch", NEW key, NEW ent, Save(w, tbl, key, ent, l, t)
    PROVE  LedgerSound'
<1>1. PICK u : u = Saving(tbl, key, ent, l, t)
  OBVIOUS
<1>2. u.moves = t.moves /\ u.list = t.list /\ u.tbl = tbl /\ u.then = l
  BY <1>1 DEF Saving, LocalNames
<1>3. Goto(w, "select", u)
  BY <1>1 DEF Save
<1>4. At("select", u) = l /\ At(pc[w], tx[w]) # "commit"
  BY <1>2 DEF At, Saves
<1>5. Holds(w) => Holds(w)'
  BY <1>3 DEF Holds, Goto, StoreSound, HandlersKnow, SaleIds
<1> QED
  BY <1>2, <1>3, <1>4, <1>5, Aside

\* The statements of a checkout that are about no batch.
LEMMA CreateKeepsLedger ==
    ASSUME LastDay = 1, StoreSound, StoreSound', LedgerSound, NEW w \in Workers, Create(w)
    PROVE  LedgerSound'
<1>1. PICK t, l : t = tx[w] /\ l = pc[w]
  OBVIOUS
<1>2. CASE Abort(w)
  BY <1>2, AbortKeepsLedger
<1>3. CASE FindBatches(w) \/ TakeBatch(w)
  BY <1>3, FindBatchesKeepsLedger, TakeBatchKeepsLedger
<1>4. ASSUME l \in {"findCustomer", "checkStock", "generateSaleNumber", "insertSale", "chargeCustomer"}
      PROVE  DOMAIN t.list = {} /\ LocalsTyped(t) /\ l \notin Saves /\ l # "commit"
  BY <1>1, <1>4, OwnStatement DEF Saves
<1>5. CASE FindCustomer(w) /\ ~Abort(w)
  <2>1. l = "findCustomer" /\ UNCHANGED <<batch, moved, num>>
    BY <1>1, <1>5 DEF FindCustomer, tables
  <2>2. PICK u : u = [t EXCEPT !.cust = Seen(customer[t.req.customer], w)]
    OBVIOUS
  <2>3. u.moves = t.moves /\ u.list = t.list
    BY <1>4, <2>1, <2>2 DEF LocalsTyped, LocalNames
  <2>4. Goto(w, "checkStock", t) \/ Goto(w, "checkStock", u)
    BY <1>1, <1>5, <2>2 DEF FindCustomer
  <2> QED
    BY <1>1, <1>4, <2>1, <2>3, <2>4, AsideReads
<1>6. CASE CheckStock(w) /\ ~Abort(w)
  <2>1. l = "checkStock" /\ UNCHANGED <<batch, moved, num>>
    BY <1>1, <1>6 DEF CheckStock, tables
  <2>2. ASSUME NEW j, NEW q, NEW p
        PROVE  Checked(t, j, q, p).moves = t.moves /\ Checked(t, j, q, p).list = t.list
    BY <1>4, <2>1 DEF Checked, LocalsTyped, LocalNames
  <2>3. PICK m, u :
           m \in {"checkStock", "generateSaleNumber"} /\ Goto(w, m, u) /\ u.moves = t.moves /\ u.list = t.list
    BY <1>1, <1>6, <2>2 DEF CheckStock
  <2> QED
    BY <1>1, <1>4, <2>1, <2>3, AsideReads
<1>7. CASE GenerateSaleNumber(w) /\ ~Abort(w)
  <2>1. /\ l = "generateSaleNumber" /\ UNCHANGED <<batch, moved>> /\ Goto(w, "insertSale", t)
        /\ \A v \in Workers \ {w} : num'[v] = num[v]
    BY <1>1, <1>7 DEF GenerateSaleNumber, tables, StoreSound, TypeOK
  <2>2. ~Holds(w)
    <3>1. NumberFits(l, t, num[w]) /\ At(l, t) = l
      BY <1>1, <1>4, <2>1, OwnStatement
    <3> QED
      BY <2>1, <3>1, NoNumberIsNoSale DEF NumberFits, Numberless, BeforeNumber, Holds
  <2> QED
    BY <1>1, <1>4, <2>1, <2>2, AsideReads
<1>8. CASE InsertSale(w) /\ ~Abort(w)
  <2>1. l = "insertSale" /\ UNCHANGED <<batch, moved, num>> /\ Goto(w, "findBatches", t)
    BY <1>1, <1>8 DEF InsertSale, tables
  <2> QED
    BY <1>1, <1>4, <2>1, AsideReads
<1>9. CASE DeductProduct(w)
  <2>1. l = "takeBatch" /\ UNCHANGED <<batch, moved, num>>
    BY <1>1, <1>9 DEF DeductProduct, tables
  <2>2. LocalsTyped(t)
    BY <1>1, <2>1, OwnStatement DEF Saves
  <2>3. PICK q, ent : q = t.req.items[t.i].product /\ ent = [t.prod[q] EXCEPT !.stock = @ - t.req.items[t.i].qty]
    OBVIOUS
  <2>4. PICK u : u = [t EXCEPT !.prod[q] = ent, !.list = NoList]
    OBVIOUS
  <2>5. PICK v : v = [u EXCEPT !.i = @ + 1]
    OBVIOUS
  <2>6. /\ u.moves = t.moves /\ u.list = NoList /\ DOMAIN u = LocalNames
        /\ v.moves = t.moves /\ v.list = NoList /\ DOMAIN v = LocalNames
    BY <2>2, <2>4, <2>5 DEF LocalsTyped, LocalNames
  <2>7. DOMAIN NoList = {}
    BY DEF NoList
  <2>8. Save(w, "product", q, ent, "findBatches", v) \/ Save(w, "product", q, ent, "chargeCustomer", u)
    BY <1>1, <1>9, <2>3, <2>4, <2>5 DEF DeductProduct
  <2> QED
    BY <1>1, <2>1, <2>6, <2>7, <2>8, AsideSaves DEF Saves
<1>10. CASE ChargeCustomer(w)
  <2>1. l = "chargeCustomer" /\ UNCHANGED <<batch, moved, num>>
    BY <1>1, <1>10 DEF ChargeCustomer, tables
  <2>2. PICK key, ent : key = t.req.customer /\ ent = [t.cust EXCEPT !.balance = @ + t.req.credit]
    OBVIOUS
  <2>3. Save(w, "customer", key, ent, "commit", t) \/ Goto(w, "commit", t)
    BY <1>1, <1>10, <2>2 DEF ChargeCustomer
  <2>4. DOMAIN t = LocalNames
    BY <1>4, <2>1 DEF LocalsTyped
  <2> QED
    <3>1. CASE Goto(w, "commit", t)
      BY <1>1, <1>4, <2>1, <3>1, AsideReads
    <3>2. CASE Save(w, "customer", key, ent, "commit", t)
      BY <1>1, <1>4, <2>1, <2>4, <3>2, AsideSaves
    <3> QED
      BY <2>3, <3>1, <3>2
<1> QED
  BY <1>2, <1>3, <1>5, <1>6, <1>7, <1>8, <1>9, <1>10 DEF Create, ShortOfBatches

\* A void needs a request for one.
LEMMA NoVoids ==
    ASSUME OnlyTillsAndDeliveries, StoreSound, NEW w \in Workers, VoidSale(w)
    PROVE  FALSE
<1>1. PICK l, t : l = pc[w] /\ t = tx[w]
  OBVIOUS
<1>2. l \in Voiding
  BY <1>1 DEF VoidSale, FindSale, RestockProduct, RestockBatch, ReverseCredit, SetVoid, Voiding, Restocking
<1>3. At(l, t) = l /\ l # "idle"
  BY <1>2 DEF At, Voiding, Restocking, Saves
<1>4. t.req \in VoidForm /\ t.req \in Requests
  BY <1>1, <1>2, <1>3 DEF StoreSound, HandlersKnow, Knows
<1> QED
  BY <1>4 DEF VoidForm, OnlyTillsAndDeliveries

LEMMA AdjustKeepsLedger ==
    ASSUME OnlyTillsAndDeliveries, StoreSound, StoreSound', LedgerSound, NEW w \in Workers, Adjust(w)
    PROVE  LedgerSound'
<1>1. PICK t, l : t = tx[w] /\ l = pc[w]
  OBVIOUS
<1>2. CASE StockIn(w)
  BY <1>2, StockInKeepsLedger DEF OnlyTillsAndDeliveries
<1>3. CASE FindStock(w)
  <2>1. l = "findStock" /\ UNCHANGED <<batch, moved, num>>
    BY <1>1, <1>3 DEF FindStock, tables
  <2>2. DOMAIN t.list = {} /\ LocalsTyped(t) /\ Knows(l, t) /\ At(l, t) = l /\ l \notin Saves
    BY <1>1, <2>1, OwnStatement DEF Saves
  <2>3. t.req \in StockForm /\ t.req \in Requests
    BY <2>1, <2>2 DEF Knows, Adjusting
  <2>4. t.req.kind = "stockIn"
    BY <2>3 DEF StockForm, OnlyTillsAndDeliveries
  <2>5. PICK u : u = [t EXCEPT !.prod[t.req.product] = Seen(product[t.req.product], w)]
    OBVIOUS
  <2>6. u.moves = t.moves /\ u.list = t.list
    BY <2>2, <2>5 DEF LocalsTyped, LocalNames
  <2>7. Goto(w, "stockIn", u)
    BY <1>1, <1>3, <2>4, <2>5 DEF FindStock
  <2> QED
    BY <1>1, <2>1, <2>2, <2>6, <2>7, AsideReads DEF OnlyTillsAndDeliveries
<1>4. CASE l \in {"stockOut", "drainBatch"}
  BY <1>1, <1>4, OwnStatement DEF Saves
<1> QED
  BY <1>1, <1>2, <1>3, <1>4 DEF Adjust, StockOut, DrainBatch, BatchesExhausted, DeductStock

LEMMA MaintainProductsKeepsLedger ==
    ASSUME LastDay = 1, StoreSound, StoreSound', LedgerSound, NEW w \in Workers, MaintainProducts(w)
    PROVE  LedgerSound'
<1>1. PICK t, l, q : t = tx[w] /\ l = pc[w] /\ q = t.req.product
  OBVIOUS
<1>2. l \in Editing /\ UNCHANGED <<batch, moved, num>>
  BY <1>1 DEF MaintainProducts, FindProduct, EditProduct, RemoveProduct, Editing, tables
<1>3. DOMAIN t.list = {} /\ LocalsTyped(t) /\ Knows(l, t) /\ At(l, t) = l /\ l \notin Saves /\ l # "commit"
  BY <1>1, <1>2, OwnStatement DEF Saves, Editing
<1>4. CASE FindProduct(w)
  <2>1. t.req \in ProductForm
    BY <1>2, <1>3 DEF Knows
  <2>2. PICK m : m = t.req.kind
    OBVIOUS
  <2>3. m \in {"editProduct", "removeProduct"}
    BY <2>1, <2>2 DEF ProductForm
  <2>4. PICK u : u = [t EXCEPT !.prod[q] = Seen(product[q], w)]
    OBVIOUS
  <2>5. u.moves = t.moves /\ u.list = t.list
    BY <1>3, <2>4 DEF LocalsTyped, LocalNames
  <2>6. Goto(w, m, u)
    BY <1>1, <1>4, <2>2, <2>4 DEF FindProduct
  <2> QED
    BY <1>1, <1>2, <1>3, <2>3, <2>5, <2>6, AsideReads
<1>5. CASE EditProduct(w) \/ RemoveProduct(w)
  <2>1. PICK ent : Save(w, "product", q, ent, "commit", t)
    BY <1>1, <1>5 DEF EditProduct, RemoveProduct
  <2>2. DOMAIN t = LocalNames
    BY <1>3 DEF LocalsTyped
  <2> QED
    BY <1>1, <1>2, <1>3, <2>1, <2>2, AsideSaves
<1> QED
  BY <1>4, <1>5 DEF MaintainProducts

LEMMA MaintainCustomersKeepsLedger ==
    ASSUME LastDay = 1, StoreSound, StoreSound', LedgerSound, NEW w \in Workers, MaintainCustomers(w)
    PROVE  LedgerSound'
<1>1. PICK t, l, c : t = tx[w] /\ l = pc[w] /\ c = t.req.customer
  OBVIOUS
<1>2. CASE Abort(w)
  BY <1>2, AbortKeepsLedger
<1>3. CASE ~Abort(w)
  <2>1. l \in Accounting /\ UNCHANGED <<batch, moved, num>>
    BY <1>1, <1>3 DEF MaintainCustomers, FindAccount, EditCustomer, DeactivateCustomer, FindDebtor,
                      InsertPayment, Accounting, tables
  <2>2. DOMAIN t.list = {} /\ LocalsTyped(t) /\ Knows(l, t) /\ At(l, t) = l /\ l \notin Saves /\ l # "commit"
    BY <1>1, <2>1, OwnStatement DEF Saves, Accounting
  <2>3. PICK u, v : u = [t EXCEPT !.cust = Seen(customer[c], w)] /\ v = [t EXCEPT !.pay = t.req.amount]
    OBVIOUS
  <2>4. /\ u.moves = t.moves /\ u.list = t.list
        /\ v.moves = t.moves /\ v.list = t.list /\ DOMAIN v = LocalNames /\ DOMAIN t = LocalNames
    BY <2>2, <2>3 DEF LocalsTyped, LocalNames
  <2>5. CASE FindAccount(w)
    <3>1. PICK m : m = t.req.kind
      OBVIOUS
    <3>2. t.req \in LimitForm \cup AccountForm
      BY <1>1, <2>2, <2>5 DEF FindAccount, Knows
    <3>3. m \in {"editCustomer", "deactivateCustomer"}
      BY <3>1, <3>2 DEF LimitForm, AccountForm
    <3>4. Goto(w, m, u)
      BY <1>1, <2>3, <2>5, <3>1 DEF FindAccount
    <3> QED
      BY <1>1, <2>1, <2>2, <2>4, <3>3, <3>4, AsideReads
  <2>6. CASE FindDebtor(w)
    <3>1. Goto(w, "insertPayment", u)
      BY <1>1, <1>3, <2>3, <2>6 DEF FindDebtor
    <3> QED
      BY <1>1, <2>1, <2>2, <2>4, <3>1, AsideReads
  <2>7. CASE EditCustomer(w) \/ DeactivateCustomer(w) \/ InsertPayment(w)
    <3>1. PICK z, ent : z \in {t, v} /\ Save(w, "customer", c, ent, "commit", z)
      BY <1>1, <2>3, <2>7 DEF EditCustomer, DeactivateCustomer, InsertPayment
    <3>2. z.moves = tx[w].moves /\ DOMAIN z.list = {} /\ DOMAIN z = LocalNames
      BY <1>1, <2>2, <2>4, <3>1
    <3> QED
      BY <1>1, <2>1, <2>2, <3>1, <3>2, AsideSaves
  <2> QED
    BY <2>5, <2>6, <2>7 DEF MaintainCustomers
<1> QED
  BY <1>2, <1>3

-----------------------------------------------------------------------------
(* The theorems                                                            *)

\* At the start every batch holds what was moved into it.
LEMMA InitLedger == Init => LedgerSound
<1> SUFFICES ASSUME Init PROVE LedgerSound
  OBVIOUS
<1>1. StoreSound
  BY InitSound
<1>2. \A b \in BatchIds : /\ batch[b].cur = OpeningBatch(b) /\ batch[b].xid = NoTx
                          /\ moved[b] = OpeningBatch(b).qty
  BY DEF Init, Stored
<1>3. BatchLedger
  BY <1>2 DEF BatchLedger
<1>4. \A b \in BatchIds : BatchOwned(b)
  <2>1. \A b \in BatchIds : ~OpeningBatch(b).made => OpeningBatch(b).qty = 0
    BY DEF OpeningBatch, NoBatch
  <2> QED
    BY <1>2, <2>1 DEF BatchOwned
<1>5. ASSUME NEW w \in Workers PROVE Books(w, pc[w], tx[w])
  <2>1. pc[w] = "idle" /\ tx[w] = NoLocals /\ "idle" \notin Saves /\ At("idle", NoLocals) = "idle"
    BY DEF Init, At, Saves
  <2>2. DOMAIN NoLocals.list = {} /\ \A b \in BatchIds : NoLocals.moves[b] = 0
    BY DEF NoLocals, NoList, NoMoves
  <2>3. Tally(w, "idle", NoLocals)
    <3>1. SUFFICES ASSUME NEW b \in BatchIds PROVE moved[b] + NoLocals.moves[b] = Seen(batch[b], w).qty
      BY <2>1 DEF Tally, SavesBatch
    <3>2. Seen(batch[b], w).qty = moved[b] /\ moved[b] \in Int
      BY <1>1, <1>2, TablesAssumption DEF Seen, StoreSound, TypeOK
    <3> QED
      BY <2>2, <3>2
  <2> QED
    BY <2>1, <2>2, <2>3 DEF Books, ListFresh, SaveFresh
<1> QED
  BY <1>3, <1>4, <1>5 DEF LedgerSound

LEMMA NextKeepsLedger ==
    ASSUME OnlyTillsAndDeliveries, StoreSound, StoreSound', LedgerSound, [Next]_vars
    PROVE  LedgerSound'
<1>1. LastDay = 1
  BY DEF OnlyTillsAndDeliveries
<1>2. ASSUME NEW w \in Workers, NEW r \in Requests, Begin(w, r) PROVE LedgerSound'
  BY <1>2, BeginKeepsLedger
<1>3. ASSUME NEW w \in Workers, Step(w) PROVE LedgerSound'
  BY <1>1, <1>3, CreateKeepsLedger, NoVoids, AdjustKeepsLedger, MaintainProductsKeepsLedger,
     MaintainCustomersKeepsLedger, SaveSelectKeepsLedger, SaveUpdateKeepsLedger, CommitKeepsLedger,
     AbortKeepsLedger
  DEF Step, DeadlockVictim
<1>4. ASSUME NEW w \in Workers, Disconnect(w) PROVE LedgerSound'
  BY <1>1, <1>4, AbortKeepsLedger DEF Disconnect
<1>5. CASE Midnight
  BY <1>1, <1>5 DEF Midnight, StoreSound, TypeOK
<1>6. CASE UNCHANGED vars
  <2>1. BatchLedger'
    BY <1>6 DEF vars, LedgerSound, BatchLedger
  <2>2. \A w \in Workers : (Holds(w)' <=> Holds(w)) /\ At(pc[w], tx[w])' = At(pc[w], tx[w])
    BY <1>6 DEF vars, Holds, At, SaleIds
  <2>3. \A b \in BatchIds : BatchOwned(b)'
    BY <1>6, <2>2 DEF vars, LedgerSound, BatchOwned, Holds, At, SaleIds
  <2>4. ASSUME NEW w \in Workers PROVE Books(w, pc[w], tx[w])'
    <3>1. Books(w, pc[w], tx[w])
      BY DEF LedgerSound
    <3> QED
      BY <1>6, <3>1 DEF vars, Books, Tally, ListFresh, SaveFresh, SavesBatch, ProductOf, Seen, At
  <2> QED
    BY <2>1, <2>3, <2>4 DEF LedgerSound
<1> QED
  BY <1>2, <1>3, <1>4, <1>5, <1>6 DEF Next, Closed

\* On one day, as long as only checkouts and deliveries write the batches (next to
\* any maintenance of products and customers), every batch row agrees with its stock
\* movements: sales.service.ts:196-236 reads the batches and writes them back
\* statements later without a lock of its own, but two checkouts of one store are
\* kept apart by the sale number that the first of them inserted.
THEOREM BatchesBooked ==
    ASSUME OnlyTillsAndDeliveries PROVE Spec => []BatchLedger
<1>1. Init => StoreSound /\ LedgerSound
  BY InitSound, InitLedger
<1>2. StoreSound /\ LedgerSound /\ [Next]_vars => StoreSound' /\ LedgerSound'
  BY NextKeepsStore, NextKeepsLedger
<1>3. LedgerSound => BatchLedger
  BY DEF LedgerSound
<1> QED
  BY <1>1, <1>2, <1>3, PTL DEF Spec

-----------------------------------------------------------------------------
(* The steps                                                               *)

\* A step of w that touches no batch and no sale, and books nothing.
Quiet(w) ==
    /\ UNCHANGED <<batch, moved, sale, num>>
    /\ \A v \in Workers \ {w} : pc'[v] = pc[v] /\ tx'[v] = tx[v]
    /\ tx'[w].moves = tx[w].moves
    /\ Holds(w)' <=> Holds(w)
    /\ pc'[w] \in Saves /\ tx'[w].tbl = "batch" =>
          pc[w] \in Saves /\ tx[w].tbl = "batch" /\ tx'[w].ent = tx[w].ent
    /\ At(pc'[w], tx'[w]) = "takeBatch" /\ tx'[w].left > 0 =>
          /\ At(pc[w], tx[w]) = "takeBatch" /\ tx'[w].left = tx[w].left
          /\ tx'[w].list = tx[w].list /\ ProductOf(tx'[w]) = ProductOf(tx[w])

\* The handler goes on at another statement of its own.
LEMMA QuietReads ==
    ASSUME StoreSound, NEW w \in Workers, UNCHANGED <<batch, moved, sale, num>>,
           pc[w] # "insertSale", NEW l, l \notin {"select", "update", "insertSale", "takeBatch"},
           NEW t, t.moves = tx[w].moves, Goto(w, l, t)
    PROVE  Quiet(w)
<1>1. /\ pc'[w] = l /\ tx'[w] = t
      /\ \A v \in Workers \ {w} : pc'[v] = pc[v] /\ tx'[v] = tx[v]
  BY DEF Goto, StoreSound, HandlersKnow
<1>2. l \notin Saves /\ At(l, t) = l
  BY DEF Saves, At
<1>3. Holds(w)' <=> Holds(w)
  BY <1>1 DEF Holds, SaleIds
<1> QED
  BY <1>1, <1>2, <1>3 DEF Quiet

\* It begins to save an entity of another table.
LEMMA QuietSaves ==
    ASSUME StoreSound, NEW w \in Workers, UNCHANGED <<batch, moved, sale, num>>,
           pc[w] # "insertSale", NEW l, l # "takeBatch",
           NEW t, t.moves = tx[w].moves, DOMAIN t = LocalNames,
           NEW tbl, tbl # "batch", NEW key, NEW ent, Save(w, tbl, key, ent, l, t)
    PROVE  Quiet(w)
<1>1. PICK u : u = Saving(tbl, key, ent, l, t)
  OBVIOUS
<1>2. u.moves = t.moves /\ u.tbl = tbl /\ u.then = l
  BY <1>1 DEF Saving, LocalNames
<1>3. Goto(w, "select", u)
  BY <1>1 DEF Save
<1>4. /\ pc'[w] = "select" /\ tx'[w] = u
      /\ \A v \in Workers \ {w} : pc'[v] = pc[v] /\ tx'[v] = tx[v]
  BY <1>3 DEF Goto, StoreSound, HandlersKnow
<1>5. At("select", u) = l
  BY <1>2 DEF At, Saves
<1>6. Holds(w)' <=> Holds(w)
  BY <1>4 DEF Holds, SaleIds
<1> QED
  BY <1>2, <1>4, <1>5, <1>6 DEF Quiet

\* The statements of a checkout.
LEMMA CreateKinds ==
    ASSUME StoreSound, LedgerSound, NEW w \in Workers, Create(w)
    PROVE  \/ Quiet(w) \/ (GenerateSaleNumber(w) /\ ~Abort(w)) \/ (InsertSale(w) /\ ~Abort(w))
           \/ FindBatches(w) \/ TakeBatch(w) \/ Abort(w)
<1>1. PICK t, l : t = tx[w] /\ l = pc[w]
  OBVIOUS
<1>2. CASE FindCustomer(w) /\ ~Abort(w)
  <2>1. l = "findCustomer" /\ UNCHANGED <<batch, moved, sale, num>>
    BY <1>1, <1>2 DEF FindCustomer, tables
  <2>2. LocalsTyped(t)
    BY <1>1 DEF StoreSound, HandlersKnow, Knows
  <2>3. PICK u : u = [t EXCEPT !.cust = Seen(customer[t.req.customer], w)]
    OBVIOUS
  <2>4. u.moves = t.moves
    BY <2>2, <2>3 DEF LocalsTyped, LocalNames
  <2>5. Goto(w, "checkStock", t) \/ Goto(w, "checkStock", u)
    BY <1>1, <1>2, <2>3 DEF FindCustomer
  <2> QED
    BY <1>1, <2>1, <2>4, <2>5, QuietReads
<1>3. CASE CheckStock(w) /\ ~Abort(w)
  <2>1. l = "checkStock" /\ UNCHANGED <<batch, moved, sale, num>>
    BY <1>1, <1>3 DEF CheckStock, tables
  <2>2. LocalsTyped(t)
    BY <1>1 DEF StoreSound, HandlersKnow, Knows
  <2>3. ASSUME NEW j, NEW q, NEW p PROVE Checked(t, j, q, p).moves = t.moves
    BY <2>2 DEF Checked, LocalsTyped, LocalNames
  <2>4. PICK m, u : m \in {"checkStock", "generateSaleNumber"} /\ Goto(w, m, u) /\ u.moves = t.moves
    BY <1>1, <1>3, <2>3 DEF CheckStock
  <2> QED
    BY <1>1, <2>1, <2>4, QuietReads
<1>4. CASE DeductProduct(w)
  <2>1. l = "takeBatch" /\ UNCHANGED <<batch, moved, sale, num>>
    BY <1>1, <1>4 DEF DeductProduct, tables
  <2>2. LocalsTyped(t)
    BY <1>1 DEF StoreSound, HandlersKnow, Knows
  <2>3. PICK q, ent : q = t.req.items[t.i].product /\ ent = [t.prod[q] EXCEPT !.stock = @ - t.req.items[t.i].qty]
    OBVIOUS
  <2>4. PICK u : u = [t EXCEPT !.prod[q] = ent, !.list = NoList]
    OBVIOUS
  <2>5. PICK v : v = [u EXCEPT !.i = @ + 1]
    OBVIOUS
  <2>6. u.moves = t.moves /\ DOMAIN u = LocalNames /\ v.moves = t.moves /\ DOMAIN v = LocalNames
    BY <2>2, <2>4, <2>5 DEF LocalsTyped, LocalNames
  <2>7. Save(w, "product", q, ent, "findBatches", v) \/ Save(w, "product", q, ent, "chargeCustomer", u)
    BY <1>1, <1>4, <2>3, <2>4, <2>5 DEF DeductProduct
  <2> QED
    BY <1>1, <2>1, <2>6, <2>7, QuietSaves
<1>5. CASE ChargeCustomer(w)
  <2>1. l = "chargeCustomer" /\ UNCHANGED <<batch, moved, sale, num>>
    BY <1>1, <1>5 DEF ChargeCustomer, tables
  <2>2. DOMAIN t = LocalNames
    BY <1>1 DEF StoreSound, HandlersKnow, Knows, LocalsTyped
  <2>3. PICK key, ent : key = t.req.customer /\ ent = [t.cust EXCEPT !.balance = @ + t.req.credit]
    OBVIOUS
  <2>4. Save(w, "customer", key, ent, "commit", t) \/ Goto(w, "commit", t)
    BY <1>1, <1>5, <2>3 DEF ChargeCustomer
  <2> QED
    BY <1>1, <2>1, <2>2, <2>4, QuietReads, QuietSaves
<1> QED
  BY <1>2, <1>3, <1>4, <1>5 DEF Create, ShortOfBatches

\* The statements of the other handlers.
LEMMA AdjustKinds ==
    ASSUME OnlyTillsAndDeliveries, StoreSound, LedgerSound, NEW w \in Workers, Adjust(w)
    PROVE  Quiet(w) \/ StockIn(w)
<1>1. PICK t, l : t = tx[w] /\ l = pc[w]
  OBVIOUS
<1>2. CASE FindStock(w)
  <2>1. l = "findStock" /\ UNCHANGED <<batch, moved, sale, num>>
    BY <1>1, <1>2 DEF FindStock, tables
  <2>2. LocalsTyped(t) /\ Knows(l, t) /\ At(l, t) = l
    BY <1>1, <2>1, OwnStatement DEF Saves
  <2>3. t.req \in StockForm /\ t.req \in Requests
    BY <2>1, <2>2 DEF Knows, Adjusting
  <2>4. t.req.kind = "stockIn"
    BY <2>3 DEF StockForm, OnlyTillsAndDeliveries
  <2>5. PICK u : u = [t EXCEPT !.prod[t.req.product] = Seen(product[t.req.product], w)]
    OBVIOUS
  <2>6. u.moves = t.moves
    BY <2>2, <2>5 DEF LocalsTyped, LocalNames
  <2>7. Goto(w, "stockIn", u)
    BY <1>1, <1>2, <2>4, <2>5 DEF FindStock
  <2> QED
    BY <1>1, <2>1, <2>6, <2>7, QuietReads
<1>3. CASE l \in {"stockOut", "drainBatch"}
  BY <1>1, <1>3, OwnStatement DEF Saves
<1> QED
  BY <1>1, <1>2, <1>3 DEF Adjust, StockOut, DrainBatch, BatchesExhausted, DeductStock

LEMMA MaintainKinds ==
    ASSUME StoreSound, NEW w \in Workers, MaintainProducts(w) \/ MaintainCustomers(w)
    PROVE  Quiet(w) \/ Abort(w)
<1>1. PICK t, l, q, c : t = tx[w] /\ l = pc[w] /\ q = t.req.product /\ c = t.req.customer
  OBVIOUS
<1>2. SUFFICES ASSUME ~Abort(w) PROVE Quiet(w)
  OBVIOUS
<1>3. l \in Editing \cup Accounting /\ UNCHANGED <<batch, moved, sale, num>>
  BY <1>1, <1>2 DEF MaintainProducts, FindProduct, EditProduct, RemoveProduct, MaintainCustomers, FindAccount,
    EditCustomer, DeactivateCustomer, FindDebtor, InsertPayment, Editing, Accounting, tables
<1>4. LocalsTyped(t) /\ Knows(l, t) /\ At(l, t) = l /\ pc[w] # "insertSale" /\ DOMAIN t = LocalNames
  BY <1>1, <1>3 DEF StoreSound, HandlersKnow, Knows, LocalsTyped, At, Editing, Accounting, Saves
<1>5. PICK m : m = t.req.kind
  OBVIOUS
<1>6. PICK x, u, v : /\ x = [t EXCEPT !.prod[q] = Seen(product[q], w)]
                     /\ u = [t EXCEPT !.cust = Seen(customer[c], w)]
                     /\ v = [t EXCEPT !.pay = t.req.amount]
  OBVIOUS
<1>7. /\ x.moves = t.moves /\ u.moves = t.moves /\ v.moves = t.moves /\ DOMAIN v = LocalNames
  BY <1>4, <1>6 DEF LocalsTyped, LocalNames
<1>8. CASE FindProduct(w)
  <2>1. t.req \in ProductForm
    BY <1>1, <1>4, <1>8 DEF FindProduct, Knows, Editing
  <2>2. m \in {"editProduct", "removeProduct"}
    BY <1>5, <2>1 DEF ProductForm
  <2>3. Goto(w, m, x)
    BY <1>1, <1>5, <1>6, <1>8 DEF FindProduct
  <2> QED
    BY <1>1, <1>3, <1>4, <1>7, <2>2, <2>3, QuietReads
<1>9. CASE EditProduct(w) \/ RemoveProduct(w)
  <2>1. PICK ent : Save(w, "product", q, ent, "commit", t)
    BY <1>1, <1>9 DEF EditProduct, RemoveProduct
  <2> QED
    BY <1>1, <1>3, <1>4, <2>1, QuietSaves
<1>10. CASE FindAccount(w)
  <2>1. t.req \in LimitForm \cup AccountForm
    BY <1>1, <1>4, <1>10 DEF FindAccount, Knows
  <2>2. m \in {"editCustomer", "deactivateCustomer"}
    BY <1>5, <2>1 DEF LimitForm, AccountForm
  <2>3. Goto(w, m, u)
    BY <1>1, <1>5, <1>6, <1>10 DEF FindAccount
  <2> QED
    BY <1>1, <1>3, <1>4, <1>7, <2>2, <2>3, QuietReads
<1>11. CASE FindDebtor(w)
  <2>1. Goto(w, "insertPayment", u)
    BY <1>1, <1>2, <1>6, <1>11 DEF FindDebtor
  <2> QED
    BY <1>1, <1>3, <1>4, <1>7, <2>1, QuietReads
<1>12. CASE EditCustomer(w) \/ DeactivateCustomer(w) \/ InsertPayment(w)
  <2>1. PICK z, ent : z \in {t, v} /\ Save(w, "customer", c, ent, "commit", z)
    BY <1>1, <1>6, <1>12 DEF EditCustomer, DeactivateCustomer, InsertPayment
  <2>2. z.moves = tx[w].moves /\ DOMAIN z = LocalNames
    BY <1>1, <1>4, <1>7, <2>1
  <2> QED
    BY <1>1, <1>3, <1>4, <2>1, <2>2, QuietSaves
<1> QED
  BY <1>8, <1>9, <1>10, <1>11, <1>12 DEF MaintainProducts, MaintainCustomers

\* The saves: only that of a batch writes one.
LEMMA SaveKinds ==
    ASSUME OnlyTillsAndDeliveries, StoreSound, LedgerSound, NEW w \in Workers, SaveSelect(w) \/ SaveUpdate(w)
    PROVE  Quiet(w) \/ (SaveUpdate(w) /\ tx[w].tbl = "batch")
<1>1. PICK t, l, u : t = tx[w] /\ l = pc[w] /\ u = Saved(t)
  OBVIOUS
<1>2. SUFFICES ASSUME ~(SaveUpdate(w) /\ tx[w].tbl = "batch") PROVE Quiet(w)
  OBVIOUS
<1>3. l \in Saves
  BY <1>1 DEF SaveSelect, SaveUpdate, Saves
<1>4. /\ Knows(l, t) /\ LocalsTyped(t) /\ SaveTyped(t) /\ At(l, t) = t.then
      /\ At(t.then, u) = t.then /\ t.then \notin Saves
      /\ u.moves = t.moves /\ u.list = t.list /\ u.req = t.req /\ u.i = t.i
  BY <1>1, <1>3, WhileSaving
<1>5. u.left = t.left /\ ProductOf(u) = ProductOf(t)
  BY <1>1, <1>4 DEF Saved, LocalsTyped, LocalNames, ProductOf
<1>6. t.then # "insertSale" /\ l # "insertSale"
  BY <1>3, <1>4 DEF SaveTyped, AfterSave, Saves
<1>7. t.tbl # "sale"
  <2>1. l # "idle"
    BY <1>3 DEF Saves
  <2>2. t.req \in Requests
    BY <1>4, <2>1 DEF Knows
  <2>3. t.req \notin VoidForm
    BY <2>2 DEF VoidForm, OnlyTillsAndDeliveries
  <2> QED
    BY <1>4, <2>3 DEF SaveTyped
<1>8. UNCHANGED <<batch, moved, sale, num>>
  BY <1>1, <1>2, <1>7 DEF SaveSelect, SaveUpdate, Updated, tables
<1>9. CASE Goto(w, t.then, u)
  <2>1. /\ pc'[w] = t.then /\ tx'[w] = u
        /\ \A v \in Workers \ {w} : pc'[v] = pc[v] /\ tx'[v] = tx[v]
    BY <1>9 DEF Goto, StoreSound, HandlersKnow
  <2>2. Holds(w)' <=> Holds(w)
    BY <1>1, <1>6, <1>8, <2>1 DEF Holds, SaleIds
  <2> QED
    BY <1>1, <1>4, <1>5, <1>8, <2>1, <2>2 DEF Quiet
<1>10. CASE SaveSelect(w) /\ ~Goto(w, t.then, u)
  <2>1. PICK cols, v : v = [t EXCEPT !.cols = cols] /\ Goto(w, "update", v)
    BY <1>1, <1>10 DEF SaveSelect
  <2>2. /\ v.moves = t.moves /\ v.list = t.list /\ v.req = t.req /\ v.i = t.i /\ v.left = t.left
        /\ v.tbl = t.tbl /\ v.ent = t.ent /\ v.then = t.then
    BY <1>4, <2>1 DEF LocalsTyped, LocalNames
  <2>3. /\ pc'[w] = "update" /\ tx'[w] = v
        /\ \A x \in Workers \ {w} : pc'[x] = pc[x] /\ tx'[x] = tx[x]
    BY <2>1 DEF Goto, StoreSound, HandlersKnow
  <2>4. Holds(w)' <=> Holds(w)
    BY <1>1, <1>6, <1>8, <2>3 DEF Holds, SaleIds
  <2>5. At("update", v) = t.then /\ ProductOf(v) = ProductOf(t)
    BY <2>2 DEF At, Saves, ProductOf
  <2> QED
    BY <1>1, <1>3, <1>4, <1>8, <2>2, <2>3, <2>4, <2>5 DEF Quiet
<1> QED
  BY <1>1, <1>9, <1>10 DEF SaveUpdate

LEMMA BeginKinds ==
    ASSUME OnlyTillsAndDeliveries, StoreSound, LedgerSound, NEW w \in Workers, NEW r \in Requests, Begin(w, r)
    PROVE  Quiet(w)
<1>1. PICK t, l : t = [NoLocals EXCEPT !.req = r] /\ l = Entry(r)
  OBVIOUS
<1>2. pc[w] = "idle" /\ Goto(w, l, t) /\ UNCHANGED <<batch, moved, sale, num>>
  BY <1>1 DEF Begin, tables
<1>3. l \in {"findCustomer", "findSale", "findStock", "findProduct", "findAccount", "findDebtor"}
  <2>1. r.kind \in {"sale", "void", "stockIn", "stockOut", "editProduct", "removeProduct",
                    "editCustomer", "deactivateCustomer", "payment"}
    BY FormsAssumption DEF SaleForm, VoidForm, StockForm, ProductForm, LimitForm, AccountForm, PaymentForm
  <2> QED
    BY <1>1, <2>1 DEF Entry
<1>4. At(pc[w], tx[w]) = "idle" /\ pc[w] \notin Saves
  BY <1>2 DEF At, Saves
<1>5. ~Holds(w)
  BY <1>2, <1>4, NoNumberIsNoSale DEF StoreSound, NumbersHeld, NumberFits, Numberless, Holds
<1>6. \A b \in BatchIds : batch[b].xid # w
  BY <1>4, <1>5, TablesAssumption DEF LedgerSound, BatchOwned
<1>7. t.moves = tx[w].moves
  <2>1. tx[w].moves \in [BatchIds -> Int]
    BY DEF StoreSound, HandlersKnow, Knows, LocalsTyped
  <2>2. \A b \in BatchIds : tx[w].moves[b] = 0
    BY <1>4, <1>6, NothingBooked
  <2>3. t.moves = NoMoves
    BY <1>1 DEF NoLocals
  <2> QED
    BY <2>1, <2>2, <2>3 DEF NoMoves
<1> QED
  BY <1>2, <1>3, <1>7, QuietReads

\* Every step is quiet, or one that the invariants below are about.
LEMMA Kinds ==
    ASSUME OnlyTillsAndDeliveries, StoreSound, LedgerSound, [Next]_vars
    PROVE  \/ UNCHANGED vars
           \/ \E w \in Workers :
                 \/ Quiet(w) \/ (GenerateSaleNumber(w) /\ ~Abort(w)) \/ (InsertSale(w) /\ ~Abort(w))
                 \/ FindBatches(w) \/ TakeBatch(w) \/ (SaveUpdate(w) /\ tx[w].tbl = "batch")
                 \/ StockIn(w) \/ Commit(w) \/ Abort(w)
<1>1. ASSUME NEW w \in Workers, Step(w)
      PROVE  \/ Quiet(w) \/ (GenerateSaleNumber(w) /\ ~Abort(w)) \/ (InsertSale(w) /\ ~Abort(w))
             \/ FindBatches(w) \/ TakeBatch(w) \/ (SaveUpdate(w) /\ tx[w].tbl = "batch")
             \/ StockIn(w) \/ Commit(w) \/ Abort(w)
  <2>1. ~VoidSale(w)
    BY NoVoids
  <2>2. CASE Create(w)
    BY <2>2, CreateKinds
  <2>3. CASE Adjust(w)
    BY <2>3, AdjustKinds
  <2>4. CASE MaintainProducts(w) \/ MaintainCustomers(w)
    BY <2>4, MaintainKinds
  <2>5. CASE SaveSelect(w) \/ SaveUpdate(w)
    BY <2>5, SaveKinds
  <2>6. CASE Commit(w) \/ DeadlockVictim(w)
    BY <2>6 DEF DeadlockVictim
  <2> QED
    BY <1>1, <2>1, <2>2, <2>3, <2>4, <2>5, <2>6 DEF Step
<1>2. CASE Midnight
  BY <1>2 DEF Midnight, StoreSound, TypeOK, OnlyTillsAndDeliveries
<1> QED
  BY <1>1, <1>2, BeginKinds DEF Next, Closed, Disconnect

-----------------------------------------------------------------------------
(* Which batches hold something                                            *)

\* The invariant holds after a step of w that keeps it for the rows and for what w saves.
LEMMA RowsKept ==
    ASSUME StoreSound, RowsSound, NEW w \in Workers,
           \A v \in Workers \ {w} : pc'[v] = pc[v] /\ tx'[v] = tx[v],
           \A b \in BatchIds : /\ Emptied(batch'[b].cur) /\ (batch'[b].xid # NoTx => Emptied(batch'[b].new))
                               /\ batch[b].cur.made => batch'[b].cur.made,
           pc'[w] \in Saves /\ tx'[w].tbl = "batch" => Emptied(tx'[w].ent)
    PROVE  RowsSound'
<1>1. StartsMade'
  BY DEF RowsSound, StartsMade, OpeningBatch
<1>2. ASSUME NEW v \in Workers, pc'[v] \in Saves, tx'[v].tbl = "batch" PROVE Emptied(tx'[v].ent)
  <2>1. CASE v = w
    BY <1>2, <2>1
  <2>2. CASE v # w
    BY <1>2, <2>2 DEF RowsSound, OnlyActiveHold
  <2> QED
    BY <2>1, <2>2
<1>3. \A b \in BatchIds : Emptied(batch[b].cur)' /\ (batch'[b].xid # NoTx => Emptied(batch[b].new)')
  BY DEF Emptied
<1>4. \A v \in Workers : pc'[v] \in Saves /\ tx'[v].tbl = "batch" => Emptied(tx[v].ent)'
  BY <1>2 DEF Emptied
<1> QED
  BY <1>1, <1>3, <1>4 DEF RowsSound, OnlyActiveHold, Saves

\* A batch that is used up is set inactive.
LEMMA DeductedEmptied ==
    ASSUME NEW row \in BatchRow, Emptied(row), NEW x \in Nat
    PROVE  Emptied(Deducted(row, Smaller(row.qty, x)))
<1>1. PICK d : d = Smaller(row.qty, x)
  OBVIOUS
<1>2. d \in Nat /\ d <= row.qty /\ row.qty \in Nat /\ row.active \in BOOLEAN
  BY <1>1 DEF Smaller, BatchRow
<1>3. PICK e : e = Deducted(row, d)
  OBVIOUS
<1>4. e.qty = row.qty - d /\ e.active = IF row.qty = d THEN FALSE ELSE row.active
  BY <1>3 DEF Deducted, BatchRow
<1>5. CASE row.qty = d
  BY <1>1, <1>2, <1>3, <1>4, <1>5 DEF Emptied
<1>6. CASE row.qty # d
  <2>1. row.qty # 0
    BY <1>2, <1>6
  <2>2. row.active
    BY <2>1 DEF Emptied
  <2>3. e.active
    BY <1>4, <1>6, <2>2
  <2> QED
    BY <1>1, <1>3, <2>3 DEF Emptied
<1> QED
  BY <1>5, <1>6

\* The end of w's transaction.
LEMMA RowsKeptAtEnd ==
    ASSUME StoreSound, LedgerSound, RowsSound, NEW w \in Workers, Commit(w) \/ Abort(w)
    PROVE  RowsSound'
<1>1. Leave(w)
  BY DEF Commit, Abort
<1>2. /\ pc'[w] = "idle" /\ \A v \in Workers \ {w} : pc'[v] = pc[v] /\ tx'[v] = tx[v]
  BY <1>1 DEF Leave, Goto, StoreSound, HandlersKnow
<1>3. ASSUME NEW b \in BatchIds
      PROVE  \/ batch'[b] = batch[b]
             \/ batch'[b].xid = NoTx /\ batch'[b].cur = batch[b].cur
             \/ batch[b].xid = w /\ batch'[b].xid = NoTx /\ batch'[b].cur = batch[b].new
  BY DEF Commit, Abort, CommitTable, CommitRow, RollbackTable, RollbackRow, Stored, StoreSound, TypeOK
<1>4. ASSUME NEW b \in BatchIds
      PROVE  /\ Emptied(batch'[b].cur) /\ (batch'[b].xid # NoTx => Emptied(batch'[b].new))
             /\ batch[b].cur.made => batch'[b].cur.made
  <2>1. Emptied(batch[b].cur) /\ (batch[b].xid # NoTx => Emptied(batch[b].new))
    BY DEF RowsSound, OnlyActiveHold
  <2>2. batch[b].xid # NoTx => batch[b].new.made
    BY DEF LedgerSound, BatchOwned
  <2>3. w # NoTx
    BY TablesAssumption
  <2> QED
    BY <1>3, <2>1, <2>2, <2>3
<1> QED
  BY <1>2, <1>4, RowsKept DEF Saves

LEMMA NextKeepsRows ==
    ASSUME OnlyTillsAndDeliveries, StoreSound, LedgerSound, RowsSound, [Next]_vars
    PROVE  RowsSound'
<1>1. CASE UNCHANGED vars
  BY <1>1 DEF vars, RowsSound, OnlyActiveHold, StartsMade, Emptied
<1>2. \A b \in BatchIds : Emptied(batch[b].cur) /\ (batch[b].xid # NoTx => Emptied(batch[b].new))
  BY DEF RowsSound, OnlyActiveHold
<1>3. ASSUME NEW w \in Workers, Quiet(w) PROVE RowsSound'
  BY <1>2, <1>3, RowsKept DEF Quiet, RowsSound, OnlyActiveHold
<1>4. ASSUME NEW w \in Workers, NEW l, NEW t, Goto(w, l, t), UNCHANGED batch,
             l \in Saves /\ t.tbl = "batch" => Emptied(t.ent)
      PROVE  RowsSound'
  <2>1. /\ pc'[w] = l /\ tx'[w] = t
        /\ \A v \in Workers \ {w} : pc'[v] = pc[v] /\ tx'[v] = tx[v]
    BY <1>4 DEF Goto, StoreSound, HandlersKnow
  <2> QED
    BY <1>2, <1>4, <2>1, RowsKept
<1>5. ASSUME NEW w \in Workers,
             (GenerateSaleNumber(w) /\ ~Abort(w)) \/ (InsertSale(w) /\ ~Abort(w)) \/ FindBatches(w)
      PROVE  RowsSound'
  <2>1. PICK l, t : l \in {"insertSale", "findBatches", "takeBatch"} /\ Goto(w, l, t)
    BY <1>5 DEF GenerateSaleNumber, InsertSale, FindBatches
  <2>2. UNCHANGED batch
    BY <1>5 DEF GenerateSaleNumber, InsertSale, FindBatches, tables
  <2> QED
    BY <1>4, <2>1, <2>2 DEF Saves
<1>6. ASSUME NEW w \in Workers, TakeBatch(w) PROVE RowsSound'
  <2>1. PICK t, p : t = tx[w] /\ p = ProductOf(t)
    OBVIOUS
  <2>2. pc[w] = "takeBatch" /\ UNCHANGED batch
    BY <1>6 DEF TakeBatch
  <2>3. PICK k, b, d :
           /\ k \in Slots
           /\ IsOldest(k, t.list) /\ b = <<p, k>> /\ d = Smaller(t.list[k].qty, t.left)
           /\ Save(w, "batch", b, Deducted(t.list[k], d), "takeBatch", Took(t, k, b, d))
    BY <1>6, <2>1 DEF TakeBatch, ProductOf
  <2>4. At("takeBatch", t) = "takeBatch" /\ LocalsTyped(t) /\ ListFresh(w, "takeBatch", t)
    BY <2>1, <2>2, OwnStatement DEF Saves, Books
  <2>5. p \in Products
    BY <2>1, <2>2, <2>4, ProductTyped DEF Selling, BatchSection
  <2>6. b \in BatchIds /\ k \in DOMAIN t.list /\ t.list[k] \in BatchRow
    BY <2>3, <2>4, <2>5 DEF BatchIds, IsOldest, LocalsTyped
  <2>7. Emptied(t.list[k])
    <3>1. t.list[k] = Seen(batch[b], w)
      BY <2>1, <2>3, <2>4, <2>6 DEF ListFresh
    <3>2. Emptied(Seen(batch[b], w))
      BY <1>2, <2>6, TablesAssumption DEF Seen
    <3> QED
      BY <3>1, <3>2
  <2>8. PICK ent, v, u : /\ ent = Deducted(t.list[k], d) /\ v = Took(t, k, b, d)
                         /\ u = Saving("batch", b, ent, "takeBatch", v)
    OBVIOUS
  <2>9. Emptied(ent)
    BY <2>3, <2>4, <2>6, <2>7, <2>8, DeductedEmptied DEF LocalsTyped
  <2>10. DOMAIN v = LocalNames
    BY <2>4, <2>8 DEF Took, LocalsTyped, LocalNames
  <2>11. u.ent = ent
    BY <2>8, <2>10 DEF Saving, LocalNames
  <2>12. Goto(w, "select", u)
    BY <2>3, <2>8 DEF Save
  <2> QED
    BY <1>4, <2>2, <2>9, <2>11, <2>12
<1>7. ASSUME NEW w \in Workers, SaveUpdate(w), tx[w].tbl = "batch" PROVE RowsSound'
  <2>1. PICK t, l, u : t = tx[w] /\ l = t.then /\ u = Saved(t)
    OBVIOUS
  <2>2. pc[w] = "update" /\ Goto(w, l, u) /\ "update" \in Saves
    BY <1>7, <2>1 DEF SaveUpdate, Saves
  <2>3. SaveTyped(t) /\ Books(w, "update", t) /\ t.key \in BatchIds /\ l \notin Saves
    BY <1>7, <2>1, <2>2, WhileSaving
  <2>4. PICK key : key = t.key
    OBVIOUS
  <2>5. Patched(Seen(batch[key], w), t.ent, t.cols) = t.ent
    BY <1>7, <2>1, <2>2, <2>3, <2>4 DEF Books, SaveFresh
  <2>6. batch' = [batch EXCEPT ![key] = Written(@, w, t.ent)]
    BY <1>7, <2>1, <2>4, <2>5 DEF SaveUpdate, Updated
  <2>7. /\ batch'[key].cur = batch[key].cur /\ batch'[key].new = t.ent
        /\ \A b \in BatchIds \ {key} : batch'[b] = batch[b]
    BY <2>3, <2>4, <2>6 DEF Written, StoreSound, TypeOK, Versions
  <2>8. Emptied(t.ent)
    BY <1>7, <2>1, <2>2 DEF RowsSound, OnlyActiveHold
  <2>9. /\ pc'[w] = l /\ \A v \in Workers \ {w} : pc'[v] = pc[v] /\ tx'[v] = tx[v]
    BY <2>2 DEF Goto, StoreSound, HandlersKnow
  <2>10. ASSUME NEW b \in BatchIds
         PROVE  /\ Emptied(batch'[b].cur) /\ (batch'[b].xid # NoTx => Emptied(batch'[b].new))
                /\ batch[b].cur.made => batch'[b].cur.made
    BY <1>2, <2>3, <2>4, <2>7, <2>8
  <2> QED
    BY <2>3, <2>9, <2>10, RowsKept
<1>8. ASSUME NEW w \in Workers, StockIn(w) PROVE RowsSound'
  <2>1. PICK t, q, d : t = tx[w] /\ q = t.req.product /\ d = t.req.qty
    OBVIOUS
  <2>2. pc[w] = "stockIn"
    BY <1>8 DEF StockIn
  <2>3. /\ LocalsTyped(t) /\ t.req \in StockForm
    BY <2>1, <2>2, OwnStatement DEF Saves, Knows, Adjusting
  <2>4. PICK k, row, ent :
           /\ k \in Slots
           /\ row = [qty |-> d, active |-> TRUE, made |-> TRUE]
           /\ batch' = [batch EXCEPT ![<<q, k>>] = Written(@, w, row)]
           /\ Save(w, "product", q, ent, "commit", [t EXCEPT !.moves[<<q, k>>] = d])
    BY <1>8, <2>1 DEF StockIn
  <2>5. <<q, k>> \in BatchIds
    BY <2>1, <2>3, <2>4 DEF StockForm, BatchIds
  <2>6. PICK b, u : b = <<q, k>> /\ u = Saving("product", q, ent, "commit", [t EXCEPT !.moves[b] = d])
    OBVIOUS
  <2>7. u.tbl = "product" /\ Goto(w, "select", u)
    BY <2>3, <2>4, <2>6 DEF Saving, Save, LocalsTyped, LocalNames
  <2>8. /\ batch'[b].cur = batch[b].cur /\ batch'[b].new = row
        /\ \A c \in BatchIds \ {b} : batch'[c] = batch[c]
    BY <2>4, <2>5, <2>6 DEF Written, StoreSound, TypeOK, Versions
  <2>9. /\ pc'[w] = "select" /\ tx'[w] = u
        /\ \A v \in Workers \ {w} : pc'[v] = pc[v] /\ tx'[v] = tx[v]
    BY <2>7 DEF Goto, StoreSound, HandlersKnow
  <2>10. Emptied(row)
    BY <2>4 DEF Emptied
  <2>11. ASSUME NEW c \in BatchIds
         PROVE  /\ Emptied(batch'[c].cur) /\ (batch'[c].xid # NoTx => Emptied(batch'[c].new))
                /\ batch[c].cur.made => batch'[c].cur.made
    BY <1>2, <2>5, <2>6, <2>8, <2>10
  <2> QED
    BY <2>7, <2>9, <2>11, RowsKept
<1> QED
  BY <1>1, <1>3, <1>5, <1>6, <1>7, <1>8, RowsKeptAtEnd, Kinds

-----------------------------------------------------------------------------
(* Sums over the batches of a product                                      *)

LEMMA BatchesFinite == ASSUME NEW p PROVE IsFiniteSet(BatchesOf(p))
<1>1. IsFiniteSet(Slots)
  BY TablesAssumption, FS_Interval DEF Slots
<1>2. IsFiniteSet({p} \X Slots)
  BY <1>1, FS_Singleton, FS_Product
<1>3. BatchesOf(p) \subseteq {p} \X Slots
  BY DEF BatchesOf, BatchIds
<1> QED
  BY <1>2, <1>3, FS_Subset

\* The units of p in its active batches.
LEMMA OnHandIs ==
    ASSUME NEW p, NEW S, S = {b \in BatchesOf(p) : batch[b].cur.active}, NEW f, f = [b \in S |-> batch[b].cur.qty]
    PROVE  OnHand(p) = SumOf(f, S) /\ IsFiniteSet(S)
<1> DEFINE P(it) == it = [s \in SUBSET S |-> IF s = {} THEN 0
                                              ELSE batch[Next1(s)].cur.qty + it[s \ {Next1(s)}]]
<1>1. IsFiniteSet(S)
  BY BatchesFinite, FS_Subset
<1>2. ASSUME NEW it PROVE P(it) <=> Sums(f, S, it)
  <2>1. \A s \in SUBSET S : s # {} => f[Next1(s)] = batch[Next1(s)].cur.qty
    BY Next1In
  <2> QED
    BY <2>1 DEF Sums
<1>3. PICK jt : Sums(f, S, jt)
  BY <1>1, SumsExist
<1>4. P(CHOOSE it : P(it))
  BY <1>2, <1>3
<1>5. OnHand(p) = (CHOOSE it : P(it))[S]
  BY DEF OnHand, MapThenSumSet, MapThenFoldSet, Next1
<1> HIDE DEF P
<1> QED
  BY <1>1, <1>2, <1>4, <1>5, TotalIs

\* The movements of p.
LEMMA MovedIs ==
    ASSUME NEW p, NEW S, S = BatchesOf(p), NEW f, f = [b \in S |-> moved[b]]
    PROVE  MapThenSumSet(LAMBDA b : moved[b], BatchesOf(p)) = SumOf(f, S)
<1> DEFINE P(it) == it = [s \in SUBSET S |-> IF s = {} THEN 0
                                              ELSE moved[Next1(s)] + it[s \ {Next1(s)}]]
<1>1. IsFiniteSet(S)
  BY BatchesFinite
<1>2. ASSUME NEW it PROVE P(it) <=> Sums(f, S, it)
  <2>1. \A s \in SUBSET S : s # {} => f[Next1(s)] = moved[Next1(s)]
    BY Next1In
  <2> QED
    BY <2>1 DEF Sums
<1>3. PICK jt : Sums(f, S, jt)
  BY <1>1, SumsExist
<1>4. P(CHOOSE it : P(it))
  BY <1>2, <1>3
<1>5. MapThenSumSet(LAMBDA b : moved[b], BatchesOf(p)) = (CHOOSE it : P(it))[S]
  BY DEF MapThenSumSet, MapThenFoldSet, Next1
<1> HIDE DEF P
<1> QED
  BY <1>1, <1>2, <1>4, <1>5, TotalIs

\* When every batch agrees with its movements and only active ones hold something,
\* the movements of a product add up to what a sale can take.
LEMMA MovementsAddUp == StoreSound /\ LedgerSound /\ RowsSound => ProductLedger
<1> SUFFICES ASSUME StoreSound, LedgerSound, RowsSound, NEW p \in Products
             PROVE  OnHand(p) = MapThenSumSet(LAMBDA b : moved[b], BatchesOf(p))
  BY DEF ProductLedger
<1>1. PICK S, f : S = {b \in BatchesOf(p) : batch[b].cur.active} /\ f = [b \in S |-> batch[b].cur.qty]
  OBVIOUS
<1>2. PICK R, g : R = BatchesOf(p) /\ g = [b \in R |-> moved[b]]
  OBVIOUS
<1>3. OnHand(p) = SumOf(f, S) /\ IsFiniteSet(S)
  BY <1>1, OnHandIs
<1>4. MapThenSumSet(LAMBDA b : moved[b], BatchesOf(p)) = SumOf(g, R)
  BY <1>2, MovedIs
<1>5. R \subseteq BatchIds /\ S \subseteq R /\ IsFiniteSet(R)
  BY <1>1, <1>2, BatchesFinite DEF BatchesOf
<1>6. \A b \in S : f[b] = g[b]
  BY <1>1, <1>2, <1>5 DEF LedgerSound, BatchLedger
<1>7. \A b \in R : g[b] \in Int
  BY <1>2, <1>5 DEF StoreSound, TypeOK
<1>8. \A b \in R \ S : g[b] = 0
  <2>1. SUFFICES ASSUME NEW b \in R \ S PROVE moved[b] = 0
    BY <1>2
  <2>2. b \in BatchIds /\ ~batch[b].cur.active
    BY <1>1, <1>2, <1>5
  <2> QED
    BY <2>2 DEF RowsSound, OnlyActiveHold, Emptied, LedgerSound, BatchLedger
<1>9. SumOf(f, S) = SumOf(g, S) /\ SumOf(g, R) = SumOf(g, S)
  BY <1>3, <1>5, <1>6, <1>7, <1>8, TotalSame, TotalOver
<1> QED
  BY <1>3, <1>4, <1>9

LEMMA InitRows == Init => RowsSound
<1> SUFFICES ASSUME Init PROVE RowsSound
  OBVIOUS
<1>1. \A b \in BatchIds : batch[b].cur = OpeningBatch(b) /\ batch[b].xid = NoTx
  BY DEF Init, Stored
<1>2. \A b \in BatchIds : Emptied(OpeningBatch(b))
  BY DEF OpeningBatch, NoBatch, Emptied
<1>3. \A w \in Workers : pc[w] \notin Saves
  BY DEF Init, Saves
<1> QED
  BY <1>1, <1>2, <1>3 DEF RowsSound, OnlyActiveHold, StartsMade

\* The movements booked on a product add up to what its active batches hold.
THEOREM ProductsBooked ==
    ASSUME OnlyTillsAndDeliveries PROVE Spec => []ProductLedger
<1>1. Init => StoreSound /\ LedgerSound /\ RowsSound
  BY InitSound, InitLedger, InitRows
<1>2. StoreSound /\ LedgerSound /\ RowsSound /\ [Next]_vars => StoreSound' /\ LedgerSound' /\ RowsSound'
  BY NextKeepsStore, NextKeepsLedger, NextKeepsRows
<1> QED
  BY <1>1, <1>2, MovementsAddUp, PTL DEF Spec

-----------------------------------------------------------------------------
(* Oldest first                                                            *)

LEMMA BookedTyped ==
    ASSUME StoreSound, LedgerSound, NEW w \in Workers, NEW b \in BatchIds
    PROVE  Booked(w, b) \in Nat
<1>1. PICK l, t : l = pc[w] /\ t = tx[w]
  OBVIOUS
<1>2. moved[b] + t.moves[b] = IF SavesBatch(l, t, b) THEN t.ent.qty ELSE Seen(batch[b], w).qty
  BY <1>1 DEF LedgerSound, Books, Tally
<1>3. Seen(batch[b], w) \in BatchRow
  BY SeenTyped DEF StoreSound, TypeOK
<1>4. SavesBatch(l, t, b) => t.ent \in BatchRow
  BY <1>1, WhileSaving DEF SavesBatch
<1> QED
  BY <1>1, <1>2, <1>3, <1>4 DEF Booked, BatchRow

\* The batches before one that was there at the start were there too.
LEMMA OpeningBefore ==
    ASSUME NEW p \in Products, NEW j \in Slots, NEW k \in Slots, j < k, OpeningBatch(<<p, k>>).made
    PROVE  OpeningBatch(<<p, j>>).made
<1>1. k \in DOMAIN Opening[p] /\ Opening[p] \in Seq(Nat \ {0})
  BY TablesAssumption DEF OpeningBatch, NoBatch
<1>2. j \in DOMAIN Opening[p]
  BY <1>1 DEF Slots
<1> QED
  BY <1>2 DEF OpeningBatch

\* A batch below what it had at the start was there at the start.
LEMMA TakenWasThere ==
    ASSUME NEW b \in BatchIds, NEW n \in Nat, n < OpeningBatch(b).qty
    PROVE  OpeningBatch(b).made
  BY DEF OpeningBatch, NoBatch

\* Who does not hold the number of the day has taken nothing from those batches.
LEMMA NotHolding ==
    ASSUME StoreSound, LedgerSound, RowsSound, NEW w \in Workers, ~Holds(w),
           NEW b \in BatchIds, OpeningBatch(b).made
    PROVE  tx[w].moves[b] = 0
<1>1. batch[b].xid # w
  BY TablesAssumption DEF LedgerSound, BatchOwned, RowsSound, StartsMade
<1>2. ~(pc[w] \in Saves /\ tx[w].tbl = "batch")
  <2>1. SUFFICES ASSUME pc[w] \in Saves, tx[w].tbl = "batch" PROVE FALSE
    OBVIOUS
  <2>2. PICK l, t : l = pc[w] /\ t = tx[w]
    OBVIOUS
  <2>3. At(l, t) = "takeBatch"
    BY <2>1, <2>2, WhileSaving
  <2> QED
    BY <2>2, <2>3, AtBatchesHolds DEF BatchSection
<1> QED
  BY <1>1, <1>2, NothingBooked

\* What v will have booked after a step is what u would have booked before it.
LEMMA FifoCarries ==
    ASSUME StoreSound, LedgerSound, StoreSound', LedgerSound', NEW u \in Workers, NEW v \in Workers, TakesOldest(u),
           \A b \in BatchIds : OpeningBatch(b).made => Booked(v, b)' = Booked(u, b)
    PROVE  TakesOldest(v)'
<1>1. SUFFICES ASSUME NEW p \in Products, NEW j \in Slots, NEW k \in Slots, j < k,
                      Booked(v, <<p, k>>)' < OpeningBatch(<<p, k>>).qty
               PROVE  Booked(v, <<p, j>>)' = 0
  BY DEF TakesOldest, Slots, OpeningBatch
<1>2. <<p, j>> \in BatchIds /\ <<p, k>> \in BatchIds
  BY DEF BatchIds
<1>3. Booked(v, <<p, k>>)' \in Nat
  <2>1. PICK b : b = <<p, k>>
    OBVIOUS
  <2>2. b \in BatchIds
    BY <1>2, <2>1
  <2>3. Booked(v, b)' \in Nat
    <3>1. PICK l, t : l = pc'[v] /\ t = tx'[v]
      OBVIOUS
    <3>2. moved'[b] + t.moves[b] = IF SavesBatch(l, t, b) THEN t.ent.qty ELSE Seen(batch'[b], v).qty
      BY <2>2, <3>1 DEF LedgerSound, Books, Tally, SavesBatch, Seen, Saves
    <3>3. Seen(batch'[b], v) \in BatchRow
      BY <2>2, SeenTyped DEF StoreSound, TypeOK
    <3>4. SavesBatch(l, t, b) => t.ent \in BatchRow
      BY <3>1 DEF StoreSound, HandlersKnow, Knows, SaveTyped, SavesBatch, Saves
    <3> QED
      BY <3>1, <3>2, <3>3, <3>4 DEF Booked, BatchRow
  <2> QED
    BY <2>1, <2>3
<1>4. OpeningBatch(<<p, k>>).made /\ OpeningBatch(<<p, j>>).made
  BY <1>1, <1>2, <1>3, TakenWasThere, OpeningBefore
<1>5. Booked(v, <<p, k>>)' = Booked(u, <<p, k>>) /\ Booked(v, <<p, j>>)' = Booked(u, <<p, j>>)
  BY <1>2, <1>4
<1>6. Booked(u, <<p, j>>) = 0
  BY <1>1, <1>5 DEF TakesOldest
<1> QED
  BY <1>5, <1>6

\* The search of v goes on with the list it had.
LEMMA UsedUpCarries ==
    ASSUME NEW v \in Workers, UsedUp(v),
           At(pc'[v], tx'[v]) = "takeBatch" /\ tx'[v].left > 0 =>
              /\ At(pc[v], tx[v]) = "takeBatch" /\ tx'[v].left = tx[v].left
              /\ tx'[v].list = tx[v].list /\ ProductOf(tx'[v]) = ProductOf(tx[v])
              /\ ProductOf(tx[v]) \in Products
              /\ \A b \in BatchIds : OpeningBatch(b).made => Booked(v, b)' = Booked(v, b)
    PROVE  UsedUp(v)'
<1>1. PICK l, t, u : l = pc'[v] /\ t = tx'[v] /\ u = tx[v]
  OBVIOUS
<1>2. SUFFICES ASSUME At(l, t) = "takeBatch", t.left > 0, NEW k \in Slots \ DOMAIN t.list,
                      NEW b, b = <<ProductOf(t), k>>, OpeningBatch(b).made
               PROVE  Booked(v, b)' = 0
  BY <1>1 DEF UsedUp, At, ProductOf, OpeningBatch, Slots
<1>3. /\ At(pc[v], u) = "takeBatch" /\ u.left > 0 /\ t.list = u.list /\ b = <<ProductOf(u), k>>
      /\ ProductOf(u) \in Products
  BY <1>1, <1>2
<1>4. Booked(v, b) = 0
  BY <1>1, <1>2, <1>3 DEF UsedUp
<1>5. b \in BatchIds
  BY <1>3 DEF BatchIds
<1> QED
  BY <1>1, <1>2, <1>3, <1>4, <1>5

\* The invariant holds after a step of w that books nothing, when w keeps its part.
LEMMA FifoKept ==
    ASSUME StoreSound, LedgerSound, StoreSound', LedgerSound', FifoSound, NEW w \in Workers, UNCHANGED moved,
           \A v \in Workers \ {w} : pc'[v] = pc[v] /\ tx'[v] = tx[v],
           TakesOldest(w)', UsedUp(w)'
    PROVE  FifoSound'
<1>1. ASSUME NEW v \in Workers PROVE TakesOldest(v)' /\ UsedUp(v)'
  <2>1. CASE v = w
    BY <2>1
  <2>2. CASE v # w
    <3>1. pc'[v] = pc[v] /\ tx'[v] = tx[v] /\ TakesOldest(v) /\ UsedUp(v)
      BY <2>2 DEF FifoSound
    <3>2. \A b \in BatchIds : Booked(v, b)' = Booked(v, b)
      BY <3>1 DEF Booked
    <3>3. At(pc[v], tx[v]) = "takeBatch" => ProductOf(tx[v]) \in Products
      BY ProductTyped DEF Selling, BatchSection
    <3>4. TakesOldest(v)'
      BY <3>1, <3>2, FifoCarries
    <3>5. UsedUp(v)'
      BY <3>1, <3>2, <3>3, UsedUpCarries
    <3> QED
      BY <3>4, <3>5
  <2> QED
    BY <2>1, <2>2
<1>2. OldestFirst'
  <2>1. \A b \in BatchIds : batch'[b].cur.qty = batch[b].cur.qty
    BY DEF LedgerSound, BatchLedger
  <2>2. SUFFICES ASSUME NEW p \in Products, NEW j \in Slots, NEW k \in Slots, j < k,
                        batch'[<<p, k>>].cur.qty < OpeningBatch(<<p, k>>).qty
                 PROVE  batch'[<<p, j>>].cur.qty = 0
    BY DEF OldestFirst, OpeningBatch, Slots
  <2>3. <<p, j>> \in BatchIds /\ <<p, k>> \in BatchIds
    BY DEF BatchIds
  <2>4. batch[<<p, k>>].cur.qty < OpeningBatch(<<p, k>>).qty
    BY <2>1, <2>2, <2>3
  <2>5. batch[<<p, j>>].cur.qty = 0
    BY <2>2, <2>4 DEF FifoSound, OldestFirst
  <2> QED
    BY <2>1, <2>3, <2>5
<1> QED
  BY <1>1, <1>2 DEF FifoSound

\* A step after which w still has taken what it had, and does not search further.
LEMMA FifoAside ==
    ASSUME StoreSound, LedgerSound, StoreSound', LedgerSound', FifoSound, NEW w \in Workers, UNCHANGED moved,
           \A v \in Workers \ {w} : pc'[v] = pc[v] /\ tx'[v] = tx[v], tx'[w].moves = tx[w].moves,
           At(pc'[w], tx'[w]) = "takeBatch" /\ tx'[w].left > 0 =>
              /\ At(pc[w], tx[w]) = "takeBatch" /\ tx'[w].left = tx[w].left
              /\ tx'[w].list = tx[w].list /\ ProductOf(tx'[w]) = ProductOf(tx[w])
    PROVE  FifoSound'
<1>1. \A b \in BatchIds : Booked(w, b)' = Booked(w, b)
  BY DEF Booked
<1>2. TakesOldest(w) /\ UsedUp(w)
  BY DEF FifoSound
<1>3. At(pc[w], tx[w]) = "takeBatch" => ProductOf(tx[w]) \in Products
  BY ProductTyped DEF Selling, BatchSection
<1>4. TakesOldest(w)'
  BY <1>1, <1>2, FifoCarries
<1>5. UsedUp(w)'
  BY <1>1, <1>2, <1>3, UsedUpCarries
<1> QED
  BY <1>4, <1>5, FifoKept

\* What the search does not find is empty.
LEMMA FindBatchesKeepsFifo ==
    ASSUME StoreSound, LedgerSound, RowsSound, StoreSound', LedgerSound', FifoSound,
           NEW w \in Workers, FindBatches(w)
    PROVE  FifoSound'
<1>1. PICK t, p : t = tx[w] /\ p = ProductOf(t)
  OBVIOUS
<1>2. PICK u : u = [t EXCEPT !.list = OpenBatches(p, w), !.left = t.req.items[t.i].qty]
  OBVIOUS
<1>3. /\ pc[w] = "findBatches" /\ Goto(w, "takeBatch", u) /\ UNCHANGED <<batch, moved, num>>
  BY <1>1, <1>2 DEF FindBatches, ProductOf, tables
<1>4. /\ At("findBatches", t) = "findBatches" /\ LocalsTyped(t)
      /\ \A b \in BatchIds : moved[b] + t.moves[b] = Seen(batch[b], w).qty
  BY <1>1, <1>3, OwnStatement DEF Saves
<1>5. u.moves = t.moves /\ u.list = OpenBatches(p, w) /\ ProductOf(u) = p
  BY <1>1, <1>2, <1>4 DEF LocalsTyped, LocalNames, ProductOf
<1>6. /\ pc'[w] = "takeBatch" /\ tx'[w] = u
      /\ \A v \in Workers \ {w} : pc'[v] = pc[v] /\ tx'[v] = tx[v]
  BY <1>3 DEF Goto, StoreSound, HandlersKnow
<1>7. p \in Products
  BY <1>1, <1>3, <1>4, ProductTyped DEF Selling, BatchSection
<1>8. \A b \in BatchIds : Booked(w, b)' = Seen(batch[b], w).qty /\ Booked(w, b)' = Booked(w, b)
  BY <1>1, <1>3, <1>4, <1>5, <1>6 DEF Booked
<1>9. ASSUME NEW k \in Slots \ DOMAIN u.list, NEW b, b = <<p, k>> PROVE Booked(w, b)' = 0
  <2>1. b \in BatchIds
    BY <1>7, <1>9 DEF BatchIds
  <2>2. ~(Seen(batch[b], w).active /\ Seen(batch[b], w).qty > 0)
    BY <1>5, <1>9 DEF OpenBatches
  <2>3. Emptied(Seen(batch[b], w))
    BY <2>1, TablesAssumption DEF RowsSound, OnlyActiveHold, Seen
  <2>4. Seen(batch[b], w).qty \in Nat
    <3>1. batch[b] \in Versions(BatchRow, Workers)
      BY <2>1 DEF StoreSound, TypeOK
    <3>2. Seen(batch[b], w) \in BatchRow
      BY <3>1, SeenTyped
    <3> QED
      BY <3>2 DEF BatchRow
  <2>5. Seen(batch[b], w).qty = 0
    BY <2>2, <2>3, <2>4 DEF Emptied
  <2> QED
    BY <1>8, <2>1, <2>5
<1>10. UsedUp(w)'
  BY <1>5, <1>6, <1>9 DEF UsedUp, ProductOf, Slots
<1>11. TakesOldest(w)'
  BY <1>8, FifoCarries DEF FifoSound
<1> QED
  BY <1>3, <1>6, <1>10, <1>11, FifoKept

\* A round takes from the oldest batch that has any, and all of it if that is not enough.
LEMMA TakeBatchKeepsFifo ==
    ASSUME StoreSound, LedgerSound, StoreSound', LedgerSound', FifoSound, NEW w \in Workers, TakeBatch(w)
    PROVE  FifoSound'
<1>1. PICK t, p : t = tx[w] /\ p = ProductOf(t)
  OBVIOUS
<1>2. pc[w] = "takeBatch" /\ t.left > 0 /\ UNCHANGED <<batch, moved, num>>
  BY <1>1 DEF TakeBatch
<1>3. PICK k, b, d :
         /\ k \in Slots
         /\ IsOldest(k, t.list) /\ b = <<p, k>> /\ d = Smaller(t.list[k].qty, t.left)
         /\ Save(w, "batch", b, Deducted(t.list[k], d), "takeBatch", Took(t, k, b, d))
  BY <1>1 DEF TakeBatch, ProductOf
<1>4. PICK ent, v, u : /\ ent = Deducted(t.list[k], d) /\ v = Took(t, k, b, d)
                       /\ u = Saving("batch", b, ent, "takeBatch", v)
  OBVIOUS
<1>5. Goto(w, "select", u)
  BY <1>3, <1>4 DEF Save
<1>6. /\ At("takeBatch", t) = "takeBatch" /\ LocalsTyped(t) /\ ListFresh(w, "takeBatch", t)
      /\ \A c \in BatchIds : moved[c] + t.moves[c] = Seen(batch[c], w).qty
  BY <1>1, <1>2, OwnStatement DEF Saves, Books
<1>7. p \in Products
  BY <1>1, <1>2, <1>6, ProductTyped DEF Selling, BatchSection
<1>8. b \in BatchIds /\ k \in DOMAIN t.list /\ t.list[k] \in BatchRow
  BY <1>3, <1>6, <1>7 DEF BatchIds, IsOldest, LocalsTyped
<1>9. t.list[k] = Seen(batch[b], w)
  BY <1>1, <1>3, <1>6, <1>8 DEF ListFresh
<1>10. PICK q : q = t.list[k].qty
  OBVIOUS
<1>11. Booked(w, b) = q /\ q \in Nat /\ t.left \in Nat
  BY <1>1, <1>6, <1>8, <1>9, <1>10 DEF Booked, BatchRow, LocalsTyped
<1>12. d \in Nat /\ d <= q /\ d <= t.left /\ (d = q \/ d = t.left)
  BY <1>3, <1>10, <1>11 DEF Smaller
<1>13. /\ v.list = Without(t.list, k) /\ v.moves = [t.moves EXCEPT ![b] = @ - d] /\ v.left = t.left - d
       /\ v.req = t.req /\ v.i = t.i /\ DOMAIN v = LocalNames
  BY <1>4, <1>6 DEF Took, LocalsTyped, LocalNames
<1>14. u.list = v.list /\ u.moves = v.moves /\ u.left = v.left /\ u.then = "takeBatch" /\ ProductOf(u) = p
  BY <1>1, <1>4, <1>13 DEF Saving, LocalNames, ProductOf
<1>15. /\ pc'[w] = "select" /\ tx'[w] = u
       /\ \A x \in Workers \ {w} : pc'[x] = pc[x] /\ tx'[x] = tx[x]
  BY <1>5 DEF Goto, StoreSound, HandlersKnow
<1>16. Booked(w, b)' = q - d /\ \A c \in BatchIds \ {b} : Booked(w, c)' = Booked(w, c)
  <2>1. t.moves \in [BatchIds -> Int] /\ moved[b] \in Int
    BY <1>6, <1>8 DEF LocalsTyped, StoreSound, TypeOK
  <2>2. u.moves[b] = t.moves[b] - d /\ \A c \in BatchIds \ {b} : u.moves[c] = t.moves[c]
    BY <1>8, <1>13, <1>14, <2>1
  <2>3. moved[b] + u.moves[b] = q - d
    BY <1>1, <1>8, <1>11, <1>12, <2>1, <2>2 DEF Booked
  <2>4. \A c \in BatchIds \ {b} : moved[c] + u.moves[c] = Booked(w, c)
    BY <1>1, <2>2 DEF Booked
  <2> QED
    BY <1>2, <1>15, <2>3, <2>4 DEF Booked
<1>17. TakesOldest(w)'
  <2>1. SUFFICES ASSUME NEW o \in Products, NEW j \in Slots, NEW m \in Slots, j < m,
                        Booked(w, <<o, m>>)' < OpeningBatch(<<o, m>>).qty
                 PROVE  Booked(w, <<o, j>>)' = 0
    BY DEF TakesOldest, Slots, OpeningBatch
  <2>2. PICK x, y : x = <<o, j>> /\ y = <<o, m>>
    OBVIOUS
  <2>3. x \in BatchIds /\ y \in BatchIds /\ x # y
    <3>1. x \in BatchIds /\ y \in BatchIds
      BY <2>2 DEF BatchIds
    <3>2. j # m
      BY <2>1 DEF Slots
    <3> QED
      BY <2>2, <3>1, <3>2
  <2>4. \A c \in BatchIds : Booked(w, c) \in Nat
    BY BookedTyped
  <2>5. OpeningBatch(y).made /\ OpeningBatch(x).made
    <3>1. Booked(w, y)' \in Nat
      BY <1>11, <1>12, <1>16, <2>3, <2>4
    <3> QED
      BY <2>1, <2>2, <2>3, <3>1, TakenWasThere, OpeningBefore
  <2>6. CASE y = b
    <3>1. o = p /\ m = k /\ x = <<p, j>>
      BY <1>3, <2>2, <2>6
    <3>2. j \in Slots \ DOMAIN t.list
      BY <1>3, <2>1, <3>1 DEF IsOldest, Slots
    <3>3. UsedUp(w) /\ At(pc[w], tx[w]) = "takeBatch" /\ tx[w].left > 0
      BY <1>1, <1>2, <1>6 DEF FifoSound
    <3>4. Booked(w, x) = 0
      BY <1>1, <2>5, <3>1, <3>2, <3>3 DEF UsedUp
    <3> QED
      BY <1>16, <2>2, <2>3, <2>6, <3>4
  <2>7. CASE y # b
    <3>1. Booked(w, y) < OpeningBatch(y).qty
      BY <1>16, <2>1, <2>2, <2>3, <2>7
    <3>2. Booked(w, x) = 0
      BY <2>1, <2>2, <3>1 DEF FifoSound, TakesOldest
    <3>3. CASE x = b
      BY <1>11, <1>12, <1>16, <2>2, <3>2, <3>3
    <3>4. CASE x # b
      BY <1>16, <2>2, <2>3, <3>2, <3>4
    <3> QED
      BY <3>3, <3>4
  <2> QED
    BY <2>6, <2>7
<1>18. UsedUp(w)'
  <2>1. SUFFICES ASSUME u.left > 0, NEW j \in Slots \ DOMAIN u.list, NEW c, c = <<p, j>>, OpeningBatch(c).made
                 PROVE  Booked(w, c)' = 0
    BY <1>14, <1>15 DEF UsedUp, ProductOf, Slots, OpeningBatch
  <2>2. c \in BatchIds
    BY <1>7, <2>1 DEF BatchIds
  <2>3. CASE j = k
    <3>1. d = q
      BY <1>11, <1>12, <1>13, <1>14, <2>1
    <3> QED
      BY <1>3, <1>11, <1>16, <2>1, <2>3, <3>1
  <2>4. CASE j # k
    <3>1. j \in Slots \ DOMAIN t.list /\ c # b
      BY <1>3, <1>13, <1>14, <2>1, <2>4 DEF Without
    <3>2. UsedUp(w) /\ At(pc[w], tx[w]) = "takeBatch" /\ tx[w].left > 0
      BY <1>1, <1>2, <1>6 DEF FifoSound
    <3>3. Booked(w, c) = 0
      BY <1>1, <2>1, <3>1, <3>2 DEF UsedUp
    <3> QED
      BY <1>16, <2>2, <3>1, <3>3
  <2> QED
    BY <2>3, <2>4
<1> QED
  BY <1>2, <1>15, <1>17, <1>18, FifoKept

\* A delivery comes after all the batches of the start.
LEMMA StockInKeepsFifo ==
    ASSUME StoreSound, LedgerSound, RowsSound, StoreSound', LedgerSound', FifoSound, NEW w \in Workers, StockIn(w)
    PROVE  FifoSound'
<1>1. PICK t, q, d : t = tx[w] /\ q = t.req.product /\ d = t.req.qty
  OBVIOUS
<1>2. pc[w] = "stockIn" /\ UNCHANGED <<moved, num>>
  BY DEF StockIn
<1>3. LocalsTyped(t) /\ t.req \in StockForm
  BY <1>1, <1>2, OwnStatement DEF Saves, Knows, Adjusting
<1>4. q \in Products
  BY <1>1, <1>3 DEF StockForm
<1>5. PICK k, ent :
         k \in Slots /\ Unmade(<<q, k>>) /\ Save(w, "product", q, ent, "commit", [t EXCEPT !.moves[<<q, k>>] = d])
  BY <1>1 DEF StockIn
<1>6. PICK b, v, u : b = <<q, k>> /\ v = [t EXCEPT !.moves[b] = d] /\ u = Saving("product", q, ent, "commit", v)
  OBVIOUS
<1>7. b \in BatchIds /\ ~OpeningBatch(b).made
  BY <1>4, <1>5, <1>6 DEF BatchIds, Unmade, RowsSound, StartsMade
<1>8. v.moves = [t.moves EXCEPT ![b] = d] /\ DOMAIN v = LocalNames
  BY <1>3, <1>6 DEF LocalsTyped, LocalNames
<1>9. u.moves = v.moves /\ u.then = "commit" /\ Goto(w, "select", u)
  BY <1>5, <1>6, <1>8 DEF Saving, Save, LocalNames
<1>10. /\ pc'[w] = "select" /\ tx'[w] = u
       /\ \A x \in Workers \ {w} : pc'[x] = pc[x] /\ tx'[x] = tx[x]
  BY <1>9 DEF Goto, StoreSound, HandlersKnow
<1>11. ASSUME NEW c \in BatchIds, OpeningBatch(c).made PROVE Booked(w, c)' = Booked(w, c)
  <2>1. c # b
    BY <1>7, <1>11
  <2>2. u.moves[c] = t.moves[c]
    BY <1>3, <1>8, <1>9, <2>1 DEF LocalsTyped
  <2> QED
    BY <1>1, <1>2, <1>10, <2>2 DEF Booked
<1>12. TakesOldest(w)'
  BY <1>11, FifoCarries DEF FifoSound
<1>13. UsedUp(w)'
  <2>1. At("select", u) # "takeBatch"
    BY <1>9 DEF At, Saves
  <2> QED
    BY <1>10, <2>1 DEF UsedUp, At
<1> QED
  BY <1>2, <1>10, <1>12, <1>13, FifoKept

\* A commit books what one worker took; nobody else has taken anything meanwhile.
LEMMA CommitKeepsFifo ==
    ASSUME LastDay = 1, StoreSound, LedgerSound, RowsSound, StoreSound', LedgerSound', FifoSound,
           NEW w \in Workers, Commit(w)
    PROVE  FifoSound'
<1>1. pc[w] = "commit" /\ Goto(w, "idle", NoLocals)
  BY DEF Commit, Leave
<1>2. /\ pc'[w] = "idle" /\ tx'[w] = NoLocals
      /\ \A x \in Workers \ {w} : pc'[x] = pc[x] /\ tx'[x] = tx[x]
  BY <1>1 DEF Goto, StoreSound, HandlersKnow
<1>3. ASSUME NEW b \in BatchIds PROVE moved'[b] = Booked(w, b) /\ moved'[b] \in Int /\ moved[b] \in Int
  BY DEF Commit, Booked, StoreSound, TypeOK
<1>4. ASSUME NEW v \in Workers PROVE TakesOldest(v)' /\ UsedUp(v)'
  <2>1. CASE v = w
    <3>1. \A b \in BatchIds : Booked(w, b)' = Booked(w, b)
      BY <1>2, <1>3 DEF Booked, NoLocals, NoMoves
    <3>2. At("idle", NoLocals) # "takeBatch"
      BY DEF At, Saves
    <3>3. UsedUp(w)'
      BY <1>2, <3>2 DEF UsedUp, At
    <3> QED
      BY <2>1, <3>1, <3>3, FifoCarries DEF FifoSound
  <2>2. CASE v # w /\ ~Holds(v)
    <3>1. ASSUME NEW b \in BatchIds, OpeningBatch(b).made PROVE Booked(v, b)' = Booked(w, b)
      <4>1. tx[v].moves[b] = 0
        BY <2>2, <3>1, NotHolding
      <4> QED
        BY <1>2, <1>3, <2>2, <4>1 DEF Booked
    <3>2. TakesOldest(v)'
      BY <3>1, FifoCarries DEF FifoSound
    <3>3. At(pc[v], tx[v]) # "takeBatch"
      BY <2>2, AtBatchesHolds DEF BatchSection
    <3>4. UsedUp(v)'
      BY <1>2, <2>2, <3>3 DEF UsedUp, At
    <3> QED
      BY <3>2, <3>4
  <2>3. CASE v # w /\ Holds(v)
    <3>1. ~Holds(w)
      BY <2>3, OneHolder
    <3>2. ASSUME NEW b \in BatchIds, OpeningBatch(b).made PROVE Booked(v, b)' = Booked(v, b)
      <4>1. tx[w].moves[b] = 0
        BY <3>1, <3>2, NotHolding
      <4>2. moved'[b] = moved[b]
        BY <1>3, <4>1 DEF Booked
      <4> QED
        BY <1>2, <2>3, <4>2 DEF Booked
    <3>3. TakesOldest(v)'
      BY <3>2, FifoCarries DEF FifoSound
    <3>4. At(pc[v], tx[v]) = "takeBatch" => ProductOf(tx[v]) \in Products
      BY ProductTyped DEF Selling, BatchSection
    <3>5. UsedUp(v)'
      BY <1>2, <2>3, <3>2, <3>4, UsedUpCarries DEF FifoSound
    <3> QED
      BY <3>3, <3>5
  <2> QED
    BY <2>1, <2>2, <2>3
<1>5. OldestFirst'
  <2>1. SUFFICES ASSUME NEW p \in Products, NEW j \in Slots, NEW k \in Slots, j < k,
                        batch'[<<p, k>>].cur.qty < OpeningBatch(<<p, k>>).qty
                 PROVE  batch'[<<p, j>>].cur.qty = 0
    BY DEF OldestFirst, OpeningBatch, Slots
  <2>2. <<p, j>> \in BatchIds /\ <<p, k>> \in BatchIds
    BY DEF BatchIds
  <2>3. \A b \in BatchIds : batch'[b].cur.qty = Booked(w, b)
    BY <1>3 DEF LedgerSound, BatchLedger
  <2>4. Booked(w, <<p, k>>) < OpeningBatch(<<p, k>>).qty
    BY <2>1, <2>2, <2>3
  <2>5. Booked(w, <<p, j>>) = 0
    BY <2>1, <2>4 DEF FifoSound, TakesOldest
  <2> QED
    BY <2>2, <2>3, <2>5
<1> QED
  BY <1>4, <1>5 DEF FifoSound

\* After a rollback nothing is taken.
LEMMA AbortKeepsFifo ==
    ASSUME StoreSound, LedgerSound, StoreSound', LedgerSound', FifoSound, NEW w \in Workers, Abort(w)
    PROVE  FifoSound'
<1>1. Goto(w, "idle", NoLocals) /\ UNCHANGED moved
  BY DEF Abort, Leave
<1>2. /\ pc'[w] = "idle" /\ tx'[w] = NoLocals
      /\ \A x \in Workers \ {w} : pc'[x] = pc[x] /\ tx'[x] = tx[x]
  BY <1>1 DEF Goto, StoreSound, HandlersKnow
<1>3. \A b \in BatchIds : Booked(w, b)' = batch[b].cur.qty
  <2>1. SUFFICES ASSUME NEW b \in BatchIds PROVE Booked(w, b)' = batch[b].cur.qty
    OBVIOUS
  <2>2. moved[b] \in Int /\ batch[b].cur.qty = moved[b]
    BY DEF StoreSound, TypeOK, LedgerSound, BatchLedger
  <2>3. NoLocals.moves[b] = 0
    BY DEF NoLocals, NoMoves
  <2> QED
    BY <1>1, <1>2, <2>2, <2>3 DEF Booked
<1>4. TakesOldest(w)'
  <2>1. SUFFICES ASSUME NEW p \in Products, NEW j \in Slots, NEW k \in Slots, j < k,
                        Booked(w, <<p, k>>)' < OpeningBatch(<<p, k>>).qty
                 PROVE  Booked(w, <<p, j>>)' = 0
    BY DEF TakesOldest, OpeningBatch, Slots
  <2>2. <<p, j>> \in BatchIds /\ <<p, k>> \in BatchIds
    BY DEF BatchIds
  <2>3. batch[<<p, k>>].cur.qty < OpeningBatch(<<p, k>>).qty
    BY <1>3, <2>1, <2>2
  <2>4. batch[<<p, j>>].cur.qty = 0
    BY <2>1, <2>3 DEF FifoSound, OldestFirst
  <2> QED
    BY <1>3, <2>2, <2>4
<1>5. At("idle", NoLocals) # "takeBatch"
  BY DEF At, Saves
<1>6. UsedUp(w)'
  BY <1>2, <1>5 DEF UsedUp, At
<1> QED
  BY <1>1, <1>2, <1>4, <1>6, FifoKept

LEMMA NextKeepsFifo ==
    ASSUME OnlyTillsAndDeliveries, StoreSound, LedgerSound, RowsSound, StoreSound', LedgerSound', FifoSound,
           [Next]_vars
    PROVE  FifoSound'
<1>1. CASE UNCHANGED vars
  <2>1. \A w \in Workers : (TakesOldest(w)' <=> TakesOldest(w)) /\ (UsedUp(w)' <=> UsedUp(w))
    BY <1>1 DEF vars, TakesOldest, UsedUp, Booked, At, ProductOf, OpeningBatch, Slots
  <2> QED
    BY <1>1, <2>1 DEF vars, FifoSound, OldestFirst, OpeningBatch, Slots
<1>2. ASSUME NEW w \in Workers, Quiet(w) PROVE FifoSound'
  BY <1>2, FifoAside DEF Quiet
<1>3. ASSUME NEW w \in Workers, (GenerateSaleNumber(w) /\ ~Abort(w)) \/ (InsertSale(w) /\ ~Abort(w))
      PROVE  FifoSound'
  <2>1. PICK l \in {"insertSale", "findBatches"} : Goto(w, l, tx[w]) /\ UNCHANGED moved
    BY <1>3 DEF GenerateSaleNumber, InsertSale, tables
  <2>2. /\ pc'[w] = l /\ tx'[w] = tx[w]
        /\ \A x \in Workers \ {w} : pc'[x] = pc[x] /\ tx'[x] = tx[x]
    BY <2>1 DEF Goto, StoreSound, HandlersKnow
  <2>3. At(l, tx[w]) # "takeBatch"
    BY <2>1 DEF At, Saves
  <2> QED
    BY <2>1, <2>2, <2>3, FifoAside
<1>4. ASSUME NEW w \in Workers, SaveUpdate(w), tx[w].tbl = "batch" PROVE FifoSound'
  <2>1. PICK t, u : t = tx[w] /\ u = Saved(t)
    OBVIOUS
  <2>2. pc[w] = "update" /\ UNCHANGED moved /\ Goto(w, t.then, u) /\ "update" \in Saves
    BY <1>4, <2>1 DEF SaveUpdate, Saves
  <2>3. /\ At("update", t) = t.then /\ At(t.then, u) = t.then /\ LocalsTyped(t)
        /\ u.moves = t.moves /\ u.list = t.list /\ u.req = t.req /\ u.i = t.i
    BY <2>1, <2>2, WhileSaving
  <2>4. u.left = t.left /\ ProductOf(u) = ProductOf(t)
    BY <2>1, <2>3 DEF Saved, LocalsTyped, LocalNames, ProductOf
  <2>5. /\ pc'[w] = t.then /\ tx'[w] = u
        /\ \A x \in Workers \ {w} : pc'[x] = pc[x] /\ tx'[x] = tx[x]
    BY <2>2 DEF Goto, StoreSound, HandlersKnow
  <2> QED
    BY <2>1, <2>2, <2>3, <2>4, <2>5, FifoAside
<1> QED
  BY <1>1, <1>2, <1>3, <1>4, FindBatchesKeepsFifo, TakeBatchKeepsFifo, StockInKeepsFifo, CommitKeepsFifo,
     AbortKeepsFifo, Kinds DEF OnlyTillsAndDeliveries

LEMMA InitFifo == Init => FifoSound
<1> SUFFICES ASSUME Init PROVE FifoSound
  OBVIOUS
<1>1. ASSUME NEW b \in BatchIds
      PROVE  batch[b].cur.qty = OpeningBatch(b).qty /\ moved[b] = OpeningBatch(b).qty /\ OpeningBatch(b).qty \in Nat
  <2>1. OpeningBatch(b).qty \in Nat
    <3>1. b[1] \in Products
      BY DEF BatchIds
    <3>2. Opening[b[1]] \in Seq(Nat \ {0})
      BY <3>1, TablesAssumption
    <3> QED
      BY <3>2 DEF OpeningBatch, NoBatch
  <2> QED
    BY <2>1 DEF Init, Stored
<1>2. ASSUME NEW w \in Workers PROVE TakesOldest(w) /\ UsedUp(w)
  <2>1. pc[w] = "idle" /\ tx[w] = NoLocals
    BY DEF Init
  <2>2. \A b \in BatchIds : Booked(w, b) = OpeningBatch(b).qty
    BY <1>1, <2>1 DEF Booked, NoLocals, NoMoves
  <2>3. \A p \in Products, k \in Slots : <<p, k>> \in BatchIds
    BY DEF BatchIds
  <2>4. TakesOldest(w)
    <3>1. SUFFICES ASSUME NEW p \in Products, NEW k \in Slots, Booked(w, <<p, k>>) < OpeningBatch(<<p, k>>).qty
                   PROVE  FALSE
      BY DEF TakesOldest
    <3> QED
      BY <1>1, <2>2, <2>3, <3>1
  <2>5. UsedUp(w)
    BY <2>1 DEF UsedUp, At, Saves
  <2> QED
    BY <2>4, <2>5
<1>3. OldestFirst
  <2>1. SUFFICES ASSUME NEW p \in Products, NEW k \in Slots,
                        batch[<<p, k>>].cur.qty < OpeningBatch(<<p, k>>).qty
                 PROVE  FALSE
    BY DEF OldestFirst
  <2>2. <<p, k>> \in BatchIds
    BY DEF BatchIds
  <2> QED
    BY <1>1, <2>1, <2>2
<1> QED
  BY <1>2, <1>3 DEF FifoSound

\* FIFO (sales.service.ts:184-236): however checkouts and deliveries overlap on a day,
\* no batch of the start is touched while an older one of the product holds a unit.
THEOREM SoldOldestFirst ==
    ASSUME OnlyTillsAndDeliveries PROVE Spec => []OldestFirst
<1>1. Init => StoreSound /\ LedgerSound /\ RowsSound /\ FifoSound
  BY InitSound, InitLedger, InitRows, InitFifo
<1>2. StoreSound /\ LedgerSound /\ RowsSound /\ FifoSound /\ [Next]_vars
      => StoreSound' /\ LedgerSound' /\ RowsSound' /\ FifoSound'
  BY NextKeepsStore, NextKeepsLedger, NextKeepsRows, NextKeepsFifo
<1>3. FifoSound => OldestFirst
  BY DEF FifoSound
<1> QED
  BY <1>1, <1>2, <1>3, PTL DEF Spec

-----------------------------------------------------------------------------
(* Sums over the lines of a sale, and over the sales                       *)

\* f gives for each line in S what it took from b.
UnitsByLine(ls, b, S, f) == \A i \in S : f[i] = IF ls[i].batch = b THEN ls[i].qty ELSE 0

LEMMA UnitsByLineExist == ASSUME NEW ls, NEW b, NEW S PROVE \E f : UnitsByLine(ls, b, S, f)
<1> SUFFICES \E f : \A i \in S : f[i] = IF ls[i].batch = b THEN ls[i].qty ELSE 0
  BY DEF UnitsByLine
<1> WITNESS [i \in S |-> IF ls[i].batch = b THEN ls[i].qty ELSE 0]
<1> QED
  OBVIOUS

LEMMA LineUnitsIs ==
    ASSUME NEW ls \in Seq(Line), NEW b, NEW S, S = 1 .. Len(ls), NEW f, UnitsByLine(ls, b, S, f)
    PROVE  LineUnits(ls, b) = SumOf(f, S) /\ IsFiniteSet(S) /\ \A i \in S : f[i] \in Int
<1> DEFINE P(it) == it = [s \in SUBSET S |->
                            IF s = {} THEN 0
                            ELSE (IF ls[Next1(s)].batch = b THEN ls[Next1(s)].qty ELSE 0) + it[s \ {Next1(s)}]]
<1>1. S = DOMAIN ls /\ Len(ls) \in Nat /\ \A i \in S : ls[i] \in Line
  OBVIOUS
<1>2. IsFiniteSet(S)
  <2>1. 1 \in Int /\ Len(ls) \in Int
    BY <1>1
  <2> QED
    BY <2>1, FS_Interval
<1>8. \A i \in S : f[i] \in Int
  BY <1>1 DEF Line, UnitsByLine
<1>3. ASSUME NEW it PROVE P(it) <=> Sums(f, S, it)
  <2>1. \A s \in SUBSET S : s # {} => f[Next1(s)] = IF ls[Next1(s)].batch = b THEN ls[Next1(s)].qty ELSE 0
    BY Next1In DEF UnitsByLine
  <2> QED
    BY <2>1 DEF Sums
<1>4. PICK jt : Sums(f, S, jt)
  BY <1>2, SumsExist
<1>5. P(CHOOSE it : P(it))
  BY <1>3, <1>4
<1>6. LineUnits(ls, b) = (CHOOSE it : P(it))[S]
  BY <1>1 DEF LineUnits, MapThenSumSet, MapThenFoldSet, Next1
<1> HIDE DEF P
<1> QED
  BY <1>2, <1>3, <1>5, <1>6, <1>8, TotalIs

LEMMA LineUnitsTyped == ASSUME NEW ls \in Seq(Line), NEW b PROVE LineUnits(ls, b) \in Int
<1>1. PICK S : S = 1 .. Len(ls)
  OBVIOUS
<1>2. PICK f : UnitsByLine(ls, b, S, f)
  BY UnitsByLineExist
<1>3. LineUnits(ls, b) = SumOf(f, S) /\ IsFiniteSet(S) /\ \A i \in S : f[i] \in Int
  BY <1>1, <1>2, LineUnitsIs
<1> QED
  BY <1>3, TotalInt

LEMMA NoLinesNoUnits == ASSUME NEW b PROVE LineUnits(<<>>, b) = 0
<1>1. PICK ls, S : ls = <<>> /\ S = {}
  OBVIOUS
<1>2. ls \in Seq(Line) /\ S = 1 .. Len(ls)
  BY <1>1
<1>3. PICK f : UnitsByLine(ls, b, S, f)
  BY UnitsByLineExist
<1>4. LineUnits(ls, b) = SumOf(f, S)
  BY <1>2, <1>3, LineUnitsIs
<1> QED
  BY <1>1, <1>4, TotalEmpty

\* One more line.
LEMMA LineAdds ==
    ASSUME NEW ls \in Seq(Line), NEW b, NEW l \in Line
    PROVE  LineUnits(Append(ls, l), b) = LineUnits(ls, b) + (IF l.batch = b THEN l.qty ELSE 0)
<1>1. PICK n, ms, S, R : n = Len(ls) + 1 /\ ms = Append(ls, l) /\ S = 1 .. Len(ls) /\ R = 1 .. n
  OBVIOUS
<1>2. PICK f : UnitsByLine(ls, b, S, f)
  BY UnitsByLineExist
<1>3. PICK g : UnitsByLine(ms, b, R, g)
  BY UnitsByLineExist
<1>4. ms \in Seq(Line) /\ R = 1 .. Len(ms) /\ ms[n] = l /\ \A i \in S : ms[i] = ls[i]
  BY <1>1
<1>5. n \in R /\ R \ {n} = S
  <2>1. Len(ls) \in Nat
    OBVIOUS
  <2> QED
    BY <1>1, <2>1
<1>6. LineUnits(ls, b) = SumOf(f, S) /\ IsFiniteSet(S) /\ \A i \in S : f[i] \in Int
  BY <1>1, <1>2, LineUnitsIs
<1>7. LineUnits(ms, b) = SumOf(g, R) /\ IsFiniteSet(R) /\ \A i \in R : g[i] \in Int
  BY <1>3, <1>4, LineUnitsIs
<1>8. SumOf(g, R) = g[n] + SumOf(g, S)
  BY <1>5, <1>7, TotalAt
<1>9. SumOf(g, S) = SumOf(f, S)
  <2>1. \A i \in S : g[i] = f[i]
    BY <1>2, <1>3, <1>4, <1>5 DEF UnitsByLine
  <2> QED
    BY <1>6, <2>1, TotalSame
<1>10. g[n] = IF l.batch = b THEN l.qty ELSE 0
  BY <1>3, <1>4, <1>5 DEF UnitsByLine
<1>11. SumOf(f, S) \in Int /\ g[n] \in Int
  BY <1>5, <1>6, <1>7, TotalInt
<1> QED
  BY <1>1, <1>6, <1>7, <1>8, <1>9, <1>10, <1>11

\* The units of a sale.
LEMMA UnitsOutIs ==
    ASSUME StoreSound, NEW s \in SaleIds, NEW b
    PROVE  /\ UnitsOut(s, b) = IF sale[s].cur.status # "completed" THEN 0 ELSE LineUnits(sale[s].cur.lines, b)
           /\ UnitsOut(s, b) \in Int
<1>1. sale[s] \in Versions(SaleRow, Workers)
  BY DEF StoreSound, TypeOK
<1>2. sale[s].cur.lines \in Seq(Line)
  BY <1>1 DEF Versions, SaleRow
<1>3. UnitsOut(s, b) = IF sale[s].cur.status # "completed" THEN 0 ELSE LineUnits(sale[s].cur.lines, b)
  BY DEF UnitsOut
<1> QED
  BY <1>2, <1>3, LineUnitsTyped

\* BatchesMatchSales adds up the same units.
LEMMA UnitsGoneIs ==
    ASSUME NEW b
    PROVE  MapThenSumSet(LAMBDA s : UnitsOut(s, b), SaleIds) = UnitsGone(b)
<1>1. PICK S : S = SaleIds
  OBVIOUS
<1>2. PICK f : f = [s \in S |-> UnitsOut(s, b)]
  OBVIOUS
<1> DEFINE P(it) == it = [s \in SUBSET S |-> IF s = {} THEN 0
                                              ELSE UnitsOut(Next1(s), b) + it[s \ {Next1(s)}]]
<1>3. IsFiniteSet(S)
  BY <1>1, SalesFinite
<1>4. ASSUME NEW it PROVE P(it) <=> Sums(f, S, it)
  <2>1. \A s \in SUBSET S : s # {} => f[Next1(s)] = UnitsOut(Next1(s), b)
    BY <1>2, Next1In
  <2> QED
    BY <2>1 DEF Sums
<1>5. PICK jt : Sums(f, S, jt)
  BY <1>3, SumsExist
<1>6. P(CHOOSE it : P(it))
  BY <1>4, <1>5
<1>7. MapThenSumSet(LAMBDA s : UnitsOut(s, b), SaleIds) = (CHOOSE it : P(it))[S]
  BY <1>1 DEF MapThenSumSet, MapThenFoldSet, Next1
<1> HIDE DEF P
<1>8. MapThenSumSet(LAMBDA s : UnitsOut(s, b), SaleIds) = SumOf(f, S)
  BY <1>3, <1>4, <1>6, <1>7, TotalIs
<1> QED
  BY <1>1, <1>2, <1>8 DEF UnitsGone

\* Only the committed rows count.
LEMMA SameUnitsGone ==
    ASSUME \A s \in SaleIds : sale'[s].cur = sale[s].cur, NEW b
    PROVE  UnitsGone(b)' = UnitsGone(b)
<1>1. ASSUME NEW s \in SaleIds PROVE UnitsOut(s, b)' = UnitsOut(s, b)
  <2>1. PICK row : row = sale[s].cur
    OBVIOUS
  <2>2. sale'[s].cur = row
    BY <2>1
  <2> QED
    BY <2>1, <2>2 DEF UnitsOut
<1>2. PICK f : f = [s \in SaleIds |-> UnitsOut(s, b)]
  OBVIOUS
<1>3. f = [s \in SaleIds |-> UnitsOut(s, b)']
  BY <1>1, <1>2
<1> QED
  BY <1>2, <1>3 DEF UnitsGone, SaleIds

-----------------------------------------------------------------------------
(* What left the batches is on the sales                                   *)

\* The invariant holds after a step of w that commits nothing and writes at most the
\* row of its own number, when w keeps its part.
LEMMA LinesKept ==
    ASSUME StoreSound, StoreSound', LedgerSound, LedgerSound', LinesSound, NEW w \in Workers, UNCHANGED moved,
           \A v \in Workers \ {w} : pc'[v] = pc[v] /\ tx'[v] = tx[v] /\ num'[v] = num[v],
           \A s \in SaleIds : sale'[s].cur = sale[s].cur,
           \A s \in SaleIds : sale'[s] = sale[s] \/ sale'[s].xid = w,
           \A s \in SaleIds : sale'[s].xid = w => num'[w] = s,
           NEW n, n = num'[w], NEW t, t = tx'[w],
           Holds(w)' => \A b \in BatchIds : t.moves[b] = - LineUnits(sale'[n].new.lines, b)
    PROVE  LinesSound'
<1>1. OpenSalesInserted'
  <2>1. SUFFICES ASSUME NEW s \in SaleIds, NEW v, v = sale'[s].xid, v # NoTx PROVE num'[v] = s
    BY DEF OpenSalesInserted, SaleIds
  <2>2. CASE v = w
    BY <2>1, <2>2
  <2>3. CASE v # w
    <3>1. sale'[s] = sale[s]
      BY <2>1, <2>3
    <3>2. v \in Workers \ {w}
      BY <2>1, <2>3 DEF StoreSound, TypeOK, Versions
    <3>3. num[v] = s
      BY <2>1, <3>1 DEF LinesSound, OpenSalesInserted
    <3> QED
      BY <3>2, <3>3
  <2> QED
    BY <2>2, <2>3
<1>2. LinesBooked'
  <2>1. SUFFICES ASSUME NEW v \in Workers, Holds(v)', NEW b \in BatchIds
                 PROVE  tx'[v].moves[b] = - LineUnits(sale'[num'[v]].new.lines, b)
    BY DEF LinesBooked, BatchIds, Slots
  <2>2. CASE v = w
    BY <2>1, <2>2
  <2>3. CASE v # w
    <3>1. PICK s : s = num[v]
      OBVIOUS
    <3>2. num'[v] = s /\ tx'[v] = tx[v] /\ pc'[v] = pc[v]
      BY <2>3, <3>1
    <3>3. Holds(v) /\ s \in SaleIds
      BY <2>1, <3>1, <3>2 DEF Holds, SaleIds
    <3>4. sale'[s].xid = v
      BY <2>1, <3>2 DEF StoreSound, NumbersHeld
    <3>5. sale'[s] = sale[s]
      BY <2>3, <3>3, <3>4
    <3>6. tx[v].moves[b] = - LineUnits(sale[s].new.lines, b)
      BY <3>1, <3>3 DEF LinesSound, LinesBooked
    <3> QED
      BY <3>2, <3>5, <3>6
  <2> QED
    BY <2>2, <2>3
<1>3. SalesAddUp'
  <2>1. SUFFICES ASSUME NEW b \in BatchIds, OpeningBatch(b).made
                 PROVE  batch'[b].cur.qty = OpeningBatch(b).qty - UnitsGone(b)'
    BY DEF SalesAddUp, BatchIds, Slots, OpeningBatch
  <2>2. batch'[b].cur.qty = batch[b].cur.qty
    BY DEF LedgerSound, BatchLedger
  <2>3. UnitsGone(b)' = UnitsGone(b)
    BY SameUnitsGone
  <2> QED
    BY <2>1, <2>2, <2>3 DEF LinesSound, SalesAddUp
<1> QED
  BY <1>1, <1>2, <1>3 DEF LinesSound

\* A step of w that writes no sale, books nothing more, and neither takes nor loses a number.
LEMMA LinesAside ==
    ASSUME StoreSound, StoreSound', LedgerSound, LedgerSound', LinesSound, NEW w \in Workers,
           UNCHANGED <<moved, sale, num>>,
           \A v \in Workers \ {w} : pc'[v] = pc[v] /\ tx'[v] = tx[v],
           Holds(w)' => Holds(w) /\ tx'[w].moves = tx[w].moves
    PROVE  LinesSound'
<1>1. PICK n, t : n = num'[w] /\ t = tx'[w]
  OBVIOUS
<1>2. \A s \in SaleIds : sale'[s].xid = w => num'[w] = s
  BY TablesAssumption DEF LinesSound, OpenSalesInserted
<1>3. Holds(w)' => \A b \in BatchIds : t.moves[b] = - LineUnits(sale'[n].new.lines, b)
  BY <1>1 DEF LinesSound, LinesBooked
<1> QED
  BY <1>1, <1>2, <1>3, LinesKept

\* A new sale has no lines, and its checkout has taken nothing.
LEMMA InsertSaleKeepsLines ==
    ASSUME StoreSound, StoreSound', LedgerSound, LedgerSound', LinesSound, NEW w \in Workers,
           InsertSale(w), ~Abort(w)
    PROVE  LinesSound'
<1>1. PICK n, t : n = num[w] /\ t = tx[w]
  OBVIOUS
<1>2. PICK d : sale' = [sale EXCEPT ![n] = Written(@, w, NewSale(t.req, d))]
  BY <1>1 DEF InsertSale
<1>3. pc[w] = "insertSale" /\ Goto(w, "findBatches", t) /\ UNCHANGED <<batch, moved, num>>
  BY <1>1 DEF InsertSale
<1>4. /\ tx'[w] = t /\ num'[w] = n
      /\ \A v \in Workers \ {w} : pc'[v] = pc[v] /\ tx'[v] = tx[v] /\ num'[v] = num[v]
  BY <1>1, <1>3 DEF Goto, StoreSound, HandlersKnow
<1>5. n \in SaleIds
  <2>1. NumberFits("insertSale", t, n)
    BY <1>1, <1>3 DEF StoreSound, NumbersHeld
  <2> QED
    BY <2>1 DEF NumberFits, At, Saves
<1>6. /\ sale'[n].cur = sale[n].cur /\ sale'[n].new.lines = <<>> /\ sale'[n].xid = w
      /\ \A s \in SaleIds \ {n} : sale'[s] = sale[s]
  <2>1. PICK r : r = NewSale(t.req, d)
    OBVIOUS
  <2>2. r.lines = <<>>
    BY <2>1 DEF NewSale
  <2>3. sale[n] \in Versions(SaleRow, Workers) /\ DOMAIN sale = SaleIds
    BY <1>5 DEF StoreSound, TypeOK
  <2>4. sale'[n] = Written(sale[n], w, r)
    BY <1>2, <1>5, <2>1, <2>3
  <2> QED
    BY <1>2, <1>5, <2>2, <2>3, <2>4 DEF Written, Versions
<1>7. \A s \in SaleIds : sale'[s].xid = w => num'[w] = s
  BY <1>1, <1>4, <1>6, TablesAssumption DEF LinesSound, OpenSalesInserted
<1>8. \A b \in BatchIds : t.moves[b] = 0
  <2>1. At(pc[w], tx[w]) = "insertSale" /\ ~Holds(w) /\ pc[w] \notin Saves
    BY <1>3 DEF At, Saves, Holds
  <2>2. \A b \in BatchIds : batch[b].xid # w
    BY <2>1, TablesAssumption DEF LedgerSound, BatchOwned
  <2> QED
    BY <1>1, <2>1, <2>2, NothingBooked
<1>9. \A b \in BatchIds : t.moves[b] = - LineUnits(sale'[n].new.lines, b)
  BY <1>6, <1>8, NoLinesNoUnits
<1>10. \A s \in SaleIds : sale'[s].cur = sale[s].cur /\ (sale'[s] = sale[s] \/ sale'[s].xid = w)
  BY <1>6
<1> QED
  BY <1>3, <1>4, <1>7, <1>9, <1>10, LinesKept

\* A round adds the line of what it takes.
LEMMA TakeBatchKeepsLines ==
    ASSUME StoreSound, StoreSound', LedgerSound, LedgerSound', LinesSound, NEW w \in Workers, TakeBatch(w)
    PROVE  LinesSound'
<1>1. PICK n, t, p : n = num[w] /\ t = tx[w] /\ p = ProductOf(t)
  OBVIOUS
<1>2. pc[w] = "takeBatch" /\ UNCHANGED <<batch, moved, num>> /\ t.left > 0
  BY <1>1 DEF TakeBatch
<1>3. PICK k, b, d :
         /\ k \in Slots
         /\ IsOldest(k, t.list) /\ b = <<p, k>> /\ d = Smaller(t.list[k].qty, t.left)
         /\ sale' = [sale EXCEPT ![n] = Written(@, w, WithItem(@.new, b, d))]
         /\ Save(w, "batch", b, Deducted(t.list[k], d), "takeBatch", Took(t, k, b, d))
  BY <1>1 DEF TakeBatch, ProductOf
<1>4. PICK ent, v, u : /\ ent = Deducted(t.list[k], d) /\ v = Took(t, k, b, d)
                       /\ u = Saving("batch", b, ent, "takeBatch", v)
  OBVIOUS
<1>5. Goto(w, "select", u)
  BY <1>3, <1>4 DEF Save
<1>6. At("takeBatch", t) = "takeBatch" /\ LocalsTyped(t)
  BY <1>1, <1>2, OwnStatement DEF Saves
<1>7. p \in Products /\ Holds(w)
  BY <1>1, <1>2, <1>6, ProductTyped, AtBatchesHolds DEF Selling, BatchSection
<1>8. b \in BatchIds /\ t.list[k] \in BatchRow /\ t.left \in Nat
  BY <1>3, <1>6, <1>7 DEF BatchIds, IsOldest, LocalsTyped
<1>9. d \in Nat
  BY <1>3, <1>8 DEF Smaller, BatchRow
<1>10. u.moves = [t.moves EXCEPT ![b] = @ - d]
  <2>1. v.moves = [t.moves EXCEPT ![b] = @ - d] /\ DOMAIN v = LocalNames
    BY <1>4, <1>6 DEF Took, LocalsTyped, LocalNames
  <2> QED
    BY <1>4, <2>1 DEF Saving, LocalNames
<1>11. /\ tx'[w] = u /\ num'[w] = n
       /\ \A x \in Workers \ {w} : pc'[x] = pc[x] /\ tx'[x] = tx[x] /\ num'[x] = num[x]
  BY <1>1, <1>2, <1>5 DEF Goto, StoreSound, HandlersKnow
<1>12. n \in SaleIds /\ sale[n] \in Versions(SaleRow, Workers) /\ DOMAIN sale = SaleIds
  BY <1>1, <1>7 DEF Holds, StoreSound, TypeOK
<1>13. PICK ls, it : ls = sale[n].new.lines /\ it = [batch |-> b, qty |-> d]
  OBVIOUS
<1>14. ls \in Seq(Line) /\ it \in Line
  BY <1>8, <1>9, <1>12, <1>13 DEF Versions, SaleRow, Line
<1>15. /\ sale'[n].cur = sale[n].cur /\ sale'[n].new.lines = Append(ls, it) /\ sale'[n].xid = w
       /\ \A s \in SaleIds \ {n} : sale'[s] = sale[s]
  <2>1. PICK r : r = WithItem(sale[n].new, b, d)
    OBVIOUS
  <2>2. r.lines = Append(ls, it)
    BY <1>12, <1>13, <2>1 DEF WithItem, Versions, SaleRow
  <2>3. sale'[n] = Written(sale[n], w, r)
    BY <1>3, <1>12, <2>1
  <2> QED
    BY <1>3, <1>12, <2>2, <2>3 DEF Written, Versions
<1>16. \A s \in SaleIds : sale'[s].xid = w => num'[w] = s
  <2>1. w # NoTx
    BY TablesAssumption
  <2>2. ASSUME NEW s \in SaleIds, s # n, sale[s].xid = w PROVE num[w] = s
    BY <2>1, <2>2 DEF LinesSound, OpenSalesInserted
  <2> QED
    BY <1>1, <1>11, <1>15, <2>2
<1>17. ASSUME NEW c \in BatchIds PROVE u.moves[c] = - LineUnits(sale'[n].new.lines, c)
  <2>1. t.moves[c] = - LineUnits(ls, c) /\ LineUnits(ls, c) \in Int
    BY <1>1, <1>7, <1>13, <1>14, LineUnitsTyped DEF LinesSound, LinesBooked
  <2>2. LineUnits(Append(ls, it), c) = LineUnits(ls, c) + (IF it.batch = c THEN it.qty ELSE 0)
    BY <1>14, LineAdds
  <2>3. t.moves \in [BatchIds -> Int]
    BY <1>6 DEF LocalsTyped
  <2>4. u.moves[c] = IF c = b THEN t.moves[c] - d ELSE t.moves[c]
    BY <1>10, <2>3
  <2> QED
    BY <1>9, <1>13, <1>15, <2>1, <2>2, <2>4
<1>18. \A s \in SaleIds : sale'[s].cur = sale[s].cur /\ (sale'[s] = sale[s] \/ sale'[s].xid = w)
  BY <1>15
<1> QED
  BY <1>2, <1>11, <1>16, <1>17, <1>18, LinesKept

\* The end of a transaction of w frees its row and leaves the others.
LEMMA EndKeepsLines ==
    ASSUME StoreSound, StoreSound', LinesSound, NEW w \in Workers, Leave(w),
           \A s \in SaleIds : IF sale[s].xid = w THEN sale'[s].xid = NoTx ELSE sale'[s] = sale[s]
    PROVE  OpenSalesInserted' /\ LinesBooked'
<1>1. /\ num'[w] = NoNumber
      /\ \A x \in Workers \ {w} : pc'[x] = pc[x] /\ tx'[x] = tx[x] /\ num'[x] = num[x]
  BY DEF Leave, Goto, StoreSound, HandlersKnow, TypeOK
<1>2. OpenSalesInserted'
  <2>1. SUFFICES ASSUME NEW s \in SaleIds, NEW v, v = sale'[s].xid, v # NoTx PROVE num'[v] = s
    BY DEF OpenSalesInserted, SaleIds
  <2>2. sale'[s] = sale[s] /\ v # w
    BY <2>1
  <2>3. v \in Workers
    BY <2>1 DEF StoreSound, TypeOK, Versions
  <2> QED
    BY <1>1, <2>1, <2>2, <2>3 DEF LinesSound, OpenSalesInserted
<1>3. LinesBooked'
  <2>1. SUFFICES ASSUME NEW v \in Workers, Holds(v)', NEW b \in BatchIds
                 PROVE  tx'[v].moves[b] = - LineUnits(sale'[num'[v]].new.lines, b)
    BY DEF LinesBooked, BatchIds, Slots
  <2>2. v # w
    BY <1>1, <2>1, NoNumberIsNoSale DEF Holds, SaleIds
  <2>3. PICK s : s = num[v]
    OBVIOUS
  <2>4. num'[v] = s /\ tx'[v] = tx[v] /\ pc'[v] = pc[v]
    BY <1>1, <2>2, <2>3
  <2>5. Holds(v) /\ s \in SaleIds
    BY <2>1, <2>3, <2>4 DEF Holds, SaleIds
  <2>6. sale[s].xid = v
    BY <2>3, <2>5 DEF StoreSound, NumbersHeld
  <2>7. sale'[s] = sale[s]
    BY <2>2, <2>5, <2>6
  <2>8. tx[v].moves[b] = - LineUnits(sale[s].new.lines, b)
    BY <2>3, <2>5 DEF LinesSound, LinesBooked
  <2> QED
    BY <2>4, <2>7, <2>8
<1> QED
  BY <1>2, <1>3

\* A commit books what the lines of the sale say, and makes the sale count.
LEMMA CommitKeepsLines ==
    ASSUME StoreSound, StoreSound', LedgerSound, LedgerSound', RowsSound, LinesSound, NEW w \in Workers, Commit(w)
    PROVE  LinesSound'
<1>1. pc[w] = "commit" /\ Leave(w) /\ sale' = CommitTable(sale, w)
  BY DEF Commit
<1>2. ASSUME NEW s \in SaleIds
      PROVE  /\ sale[s].xid # w => sale'[s] = sale[s]
             /\ sale[s].xid = w => sale'[s].xid = NoTx /\ sale'[s].cur = sale[s].new
  BY <1>1 DEF CommitTable, CommitRow, Stored, StoreSound, TypeOK
<1>3. SalesAddUp'
  <2>1. SUFFICES ASSUME NEW b \in BatchIds, OpeningBatch(b).made
                 PROVE  batch'[b].cur.qty = OpeningBatch(b).qty - UnitsGone(b)'
    BY DEF SalesAddUp, BatchIds, Slots, OpeningBatch
  <2>2. batch'[b].cur.qty = moved[b] + tx[w].moves[b] /\ batch[b].cur.qty = moved[b]
    BY DEF Commit, LedgerSound, BatchLedger
  <2>3. batch[b].cur.qty = OpeningBatch(b).qty - UnitsGone(b)
    BY <2>1 DEF LinesSound, SalesAddUp
  <2>4. /\ moved[b] \in Int /\ tx[w].moves[b] \in Int
    BY DEF StoreSound, TypeOK, HandlersKnow, Knows, LocalsTyped
  <2>5. OpeningBatch(b).qty \in Nat
    <3>1. b[1] \in Products
      BY DEF BatchIds
    <3>2. Opening[b[1]] \in Seq(Nat \ {0})
      BY <3>1, TablesAssumption
    <3> QED
      BY <3>2 DEF OpeningBatch, NoBatch
  <2>6. PICK f : f = [s \in SaleIds |-> UnitsOut(s, b)]
    OBVIOUS
  <2>7. PICK g : g = [s \in SaleIds |-> UnitsOut(s, b)']
    OBVIOUS
  <2>8. UnitsGone(b) = SumOf(f, SaleIds) /\ UnitsGone(b)' = SumOf(g, SaleIds)
    BY <2>6, <2>7 DEF UnitsGone, SaleIds
  <2>9. \A s \in SaleIds : f[s] \in Int
    BY <2>6, UnitsOutIs
  <2>10. SumOf(f, SaleIds) \in Int
    BY <2>9, SalesFinite, TotalInt
  <2>11. ASSUME NEW s \in SaleIds, sale[s].xid # w PROVE f[s] = g[s]
    <3>1. PICK row : row = sale[s]
      OBVIOUS
    <3>2. sale'[s] = row
      BY <1>2, <2>11, <3>1
    <3>3. UnitsOut(s, b)' = UnitsOut(s, b)
      BY <3>1, <3>2 DEF UnitsOut
    <3> QED
      BY <2>6, <2>7, <3>3
  <2>12. CASE Holds(w)
    <3>1. PICK n : n = num[w]
      OBVIOUS
    <3>2. n \in SaleIds /\ sale[n].xid = w /\ \A s \in SaleIds \ {n} : sale[s].xid # w
      BY <2>12, <3>1, TablesAssumption DEF Holds, StoreSound, NumbersHeld, LinesSound, OpenSalesInserted
    <3>3. ~Taken(n) /\ sale[n].new.status = "completed"
      <4>1. Inserted(n) \/ Marked(n)
        BY <3>2, TablesAssumption DEF StoreSound, OpenSalesOwned
      <4> QED
        BY <3>1, <3>2, <4>1, NoNumberIsNoSale DEF Inserted, Marked
    <3>4. PICK u : u = LineUnits(sale[n].new.lines, b)
      OBVIOUS
    <3>5. f[n] = 0 /\ g[n] = u /\ u \in Int
      <4>1. UnitsOut(n, b) = 0
        BY <3>3 DEF UnitsOut, Taken
      <4>2. sale'[n].cur.status = "completed" /\ sale'[n].cur.lines = sale[n].new.lines
        BY <1>2, <3>2, <3>3
      <4>3. UnitsOut(n, b)' = u
        BY <3>4, <4>2 DEF UnitsOut
      <4>4. sale[n].new.lines \in Seq(Line)
        BY <3>2 DEF StoreSound, TypeOK, Versions, SaleRow
      <4> QED
        BY <2>6, <2>7, <3>2, <3>4, <4>1, <4>3, <4>4, LineUnitsTyped
    <3>6. \A s \in SaleIds : f[s] \in Int /\ g[s] \in Int
      BY <2>9, <2>11, <3>2, <3>5
    <3>7. \A s \in SaleIds \ {n} : f[s] = g[s]
      BY <2>11, <3>2
    <3>8. SumOf(g, SaleIds) = SumOf(f, SaleIds) - f[n] + g[n]
      <4>1. n \in SaleIds
        BY <3>2
      <4>2. \A x \in SaleIds : f[x] \in Int /\ g[x] \in Int
        BY <3>6
      <4>3. \A x \in SaleIds \ {n} : f[x] = g[x]
        BY <3>7
      <4> QED
        BY <4>1, <4>2, <4>3, SalesFinite, TotalChange
    <3>9. tx[w].moves[b] = - u
      BY <2>12, <3>1, <3>4 DEF LinesSound, LinesBooked
    <3> QED
      BY <2>2, <2>3, <2>4, <2>5, <2>8, <2>10, <3>5, <3>8, <3>9
  <2>13. CASE ~Holds(w)
    <3>1. \A s \in SaleIds : sale[s].xid # w
      <4>1. SUFFICES ASSUME NEW s \in SaleIds, sale[s].xid = w PROVE FALSE
        OBVIOUS
      <4>2. w # NoTx
        BY TablesAssumption
      <4>3. num[w] = s
        BY <4>1, <4>2 DEF LinesSound, OpenSalesInserted
      <4>4. pc[w] = "commit"
        BY DEF Commit
      <4> QED
        BY <2>13, <4>3, <4>4 DEF Holds
    <3>2. SumOf(f, SaleIds) = SumOf(g, SaleIds)
      BY <2>11, <3>1, SalesFinite, TotalSame
    <3>3. tx[w].moves[b] = 0
      BY <2>1, <2>13, NotHolding
    <3> QED
      BY <2>2, <2>3, <2>4, <2>8, <3>2, <3>3
  <2> QED
    BY <2>12, <2>13
<1>4. OpenSalesInserted' /\ LinesBooked'
  BY <1>1, <1>2, EndKeepsLines
<1> QED
  BY <1>3, <1>4 DEF LinesSound

\* A rollback takes nothing from the batches, and no sale counts more or less.
LEMMA AbortKeepsLines ==
    ASSUME StoreSound, StoreSound', LedgerSound, LedgerSound', LinesSound, NEW w \in Workers, Abort(w)
    PROVE  LinesSound'
<1>1. Leave(w) /\ sale' = RollbackTable(sale, w) /\ UNCHANGED moved
  BY DEF Abort
<1>2. ASSUME NEW s \in SaleIds
      PROVE  /\ sale[s].xid # w => sale'[s] = sale[s]
             /\ sale[s].xid = w => sale'[s].xid = NoTx
             /\ sale'[s].cur = sale[s].cur
  BY <1>1 DEF RollbackTable, RollbackRow, Stored, StoreSound, TypeOK
<1>3. SalesAddUp'
  <2>1. SUFFICES ASSUME NEW b \in BatchIds, OpeningBatch(b).made
                 PROVE  batch'[b].cur.qty = OpeningBatch(b).qty - UnitsGone(b)'
    BY DEF SalesAddUp, BatchIds, Slots, OpeningBatch
  <2>2. batch'[b].cur.qty = batch[b].cur.qty
    BY <1>1 DEF LedgerSound, BatchLedger
  <2>3. UnitsGone(b)' = UnitsGone(b)
    BY <1>2, SameUnitsGone
  <2> QED
    BY <2>1, <2>2, <2>3 DEF LinesSound, SalesAddUp
<1>4. OpenSalesInserted' /\ LinesBooked'
  BY <1>1, <1>2, EndKeepsLines
<1> QED
  BY <1>3, <1>4 DEF LinesSound

LEMMA NextKeepsLines ==
    ASSUME OnlyTillsAndDeliveries, StoreSound, LedgerSound, RowsSound, StoreSound', LedgerSound', LinesSound,
           [Next]_vars
    PROVE  LinesSound'
<1>1. CASE UNCHANGED vars
  <2>1. \A w \in Workers : Holds(w)' <=> Holds(w)
    BY <1>1 DEF vars, Holds, SaleIds
  <2>2. OpenSalesInserted' /\ LinesBooked'
    BY <1>1, <2>1 DEF vars, LinesSound, OpenSalesInserted, LinesBooked, SaleIds, BatchIds, Slots
  <2>3. \A b \in BatchIds : UnitsGone(b)' = UnitsGone(b)
    BY <1>1, SameUnitsGone DEF vars
  <2>4. SalesAddUp'
    BY <1>1, <2>3 DEF vars, LinesSound, SalesAddUp, BatchIds, Slots, OpeningBatch
  <2> QED
    BY <2>2, <2>4 DEF LinesSound
<1>2. ASSUME NEW w \in Workers, Quiet(w) PROVE LinesSound'
  BY <1>2, LinesAside DEF Quiet
<1>3. ASSUME NEW w \in Workers, GenerateSaleNumber(w), ~Abort(w) PROVE LinesSound'
  <2>1. PICK n, t : n = num'[w] /\ t = tx'[w]
    OBVIOUS
  <2>2. /\ pc[w] = "generateSaleNumber" /\ Goto(w, "insertSale", tx[w])
        /\ UNCHANGED <<moved, sale>> /\ \E m : num' = [num EXCEPT ![w] = m]
    BY <1>3 DEF GenerateSaleNumber, tables
  <2>3. /\ pc'[w] = "insertSale"
        /\ \A v \in Workers \ {w} : pc'[v] = pc[v] /\ tx'[v] = tx[v] /\ num'[v] = num[v]
    BY <2>2 DEF Goto, StoreSound, HandlersKnow, TypeOK
  <2>4. num[w] = NoNumber
    <3>1. NumberFits("generateSaleNumber", tx[w], num[w])
      BY <2>2 DEF StoreSound, NumbersHeld
    <3> QED
      BY <3>1 DEF NumberFits, At, Numberless, BeforeNumber, Saves
  <2>5. \A s \in SaleIds : sale'[s].xid # w
    BY <2>2, <2>4, NoNumberIsNoSale, TablesAssumption DEF LinesSound, OpenSalesInserted
  <2>6. ~Holds(w)'
    BY <2>3 DEF Holds
  <2> QED
    BY <2>1, <2>2, <2>3, <2>5, <2>6, LinesKept
<1>4. ASSUME NEW w \in Workers, FindBatches(w) PROVE LinesSound'
  <2>1. PICK t, q, u : t = tx[w] /\ q = t.req.items[t.i] /\ u = [t EXCEPT !.list = OpenBatches(q.product, w), !.left = q.qty]
    OBVIOUS
  <2>2. pc[w] = "findBatches" /\ Goto(w, "takeBatch", u) /\ UNCHANGED <<moved, sale, num>>
    BY <1>4, <2>1 DEF FindBatches, tables
  <2>3. u.moves = t.moves
    BY <2>1 DEF StoreSound, HandlersKnow, Knows, LocalsTyped, LocalNames
  <2>4. /\ tx'[w] = u
        /\ \A v \in Workers \ {w} : pc'[v] = pc[v] /\ tx'[v] = tx[v]
    BY <2>2 DEF Goto, StoreSound, HandlersKnow
  <2>5. Holds(w)' => Holds(w)
    BY <2>2 DEF Holds, SaleIds
  <2> QED
    BY <2>1, <2>2, <2>3, <2>4, <2>5, LinesAside
<1>5. ASSUME NEW w \in Workers, SaveUpdate(w), tx[w].tbl = "batch" PROVE LinesSound'
  <2>1. PICK t, u : t = tx[w] /\ u = Saved(t)
    OBVIOUS
  <2>2. pc[w] = "update" /\ UNCHANGED <<moved, sale, num>> /\ Goto(w, t.then, u) /\ "update" \in Saves
    BY <1>5, <2>1 DEF SaveUpdate, Saves, Updated
  <2>3. u.moves = t.moves
    BY <2>1, <2>2, WhileSaving
  <2>4. /\ tx'[w] = u
        /\ \A v \in Workers \ {w} : pc'[v] = pc[v] /\ tx'[v] = tx[v]
    BY <2>2 DEF Goto, StoreSound, HandlersKnow
  <2>5. Holds(w)' => Holds(w)
    BY <2>2 DEF Holds, SaleIds
  <2> QED
    BY <2>1, <2>2, <2>3, <2>4, <2>5, LinesAside
<1>6. ASSUME NEW w \in Workers, StockIn(w) PROVE LinesSound'
  <2>1. pc[w] = "stockIn" /\ UNCHANGED <<moved, sale, num>>
    BY <1>6 DEF StockIn
  <2>2. \A v \in Workers \ {w} : pc'[v] = pc[v] /\ tx'[v] = tx[v]
    <3>1. PICK u : Goto(w, "select", u)
      BY <1>6 DEF StockIn, Save
    <3> QED
      BY <3>1 DEF Goto, StoreSound, HandlersKnow
  <2>3. num[w] = NoNumber
    <3>1. NumberFits("stockIn", tx[w], num[w])
      BY <2>1 DEF StoreSound, NumbersHeld
    <3> QED
      BY <3>1 DEF NumberFits, At, Numberless, Adjusting, Saves
  <2>4. ~Holds(w)'
    BY <2>1, <2>3, NoNumberIsNoSale DEF Holds, SaleIds
  <2> QED
    BY <2>1, <2>2, <2>4, LinesAside
<1> QED
  BY <1>1, <1>2, <1>3, <1>4, <1>5, <1>6, InsertSaleKeepsLines, TakeBatchKeepsLines, CommitKeepsLines,
     AbortKeepsLines, Kinds

LEMMA InitLines == Init => LinesSound
<1> SUFFICES ASSUME Init PROVE LinesSound
  OBVIOUS
<1>1. ASSUME NEW s \in SaleIds PROVE sale[s].xid = NoTx /\ sale[s].cur.status = "none"
  BY DEF Init, Stored, NoSale
<1>2. ASSUME NEW w \in Workers PROVE ~Holds(w)
  BY NoNumberIsNoSale DEF Init, Holds
<1>3. SalesAddUp
  <2>1. SUFFICES ASSUME NEW b \in BatchIds PROVE batch[b].cur.qty = OpeningBatch(b).qty - UnitsGone(b)
    BY DEF SalesAddUp
  <2>2. batch[b].cur.qty = OpeningBatch(b).qty
    BY DEF Init, Stored
  <2>3. OpeningBatch(b).qty \in Nat
    <3>1. b[1] \in Products
      BY DEF BatchIds
    <3>2. Opening[b[1]] \in Seq(Nat \ {0})
      BY <3>1, TablesAssumption
    <3> QED
      BY <3>2 DEF OpeningBatch, NoBatch
  <2>4. PICK f : f = [s \in SaleIds |-> UnitsOut(s, b)]
    OBVIOUS
  <2>5. \A s \in SaleIds : f[s] = 0
    BY <1>1, <2>4 DEF UnitsOut
  <2>6. SumOf(f, SaleIds) = SumOf(f, {})
    BY <2>5, SalesFinite, TotalOver
  <2>7. UnitsGone(b) = 0
    BY <2>4, <2>6, TotalEmpty DEF UnitsGone
  <2> QED
    BY <2>2, <2>3, <2>7
<1> QED
  BY <1>1, <1>2, <1>3 DEF LinesSound, OpenSalesInserted, LinesBooked

LEMMA LinesMatch == LinesSound => BatchesMatchSales
<1> SUFFICES ASSUME LinesSound, NEW b \in BatchIds, OpeningBatch(b).made
             PROVE  batch[b].cur.qty = OpeningBatch(b).qty - MapThenSumSet(LAMBDA s : UnitsOut(s, b), SaleIds)
  BY DEF BatchesMatchSales
<1>1. batch[b].cur.qty = OpeningBatch(b).qty - UnitsGone(b)
  BY DEF LinesSound, SalesAddUp
<1>2. MapThenSumSet(LAMBDA s : UnitsOut(s, b), SaleIds) = UnitsGone(b)
  BY UnitsGoneIs
<1> QED
  BY <1>1, <1>2

\* No deduction is lost or booked twice (sales.service.ts:196-236): however checkouts
\* and deliveries overlap on a day, what left a batch is on the lines of the sales.
THEOREM DeductionsMatchSales ==
    ASSUME OnlyTillsAndDeliveries PROVE Spec => []BatchesMatchSales
<1>1. Init => StoreSound /\ LedgerSound /\ RowsSound /\ LinesSound
  BY InitSound, InitLedger, InitRows, InitLines
<1>2. StoreSound /\ LedgerSound /\ RowsSound /\ LinesSound /\ [Next]_vars
      => StoreSound' /\ LedgerSound' /\ RowsSound' /\ LinesSound'
  BY NextKeepsStore, NextKeepsLedger, NextKeepsRows, NextKeepsLines
<1> QED
  BY <1>1, <1>2, LinesMatch, PTL DEF Spec

-----------------------------------------------------------------------------
(* What a customer owes                                                    *)

\* The charge of a sale.
LEMMA CreditOfTyped ==
    ASSUME StoreSound, NEW s \in SaleIds, NEW c
    PROVE  CreditOf(s, c) \in Nat
<1>1. sale[s] \in Versions(SaleRow, Workers)
  BY DEF StoreSound, TypeOK
<1> QED
  BY <1>1 DEF Versions, SaleRow, CreditOf

LEMMA OwedTyped ==
    ASSUME StoreSound, NEW c
    PROVE  Owed(c) \in Int
<1>1. PICK f : f = [s \in SaleIds |-> CreditOf(s, c)]
  OBVIOUS
<1>2. \A s \in SaleIds : f[s] \in Int
  BY <1>1, CreditOfTyped
<1> QED
  BY <1>1, <1>2, SalesFinite, TotalInt DEF Owed

LEMMA OwedTypedNext ==
    ASSUME StoreSound', NEW c
    PROVE  Owed(c)' \in Int
<1>1. PICK f : f = [s \in SaleIds |-> CreditOf(s, c)']
  OBVIOUS
<1>2. ASSUME NEW s \in SaleIds PROVE f[s] \in Int
  <2>1. sale'[s].cur \in SaleRow
    BY DEF StoreSound, TypeOK, Versions, SaleIds
  <2> QED
    BY <1>1, <2>1 DEF SaleRow, CreditOf
<1>3. Owed(c)' = SumOf(f, SaleIds)
  BY <1>1 DEF Owed, SaleIds
<1> QED
  BY <1>2, <1>3, SalesFinite, TotalInt

\* The charge of a sale that w holds.
LEMMA ComingTyped ==
    ASSUME StoreSound, NEW w \in Workers, NEW c
    PROVE  Coming(w, c) \in Nat
<1>1. CASE ~Holds(w)
  BY <1>1 DEF Coming
<1>2. CASE Holds(w)
  <2>1. sale[num[w]] \in Versions(SaleRow, Workers)
    BY <1>2 DEF Holds, StoreSound, TypeOK
  <2> QED
    BY <2>1 DEF Versions, SaleRow, Coming
<1> QED
  BY <1>1, <1>2

\* Debt adds up the same charges.
LEMMA DebtIs ==
    ASSUME NEW c
    PROVE  Debt(c) = Owed(c) - paid[c]
<1>1. PICK S : S = SaleIds
  OBVIOUS
<1>2. PICK f : f = [s \in S |-> CreditOf(s, c)]
  OBVIOUS
<1> DEFINE P(it) == it = [s \in SUBSET S |->
                            IF s = {} THEN 0
                            ELSE (IF sale[Next1(s)].cur.customer = c /\ sale[Next1(s)].cur.status = "completed"
                                  THEN sale[Next1(s)].cur.credit ELSE 0) + it[s \ {Next1(s)}]]
<1>3. IsFiniteSet(S)
  BY <1>1, SalesFinite
<1>4. ASSUME NEW it PROVE P(it) <=> Sums(f, S, it)
  <2>1. \A s \in SUBSET S : s # {} =>
           f[Next1(s)] = IF sale[Next1(s)].cur.customer = c /\ sale[Next1(s)].cur.status = "completed"
                         THEN sale[Next1(s)].cur.credit ELSE 0
    BY <1>2, Next1In DEF CreditOf
  <2> QED
    BY <2>1 DEF Sums
<1>5. PICK jt : Sums(f, S, jt)
  BY <1>3, SumsExist
<1>6. P(CHOOSE it : P(it))
  BY <1>4, <1>5
<1>7. Debt(c) = (CHOOSE it : P(it))[S] - paid[c]
  BY <1>1 DEF Debt, MapThenSumSet, MapThenFoldSet, Next1
<1> HIDE DEF P
<1>8. Debt(c) = SumOf(f, S) - paid[c]
  BY <1>3, <1>4, <1>6, <1>7, TotalIs
<1> QED
  BY <1>1, <1>2, <1>8 DEF Owed

\* Only the committed rows count.
LEMMA SameOwed ==
    ASSUME \A s \in SaleIds : sale'[s].cur = sale[s].cur, NEW c
    PROVE  Owed(c)' = Owed(c)
<1>1. ASSUME NEW s \in SaleIds PROVE CreditOf(s, c)' = CreditOf(s, c)
  <2>1. PICK row : row = sale[s].cur
    OBVIOUS
  <2>2. sale'[s].cur = row
    BY <2>1
  <2> QED
    BY <2>1, <2>2 DEF CreditOf
<1>2. PICK f : f = [s \in SaleIds |-> CreditOf(s, c)]
  OBVIOUS
<1>3. f = [s \in SaleIds |-> CreditOf(s, c)']
  BY <1>1, <1>2
<1> QED
  BY <1>2, <1>3 DEF Owed, SaleIds

-----------------------------------------------------------------------------
(* From one statement to the next                                          *)

\* A worker keeps what it knows of its sale and its customer while another one goes on
\* and no customer comes to owe less.
LEMMA OthersCharge ==
    ASSUME StoreSound, StoreSound', BalanceSound, NEW w \in Workers, NEW v \in Workers \ {w},
           pc'[v] = pc[v], tx'[v] = tx[v], num'[v] = num[v],
           \A s \in SaleIds : sale'[s] # sale[s] => sale[s].xid \in {NoTx, w},
           \A c \in Customers : Owed(c)' >= Owed(c)
    PROVE  Charges(v, pc[v], tx[v])' /\ \A c : Coming(v, c)' = Coming(v, c)
<1>1. PICK l, t, n : l = pc[v] /\ t = tx[v] /\ n = num[v]
  OBVIOUS
<1>2. pc'[v] = l /\ tx'[v] = t /\ num'[v] = n
  BY <1>1
<1>3. Charges(v, l, t) /\ Knows(l, t)
  BY <1>1 DEF BalanceSound, StoreSound, HandlersKnow
<1>4. Holds(v)' <=> Holds(v)
  BY <1>1, <1>2 DEF Holds, SaleIds
<1>5. Holds(v) => sale'[n] = sale[n]
  <2>1. Holds(v) => n \in SaleIds /\ sale[n].xid = v
    BY <1>1 DEF Holds, StoreSound, NumbersHeld
  <2>2. v # NoTx
    BY TablesAssumption
  <2> QED
    BY <2>1, <2>2
<1>6. ASSUME NEW c PROVE Coming(v, c)' = Coming(v, c)
  <2>1. CASE Holds(v)
    BY <1>1, <1>2, <1>4, <1>5, <2>1 DEF Coming
  <2>2. CASE ~Holds(v)
    BY <1>4, <2>2 DEF Coming
  <2> QED
    BY <2>1, <2>2
<1>7. \A c \in Customers : Owed(c) \in Int /\ Owed(c)' \in Int /\ Coming(v, c) \in Nat
  BY OwedTyped, OwedTypedNext, ComingTyped
<1>8. Holds(v)' => sale'[n].new.customer = t.req.customer /\ sale'[n].new.credit = t.req.credit
  BY <1>1, <1>3, <1>4, <1>5 DEF Charges
<1>9. At(l, t) \in CustomerLoaded /\ t.req.customer \in Customers => t.cust.balance <= Owed(t.req.customer)'
  <2>1. t.cust.balance \in Int
    BY <1>3 DEF Knows, LocalsTyped, CustomerRow
  <2> QED
    BY <1>3, <1>7, <2>1 DEF Charges
<1>10. l \in Saves /\ t.tbl = "customer" => t.ent.balance <= Owed(t.key)' + Coming(v, t.key)
  <2>1. l \in Saves /\ t.tbl = "customer" => t.key \in Customers /\ t.ent.balance \in Int
    BY <1>3 DEF Knows, SaveTyped, CustomerRow
  <2> QED
    BY <1>3, <1>7, <2>1 DEF Charges
<1>11. Charges(v, l, t)'
  BY <1>2, <1>3, <1>6, <1>8, <1>9, <1>10
  DEF Charges, At, Saves, CustomerLoaded, Selling, BeforeNumber, BatchSection
<1> QED
  BY <1>1, <1>2, <1>6, <1>11

\* One worker goes on, and what it does and writes is within what is owed.
LEMMA OneCharges ==
    ASSUME StoreSound, StoreSound', BalanceSound, NEW w \in Workers, NEW l, NEW t, Goto(w, l, t),
           \A v \in Workers \ {w} : num'[v] = num[v],
           \A s \in SaleIds : sale'[s] # sale[s] => sale[s].xid \in {NoTx, w} /\ sale'[s].xid \in {NoTx, w},
           \A s \in SaleIds : sale'[s].xid = w => num'[w] = s,
           \A c \in Customers : Owed(c)' >= Owed(c),
           \A c \in Customers : paid'[c] = 0,
           \A c \in Customers : \/ customer'[c] = customer[c] /\ customer[c].xid \notin {NoTx, w}
                                \/ customer'[c].xid \in {NoTx, w} /\ WithinOwed(c)',
           Charges(w, l, t)'
    PROVE  BalanceSound'
<1>1. /\ pc'[w] = l /\ tx'[w] = t
      /\ \A v \in Workers \ {w} : pc'[v] = pc[v] /\ tx'[v] = tx[v]
  BY DEF Goto, StoreSound, HandlersKnow
<1>2. OpenSalesInserted'
  <2>1. SUFFICES ASSUME NEW s \in SaleIds, NEW v, v = sale'[s].xid, v # NoTx PROVE num'[v] = s
    BY DEF OpenSalesInserted, SaleIds
  <2>2. CASE v = w
    BY <2>1, <2>2
  <2>3. CASE v # w
    <3>1. sale'[s] = sale[s] /\ v \in Workers
      BY <2>1, <2>3 DEF StoreSound, TypeOK, Versions
    <3> QED
      BY <2>1, <2>3, <3>1 DEF BalanceSound, OpenSalesInserted
  <2> QED
    BY <2>2, <2>3
<1>3. ASSUME NEW v \in Workers \ {w}
      PROVE  Charges(v, pc[v], tx[v])' /\ \A c : Coming(v, c)' = Coming(v, c)
  BY <1>1, OthersCharge
<1>4. ASSUME NEW v \in Workers PROVE Charges(v, pc[v], tx[v])'
  BY <1>1, <1>3
<1>5. ASSUME NEW c \in Customers, customer'[c] = customer[c], customer[c].xid \notin {NoTx, w}
      PROVE  WithinOwed(c)'
  <2>1. PICK v, row : v = customer[c].xid /\ row = customer[c]
    OBVIOUS
  <2>2. v \in Workers \ {w} /\ row.cur.balance \in Int /\ row.new.balance \in Int
    BY <1>5, <2>1 DEF StoreSound, TypeOK, Versions, CustomerRow
  <2>3. Owed(c) \in Int /\ Owed(c)' \in Int /\ Coming(v, c) \in Nat /\ Coming(v, c)' = Coming(v, c)
    BY <1>3, <2>2, OwedTyped, OwedTypedNext, ComingTyped
  <2>4. row.cur.balance <= Owed(c) /\ row.new.balance <= Owed(c) + Coming(v, c)
    BY <1>5, <2>1 DEF BalanceSound, WithinOwed
  <2>5. PICK x, y, z : x = Owed(c)' /\ y = Coming(v, c) /\ z = Owed(c)
    OBVIOUS
  <2>6. row.cur.balance <= x /\ row.new.balance <= x + y
    BY <2>2, <2>3, <2>4, <2>5
  <2>7. customer'[c] = row /\ row.xid = v /\ paid'[c] = 0
    BY <1>5, <2>1
  <2>8. Coming(v, c)' = y /\ Owed(c)' = x
    BY <2>3, <2>5
  <2> QED
    BY <2>6, <2>7, <2>8 DEF WithinOwed
<1>6. \A c \in Customers : WithinOwed(c)'
  BY <1>5
<1> QED
  BY <1>2, <1>4, <1>6 DEF BalanceSound

\* One worker goes on without writing a sale or a customer.
LEMMA OneReckons ==
    ASSUME StoreSound, StoreSound', BalanceSound, NEW w \in Workers, NEW l, NEW t, Goto(w, l, t),
           UNCHANGED <<sale, customer, paid>>,
           \A v \in Workers \ {w} : num'[v] = num[v],
           Holds(w)' <=> Holds(w), Holds(w) => num'[w] = num[w] /\ t.req = tx[w].req,
           t.pay = 0,
           At(l, t) \in CustomerLoaded /\ t.req.customer \in Customers => t.cust.balance <= Owed(t.req.customer),
           l \in Saves /\ t.tbl = "customer" => t.ent.balance <= Owed(t.key) + Coming(w, t.key)
    PROVE  BalanceSound'
<1>1. \A c : Owed(c)' = Owed(c)
  BY SameOwed
<1>2. ASSUME NEW c PROVE Coming(w, c)' = Coming(w, c)
  <2>1. CASE Holds(w)
    BY <2>1 DEF Coming
  <2>2. CASE ~Holds(w)
    BY <2>2 DEF Coming
  <2> QED
    BY <2>1, <2>2
<1>3. Charges(w, l, t)'
  <2>1. Holds(w) => /\ sale[num[w]].new.customer = t.req.customer
                    /\ sale[num[w]].new.credit = t.req.credit
    BY DEF BalanceSound, Charges
  <2> QED
    BY <1>1, <1>2, <2>1 DEF Charges, At, Saves, CustomerLoaded, Selling, BeforeNumber, BatchSection
<1>4. \A s \in SaleIds : sale'[s].xid = w => num'[w] = s
  <2>1. ASSUME NEW s \in SaleIds, sale[s].xid = w PROVE num'[w] = s
    <3>1. num[w] = s
      <4>1. w # NoTx
        BY TablesAssumption
      <4> QED
        BY <2>1, <4>1 DEF BalanceSound, OpenSalesInserted
    <3>2. Inserted(s) \/ Marked(s)
      BY <2>1, TablesAssumption DEF StoreSound, OpenSalesOwned
    <3>3. Holds(w)
      BY <2>1, <3>1, <3>2, NoNumberIsNoSale DEF Inserted, Marked
    <3> QED
      BY <3>1, <3>3
  <2> QED
    BY <2>1
<1>5. ASSUME NEW c \in Customers
      PROVE  \/ customer'[c] = customer[c] /\ customer[c].xid \notin {NoTx, w}
             \/ customer'[c].xid \in {NoTx, w} /\ WithinOwed(c)'
  <2>1. CASE customer[c].xid \notin {NoTx, w}
    BY <2>1
  <2>2. CASE customer[c].xid \in {NoTx, w}
    <3>1. WithinOwed(c)
      BY DEF BalanceSound
    <3>2. WithinOwed(c)'
      BY <1>1, <1>2, <2>2, <3>1 DEF WithinOwed
    <3> QED
      BY <2>2, <3>2
  <2> QED
    BY <2>1, <2>2
<1>6. \A c \in Customers : paid'[c] = 0
  BY DEF BalanceSound, WithinOwed
<1>7. \A c \in Customers : Owed(c)' >= Owed(c)
  BY <1>1, OwedTyped
<1> QED
  BY <1>3, <1>4, <1>5, <1>6, <1>7, OneCharges

\* What a worker knows at its statement.
LEMMA ChargesHere ==
    ASSUME StoreSound, BalanceSound, NEW w \in Workers, NEW l, NEW t, l = pc[w], t = tx[w]
    PROVE  /\ Knows(l, t) /\ LocalsTyped(t) /\ DOMAIN t = LocalNames /\ NumberFits(l, t, num[w])
           /\ Charges(w, l, t) /\ (l \notin Saves => At(l, t) = l)
<1>1. Knows(l, t) /\ NumberFits(l, t, num[w]) /\ Charges(w, l, t)
  BY DEF StoreSound, HandlersKnow, NumbersHeld, BalanceSound
<1>2. LocalsTyped(t)
  BY <1>1 DEF Knows
<1> QED
  BY <1>1, <1>2 DEF LocalsTyped, At

\* A statement that leaves the customer it has loaded, if any, and the tables alone.
LEMMA Uncharged ==
    ASSUME StoreSound, StoreSound', BalanceSound, NEW w \in Workers, NEW l, NEW t, Goto(w, l, t),
           UNCHANGED <<sale, customer, paid, num>>, pc[w] # "insertSale", l # "insertSale",
           t.pay = tx[w].pay, Holds(w) => t.req = tx[w].req,
           \/ At(l, t) \notin CustomerLoaded
           \/ At(pc[w], tx[w]) \in CustomerLoaded /\ t.req = tx[w].req /\ t.cust = tx[w].cust,
           \/ ~(l \in Saves /\ t.tbl = "customer")
           \/ /\ pc[w] \in Saves /\ tx[w].tbl = "customer"
              /\ t.ent = tx[w].ent /\ t.key = tx[w].key
    PROVE  BalanceSound'
<1>1. Holds(w)' <=> Holds(w)
  BY DEF Holds, Goto, StoreSound, HandlersKnow, SaleIds
<1>2. Charges(w, pc[w], tx[w])
  BY DEF BalanceSound
<1>3. t.pay = 0
  BY <1>2 DEF Charges
<1>4. At(l, t) \in CustomerLoaded /\ t.req.customer \in Customers => t.cust.balance <= Owed(t.req.customer)
  BY <1>2 DEF Charges
<1>5. l \in Saves /\ t.tbl = "customer" => t.ent.balance <= Owed(t.key) + Coming(w, t.key)
  BY <1>2 DEF Charges
<1> QED
  BY <1>1, <1>3, <1>4, <1>5, OneReckons

\* It begins to save an entity of another table.
LEMMA UnchargedSave ==
    ASSUME StoreSound, StoreSound', BalanceSound, NEW w \in Workers,
           NEW l, NEW t, DOMAIN t = LocalNames, NEW tbl, tbl # "customer", NEW key, NEW ent,
           Save(w, tbl, key, ent, l, t), UNCHANGED <<sale, customer, paid, num>>, pc[w] # "insertSale",
           t.pay = tx[w].pay, t.req = tx[w].req,
           \/ l \notin CustomerLoaded
           \/ At(pc[w], tx[w]) \in CustomerLoaded /\ t.cust = tx[w].cust
    PROVE  BalanceSound'
<1>1. PICK u : u = Saving(tbl, key, ent, l, t)
  OBVIOUS
<1>2. u.pay = t.pay /\ u.req = t.req /\ u.cust = t.cust /\ u.tbl = tbl /\ u.then = l
  BY <1>1 DEF Saving, LocalNames
<1>3. Goto(w, "select", u) /\ At("select", u) = l
  BY <1>1, <1>2 DEF Save, At, Saves
<1>4. ~("select" \in Saves /\ u.tbl = "customer")
  BY <1>2
<1> QED
  BY <1>2, <1>3, <1>4, Uncharged

\* What a handler without a sale reads of a customer is owed.
LEMMA SeenWithin ==
    ASSUME StoreSound, BalanceSound, NEW w \in Workers, ~Holds(w), NEW c \in Customers
    PROVE  Seen(customer[c], w).balance <= Owed(c)
<1>1. w # NoTx
  BY TablesAssumption
<1>2. Coming(w, c) = 0 /\ Owed(c) \in Int
  BY OwedTyped DEF Coming
<1>3. /\ customer[c].cur.balance <= Owed(c)
      /\ customer[c].xid = w => customer[c].new.balance <= Owed(c) + Coming(w, c)
  BY <1>1 DEF BalanceSound, WithinOwed
<1> QED
  BY <1>2, <1>3 DEF Seen

\* The end of a request leaves no charge behind.
LEMMA IdleCharges ==
    ASSUME NEW w \in Workers, num'[w] = NoNumber
    PROVE  Charges(w, "idle", NoLocals)'
<1>1. ~Holds(w)'
  <2>1. \A d, n : <<d, n>> \in SaleIds => d # 0
    BY DEF SaleIds
  <2> QED
    BY NoNumberIsNoSale DEF Holds, SaleIds
<1>2. NoLocals.pay = 0
  BY DEF NoLocals
<1> QED
  BY <1>1, <1>2 DEF Charges, At, Saves, CustomerLoaded, Selling, BeforeNumber, BatchSection

\* A handler that is not a checkout past its number holds no sale.
LEMMA Saleless ==
    ASSUME StoreSound, NEW w \in Workers, pc[w] \in Numberless
    PROVE  ~Holds(w)
<1>1. pc[w] \notin Saves
  BY DEF Numberless, BeforeNumber, Voiding, Restocking, Adjusting, Editing, Accounting, Saves
<1>2. num[w] = NoNumber
  BY <1>1 DEF StoreSound, NumbersHeld, NumberFits, At
<1> QED
  BY <1>2, NoNumberIsNoSale DEF Holds

\* A rollback leaves the committed rows as they are.
LEMMA AbortKeepsBalance ==
    ASSUME StoreSound, StoreSound', BalanceSound, NEW w \in Workers, Abort(w)
    PROVE  BalanceSound'
<1>1. /\ Goto(w, "idle", NoLocals) /\ sale' = RollbackTable(sale, w) /\ UNCHANGED paid
      /\ customer' = RollbackTable(customer, w)
  BY DEF Abort, Leave
<1>2. num'[w] = NoNumber /\ \A v \in Workers \ {w} : num'[v] = num[v]
  BY DEF Abort, Leave, StoreSound, TypeOK
<1>3. w # NoTx
  BY TablesAssumption
<1>4. ASSUME NEW s \in SaleIds
      PROVE  /\ sale'[s] # sale[s] => sale[s].xid = w /\ sale'[s].xid = NoTx
             /\ sale'[s].xid # w /\ sale'[s].cur = sale[s].cur
  BY <1>1, <1>3 DEF RollbackTable, RollbackRow, Stored, StoreSound, TypeOK
<1>5. \A c : Owed(c)' = Owed(c)
  BY <1>4, SameOwed
<1>6. ASSUME NEW c \in Customers
      PROVE  \/ customer'[c] = customer[c] /\ customer[c].xid \notin {NoTx, w}
             \/ customer'[c].xid \in {NoTx, w} /\ WithinOwed(c)'
  <2>1. /\ customer[c].xid # w => customer'[c] = customer[c]
        /\ customer[c].xid = w => customer'[c].xid = NoTx
        /\ customer'[c].cur = customer[c].cur
    BY <1>1 DEF RollbackTable, RollbackRow, Stored, StoreSound, TypeOK
  <2>2. customer[c].cur.balance <= Owed(c) /\ paid[c] = 0
    BY DEF BalanceSound, WithinOwed
  <2>3. CASE customer'[c].xid = NoTx
    <3>1. PICK o, row : o = Owed(c) /\ row = customer'[c]
      OBVIOUS
    <3>2. Owed(c)' = o /\ row.cur.balance <= o
      BY <1>5, <2>1, <2>2, <3>1
    <3> QED
      BY <1>1, <2>2, <2>3, <3>1, <3>2 DEF WithinOwed
  <2> QED
    BY <2>1, <2>3
<1>7. \A c \in Customers : paid'[c] = 0
  BY <1>1 DEF BalanceSound, WithinOwed
<1>8. Charges(w, "idle", NoLocals)'
  BY <1>2, IdleCharges
<1>9. \A c \in Customers : Owed(c)' >= Owed(c)
  BY <1>5, OwedTyped
<1> QED
  BY <1>1, <1>2, <1>4, <1>6, <1>7, <1>8, <1>9, OneCharges

\* What a checkout reads of its customer.
LEMMA FindCustomerKeepsBalance ==
    ASSUME StoreSound, StoreSound', BalanceSound, NEW w \in Workers, FindCustomer(w)
    PROVE  BalanceSound'
<1>1. PICK t, c : t = tx[w] /\ c = t.req.customer
  OBVIOUS
<1>2. pc[w] = "findCustomer"
  BY DEF FindCustomer
<1>3. CASE Abort(w)
  BY <1>3, AbortKeepsBalance
<1>4. CASE ~Abort(w)
  <2>1. UNCHANGED <<sale, customer, paid, num>>
    BY <1>4 DEF FindCustomer, tables
  <2>2. PICK u : u = [t EXCEPT !.cust = Seen(customer[c], w)]
    OBVIOUS
  <2>3. (c = NoCustomer /\ Goto(w, "checkStock", t)) \/ Goto(w, "checkStock", u)
    BY <1>1, <1>4, <2>2 DEF FindCustomer
  <2>4. LocalsTyped(t) /\ Charges(w, "findCustomer", t)
    BY <1>1, <1>2, ChargesHere
  <2>5. u.cust = Seen(customer[c], w) /\ u.req = t.req /\ u.pay = t.pay /\ t.pay = 0
    BY <2>2, <2>4 DEF LocalsTyped, LocalNames, Charges
  <2>6. ~Holds(w)
    BY <1>2, Saleless DEF Numberless, BeforeNumber
  <2>7. ~Holds(w)'
    <3>1. pc'[w] = "checkStock"
      BY <2>3 DEF Goto, StoreSound, HandlersKnow
    <3> QED
      BY <1>2, <2>1, <2>6, <3>1 DEF Holds, SaleIds
  <2>8. c \in Customers => u.cust.balance <= Owed(c)
    BY <2>5, <2>6, SeenWithin
  <2>9. "checkStock" \notin Saves
    BY DEF Saves
  <2>10. CASE Goto(w, "checkStock", u)
    BY <1>1, <2>1, <2>5, <2>6, <2>7, <2>8, <2>9, <2>10, OneReckons
  <2>11. CASE c = NoCustomer /\ Goto(w, "checkStock", t)
    <3>1. c \notin Customers
      BY <2>11, TablesAssumption
    <3> QED
      BY <1>1, <2>1, <2>5, <2>6, <2>7, <2>9, <2>11, <3>1, OneReckons
  <2> QED
    BY <2>3, <2>10, <2>11
<1> QED
  BY <1>3, <1>4

\* A number is given out before there is a sale.
LEMMA GenerateSaleNumberKeepsBalance ==
    ASSUME StoreSound, StoreSound', BalanceSound, NEW w \in Workers, GenerateSaleNumber(w)
    PROVE  BalanceSound'
<1>1. PICK t : t = tx[w]
  OBVIOUS
<1>2. pc[w] = "generateSaleNumber"
  BY DEF GenerateSaleNumber
<1>3. CASE Abort(w)
  BY <1>3, AbortKeepsBalance
<1>4. CASE ~Abort(w)
  <2>1. /\ UNCHANGED <<sale, customer, paid>> /\ Goto(w, "insertSale", t)
        /\ \A v \in Workers \ {w} : num'[v] = num[v]
    BY <1>1, <1>4 DEF GenerateSaleNumber, tables, StoreSound, TypeOK
  <2>2. Charges(w, "generateSaleNumber", t) /\ At("generateSaleNumber", t) = "generateSaleNumber"
    BY <1>1, <1>2, ChargesHere DEF Saves
  <2>3. ~Holds(w)
    BY <1>2, Saleless DEF Numberless, BeforeNumber
  <2>4. pc'[w] = "insertSale"
    BY <2>1 DEF Goto, StoreSound, HandlersKnow
  <2>5. ~Holds(w)'
    BY <2>4 DEF Holds
  <2>6. t.pay = 0 /\ (t.req.customer \in Customers => t.cust.balance <= Owed(t.req.customer))
    BY <2>2 DEF Charges, CustomerLoaded, Selling, BeforeNumber
  <2>7. "insertSale" \notin Saves
    BY DEF Saves
  <2> QED
    BY <1>1, <2>1, <2>3, <2>5, <2>6, <2>7, OneReckons
<1> QED
  BY <1>3, <1>4

\* The statements of a checkout that leave the customer alone.
LEMMA CreateKeepsBalance ==
    ASSUME StoreSound, StoreSound', BalanceSound, NEW w \in Workers,
           CheckStock(w) \/ FindBatches(w) \/ ShortOfBatches(w) \/ DeductProduct(w)
    PROVE  BalanceSound'
<1>1. PICK t, l : t = tx[w] /\ l = pc[w]
  OBVIOUS
<1>2. CASE Abort(w)
  BY <1>2, AbortKeepsBalance
<1>3. l \in {"checkStock", "findBatches", "takeBatch"}
  BY <1>1 DEF CheckStock, FindBatches, ShortOfBatches, DeductProduct
<1>4. l \in CustomerLoaded /\ At(l, t) = l /\ LocalsTyped(t)
  BY <1>1, <1>3, ChargesHere DEF CustomerLoaded, Selling, BeforeNumber, BatchSection, Saves
<1>5. CASE CheckStock(w) /\ ~Abort(w)
  <2>1. UNCHANGED <<sale, customer, paid, num>> /\ l # "insertSale"
    BY <1>1, <1>3, <1>5 DEF CheckStock, tables
  <2>2. ASSUME NEW j, NEW q, NEW p
        PROVE  LET u == Checked(t, j, q, p) IN u.pay = t.pay /\ u.req = t.req /\ u.cust = t.cust
    BY <1>4 DEF Checked, LocalsTyped, LocalNames
  <2>3. PICK m, u : /\ m \in {"checkStock", "generateSaleNumber"} /\ Goto(w, m, u)
                    /\ u.pay = t.pay /\ u.req = t.req /\ u.cust = t.cust
    BY <1>1, <1>5, <2>2 DEF CheckStock
  <2>4. m \notin Saves
    BY <2>3 DEF Saves
  <2> QED
    BY <1>1, <1>4, <2>1, <2>3, <2>4, Uncharged
<1>6. CASE FindBatches(w)
  <2>1. UNCHANGED <<sale, customer, paid, num>> /\ l # "insertSale"
    BY <1>1, <1>3, <1>6 DEF FindBatches, tables
  <2>2. PICK u : u = [t EXCEPT !.list = OpenBatches(t.req.items[t.i].product, w), !.left = t.req.items[t.i].qty]
    OBVIOUS
  <2>3. Goto(w, "takeBatch", u) /\ u.pay = t.pay /\ u.req = t.req /\ u.cust = t.cust
    BY <1>1, <1>4, <1>6, <2>2 DEF FindBatches, LocalsTyped, LocalNames
  <2>4. "takeBatch" \notin Saves
    BY DEF Saves
  <2> QED
    BY <1>1, <1>4, <2>1, <2>3, <2>4, Uncharged
<1>7. CASE DeductProduct(w)
  <2>1. UNCHANGED <<sale, customer, paid, num>> /\ l # "insertSale"
    BY <1>1, <1>3, <1>7 DEF DeductProduct, tables
  <2>2. PICK q, ent : q = t.req.items[t.i].product /\ ent = [t.prod[q] EXCEPT !.stock = @ - t.req.items[t.i].qty]
    OBVIOUS
  <2>3. PICK u : u = [t EXCEPT !.prod[q] = ent, !.list = NoList]
    OBVIOUS
  <2>4. PICK v : v = [u EXCEPT !.i = @ + 1]
    OBVIOUS
  <2>5. /\ u.pay = t.pay /\ u.req = t.req /\ u.cust = t.cust /\ DOMAIN u = LocalNames
        /\ v.pay = t.pay /\ v.req = t.req /\ v.cust = t.cust /\ DOMAIN v = LocalNames
    BY <1>4, <2>3, <2>4 DEF LocalsTyped, LocalNames
  <2>6. Save(w, "product", q, ent, "findBatches", v) \/ Save(w, "product", q, ent, "chargeCustomer", u)
    BY <1>1, <1>7, <2>2, <2>3, <2>4 DEF DeductProduct
  <2> QED
    BY <1>1, <1>4, <2>1, <2>5, <2>6, UnchargedSave
<1> QED
  BY <1>2, <1>5, <1>6, <1>7 DEF ShortOfBatches

\* A checkout writes its sale, which charges what the request asks for.
LEMMA SaleWriteKeepsBalance ==
    ASSUME StoreSound, StoreSound', BalanceSound, NEW w \in Workers, NEW n \in SaleIds, n = num[w],
           sale[n].xid \in {NoTx, w}, NEW row \in SaleRow,
           sale' = [sale EXCEPT ![n] = Written(@, w, row)], UNCHANGED <<customer, paid, num>>,
           NEW l, NEW t, Goto(w, l, t), l # "insertSale", ~(l \in Saves /\ t.tbl = "customer"),
           t.req = tx[w].req, t.cust = tx[w].cust, t.pay = tx[w].pay,
           row.customer = t.req.customer, row.credit = t.req.credit,
           At(pc[w], tx[w]) \in CustomerLoaded
    PROVE  BalanceSound'
<1>1. Charges(w, pc[w], tx[w]) /\ w # NoTx
  BY TablesAssumption DEF BalanceSound
<1>2. sale'[n].cur = sale[n].cur /\ sale'[n].new = row /\ sale'[n].xid = w
  BY DEF StoreSound, TypeOK, Versions, Written
<1>3. \A s \in SaleIds \ {n} : sale'[s] = sale[s]
  BY DEF StoreSound, TypeOK
<1>4. /\ \A s \in SaleIds : sale'[s].xid = w => num'[w] = s
      /\ \A s \in SaleIds : sale'[s] # sale[s] => sale[s].xid \in {NoTx, w} /\ sale'[s].xid \in {NoTx, w}
  <2>1. ASSUME NEW s \in SaleIds, s # n, sale[s].xid = w PROVE FALSE
    BY <1>1, <2>1 DEF BalanceSound, OpenSalesInserted
  <2> QED
    BY <1>2, <1>3, <2>1
<1>5. \A c : Owed(c)' = Owed(c)
  BY <1>2, <1>3, SameOwed
<1>6. pc'[w] = l /\ tx'[w] = t /\ num'[w] = n /\ Holds(w)'
  BY DEF Goto, StoreSound, HandlersKnow, Holds, SaleIds
<1>7. ASSUME NEW c PROVE Coming(w, c)' >= Coming(w, c)
  <2>1. Coming(w, c)' = IF row.customer = c THEN row.credit ELSE 0
    BY <1>2, <1>6 DEF Coming
  <2>2. Coming(w, c) = 0 \/ Coming(w, c) = IF row.customer = c THEN row.credit ELSE 0
    BY <1>1 DEF Coming, Charges
  <2>3. row.credit \in Nat
    BY DEF SaleRow
  <2> QED
    BY <2>1, <2>2, <2>3
<1>8. ASSUME NEW c \in Customers
      PROVE  \/ customer'[c] = customer[c] /\ customer[c].xid \notin {NoTx, w}
             \/ customer'[c].xid \in {NoTx, w} /\ WithinOwed(c)'
  <2>1. PICK o, a, b, r : o = Owed(c) /\ a = Coming(w, c) /\ b = Coming(w, c)' /\ r = customer[c]
    OBVIOUS
  <2>2. o \in Int /\ a \in Nat /\ b >= a /\ b \in Int
    <3>1. b = 0 \/ b = row.credit
      BY <1>2, <1>6, <2>1 DEF Coming
    <3>2. row.credit \in Nat
      BY DEF SaleRow
    <3>3. o \in Int /\ a \in Nat /\ b >= a
      BY <1>7, <2>1, OwedTyped, ComingTyped
    <3> QED
      BY <3>1, <3>2, <3>3
  <2>3. CASE r.xid \in {NoTx, w}
    <3>1. paid'[c] = 0 /\ r.cur.balance <= o /\ (r.xid = w => r.new.balance <= o + a)
      BY <1>1, <2>1 DEF BalanceSound, WithinOwed
    <3>2. r.new.balance \in Int
      BY <2>1 DEF StoreSound, TypeOK, Versions, CustomerRow
    <3>3. r.xid = w => r.new.balance <= o + b
      BY <2>2, <3>1, <3>2
    <3>4. customer'[c] = r /\ Owed(c)' = o
      BY <1>5, <2>1
    <3> QED
      BY <2>1, <2>3, <3>1, <3>3, <3>4 DEF WithinOwed
  <2> QED
    BY <2>1, <2>3
<1>9. Charges(w, l, t)'
  <2>1. t.pay = 0 /\ (t.req.customer \in Customers => t.cust.balance <= Owed(t.req.customer)')
    BY <1>1, <1>5 DEF Charges
  <2> QED
    BY <1>2, <1>6, <2>1 DEF Charges
<1>10. \A c \in Customers : paid'[c] = 0 /\ Owed(c)' >= Owed(c)
  BY <1>5, OwedTyped DEF BalanceSound, WithinOwed
<1> QED
  BY <1>4, <1>8, <1>9, <1>10, OneCharges

LEMMA InsertSaleKeepsBalance ==
    ASSUME StoreSound, StoreSound', BalanceSound, NEW w \in Workers, InsertSale(w)
    PROVE  BalanceSound'
<1>1. PICK n, t : n = num[w] /\ t = tx[w]
  OBVIOUS
<1>2. CASE Abort(w)
  BY <1>2, AbortKeepsBalance
<1>3. CASE ~Abort(w)
  <2>1. /\ pc[w] = "insertSale" /\ Goto(w, "findBatches", t) /\ UNCHANGED <<customer, paid, num>>
        /\ sale[n].xid \in {NoTx, w}
    BY <1>1, <1>3 DEF InsertSale, Writable
  <2>2. PICK d, row : /\ d \in Dates(w) /\ row = NewSale(t.req, d)
                      /\ sale' = [sale EXCEPT ![n] = Written(@, w, row)]
    BY <1>1, <1>3 DEF InsertSale
  <2>3. /\ Knows("insertSale", t) /\ NumberFits("insertSale", t, n)
        /\ At("insertSale", t) = "insertSale"
    BY <1>1, <2>1, ChargesHere DEF Saves
  <2>4. n \in SaleIds /\ t.req \in SaleForm
    BY <2>3 DEF NumberFits, Knows, Selling
  <2>5. row \in SaleRow /\ row.customer = t.req.customer /\ row.credit = t.req.credit
    <3>1. d \in Nat
      <4>1. n[1] \in Int /\ n[1] > 0 /\ today \in Int
        BY <2>4, TablesAssumption DEF SaleIds, StoreSound, TypeOK
      <4> QED
        BY <1>1, <2>2, <4>1 DEF Dates
    <3>2. t.req.customer \in Customers \cup {NoCustomer} /\ t.req.credit \in Nat
      BY <2>4 DEF SaleForm
    <3> QED
      BY <2>2, <3>1, <3>2 DEF NewSale, SaleRow
  <2>6. "findBatches" \notin Saves
    BY DEF Saves
  <2>7. At(pc[w], tx[w]) \in CustomerLoaded
    BY <1>1, <2>1, <2>3 DEF CustomerLoaded, Selling
  <2>8. sale' = [sale EXCEPT ![n] = Written(@, w, row)]
    BY <2>2
  <2> QED
    BY <1>1, <2>1, <2>4, <2>5, <2>6, <2>7, <2>8, SaleWriteKeepsBalance
<1> QED
  BY <1>2, <1>3

LEMMA TakeBatchKeepsBalance ==
    ASSUME StoreSound, StoreSound', BalanceSound, NEW w \in Workers, TakeBatch(w)
    PROVE  BalanceSound'
<1>1. PICK n, t : n = num[w] /\ t = tx[w]
  OBVIOUS
<1>2. pc[w] = "takeBatch" /\ UNCHANGED <<customer, paid, num>>
  BY DEF TakeBatch
<1>3. PICK k, b, d :
         /\ k \in Slots /\ IsOldest(k, t.list)
         /\ b = <<t.req.items[t.i].product, k>> /\ d = Smaller(t.list[k].qty, t.left)
         /\ sale' = [sale EXCEPT ![n] = Written(@, w, WithItem(@.new, b, d))]
         /\ Save(w, "batch", b, Deducted(t.list[k], d), "takeBatch", Took(t, k, b, d))
  BY <1>1 DEF TakeBatch
<1>4. PICK v, u : v = Took(t, k, b, d) /\ u = Saving("batch", b, Deducted(t.list[k], d), "takeBatch", v)
  OBVIOUS
<1>5. /\ Knows("takeBatch", t) /\ LocalsTyped(t) /\ NumberFits("takeBatch", t, n)
      /\ At("takeBatch", t) = "takeBatch" /\ Charges(w, "takeBatch", t)
  BY <1>1, <1>2, ChargesHere DEF Saves
<1>6. n \in SaleIds /\ Holds(w)
  BY <1>1, <1>2, <1>5 DEF NumberFits, BatchSection, Holds
<1>7. sale[n].xid = w /\ sale[n].new \in SaleRow
  BY <1>1, <1>6 DEF StoreSound, NumbersHeld, TypeOK, Versions
<1>8. PICK row : row = WithItem(sale[n].new, b, d)
  OBVIOUS
<1>9. sale' = [sale EXCEPT ![n] = Written(@, w, row)]
  BY <1>3, <1>8
<1>10. row \in SaleRow
  <2>1. t.req.items[t.i].product \in Products
    <3>1. t.req \in SaleForm /\ t.i <= Len(t.req.items)
      BY <1>5 DEF Knows, Selling, BatchSection
    <3>2. t.i \in Nat \ {0}
      BY <1>5 DEF LocalsTyped
    <3> QED
      BY <3>1, <3>2, ItemTyped
  <2>2. b \in BatchIds /\ d \in Nat
    BY <1>3, <1>5, <2>1 DEF BatchIds, IsOldest, LocalsTyped, Smaller, BatchRow
  <2> QED
    BY <1>7, <1>8, <2>2, WithItemTyped
<1>11. row.customer = t.req.customer /\ row.credit = t.req.credit
  <2>1. row.customer = sale[n].new.customer /\ row.credit = sale[n].new.credit
    BY <1>7, <1>8 DEF WithItem, SaleRow
  <2> QED
    BY <1>1, <1>5, <1>6, <2>1 DEF Charges
<1>12. v.req = t.req /\ v.cust = t.cust /\ v.pay = t.pay /\ DOMAIN v = LocalNames
  BY <1>4, <1>5 DEF Took, LocalsTyped, LocalNames
<1>13. u.req = t.req /\ u.cust = t.cust /\ u.pay = t.pay /\ u.tbl = "batch"
  BY <1>4, <1>12 DEF Saving, LocalNames
<1>14. Goto(w, "select", u) /\ "takeBatch" \in CustomerLoaded
  BY <1>3, <1>4 DEF Save, CustomerLoaded, Selling, BatchSection
<1> QED
  BY <1>1, <1>2, <1>5, <1>6, <1>7, <1>9, <1>10, <1>11, <1>13, <1>14, SaleWriteKeepsBalance

\* A checkout charges its sale to the balance it has read.
LEMMA ChargeCustomerKeepsBalance ==
    ASSUME StoreSound, StoreSound', BalanceSound, NEW w \in Workers, ChargeCustomer(w)
    PROVE  BalanceSound'
<1>1. PICK t, c : t = tx[w] /\ c = t.req.customer
  OBVIOUS
<1>2. pc[w] = "chargeCustomer" /\ UNCHANGED <<sale, customer, paid, num>>
  BY DEF ChargeCustomer, tables
<1>3. /\ Knows("chargeCustomer", t) /\ LocalsTyped(t) /\ NumberFits("chargeCustomer", t, num[w])
      /\ At("chargeCustomer", t) = "chargeCustomer" /\ Charges(w, "chargeCustomer", t)
  BY <1>1, <1>2, ChargesHere DEF Saves
<1>4. t.pay = 0 /\ t.req \in SaleForm
  BY <1>3 DEF Charges, Knows, Selling, BatchSection
<1>5. num[w] \in SaleIds /\ Holds(w)
  BY <1>2, <1>3 DEF NumberFits, BatchSection, Holds
<1>6. CASE Goto(w, "commit", t)
  <2>1. "commit" \notin Saves /\ At("commit", t) \notin CustomerLoaded
    BY DEF Saves, At, CustomerLoaded, Selling, BeforeNumber, BatchSection
  <2> QED
    BY <1>1, <1>2, <1>6, <2>1, Uncharged
<1>7. CASE c # NoCustomer /\ Save(w, "customer", c, [t.cust EXCEPT !.balance = @ + t.req.credit], "commit", t)
  <2>1. PICK ent, u : /\ ent = [t.cust EXCEPT !.balance = @ + t.req.credit]
                      /\ u = Saving("customer", c, ent, "commit", t)
    OBVIOUS
  <2>2. Goto(w, "select", u)
    BY <1>7, <2>1 DEF Save
  <2>3. u.req = t.req /\ u.pay = 0 /\ u.tbl = "customer" /\ u.key = c /\ u.ent = ent /\ u.then = "commit"
    BY <1>3, <1>4, <2>1 DEF Saving, LocalsTyped, LocalNames
  <2>4. At("select", u) \notin CustomerLoaded
    BY <2>3 DEF Saves, At, CustomerLoaded, Selling, BeforeNumber, BatchSection
  <2>5. c \in Customers /\ t.req.credit \in Nat
    BY <1>1, <1>4, <1>7 DEF SaleForm
  <2>6. t.cust.balance <= Owed(c) /\ Coming(w, c) = t.req.credit
    <3>1. t.cust.balance <= Owed(c)
      BY <1>1, <1>3, <2>5 DEF Charges, CustomerLoaded, Selling, BatchSection
    <3>2. Coming(w, c) = t.req.credit
      BY <1>1, <1>3, <1>5 DEF Charges, Coming
    <3> QED
      BY <3>1, <3>2
  <2>7. ent.balance = t.cust.balance + t.req.credit /\ t.cust.balance \in Int
    BY <1>3, <2>1 DEF LocalsTyped, CustomerRow
  <2>8. Owed(c) \in Int
    BY OwedTyped
  <2>9. u.ent.balance <= Owed(u.key) + Coming(w, u.key)
    BY <2>3, <2>5, <2>6, <2>7, <2>8
  <2>10. pc'[w] = "select"
    BY <2>2 DEF Goto, StoreSound, HandlersKnow
  <2>11. Holds(w)'
    BY <1>2, <1>5, <2>10 DEF Holds, SaleIds
  <2> QED
    BY <1>1, <1>2, <1>5, <2>2, <2>3, <2>4, <2>9, <2>11, OneReckons
<1> QED
  BY <1>1, <1>6, <1>7 DEF ChargeCustomer

\* Without payments and voids the other handlers save no lower or higher balance
\* than the one they have read.
LEMMA MaintainCustomersKeepsBalance ==
    ASSUME OnlyCharges, StoreSound, StoreSound', BalanceSound, NEW w \in Workers, MaintainCustomers(w)
    PROVE  BalanceSound'
<1>1. PICK t, l, c : t = tx[w] /\ l = pc[w] /\ c = t.req.customer
  OBVIOUS
<1>2. l \in Accounting
  BY <1>1 DEF MaintainCustomers, FindAccount, EditCustomer, DeactivateCustomer, FindDebtor, InsertPayment,
              Accounting
<1>3. /\ Knows(l, t) /\ LocalsTyped(t) /\ Charges(w, l, t) /\ At(l, t) = l
  BY <1>1, <1>2, ChargesHere DEF Accounting, Saves
<1>4. t.req.kind # "payment"
  BY <1>2, <1>3 DEF Knows, Accounting, OnlyCharges
<1>5. l \in {"findAccount", "editCustomer", "deactivateCustomer"} /\ t.req \in LimitForm \cup AccountForm
  BY <1>2, <1>3, <1>4 DEF Knows, Accounting, PaymentForm
<1>6. c \in Customers /\ t.pay = 0 /\ t.cust \in CustomerRow
  BY <1>1, <1>3, <1>5 DEF LimitForm, AccountForm, Charges, LocalsTyped
<1>7. ~Holds(w) /\ UNCHANGED <<sale, customer, paid, num>>
  <2>1. ~Holds(w)
    BY <1>1, <1>2, Saleless DEF Numberless
  <2> QED
    BY <1>1, <1>5, <2>1
    DEF MaintainCustomers, FindAccount, EditCustomer, DeactivateCustomer, FindDebtor, InsertPayment, tables
<1>8. ASSUME NEW m, NEW u, Goto(w, m, u), m # "insertSale" PROVE ~Holds(w)'
  BY <1>1, <1>5, <1>7, <1>8 DEF Holds, SaleIds
<1>9. CASE FindAccount(w)
  <2>1. PICK m, u : m = t.req.kind /\ u = [t EXCEPT !.cust = Seen(customer[c], w)]
    OBVIOUS
  <2>2. m \in {"editCustomer", "deactivateCustomer"}
    BY <1>5, <2>1 DEF LimitForm, AccountForm
  <2>3. m \notin Saves /\ m # "insertSale"
    BY <2>2 DEF Saves
  <2>4. Goto(w, m, u)
    BY <1>1, <1>9, <2>1 DEF FindAccount
  <2>5. u.req = t.req /\ u.pay = 0 /\ u.cust = Seen(customer[c], w)
    BY <1>3, <1>6, <2>1 DEF LocalsTyped, LocalNames
  <2>6. u.cust.balance <= Owed(c)
    BY <1>6, <1>7, <2>5, SeenWithin
  <2> QED
    BY <1>1, <1>7, <1>8, <2>3, <2>4, <2>5, <2>6, OneReckons
<1>10. CASE EditCustomer(w) \/ DeactivateCustomer(w)
  <2>1. PICK ent : /\ ent \in {[t.cust EXCEPT !.limit = t.req.limit], [t.cust EXCEPT !.active = FALSE]}
                   /\ Save(w, "customer", c, ent, "commit", t)
    BY <1>1, <1>10 DEF EditCustomer, DeactivateCustomer
  <2>2. ent.balance = t.cust.balance
    BY <1>6, <2>1 DEF CustomerRow
  <2>3. PICK u : u = Saving("customer", c, ent, "commit", t)
    OBVIOUS
  <2>4. Goto(w, "select", u)
    BY <2>1, <2>3 DEF Save
  <2>5. u.req = t.req /\ u.pay = 0 /\ u.tbl = "customer" /\ u.key = c /\ u.ent = ent /\ u.then = "commit"
    BY <1>3, <1>6, <2>3 DEF Saving, LocalsTyped, LocalNames
  <2>6. At("select", u) \notin CustomerLoaded
    BY <2>5 DEF Saves, At, CustomerLoaded, Selling, BeforeNumber, BatchSection
  <2>7. l \in CustomerLoaded
    BY <1>1, <1>10 DEF EditCustomer, DeactivateCustomer, CustomerLoaded
  <2>8. t.cust.balance <= Owed(c)
    BY <1>1, <1>3, <1>6, <2>7 DEF Charges
  <2>9. Coming(w, c) = 0 /\ Owed(c) \in Int
    BY <1>7, OwedTyped DEF Coming
  <2>10. u.ent.balance <= Owed(u.key) + Coming(w, u.key)
    BY <2>2, <2>5, <2>8, <2>9
  <2> QED
    BY <1>1, <1>7, <1>8, <2>4, <2>5, <2>6, <2>10, OneReckons
<1> QED
  BY <1>1, <1>5, <1>9, <1>10 DEF MaintainCustomers, FindDebtor, InsertPayment

LEMMA AdjustKeepsBalance ==
    ASSUME StoreSound, StoreSound', BalanceSound, NEW w \in Workers, Adjust(w)
    PROVE  BalanceSound'
<1>1. PICK t, l, p : t = tx[w] /\ l = pc[w] /\ p = t.req.product
  OBVIOUS
<1>2. CASE Abort(w)
  BY <1>2, AbortKeepsBalance
<1>3. CASE ~Abort(w)
  <2>1. l \in Adjusting /\ UNCHANGED <<sale, customer, paid, num>>
    BY <1>1, <1>3 DEF Adjust, FindStock, StockIn, StockOut, DrainBatch, BatchesExhausted, DeductStock,
                      Adjusting, tables
  <2>2. Knows(l, t) /\ LocalsTyped(t) /\ At(l, t) = l /\ l # "insertSale"
    BY <1>1, <2>1, ChargesHere DEF Adjusting, Saves
  <2>3. DOMAIN t = LocalNames
    BY <2>2 DEF LocalsTyped
  <2>4. "commit" \notin CustomerLoaded /\ "drainBatch" \notin CustomerLoaded
    BY DEF CustomerLoaded, Selling, BeforeNumber, BatchSection
  <2>5. CASE FindStock(w)
    <3>1. PICK m, u : m = t.req.kind /\ u = [t EXCEPT !.prod[p] = Seen(product[p], w)]
      OBVIOUS
    <3>2. t.req \in StockForm
      BY <2>1, <2>2 DEF Knows
    <3>3. m \in {"stockIn", "stockOut"}
      BY <3>1, <3>2 DEF StockForm
    <3>4. m \notin Saves /\ At(m, u) \notin CustomerLoaded /\ m # "insertSale"
      BY <3>3 DEF Saves, At, CustomerLoaded, Selling, BeforeNumber, BatchSection
    <3>5. Goto(w, m, u)
      BY <1>1, <2>5, <3>1 DEF FindStock
    <3>6. u.req = t.req /\ u.pay = t.pay
      BY <2>3, <3>1 DEF LocalNames
    <3> QED
      BY <1>1, <2>1, <2>2, <3>4, <3>5, <3>6, Uncharged
  <2>6. CASE StockIn(w)
    <3>1. PICK k, ent : Save(w, "product", p, ent, "commit", [t EXCEPT !.moves[<<p, k>>] = t.req.qty])
      BY <1>1, <2>6 DEF StockIn
    <3>2. PICK u : u = [t EXCEPT !.moves[<<p, k>>] = t.req.qty]
      OBVIOUS
    <3>3. u.req = t.req /\ u.pay = t.pay /\ DOMAIN u = LocalNames
      BY <2>3, <3>2 DEF LocalNames
    <3>4. Save(w, "product", p, ent, "commit", u)
      BY <3>1, <3>2
    <3> QED
      BY <1>1, <2>1, <2>2, <2>4, <3>3, <3>4, UnchargedSave
  <2>7. CASE StockOut(w)
    <3>1. PICK u : u = [t EXCEPT !.list = OpenBatches(p, w), !.left = t.req.qty]
      OBVIOUS
    <3>2. Goto(w, "drainBatch", u)
      BY <1>1, <1>3, <2>7, <3>1 DEF StockOut
    <3>3. u.req = t.req /\ u.pay = t.pay
      BY <2>3, <3>1 DEF LocalNames
    <3>4. "drainBatch" \notin Saves /\ At("drainBatch", u) \notin CustomerLoaded
      BY <2>4 DEF Saves, At
    <3> QED
      BY <1>1, <2>1, <2>2, <3>2, <3>3, <3>4, Uncharged
  <2>8. CASE DrainBatch(w)
    <3>1. PICK b, d, k, ent, u :
             /\ u = [t EXCEPT !.list = Without(@, k), !.left = @ - d,
                              !.moves[b] = IF t.left = t.req.qty THEN - t.req.qty ELSE @]
             /\ Save(w, "batch", b, ent, "drainBatch", u)
      BY <1>1, <2>8 DEF DrainBatch
    <3>2. u.req = t.req /\ u.pay = t.pay /\ DOMAIN u = LocalNames
      BY <2>3, <3>1 DEF LocalNames
    <3> QED
      BY <1>1, <2>1, <2>2, <2>4, <3>1, <3>2, UnchargedSave
  <2>9. CASE DeductStock(w)
    <3>1. PICK ent, u : Save(w, "product", p, ent, "commit", u) /\ u = [t EXCEPT !.list = NoList]
      BY <1>1, <2>9 DEF DeductStock
    <3>2. u.req = t.req /\ u.pay = t.pay /\ DOMAIN u = LocalNames
      BY <2>3, <3>1 DEF LocalNames
    <3> QED
      BY <1>1, <2>1, <2>2, <2>4, <3>1, <3>2, UnchargedSave
  <2> QED
    BY <1>3, <2>5, <2>6, <2>7, <2>8, <2>9 DEF Adjust, BatchesExhausted
<1> QED
  BY <1>2, <1>3

LEMMA MaintainProductsKeepsBalance ==
    ASSUME StoreSound, StoreSound', BalanceSound, NEW w \in Workers, MaintainProducts(w)
    PROVE  BalanceSound'
<1>1. PICK t, l, p : t = tx[w] /\ l = pc[w] /\ p = t.req.product
  OBVIOUS
<1>2. l \in Editing /\ UNCHANGED <<sale, customer, paid, num>>
  BY <1>1 DEF MaintainProducts, FindProduct, EditProduct, RemoveProduct, Editing, tables
<1>3. Knows(l, t) /\ LocalsTyped(t) /\ At(l, t) = l /\ l # "insertSale"
  BY <1>1, <1>2, ChargesHere DEF Editing, Saves
<1>4. DOMAIN t = LocalNames /\ t.req \in ProductForm
  BY <1>2, <1>3 DEF LocalsTyped, Knows
<1>5. CASE FindProduct(w)
  <2>1. PICK m, u : m = t.req.kind /\ u = [t EXCEPT !.prod[p] = Seen(product[p], w)]
    OBVIOUS
  <2>2. m \in {"editProduct", "removeProduct"}
    BY <1>4, <2>1 DEF ProductForm
  <2>3. m \notin Saves /\ At(m, u) \notin CustomerLoaded /\ m # "insertSale"
    BY <2>2 DEF Saves, At, CustomerLoaded, Selling, BeforeNumber, BatchSection
  <2>4. Goto(w, m, u)
    BY <1>1, <1>5, <2>1 DEF FindProduct
  <2>5. u.req = t.req /\ u.pay = t.pay
    BY <1>4, <2>1 DEF LocalNames
  <2> QED
    BY <1>1, <1>2, <1>3, <2>3, <2>4, <2>5, Uncharged
<1>6. CASE EditProduct(w) \/ RemoveProduct(w)
  <2>1. PICK ent : Save(w, "product", p, ent, "commit", t)
    BY <1>1, <1>6 DEF EditProduct, RemoveProduct
  <2>2. "commit" \notin CustomerLoaded
    BY DEF CustomerLoaded, Selling, BeforeNumber, BatchSection
  <2> QED
    BY <1>1, <1>2, <1>3, <1>4, <2>1, <2>2, UnchargedSave
<1> QED
  BY <1>5, <1>6 DEF MaintainProducts

\* The first half of a save only reads.
LEMMA SaveSelectKeepsBalance ==
    ASSUME StoreSound, StoreSound', BalanceSound, NEW w \in Workers, SaveSelect(w)
    PROVE  BalanceSound'
<1>1. PICK t, cols : t = tx[w] /\ cols = Changed(t.ent, Seen(RowOf(t), w)) \cup Details(t.req)
  OBVIOUS
<1>2. pc[w] = "select" /\ UNCHANGED <<sale, customer, paid, num>> /\ "select" \in Saves /\ "update" \in Saves
  BY DEF SaveSelect, tables, Saves
<1>3. Knows("select", t) /\ LocalsTyped(t)
  BY <1>1, <1>2, ChargesHere
<1>4. SaveTyped(t) /\ DOMAIN t = LocalNames
  BY <1>2, <1>3 DEF Knows, LocalsTyped
<1>5. t.then \notin Saves /\ t.then # "insertSale" /\ At("select", t) = t.then
  BY <1>2, <1>4 DEF SaveTyped, AfterSave, Saves, At
<1>6. PICK u, v : u = [t EXCEPT !.cols = cols] /\ v = Saved(t)
  OBVIOUS
<1>7. /\ u.req = t.req /\ u.pay = t.pay /\ u.cust = t.cust /\ u.tbl = t.tbl /\ u.key = t.key
      /\ u.ent = t.ent /\ u.then = t.then
      /\ v.req = t.req /\ v.pay = t.pay /\ v.cust = t.cust
  BY <1>4, <1>6 DEF Saved, LocalNames
<1>8. At("update", u) = At("select", t) /\ At(t.then, v) = At("select", t)
  BY <1>2, <1>5, <1>7 DEF At
<1>9. Goto(w, t.then, v) \/ Goto(w, "update", u)
  BY <1>1, <1>6 DEF SaveSelect
<1>10. CASE Goto(w, "update", u)
  BY <1>1, <1>2, <1>7, <1>8, <1>10, Uncharged
<1>11. CASE Goto(w, t.then, v)
  BY <1>1, <1>2, <1>5, <1>7, <1>8, <1>11, Uncharged
<1> QED
  BY <1>9, <1>10, <1>11

\* A save of another table.
LEMMA OtherUpdateKeepsBalance ==
    ASSUME StoreSound, StoreSound', BalanceSound, NEW w \in Workers, SaveUpdate(w),
           tx[w].tbl \notin {"customer", "sale"}
    PROVE  BalanceSound'
<1>1. PICK t, u : t = tx[w] /\ u = Saved(t)
  OBVIOUS
<1>2. pc[w] = "update" /\ UNCHANGED <<sale, customer, paid, num>> /\ Goto(w, t.then, u) /\ "update" \in Saves
  BY <1>1 DEF SaveUpdate, Updated, Saves
<1>3. Knows("update", t) /\ LocalsTyped(t)
  BY <1>1, <1>2, ChargesHere
<1>4. SaveTyped(t) /\ DOMAIN t = LocalNames
  BY <1>2, <1>3 DEF Knows, LocalsTyped
<1>5. t.then \notin Saves /\ t.then # "insertSale" /\ At("update", t) = t.then
  BY <1>2, <1>4 DEF SaveTyped, AfterSave, Saves, At
<1>6. u.req = t.req /\ u.pay = t.pay /\ u.cust = t.cust /\ At(t.then, u) = t.then
  BY <1>1, <1>4, <1>5 DEF Saved, LocalNames, At
<1> QED
  BY <1>1, <1>2, <1>5, <1>6, Uncharged

\* The UPDATE of a customer writes the balance of the row or that of the entity.
LEMMA CustomerUpdateKeepsBalance ==
    ASSUME StoreSound, StoreSound', BalanceSound, NEW w \in Workers, SaveUpdate(w), tx[w].tbl = "customer"
    PROVE  BalanceSound'
<1>1. PICK t, l, u, k : t = tx[w] /\ l = t.then /\ u = Saved(t) /\ k = t.key
  OBVIOUS
<1>2. /\ pc[w] = "update" /\ "update" \in Saves
      /\ UNCHANGED <<sale, paid, num>> /\ Goto(w, l, u)
  BY <1>1 DEF SaveUpdate, Updated, Saves
<1>3. Knows("update", t) /\ LocalsTyped(t) /\ Charges(w, "update", t)
  BY <1>1, <1>2, ChargesHere
<1>4. SaveTyped(t) /\ DOMAIN t = LocalNames
  BY <1>2, <1>3 DEF Knows, LocalsTyped
<1>5. l \notin Saves /\ l # "insertSale" /\ At("update", t) = l
  BY <1>1, <1>2, <1>4 DEF SaveTyped, AfterSave, Saves, At
<1>6. u.req = t.req /\ u.pay = t.pay /\ u.cust = t.cust /\ At(l, u) = l
  BY <1>1, <1>4, <1>5 DEF Saved, LocalNames, At
<1>7. PICK v : v = Patched(Seen(customer[k], w), t.ent, t.cols)
  OBVIOUS
<1>8. /\ k \in Customers /\ t.ent \in CustomerRow /\ customer[k] \in Versions(CustomerRow, Workers)
      /\ customer[k].xid \in {NoTx, w}
  <2>1. k \in Customers /\ t.ent \in CustomerRow
    BY <1>1, <1>4 DEF SaveTyped
  <2>2. customer[k].xid \in {NoTx, w}
    BY <1>1 DEF SaveUpdate, RowOf, Writable
  <2> QED
    BY <2>1, <2>2 DEF StoreSound, TypeOK
<1>9. customer'[k] = Written(customer[k], w, v) /\ \A c \in Customers \ {k} : customer'[c] = customer[c]
  BY <1>1, <1>7, <1>8 DEF SaveUpdate, Updated, StoreSound, TypeOK
<1>10. customer'[k].cur = customer[k].cur /\ customer'[k].new = v /\ customer'[k].xid = w
  BY <1>8, <1>9 DEF Written, Versions
<1>11. \A c : Owed(c)' = Owed(c)
  BY <1>2, SameOwed
<1>12. Holds(w)' <=> Holds(w)
  BY <1>2, <1>5 DEF Holds, Goto, StoreSound, HandlersKnow, SaleIds
<1>13. \A c : Coming(w, c)' = Coming(w, c)
  BY <1>2, <1>12 DEF Coming
<1>14. WithinOwed(k)'
  <2>1. PICK o, a, r : o = Owed(k) /\ a = Coming(w, k) /\ r = customer[k]
    OBVIOUS
  <2>2. paid[k] = 0 /\ r.cur.balance <= o /\ (r.xid = w => r.new.balance <= o + a)
    BY <1>8, <2>1, TablesAssumption DEF BalanceSound, WithinOwed
  <2>3. o \in Int /\ a \in Nat /\ r.cur.balance \in Int /\ r.new.balance \in Int
    BY <1>8, <2>1, OwedTyped, ComingTyped DEF Versions, CustomerRow
  <2>4. Seen(r, w).balance <= o + a
    BY <2>2, <2>3 DEF Seen
  <2>5. t.ent.balance <= o + a
    BY <1>1, <1>2, <1>3, <2>1 DEF Charges
  <2>6. v.balance = Seen(r, w).balance \/ v.balance = t.ent.balance
    <3>1. Seen(r, w) \in CustomerRow
      BY <1>8, <2>1, SeenTyped
    <3> QED
      BY <1>7, <2>1, <3>1 DEF Patched, CustomerRow
  <2>7. v.balance <= o + a
    BY <2>4, <2>5, <2>6
  <2>8. Owed(k)' = o /\ Coming(w, k)' = a /\ paid'[k] = 0
    BY <1>2, <1>11, <1>13, <2>1, <2>2
  <2> QED
    BY <1>10, <2>1, <2>2, <2>7, <2>8 DEF WithinOwed
<1>15. ASSUME NEW c \in Customers
       PROVE  \/ customer'[c] = customer[c] /\ customer[c].xid \notin {NoTx, w}
              \/ customer'[c].xid \in {NoTx, w} /\ WithinOwed(c)'
  <2>1. CASE c = k
    BY <1>10, <1>14, <2>1
  <2>2. CASE c # k /\ customer[c].xid \in {NoTx, w}
    <3>1. WithinOwed(c)
      BY DEF BalanceSound
    <3>2. WithinOwed(c)'
      BY <1>2, <1>9, <1>11, <1>13, <2>2, <3>1 DEF WithinOwed
    <3> QED
      BY <1>9, <2>2, <3>2
  <2> QED
    BY <1>9, <2>1, <2>2
<1>16. Charges(w, l, u)'
  <2>1. Charges(w, "update", t)
    BY <1>3
  <2> QED
    BY <1>1, <1>2, <1>5, <1>6, <1>11, <1>12, <2>1
    DEF Charges, At, Saves, CustomerLoaded, Selling, BeforeNumber, BatchSection
<1>17. \A s \in SaleIds : sale[s].xid = w => num[w] = s
  <2>1. w # NoTx
    BY TablesAssumption
  <2> QED
    BY <2>1 DEF BalanceSound, OpenSalesInserted
<1>18. \A c \in Customers : paid'[c] = 0 /\ Owed(c)' >= Owed(c)
  BY <1>2, <1>11, OwedTyped DEF BalanceSound, WithinOwed
<1> QED
  BY <1>2, <1>15, <1>16, <1>17, <1>18, OneCharges

LEMMA SaveUpdateKeepsBalance ==
    ASSUME OnlyCharges, StoreSound, StoreSound', BalanceSound, NEW w \in Workers, SaveUpdate(w)
    PROVE  BalanceSound'
<1>1. ASSUME tx[w].tbl = "sale" PROVE FALSE
  <2>1. PICK t : t = tx[w]
    OBVIOUS
  <2>2. Knows("update", t)
    BY <2>1, ChargesHere DEF SaveUpdate
  <2>3. t.req \in VoidForm /\ t.req \in Requests
    BY <1>1, <2>1, <2>2 DEF Knows, SaveTyped, Saves
  <2> QED
    BY <2>3 DEF VoidForm, OnlyCharges
<1> QED
  BY <1>1, OtherUpdateKeepsBalance, CustomerUpdateKeepsBalance

\* A request has read no customer yet.
LEMMA BeginKeepsBalance ==
    ASSUME StoreSound, StoreSound', BalanceSound, NEW w \in Workers, NEW r \in Requests, Begin(w, r)
    PROVE  BalanceSound'
<1>1. PICK t : t = [NoLocals EXCEPT !.req = r]
  OBVIOUS
<1>2. pc[w] = "idle" /\ Goto(w, Entry(r), t) /\ UNCHANGED <<sale, customer, paid, num>>
  BY <1>1 DEF Begin, tables
<1>3. t.pay = 0
  BY <1>1 DEF NoLocals
<1>4. Entry(r) \in {"findCustomer", "findSale", "findStock", "findProduct", "findAccount", "findDebtor"}
  <2>1. r.kind \in {"sale", "void", "stockIn", "stockOut", "editProduct", "removeProduct", "editCustomer",
                    "deactivateCustomer", "payment"}
    BY FormsAssumption
    DEF SaleForm, VoidForm, StockForm, ProductForm, LimitForm, AccountForm, PaymentForm
  <2> QED
    BY <2>1 DEF Entry
<1>5. Entry(r) \notin Saves /\ Entry(r) # "insertSale" /\ At(Entry(r), t) \notin CustomerLoaded
  BY <1>4 DEF Saves, At, CustomerLoaded, Selling, BeforeNumber, BatchSection
<1>6. ~Holds(w)
  BY <1>2, Saleless DEF Numberless
<1>7. ~Holds(w)'
  BY <1>2, <1>6 DEF Holds, SaleIds
<1> QED
  BY <1>2, <1>3, <1>5, <1>6, <1>7, OneReckons

\* A commit charges the balance and makes the sale count, at once.
LEMMA CommitKeepsBalance ==
    ASSUME StoreSound, StoreSound', BalanceSound, NEW w \in Workers, Commit(w)
    PROVE  BalanceSound'
<1>1. /\ pc[w] = "commit" /\ Goto(w, "idle", NoLocals)
      /\ sale' = CommitTable(sale, w) /\ customer' = CommitTable(customer, w)
  BY DEF Commit, Leave
<1>2. num'[w] = NoNumber /\ \A v \in Workers \ {w} : num'[v] = num[v]
  BY DEF Commit, Leave, StoreSound, TypeOK
<1>3. w # NoTx
  BY TablesAssumption
<1>4. ASSUME NEW s \in SaleIds
      PROVE  /\ sale[s].xid # w => sale'[s] = sale[s]
             /\ sale[s].xid = w => sale'[s].xid = NoTx /\ sale'[s].cur = sale[s].new
  BY <1>1 DEF CommitTable, CommitRow, Stored, StoreSound, TypeOK
<1>5. \A s \in SaleIds : /\ sale'[s] # sale[s] => sale[s].xid = w /\ sale'[s].xid = NoTx
                         /\ sale'[s].xid # w
  BY <1>3, <1>4
<1>6. \A s \in SaleIds : sale[s].xid = w => num[w] = s /\ Holds(w)
  BY <1>1, <1>3 DEF BalanceSound, OpenSalesInserted, Holds
<1>7. ASSUME NEW c PROVE Owed(c)' = Owed(c) + Coming(w, c)
  <2>1. PICK f : f = [s \in SaleIds |-> CreditOf(s, c)]
    OBVIOUS
  <2>2. PICK g : g = [s \in SaleIds |-> CreditOf(s, c)']
    OBVIOUS
  <2>3. Owed(c) = SumOf(f, SaleIds) /\ Owed(c)' = SumOf(g, SaleIds)
    BY <2>1, <2>2 DEF Owed, SaleIds
  <2>4. \A s \in SaleIds : f[s] \in Int
    BY <2>1, CreditOfTyped
  <2>5. SumOf(f, SaleIds) \in Int
    BY <2>4, SalesFinite, TotalInt
  <2>6. ASSUME NEW s \in SaleIds, sale[s].xid # w PROVE f[s] = g[s]
    <3>1. PICK row : row = sale[s]
      OBVIOUS
    <3>2. sale'[s] = row
      BY <1>4, <2>6, <3>1
    <3>3. CreditOf(s, c)' = CreditOf(s, c)
      BY <3>1, <3>2 DEF CreditOf
    <3> QED
      BY <2>1, <2>2, <3>3
  <2>7. CASE Holds(w)
    <3>1. PICK n : n = num[w]
      OBVIOUS
    <3>2. n \in SaleIds /\ sale[n].xid = w /\ \A s \in SaleIds \ {n} : sale[s].xid # w
      BY <1>6, <2>7, <3>1 DEF Holds, StoreSound, NumbersHeld
    <3>3. ~Taken(n) /\ sale[n].new.status = "completed"
      <4>1. Inserted(n) \/ Marked(n)
        BY <1>3, <3>2 DEF StoreSound, OpenSalesOwned
      <4> QED
        BY <3>1, <3>2, <4>1, NoNumberIsNoSale DEF Inserted, Marked
    <3>4. PICK u : u = Coming(w, c)
      OBVIOUS
    <3>5. f[n] = 0 /\ g[n] = u /\ u \in Int
      <4>1. CreditOf(n, c) = 0
        BY <3>3 DEF CreditOf, Taken
      <4>2. u = IF sale[n].new.customer = c THEN sale[n].new.credit ELSE 0
        BY <2>7, <3>1, <3>4 DEF Coming
      <4>3. sale'[n].cur = sale[n].new
        BY <1>4, <3>2
      <4>4. CreditOf(n, c)' = u
        BY <3>3, <4>2, <4>3 DEF CreditOf
      <4>5. u \in Int
        BY <3>4, ComingTyped
      <4> QED
        BY <2>1, <2>2, <3>2, <4>1, <4>4, <4>5
    <3>6. \A s \in SaleIds : g[s] \in Int
      BY <2>4, <2>6, <3>2, <3>5
    <3>7. \A s \in SaleIds \ {n} : f[s] = g[s]
      BY <2>6, <3>2
    <3>8. SumOf(g, SaleIds) = SumOf(f, SaleIds) - f[n] + g[n]
      <4>1. n \in SaleIds
        BY <3>2
      <4>2. \A x \in SaleIds : f[x] \in Int /\ g[x] \in Int
        BY <2>4, <3>6
      <4>3. \A x \in SaleIds \ {n} : f[x] = g[x]
        BY <3>7
      <4> QED
        BY <4>1, <4>2, <4>3, SalesFinite, TotalChange
    <3> QED
      BY <2>3, <2>5, <3>4, <3>5, <3>8
  <2>8. CASE ~Holds(w)
    <3>1. \A s \in SaleIds : sale[s].xid # w
      BY <1>6, <2>8
    <3>2. SumOf(f, SaleIds) = SumOf(g, SaleIds)
      BY <2>6, <3>1, SalesFinite, TotalSame
    <3>3. Coming(w, c) = 0
      BY <2>8 DEF Coming
    <3> QED
      BY <2>3, <2>5, <3>2, <3>3
  <2> QED
    BY <2>7, <2>8
<1>8. ASSUME NEW c \in Customers PROVE paid'[c] = 0 /\ Owed(c)' >= Owed(c)
  <2>1. tx[w].pay = 0 /\ paid[c] = 0
    BY DEF BalanceSound, Charges, WithinOwed
  <2>2. paid'[c] = 0
    BY <2>1 DEF Commit
  <2> QED
    BY <1>7, <2>2, OwedTyped, ComingTyped
<1>9. ASSUME NEW c \in Customers
      PROVE  \/ customer'[c] = customer[c] /\ customer[c].xid \notin {NoTx, w}
             \/ customer'[c].xid \in {NoTx, w} /\ WithinOwed(c)'
  <2>1. PICK o, a, r, z : o = Owed(c) /\ a = Coming(w, c) /\ r = customer[c] /\ z = customer'[c]
    OBVIOUS
  <2>2. /\ r.xid # w => z = r
        /\ r.xid = w => z.xid = NoTx /\ z.cur = r.new
    BY <1>1, <2>1 DEF CommitTable, CommitRow, Stored, StoreSound, TypeOK
  <2>3. r.cur.balance <= o /\ (r.xid = w => r.new.balance <= o + a)
    BY <1>3, <2>1 DEF BalanceSound, WithinOwed
  <2>4. o \in Int /\ a \in Nat /\ r.cur.balance \in Int
    BY <2>1, OwedTyped, ComingTyped DEF StoreSound, TypeOK, Versions, CustomerRow
  <2>5. CASE z.xid = NoTx
    <3>1. z.cur.balance <= o + a
      BY <2>2, <2>3, <2>4, <2>5
    <3>2. Owed(c)' = o + a
      BY <1>7, <2>1
    <3> QED
      BY <1>8, <2>1, <2>5, <3>1, <3>2 DEF WithinOwed
  <2> QED
    BY <2>1, <2>2, <2>5
<1>10. Charges(w, "idle", NoLocals)'
  BY <1>2, IdleCharges
<1> QED
  BY <1>1, <1>2, <1>5, <1>8, <1>9, <1>10, OneCharges

LEMMA NextKeepsBalance ==
    ASSUME OnlyCharges, StoreSound, StoreSound', BalanceSound, [Next]_vars
    PROVE  BalanceSound'
<1>1. ASSUME NEW w \in Workers, VoidSale(w) PROVE FALSE
  <2>1. PICK l, t : l = pc[w] /\ t = tx[w]
    OBVIOUS
  <2>2. l \in Voiding
    BY <1>1, <2>1
    DEF VoidSale, FindSale, RestockProduct, RestockBatch, ReverseCredit, SetVoid, Voiding, Restocking
  <2>3. At(l, t) = l /\ l # "idle" /\ Knows(l, t)
    BY <2>1, <2>2, ChargesHere DEF At, Voiding, Restocking, Saves
  <2>4. t.req \in VoidForm /\ t.req \in Requests
    BY <2>2, <2>3 DEF Knows
  <2> QED
    BY <2>4 DEF VoidForm, OnlyCharges
<1>2. ASSUME NEW w \in Workers, NEW r \in Requests, Begin(w, r) PROVE BalanceSound'
  BY <1>2, BeginKeepsBalance
<1>3. ASSUME NEW w \in Workers, Create(w) PROVE BalanceSound'
  BY <1>3, FindCustomerKeepsBalance, GenerateSaleNumberKeepsBalance, InsertSaleKeepsBalance,
     TakeBatchKeepsBalance, ChargeCustomerKeepsBalance, CreateKeepsBalance DEF Create
<1>4. ASSUME NEW w \in Workers, Step(w) PROVE BalanceSound'
  BY <1>1, <1>3, <1>4, AdjustKeepsBalance, MaintainProductsKeepsBalance, MaintainCustomersKeepsBalance,
     SaveSelectKeepsBalance, SaveUpdateKeepsBalance, CommitKeepsBalance, AbortKeepsBalance
  DEF Step, DeadlockVictim
<1>5. ASSUME NEW w \in Workers, Disconnect(w) PROVE BalanceSound'
  BY <1>5, AbortKeepsBalance DEF Disconnect
<1>6. CASE UNCHANGED <<tables, pc, num, tx>>
  <2>1. \A c : Owed(c)' = Owed(c)
    BY <1>6, SameOwed DEF tables
  <2>2. \A w \in Workers : Holds(w)' <=> Holds(w)
    BY <1>6 DEF Holds, SaleIds
  <2>3. ASSUME NEW w \in Workers, NEW c PROVE Coming(w, c)' = Coming(w, c)
    BY <1>6, <2>2 DEF Coming, tables
  <2>4. OpenSalesInserted'
    BY <1>6 DEF tables, BalanceSound, OpenSalesInserted, SaleIds
  <2>5. ASSUME NEW c \in Customers PROVE WithinOwed(c)'
    <3>1. WithinOwed(c)
      BY DEF BalanceSound
    <3>2. customer[c].xid # NoTx => customer[c].xid \in Workers
      BY DEF StoreSound, TypeOK, Versions
    <3> QED
      BY <1>6, <2>1, <2>3, <3>1, <3>2 DEF tables, WithinOwed
  <2>6. ASSUME NEW w \in Workers PROVE Charges(w, pc[w], tx[w])'
    <3>1. Charges(w, pc[w], tx[w])
      BY DEF BalanceSound
    <3> QED
      BY <1>6, <2>1, <2>2, <2>3, <3>1
      DEF tables, Charges, At, Saves, CustomerLoaded, Selling, BeforeNumber, BatchSection
  <2> QED
    BY <2>4, <2>5, <2>6 DEF BalanceSound
<1>7. CASE Midnight \/ UNCHANGED vars
  BY <1>6, <1>7 DEF Midnight, vars, tables
<1> QED
  BY <1>2, <1>4, <1>5, <1>7 DEF Next, Closed

\* At the start nobody owes anything.
LEMMA InitBalance == Init => BalanceSound
<1> SUFFICES ASSUME Init PROVE BalanceSound
  OBVIOUS
<1>1. OpenSalesInserted
  BY DEF Init, Stored, OpenSalesInserted
<1>2. \A s \in SaleIds : sale[s].cur.status = "none"
  BY DEF Init, Stored, NoSale
<1>3. ASSUME NEW c \in Customers PROVE WithinOwed(c)
  <2>1. PICK f : f = [s \in SaleIds |-> CreditOf(s, c)]
    OBVIOUS
  <2>2. \A s \in SaleIds : f[s] = 0
    BY <1>2, <2>1 DEF CreditOf
  <2>3. SumOf(f, SaleIds) = 0
    <3>1. \A s \in SaleIds : f[s] \in Int
      BY <2>2
    <3>2. SumOf(f, SaleIds) = SumOf(f, {})
      BY <2>2, <3>1, SalesFinite, TotalOver
    <3> QED
      BY <3>2, TotalEmpty
  <2>4. Owed(c) = 0
    BY <2>1, <2>3 DEF Owed
  <2>5. customer[c].cur.balance = 0 /\ customer[c].xid = NoTx /\ paid[c] = 0
    BY DEF Init, Stored
  <2> QED
    BY <2>4, <2>5 DEF WithinOwed
<1>4. ASSUME NEW w \in Workers PROVE Charges(w, pc[w], tx[w])
  <2>1. pc[w] = "idle" /\ tx[w] = NoLocals /\ num[w] = NoNumber
    BY DEF Init
  <2>2. ~Holds(w) /\ NoLocals.pay = 0
    BY <2>1, NoNumberIsNoSale DEF Holds, NoLocals
  <2> QED
    BY <2>1, <2>2 DEF Charges, At, Saves, CustomerLoaded, Selling, BeforeNumber, BatchSection
<1> QED
  BY <1>1, <1>3, <1>4 DEF BalanceSound

\* As long as no sale is voided and nobody pays, the cached balance of a customer is
\* never more than what the completed credit sales leave open, however checkouts and
\* edits of the customer interleave and whichever of them fail: create charges a
\* balance that it read before the row was locked (sales.service.ts:46-54, 226-232),
\* so a charge can be lost, but none is ever counted twice or survives a rollback.
THEOREM BalancesWithinDebt ==
    ASSUME OnlyCharges PROVE Spec => []BalanceWithinDebt
<1>1. Init => StoreSound /\ BalanceSound
  BY InitSound, InitBalance
<1>2. StoreSound /\ BalanceSound /\ [Next]_vars => StoreSound' /\ BalanceSound'
  BY NextKeepsStore, NextKeepsBalance
<1>3. StoreSound /\ BalanceSound => BalanceWithinDebt
  <2>1. SUFFICES ASSUME StoreSound, BalanceSound, NEW c \in Customers
                 PROVE  customer[c].cur.balance <= Debt(c)
    BY DEF BalanceWithinDebt
  <2>2. customer[c].cur.balance <= Owed(c) /\ paid[c] = 0
    BY <2>1 DEF BalanceSound, WithinOwed
  <2>3. Owed(c) \in Int
    BY <2>1, OwedTyped
  <2>4. Debt(c) = Owed(c) - paid[c]
    BY DebtIs
  <2>5. Debt(c) = Owed(c)
    BY <2>2, <2>3, <2>4
  <2> QED
    BY <2>2, <2>5
<1> QED
  BY <1>1, <1>2, <1>3, PTL DEF Spec

-----------------------------------------------------------------------------
(* What the batches of a product hold                                      *)

LEMMA HeldTyped ==
    ASSUME StoreSound, NEW p
    PROVE  Held(p) \in Int
<1>1. \A b \in BatchesOf(p) : moved[b] \in Int
  BY DEF StoreSound, TypeOK, BatchesOf
<1> QED
  BY <1>1, BatchesFinite, TotalInt DEF Held

\* The next value of the sums.
LEMMA HeldNext ==
    ASSUME NEW w \in Workers, NEW p
    PROVE  Held(p)' = SumOf(moved', BatchesOf(p)) /\ Taking(w, p)' = SumOf(tx'[w].moves, BatchesOf(p))
  BY DEF Held, Taking, BatchesOf, BatchIds, Slots

LEMMA HeldTypedNext ==
    ASSUME StoreSound', NEW p
    PROVE  Held(p)' \in Int
<1>1. PICK m, S : m = moved' /\ S = BatchesOf(p)
  OBVIOUS
<1>2. m \in [BatchIds -> Int]
  BY <1>1 DEF StoreSound, TypeOK, BatchIds, Slots
<1>3. \A b \in S : m[b] \in Int
  BY <1>1, <1>2 DEF BatchesOf
<1>4. SumOf(m, S) \in Int
  BY <1>1, <1>3, BatchesFinite, TotalInt
<1>5. Held(p)' = SumOf(m, S)
  BY <1>1 DEF Held, BatchesOf, BatchIds, Slots
<1> QED
  BY <1>4, <1>5

\* Nothing is put back into a batch.
LEMMA NothingReturned ==
    ASSUME NEW p, NEW m, \A b \in BatchIds : m[b] \in Int /\ m[b] <= 0
    PROVE  SumOf(m, BatchesOf(p)) \in Int /\ SumOf(m, BatchesOf(p)) <= 0
<1>1. PICK S, z : S = BatchesOf(p) /\ z = [b \in S |-> 0]
  OBVIOUS
<1>2. IsFiniteSet(S) /\ S \subseteq BatchIds
  BY <1>1, BatchesFinite DEF BatchesOf
<1>3. \A b \in S : m[b] \in Int /\ z[b] \in Int /\ m[b] <= z[b] /\ z[b] = 0
  BY <1>1, <1>2
<1>4. SumOf(m, S) <= SumOf(z, S) /\ SumOf(m, S) \in Int
  BY <1>2, <1>3, TotalUp, TotalInt
<1>5. SumOf(z, S) = SumOf(z, {}) /\ SumOf(z, {}) = 0
  BY <1>2, <1>3, TotalOver, TotalEmpty
<1> QED
  BY <1>1, <1>4, <1>5

LEMMA TakingTyped ==
    ASSUME StoreSound, StockSound, NEW w \in Workers, NEW p
    PROVE  Taking(w, p) \in Int /\ Taking(w, p) <= 0
<1>1. PICK m : m = tx[w].moves
  OBVIOUS
<1>2. \A b \in BatchIds : m[b] \in Int /\ m[b] <= 0
  BY <1>1 DEF StoreSound, HandlersKnow, Knows, LocalsTyped, StockSound, Deducts
<1> QED
  BY <1>1, <1>2, NothingReturned DEF Taking

\* A handler only loads products of the store, and what a checkout took is a number.
LEMMA LoadedTyped ==
    ASSUME NEW l, NEW t, Knows(l, t), NEW q
    PROVE  /\ q \in ProductsLoaded(l, t) => q \in Products /\ t.prod[q].stock \in Int
           /\ Undeducted(l, t, q) \in Int
<1>1. LocalsTyped(t)
  BY DEF Knows
<1>2. ASSUME At(l, t) \in Selling, NEW j \in Nat \ {0}, j <= Len(t.req.items)
      PROVE  t.req.items[j].product \in Products /\ t.req.items[j].qty \in Nat
  BY <1>2, ItemTyped DEF Knows
<1>3. At(l, t) \in Selling => t.i \in Nat \ {0} /\ t.i <= Len(t.req.items) /\ t.req.items \in Seq(CartItem)
  BY <1>1 DEF Knows, LocalsTyped, SaleForm
<1>4. CASE At(l, t) = "checkStock"
  <2>1. \A j \in 1 .. t.i - 1 : j \in Nat \ {0} /\ j <= Len(t.req.items)
    <3>1. PICK n : n = Len(t.req.items)
      OBVIOUS
    <3>2. At(l, t) \in Selling
      BY <1>4 DEF Selling, BeforeNumber
    <3>3. n \in Nat /\ t.i \in Nat /\ t.i <= n
      BY <1>3, <3>1, <3>2
    <3>4. \A j \in 1 .. t.i - 1 : j \in Nat \ {0} /\ j <= n
      BY <3>3
    <3> QED
      BY <3>1, <3>4
  <2>2. q \in ProductsLoaded(l, t) => \E j \in 1 .. t.i - 1 : q = t.req.items[j].product
    BY <1>4 DEF ProductsLoaded, BatchSection
  <2>3. q \in ProductsLoaded(l, t) => q \in Products
    <3>1. At(l, t) \in Selling
      BY <1>4 DEF Selling, BeforeNumber
    <3> QED
      BY <1>2, <2>1, <2>2, <3>1
  <2>4. Undeducted(l, t, q) = 0
    BY <1>4 DEF Undeducted
  <2> QED
    BY <1>1, <2>3, <2>4 DEF LocalsTyped, ProductRow
<1>5. CASE At(l, t) \in {"generateSaleNumber", "insertSale"} \cup BatchSection
  <2>1. At(l, t) \in Selling
    BY <1>5 DEF Selling, BeforeNumber
  <2>2. \A j \in DOMAIN t.req.items : j \in Nat \ {0} /\ j <= Len(t.req.items)
    BY <1>3, <2>1
  <2>3. q \in ProductsLoaded(l, t) => \E j \in DOMAIN t.req.items : q = t.req.items[j].product
    BY <1>5 DEF ProductsLoaded, BatchSection
  <2>4. q \in ProductsLoaded(l, t) => q \in Products
    BY <1>2, <2>1, <2>2, <2>3
  <2>5. Undeducted(l, t, q) \in Int
    <3>1. t.req.items[t.i].qty \in Nat /\ t.left \in Nat
      BY <1>1, <1>2, <1>3, <2>1 DEF LocalsTyped
    <3> QED
      BY <3>1 DEF Undeducted
  <2> QED
    BY <1>1, <2>4, <2>5 DEF LocalsTyped, ProductRow
<1>6. CASE At(l, t) \in {"editProduct", "removeProduct"}
  <2>1. t.req.product \in Products
    BY <1>6 DEF Knows, Editing, ProductForm
  <2> QED
    BY <1>1, <1>6, <2>1 DEF ProductsLoaded, Undeducted, LocalsTyped, ProductRow, BatchSection
<1>7. CASE At(l, t) \notin {"checkStock", "generateSaleNumber", "insertSale", "editProduct", "removeProduct"}
                            \cup BatchSection
  BY <1>7 DEF ProductsLoaded, Undeducted, BatchSection
<1> QED
  BY <1>4, <1>5, <1>6, <1>7

\* A worker keeps what it knows of the products while another one goes on and nothing is
\* put into a batch.
LEMMA OthersDeduct ==
    ASSUME StoreSound, StoreSound', StockSound, NEW w \in Workers, NEW v \in Workers \ {w},
           pc'[v] = pc[v], tx'[v] = tx[v], \A q : Held(q)' <= Held(q)
    PROVE  Deducts(v, pc[v], tx[v])' /\ \A q : Taking(v, q)' = Taking(v, q)
<1>1. PICK l, t : l = pc[v] /\ t = tx[v]
  OBVIOUS
<1>2. pc'[v] = l /\ tx'[v] = t
  BY <1>1
<1>3. Deducts(v, l, t) /\ Knows(l, t)
  BY <1>1 DEF StockSound, StoreSound, HandlersKnow
<1>4. ASSUME NEW q PROVE Taking(v, q)' = Taking(v, q)
  BY HeldNext DEF Taking
<1>5. ASSUME NEW q PROVE Held(q) \in Int /\ Held(q)' \in Int /\ Taking(v, q) \in Int
  BY HeldTyped, HeldTypedNext, TakingTyped
<1>6. ASSUME NEW q \in ProductsLoaded(l, t)
      PROVE  t.prod[q].stock >= Held(q)' + Taking(v, q) + Undeducted(l, t, q)
  <2>1. t.prod[q].stock \in Int /\ Undeducted(l, t, q) \in Int
    BY <1>3, LoadedTyped
  <2>2. t.prod[q].stock >= Held(q) + Taking(v, q) + Undeducted(l, t, q)
    BY <1>3 DEF Deducts
  <2> QED
    BY <1>5, <2>1, <2>2
<1>7. l \in Saves /\ t.tbl = "product" => t.ent.stock >= Held(t.key)' + Taking(v, t.key)
  <2>1. l \in Saves /\ t.tbl = "product" => t.ent.stock \in Int
    BY <1>3 DEF Knows, SaveTyped, ProductRow
  <2> QED
    BY <1>3, <1>5, <2>1 DEF Deducts
<1>8. Deducts(v, l, t)'
  BY <1>3, <1>4, <1>6, <1>7
  DEF Deducts, BatchIds, Slots, ProductsLoaded, Undeducted, ProductOf, At, Saves, BatchSection
<1> QED
  BY <1>1, <1>2, <1>4, <1>8

\* One worker goes on, and what it knows and writes is not below what the batches hold.
LEMMA OneDeducts ==
    ASSUME StoreSound, StoreSound', StockSound, NEW w \in Workers, NEW l, NEW t, Goto(w, l, t),
           \A q : Held(q)' <= Held(q),
           \A p \in Products : \/ product'[p] = product[p] /\ product[p].xid \notin {NoTx, w}
                               \/ product'[p].xid \in {NoTx, w} /\ CoversHeld(p)',
           Deducts(w, l, t)'
    PROVE  StockSound'
<1>1. /\ pc'[w] = l /\ tx'[w] = t
      /\ \A v \in Workers \ {w} : pc'[v] = pc[v] /\ tx'[v] = tx[v]
  BY DEF Goto, StoreSound, HandlersKnow
<1>2. ASSUME NEW v \in Workers \ {w}
      PROVE  Deducts(v, pc[v], tx[v])' /\ \A q : Taking(v, q)' = Taking(v, q)
  BY <1>1, OthersDeduct
<1>3. ASSUME NEW v \in Workers PROVE Deducts(v, pc[v], tx[v])'
  BY <1>1, <1>2
<1>4. ASSUME NEW p \in Products, product'[p] = product[p], product[p].xid \notin {NoTx, w}
      PROVE  CoversHeld(p)'
  <2>1. PICK v, row : v = product[p].xid /\ row = product[p]
    OBVIOUS
  <2>2. v \in Workers \ {w} /\ row.cur.stock \in Int /\ row.new.stock \in Int
    BY <1>4, <2>1 DEF StoreSound, TypeOK, Versions, ProductRow
  <2>3. PICK h, g, a : h = Held(p) /\ g = Held(p)' /\ a = Taking(v, p)
    OBVIOUS
  <2>4. h \in Int /\ g \in Int /\ a \in Int /\ g <= h /\ Taking(v, p)' = a
    BY <1>2, <2>2, <2>3, HeldTyped, HeldTypedNext, TakingTyped
  <2>5. row.cur.stock >= h /\ row.new.stock >= h + a
    BY <1>4, <2>1, <2>3 DEF StockSound, CoversHeld
  <2>6. row.cur.stock >= g /\ row.new.stock >= g + a
    BY <2>2, <2>4, <2>5
  <2>7. product'[p] = row /\ row.xid = v
    BY <1>4, <2>1
  <2> QED
    BY <2>3, <2>4, <2>6, <2>7 DEF CoversHeld
<1>5. \A p \in Products : CoversHeld(p)'
  BY <1>4
<1> QED
  BY <1>3, <1>5 DEF StockSound

\* One worker goes on without writing a product or taking a unit.
LEMMA OneCounts ==
    ASSUME StoreSound, StoreSound', StockSound, NEW w \in Workers, NEW l, NEW t, Goto(w, l, t),
           UNCHANGED <<product, moved>>, t.moves = tx[w].moves, l = "findCustomer" => t.i = 1,
           \A q \in ProductsLoaded(l, t) : t.prod[q].stock >= Held(q) + Taking(w, q) + Undeducted(l, t, q),
           l \in Saves /\ t.tbl = "product" => t.ent.stock >= Held(t.key) + Taking(w, t.key)
    PROVE  StockSound'
<1>1. tx'[w] = t
  BY DEF Goto, StoreSound, HandlersKnow
<1>2. ASSUME NEW q PROVE Held(q)' = Held(q) /\ Taking(w, q)' = Taking(w, q)
  BY <1>1, HeldNext DEF Held, Taking
<1>3. \A b \in BatchIds : t.moves[b] <= 0
  BY DEF StockSound, Deducts
<1>4. Deducts(w, l, t)'
  BY <1>2, <1>3 DEF Deducts, BatchIds, Slots, ProductsLoaded, Undeducted, ProductOf, At, Saves, BatchSection
<1>5. \A q : Held(q)' <= Held(q)
  BY <1>2, HeldTyped
<1>6. ASSUME NEW p \in Products
      PROVE  \/ product'[p] = product[p] /\ product[p].xid \notin {NoTx, w}
             \/ product'[p].xid \in {NoTx, w} /\ CoversHeld(p)'
  <2>1. CASE product[p].xid \notin {NoTx, w}
    BY <2>1
  <2>2. CASE product[p].xid \in {NoTx, w}
    <3>1. CoversHeld(p)
      BY DEF StockSound
    <3>2. CoversHeld(p)'
      BY <1>2, <2>2, <3>1 DEF CoversHeld
    <3> QED
      BY <2>2, <3>2
  <2> QED
    BY <2>1, <2>2
<1> QED
  BY <1>4, <1>5, <1>6, OneDeducts

\* What a worker knows at its statement.
LEMMA DeductsHere ==
    ASSUME StoreSound, StockSound, NEW w \in Workers, NEW l, NEW t, l = pc[w], t = tx[w]
    PROVE  /\ Knows(l, t) /\ LocalsTyped(t) /\ DOMAIN t = LocalNames
           /\ Deducts(w, l, t) /\ (l \notin Saves => At(l, t) = l)
<1>1. Knows(l, t) /\ Deducts(w, l, t)
  BY DEF StoreSound, HandlersKnow, StockSound
<1>2. LocalsTyped(t)
  BY <1>1 DEF Knows
<1> QED
  BY <1>1, <1>2 DEF LocalsTyped, At

\* A statement that leaves the products it has loaded, if any, and the tables alone.
LEMMA Uncounted ==
    ASSUME StoreSound, StoreSound', StockSound, NEW w \in Workers, NEW l, NEW t, Goto(w, l, t),
           UNCHANGED <<product, moved>>, t.moves = tx[w].moves, l # "findCustomer",
           \A q \in ProductsLoaded(l, t) :
              /\ q \in ProductsLoaded(pc[w], tx[w]) /\ t.prod[q] = tx[w].prod[q]
              /\ Undeducted(l, t, q) = Undeducted(pc[w], tx[w], q),
           \/ ~(l \in Saves /\ t.tbl = "product")
           \/ /\ pc[w] \in Saves /\ tx[w].tbl = "product"
              /\ t.ent = tx[w].ent /\ t.key = tx[w].key
    PROVE  StockSound'
<1>1. Deducts(w, pc[w], tx[w])
  BY DEF StockSound
<1>2. \A q \in ProductsLoaded(l, t) : t.prod[q].stock >= Held(q) + Taking(w, q) + Undeducted(l, t, q)
  BY <1>1 DEF Deducts
<1>3. l \in Saves /\ t.tbl = "product" => t.ent.stock >= Held(t.key) + Taking(w, t.key)
  BY <1>1 DEF Deducts
<1> QED
  BY <1>2, <1>3, OneCounts

\* What a handler reads of a product covers what it will leave in its batches.
LEMMA SeenCovers ==
    ASSUME StoreSound, StockSound, NEW w \in Workers, NEW p \in Products
    PROVE  Seen(product[p], w) \in ProductRow /\ Seen(product[p], w).stock >= Held(p) + Taking(w, p)
<1>1. w # NoTx
  BY TablesAssumption
<1>2. PICK r, h, a : r = product[p] /\ h = Held(p) /\ a = Taking(w, p)
  OBVIOUS
<1>3. r \in Versions(ProductRow, Workers) /\ h \in Int /\ a \in Int /\ a <= 0
  BY <1>2, HeldTyped, TakingTyped DEF StoreSound, TypeOK
<1>4. r.cur.stock >= h /\ (r.xid = w => r.new.stock >= h + a)
  BY <1>1, <1>2 DEF StockSound, CoversHeld
<1>5. r.cur.stock \in Int /\ r.new.stock \in Int
  BY <1>3 DEF Versions, ProductRow
<1>6. Seen(r, w).stock >= h + a
  BY <1>3, <1>4, <1>5 DEF Seen
<1>7. Seen(r, w) \in ProductRow
  BY <1>3, SeenTyped
<1> QED
  BY <1>2, <1>6, <1>7

\* A rollback leaves the committed rows as they are.
LEMMA AbortKeepsStock ==
    ASSUME StoreSound, StoreSound', StockSound, NEW w \in Workers, Abort(w)
    PROVE  StockSound'
<1>1. Goto(w, "idle", NoLocals) /\ product' = RollbackTable(product, w) /\ UNCHANGED moved
  BY DEF Abort, Leave
<1>2. ASSUME NEW q PROVE Held(q)' = Held(q)
  BY <1>1, HeldNext DEF Held
<1>3. ASSUME NEW p \in Products
      PROVE  \/ product'[p] = product[p] /\ product[p].xid \notin {NoTx, w}
             \/ product'[p].xid \in {NoTx, w} /\ CoversHeld(p)'
  <2>1. /\ product[p].xid # w => product'[p] = product[p]
        /\ product[p].xid = w => product'[p].xid = NoTx
        /\ product'[p].cur = product[p].cur
    BY <1>1 DEF RollbackTable, RollbackRow, Stored, StoreSound, TypeOK
  <2>2. CASE product'[p].xid = NoTx
    <3>1. PICK h, row : h = Held(p) /\ row = product'[p]
      OBVIOUS
    <3>2. Held(p)' = h /\ row.cur.stock >= h
      BY <1>2, <2>1, <3>1 DEF StockSound, CoversHeld
    <3> QED
      BY <2>2, <3>1, <3>2 DEF CoversHeld
  <2> QED
    BY <2>1, <2>2
<1>4. Deducts(w, "idle", NoLocals)'
  BY DEF Deducts, NoLocals, NoMoves, BatchIds, Slots, ProductsLoaded, At, Saves, BatchSection
<1>5. \A q : Held(q)' <= Held(q)
  BY <1>2, HeldTyped
<1> QED
  BY <1>1, <1>3, <1>4, <1>5, OneDeducts

\* A handler that has loaded no product goes on and loads none.
LEMMA NothingLoaded ==
    ASSUME StoreSound, StoreSound', StockSound, NEW w \in Workers, UNCHANGED <<product, moved>>,
           NEW l, l \notin Saves \cup {"checkStock", "generateSaleNumber", "insertSale", "editProduct",
                                       "removeProduct", "findCustomer"} \cup BatchSection,
           NEW t, t.moves = tx[w].moves, Goto(w, l, t)
    PROVE  StockSound'
<1>1. At(l, t) = l /\ l \notin Saves /\ l # "findCustomer"
  BY DEF At
<1>2. ProductsLoaded(l, t) = {}
  BY <1>1 DEF ProductsLoaded, BatchSection
<1> QED
  BY <1>1, <1>2, Uncounted

\* It begins to save an entity of another table.
LEMMA UncountedSave ==
    ASSUME StoreSound, StoreSound', StockSound, NEW w \in Workers, UNCHANGED <<product, moved>>,
           NEW l, l \notin {"checkStock", "generateSaleNumber", "insertSale", "editProduct", "removeProduct"}
                             \cup BatchSection,
           NEW t, t.moves = tx[w].moves, DOMAIN t = LocalNames,
           NEW tbl, tbl # "product", NEW key, NEW ent, Save(w, tbl, key, ent, l, t)
    PROVE  StockSound'
<1>1. PICK u : u = Saving(tbl, key, ent, l, t)
  OBVIOUS
<1>2. u.moves = t.moves /\ u.tbl = tbl /\ u.then = l
  BY <1>1 DEF Saving, LocalNames
<1>3. Goto(w, "select", u) /\ At("select", u) = l
  BY <1>1, <1>2 DEF Save, At, Saves
<1>4. ProductsLoaded("select", u) = {}
  BY <1>3 DEF ProductsLoaded, BatchSection
<1> QED
  BY <1>2, <1>3, <1>4, Uncounted

LEMMA FindCustomerKeepsStock ==
    ASSUME StoreSound, StoreSound', StockSound, NEW w \in Workers, FindCustomer(w)
    PROVE  StockSound'
<1>1. PICK t, c : t = tx[w] /\ c = t.req.customer
  OBVIOUS
<1>2. CASE Abort(w)
  BY <1>2, AbortKeepsStock
<1>3. CASE ~Abort(w)
  <2>1. pc[w] = "findCustomer" /\ UNCHANGED <<product, moved>>
    BY <1>3 DEF FindCustomer, tables
  <2>2. LocalsTyped(t) /\ t.i = 1
    BY <1>1, <2>1, DeductsHere DEF Deducts
  <2>3. PICK u : Goto(w, "checkStock", u) /\ u \in {t, [t EXCEPT !.cust = Seen(customer[c], w)]}
    BY <1>1, <1>3 DEF FindCustomer
  <2>4. u.i = 1 /\ u.moves = t.moves /\ "checkStock" \notin Saves
    BY <2>2, <2>3 DEF LocalsTyped, LocalNames, Saves
  <2>5. ProductsLoaded("checkStock", u) = {}
    <3>1. At("checkStock", u) = "checkStock" /\ 1 .. u.i - 1 = {}
      BY <2>4 DEF At
    <3> QED
      BY <3>1 DEF ProductsLoaded, BatchSection
  <2> QED
    BY <1>1, <2>1, <2>3, <2>4, <2>5, Uncounted
<1> QED
  BY <1>2, <1>3

\* One more product is loaded.
LEMMA CheckStockKeepsStock ==
    ASSUME StoreSound, StoreSound', StockSound, NEW w \in Workers, CheckStock(w)
    PROVE  StockSound'
<1>1. PICK t, q : t = tx[w] /\ q = t.req.items[t.i].product
  OBVIOUS
<1>2. CASE Abort(w)
  BY <1>2, AbortKeepsStock
<1>3. CASE ~Abort(w)
  <2>1. pc[w] = "checkStock" /\ UNCHANGED <<product, moved>>
    BY <1>3 DEF CheckStock, tables
  <2>2. PICK p : p = Seen(product[q], w)
    OBVIOUS
  <2>3. /\ LocalsTyped(t) /\ DOMAIN t = LocalNames /\ Deducts(w, "checkStock", t) /\ Knows("checkStock", t)
        /\ At("checkStock", t) = "checkStock"
    BY <1>1, <2>1, DeductsHere DEF Saves
  <2>4. t.req \in SaleForm /\ t.i <= Len(t.req.items) /\ t.i \in Nat \ {0} /\ t.prod \in [Products -> ProductRow]
    BY <2>3 DEF Knows, Selling, BeforeNumber, LocalsTyped
  <2>5. q \in Products
    BY <1>1, <2>4, ItemTyped
  <2>6. p.stock >= Held(q) + Taking(w, q)
    BY <2>2, <2>5, SeenCovers
  <2>7. PICK m, j, u :
           /\ Goto(w, m, u) /\ u = Checked(t, j, q, p)
           /\ \/ m = "checkStock" /\ j = t.i + 1
              \/ m = "generateSaleNumber" /\ ~(t.i < Len(t.req.items))
    BY <1>1, <1>3, <2>2 DEF CheckStock
  <2>8. /\ u.req = t.req /\ u.moves = t.moves /\ u.i = j
        /\ u.prod[q] = p /\ \A x \in Products \ {q} : u.prod[x] = t.prod[x]
    <3>1. u = [t EXCEPT !.i = j, !.prod[q] = p]
      BY <2>7 DEF Checked
    <3>2. u.prod = [t.prod EXCEPT ![q] = p] /\ u.req = t.req /\ u.moves = t.moves /\ u.i = j
      BY <2>3, <3>1 DEF LocalNames
    <3> QED
      BY <2>4, <2>5, <3>2
  <2>9. At(m, u) = m /\ m \notin Saves /\ m # "findCustomer"
    BY <2>7 DEF At, Saves
  <2>10. ASSUME NEW x \in ProductsLoaded(m, u), x # q
         PROVE  x \in ProductsLoaded("checkStock", t) /\ x \in Products
    <3>1. PICK n : n = Len(t.req.items) /\ n \in Nat /\ DOMAIN t.req.items = 1 .. n
      BY <2>4 DEF SaleForm
    <3>2. PICK k : k \in 1 .. t.i /\ x = t.req.items[k].product
      <4>1. CASE m = "checkStock"
        <5>1. \E k \in 1 .. u.i - 1 : x = u.req.items[k].product
          BY <2>9, <2>10, <4>1 DEF ProductsLoaded, BatchSection
        <5>2. 1 .. u.i - 1 = 1 .. t.i
          BY <2>4, <2>7, <2>8, <4>1
        <5> QED
          BY <2>8, <5>1, <5>2
      <4>2. CASE m = "generateSaleNumber"
        <5>1. \E k \in DOMAIN u.req.items : x = u.req.items[k].product
          BY <2>9, <2>10, <4>2 DEF ProductsLoaded, BatchSection
        <5>2. n = t.i
          BY <2>4, <2>7, <3>1, <4>2
        <5> QED
          BY <2>8, <3>1, <5>1, <5>2
      <4> QED
        BY <2>7, <4>1, <4>2
    <3>3. k \in 1 .. t.i - 1
      BY <1>1, <2>4, <2>10, <3>2
    <3>4. x \in ProductsLoaded("checkStock", t)
      BY <2>3, <3>2, <3>3 DEF ProductsLoaded, BatchSection
    <3> QED
      BY <2>3, <3>4, LoadedTyped
  <2>11. ASSUME NEW x \in ProductsLoaded(m, u)
         PROVE  u.prod[x].stock >= Held(x) + Taking(w, x) + Undeducted(m, u, x)
    <3>1. Undeducted(m, u, x) = 0 /\ Undeducted("checkStock", t, x) = 0
      BY <2>3, <2>7, <2>9 DEF Undeducted
    <3>2. Held(x) \in Int /\ Taking(w, x) \in Int
      BY HeldTyped, TakingTyped
    <3>3. CASE x = q
      BY <2>6, <2>8, <3>1, <3>2, <3>3
    <3>4. CASE x # q
      BY <2>3, <2>8, <2>10, <3>1, <3>4 DEF Deducts
    <3> QED
      BY <3>3, <3>4
  <2> QED
    BY <1>1, <2>1, <2>7, <2>8, <2>9, <2>11, OneCounts
<1> QED
  BY <1>2, <1>3

\* The statements of a checkout between those that load and those that deduct.
LEMMA StillLoaded ==
    ASSUME StoreSound, StoreSound', StockSound, NEW w \in Workers,
           GenerateSaleNumber(w) \/ InsertSale(w) \/ FindBatches(w)
    PROVE  StockSound'
<1>1. PICK t, l : t = tx[w] /\ l = pc[w]
  OBVIOUS
<1>2. CASE Abort(w)
  BY <1>2, AbortKeepsStock
<1>3. CASE ~Abort(w)
  <2>1. l \in {"generateSaleNumber", "insertSale", "findBatches"} /\ UNCHANGED <<product, moved>>
    BY <1>1, <1>3 DEF GenerateSaleNumber, InsertSale, FindBatches, tables
  <2>2. LocalsTyped(t) /\ DOMAIN t = LocalNames /\ At(l, t) = l /\ Knows(l, t) /\ l \notin Saves
    BY <1>1, <2>1, DeductsHere DEF Saves
  <2>3. PICK u : u = [t EXCEPT !.list = OpenBatches(t.req.items[t.i].product, w), !.left = t.req.items[t.i].qty]
    OBVIOUS
  <2>4. /\ u.req = t.req /\ u.i = t.i /\ u.prod = t.prod /\ u.moves = t.moves
        /\ u.left = t.req.items[t.i].qty
    BY <2>2, <2>3 DEF LocalNames
  <2>5. PICK m, v : /\ Goto(w, m, v)
                    /\ \/ m \in {"insertSale", "findBatches"} /\ v = t
                       \/ m = "takeBatch" /\ v = u
    BY <1>1, <1>3, <2>3 DEF GenerateSaleNumber, InsertSale, FindBatches
  <2>6. At(m, v) = m /\ m \notin Saves /\ m # "findCustomer"
    BY <2>5 DEF At, Saves
  <2>7. v.req = t.req /\ v.i = t.i /\ v.prod = t.prod /\ v.moves = t.moves
    BY <2>4, <2>5
  <2>8. ProductsLoaded(m, v) = ProductsLoaded(l, t)
    BY <2>1, <2>2, <2>5, <2>6, <2>7 DEF ProductsLoaded, BatchSection
  <2>9. ASSUME NEW q PROVE Undeducted(l, t, q) = 0 /\ Undeducted(m, v, q) = 0
    <3>1. Undeducted(l, t, q) = 0
      BY <2>1, <2>2 DEF Undeducted
    <3>2. CASE m # "takeBatch"
      BY <2>6, <3>1, <3>2 DEF Undeducted
    <3>3. CASE m = "takeBatch"
      <4>1. l = "findBatches"
        BY <1>1, <1>3, <2>5, <2>6, <3>3
        DEF GenerateSaleNumber, InsertSale, FindBatches, Goto, StoreSound, HandlersKnow
      <4>2. t.req \in SaleForm /\ t.i <= Len(t.req.items) /\ t.i \in Nat \ {0}
        BY <2>2, <4>1 DEF Knows, Selling, BatchSection, LocalsTyped
      <4>3. t.req.items[t.i].qty \in Nat
        BY <4>2, ItemTyped
      <4>4. v.left = v.req.items[v.i].qty
        BY <2>4, <2>5, <3>3
      <4>5. v.req.items[v.i].qty - v.left = 0
        BY <2>7, <4>3, <4>4
      <4> QED
        BY <2>6, <3>1, <4>5 DEF Undeducted
    <3> QED
      BY <3>2, <3>3
  <2> QED
    BY <1>1, <2>1, <2>5, <2>6, <2>7, <2>8, <2>9, Uncounted
<1> QED
  BY <1>2, <1>3

\* What is taken from a batch for the item is still to be taken from the product.
LEMMA TakeBatchKeepsStock ==
    ASSUME StoreSound, StoreSound', StockSound, NEW w \in Workers, TakeBatch(w)
    PROVE  StockSound'
<1>1. PICK t, p : t = tx[w] /\ p = ProductOf(t)
  OBVIOUS
<1>2. pc[w] = "takeBatch" /\ UNCHANGED <<product, moved>>
  BY DEF TakeBatch
<1>3. PICK k, b, d :
         /\ k \in Slots /\ IsOldest(k, t.list) /\ b = <<p, k>> /\ d = Smaller(t.list[k].qty, t.left)
         /\ Save(w, "batch", b, Deducted(t.list[k], d), "takeBatch", Took(t, k, b, d))
  BY <1>1 DEF TakeBatch, ProductOf
<1>4. PICK v, u : v = Took(t, k, b, d) /\ u = Saving("batch", b, Deducted(t.list[k], d), "takeBatch", v)
  OBVIOUS
<1>5. /\ Knows("takeBatch", t) /\ LocalsTyped(t) /\ DOMAIN t = LocalNames
      /\ At("takeBatch", t) = "takeBatch" /\ Deducts(w, "takeBatch", t)
  BY <1>1, <1>2, DeductsHere DEF Saves
<1>6. p \in Products /\ t.req.items[t.i].qty \in Nat
  <2>1. t.req \in SaleForm /\ t.i <= Len(t.req.items) /\ t.i \in Nat \ {0}
    BY <1>5 DEF Knows, Selling, BatchSection, LocalsTyped
  <2> QED
    BY <1>1, <2>1, ItemTyped DEF ProductOf
<1>7. b \in BatchIds /\ d \in Nat /\ t.left \in Nat
  BY <1>3, <1>5, <1>6 DEF BatchIds, IsOldest, LocalsTyped, Smaller, BatchRow
<1>8. /\ v.req = t.req /\ v.i = t.i /\ v.prod = t.prod /\ v.left = t.left - d
      /\ v.moves = [t.moves EXCEPT ![b] = @ - d] /\ DOMAIN v = LocalNames
  BY <1>4, <1>5 DEF Took, LocalNames
<1>9. /\ u.req = t.req /\ u.i = t.i /\ u.prod = t.prod /\ u.left = t.left - d
      /\ u.moves = [t.moves EXCEPT ![b] = @ - d] /\ u.tbl = "batch" /\ u.then = "takeBatch"
  BY <1>4, <1>8 DEF Saving, LocalNames
<1>10. Goto(w, "select", u) /\ At("select", u) = "takeBatch" /\ tx'[w] = u
  BY <1>3, <1>4, <1>9 DEF Save, At, Saves, Goto, StoreSound, HandlersKnow
<1>11. t.moves \in [BatchIds -> Int] /\ \A c \in BatchIds : t.moves[c] <= 0
  BY <1>5 DEF LocalsTyped, Deducts
<1>12. /\ u.moves \in [BatchIds -> Int] /\ u.moves[b] = t.moves[b] - d
       /\ \A c \in BatchIds \ {b} : u.moves[c] = t.moves[c]
  BY <1>7, <1>9, <1>11
<1>13. ASSUME NEW q PROVE Taking(w, q)' = IF q = p THEN Taking(w, q) - d ELSE Taking(w, q)
  <2>1. PICK f, g, S : f = t.moves /\ g = u.moves /\ S = BatchesOf(q)
    OBVIOUS
  <2>2. Taking(w, q) = SumOf(f, S) /\ Taking(w, q)' = SumOf(g, S)
    BY <1>1, <1>10, <2>1, HeldNext DEF Taking
  <2>3. IsFiniteSet(S) /\ S \subseteq BatchIds
    BY <2>1, BatchesFinite DEF BatchesOf
  <2>4. \A c \in S : f[c] \in Int /\ g[c] \in Int
    BY <1>11, <1>12, <2>1, <2>3
  <2>5. CASE q = p
    <3>1. b \in S
      BY <1>3, <1>7, <2>1, <2>5 DEF BatchesOf
    <3>2. \A c \in S \ {b} : f[c] = g[c]
      BY <1>12, <2>1, <2>3
    <3>3. SumOf(g, S) = SumOf(f, S) - f[b] + g[b]
      <4>1. IsFiniteSet(S)
        BY <2>3
      <4> HIDE DEF BatchIds
      <4> QED
        BY <2>4, <3>1, <3>2, <4>1, TotalChange
    <3>4. SumOf(f, S) \in Int
      BY <2>3, <2>4, TotalInt
    <3>5. f[b] \in Int /\ g[b] = f[b] - d
      BY <1>7, <1>11, <1>12, <2>1
    <3>6. PICK m, n, e : m = SumOf(f, S) /\ n = SumOf(g, S) /\ e = f[b]
      OBVIOUS
    <3>7. m \in Int /\ e \in Int /\ n = m - e + (e - d)
      BY <3>3, <3>4, <3>5, <3>6
    <3>8. n = m - d
      BY <1>7, <3>7
    <3> QED
      BY <2>2, <2>5, <3>6, <3>8
  <2>6. CASE q # p
    <3>1. \A c \in S : f[c] = g[c]
      BY <1>3, <1>12, <2>1, <2>3, <2>6 DEF BatchesOf
    <3> QED
      BY <2>2, <2>3, <2>6, <3>1, TotalSame
  <2> QED
    BY <2>5, <2>6
<1>14. ASSUME NEW q PROVE Held(q)' = Held(q) /\ Held(q) \in Int
  BY <1>2, HeldNext, HeldTyped DEF Held
<1>15. ASSUME NEW q \in ProductsLoaded("select", u)
       PROVE  u.prod[q].stock >= Held(q) + Taking(w, q)' + Undeducted("select", u, q)
  <2>1. q \in ProductsLoaded("takeBatch", t)
    BY <1>5, <1>9, <1>10, <1>15 DEF ProductsLoaded, BatchSection
  <2>2. t.prod[q].stock >= Held(q) + Taking(w, q) + Undeducted("takeBatch", t, q)
    BY <1>5, <2>1 DEF Deducts
  <2>3. t.prod[q].stock \in Int
    BY <1>5, <2>1, LoadedTyped
  <2>4. Taking(w, q) \in Int
    BY TakingTyped
  <2>5. PICK n : n = t.req.items[t.i].qty
    OBVIOUS
  <2>6. /\ Undeducted("takeBatch", t, q) = IF q = p THEN n - t.left ELSE 0
        /\ Undeducted("select", u, q) = IF q = p THEN n - (t.left - d) ELSE 0
    BY <1>1, <1>5, <1>9, <1>10, <2>5 DEF Undeducted, ProductOf
  <2> QED
    BY <1>6, <1>7, <1>9, <1>13, <1>14, <2>2, <2>3, <2>4, <2>5, <2>6
<1>16. ~("select" \in Saves /\ u.tbl = "product") /\ \A c \in BatchIds : u.moves[c] <= 0
  BY <1>7, <1>9, <1>11, <1>12
<1>17. Deducts(w, "select", u)'
  BY <1>14, <1>15, <1>16 DEF Deducts, BatchIds, Slots, ProductsLoaded, Undeducted, ProductOf, At, Saves, BatchSection
<1>18. ASSUME NEW q \in Products
       PROVE  \/ product'[q] = product[q] /\ product[q].xid \notin {NoTx, w}
              \/ product'[q].xid \in {NoTx, w} /\ CoversHeld(q)'
  <2>1. CASE product[q].xid \notin {NoTx, w}
    BY <1>2, <2>1
  <2>2. CASE product[q].xid \in {NoTx, w}
    <3>1. PICK r, h, a, e : r = product[q] /\ h = Held(q) /\ a = Taking(w, q) /\ e = Taking(w, q)'
      OBVIOUS
    <3>2. h \in Int /\ a \in Int /\ r.new.stock \in Int /\ e \in Int /\ e <= a
      BY <1>7, <1>13, <3>1, HeldTyped, TakingTyped DEF StoreSound, TypeOK, Versions, ProductRow
    <3>3. r.cur.stock >= h /\ (r.xid # NoTx => r.new.stock >= h + a)
      BY <2>2, <3>1 DEF StockSound, CoversHeld
    <3>4. r.xid # NoTx => r.new.stock >= h + e
      BY <3>2, <3>3
    <3>5. product'[q] = r /\ Held(q)' = h
      BY <1>2, <1>14, <3>1
    <3> QED
      BY <2>2, <3>1, <3>3, <3>4, <3>5 DEF CoversHeld
  <2> QED
    BY <2>1, <2>2
<1>19. \A q : Held(q)' <= Held(q)
  BY <1>14
<1> QED
  BY <1>10, <1>17, <1>18, <1>19, OneDeducts

\* What was taken from the batches for the item is taken from the product.
LEMMA DeductProductKeepsStock ==
    ASSUME StoreSound, StoreSound', StockSound, NEW w \in Workers, DeductProduct(w)
    PROVE  StockSound'
<1>1. PICK t, p, n, ent : t = tx[w] /\ p = ProductOf(t) /\ n = t.req.items[t.i].qty
                          /\ ent = [t.prod[p] EXCEPT !.stock = @ - n]
  OBVIOUS
<1>2. pc[w] = "takeBatch" /\ t.left = 0 /\ UNCHANGED <<product, moved>>
  BY <1>1 DEF DeductProduct, tables
<1>3. PICK u : u = [t EXCEPT !.prod[p] = ent, !.list = NoList]
  OBVIOUS
<1>4. PICK m, v : /\ m \in {"findBatches", "chargeCustomer"} /\ Save(w, "product", p, ent, m, v)
                  /\ v = u \/ v = [u EXCEPT !.i = @ + 1]
  BY <1>1, <1>3 DEF DeductProduct, ProductOf
<1>5. PICK z : z = Saving("product", p, ent, m, v)
  OBVIOUS
<1>6. /\ Knows("takeBatch", t) /\ LocalsTyped(t) /\ DOMAIN t = LocalNames
      /\ At("takeBatch", t) = "takeBatch" /\ Deducts(w, "takeBatch", t)
  BY <1>1, <1>2, DeductsHere DEF Saves
<1>7. t.req \in SaleForm /\ t.i <= Len(t.req.items) /\ t.i \in Nat \ {0} /\ t.req.items \in Seq(CartItem)
  BY <1>6 DEF Knows, Selling, BatchSection, LocalsTyped, SaleForm
<1>8. p \in Products /\ n \in Nat /\ p \in {t.req.items[j].product : j \in DOMAIN t.req.items}
  <2>1. p \in Products /\ n \in Nat
    BY <1>1, <1>7, ItemTyped DEF ProductOf
  <2>2. t.i \in DOMAIN t.req.items
    <3>1. PICK s : s = t.req.items
      OBVIOUS
    <3>2. DOMAIN s = 1 .. Len(s) /\ Len(s) \in Nat
      BY <1>7, <3>1
    <3> QED
      BY <1>7, <3>1, <3>2
  <2> QED
    BY <1>1, <2>1, <2>2 DEF ProductOf
<1>9. t.prod \in [Products -> ProductRow] /\ t.prod[p].stock \in Int
  BY <1>6, <1>8 DEF LocalsTyped, ProductRow
<1>10. ent.stock = t.prod[p].stock - n
  BY <1>1, <1>8, <1>9 DEF ProductRow
<1>11. /\ u.req = t.req /\ u.prod = [t.prod EXCEPT ![p] = ent] /\ u.moves = t.moves /\ DOMAIN u = LocalNames
  BY <1>3, <1>6 DEF LocalNames
<1>12. v.req = t.req /\ v.prod = [t.prod EXCEPT ![p] = ent] /\ v.moves = t.moves /\ DOMAIN v = LocalNames
  BY <1>4, <1>11 DEF LocalNames
<1>13. /\ z.req = t.req /\ z.prod = [t.prod EXCEPT ![p] = ent] /\ z.moves = t.moves
       /\ z.tbl = "product" /\ z.key = p /\ z.ent = ent /\ z.then = m
  BY <1>5, <1>12 DEF Saving, LocalNames
<1>14. Goto(w, "select", z) /\ At("select", z) = m /\ "select" # "findCustomer"
  BY <1>4, <1>5, <1>13 DEF Save, At, Saves
<1>15. /\ ProductsLoaded("select", z) = {t.req.items[j].product : j \in DOMAIN t.req.items}
       /\ ProductsLoaded("takeBatch", t) = {t.req.items[j].product : j \in DOMAIN t.req.items}
  BY <1>4, <1>6, <1>13, <1>14 DEF ProductsLoaded, BatchSection
<1>16. ASSUME NEW q PROVE Held(q) \in Int /\ Taking(w, q) \in Int
  BY HeldTyped, TakingTyped
<1>17. ent.stock >= Held(p) + Taking(w, p)
  <2>1. t.prod[p].stock >= Held(p) + Taking(w, p) + Undeducted("takeBatch", t, p)
    BY <1>6, <1>8, <1>15 DEF Deducts
  <2>2. Undeducted("takeBatch", t, p) = n
    BY <1>1, <1>2, <1>6, <1>8 DEF Undeducted
  <2> QED
    BY <1>8, <1>9, <1>10, <1>16, <2>1, <2>2
<1>18. ASSUME NEW q \in ProductsLoaded("select", z)
       PROVE  z.prod[q].stock >= Held(q) + Taking(w, q) + Undeducted("select", z, q)
  <2>1. Undeducted("select", z, q) = 0
    BY <1>4, <1>14 DEF Undeducted
  <2>2. CASE q = p
    <3>1. z.prod[q] = ent
      BY <1>8, <1>9, <1>13, <2>2
    <3> QED
      BY <1>16, <1>17, <2>1, <2>2, <3>1
  <2>3. CASE q # p
    <3>1. q \in ProductsLoaded("takeBatch", t)
      BY <1>15, <1>18
    <3>2. q \in Products
      BY <1>6, <3>1, LoadedTyped
    <3>3. z.prod[q] = t.prod[q]
      BY <1>9, <1>13, <2>3, <3>2
    <3>4. Undeducted("takeBatch", t, q) = 0
      BY <1>1, <2>3 DEF Undeducted
    <3>5. t.prod[q].stock >= Held(q) + Taking(w, q) + Undeducted("takeBatch", t, q)
      BY <1>6, <3>1 DEF Deducts
    <3> QED
      BY <2>1, <3>3, <3>4, <3>5
  <2> QED
    BY <2>2, <2>3
<1> QED
  BY <1>1, <1>2, <1>13, <1>14, <1>17, <1>18, OneCounts

LEMMA ChargeCustomerKeepsStock ==
    ASSUME StoreSound, StoreSound', StockSound, NEW w \in Workers, ChargeCustomer(w)
    PROVE  StockSound'
<1>1. PICK t, ent : t = tx[w] /\ ent = [t.cust EXCEPT !.balance = @ + t.req.credit]
  OBVIOUS
<1>2. UNCHANGED <<product, moved>> /\ DOMAIN t = LocalNames
  BY <1>1, DeductsHere DEF ChargeCustomer, tables
<1>3. Save(w, "customer", t.req.customer, ent, "commit", t) \/ Goto(w, "commit", t)
  BY <1>1 DEF ChargeCustomer
<1>4. "commit" \notin Saves \cup {"checkStock", "generateSaleNumber", "insertSale", "editProduct",
                                  "removeProduct", "findCustomer"} \cup BatchSection
  BY DEF Saves, BatchSection
<1>5. CASE Goto(w, "commit", t)
  BY <1>1, <1>2, <1>4, <1>5, NothingLoaded
<1>6. CASE Save(w, "customer", t.req.customer, ent, "commit", t)
  BY <1>1, <1>2, <1>4, <1>6, UncountedSave
<1> QED
  BY <1>3, <1>5, <1>6

\* The editors of a product save the stock they have loaded.
LEMMA MaintainProductsKeepsStock ==
    ASSUME StoreSound, StoreSound', StockSound, NEW w \in Workers, MaintainProducts(w)
    PROVE  StockSound'
<1>1. PICK t, l, p : t = tx[w] /\ l = pc[w] /\ p = t.req.product
  OBVIOUS
<1>2. l \in Editing /\ UNCHANGED <<product, moved>>
  BY <1>1 DEF MaintainProducts, FindProduct, EditProduct, RemoveProduct, Editing, tables
<1>3. /\ Knows(l, t) /\ LocalsTyped(t) /\ DOMAIN t = LocalNames /\ At(l, t) = l /\ Deducts(w, l, t)
      /\ l \notin Saves
  BY <1>1, <1>2, DeductsHere DEF Saves, Editing
<1>4. t.req \in ProductForm /\ p \in Products /\ t.prod \in [Products -> ProductRow]
  BY <1>1, <1>2, <1>3 DEF Knows, ProductForm, LocalsTyped
<1>5. CASE FindProduct(w)
  <2>1. PICK row, m, u : row = Seen(product[p], w) /\ m = t.req.kind /\ u = [t EXCEPT !.prod[p] = row]
    OBVIOUS
  <2>2. Goto(w, m, u) /\ m \in {"editProduct", "removeProduct"}
    BY <1>1, <1>4, <1>5, <2>1 DEF FindProduct, ProductForm
  <2>3. u.req = t.req /\ u.moves = t.moves /\ u.prod[p] = row
    BY <1>3, <1>4, <2>1 DEF LocalNames
  <2>4. m \notin Saves /\ m # "findCustomer" /\ At(m, u) = m
    BY <2>2 DEF Saves, At
  <2>5. ProductsLoaded(m, u) = {p}
    BY <1>1, <2>2, <2>3, <2>4 DEF ProductsLoaded, BatchSection
  <2>6. Undeducted(m, u, p) = 0
    BY <2>2, <2>4 DEF Undeducted
  <2>7. row.stock >= Held(p) + Taking(w, p) /\ row \in ProductRow
    BY <1>4, <2>1, SeenCovers
  <2>8. u.prod[p].stock >= Held(p) + Taking(w, p) + Undeducted(m, u, p)
    BY <2>3, <2>6, <2>7, HeldTyped, TakingTyped
  <2> QED
    BY <1>1, <1>2, <2>2, <2>3, <2>4, <2>5, <2>8, OneCounts
<1>6. CASE EditProduct(w) \/ RemoveProduct(w)
  <2>1. PICK ent : /\ Save(w, "product", p, ent, "commit", t)
                   /\ ent = t.prod[p] \/ ent = [t.prod[p] EXCEPT !.active = FALSE]
    BY <1>1, <1>6 DEF EditProduct, RemoveProduct
  <2>2. ent.stock = t.prod[p].stock /\ t.prod[p].stock \in Int
    BY <1>4, <2>1 DEF ProductRow
  <2>3. l \in {"editProduct", "removeProduct"}
    BY <1>1, <1>6 DEF EditProduct, RemoveProduct
  <2>4. p \in ProductsLoaded(l, t) /\ Undeducted(l, t, p) = 0
    BY <1>1, <1>3, <2>3 DEF ProductsLoaded, Undeducted, BatchSection
  <2>5. t.prod[p].stock >= Held(p) + Taking(w, p) + Undeducted(l, t, p)
    BY <1>3, <2>4 DEF Deducts
  <2>6. ent.stock >= Held(p) + Taking(w, p)
    BY <2>2, <2>4, <2>5, HeldTyped, TakingTyped
  <2>7. PICK u : u = Saving("product", p, ent, "commit", t)
    OBVIOUS
  <2>8. u.moves = t.moves /\ u.tbl = "product" /\ u.then = "commit" /\ u.key = p /\ u.ent = ent
    BY <1>3, <2>7 DEF Saving, LocalNames
  <2>9. Goto(w, "select", u) /\ At("select", u) = "commit"
    BY <2>1, <2>7, <2>8 DEF Save, At, Saves
  <2>10. ProductsLoaded("select", u) = {}
    BY <2>9 DEF ProductsLoaded, BatchSection
  <2> QED
    BY <1>1, <1>2, <2>6, <2>8, <2>9, <2>10, OneCounts
<1> QED
  BY <1>5, <1>6 DEF MaintainProducts

LEMMA MaintainCustomersKeepsStock ==
    ASSUME StoreSound, StoreSound', StockSound, NEW w \in Workers, MaintainCustomers(w)
    PROVE  StockSound'
<1>1. PICK t, l, c : t = tx[w] /\ l = pc[w] /\ c = t.req.customer
  OBVIOUS
<1>2. CASE Abort(w)
  BY <1>2, AbortKeepsStock
<1>3. CASE ~Abort(w)
  <2>1. l \in Accounting /\ UNCHANGED <<product, moved>>
    BY <1>1, <1>3 DEF MaintainCustomers, FindAccount, EditCustomer, DeactivateCustomer, FindDebtor,
                      InsertPayment, Accounting, tables
  <2>2. Knows(l, t) /\ DOMAIN t = LocalNames /\ At(l, t) = l
    BY <1>1, <2>1, DeductsHere DEF Saves, Accounting
  <2>3. PICK u, v : u = [t EXCEPT !.cust = Seen(customer[c], w)] /\ v = [t EXCEPT !.pay = t.req.amount]
    OBVIOUS
  <2>4. u.moves = t.moves /\ v.moves = t.moves /\ DOMAIN v = LocalNames
    BY <2>2, <2>3 DEF LocalNames
  <2>5. CASE FindAccount(w) \/ FindDebtor(w)
    <3>1. PICK m : Goto(w, m, u) /\ m \in {"insertPayment", "editCustomer", "deactivateCustomer"}
      <4>1. CASE FindAccount(w)
        <5>1. Goto(w, t.req.kind, u)
          BY <1>1, <2>3, <4>1 DEF FindAccount
        <5>2. t.req \in LimitForm \cup AccountForm
          BY <1>1, <2>2, <4>1 DEF FindAccount, Knows
        <5> QED
          BY <5>1, <5>2 DEF LimitForm, AccountForm
      <4>2. CASE FindDebtor(w)
        BY <1>1, <1>3, <2>3, <4>2 DEF FindDebtor
      <4> QED
        BY <2>5, <4>1, <4>2
    <3> QED
      BY <1>1, <2>1, <2>4, <3>1, NothingLoaded DEF Saves, BatchSection
  <2>6. CASE EditCustomer(w) \/ DeactivateCustomer(w) \/ InsertPayment(w)
    <3>1. PICK z, ent : z \in {t, v} /\ Save(w, "customer", c, ent, "commit", z)
      BY <1>1, <2>3, <2>6 DEF EditCustomer, DeactivateCustomer, InsertPayment
    <3>2. z.moves = tx[w].moves /\ DOMAIN z = LocalNames
      BY <1>1, <2>2, <2>4, <3>1
    <3> QED
      BY <2>1, <3>1, <3>2, UncountedSave DEF BatchSection
  <2> QED
    BY <2>5, <2>6 DEF MaintainCustomers
<1> QED
  BY <1>2, <1>3

\* Statements of a save: the handler still has what it loaded.
LEMMA SaveSelectKeepsStock ==
    ASSUME StoreSound, StoreSound', StockSound, NEW w \in Workers, SaveSelect(w)
    PROVE  StockSound'
<1>1. PICK t, cols : t = tx[w] /\ cols = Changed(t.ent, Seen(RowOf(t), w)) \cup Details(t.req)
  OBVIOUS
<1>2. pc[w] = "select" /\ UNCHANGED <<product, moved>> /\ "select" \in Saves /\ "update" \in Saves
  BY DEF SaveSelect, tables, Saves
<1>3. Knows("select", t) /\ LocalsTyped(t) /\ DOMAIN t = LocalNames
  BY <1>1, <1>2, DeductsHere
<1>4. SaveTyped(t)
  BY <1>2, <1>3 DEF Knows
<1>5. t.then \notin Saves /\ t.then # "findCustomer" /\ At("select", t) = t.then
  BY <1>2, <1>4 DEF SaveTyped, AfterSave, Saves, At
<1>6. PICK u, v : u = [t EXCEPT !.cols = cols] /\ v = Saved(t)
  OBVIOUS
<1>7. /\ u.req = t.req /\ u.i = t.i /\ u.left = t.left /\ u.prod = t.prod /\ u.moves = t.moves
      /\ u.tbl = t.tbl /\ u.key = t.key /\ u.ent = t.ent /\ u.then = t.then
      /\ v.req = t.req /\ v.i = t.i /\ v.left = t.left /\ v.prod = t.prod /\ v.moves = t.moves
  BY <1>3, <1>6 DEF Saved, LocalNames
<1>8. At("update", u) = At("select", t) /\ At(t.then, v) = At("select", t)
  BY <1>2, <1>5, <1>7 DEF At
<1>9. /\ ProductsLoaded("update", u) = ProductsLoaded("select", t)
      /\ ProductsLoaded(t.then, v) = ProductsLoaded("select", t)
  BY <1>7, <1>8 DEF ProductsLoaded
<1>10. ASSUME NEW q
       PROVE  /\ Undeducted("update", u, q) = Undeducted("select", t, q)
              /\ Undeducted(t.then, v, q) = Undeducted("select", t, q)
  BY <1>7, <1>8 DEF Undeducted, ProductOf
<1>11. Goto(w, t.then, v) \/ Goto(w, "update", u)
  BY <1>1, <1>6 DEF SaveSelect
<1>12. CASE Goto(w, "update", u)
  <2>1. "update" # "findCustomer"
    OBVIOUS
  <2> QED
    BY <1>1, <1>2, <1>7, <1>9, <1>10, <1>12, <2>1, Uncounted
<1>13. CASE Goto(w, t.then, v)
  BY <1>1, <1>2, <1>5, <1>7, <1>9, <1>10, <1>13, Uncounted
<1> QED
  BY <1>11, <1>12, <1>13

\* A handler that has saved still has what it loaded.
LEMMA SavedLoads ==
    ASSUME StoreSound, StockSound, NEW w \in Workers, pc[w] = "update",
           NEW t, t = tx[w], NEW l, l = t.then, NEW u, u = Saved(t)
    PROVE  /\ SaveTyped(t) /\ l \notin Saves /\ l # "findCustomer"
           /\ u.moves = t.moves /\ u.prod = t.prod
           /\ ProductsLoaded(l, u) = ProductsLoaded("update", t)
           /\ \A q : Undeducted(l, u, q) = Undeducted("update", t, q)
<1>1. Knows("update", t) /\ LocalsTyped(t) /\ DOMAIN t = LocalNames
  BY DeductsHere
<1>2. SaveTyped(t) /\ "update" \in Saves
  BY <1>1 DEF Knows, Saves
<1>3. l \notin Saves /\ l # "findCustomer" /\ At("update", t) = l
  BY <1>2 DEF SaveTyped, AfterSave, Saves, At
<1>4. u.req = t.req /\ u.i = t.i /\ u.left = t.left /\ u.prod = t.prod /\ u.moves = t.moves
  BY <1>1 DEF Saved, LocalNames
<1>5. At(l, u) = At("update", t)
  BY <1>3 DEF At
<1>6. ProductsLoaded(l, u) = ProductsLoaded("update", t)
  BY <1>4, <1>5 DEF ProductsLoaded
<1>7. ASSUME NEW q PROVE Undeducted(l, u, q) = Undeducted("update", t, q)
  BY <1>4, <1>5 DEF Undeducted, ProductOf
<1> QED
  BY <1>2, <1>3, <1>4, <1>6, <1>7

\* A save of another table.
LEMMA OtherUpdateKeepsStock ==
    ASSUME StoreSound, StoreSound', StockSound, NEW w \in Workers, SaveUpdate(w), tx[w].tbl # "product"
    PROVE  StockSound'
<1>1. PICK t, u, l : t = tx[w] /\ u = Saved(t) /\ l = t.then
  OBVIOUS
<1>2. pc[w] = "update" /\ UNCHANGED <<product, moved>> /\ Goto(w, l, u)
  BY <1>1 DEF SaveUpdate, Updated
<1>3. /\ l \notin Saves /\ l # "findCustomer" /\ u.moves = t.moves /\ u.prod = t.prod
      /\ ProductsLoaded(l, u) = ProductsLoaded("update", t)
      /\ \A q : Undeducted(l, u, q) = Undeducted("update", t, q)
  BY <1>1, <1>2, SavedLoads
<1> QED
  BY <1>1, <1>2, <1>3, Uncounted

\* The UPDATE of a product writes the stock of the row or that of the entity.
LEMMA ProductUpdateKeepsStock ==
    ASSUME StoreSound, StoreSound', StockSound, NEW w \in Workers, SaveUpdate(w), tx[w].tbl = "product"
    PROVE  StockSound'
<1>1. PICK t, u, l, k : t = tx[w] /\ u = Saved(t) /\ l = t.then /\ k = t.key
  OBVIOUS
<1>2. pc[w] = "update" /\ UNCHANGED moved /\ Goto(w, l, u) /\ "update" \in Saves
  BY <1>1 DEF SaveUpdate, Updated, Saves
<1>3. Knows("update", t) /\ Deducts(w, "update", t)
  BY <1>1, <1>2, DeductsHere
<1>4. /\ SaveTyped(t) /\ l \notin Saves /\ l # "findCustomer" /\ u.moves = t.moves /\ u.prod = t.prod
      /\ ProductsLoaded(l, u) = ProductsLoaded("update", t)
      /\ \A q : Undeducted(l, u, q) = Undeducted("update", t, q)
  BY <1>1, <1>2, SavedLoads
<1>5. PICK v : v = Patched(Seen(product[k], w), t.ent, t.cols)
  OBVIOUS
<1>6. /\ k \in Products /\ t.ent \in ProductRow /\ product[k] \in Versions(ProductRow, Workers)
      /\ product[k].xid \in {NoTx, w}
  <2>1. k \in Products /\ t.ent \in ProductRow
    BY <1>1, <1>4 DEF SaveTyped
  <2>2. product[k].xid \in {NoTx, w}
    BY <1>1 DEF SaveUpdate, RowOf, Writable
  <2> QED
    BY <2>1, <2>2 DEF StoreSound, TypeOK
<1>7. product'[k] = Written(product[k], w, v) /\ \A p \in Products \ {k} : product'[p] = product[p]
  BY <1>1, <1>5, <1>6 DEF SaveUpdate, Updated, StoreSound, TypeOK
<1>8. product'[k].cur = product[k].cur /\ product'[k].new = v /\ product'[k].xid = w
  BY <1>6, <1>7 DEF Written, Versions
<1>9. tx'[w] = u
  BY <1>2 DEF Goto, StoreSound, HandlersKnow
<1>10. ASSUME NEW q PROVE Held(q)' = Held(q) /\ Taking(w, q)' = Taking(w, q)
  BY <1>1, <1>2, <1>4, <1>9, HeldNext DEF Held, Taking
<1>11. CoversHeld(k)'
  <2>1. PICK h, a, r : h = Held(k) /\ a = Taking(w, k) /\ r = product[k]
    OBVIOUS
  <2>2. r.cur.stock >= h
    BY <1>6, <2>1 DEF StockSound, CoversHeld
  <2>3. Seen(r, w) \in ProductRow /\ Seen(r, w).stock >= h + a
    BY <1>6, <2>1, SeenCovers
  <2>4. t.ent.stock >= h + a
    BY <1>1, <1>2, <1>3, <2>1 DEF Deducts
  <2>5. v.stock = Seen(r, w).stock \/ v.stock = t.ent.stock
    BY <1>5, <2>1, <2>3 DEF Patched, ProductRow
  <2>6. v.stock >= h + a
    BY <2>3, <2>4, <2>5
  <2>7. Held(k)' = h /\ Taking(w, k)' = a
    BY <1>10, <2>1
  <2> QED
    BY <1>8, <2>1, <2>2, <2>6, <2>7 DEF CoversHeld
<1>12. ASSUME NEW p \in Products
       PROVE  \/ product'[p] = product[p] /\ product[p].xid \notin {NoTx, w}
              \/ product'[p].xid \in {NoTx, w} /\ CoversHeld(p)'
  <2>1. CASE p = k
    BY <1>8, <1>11, <2>1
  <2>2. CASE p # k /\ product[p].xid \in {NoTx, w}
    <3>1. CoversHeld(p)
      BY DEF StockSound
    <3>2. CoversHeld(p)'
      BY <1>7, <1>10, <2>2, <3>1 DEF CoversHeld
    <3> QED
      BY <1>7, <2>2, <3>2
  <2> QED
    BY <1>7, <2>1, <2>2
<1>13. \A b \in BatchIds : u.moves[b] <= 0
  BY <1>3, <1>4 DEF Deducts
<1>14. \A q \in ProductsLoaded(l, u) : u.prod[q].stock >= Held(q) + Taking(w, q) + Undeducted(l, u, q)
  BY <1>3, <1>4 DEF Deducts
<1>15. Deducts(w, l, u)'
  BY <1>4, <1>10, <1>13, <1>14
  DEF Deducts, BatchIds, Slots, ProductsLoaded, Undeducted, ProductOf, At, Saves, BatchSection
<1>16. \A q : Held(q)' <= Held(q)
  BY <1>10, HeldTyped
<1> QED
  BY <1>2, <1>12, <1>15, <1>16, OneDeducts

\* A request has loaded no product yet, and took nothing from the batches.
LEMMA BeginKeepsStock ==
    ASSUME StoreSound, StoreSound', LedgerSound, StockSound, NEW w \in Workers, NEW r \in Requests,
           Begin(w, r)
    PROVE  StockSound'
<1>1. PICK t, l : t = [NoLocals EXCEPT !.req = r] /\ l = Entry(r)
  OBVIOUS
<1>2. pc[w] = "idle" /\ Goto(w, l, t) /\ UNCHANGED <<product, moved>>
  BY <1>1 DEF Begin, tables
<1>3. l \in {"findCustomer", "findSale", "findStock", "findProduct", "findAccount", "findDebtor"}
  <2>1. r.kind \in {"sale", "void", "stockIn", "stockOut", "editProduct", "removeProduct",
                    "editCustomer", "deactivateCustomer", "payment"}
    BY FormsAssumption DEF SaleForm, VoidForm, StockForm, ProductForm, LimitForm, AccountForm, PaymentForm
  <2> QED
    BY <1>1, <2>1 DEF Entry
<1>4. At(pc[w], tx[w]) = "idle" /\ pc[w] \notin Saves /\ l \notin Saves /\ At(l, t) = l
  BY <1>2, <1>3 DEF At, Saves
<1>5. ~Holds(w)
  BY <1>2, <1>4, NoNumberIsNoSale DEF StoreSound, NumbersHeld, NumberFits, Numberless, Holds
<1>6. \A b \in BatchIds : batch[b].xid # w
  BY <1>4, <1>5, TablesAssumption DEF LedgerSound, BatchOwned
<1>7. t.moves = tx[w].moves
  <2>1. tx[w].moves \in [BatchIds -> Int]
    BY DEF StoreSound, HandlersKnow, Knows, LocalsTyped
  <2>2. \A b \in BatchIds : tx[w].moves[b] = 0
    BY <1>4, <1>6, NothingBooked
  <2>3. t.moves = NoMoves
    BY <1>1 DEF NoLocals
  <2> QED
    BY <2>1, <2>2, <2>3 DEF NoMoves
<1>8. ProductsLoaded(l, t) = {}
  BY <1>3, <1>4 DEF ProductsLoaded, BatchSection
<1>9. t.i = 1
  BY <1>1 DEF NoLocals
<1> QED
  BY <1>2, <1>4, <1>7, <1>8, <1>9, OneCounts

\* A commit books what was taken from the batches and shows the product that saved it.
LEMMA CommitKeepsStock ==
    ASSUME StoreSound, StoreSound', StockSound, NEW w \in Workers, Commit(w)
    PROVE  StockSound'
<1>1. Goto(w, "idle", NoLocals) /\ product' = CommitTable(product, w)
  BY DEF Commit, Leave
<1>2. w # NoTx
  BY TablesAssumption
<1>3. ASSUME NEW q PROVE Held(q)' = Held(q) + Taking(w, q)
  <2>1. PICK f, g, h, S : f = moved /\ g = tx[w].moves /\ h = moved' /\ S = BatchesOf(q)
    OBVIOUS
  <2>2. IsFiniteSet(S) /\ S \subseteq BatchIds
    BY <2>1, BatchesFinite DEF BatchesOf
  <2>3. f \in [BatchIds -> Int] /\ g \in [BatchIds -> Int]
    BY <2>1 DEF StoreSound, TypeOK, HandlersKnow, Knows, LocalsTyped
  <2>4. \A b \in BatchIds : h[b] = f[b] + g[b]
    BY <2>1 DEF Commit
  <2>5. \A b \in S : f[b] \in Int /\ g[b] \in Int /\ h[b] = f[b] + g[b]
    BY <2>2, <2>3, <2>4
  <2>6. SumOf(h, S) = SumOf(f, S) + SumOf(g, S)
    BY <2>2, <2>5, TotalPlus
  <2>7. Held(q)' = SumOf(h, S)
    BY <2>1, HeldNext
  <2> QED
    BY <2>1, <2>6, <2>7 DEF Held, Taking
<1>4. ASSUME NEW q PROVE Held(q)' <= Held(q)
  BY <1>3, HeldTyped, TakingTyped
<1>5. ASSUME NEW p \in Products
      PROVE  /\ product[p].xid # w => product'[p] = product[p]
             /\ product[p].xid = w => product'[p].xid = NoTx /\ product'[p].cur = product[p].new
  BY <1>1 DEF CommitTable, CommitRow, Stored, StoreSound, TypeOK
<1>6. ASSUME NEW p \in Products
      PROVE  \/ product'[p] = product[p] /\ product[p].xid \notin {NoTx, w}
             \/ product'[p].xid \in {NoTx, w} /\ CoversHeld(p)'
  <2>1. PICK r, z, h, a, g : /\ r = product[p] /\ z = product'[p]
                             /\ h = Held(p) /\ a = Taking(w, p) /\ g = Held(p)'
    OBVIOUS
  <2>2. h \in Int /\ a \in Int /\ a <= 0 /\ g = h + a
    BY <1>3, <2>1, HeldTyped, TakingTyped
  <2>3. r.cur.stock >= h /\ (r.xid = w => r.new.stock >= h + a)
    BY <1>2, <2>1 DEF StockSound, CoversHeld
  <2>4. r.cur.stock \in Int /\ r.new.stock \in Int
    BY <2>1 DEF StoreSound, TypeOK, Versions, ProductRow
  <2>5. CASE r.xid \notin {NoTx, w}
    BY <1>5, <2>1, <2>5
  <2>6. CASE r.xid \in {NoTx, w}
    <3>1. z.xid = NoTx /\ z.cur.stock >= g
      BY <1>5, <2>1, <2>2, <2>3, <2>4, <2>6
    <3> QED
      BY <2>1, <3>1 DEF CoversHeld
  <2> QED
    BY <2>5, <2>6
<1>7. Deducts(w, "idle", NoLocals)'
  BY DEF Deducts, NoLocals, NoMoves, BatchIds, Slots, ProductsLoaded, At, Saves, BatchSection
<1> QED
  BY <1>1, <1>4, <1>6, <1>7, OneDeducts

LEMMA NextKeepsStock ==
    ASSUME OnlyTills, StoreSound, StoreSound', LedgerSound, StockSound, [Next]_vars
    PROVE  StockSound'
<1>1. OnlyTillsAndDeliveries /\ LastDay = 1
  BY DEF OnlyTills, OnlyTillsAndDeliveries
<1>2. ASSUME NEW w \in Workers, Adjust(w) PROVE FALSE
  <2>1. PICK l, t : l = pc[w] /\ t = tx[w]
    OBVIOUS
  <2>2. l \in Adjusting
    BY <1>2, <2>1
    DEF Adjust, FindStock, StockIn, StockOut, DrainBatch, BatchesExhausted, DeductStock, Adjusting
  <2>3. At(l, t) = l /\ l # "idle" /\ Knows(l, t)
    BY <2>1, <2>2, DeductsHere DEF Adjusting, Saves
  <2>4. t.req \in StockForm /\ t.req \in Requests
    BY <2>2, <2>3 DEF Knows
  <2> QED
    BY <2>4 DEF StockForm, OnlyTills, OnlyTillsAndDeliveries
<1>3. ASSUME NEW w \in Workers, Create(w) PROVE StockSound'
  <2>1. CASE ShortOfBatches(w)
    BY <2>1, AbortKeepsStock DEF ShortOfBatches
  <2> QED
    BY <1>3, <2>1, FindCustomerKeepsStock, CheckStockKeepsStock, StillLoaded, TakeBatchKeepsStock,
       DeductProductKeepsStock, ChargeCustomerKeepsStock DEF Create
<1>4. ASSUME NEW w \in Workers, SaveUpdate(w) PROVE StockSound'
  BY <1>4, OtherUpdateKeepsStock, ProductUpdateKeepsStock
<1>5. ASSUME NEW w \in Workers, Step(w) PROVE StockSound'
  BY <1>1, <1>2, <1>3, <1>4, <1>5, NoVoids, MaintainProductsKeepsStock, MaintainCustomersKeepsStock,
     SaveSelectKeepsStock, CommitKeepsStock, AbortKeepsStock
  DEF Step, DeadlockVictim
<1>6. ASSUME NEW w \in Workers, NEW r \in Requests, Begin(w, r) PROVE StockSound'
  BY <1>6, BeginKeepsStock
<1>7. ASSUME NEW w \in Workers, Disconnect(w) PROVE StockSound'
  BY <1>7, AbortKeepsStock DEF Disconnect
<1>8. CASE UNCHANGED vars
  <2>1. UNCHANGED <<product, moved, pc, tx>>
    BY <1>8 DEF vars
  <2>2. ASSUME NEW q PROVE Held(q)' = Held(q)
    BY <2>1 DEF Held, BatchesOf, BatchIds, Slots
  <2>3. ASSUME NEW v \in Workers, NEW q PROVE Taking(v, q)' = Taking(v, q)
    BY <2>1, HeldNext DEF Taking
  <2>4. ASSUME NEW p \in Products PROVE CoversHeld(p)'
    <3>1. CoversHeld(p)
      BY DEF StockSound
    <3>2. product[p].xid # NoTx => product[p].xid \in Workers
      BY DEF StoreSound, TypeOK, Versions
    <3> QED
      BY <2>1, <2>2, <2>3, <3>1, <3>2 DEF CoversHeld
  <2>5. ASSUME NEW v \in Workers PROVE Deducts(v, pc[v], tx[v])'
    <3>1. Deducts(v, pc[v], tx[v])
      BY DEF StockSound
    <3>2. PICK l, t : l = pc[v] /\ t = tx[v]
      OBVIOUS
    <3>3. Deducts(v, l, t)'
      BY <2>2, <2>3, <3>1, <3>2
      DEF Deducts, BatchIds, Slots, ProductsLoaded, Undeducted, ProductOf, At, Saves, BatchSection
    <3> QED
      BY <2>1, <3>2, <3>3
  <2> QED
    BY <2>4, <2>5 DEF StockSound
<1>9. CASE Midnight
  BY <1>1, <1>9 DEF Midnight, StoreSound, TypeOK
<1> QED
  BY <1>5, <1>6, <1>7, <1>8, <1>9 DEF Next, Closed

\* What the batches of p hold at the start.
LEMMA OpeningIs ==
    ASSUME NEW p, NEW S, S = BatchesOf(p), NEW f, f = [b \in S |-> OpeningBatch(b).qty]
    PROVE  MapThenSumSet(LAMBDA b : OpeningBatch(b).qty, BatchesOf(p)) = SumOf(f, S)
<1> DEFINE P(it) == it = [s \in SUBSET S |-> IF s = {} THEN 0
                                              ELSE OpeningBatch(Next1(s)).qty + it[s \ {Next1(s)}]]
<1>1. IsFiniteSet(S)
  BY BatchesFinite
<1>2. ASSUME NEW it PROVE P(it) <=> Sums(f, S, it)
  <2>1. \A s \in SUBSET S : s # {} => f[Next1(s)] = OpeningBatch(Next1(s)).qty
    BY Next1In
  <2> QED
    BY <2>1 DEF Sums
<1>3. PICK jt : Sums(f, S, jt)
  BY <1>1, SumsExist
<1>4. P(CHOOSE it : P(it))
  BY <1>2, <1>3
<1>5. MapThenSumSet(LAMBDA b : OpeningBatch(b).qty, BatchesOf(p)) = (CHOOSE it : P(it))[S]
  BY DEF MapThenSumSet, MapThenFoldSet, Next1
<1> HIDE DEF P
<1> QED
  BY <1>1, <1>2, <1>4, <1>5, TotalIs

\* At the start the stock of a product is what its batches hold.
LEMMA InitStock == Init => StockSound
<1> SUFFICES ASSUME Init PROVE StockSound
  OBVIOUS
<1>1. ASSUME NEW p \in Products PROVE CoversHeld(p)
  <2>1. PICK S, f : S = BatchesOf(p) /\ f = [b \in S |-> OpeningBatch(b).qty]
    OBVIOUS
  <2>2. OpeningStock[p] = SumOf(f, S)
    BY <2>1, OpeningIs, OpeningAssumption
  <2>3. IsFiniteSet(S) /\ S \subseteq BatchIds
    BY <2>1, BatchesFinite DEF BatchesOf
  <2>4. \A b \in S : moved[b] = f[b]
    BY <2>1, <2>3 DEF Init
  <2>5. SumOf(moved, S) = SumOf(f, S)
    BY <2>3, <2>4, TotalSame
  <2>6. Held(p) = OpeningStock[p]
    BY <2>1, <2>2, <2>5 DEF Held
  <2>7. product[p].cur.stock = OpeningStock[p] /\ product[p].xid = NoTx
    BY DEF Init, Stored
  <2>8. OpeningStock[p] \in Nat
    BY TablesAssumption
  <2> QED
    BY <2>6, <2>7, <2>8 DEF CoversHeld
<1>2. ASSUME NEW w \in Workers PROVE Deducts(w, pc[w], tx[w])
  <2>1. pc[w] = "idle" /\ tx[w] = NoLocals
    BY DEF Init
  <2>2. \A b \in BatchIds : NoLocals.moves[b] <= 0
    BY DEF NoLocals, NoMoves
  <2> QED
    BY <2>1, <2>2 DEF Deducts, ProductsLoaded, At, Saves, BatchSection
<1> QED
  BY <1>1, <1>2 DEF StockSound

\* On one day, while checkouts sell and products and customers are edited, the cached
\* stock of a product is never below what its batches can give, so that no sale that
\* they could serve is turned away: create lowers a stock that it read before the
\* batches were locked (sales.service.ts:57-74, 222-223), and a save writes back the
\* whole entity, so a deduction can be lost, but none is ever counted twice or
\* survives a rollback.
THEOREM StockCoversBatches ==
    ASSUME OnlyTills PROVE Spec => []StockNeverUnderstates
<1>1. OnlyTillsAndDeliveries
  BY DEF OnlyTills
<1>2. Init => StoreSound /\ LedgerSound /\ RowsSound /\ StockSound
  BY InitSound, InitLedger, InitRows, InitStock
<1>3. StoreSound /\ LedgerSound /\ RowsSound /\ StockSound /\ [Next]_vars
      => StoreSound' /\ LedgerSound' /\ RowsSound' /\ StockSound'
  BY <1>1, NextKeepsStore, NextKeepsLedger, NextKeepsRows, NextKeepsStock
<1>4. StoreSound /\ LedgerSound /\ RowsSound /\ StockSound => StockNeverUnderstates
  <2>1. SUFFICES ASSUME StoreSound, LedgerSound, RowsSound, StockSound, NEW p \in Products
                 PROVE  product[p].cur.stock >= OnHand(p)
    BY DEF StockNeverUnderstates
  <2>2. PICK S, f : S = BatchesOf(p) /\ f = [b \in S |-> moved[b]]
    OBVIOUS
  <2>3. OnHand(p) = SumOf(f, S)
    BY <2>1, <2>2, MovementsAddUp, MovedIs DEF ProductLedger
  <2>4. IsFiniteSet(S) /\ \A b \in S : f[b] = moved[b]
    BY <2>2, BatchesFinite
  <2>5. SumOf(moved, S) = SumOf(f, S)
    BY <2>4, TotalSame
  <2>6. product[p].cur.stock >= Held(p)
    BY <2>1 DEF StockSound, CoversHeld
  <2> QED
    BY <2>2, <2>3, <2>5, <2>6 DEF Held
<1> QED
  BY <1>2, <1>3, <1>4, PTL DEF Spec

-----------------------------------------------------------------------------
(* Sums over the items of a cart and the lines of a sale, by product       *)

LEMMA NoLinesOf == ASSUME NEW p PROVE UnitsOf(<<>>, p) = 0
<1>1. PICK ls, S : ls = <<>> /\ S = {}
  OBVIOUS
<1>2. ls \in Seq(Line) /\ S = 1 .. Len(ls)
  BY <1>1
<1>3. PICK f : UnitsByProduct(ls, p, S, f)
  BY UnitsByProductExist
<1>4. UnitsOf(ls, p) = SumOf(f, S)
  BY <1>2, <1>3, UnitsOfIs
<1> QED
  BY <1>1, <1>4, TotalEmpty

\* One more line.
LEMMA UnitsAdd ==
    ASSUME NEW ls \in Seq(Line), NEW p, NEW l \in Line
    PROVE  /\ UnitsOf(Append(ls, l), p) = UnitsOf(ls, p) + (IF l.batch[1] = p THEN l.qty ELSE 0)
           /\ UnitsOf(ls, p) \in Int
<1>1. PICK n, ms, S, R : n = Len(ls) + 1 /\ ms = Append(ls, l) /\ S = 1 .. Len(ls) /\ R = 1 .. n
  OBVIOUS
<1>2. PICK f : UnitsByProduct(ls, p, S, f)
  BY UnitsByProductExist
<1>3. PICK g : UnitsByProduct(ms, p, R, g)
  BY UnitsByProductExist
<1>4. ms \in Seq(Line) /\ R = 1 .. Len(ms) /\ ms[n] = l /\ \A i \in S : ms[i] = ls[i]
  BY <1>1
<1>5. n \in R /\ R \ {n} = S
  <2>1. Len(ls) \in Nat
    OBVIOUS
  <2> QED
    BY <1>1, <2>1
<1>6. UnitsOf(ls, p) = SumOf(f, S) /\ IsFiniteSet(S) /\ \A i \in S : f[i] \in Int
  BY <1>1, <1>2, UnitsOfIs
<1>7. UnitsOf(ms, p) = SumOf(g, R) /\ IsFiniteSet(R) /\ \A i \in R : g[i] \in Int
  BY <1>3, <1>4, UnitsOfIs
<1>8. SumOf(g, R) = g[n] + SumOf(g, S)
  BY <1>5, <1>7, TotalAt
<1>9. SumOf(g, S) = SumOf(f, S)
  <2>1. \A i \in S : g[i] = f[i]
    BY <1>2, <1>3, <1>4, <1>5 DEF UnitsByProduct
  <2> QED
    BY <1>6, <2>1, TotalSame
<1>10. g[n] = IF l.batch[1] = p THEN l.qty ELSE 0
  BY <1>3, <1>4, <1>5 DEF UnitsByProduct
<1>11. SumOf(f, S) \in Int /\ g[n] \in Int
  BY <1>5, <1>6, <1>7, TotalInt
<1> QED
  BY <1>1, <1>6, <1>7, <1>8, <1>9, <1>10, <1>11

\* f gives for each item in S what it is of p.
UnitsByItem(r, p, S, f) == \A j \in S : f[j] = IF r.items[j].product = p THEN r.items[j].qty ELSE 0

LEMMA CartItems ==
    ASSUME NEW r \in SaleForm, NEW n \in Nat, n <= Len(r.items), NEW p, NEW S, S = 1 .. n,
           NEW f, UnitsByItem(r, p, S, f)
    PROVE  CartUnits(r, n, p) = SumOf(f, S) /\ IsFiniteSet(S) /\ \A j \in S : f[j] \in Int
<1>1. r.items \in Seq(CartItem)
  BY DEF SaleForm
<1>2. \A j \in S : r.items[j] \in CartItem
  BY <1>1
<1>3. IsFiniteSet(S)
  BY FS_Interval
<1>4. PICK g : g = [j \in S |-> IF r.items[j].product = p THEN r.items[j].qty ELSE 0]
  OBVIOUS
<1>5. \A j \in S : g[j] = f[j]
  BY <1>4 DEF UnitsByItem
<1>6. CartUnits(r, n, p) = SumOf(g, S)
  BY <1>4 DEF CartUnits
<1>7. SumOf(g, S) = SumOf(f, S)
  BY <1>3, <1>5, TotalSame
<1> QED
  BY <1>2, <1>3, <1>6, <1>7 DEF CartItem, UnitsByItem

LEMMA UnitsByItemExist == ASSUME NEW r, NEW p, NEW S PROVE \E f : UnitsByItem(r, p, S, f)
<1> SUFFICES \E f : \A j \in S : f[j] = IF r.items[j].product = p THEN r.items[j].qty ELSE 0
  BY DEF UnitsByItem
<1> WITNESS [j \in S |-> IF r.items[j].product = p THEN r.items[j].qty ELSE 0]
<1> QED
  OBVIOUS

\* The cart item by item.
LEMMA CartAdds ==
    ASSUME NEW r \in SaleForm, NEW n \in Nat \ {0}, n <= Len(r.items), NEW p
    PROVE  /\ CartUnits(r, n, p) = CartUnits(r, n - 1, p)
                                   + (IF r.items[n].product = p THEN r.items[n].qty ELSE 0)
           /\ CartUnits(r, n, p) \in Int /\ CartUnits(r, n - 1, p) \in Int
           /\ CartUnits(r, 0, p) = 0
<1>1. PICK m, R, S : m = n - 1 /\ R = 1 .. m /\ S = 1 .. n
  OBVIOUS
<1>2. m \in Nat /\ m <= Len(r.items) /\ S \ {n} = R /\ n \in S
  BY <1>1 DEF SaleForm
<1>3. PICK f, g : UnitsByItem(r, p, R, f) /\ UnitsByItem(r, p, S, g)
  BY UnitsByItemExist
<1>4. CartUnits(r, m, p) = SumOf(f, R) /\ IsFiniteSet(R) /\ \A j \in R : f[j] \in Int
  BY <1>1, <1>2, <1>3, CartItems
<1>5. CartUnits(r, n, p) = SumOf(g, S) /\ IsFiniteSet(S) /\ \A j \in S : g[j] \in Int
  BY <1>1, <1>3, CartItems
<1>6. SumOf(g, S) = g[n] + SumOf(g, R)
  BY <1>2, <1>5, TotalAt
<1>7. SumOf(g, R) = SumOf(f, R)
  <2>1. \A j \in R : g[j] = f[j]
    BY <1>2, <1>3 DEF UnitsByItem
  <2> QED
    BY <1>4, <2>1, TotalSame
<1>8. SumOf(f, R) \in Int /\ g[n] \in Int
  BY <1>2, <1>4, <1>5, TotalInt
<1>9. CartUnits(r, 0, p) = 0
  <2>1. PICK Z, z : Z = 1 .. 0 /\ z = [j \in Z |-> IF r.items[j].product = p THEN r.items[j].qty ELSE 0]
    OBVIOUS
  <2>2. CartUnits(r, 0, p) = SumOf(z, Z) /\ Z = {}
    BY <2>1 DEF CartUnits
  <2> QED
    BY <2>2, TotalEmpty
<1>10. g[n] = IF r.items[n].product = p THEN r.items[n].qty ELSE 0
  BY <1>2, <1>3 DEF UnitsByItem
<1> QED
  BY <1>1, <1>4, <1>5, <1>6, <1>7, <1>8, <1>9, <1>10

\* SalesBook adds up the same items.
LEMMA CartTotalIs ==
    ASSUME NEW r \in SaleForm, NEW p \in Products
    PROVE  CartTotal(r)[p] = CartUnits(r, Len(r.items), p)
<1>1. PICK n, S : n = Len(r.items) /\ S = 1 .. n
  OBVIOUS
<1>2. n \in Nat /\ S = DOMAIN r.items
  BY <1>1 DEF SaleForm
<1>3. PICK f : UnitsByItem(r, p, S, f)
  BY UnitsByItemExist
<1>4. CartUnits(r, n, p) = SumOf(f, S) /\ IsFiniteSet(S)
  BY <1>1, <1>2, <1>3, CartItems
<1> DEFINE P(it) == it = [s \in SUBSET S |->
                            IF s = {} THEN 0
                            ELSE (IF r.items[Next1(s)].product = p THEN r.items[Next1(s)].qty ELSE 0)
                                 + it[s \ {Next1(s)}]]
<1>5. ASSUME NEW it PROVE P(it) <=> Sums(f, S, it)
  <2>1. \A s \in SUBSET S : s # {} =>
          f[Next1(s)] = IF r.items[Next1(s)].product = p THEN r.items[Next1(s)].qty ELSE 0
    BY <1>3, Next1In DEF UnitsByItem
  <2> QED
    BY <2>1 DEF Sums
<1>6. PICK jt : Sums(f, S, jt)
  BY <1>4, SumsExist
<1>7. P(CHOOSE it : P(it))
  BY <1>5, <1>6
<1>8. CartTotal(r)[p] = (CHOOSE it : P(it))[S]
  BY <1>2 DEF CartTotal, MapThenSumSet, MapThenFoldSet, Next1
<1> HIDE DEF P
<1> QED
  BY <1>1, <1>4, <1>5, <1>7, <1>8, TotalIs

-----------------------------------------------------------------------------
(* What a handler has done to the units of each product                    *)

\* It is the same at the same statement, item and rest of the item.
LEMMA SameNet ==
    ASSUME NEW l, NEW t, NEW m, NEW u, At(m, u) = At(l, t), u.req = t.req, u.i = t.i, u.left = t.left
    PROVE  \A p : Net(m, u, p) = Net(l, t, p)
  BY DEF Net, Booking, Sold, Undeducted, ProductOf

LEMMA SameCarts ==
    ASSUME NEW n, NEW l, NEW t, NEW m, NEW u, At(m, u) = At(l, t), u.req = t.req, u.i = t.i,
           u.left = t.left, u.moves = t.moves, Carts(n, l, t)
    PROVE  Carts(n, m, u)
  BY SameNet DEF Carts

\* Nothing, before a checkout has a sale and a delivery its batch.
LEMMA NothingNet ==
    ASSUME NEW l, NEW t, At(l, t) \notin BatchSection,
           At(l, t) = "commit" => t.req.kind \notin {"sale", "stockIn"}
    PROVE  \A p : Net(l, t, p) = 0
  BY DEF Net, Booking

LEMMA NothingCarts ==
    ASSUME NEW n, NEW l, NEW t, At(l, t) \notin BatchSection,
           At(l, t) = "commit" => t.req.kind \notin {"sale", "stockIn"},
           Carts(n, l, t),
           NEW r, NEW m, NEW u, At(m, u) \notin BatchSection,
           At(m, u) = "commit" => u.req.kind \notin {"sale", "stockIn"} /\ r \notin SaleIds,
           At(m, u) \in {"generateSaleNumber", "insertSale"} => u.i = 1,
           u.moves = t.moves
    PROVE  Carts(r, m, u)
<1>1. \A p : Net(l, t, p) = 0 /\ Net(m, u, p) = 0
  BY NothingNet
<1> QED
  BY <1>1 DEF Carts

\* No movements, no units.
LEMMA NoMovesAddUp == ASSUME NEW p PROVE SumOf(NoMoves, BatchesOf(p)) = 0
<1>1. PICK S, m : S = BatchesOf(p) /\ m = NoMoves
  OBVIOUS
<1>2. IsFiniteSet(S) /\ \A b \in S : m[b] = 0
  BY <1>1, BatchesFinite DEF BatchesOf, NoMoves
<1>3. SumOf(m, S) = SumOf(m, {})
  BY <1>2, TotalOver
<1> QED
  BY <1>1, <1>3, TotalEmpty

LEMMA FreshCarts ==
    ASSUME NEW n, NEW l, NEW t, t.moves = NoMoves, At(l, t) \notin BatchSection \cup {"commit"},
           At(l, t) \in {"generateSaleNumber", "insertSale"} => t.i = 1
    PROVE  Carts(n, l, t)
  BY NothingNet, NoMovesAddUp DEF Carts

\* The statement of an entity being saved is where its handler goes on.
LEMMA SavingAt ==
    ASSUME NEW t, DOMAIN t = LocalNames, NEW tbl, NEW key, NEW ent, NEW l,
           NEW u, u = Saving(tbl, key, ent, l, t)
    PROVE  /\ At("select", u) = l /\ u.req = t.req /\ u.i = t.i /\ u.left = t.left /\ u.moves = t.moves
           /\ u.list = t.list
<1>1. u.then = l /\ u.req = t.req /\ u.i = t.i /\ u.left = t.left /\ u.moves = t.moves /\ u.list = t.list
  BY DEF Saving, LocalNames
<1> QED
  BY <1>1 DEF At, Saves

\* One worker goes on.
LEMMA OneCarts ==
    ASSUME StoreSound, CartSound, NEW w \in Workers, NEW m, NEW u, Goto(w, m, u),
           \A v \in Workers \ {w} : num'[v] = num[v],
           Carts(num'[w], m, u)
    PROVE  CartSound'
<1>1. /\ pc'[w] = m /\ tx'[w] = u
      /\ \A v \in Workers \ {w} : pc'[v] = pc[v] /\ tx'[v] = tx[v]
  BY DEF Goto, StoreSound, HandlersKnow
<1>2. \A v \in Workers : Carts(num'[v], pc'[v], tx'[v])
  BY <1>1 DEF CartSound
<1>3. ASSUME NEW v \in Workers PROVE Carts(num[v], pc[v], tx[v])'
  <2>1. PICK n, l, t : n = num'[v] /\ l = pc'[v] /\ t = tx'[v]
    OBVIOUS
  <2>2. Carts(n, l, t)
    BY <1>2, <2>1
  <2> QED
    BY <2>1, <2>2 DEF Carts, Net, Booking, Sold, Undeducted, ProductOf, At, CartUnits, BatchesOf, BatchIds,
       Slots, SaleIds, Saves, BatchSection
<1> QED
  BY <1>3 DEF CartSound

\* What a worker knows at its statement.
LEMMA CartsHere ==
    ASSUME StoreSound, CartSound, NEW w \in Workers, NEW l, NEW t, l = pc[w], t = tx[w]
    PROVE  /\ Knows(l, t) /\ LocalsTyped(t) /\ DOMAIN t = LocalNames /\ NumberFits(l, t, num[w])
           /\ Carts(num[w], l, t) /\ (l \notin Saves => At(l, t) = l)
<1>1. Knows(l, t) /\ Carts(num[w], l, t) /\ NumberFits(l, t, num[w])
  BY DEF StoreSound, HandlersKnow, NumbersHeld, CartSound
<1>2. LocalsTyped(t)
  BY <1>1 DEF Knows
<1> QED
  BY <1>1, <1>2 DEF LocalsTyped, At

\* The end of a request.
LEMMA LeaveKeepsCarts ==
    ASSUME StoreSound, CartSound, NEW w \in Workers, Leave(w)
    PROVE  CartSound'
<1>1. Goto(w, "idle", NoLocals) /\ \A v \in Workers \ {w} : num'[v] = num[v]
  BY DEF Leave, StoreSound, TypeOK
<1>2. NoLocals.moves = NoMoves /\ At("idle", NoLocals) = "idle"
  BY DEF NoLocals, At, Saves
<1>3. Carts(num'[w], "idle", NoLocals)
  BY <1>2, FreshCarts DEF BatchSection
<1> QED
  BY <1>1, <1>3, OneCarts

LEMMA BeginKeepsCarts ==
    ASSUME StoreSound, CartSound, NEW w \in Workers, NEW r \in Requests, Begin(w, r)
    PROVE  CartSound'
<1>1. PICK t, l : t = [NoLocals EXCEPT !.req = r] /\ l = Entry(r)
  OBVIOUS
<1>2. Goto(w, l, t) /\ UNCHANGED num
  BY <1>1 DEF Begin
<1>3. l \in {"findCustomer", "findSale", "findStock", "findProduct", "findAccount", "findDebtor"}
  <2>1. r.kind \in {"sale", "void", "stockIn", "stockOut", "editProduct", "removeProduct",
                    "editCustomer", "deactivateCustomer", "payment"}
    BY FormsAssumption DEF SaleForm, VoidForm, StockForm, ProductForm, LimitForm, AccountForm, PaymentForm
  <2> QED
    BY <1>1, <2>1 DEF Entry
<1>4. t.moves = NoMoves /\ At(l, t) = l
  BY <1>1, <1>3 DEF NoLocals, At, Saves
<1>5. Carts(num'[w], l, t)
  BY <1>3, <1>4, FreshCarts DEF BatchSection
<1> QED
  BY <1>2, <1>5, OneCarts

LEMMA FindCustomerKeepsCarts ==
    ASSUME StoreSound, CartSound, NEW w \in Workers, FindCustomer(w)
    PROVE  CartSound'
<1>1. PICK t : t = tx[w]
  OBVIOUS
<1>2. CASE Abort(w)
  BY <1>2, LeaveKeepsCarts DEF Abort
<1>3. CASE ~Abort(w)
  <2>1. pc[w] = "findCustomer" /\ UNCHANGED num
    BY <1>3 DEF FindCustomer
  <2>2. DOMAIN t = LocalNames /\ Carts(num[w], "findCustomer", t) /\ At("findCustomer", t) = "findCustomer"
    BY <1>1, <2>1, CartsHere DEF Saves
  <2>3. PICK u : u = [t EXCEPT !.cust = Seen(customer[t.req.customer], w)]
    OBVIOUS
  <2>4. PICK v : v \in {t, u} /\ Goto(w, "checkStock", v)
    BY <1>1, <1>3, <2>3 DEF FindCustomer
  <2>5. v.moves = t.moves /\ At("checkStock", v) = "checkStock"
    BY <2>2, <2>3, <2>4 DEF LocalNames, At, Saves
  <2>6. Carts(num'[w], "checkStock", v)
    BY <2>2, <2>5, NothingCarts DEF BatchSection
  <2> QED
    BY <2>1, <2>4, <2>6, OneCarts
<1> QED
  BY <1>2, <1>3

LEMMA CheckStockKeepsCarts ==
    ASSUME StoreSound, CartSound, NEW w \in Workers, CheckStock(w)
    PROVE  CartSound'
<1>1. PICK t : t = tx[w]
  OBVIOUS
<1>2. CASE Abort(w)
  BY <1>2, LeaveKeepsCarts DEF Abort
<1>3. CASE ~Abort(w)
  <2>1. pc[w] = "checkStock" /\ UNCHANGED num
    BY <1>3 DEF CheckStock
  <2>2. DOMAIN t = LocalNames /\ Carts(num[w], "checkStock", t) /\ At("checkStock", t) = "checkStock"
    BY <1>1, <2>1, CartsHere DEF Saves
  <2>3. PICK m, j, q, p, v :
           /\ v = Checked(t, j, q, p) /\ Goto(w, m, v)
           /\ m = "checkStock" \/ (m = "generateSaleNumber" /\ j = 1)
    BY <1>1, <1>3 DEF CheckStock
  <2>4. v.moves = t.moves /\ v.i = j /\ At(m, v) = m
    BY <2>2, <2>3 DEF Checked, LocalNames, At, Saves
  <2>5. Carts(num'[w], m, v)
    BY <2>2, <2>3, <2>4, NothingCarts DEF BatchSection
  <2> QED
    BY <2>1, <2>3, <2>5, OneCarts
<1> QED
  BY <1>2, <1>3

LEMMA GenerateSaleNumberKeepsCarts ==
    ASSUME StoreSound, CartSound, NEW w \in Workers, GenerateSaleNumber(w)
    PROVE  CartSound'
<1>1. PICK t : t = tx[w]
  OBVIOUS
<1>2. CASE Abort(w)
  BY <1>2, LeaveKeepsCarts DEF Abort
<1>3. CASE ~Abort(w)
  <2>1. /\ pc[w] = "generateSaleNumber" /\ Goto(w, "insertSale", t)
        /\ \A v \in Workers \ {w} : num'[v] = num[v]
    BY <1>1, <1>3 DEF GenerateSaleNumber, StoreSound, TypeOK
  <2>2. Carts(num[w], "generateSaleNumber", t) /\ At("generateSaleNumber", t) = "generateSaleNumber"
    BY <1>1, <2>1, CartsHere DEF Saves
  <2>3. t.i = 1 /\ At("insertSale", t) = "insertSale"
    BY <2>2 DEF Carts, At, Saves
  <2>4. Carts(num'[w], "insertSale", t)
    BY <2>2, <2>3, NothingCarts DEF BatchSection
  <2> QED
    BY <2>1, <2>4, OneCarts
<1> QED
  BY <1>2, <1>3

\* The cart of a new sale is still to be taken.
LEMMA InsertSaleKeepsCarts ==
    ASSUME StoreSound, CartSound, NEW w \in Workers, InsertSale(w)
    PROVE  CartSound'
<1>1. PICK t : t = tx[w]
  OBVIOUS
<1>2. CASE Abort(w)
  BY <1>2, LeaveKeepsCarts DEF Abort
<1>3. CASE ~Abort(w)
  <2>1. pc[w] = "insertSale" /\ Goto(w, "findBatches", t) /\ UNCHANGED num
    BY <1>1, <1>3 DEF InsertSale
  <2>2. /\ Carts(num[w], "insertSale", t) /\ At("insertSale", t) = "insertSale"
        /\ Knows("insertSale", t) /\ LocalsTyped(t)
    BY <1>1, <2>1, CartsHere DEF Saves
  <2>3. t.i = 1 /\ At("findBatches", t) = "findBatches"
    BY <2>2 DEF Carts, At, Saves
  <2>4. t.req \in SaleForm /\ 1 <= Len(t.req.items)
    BY <2>2, <2>3 DEF Knows, Selling
  <2>5. ASSUME NEW p PROVE CartUnits(t.req, t.i - 1, p) = 0
    BY <2>3, <2>4, CartAdds
  <2>6. \A p : Net("findBatches", t, p) = 0 /\ Net("insertSale", t, p) = 0
    <3>1. \A p : Net("insertSale", t, p) = 0
      BY <2>2, NothingNet DEF BatchSection
    <3> QED
      BY <2>3, <2>5, <3>1 DEF Net, Booking, BatchSection, Sold
  <2>7. Carts(num'[w], "findBatches", t)
    BY <2>2, <2>3, <2>6 DEF Carts
  <2> QED
    BY <2>1, <2>7, OneCarts
<1> QED
  BY <1>2, <1>3

\* Nothing of the item has been found yet.
LEMMA FindBatchesKeepsCarts ==
    ASSUME StoreSound, CartSound, NEW w \in Workers, FindBatches(w)
    PROVE  CartSound'
<1>1. PICK t, it, u : /\ t = tx[w] /\ it = t.req.items[t.i]
                      /\ u = [t EXCEPT !.list = OpenBatches(it.product, w), !.left = it.qty]
  OBVIOUS
<1>2. pc[w] = "findBatches" /\ Goto(w, "takeBatch", u) /\ UNCHANGED num
  BY <1>1 DEF FindBatches
<1>3. /\ Carts(num[w], "findBatches", t) /\ At("findBatches", t) = "findBatches"
      /\ Knows("findBatches", t) /\ LocalsTyped(t) /\ DOMAIN t = LocalNames
  BY <1>1, <1>2, CartsHere DEF Saves
<1>4. /\ u.req = t.req /\ u.i = t.i /\ u.left = it.qty /\ u.moves = t.moves
      /\ At("takeBatch", u) = "takeBatch"
  BY <1>1, <1>3 DEF LocalNames, At, Saves
<1>5. t.req \in SaleForm /\ t.i \in Nat \ {0} /\ t.i <= Len(t.req.items)
  BY <1>3 DEF Knows, Selling, BatchSection, LocalsTyped
<1>6. it.qty \in Nat
  BY <1>1, <1>5, ItemTyped
<1>7. ASSUME NEW p PROVE Net("takeBatch", u, p) = Net("findBatches", t, p)
  <2>1. Undeducted("takeBatch", u, p) = 0
    BY <1>1, <1>4, <1>6 DEF Undeducted
  <2>2. CartUnits(t.req, t.i - 1, p) \in Int
    BY <1>5, CartAdds
  <2> QED
    BY <1>3, <1>4, <2>1, <2>2 DEF Net, Booking, BatchSection, Sold
<1>8. Carts(num'[w], "takeBatch", u)
  BY <1>2, <1>3, <1>4, <1>7 DEF Carts
<1> QED
  BY <1>2, <1>8, OneCarts

\* One movement more of the product q.
LEMMA MovesChange ==
    ASSUME NEW f, NEW g, \A c \in BatchIds : f[c] \in Int /\ g[c] \in Int,
           NEW b \in BatchIds, \A c \in BatchIds \ {b} : f[c] = g[c], NEW p
    PROVE  /\ SumOf(g, BatchesOf(p)) = SumOf(f, BatchesOf(p)) + (IF b[1] = p THEN g[b] - f[b] ELSE 0)
           /\ SumOf(f, BatchesOf(p)) \in Int
<1>1. PICK S, h : S = BatchesOf(p) /\ h = g
  OBVIOUS
<1>2. IsFiniteSet(S)
  BY <1>1, BatchesFinite
<1>3. S \subseteq BatchIds /\ (b \in S <=> b[1] = p)
  BY <1>1 DEF BatchesOf
<1>4. \A c \in BatchIds : f[c] \in Int /\ h[c] \in Int
  BY <1>1
<1>5. \A c \in BatchIds \ {b} : f[c] = h[c]
  BY <1>1
<1>6. \A c \in S : f[c] \in Int /\ h[c] \in Int
  BY <1>3, <1>4
<1>7. \A c \in S \ {b} : f[c] = h[c]
  BY <1>3, <1>5
<1>8. SumOf(f, S) \in Int
  BY <1>2, <1>6, TotalInt
<1>9. CASE b \in S
  <2>1. SumOf(h, S) = SumOf(f, S) - f[b] + h[b]
    BY <1>2, <1>6, <1>7, <1>9, TotalChange
  <2> QED
    BY <1>1, <1>3, <1>4, <1>5, <1>8, <1>9, <2>1
<1>10. CASE b \notin S
  <2>1. \A c \in S : f[c] = h[c]
    BY <1>7, <1>10
  <2>2. SumOf(f, S) = SumOf(h, S)
    BY <1>2, <2>1, TotalSame
  <2> QED
    BY <1>1, <1>3, <1>8, <1>10, <2>2
<1> QED
  BY <1>9, <1>10

\* What is taken from a batch is a part of the item.
LEMMA TakeBatchKeepsCarts ==
    ASSUME StoreSound, CartSound, NEW w \in Workers, TakeBatch(w)
    PROVE  CartSound'
<1>1. PICK t, q : t = tx[w] /\ q = ProductOf(t)
  OBVIOUS
<1>2. pc[w] = "takeBatch" /\ UNCHANGED num
  BY DEF TakeBatch
<1>3. PICK k, b, d :
         /\ k \in Slots /\ IsOldest(k, t.list) /\ b = <<q, k>> /\ d = Smaller(t.list[k].qty, t.left)
         /\ Save(w, "batch", b, Deducted(t.list[k], d), "takeBatch", Took(t, k, b, d))
  BY <1>1 DEF TakeBatch, ProductOf
<1>4. PICK v, u : v = Took(t, k, b, d) /\ u = Saving("batch", b, Deducted(t.list[k], d), "takeBatch", v)
  OBVIOUS
<1>5. /\ Knows("takeBatch", t) /\ LocalsTyped(t) /\ DOMAIN t = LocalNames
      /\ At("takeBatch", t) = "takeBatch" /\ Carts(num[w], "takeBatch", t)
  BY <1>1, <1>2, CartsHere DEF Saves
<1>6. t.req \in SaleForm /\ t.i <= Len(t.req.items) /\ t.i \in Nat \ {0}
  BY <1>5 DEF Knows, Selling, BatchSection, LocalsTyped
<1>7. q \in Products /\ t.req.items[t.i].qty \in Nat
  BY <1>1, <1>6, ItemTyped DEF ProductOf
<1>8. b \in BatchIds /\ b[1] = q /\ d \in Nat /\ t.left \in Nat
  BY <1>3, <1>5, <1>7 DEF BatchIds, IsOldest, LocalsTyped, Smaller, BatchRow
<1>9. /\ v.req = t.req /\ v.i = t.i /\ v.left = t.left - d
      /\ v.moves = [t.moves EXCEPT ![b] = @ - d] /\ DOMAIN v = LocalNames
  BY <1>4, <1>5 DEF Took, LocalNames
<1>10. /\ u.req = t.req /\ u.i = t.i /\ u.left = t.left - d /\ u.moves = v.moves
       /\ At("select", u) = "takeBatch" /\ Goto(w, "select", u)
  BY <1>3, <1>4, <1>9, SavingAt DEF Save
<1>11. ASSUME NEW p \in Products PROVE SumOf(u.moves, BatchesOf(p)) = Net("select", u, p)
  <2>1. PICK m, n, e : /\ m = SumOf(t.moves, BatchesOf(p)) /\ n = SumOf(u.moves, BatchesOf(p))
                       /\ e = t.moves[b]
    OBVIOUS
  <2>2. t.moves \in [BatchIds -> Int] /\ e \in Int
    BY <1>5, <1>8, <2>1 DEF LocalsTyped
  <2>3. u.moves = [t.moves EXCEPT ![b] = e - d] /\ e - d \in Int
    BY <1>8, <1>9, <1>10, <2>1, <2>2
  <2>4. n = m + (IF b[1] = p THEN (e - d) - e ELSE 0) /\ m \in Int
    <3>1. PICK f, g, x : f = t.moves /\ g = u.moves /\ x = e - d
      OBVIOUS
    <3>2. /\ \A c \in BatchIds : f[c] \in Int /\ g[c] \in Int
          /\ \A c \in BatchIds \ {b} : f[c] = g[c]
          /\ g[b] = x /\ f[b] = e
      BY <1>8, <2>1, <2>2, <2>3, <3>1
    <3>3. /\ SumOf(g, BatchesOf(p)) = SumOf(f, BatchesOf(p)) + (IF b[1] = p THEN g[b] - f[b] ELSE 0)
          /\ SumOf(f, BatchesOf(p)) \in Int
      BY <1>8, <3>2, MovesChange
    <3> QED
      BY <2>1, <3>1, <3>2, <3>3
  <2>5. n = m - (IF q = p THEN d ELSE 0)
    BY <1>8, <2>2, <2>4
  <2>6. PICK c, x : c = CartUnits(t.req, t.i - 1, p) /\ x = t.req.items[t.i].qty
    OBVIOUS
  <2>7. c \in Int /\ x \in Nat
    BY <1>6, <1>7, <2>6, CartAdds
  <2>8. m = Net("takeBatch", t, p)
    BY <1>5, <2>1 DEF Carts
  <2>9. Net("takeBatch", t, p) = - (c + (IF p = q THEN x - t.left ELSE 0))
    BY <1>1, <1>5, <2>6 DEF Net, Booking, BatchSection, Sold, Undeducted
  <2>10. Net("select", u, p) = - (c + (IF p = q THEN x - (t.left - d) ELSE 0))
    BY <1>1, <1>10, <2>6 DEF Net, Booking, BatchSection, Sold, Undeducted, ProductOf
  <2> QED
    BY <1>8, <2>1, <2>4, <2>5, <2>7, <2>8, <2>9, <2>10
<1>12. Carts(num'[w], "select", u)
  BY <1>10, <1>11 DEF Carts
<1> QED
  BY <1>2, <1>10, <1>12, OneCarts

\* An item is done.
LEMMA DeductProductKeepsCarts ==
    ASSUME StoreSound, CartSound, NEW w \in Workers, DeductProduct(w)
    PROVE  CartSound'
<1>1. PICK t, q, n, ent : t = tx[w] /\ q = ProductOf(t) /\ n = t.req.items[t.i].qty
                          /\ ent = [t.prod[q] EXCEPT !.stock = @ - n]
  OBVIOUS
<1>2. pc[w] = "takeBatch" /\ t.left = 0 /\ UNCHANGED num
  BY <1>1 DEF DeductProduct, tables
<1>3. PICK u, v : u = [t EXCEPT !.prod[q] = ent, !.list = NoList] /\ v = [u EXCEPT !.i = @ + 1]
  OBVIOUS
<1>4. /\ Knows("takeBatch", t) /\ LocalsTyped(t) /\ DOMAIN t = LocalNames
      /\ At("takeBatch", t) = "takeBatch" /\ Carts(num[w], "takeBatch", t)
  BY <1>1, <1>2, CartsHere DEF Saves
<1>5. /\ u.req = t.req /\ u.i = t.i /\ u.moves = t.moves /\ DOMAIN u = LocalNames
      /\ v.req = t.req /\ v.i = t.i + 1 /\ v.moves = t.moves /\ DOMAIN v = LocalNames
  BY <1>3, <1>4 DEF LocalNames
<1>6. PICK m, z : /\ Save(w, "product", q, ent, m, z)
                  /\ \/ t.i < Len(t.req.items) /\ m = "findBatches" /\ z = v
                     \/ ~(t.i < Len(t.req.items)) /\ m = "chargeCustomer" /\ z = u
  BY <1>1, <1>3 DEF DeductProduct, ProductOf
<1>7. PICK y : y = Saving("product", q, ent, m, z)
  OBVIOUS
<1>8. DOMAIN z = LocalNames /\ z.req = t.req /\ z.moves = t.moves
  BY <1>5, <1>6
<1>9. /\ Goto(w, "select", y) /\ At("select", y) = m
      /\ y.req = t.req /\ y.i = z.i /\ y.moves = t.moves
  BY <1>6, <1>7, <1>8, SavingAt DEF Save
<1>10. t.req \in SaleForm /\ t.i <= Len(t.req.items) /\ t.i \in Nat \ {0} /\ Len(t.req.items) \in Nat
  BY <1>4 DEF Knows, Selling, BatchSection, LocalsTyped, SaleForm
<1>11. n \in Nat
  BY <1>1, <1>10, ItemTyped
<1>12. ASSUME NEW p \in Products PROVE Net("select", y, p) = Net("takeBatch", t, p)
  <2>1. PICK c, e : c = CartUnits(t.req, t.i - 1, p) /\ e = CartUnits(t.req, t.i, p)
    OBVIOUS
  <2>2. c \in Int /\ e \in Int /\ e = c + (IF q = p THEN n ELSE 0)
    <3>1. PICK r, i : r = t.req /\ i = t.i
      OBVIOUS
    <3>2. /\ CartUnits(r, i, p) = CartUnits(r, i - 1, p) + (IF r.items[i].product = p THEN r.items[i].qty ELSE 0)
          /\ CartUnits(r, i, p) \in Int /\ CartUnits(r, i - 1, p) \in Int
      BY <1>10, <3>1, CartAdds
    <3>3. q = r.items[i].product /\ n = r.items[i].qty
      BY <1>1, <3>1 DEF ProductOf
    <3> QED
      BY <2>1, <3>1, <3>2, <3>3
  <2>3. Net("takeBatch", t, p) = - (c + (IF p = q THEN n - 0 ELSE 0))
    BY <1>1, <1>2, <1>4, <2>1 DEF Net, Booking, BatchSection, Sold, Undeducted
  <2>4. Net("select", y, p) = - e
    <3>1. CASE m = "findBatches"
      <4>1. y.i = t.i + 1
        BY <1>5, <1>6, <1>9, <3>1
      <4>2. y.i - 1 = t.i
        BY <1>10, <4>1
      <4> QED
        BY <1>9, <2>1, <3>1, <4>2 DEF Net, Booking, BatchSection, Sold
    <3>2. CASE m = "chargeCustomer"
      <4>1. Len(t.req.items) = t.i
        BY <1>6, <1>10, <3>2
      <4> QED
        BY <1>9, <2>1, <3>2, <4>1 DEF Net, Booking, BatchSection, Sold
    <3> QED
      BY <1>6, <3>1, <3>2
  <2> QED
    BY <1>11, <2>2, <2>3, <2>4
<1>13. Carts(num'[w], "select", y)
  BY <1>4, <1>6, <1>9, <1>12 DEF Carts
<1> QED
  BY <1>2, <1>9, <1>13, OneCarts

\* The whole cart was taken.
LEMMA ChargeCustomerKeepsCarts ==
    ASSUME StoreSound, CartSound, NEW w \in Workers, ChargeCustomer(w)
    PROVE  CartSound'
<1>1. PICK t, key, ent : t = tx[w] /\ key = t.req.customer /\ ent = [t.cust EXCEPT !.balance = @ + t.req.credit]
  OBVIOUS
<1>2. pc[w] = "chargeCustomer" /\ UNCHANGED num
  BY DEF ChargeCustomer
<1>3. /\ Knows("chargeCustomer", t) /\ DOMAIN t = LocalNames /\ NumberFits("chargeCustomer", t, num[w])
      /\ At("chargeCustomer", t) = "chargeCustomer" /\ Carts(num[w], "chargeCustomer", t)
  BY <1>1, <1>2, CartsHere DEF Saves
<1>4. t.req.kind = "sale" /\ num[w] \in SaleIds
  BY <1>3 DEF Knows, Selling, BatchSection, SaleForm, NumberFits
<1>5. PICK z : z = Saving("customer", key, ent, "commit", t)
  OBVIOUS
<1>6. /\ At("select", z) = "commit" /\ z.req = t.req /\ z.i = t.i /\ z.moves = t.moves
      /\ At("commit", t) = "commit"
  BY <1>3, <1>5, SavingAt DEF At, Saves
<1>7. PICK m, u : Goto(w, m, u) /\ ((m = "commit" /\ u = t) \/ (m = "select" /\ u = z))
  BY <1>1, <1>5 DEF ChargeCustomer, Save
<1>8. Goto(w, m, u) /\ At(m, u) = "commit" /\ u.req = t.req /\ u.moves = t.moves
  BY <1>6, <1>7
<1>9. \A p : Net(m, u, p) = Net("chargeCustomer", t, p)
  BY <1>3, <1>4, <1>8 DEF Net, Booking, BatchSection, Sold
<1>10. Carts(num'[w], m, u)
  BY <1>2, <1>3, <1>4, <1>8, <1>9 DEF Carts
<1> QED
  BY <1>2, <1>8, <1>10, OneCarts

\* A delivery has no row of sales.
LEMMA FindStockKeepsCarts ==
    ASSUME OnlyTillsAndDeliveries, StoreSound, CartSound, NEW w \in Workers, FindStock(w)
    PROVE  CartSound'
<1>1. PICK t, u : t = tx[w] /\ u = [t EXCEPT !.prod[t.req.product] = Seen(product[t.req.product], w)]
  OBVIOUS
<1>2. pc[w] = "findStock" /\ Goto(w, t.req.kind, u) /\ UNCHANGED num
  BY <1>1 DEF FindStock
<1>3. /\ Knows("findStock", t) /\ DOMAIN t = LocalNames
      /\ At("findStock", t) = "findStock" /\ Carts(num[w], "findStock", t)
  BY <1>1, <1>2, CartsHere DEF Saves
<1>4. t.req.kind = "stockIn"
  BY <1>3 DEF Knows, Adjusting, StockForm, OnlyTillsAndDeliveries
<1>5. u.moves = t.moves /\ At("stockIn", u) = "stockIn"
  BY <1>1, <1>3 DEF LocalNames, At, Saves
<1>6. Carts(num'[w], "stockIn", u)
  BY <1>3, <1>5, NothingCarts DEF BatchSection
<1> QED
  BY <1>2, <1>4, <1>6, OneCarts

\* It books the units of its batch.
LEMMA StockInKeepsCarts ==
    ASSUME OnlyTillsAndDeliveries, StoreSound, LedgerSound, CartSound, NEW w \in Workers, StockIn(w)
    PROVE  CartSound'
<1>1. PICK t, q, x, ent : /\ t = tx[w] /\ q = t.req.product /\ x = t.req.qty
                          /\ ent = [t.prod[q] EXCEPT !.stock = @ + x]
  OBVIOUS
<1>2. pc[w] = "stockIn" /\ UNCHANGED num
  BY DEF StockIn
<1>3. PICK k, b, v : /\ k \in Slots /\ b = <<q, k>> /\ Unmade(b)
                     /\ v = [t EXCEPT !.moves[b] = x] /\ Save(w, "product", q, ent, "commit", v)
  BY <1>1 DEF StockIn
<1>4. PICK u : u = Saving("product", q, ent, "commit", v)
  OBVIOUS
<1>5. /\ Knows("stockIn", t) /\ LocalsTyped(t) /\ DOMAIN t = LocalNames /\ NumberFits("stockIn", t, num[w])
      /\ At("stockIn", t) = "stockIn" /\ Carts(num[w], "stockIn", t)
  BY <1>1, <1>2, CartsHere DEF Saves
<1>6. t.req \in StockForm /\ num[w] = NoNumber
  BY <1>5 DEF Knows, Adjusting, NumberFits, Numberless
<1>7. q \in Products /\ x \in Nat /\ b \in BatchIds /\ b[1] = q
  BY <1>1, <1>3, <1>6 DEF StockForm, BatchIds
<1>8. t.req.kind = "stockIn"
  BY <1>5, <1>6 DEF Knows, StockForm, OnlyTillsAndDeliveries
<1>9. /\ At("select", u) = "commit" /\ u.req = t.req /\ u.moves = [t.moves EXCEPT ![b] = x]
      /\ Goto(w, "select", u)
  <2>1. DOMAIN v = LocalNames /\ v.req = t.req /\ v.moves = [t.moves EXCEPT ![b] = x]
    BY <1>3, <1>5 DEF LocalNames
  <2>2. At("select", u) = "commit" /\ u.req = v.req /\ u.moves = v.moves
    BY <1>4, <2>1, SavingAt
  <2>3. Goto(w, "select", u)
    BY <1>3, <1>4 DEF Save
  <2> QED
    BY <2>1, <2>2, <2>3
<1>10. t.moves[b] = 0
  <2>1. batch[b].xid # w
    BY <1>3, TablesAssumption DEF Unmade
  <2> QED
    BY <1>1, <1>2, <1>7, <2>1, NothingBooked DEF Saves
<1>11. ASSUME NEW p \in Products PROVE SumOf(u.moves, BatchesOf(p)) = Net("select", u, p)
  <2>1. PICK f, g : f = t.moves /\ g = u.moves
    OBVIOUS
  <2>2. t.moves \in [BatchIds -> Int]
    BY <1>5 DEF LocalsTyped
  <2>3. /\ \A c \in BatchIds : f[c] \in Int /\ g[c] \in Int
        /\ \A c \in BatchIds \ {b} : f[c] = g[c]
        /\ g[b] = x /\ f[b] = 0
    BY <1>7, <1>9, <1>10, <2>1, <2>2
  <2>4. /\ SumOf(g, BatchesOf(p)) = SumOf(f, BatchesOf(p)) + (IF b[1] = p THEN g[b] - f[b] ELSE 0)
        /\ SumOf(f, BatchesOf(p)) \in Int
    BY <1>7, <2>3, MovesChange
  <2>5. SumOf(f, BatchesOf(p)) = 0
    <3>1. Net("stockIn", t, p) = 0
      BY <1>5, NothingNet DEF BatchSection
    <3> QED
      BY <1>5, <2>1, <3>1 DEF Carts
  <2>6. Net("select", u, p) = IF q = p THEN x ELSE 0
    BY <1>1, <1>8, <1>9 DEF Net, Booking, BatchSection
  <2> QED
    BY <1>7, <2>1, <2>3, <2>4, <2>5, <2>6
<1>12. Carts(num'[w], "select", u)
  BY <1>2, <1>6, <1>8, <1>9, <1>11, NoNumberIsNoSale DEF Carts
<1> QED
  BY <1>2, <1>9, <1>12, OneCarts

\* The maintenance of products and customers books nothing.
LEMMA MaintainProductsKeepsCarts ==
    ASSUME StoreSound, CartSound, NEW w \in Workers, MaintainProducts(w)
    PROVE  CartSound'
<1>1. PICK t, l, q : t = tx[w] /\ l = pc[w] /\ q = t.req.product
  OBVIOUS
<1>2. l \in Editing /\ UNCHANGED num
  BY <1>1 DEF MaintainProducts, FindProduct, EditProduct, RemoveProduct, Editing
<1>3. /\ Knows(l, t) /\ DOMAIN t = LocalNames /\ NumberFits(l, t, num[w])
      /\ At(l, t) = l /\ Carts(num[w], l, t)
  BY <1>1, <1>2, CartsHere DEF Editing, Saves
<1>4. t.req \in ProductForm /\ num[w] \notin SaleIds
  BY <1>2, <1>3, NoNumberIsNoSale DEF Knows, NumberFits, Numberless
<1>5. l \notin BatchSection \cup {"commit"}
  BY <1>2 DEF Editing, BatchSection
<1>6. CASE FindProduct(w)
  <2>1. PICK m, u : m = t.req.kind /\ u = [t EXCEPT !.prod[q] = Seen(product[q], w)]
    OBVIOUS
  <2>2. Goto(w, m, u)
    BY <1>1, <1>6, <2>1 DEF FindProduct
  <2>3. m \in {"editProduct", "removeProduct"}
    BY <1>4, <2>1 DEF ProductForm
  <2>4. At(m, u) = m /\ u.moves = t.moves
    BY <1>3, <2>1, <2>3 DEF At, Saves, LocalNames
  <2>5. Carts(num'[w], m, u)
    BY <1>3, <1>5, <2>3, <2>4, NothingCarts DEF BatchSection
  <2> QED
    BY <1>2, <2>2, <2>5, OneCarts
<1>7. CASE EditProduct(w) \/ RemoveProduct(w)
  <2>1. PICK ent, u : Save(w, "product", q, ent, "commit", t) /\ u = Saving("product", q, ent, "commit", t)
    BY <1>1, <1>7 DEF EditProduct, RemoveProduct
  <2>2. At("select", u) = "commit" /\ u.req = t.req /\ u.moves = t.moves /\ Goto(w, "select", u)
    BY <1>3, <2>1, SavingAt DEF Save
  <2>3. Carts(num'[w], "select", u)
    BY <1>2, <1>3, <1>4, <1>5, <2>2, NothingCarts DEF BatchSection, ProductForm
  <2> QED
    BY <1>2, <2>2, <2>3, OneCarts
<1> QED
  BY <1>6, <1>7 DEF MaintainProducts

LEMMA MaintainCustomersKeepsCarts ==
    ASSUME StoreSound, CartSound, NEW w \in Workers, MaintainCustomers(w)
    PROVE  CartSound'
<1>1. PICK t, l, c : t = tx[w] /\ l = pc[w] /\ c = t.req.customer
  OBVIOUS
<1>2. CASE Abort(w)
  BY <1>2, LeaveKeepsCarts DEF Abort
<1>3. SUFFICES ASSUME ~Abort(w) PROVE CartSound'
  BY <1>2
<1>4. l \in Accounting /\ UNCHANGED num
  BY <1>1, <1>3 DEF MaintainCustomers, FindAccount, EditCustomer, DeactivateCustomer, FindDebtor, InsertPayment,
     Accounting
<1>5. /\ Knows(l, t) /\ DOMAIN t = LocalNames /\ NumberFits(l, t, num[w])
      /\ At(l, t) = l /\ Carts(num[w], l, t)
  BY <1>1, <1>4, CartsHere DEF Accounting, Saves
<1>6. t.req \in LimitForm \cup AccountForm \cup PaymentForm /\ num[w] \notin SaleIds
  BY <1>4, <1>5, NoNumberIsNoSale DEF Knows, NumberFits, Numberless, Accounting
<1>7. l \notin BatchSection \cup {"commit"}
  BY <1>4 DEF Accounting, BatchSection
<1>8. PICK z, v : z = [t EXCEPT !.cust = Seen(customer[c], w)] /\ v = [t EXCEPT !.pay = t.req.amount]
  OBVIOUS
<1>9. z.moves = t.moves /\ v.moves = t.moves /\ v.req = t.req /\ DOMAIN v = LocalNames
  BY <1>5, <1>8 DEF LocalNames
<1>10. CASE FindAccount(w) \/ FindDebtor(w)
  <2>1. FindAccount(w) => t.req \in LimitForm \cup AccountForm
    BY <1>1, <1>5 DEF FindAccount, Knows
  <2>2. PICK m : Goto(w, m, z) /\ m \in {"editCustomer", "deactivateCustomer", "insertPayment"}
    BY <1>1, <1>3, <1>8, <1>10, <2>1 DEF FindAccount, FindDebtor, LimitForm, AccountForm
  <2>3. At(m, z) = m
    BY <2>2 DEF At, Saves
  <2>4. Carts(num'[w], m, z)
    BY <1>5, <1>7, <1>9, <2>2, <2>3, NothingCarts DEF BatchSection
  <2> QED
    BY <1>4, <2>2, <2>4, OneCarts
<1>11. CASE EditCustomer(w) \/ DeactivateCustomer(w) \/ InsertPayment(w)
  <2>1. PICK ent, y : y \in {t, v} /\ Save(w, "customer", c, ent, "commit", y)
    BY <1>1, <1>8, <1>11 DEF EditCustomer, DeactivateCustomer, InsertPayment
  <2>2. PICK u : u = Saving("customer", c, ent, "commit", y)
    OBVIOUS
  <2>3. y.moves = t.moves /\ y.req = t.req /\ DOMAIN y = LocalNames
    BY <1>5, <1>9, <2>1
  <2>4. At("select", u) = "commit" /\ u.req = t.req /\ u.moves = t.moves /\ Goto(w, "select", u)
    BY <2>1, <2>2, <2>3, SavingAt DEF Save
  <2>5. Carts(num'[w], "select", u)
    BY <1>4, <1>5, <1>6, <1>7, <2>4, NothingCarts DEF BatchSection, LimitForm, AccountForm, PaymentForm
  <2> QED
    BY <1>4, <2>4, <2>5, OneCarts
<1> QED
  BY <1>10, <1>11 DEF MaintainCustomers

\* Nor does a save.
LEMMA SavesKeepCarts ==
    ASSUME StoreSound, CartSound, NEW w \in Workers, SaveSelect(w) \/ SaveUpdate(w)
    PROVE  CartSound'
<1>1. PICK t, l, u : t = tx[w] /\ l = pc[w] /\ u = Saved(t)
  OBVIOUS
<1>2. l \in Saves /\ UNCHANGED num
  BY <1>1 DEF SaveSelect, SaveUpdate, Saves
<1>3. /\ Knows(l, t) /\ DOMAIN t = LocalNames /\ SaveTyped(t) /\ Carts(num[w], l, t) /\ At(l, t) = t.then
  BY <1>1, <1>2, CartsHere DEF Knows, At
<1>4. u.req = t.req /\ u.i = t.i /\ u.left = t.left /\ u.moves = t.moves
  BY <1>1, <1>3 DEF Saved, LocalNames
<1>5. At(t.then, u) = t.then
  BY <1>3 DEF SaveTyped, AfterSave, At, Saves
<1>6. CASE Goto(w, t.then, u)
  <2>1. Carts(num'[w], t.then, u)
    BY <1>2, <1>3, <1>4, <1>5, SameCarts
  <2> QED
    BY <1>2, <1>6, <2>1, OneCarts
<1>7. CASE ~Goto(w, t.then, u)
  <2>1. PICK cols, v : v = [t EXCEPT !.cols = cols] /\ Goto(w, "update", v)
    BY <1>1, <1>7 DEF SaveSelect, SaveUpdate
  <2>2. v.req = t.req /\ v.i = t.i /\ v.left = t.left /\ v.moves = t.moves /\ At("update", v) = t.then
    BY <1>3, <2>1 DEF LocalNames, At, Saves
  <2>3. Carts(num'[w], "update", v)
    BY <1>2, <1>3, <2>2, SameCarts
  <2> QED
    BY <1>2, <2>1, <2>3, OneCarts
<1> QED
  BY <1>6, <1>7

LEMMA NextKeepsCarts ==
    ASSUME OnlyTillsAndDeliveries, StoreSound, LedgerSound, CartSound, [Next]_vars
    PROVE  CartSound'
<1>1. ASSUME NEW w \in Workers, Abort(w) PROVE CartSound'
  BY <1>1, LeaveKeepsCarts DEF Abort
<1>2. ASSUME NEW w \in Workers, Create(w) PROVE CartSound'
  BY <1>1, <1>2, FindCustomerKeepsCarts, CheckStockKeepsCarts, GenerateSaleNumberKeepsCarts,
     InsertSaleKeepsCarts, FindBatchesKeepsCarts, TakeBatchKeepsCarts, DeductProductKeepsCarts,
     ChargeCustomerKeepsCarts DEF Create, ShortOfBatches
<1>3. ASSUME NEW w \in Workers, Adjust(w) PROVE CartSound'
  <2>1. CASE FindStock(w) \/ StockIn(w)
    BY <2>1, FindStockKeepsCarts, StockInKeepsCarts
  <2>2. CASE ~(FindStock(w) \/ StockIn(w))
    <3>1. PICK l, t : l = pc[w] /\ t = tx[w]
      OBVIOUS
    <3>2. l \in {"stockOut", "drainBatch"}
      BY <1>3, <2>2, <3>1 DEF Adjust, StockOut, DrainBatch, BatchesExhausted, DeductStock
    <3> QED
      BY <3>1, <3>2, OwnStatement DEF Saves
  <2> QED
    BY <2>1, <2>2
<1>4. ASSUME NEW w \in Workers, Commit(w) PROVE CartSound'
  BY <1>4, LeaveKeepsCarts DEF Commit
<1>5. ASSUME NEW w \in Workers, Step(w) PROVE CartSound'
  BY <1>1, <1>2, <1>3, <1>4, <1>5, NoVoids, MaintainProductsKeepsCarts, MaintainCustomersKeepsCarts,
     SavesKeepCarts
  DEF Step, DeadlockVictim
<1>6. CASE UNCHANGED vars \/ Midnight
  <2>1. UNCHANGED <<pc, num, tx>>
    BY <1>6 DEF vars, Midnight
  <2>2. ASSUME NEW v \in Workers PROVE Carts(num[v], pc[v], tx[v])'
    <3>1. PICK n, l, t : n = num[v] /\ l = pc[v] /\ t = tx[v]
      OBVIOUS
    <3>2. Carts(n, l, t) /\ num'[v] = n /\ pc'[v] = l /\ tx'[v] = t
      BY <2>1, <3>1 DEF CartSound
    <3> QED
      BY <3>2 DEF Carts, Net, Booking, Sold, Undeducted, ProductOf, At, CartUnits, BatchesOf, BatchIds,
         Slots, SaleIds, Saves, BatchSection
  <2> QED
    BY <2>2 DEF CartSound
<1>7. ASSUME NEW w \in Workers, NEW r \in Requests, Begin(w, r) PROVE CartSound'
  BY <1>7, BeginKeepsCarts
<1>8. ASSUME NEW w \in Workers, Disconnect(w) PROVE CartSound'
  BY <1>1, <1>8 DEF Disconnect
<1> QED
  BY <1>5, <1>6, <1>7, <1>8 DEF Next, Closed

LEMMA InitCarts == Init => CartSound
<1> SUFFICES ASSUME Init, NEW w \in Workers PROVE Carts(num[w], pc[w], tx[w])
  BY DEF CartSound
<1>1. pc[w] = "idle" /\ tx[w] = NoLocals
  BY DEF Init
<1>2. NoLocals.moves = NoMoves /\ At("idle", NoLocals) = "idle"
  BY DEF NoLocals, At, Saves
<1> QED
  BY <1>1, <1>2, FreshCarts DEF BatchSection

\* What each x in S adds goes to one key in K, or to none.
Spread(S, K, f, G) ==
    \A x \in S :
        /\ f[x] \in Int /\ \A b \in K : G[b][x] \in Int
        /\ \/ f[x] = 0 /\ \A b \in K : G[b][x] = 0
           \/ \E d \in K : G[d][x] = f[x] /\ \A b \in K \ {d} : G[b][x] = 0

\* A sum is the sum of its parts.
LEMMA TotalByKey ==
    ASSUME NEW S, IsFiniteSet(S), NEW K, IsFiniteSet(K), NEW f, NEW G, Spread(S, K, f, G),
           NEW h, \A b \in K : h[b] = SumOf(G[b], S)
    PROVE  SumOf(h, K) = SumOf(f, S)
<1> DEFINE T == {r \in SUBSET S : \E k : (\A b \in K : k[b] = SumOf(G[b], r)) /\ SumOf(k, K) # SumOf(f, r)}
<1>1. SUFFICES ASSUME T # {} PROVE FALSE
  BY DEF T
<1>2. PICK r \in T : \A q \in T : q \subseteq r => q = r
  <2>1. T \in SUBSET SUBSET S
    OBVIOUS
  <2> HIDE DEF T
  <2> QED
    BY <1>1, <2>1, Smallest
<1>3. PICK k : (\A b \in K : k[b] = SumOf(G[b], r)) /\ SumOf(k, K) # SumOf(f, r)
  OBVIOUS
<1>4. r \subseteq S
  OBVIOUS
<1>5. r # {}
  <2>1. SUFFICES ASSUME r = {} PROVE FALSE
    OBVIOUS
  <2> HIDE DEF T
  <2>2. \A b \in K : k[b] = 0
    BY <1>3, <2>1, TotalEmpty
  <2>3. SumOf(k, K) = SumOf(k, {})
    BY <2>2, TotalOver
  <2> QED
    BY <1>3, <2>1, <2>3, TotalEmpty
<1>6. PICK y, q, j : y = Next1(r) /\ q = r \ {y} /\ j = [b \in K |-> SumOf(G[b], q)]
  OBVIOUS
<1>7. y \in r /\ y \in S /\ q \subseteq S /\ q # r /\ q \subseteq r /\ IsFiniteSet(r) /\ IsFiniteSet(q)
  <2> HIDE DEF T
  <2>1. y \in r
    BY <1>5, <1>6, Next1In
  <2> QED
    BY <1>4, <1>6, <2>1, FS_Subset
<1>8. SumOf(j, K) = SumOf(f, q)
  <2>1. q \notin T
    BY <1>2, <1>7
  <2>2. \A b \in K : j[b] = SumOf(G[b], q)
    BY <1>6
  <2> QED
    BY <1>7, <2>1, <2>2
<1> HIDE DEF T
<1>9. SumOf(f, r) = f[y] + SumOf(f, q) /\ f[y] \in Int /\ SumOf(f, q) \in Int
  <2>1. \A x \in q : f[x] \in Int
    BY <1>7 DEF Spread
  <2>2. f[y] \in Int
    BY <1>7 DEF Spread
  <2> QED
    BY <1>5, <1>6, <1>7, <2>1, <2>2, TotalNext, TotalInt
<1>10. ASSUME NEW b \in K PROVE k[b] = G[b][y] + j[b] /\ j[b] \in Int /\ G[b][y] \in Int
  <2>1. PICK g : g = G[b]
    OBVIOUS
  <2>2. g[y] \in Int /\ \A x \in q : g[x] \in Int
    BY <1>7, <2>1 DEF Spread
  <2>3. SumOf(g, r) = g[y] + SumOf(g, q) /\ SumOf(g, q) \in Int
    BY <1>5, <1>6, <1>7, <2>2, TotalNext, TotalInt
  <2> QED
    BY <1>3, <1>6, <2>1, <2>2, <2>3
<1>11. \A b \in K : k[b] \in Int /\ j[b] \in Int
  BY <1>10
<1>12. CASE f[y] = 0 /\ \A b \in K : G[b][y] = 0
  <2>1. \A b \in K : k[b] = j[b]
    BY <1>10, <1>12
  <2>2. SumOf(k, K) = SumOf(j, K)
    BY <2>1, TotalSame
  <2> QED
    BY <1>3, <1>8, <1>9, <1>12, <2>2
<1>13. ASSUME NEW d \in K, G[d][y] = f[y], \A b \in K \ {d} : G[b][y] = 0 PROVE FALSE
  <2>1. \A b \in K \ {d} : j[b] = k[b]
    BY <1>10, <1>13
  <2>2. SumOf(k, K) = SumOf(j, K) - j[d] + k[d]
    BY <1>11, <2>1, TotalChange
  <2>3. k[d] = f[y] + j[d] /\ j[d] \in Int
    BY <1>10, <1>13
  <2> QED
    BY <1>3, <1>8, <1>9, <2>2, <2>3
<1> QED
  BY <1>7, <1>12, <1>13 DEF Spread

\* The units of p on the lines of a sale, batch by batch.
LEMMA LinesByProduct ==
    ASSUME NEW ls \in Seq(Line), NEW p, NEW h, \A b \in BatchIds : h[b] = LineUnits(ls, b)
    PROVE  UnitsOf(ls, p) = SumOf(h, BatchesOf(p)) /\ UnitsOf(ls, p) \in Int
<1>1. PICK S, K : S = 1 .. Len(ls) /\ K = BatchesOf(p)
  OBVIOUS
<1>2. PICK f : UnitsByProduct(ls, p, S, f)
  BY UnitsByProductExist
<1>3. UnitsOf(ls, p) = SumOf(f, S) /\ IsFiniteSet(S) /\ \A i \in S : f[i] \in Int
  BY <1>1, <1>2, UnitsOfIs
<1>4. PICK G : G = [b \in K |-> [i \in S |-> IF ls[i].batch = b THEN ls[i].qty ELSE 0]]
  OBVIOUS
<1>5. IsFiniteSet(K) /\ \A b \in K : b \in BatchIds
  BY <1>1, BatchesFinite DEF BatchesOf
<1>6. \A b \in K : \A i \in S : G[b][i] = IF ls[i].batch = b THEN ls[i].qty ELSE 0
  BY <1>4
<1>7. ASSUME NEW b \in K PROVE h[b] = SumOf(G[b], S)
  <2>1. PICK g : g = G[b]
    OBVIOUS
  <2>2. UnitsByLine(ls, b, S, g)
    BY <1>6, <2>1 DEF UnitsByLine
  <2>3. LineUnits(ls, b) = SumOf(g, S)
    BY <1>1, <2>2, LineUnitsIs
  <2> QED
    BY <1>5, <2>1, <2>3
<1>8. Spread(S, K, f, G)
  <2>1. SUFFICES ASSUME NEW i \in S
                 PROVE  /\ f[i] \in Int /\ \A b \in K : G[b][i] \in Int
                        /\ \/ f[i] = 0 /\ \A b \in K : G[b][i] = 0
                           \/ \E d \in K : G[d][i] = f[i] /\ \A b \in K \ {d} : G[b][i] = 0
    BY DEF Spread
  <2>2. PICK l : l = ls[i] /\ l \in Line
    BY <1>1
  <2>3. l.batch \in BatchIds /\ l.qty \in Int /\ f[i] = IF l.batch[1] = p THEN l.qty ELSE 0
    BY <1>2, <2>2 DEF Line, UnitsByProduct
  <2>4. \A b \in K : G[b][i] = IF l.batch = b THEN l.qty ELSE 0
    BY <1>6, <2>2
  <2>5. \A b : b \in K <=> b \in BatchIds /\ b[1] = p
    BY <1>1 DEF BatchesOf
  <2>6. CASE l.batch[1] = p
    BY <2>3, <2>4, <2>5, <2>6
  <2>7. CASE l.batch[1] # p
    BY <2>3, <2>4, <2>5, <2>7
  <2> QED
    BY <2>6, <2>7
<1>9. SumOf(h, K) = SumOf(f, S)
  BY <1>3, <1>5, <1>7, <1>8, TotalByKey
<1> QED
  BY <1>1, <1>3, <1>9, TotalInt

\* What a checkout took from the batches of p is on the lines of its sale.
LEMMA LinesTaken ==
    ASSUME NEW ls \in Seq(Line), NEW p, NEW m, \A b \in BatchIds : m[b] \in Int /\ m[b] = - LineUnits(ls, b)
    PROVE  SumOf(m, BatchesOf(p)) = - UnitsOf(ls, p) /\ UnitsOf(ls, p) \in Int
<1>1. PICK K, h, z : K = BatchesOf(p) /\ h = [b \in BatchIds |-> LineUnits(ls, b)] /\ z = [b \in BatchIds |-> 0]
  OBVIOUS
<1>2. UnitsOf(ls, p) = SumOf(h, K) /\ UnitsOf(ls, p) \in Int
  BY <1>1, LinesByProduct
<1>3. IsFiniteSet(K) /\ \A b \in K : b \in BatchIds
  BY <1>1, BatchesFinite DEF BatchesOf
<1>4. ASSUME NEW b \in K PROVE m[b] \in Int /\ h[b] \in Int /\ z[b] = 0 /\ z[b] = m[b] + h[b]
  <2>1. LineUnits(ls, b) \in Int
    BY LineUnitsTyped
  <2> QED
    BY <1>1, <1>3, <2>1
<1>5. SumOf(z, K) = SumOf(m, K) + SumOf(h, K) /\ SumOf(m, K) \in Int
  BY <1>3, <1>4, TotalPlus, TotalInt
<1>6. SumOf(z, K) = 0
  <2>1. SumOf(z, K) = SumOf(z, {})
    BY <1>3, <1>4, TotalOver
  <2> QED
    BY <2>1, TotalEmpty
<1> QED
  BY <1>1, <1>2, <1>5, <1>6

-----------------------------------------------------------------------------
(* Every commit is a step of SalesBook                                     *)

\* Only active batches hold something, and none less than nothing.
LEMMA StockIsHeld == StoreSound /\ LedgerSound /\ RowsSound => StockHeld
<1> SUFFICES ASSUME StoreSound, LedgerSound, RowsSound, NEW p \in Products
             PROVE  OnHand(p) = Held(p) /\ Held(p) \in Nat
  BY DEF StockHeld
<1>1. PICK S, f, m, z : S = BatchesOf(p) /\ f = [b \in S |-> moved[b]] /\ m = moved /\ z = [b \in S |-> 0]
  OBVIOUS
<1>2. OnHand(p) = SumOf(f, S)
  BY <1>1, MovementsAddUp, MovedIs DEF ProductLedger
<1>3. IsFiniteSet(S) /\ \A b \in S : f[b] = m[b]
  BY <1>1, BatchesFinite
<1>4. SumOf(f, S) = SumOf(m, S)
  BY <1>3, TotalSame
<1>5. \A b \in S : z[b] = 0 /\ m[b] \in Int /\ z[b] <= m[b]
  <2>1. SUFFICES ASSUME NEW b \in S PROVE moved[b] \in Nat
    BY <1>1
  <2>2. b \in BatchIds
    BY <1>1 DEF BatchesOf
  <2> QED
    BY <2>2 DEF LedgerSound, BatchLedger, StoreSound, TypeOK, Versions, BatchRow
<1>6. SumOf(z, S) <= SumOf(m, S) /\ SumOf(m, S) \in Int
  BY <1>3, <1>5, TotalUp, TotalInt
<1>7. SumOf(z, S) = SumOf(z, {}) /\ SumOf(z, {}) = 0
  BY <1>3, <1>5, TotalOver, TotalEmpty
<1> QED
  BY <1>1, <1>2, <1>4, <1>6, <1>7 DEF Held

\* A commit books the movements of its handler.
LEMMA CommitBooks ==
    ASSUME StoreSound, NEW w \in Workers, Commit(w), NEW p
    PROVE  Held(p)' = Held(p) + SumOf(tx[w].moves, BatchesOf(p))
<1>1. PICK f, g, h, S : f = moved /\ g = tx[w].moves /\ h = moved' /\ S = BatchesOf(p)
  OBVIOUS
<1>2. IsFiniteSet(S) /\ S \subseteq BatchIds
  BY <1>1, BatchesFinite DEF BatchesOf
<1>3. f \in [BatchIds -> Int] /\ g \in [BatchIds -> Int]
  BY <1>1 DEF StoreSound, TypeOK, HandlersKnow, Knows, LocalsTyped
<1>4. \A b \in BatchIds : h[b] = f[b] + g[b]
  BY <1>1 DEF Commit
<1>5. \A b \in S : f[b] \in Int /\ g[b] \in Int /\ h[b] = f[b] + g[b]
  BY <1>2, <1>3, <1>4
<1>6. SumOf(h, S) = SumOf(f, S) + SumOf(g, S)
  BY <1>2, <1>5, TotalPlus
<1>7. Held(p)' = SumOf(h, S)
  BY <1>1, HeldNext
<1> QED
  BY <1>1, <1>6, <1>7 DEF Held

\* A step that keeps the movements and the committed sales is no step of SalesBook.
LEMMA BookStays ==
    ASSUME StockHeld, StockHeld', \A p \in Products : Held(p)' = Held(p),
           \A s \in SaleIds : sale'[s].cur = sale[s].cur
    PROVE  UNCHANGED Book!vars
<1>1. ASSUME NEW p \in Products PROVE OnHand(p)' = OnHand(p)
  BY DEF StockHeld
<1>2. ASSUME NEW s \in SaleIds, NEW p \in Products PROVE UnitsSold(s, p)' = UnitsSold(s, p)
  BY UnitsSoldIs
<1> QED
  BY <1>1, <1>2 DEF Book!vars, SaleIds

\* What a commit does to the committed sales.
LEMMA CommitSales ==
    ASSUME StoreSound, NEW w \in Workers, Commit(w), NEW s \in SaleIds
    PROVE  /\ sale[s].xid # w => sale'[s].cur = sale[s].cur
           /\ sale[s].xid = w => sale'[s].cur = sale[s].new
  BY DEF Commit, CommitTable, CommitRow, Stored, StoreSound, TypeOK

\* The commit of a checkout: its whole cart leaves the stock, and its sale gets the
\* first number that was free.
LEMMA CommitSells ==
    ASSUME StoreSound, LinesSound, CartSound, StockHeld, StockHeld',
           NEW w \in Workers, Commit(w), Holds(w)
    PROVE  Book!Next
<1>1. PICK n, t, m, ls, r, c : /\ n = num[w] /\ t = tx[w] /\ m = t.moves /\ ls = sale[n].new.lines
                               /\ r = t.req /\ c = CartTotal(r)
  OBVIOUS
<1>2. pc[w] = "commit" /\ At("commit", t) = "commit"
  BY DEF Commit, At, Saves
<1>3. n \in SaleIds /\ sale[n].xid = w /\ \A s \in SaleIds \ {n} : sale[s].xid # w
  BY <1>1, TablesAssumption DEF Holds, StoreSound, NumbersHeld, LinesSound, OpenSalesInserted
<1>4. Knows("commit", t) /\ Carts(n, "commit", t) /\ LocalsTyped(t)
  BY <1>1, <1>2, CartsHere
<1>5. r.kind = "sale" /\ r \in Requests
  BY <1>1, <1>2, <1>3, <1>4 DEF Knows, Carts
<1>6. r \in SaleForm
  BY <1>5, RequestsAssumption
<1>7. ~Taken(n) /\ sale[n].new.status = "completed"
  <2>1. Inserted(n) \/ Marked(n)
    BY <1>3, TablesAssumption DEF StoreSound, OpenSalesOwned
  <2> QED
    BY <1>1, <1>3, <2>1, NoNumberIsNoSale DEF Inserted, Marked
<1>8. ls \in Seq(Line) /\ \A b \in BatchIds : m[b] \in Int /\ m[b] = - LineUnits(ls, b)
  <2>1. ls \in Seq(Line)
    BY <1>1, <1>3 DEF StoreSound, TypeOK, Versions, SaleRow
  <2>2. \A b \in BatchIds : m[b] = - LineUnits(ls, b)
    BY <1>1 DEF LinesSound, LinesBooked
  <2>3. \A b \in BatchIds : m[b] \in Int
    BY <1>1, <1>4 DEF LocalsTyped
  <2> QED
    BY <2>1, <2>2, <2>3
<1>9. ASSUME NEW p \in Products
      PROVE  UnitsOf(ls, p) = c[p] /\ c[p] \in Int /\ Held(p)' = Held(p) - c[p]
  <2>1. SumOf(m, BatchesOf(p)) = - UnitsOf(ls, p) /\ UnitsOf(ls, p) \in Int
    BY <1>8, LinesTaken
  <2>2. SumOf(m, BatchesOf(p)) = - CartUnits(r, Len(r.items), p)
    BY <1>1, <1>2, <1>4, <1>5 DEF Carts, Net, Booking, Sold
  <2>3. c[p] = CartUnits(r, Len(r.items), p)
    BY <1>1, <1>6, CartTotalIs
  <2>4. c[p] \in Int
    <3>1. Len(r.items) \in Nat
      BY <1>6 DEF SaleForm
    <3>2. PICK S : S = 1 .. Len(r.items)
      OBVIOUS
    <3>3. PICK f : UnitsByItem(r, p, S, f)
      BY UnitsByItemExist
    <3> QED
      BY <1>6, <2>3, <3>1, <3>2, <3>3, CartItems, TotalInt
  <2>5. Held(p) \in Int
    BY HeldTyped
  <2>6. Held(p)' = Held(p) + SumOf(m, BatchesOf(p))
    BY <1>1, CommitBooks
  <2> QED
    BY <2>1, <2>2, <2>3, <2>4, <2>5, <2>6
<1>10. ASSUME NEW p \in Products
       PROVE  OnHand(p)' = OnHand(p) - c[p] /\ c[p] <= OnHand(p) /\ UnitsSold(n, p)' = c[p]
  <2>1. OnHand(p)' = Held(p)' /\ Held(p)' \in Nat /\ OnHand(p) = Held(p) /\ Held(p) \in Nat
    BY DEF StockHeld
  <2>2. sale'[n].cur.lines = ls
    BY <1>1, <1>3, CommitSales
  <2> QED
    BY <1>9, <2>1, <2>2, UnitsSoldIs
<1>11. ASSUME NEW s \in SaleIds \ {n} PROVE sale'[s].cur = sale[s].cur
  BY <1>3, CommitSales
<1>12. n = <<n[1], n[2]>> /\ n[1] \in 1 .. LastDay /\ n[2] \in 1 .. MaxSales
  BY <1>3, SmallerNumbers
<1>13. \A i \in 1 .. n[2] - 1 : <<n[1], i>> \in SaleIds /\ sale[<<n[1], i>>].cur.status # "none"
  BY <1>1, <1>3, SmallerNumbers DEF StoreSound, NumbersFollow, Taken
<1>14. c = [p \in Products |-> c[p]]
  BY <1>1 DEF CartTotal
<1>15. PICK onHand, book, after, record :
          /\ onHand = [p \in Products |-> OnHand(p)]
          /\ book = [s \in SaleIds |-> [status |-> sale[s].cur.status,
                                        lines  |-> [p \in Products |-> UnitsSold(s, p)]]]
          /\ after = [s \in SaleIds |-> [status |-> sale'[s].cur.status,
                                         lines  |-> [p \in Products |-> UnitsSold(s, p)']]]
          /\ record = [status |-> "completed", lines |-> c]
  OBVIOUS
<1>16. after = [book EXCEPT ![n] = record]
  <2>1. ASSUME NEW s \in SaleIds \ {n} PROVE after[s] = book[s]
    <3>1. ASSUME NEW p \in Products PROVE UnitsSold(s, p)' = UnitsSold(s, p)
      BY <1>11, <2>1, UnitsSoldIs
    <3> QED
      BY <1>11, <1>15, <2>1, <3>1
  <2>2. after[n] = record
    <3>1. sale'[n].cur.status = "completed"
      BY <1>3, <1>7, CommitSales
    <3>2. [p \in Products |-> UnitsSold(n, p)'] = c
      BY <1>10, <1>14
    <3> QED
      BY <1>3, <1>15, <3>1, <3>2
  <2> QED
    BY <1>3, <1>15, <2>1, <2>2
<1>17. Book!Sell(n[1], n[2], c)
  <2>1. book[<<n[1], n[2]>>].status = "none"
    BY <1>3, <1>7, <1>12, <1>15 DEF Taken
  <2>2. \A i \in 1 .. n[2] - 1 : book[<<n[1], i>>].status # "none"
    BY <1>13, <1>15
  <2>3. \A p \in Products : c[p] <= onHand[p]
    BY <1>10, <1>15
  <2>4. [p \in Products |-> OnHand(p)'] = [p \in Products |-> onHand[p] - c[p]]
    BY <1>10, <1>15
  <2>5. after = [book EXCEPT ![<<n[1], n[2]>>] = [status |-> "completed", lines |-> c]]
    BY <1>12, <1>15, <1>16
  <2> QED
    BY <1>15, <2>1, <2>2, <2>3, <2>4, <2>5 DEF Book!Sell, SaleIds
<1>18. c \in {CartTotal(q) : q \in {q \in Requests : q.kind = "sale"}}
  BY <1>1, <1>5
<1> QED
  BY <1>3, <1>17, <1>18 DEF Book!Next, Book!SaleIds, SaleIds

\* The commit of a delivery adds to the stock of its product; any other leaves it.
LEMMA CommitReceives ==
    ASSUME StoreSound, LinesSound, CartSound, StockHeld, StockHeld',
           NEW w \in Workers, Commit(w), ~Holds(w)
    PROVE  Book!Next \/ UNCHANGED Book!vars
<1>1. PICK n, t, m, r : n = num[w] /\ t = tx[w] /\ m = t.moves /\ r = t.req
  OBVIOUS
<1>2. pc[w] = "commit" /\ At("commit", t) = "commit"
  BY DEF Commit, At, Saves
<1>3. n \notin SaleIds
  BY <1>1, <1>2 DEF Holds
<1>4. \A s \in SaleIds : sale'[s].cur = sale[s].cur
  <2>1. \A s \in SaleIds : sale[s].xid # w
    BY <1>1, <1>3, TablesAssumption DEF LinesSound, OpenSalesInserted
  <2> QED
    BY <2>1, CommitSales
<1>5. Knows("commit", t) /\ Carts(n, "commit", t)
  BY <1>1, <1>2, CartsHere
<1>6. r.kind # "sale" /\ r \in Requests
  BY <1>1, <1>2, <1>3, <1>5 DEF Knows, Carts
<1>7. ASSUME NEW p \in Products
      PROVE  Held(p)' = Held(p) + (IF r.kind = "stockIn" /\ r.product = p THEN r.qty ELSE 0)
  <2>1. SumOf(m, BatchesOf(p)) = IF r.kind = "stockIn" /\ r.product = p THEN r.qty ELSE 0
    BY <1>1, <1>2, <1>5, <1>6 DEF Carts, Net, Booking, BatchSection
  <2> QED
    BY <1>1, <2>1, CommitBooks
<1>8. CASE r.kind # "stockIn"
  <2>1. \A p \in Products : Held(p)' = Held(p)
    BY <1>7, <1>8, HeldTyped
  <2> QED
    BY <1>4, <2>1, BookStays
<1>9. CASE r.kind = "stockIn"
  <2>1. r \in StockForm
    BY <1>6, <1>9, FormsAssumption DEF SaleForm, VoidForm, ProductForm, LimitForm, AccountForm, PaymentForm
  <2>2. PICK q, x : q = r.product /\ x = r.qty /\ q \in Products /\ x \in Nat
    BY <2>1 DEF StockForm
  <2>3. ASSUME NEW p \in Products PROVE OnHand(p)' = IF p = q THEN OnHand(p) + x ELSE OnHand(p)
    <3>1. OnHand(p)' = Held(p)' /\ OnHand(p) = Held(p) /\ Held(p) \in Nat
      BY DEF StockHeld
    <3> QED
      BY <1>7, <1>9, <2>2, <3>1
  <2>4. PICK onHand : onHand = [p \in Products |-> OnHand(p)]
    OBVIOUS
  <2>5. [p \in Products |-> OnHand(p)'] = [onHand EXCEPT ![q] = @ + x]
    BY <2>3, <2>4
  <2>6. ASSUME NEW s \in SaleIds, NEW p \in Products PROVE UnitsSold(s, p)' = UnitsSold(s, p)
    BY <1>4, UnitsSoldIs
  <2>7. Book!Receive(q, x)
    BY <1>4, <2>4, <2>5, <2>6 DEF Book!Receive, SaleIds
  <2>8. x \in {a.qty : a \in {a \in Requests : a.kind \in {"stockIn", "stockOut"}}}
    BY <1>6, <1>9, <2>2
  <2> QED
    BY <2>2, <2>7, <2>8 DEF Book!Next
<1> QED
  BY <1>8, <1>9

\* Every step but a commit keeps the movements and the committed sales.
LEMMA OnlyCommitsBook ==
    ASSUME OnlyTillsAndDeliveries, StoreSound, LedgerSound, [Next]_vars, \A w \in Workers : ~Commit(w)
    PROVE  UNCHANGED moved /\ \A s \in SaleIds : sale'[s].cur = sale[s].cur
<1>1. CASE UNCHANGED <<moved, sale>>
  BY <1>1
<1>2. ASSUME NEW w \in Workers, NEW n, NEW row, UNCHANGED moved, sale' = [sale EXCEPT ![n] = Written(@, w, row)]
      PROVE  UNCHANGED moved /\ \A s \in SaleIds : sale'[s].cur = sale[s].cur
  BY <1>2 DEF Written, StoreSound, TypeOK, Versions
<1>3. ASSUME NEW w \in Workers, InsertSale(w), ~Abort(w)
      PROVE  UNCHANGED moved /\ \A s \in SaleIds : sale'[s].cur = sale[s].cur
  <2>1. PICK n, t : n = num[w] /\ t = tx[w]
    OBVIOUS
  <2>2. PICK d : sale' = [sale EXCEPT ![n] = Written(@, w, NewSale(t.req, d))] /\ UNCHANGED moved
    BY <1>3, <2>1 DEF InsertSale
  <2>3. PICK row : row = NewSale(t.req, d)
    OBVIOUS
  <2> QED
    BY <1>2, <2>2, <2>3
<1>4. ASSUME NEW w \in Workers, TakeBatch(w)
      PROVE  UNCHANGED moved /\ \A s \in SaleIds : sale'[s].cur = sale[s].cur
  <2>1. PICK n : n = num[w]
    OBVIOUS
  <2>2. PICK b, d : sale' = [sale EXCEPT ![n] = Written(@, w, WithItem(@.new, b, d))] /\ UNCHANGED moved
    BY <1>4, <2>1 DEF TakeBatch
  <2> QED
    BY <2>2 DEF Written, StoreSound, TypeOK, Versions
<1>5. ASSUME NEW w \in Workers, SaveUpdate(w), tx[w].tbl = "batch"
      PROVE  UNCHANGED <<moved, sale>>
  BY <1>5 DEF SaveUpdate, Updated
<1>6. ASSUME NEW w \in Workers, Abort(w)
      PROVE  UNCHANGED moved /\ \A s \in SaleIds : sale'[s].cur = sale[s].cur
  BY <1>6 DEF Abort, RollbackTable, RollbackRow, Stored, StoreSound, TypeOK
<1>7. ASSUME NEW w \in Workers, Quiet(w) \/ (GenerateSaleNumber(w) /\ ~Abort(w)) \/ FindBatches(w) \/ StockIn(w)
      PROVE  UNCHANGED <<moved, sale>>
  BY <1>7 DEF Quiet, GenerateSaleNumber, FindBatches, StockIn, tables
<1>8. CASE UNCHANGED vars
  BY <1>8 DEF vars
<1> QED
  BY <1>1, <1>3, <1>4, <1>5, <1>6, <1>7, <1>8, Kinds

\* Each step is one of SalesBook, or does not show there.
LEMMA NextKeepsBook ==
    ASSUME OnlyTillsAndDeliveries, StoreSound, LedgerSound, LinesSound, CartSound,
           StockHeld, StockHeld', [Next]_vars
    PROVE  [Book!Next]_(Book!vars)
<1>1. ASSUME NEW w \in Workers, Commit(w) PROVE [Book!Next]_(Book!vars)
  BY <1>1, CommitSells, CommitReceives
<1>2. CASE \A w \in Workers : ~Commit(w)
  <2>1. UNCHANGED moved /\ \A s \in SaleIds : sale'[s].cur = sale[s].cur
    BY <1>2, OnlyCommitsBook
  <2>2. \A p \in Products : Held(p)' = Held(p)
    BY <2>1 DEF Held, BatchesOf, BatchIds, Slots
  <2> QED
    BY <2>1, <2>2, BookStays
<1> QED
  BY <1>1, <1>2

\* At the start the book is empty.
LEMMA InitBook == Init /\ StockHeld => Book!Init
<1> SUFFICES ASSUME Init, StockHeld PROVE Book!Init
  OBVIOUS
<1>1. [p \in Products |-> OnHand(p)] \in [Products -> Nat]
  BY DEF StockHeld
<1>2. ASSUME NEW s \in SaleIds
      PROVE  sale[s].cur.status = "none" /\ \A p \in Products : UnitsSold(s, p) = 0
  <2>1. sale[s].cur.status = "none" /\ sale[s].cur.lines = <<>>
    BY DEF Init, Stored, NoSale
  <2> QED
    BY <2>1, UnitsSoldIs, NoLinesOf
<1> QED
  BY <1>1, <1>2 DEF Book!Init, Book!SaleIds, Book!Unused, Book!NoLines, SaleIds

\* Seen from outside, tills and deliveries on one day serve their requests one at a time
\* (SalesBook): however the statements of create (sales.service.ts:38-239) and of the
\* stock-ins of adjust (inventory.service.ts:31-72) overlap, fail or roll back, each
\* commit takes one whole cart from the stock and enters it under the first free number
\* of the day, or adds one delivery, and nothing else ever shows.
THEOREM SalesBookKept ==
    ASSUME OnlyTillsAndDeliveries PROVE Spec => ImplementsSalesBook
<1> DEFINE Inv == StoreSound /\ LedgerSound /\ RowsSound /\ LinesSound /\ CartSound
<1>1. Init => Inv
  BY InitSound, InitLedger, InitRows, InitLines, InitCarts
<1>2. Inv /\ [Next]_vars => Inv'
  BY NextKeepsStore, NextKeepsLedger, NextKeepsRows, NextKeepsLines, NextKeepsCarts
<1>3. Inv => StockHeld
  BY StockIsHeld
<1>4. Inv /\ StockHeld /\ StockHeld' /\ [Next]_vars => [Book!Next]_(Book!vars)
  BY NextKeepsBook
<1>5. Init /\ StockHeld => Book!Init
  BY InitBook
<1> QED
  BY <1>1, <1>2, <1>3, <1>4, <1>5, PTL DEF Spec, ImplementsSalesBook, Book!Spec
=============================================================================
