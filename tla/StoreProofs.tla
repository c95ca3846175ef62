---------------------------- MODULE StoreProofs -----------------------------
(***************************************************************************)
(* Theorems about Checkout and PointOfSale, for any number of workers,     *)
(* products, customers and requests: the order the sale number imposes on  *)
(* the checkouts of a day, and then, with requests of every kind, the      *)
(* types of the tables, the numbering of the sales, what may become of a   *)
(* sale once it is made, the mails of the daily job and the figures of the *)
(* reports.                                                                *)
(***************************************************************************)
EXTENDS StoreInvariant, LowStockAlerts, ReportsService, CheckoutInvariant, SumLemmas

-----------------------------------------------------------------------------
(* The tables and the helpers of sales.service.ts, for every proof about   *)
(* the store.                                                              *)

\* Committing or rolling back a transaction keeps the type of a table.
LEMMA EndTyped ==
    ASSUME NEW Keys, NEW Row, NEW table \in [Keys -> Versions(Row, Workers)], NEW w \in Workers
    PROVE  /\ CommitTable(table, w) \in [Keys -> Versions(Row, Workers)]
           /\ RollbackTable(table, w) \in [Keys -> Versions(Row, Workers)]
  BY DEF CommitTable, RollbackTable, CommitRow, RollbackRow, Stored, Versions

\* Writing a row keeps the type of a table.
LEMMA WrittenTyped ==
    ASSUME NEW Keys, NEW Row, NEW table \in [Keys -> Versions(Row, Workers)], NEW w \in Workers,
           NEW k \in Keys, NEW v \in Row
    PROVE  LET next == [table EXCEPT ![k] = Written(@, w, v)] IN
           /\ next \in [Keys -> Versions(Row, Workers)]
           /\ \A j \in Keys : next[j].xid \in {table[j].xid, w}
<1> DEFINE next == [table EXCEPT ![k] = Written(@, w, v)]
<1>1. /\ next \in [Keys -> Versions(Row, Workers)]
      /\ next[k].xid = w /\ \A j \in Keys \ {k} : next[j] = table[j]
  BY DEF Written, Versions
<1> HIDE DEF next
<1>2. \A j \in Keys : next[j].xid \in {table[j].xid, w}
  BY <1>1
<1> QED
  BY <1>1, <1>2 DEF next

\* A transaction sees rows of the type of the table.
LEMMA SeenTyped ==
    ASSUME NEW Row, NEW row \in Versions(Row, Workers), NEW w \in Workers
    PROVE  Seen(row, w) \in Row
  BY DEF Seen, Versions

\* What is left of a batch is a quantity.
LEMMA DeductedTyped ==
    ASSUME NEW row \in BatchRow, NEW x \in Nat
    PROVE  /\ Smaller(row.qty, x) \in Nat
           /\ x - Smaller(row.qty, x) \in Nat
           /\ Deducted(row, Smaller(row.qty, x)) \in BatchRow
<1>1. /\ Smaller(row.qty, x) \in Nat
      /\ x - Smaller(row.qty, x) \in Nat
      /\ row.qty - Smaller(row.qty, x) \in Nat
  BY DEF BatchRow, Smaller
<1>2. ASSUME NEW d \in Nat, row.qty - d \in Nat
      PROVE  Deducted(row, d) \in BatchRow
  <2> DEFINE less == [row EXCEPT !.qty = @ - d]
  <2>1. less \in BatchRow
    BY <1>2 DEF BatchRow
  <2>2. [less EXCEPT !.active = IF row.qty = d THEN FALSE ELSE @] \in BatchRow
    BY <2>1 DEF BatchRow
  <2> QED
    BY <2>2 DEF Deducted
<1> QED
  BY <1>1, <1>2

\* A row patched with columns of an entity of its table keeps its type.
LEMMA PatchedTyped ==
    ASSUME NEW cols
    PROVE  /\ \A row, ent \in ProductRow : Patched(row, ent, cols) \in ProductRow
           /\ \A row, ent \in BatchRow : Patched(row, ent, cols) \in BatchRow
           /\ \A row, ent \in CustomerRow : Patched(row, ent, cols) \in CustomerRow
           /\ \A row, ent \in SaleRow : Patched(row, ent, cols) \in SaleRow
  BY DEF Patched, ProductRow, BatchRow, CustomerRow, SaleRow

\* A sale with one more item is a sale.
LEMMA WithItemTyped ==
    ASSUME NEW s \in SaleRow, NEW b \in BatchIds, NEW d \in Nat
    PROVE  WithItem(s, b, d) \in SaleRow /\ WithItem(s, b, d).status = s.status
<1>1. Append(s.lines, [batch |-> b, qty |-> d]) \in Seq(Line)
  BY DEF SaleRow, Line
<1> QED
  BY <1>1 DEF SaleRow, WithItem

\* The number of an open sale or of a checkout that inserts is well formed.
LEMMA NoNumberIsNoSale == NoNumber \notin SaleIds
  BY DEF NoNumber, SaleIds

\* The smaller numbers of the day of a sale are sale numbers.
LEMMA SmallerNumbers ==
    ASSUME NEW s \in SaleIds
    PROVE  /\ s = <<s[1], s[2]>> /\ s[1] \in 1 .. LastDay /\ s[2] \in 1 .. MaxSales
           /\ \A m \in 1 .. s[2] - 1 : <<s[1], m>> \in SaleIds
  BY TablesAssumption DEF SaleIds

-----------------------------------------------------------------------------
(* Steps                                                                   *)

\* A handler that has not started has typed variables.
LEMMA CheckoutNoLocalsTyped == CheckoutLocalsTyped("idle", NoLocals)
  BY DEF CheckoutLocalsTyped, NoLocals, CheckoutLocalNames, NoProduct, NoAccount, NoList, NoMoves, NoBatch,
         ProductRow, CustomerRow

\* When no number is given up, all smaller numbers of a given one stay taken, and
\* the numbers of a day stay without gaps.
LEMMA CheckoutNumbersKept ==
    ASSUME CheckoutsOrdered,
           \A s \in SaleIds : Taken(s) => Taken(s)'
    PROVE  /\ (\A w \in Workers : num'[w] \in SaleIds => num'[w] = num[w]) => CheckoutNumbersFollow'
           /\ (\A s \in SaleIds : Taken(s)' => Taken(s)) => GapFreeNumbers'
<1>1. ASSUME \A w \in Workers : num'[w] \in SaleIds => num'[w] = num[w]
      PROVE  CheckoutNumbersFollow'
  <2>1. SUFFICES ASSUME NEW w \in Workers, (num[w] \in SaleIds)',
                        NEW m \in (1 .. num[w][2] - 1)'
                 PROVE  Taken(<<num[w][1], m>>)'
    BY DEF CheckoutNumbersFollow
  <2>2. num'[w] = num[w] /\ num[w] \in SaleIds
    BY <1>1, <2>1
  <2>3. <<num[w][1], m>> \in SaleIds /\ Taken(<<num[w][1], m>>)
    BY <2>1, <2>2, SmallerNumbers DEF CheckoutsOrdered, CheckoutNumbersFollow
  <2> QED
    BY <2>2, <2>3 DEF Taken
<1>2. ASSUME \A s \in SaleIds : Taken(s)' => Taken(s) PROVE GapFreeNumbers'
  <2>1. SUFFICES ASSUME NEW d \in 1 .. LastDay, NEW n \in 1 .. MaxSales, Taken(<<d, n>>)',
                        NEW m \in 1 .. n - 1
                 PROVE  Taken(<<d, m>>)'
    BY DEF GapFreeNumbers
  <2>2. <<d, n>> \in SaleIds /\ <<d, m>> \in SaleIds
    BY TablesAssumption DEF SaleIds
  <2> QED
    BY <1>2, <2>1, <2>2 DEF CheckoutsOrdered, GapFreeNumbers
<1> QED
  BY <1>1, <1>2

\* A step of one worker from statement to statement that leaves the tables alone.
LEMMA GotoKeepsOrder ==
    ASSUME CheckoutsOrdered, NEW w \in Workers, NEW l \in CheckoutStatements, NEW t,
           Goto(w, l, t), UNCHANGED <<tables, today, served, num>>,
           CheckoutLocalsTyped(l, t),
           l \in WithSale <=> HasSale(w),
           l # "insertSale"
    PROVE  CheckoutsOrdered'
<1> USE DEF CheckoutsOrdered, Goto, tables
<1>1. TypeOK'
  BY DEF TypeOK
<1>2. /\ pc' = [pc EXCEPT ![w] = l]
      /\ \A u \in Workers : HasSale(u)' <=> HasSale(u)
  BY DEF HasSale, WorkersTyped
<1>3. WorkersTyped'
  BY DEF WorkersTyped
<1>4. OpenSaleOwned'
  BY <1>2, TablesAssumption DEF OpenSaleOwned, TypeOK, Versions
<1>5. NumberHeld'
  BY <1>2 DEF NumberHeld, WorkersTyped
<1>6. CheckoutNumbersFollow'
  BY DEF CheckoutNumbersFollow, Taken
<1>7. LocksHeldBySales'
  BY <1>2 DEF LocksHeldBySales, TypeOK, Versions
<1>8. GapFreeNumbers'
  BY DEF GapFreeNumbers, Taken
<1> QED
  BY <1>1, <1>3, <1>4, <1>5, <1>6, <1>7, <1>8

\* The end of a transaction that is rolled back.
LEMMA AbortKeepsOrder ==
    ASSUME CheckoutsOrdered, NEW w \in Workers, Abort(w)
    PROVE  CheckoutsOrdered'
<1> USE DEF CheckoutsOrdered, Abort, Leave, Goto
<1>1. TypeOK'
  BY EndTyped DEF TypeOK
<1>2. /\ pc' = [pc EXCEPT ![w] = "idle"]
      /\ \A u \in Workers \ {w} : (HasSale(u)' <=> HasSale(u)) /\ num'[u] = num[u]
      /\ num'[w] = NoNumber
  BY DEF HasSale, WorkersTyped, TypeOK
<1>3. WorkersTyped'
  BY CheckoutNoLocalsTyped DEF WorkersTyped, CheckoutStatements
<1>4. \A s \in SaleIds : /\ sale[s].xid # w => sale'[s] = sale[s]
                         /\ sale[s].xid = w => sale'[s].xid = NoTx
                         /\ Taken(s)' <=> Taken(s)
  BY DEF RollbackTable, RollbackRow, Stored, TypeOK, Taken
<1>5. OpenSaleOwned'
  BY <1>2, <1>4, TablesAssumption DEF OpenSaleOwned, TypeOK, Versions
<1>6. NumberHeld'
  <2>1. ~HasSale(w)'
    BY <1>2 DEF HasSale, WorkersTyped, WithSale, AfterInsert
  <2> QED
    BY <1>2, <1>4, <2>1 DEF NumberHeld, WorkersTyped
<1>7. CheckoutNumbersFollow'
  BY <1>2, <1>4, NoNumberIsNoSale, CheckoutNumbersKept
<1>8. LocksHeldBySales'
  BY <1>2, TablesAssumption
  DEF LocksHeldBySales, TypeOK, Versions, RollbackTable, RollbackRow, Stored
<1>9. GapFreeNumbers'
  BY <1>4, CheckoutNumbersKept
<1> QED
  BY <1>1, <1>3, <1>5, <1>6, <1>7, <1>8, <1>9

\* A request is taken.
LEMMA BeginKeepsOrder ==
    ASSUME CheckoutsOrdered, NEW w \in Workers, NEW r \in SaleRequests, Begin(w, r)
    PROVE  CheckoutsOrdered'
<1> DEFINE t == [NoLocals EXCEPT !.req = r]
<1> USE DEF CheckoutsOrdered, tables
<1>1. pc[w] = "idle" /\ Goto(w, "findCustomer", t)
  BY DEF Begin, Entry, SaleRequests
<1>2. served' \in 0 .. MaxRequests
  BY TablesAssumption DEF Begin, TypeOK
<1>3. CheckoutLocalsTyped("findCustomer", t)
  <2>1. r \in SaleForm /\ Len(r.items) \in Nat /\ Len(r.items) # 0
    BY RequestsAssumption DEF SaleRequests, SaleForm
  <2> QED
    BY <2>1, CheckoutNoLocalsTyped DEF CheckoutLocalsTyped, NoLocals
<1>4. TypeOK'
  BY <1>2 DEF TypeOK, Begin
<1>5. \A u \in Workers : HasSale(u)' <=> HasSale(u)
  BY <1>1 DEF HasSale, WorkersTyped, WithSale, AfterInsert, Goto
<1>6. WorkersTyped'
  BY <1>1, <1>3 DEF WorkersTyped, Goto, CheckoutStatements
<1>7. OpenSaleOwned'
  BY <1>5, TablesAssumption DEF OpenSaleOwned, TypeOK, Versions, Begin
<1>8. NumberHeld'
  BY <1>1, <1>5 DEF NumberHeld, WorkersTyped, Begin, Goto
<1>9. CheckoutNumbersFollow' /\ GapFreeNumbers'
  BY CheckoutNumbersKept DEF Begin, Taken
<1>10. LocksHeldBySales'
  BY <1>5 DEF LocksHeldBySales, TypeOK, Versions, Begin
<1> QED
  BY <1>4, <1>6, <1>7, <1>8, <1>9, <1>10

\* The clock passes midnight.
LEMMA MidnightKeepsOrder ==
    ASSUME CheckoutsOrdered, Midnight
    PROVE  CheckoutsOrdered'
<1> USE DEF CheckoutsOrdered, Midnight, tables
<1>1. TypeOK'
  BY TablesAssumption DEF TypeOK
<1>2. WorkersTyped' /\ OpenSaleOwned' /\ NumberHeld' /\ LocksHeldBySales'
  BY DEF WorkersTyped, OpenSaleOwned, NumberHeld, LocksHeldBySales, HasSale
<1>3. CheckoutNumbersFollow' /\ GapFreeNumbers'
  BY CheckoutNumbersKept DEF Taken
<1> QED
  BY <1>1, <1>2, <1>3

\* The next number of the day follows the taken ones.
LEMMA GenerateSaleNumberKeepsOrder ==
    ASSUME CheckoutsOrdered, NEW w \in Workers, GenerateSaleNumber(w)
    PROVE  CheckoutsOrdered'
<1>1. CASE CreditRefused(tx[w])
  BY <1>1, AbortKeepsOrder DEF GenerateSaleNumber
<1>2. CASE ~CreditRefused(tx[w])
  <2> USE DEF CheckoutsOrdered, tables
  <2>1. PICK n \in 1 .. MaxSales : IsNextNumber(n, w) /\ num' = [num EXCEPT ![w] = <<today, n>>]
    BY <1>2 DEF GenerateSaleNumber
  <2>2. /\ pc[w] = "generateSaleNumber" /\ Goto(w, "insertSale", tx[w])
        /\ UNCHANGED <<tables, today, served>>
    BY <1>2 DEF GenerateSaleNumber
  <2>3. today \in 1 .. LastDay /\ <<today, n>> \in SaleIds
    BY <2>1 DEF TypeOK, SaleIds
  <2>4. ~HasSale(w)
    BY <2>2 DEF HasSale, WithSale, AfterInsert
  <2>5. \A m \in 1 .. MaxSales : Seen(sale[<<today, m>>], w) = sale[<<today, m>>].cur
    <3>1. ASSUME NEW m \in 1 .. MaxSales
          PROVE  Seen(sale[<<today, m>>], w) = sale[<<today, m>>].cur
      <4>1. <<today, m>> \in SaleIds
        BY <2>3 DEF SaleIds
      <4>2. sale[<<today, m>>].xid # w
        BY <2>4, <4>1, TablesAssumption DEF OpenSaleOwned
      <4> QED
        BY <4>2 DEF Seen
    <3> QED
      BY <3>1
  <2>6. \A m \in 1 .. n - 1 : Taken(<<today, m>>)
    <3>1. SUFFICES ASSUME NEW m \in 1 .. n - 1 PROVE Taken(<<today, m>>)
      OBVIOUS
    <3>2. n > 1 /\ n - 1 \in 1 .. MaxSales
      BY <2>1, <3>1, TablesAssumption
    <3>3. Taken(<<today, n - 1>>)
      BY <2>1, <2>5, <3>2 DEF IsNextNumber, Taken
    <3> QED
      BY <2>3, <3>1, <3>2, <3>3 DEF GapFreeNumbers
  <2>7. TypeOK'
    BY <2>1, <2>2, <2>3 DEF TypeOK
  <2>8. \A u \in Workers : HasSale(u)' <=> HasSale(u)
    BY <2>2, <2>4 DEF HasSale, WorkersTyped, WithSale, AfterInsert, Goto
  <2>9. WorkersTyped'
    BY <2>2 DEF WorkersTyped, Goto, CheckoutStatements, CheckoutLocalsTyped
  <2>10. OpenSaleOwned'
    BY <2>1, <2>2, <2>4, <2>8, TablesAssumption DEF OpenSaleOwned, TypeOK, Versions
  <2>11. NumberHeld'
    BY <2>1, <2>2, <2>3, <2>4, <2>8 DEF NumberHeld, WorkersTyped, TypeOK, Goto
  <2>12. CheckoutNumbersFollow'
    <3>1. \A s : Taken(s)' <=> Taken(s)
      BY <2>2 DEF Taken
    <3>2. ASSUME NEW u \in Workers, (num[u] \in SaleIds)', NEW m \in (1 .. num[u][2] - 1)'
          PROVE  Taken(<<num[u][1], m>>)'
      <4>1. CASE u = w
        BY <2>1, <2>2, <2>6, <3>2, <4>1 DEF TypeOK, Taken
      <4>2. CASE u # w
        BY <2>1, <2>2, <3>2, <4>2 DEF CheckoutNumbersFollow, Taken, TypeOK
      <4> QED
        BY <4>1, <4>2
    <3> QED
      BY <3>2 DEF CheckoutNumbersFollow
  <2>13. LocksHeldBySales'
    BY <2>2, <2>8 DEF LocksHeldBySales, TypeOK, Versions
  <2>14. GapFreeNumbers'
    BY <2>2, CheckoutNumbersKept DEF Taken
  <2> QED
    BY <2>7, <2>9, <2>10, <2>11, <2>12, <2>13, <2>14
<1> QED
  BY <1>1, <1>2

\* INSERT INTO sales: the number is locked, and was not in the table.
LEMMA InsertSaleKeepsOrder ==
    ASSUME CheckoutsOrdered, NEW w \in Workers, InsertSale(w)
    PROVE  CheckoutsOrdered'
<1> DEFINE n == num[w]
<1>1. CASE sale[n].cur.status # "none"
  BY <1>1, AbortKeepsOrder DEF InsertSale
<1>2. CASE sale[n].cur.status = "none"
  <2> USE DEF CheckoutsOrdered, tables
  <2>0. PICK d \in Dates(w) : sale' = [sale EXCEPT ![n] = Written(@, w, NewSale(tx[w].req, d))]
    BY <1>2 DEF InsertSale
  <2> DEFINE row == NewSale(tx[w].req, d)
  <2>1. /\ pc[w] = "insertSale" /\ Writable(sale[n], w) /\ Goto(w, "findBatches", tx[w])
        /\ sale' = [sale EXCEPT ![n] = Written(@, w, row)]
        /\ UNCHANGED <<product, batch, customer, moved, paid, today, served, num>>
    BY <1>2, <2>0 DEF InsertSale
  <2>2. n \in SaleIds /\ ~HasSale(w)
    BY <2>1 DEF NumberHeld, HasSale, WithSale, AfterInsert
  <2>3. sale[n].xid = NoTx
    BY <2>1, <2>2, TablesAssumption DEF Writable, OpenSaleOwned, TypeOK, Versions
  <2>4. row \in SaleRow /\ row.status = "completed"
    <3>1. CheckoutLocalsTyped(pc[w], tx[w])
      BY DEF WorkersTyped
    <3>2. d \in Nat
      BY <2>2 DEF Dates, SaleIds, TypeOK
    <3> QED
      BY <2>1, <3>1, <3>2 DEF CheckoutLocalsTyped, SaleForm, NewSale, SaleRow
  <2> HIDE DEF row
  <2>5. TypeOK'
    <3>1. sale \in [SaleIds -> Versions(SaleRow, Workers)]
      BY DEF TypeOK
    <3>2. sale' \in [SaleIds -> Versions(SaleRow, Workers)]
      BY <2>1, <2>2, <2>4, <3>1, WrittenTyped
    <3> QED
      BY <2>1, <3>2 DEF TypeOK
  <2>6. WorkersTyped'
    BY <2>1 DEF WorkersTyped, Goto, CheckoutStatements, AfterInsert, CheckoutLocalsTyped
  <2>7. /\ HasSale(w)'
        /\ \A u \in Workers \ {w} : HasSale(u)' <=> HasSale(u)
    BY <2>1 DEF HasSale, WorkersTyped, WithSale, AfterInsert, Goto
  <2>8. /\ sale'[n].cur = sale[n].cur /\ sale'[n].new = row /\ sale'[n].xid = w
        /\ \A s \in SaleIds \ {n} : sale'[s] = sale[s]
    BY <2>1, <2>2 DEF Written, TypeOK, Versions
  <2>9. OpenSaleOwned'
    BY <1>2, <2>1, <2>2, <2>4, <2>7, <2>8, TablesAssumption DEF OpenSaleOwned, TypeOK, Versions
  <2>10. NumberHeld'
    <3>1. ASSUME NEW u \in Workers, HasSale(u)
          PROVE  u # w /\ num[u] # n
      BY <2>2, <2>3, <3>1, TablesAssumption DEF NumberHeld
    <3> QED
      BY <2>1, <2>2, <2>7, <2>8, <3>1 DEF NumberHeld, WorkersTyped, Goto
  <2>11. \A s \in SaleIds : Taken(s)' <=> Taken(s)
    BY <2>8 DEF Taken
  <2>12. CheckoutNumbersFollow' /\ GapFreeNumbers'
    BY <2>1, <2>11, CheckoutNumbersKept
  <2>13. LocksHeldBySales'
    BY <2>1, <2>2, <2>7 DEF LocksHeldBySales, TypeOK, Versions
  <2> QED
    BY <2>5, <2>6, <2>9, <2>10, <2>12, <2>13
<1> QED
  BY <1>1, <1>2

\* The locals of a save that fits its table.
LEMMA SavingTyped ==
    ASSUME NEW x, x # "idle", NEW t, CheckoutLocalsTyped(x, t),
           NEW tbl, NEW key, NEW ent, NEW l \in AfterInsert,
           \/ tbl = "product" /\ key \in Products /\ ent \in ProductRow
           \/ tbl = "batch" /\ key \in BatchIds /\ ent \in BatchRow
           \/ tbl = "customer" /\ key \in Customers /\ ent \in CustomerRow
    PROVE  CheckoutLocalsTyped("select", Saving(tbl, key, ent, l, t))
<1> DEFINE u == Saving(tbl, key, ent, l, t)
<1>1. /\ DOMAIN u = CheckoutLocalNames
      /\ u.i = t.i /\ u.prod = t.prod /\ u.cust = t.cust /\ u.left = t.left
      /\ u.moves = t.moves /\ u.pay = t.pay /\ u.list = t.list /\ u.req = t.req
      /\ u.tbl = tbl /\ u.key = key /\ u.ent = ent /\ u.then = l
  BY DEF Saving, CheckoutLocalsTyped, CheckoutLocalNames
<1> HIDE DEF u
<1>2. CheckoutSaveTyped(u)
  BY <1>1 DEF CheckoutSaveTyped
<1>3. CheckoutLocalsTyped("select", u)
  BY <1>1, <1>2 DEF CheckoutLocalsTyped
<1> QED
  BY <1>3 DEF u

\* The locals after a round of the batch loop.
LEMMA CheckoutTookTyped ==
    ASSUME NEW t, CheckoutLocalsTyped("takeBatch", t), NEW k, NEW b \in BatchIds,
           NEW d \in Nat, t.left - d \in Nat
    PROVE  CheckoutLocalsTyped("takeBatch", Took(t, k, b, d))
<1> DEFINE u == Took(t, k, b, d)
<1>1. /\ DOMAIN u = CheckoutLocalNames
      /\ u.i = t.i /\ u.prod = t.prod /\ u.cust = t.cust /\ u.left = t.left - d
      /\ u.moves = [t.moves EXCEPT ![b] = @ - d]
      /\ u.pay = t.pay /\ u.list = Without(t.list, k) /\ u.req = t.req
  BY DEF Took, CheckoutLocalsTyped, CheckoutLocalNames
<1> HIDE DEF u
<1>2. u.moves \in [BatchIds -> Int]
  BY <1>1 DEF CheckoutLocalsTyped
<1>3. DOMAIN u.list \subseteq Slots /\ \A j \in DOMAIN u.list : u.list[j] \in BatchRow
  BY <1>1 DEF CheckoutLocalsTyped, Without
<1>4. CheckoutLocalsTyped("takeBatch", u)
  BY <1>1, <1>2, <1>3 DEF CheckoutLocalsTyped
<1> QED
  BY <1>4 DEF u

\* The locals after a stock check.
LEMMA CheckoutCheckedTyped ==
    ASSUME NEW l \in CheckoutStatements \ {"select", "update"}, NEW t, CheckoutLocalsTyped("checkStock", t),
           NEW j \in Nat \ {0}, j <= Len(t.req.items), NEW q, NEW p \in ProductRow
    PROVE  CheckoutLocalsTyped(l, Checked(t, j, q, p))
<1> DEFINE u == Checked(t, j, q, p)
<1>1. [t.prod EXCEPT ![q] = p] \in [Products -> ProductRow]
  BY DEF CheckoutLocalsTyped
<1>2. /\ DOMAIN u = CheckoutLocalNames
      /\ u.i = j /\ u.prod = [t.prod EXCEPT ![q] = p] /\ u.cust = t.cust /\ u.left = t.left
      /\ u.moves = t.moves /\ u.pay = t.pay /\ u.list = t.list /\ u.req = t.req
  BY DEF Checked, CheckoutLocalsTyped, CheckoutLocalNames
<1> HIDE DEF u
<1>3. CheckoutLocalsTyped(l, u)
  BY <1>1, <1>2 DEF CheckoutLocalsTyped
<1> QED
  BY <1>3 DEF u

\* The product and quantity of the item a checkout is at.
LEMMA CheckoutItemTyped ==
    ASSUME NEW x, x # "idle", NEW t, CheckoutLocalsTyped(x, t)
    PROVE  t.req.items[t.i].product \in Products /\ t.req.items[t.i].qty \in Nat
<1>1. t.req.items \in Seq(CartItem) /\ t.i \in 1 .. Len(t.req.items)
  BY DEF CheckoutLocalsTyped, SaleForm
<1>2. t.req.items[t.i] \in CartItem
  BY <1>1
<1> QED
  BY <1>2 DEF CartItem

\* A step between two statements of the batch section that writes the worker's
\* own open sale and no other table.
LEMMA SaleWriteKeepsOrder ==
    ASSUME CheckoutsOrdered, NEW w \in Workers, HasSale(w), NEW l \in WithSale, NEW t,
           Goto(w, l, t), CheckoutLocalsTyped(l, t),
           NEW row \in SaleRow, row.status = "completed",
           sale' = [sale EXCEPT ![num[w]] = Written(@, w, row)],
           UNCHANGED <<product, batch, customer, moved, paid, today, served, num>>
    PROVE  CheckoutsOrdered'
<1> DEFINE n == num[w]
<1> USE DEF CheckoutsOrdered
<1>1. n \in SaleIds /\ sale[n].xid = w
  BY DEF NumberHeld
<1>2. TypeOK'
  BY <1>1, WrittenTyped DEF TypeOK
<1>3. \A v \in Workers : HasSale(v)' <=> HasSale(v)
  BY DEF HasSale, WorkersTyped, Goto
<1>4. WorkersTyped'
  BY DEF WorkersTyped, Goto, CheckoutStatements, WithSale
<1>5. /\ sale'[n].cur = sale[n].cur /\ sale'[n].new = row /\ sale'[n].xid = w
      /\ \A s \in SaleIds \ {n} : sale'[s] = sale[s]
  BY <1>1 DEF Written, TypeOK, Versions
<1>6. OpenSaleOwned'
  BY <1>1, <1>3, <1>5, TablesAssumption DEF OpenSaleOwned, TypeOK, Versions
<1>7. NumberHeld'
  BY <1>1, <1>3, <1>5 DEF NumberHeld, WorkersTyped, Goto, WithSale, AfterInsert
<1>8. \A s \in SaleIds : Taken(s)' <=> Taken(s)
  BY <1>5 DEF Taken
<1>9. CheckoutNumbersFollow' /\ GapFreeNumbers'
  BY <1>8, CheckoutNumbersKept
<1>10. LocksHeldBySales'
  BY <1>3 DEF LocksHeldBySales, TypeOK, Versions
<1> QED
  BY <1>2, <1>4, <1>6, <1>7, <1>9, <1>10

\* One round of the batch loop adds an item to the sale the worker holds.
LEMMA TakeBatchKeepsOrder ==
    ASSUME CheckoutsOrdered, NEW w \in Workers, TakeBatch(w)
    PROVE  CheckoutsOrdered'
<1> DEFINE n == num[w]
           t == tx[w]
           B(k) == <<t.req.items[t.i].product, k>>
           D(k) == Smaller(t.list[k].qty, t.left)
<1> USE DEF CheckoutsOrdered, tables
<1>1. PICK k \in Slots :
         /\ IsOldest(k, t.list)
         /\ sale' = [sale EXCEPT ![n] = Written(@, w, WithItem(@.new, B(k), D(k)))]
         /\ Save(w, "batch", B(k), Deducted(t.list[k], D(k)), "takeBatch", Took(t, k, B(k), D(k)))
  BY DEF TakeBatch
<1> DEFINE row == WithItem(sale[n].new, B(k), D(k))
           l == Saving("batch", B(k), Deducted(t.list[k], D(k)), "takeBatch",
                       Took(t, k, B(k), D(k)))
<1>2. /\ pc[w] = "takeBatch" /\ HasSale(w) /\ Goto(w, "select", l)
      /\ UNCHANGED <<product, batch, customer, moved, paid, today, served, num>>
  BY <1>1 DEF TakeBatch, Save, HasSale, WithSale, AfterInsert
<1>3. n \in SaleIds /\ sale[n].xid = w
  BY <1>2 DEF NumberHeld
<1>4. CheckoutLocalsTyped("takeBatch", t) /\ k \in DOMAIN t.list
  BY <1>1, <1>2 DEF WorkersTyped, IsOldest
<1>5. B(k) \in BatchIds
  BY <1>4, CheckoutItemTyped DEF BatchIds
<1>6. D(k) \in Nat /\ t.left - D(k) \in Nat /\ Deducted(t.list[k], D(k)) \in BatchRow
  BY <1>4, DeductedTyped DEF CheckoutLocalsTyped
<1>7. row \in SaleRow /\ row.status = "completed"
  <2>1. sale[n].new \in SaleRow /\ sale[n].new.status = "completed"
    BY <1>3, TablesAssumption DEF OpenSaleOwned, TypeOK, Versions
  <2> QED
    BY <2>1, <1>5, <1>6, WithItemTyped
<1>8. CheckoutLocalsTyped("select", l)
  BY <1>4, <1>5, <1>6, CheckoutTookTyped, SavingTyped DEF AfterInsert
<1> HIDE DEF l, row
<1>9. sale' = [sale EXCEPT ![n] = Written(@, w, row)]
  BY <1>1 DEF row
<1> QED
  BY <1>2, <1>7, <1>8, <1>9, SaleWriteKeepsOrder DEF WithSale

\* UPDATE of a product, a batch or a customer by a worker that holds a sale number.
LEMMA SaveUpdateKeepsOrder ==
    ASSUME CheckoutsOrdered, NEW w \in Workers, SaveUpdate(w)
    PROVE  CheckoutsOrdered'
<1> DEFINE t == tx[w]
<1> USE DEF CheckoutsOrdered
<1>1. /\ pc[w] = "update" /\ HasSale(w) /\ Goto(w, t.then, Saved(t))
      /\ UNCHANGED <<moved, paid, today, served, num>>
  BY DEF SaveUpdate, HasSale, WithSale
<1>2. CheckoutLocalsTyped("update", t) /\ CheckoutSaveTyped(t)
  BY <1>1 DEF WorkersTyped, CheckoutLocalsTyped
<1>3. UNCHANGED sale
  BY <1>2 DEF SaveUpdate, Updated, CheckoutSaveTyped
<1>4. \A u \in Workers : HasSale(u)' <=> HasSale(u)
  BY <1>1, <1>2 DEF HasSale, WorkersTyped, WithSale, Goto, CheckoutSaveTyped
<1>5. /\ product' \in [Products -> Versions(ProductRow, Workers)]
      /\ \A p \in Products : product'[p].xid \in {product[p].xid, w}
  <2>1. CASE t.tbl = "product"
    <3> DEFINE v == Patched(Seen(product[t.key], w), t.ent, t.cols)
    <3>1. t.key \in Products /\ v \in ProductRow
      BY <1>2, <2>1, SeenTyped, PatchedTyped DEF CheckoutSaveTyped, TypeOK
    <3>2. product' = [product EXCEPT ![t.key] = Written(@, w, v)]
      BY <2>1 DEF SaveUpdate, Updated
    <3> HIDE DEF v
    <3> QED
      BY <3>1, <3>2, WrittenTyped DEF TypeOK
  <2>2. CASE t.tbl # "product"
    BY <2>2 DEF SaveUpdate, Updated, TypeOK
  <2> QED
    BY <2>1, <2>2
<1>6. /\ batch' \in [BatchIds -> Versions(BatchRow, Workers)]
      /\ \A b \in BatchIds : batch'[b].xid \in {batch[b].xid, w}
  <2>1. CASE t.tbl = "batch"
    <3> DEFINE v == Patched(Seen(batch[t.key], w), t.ent, t.cols)
    <3>1. t.key \in BatchIds /\ v \in BatchRow
      BY <1>2, <2>1, SeenTyped, PatchedTyped DEF CheckoutSaveTyped, TypeOK
    <3>2. batch' = [batch EXCEPT ![t.key] = Written(@, w, v)]
      BY <2>1 DEF SaveUpdate, Updated
    <3> HIDE DEF v
    <3> QED
      BY <3>1, <3>2, WrittenTyped DEF TypeOK
  <2>2. CASE t.tbl # "batch"
    BY <2>2 DEF SaveUpdate, Updated, TypeOK
  <2> QED
    BY <2>1, <2>2
<1>7. /\ customer' \in [Customers -> Versions(CustomerRow, Workers)]
      /\ \A c \in Customers : customer'[c].xid \in {customer[c].xid, w}
  <2>1. CASE t.tbl = "customer"
    <3> DEFINE v == Patched(Seen(customer[t.key], w), t.ent, t.cols)
    <3>1. t.key \in Customers /\ v \in CustomerRow
      BY <1>2, <2>1, SeenTyped, PatchedTyped DEF CheckoutSaveTyped, TypeOK
    <3>2. customer' = [customer EXCEPT ![t.key] = Written(@, w, v)]
      BY <2>1 DEF SaveUpdate, Updated
    <3> HIDE DEF v
    <3> QED
      BY <3>1, <3>2, WrittenTyped DEF TypeOK
  <2>2. CASE t.tbl # "customer"
    BY <2>2 DEF SaveUpdate, Updated, TypeOK
  <2> QED
    BY <2>1, <2>2
<1>8. TypeOK'
  BY <1>1, <1>3, <1>5, <1>6, <1>7 DEF TypeOK
<1>9. WorkersTyped'
  <2>1. CheckoutLocalsTyped(t.then, Saved(t))
    BY <1>2 DEF CheckoutLocalsTyped, CheckoutSaveTyped, Saved, CheckoutLocalNames, AfterInsert
  <2> QED
    BY <1>1, <1>2, <2>1 DEF WorkersTyped, Goto, CheckoutStatements, CheckoutSaveTyped
<1>10. OpenSaleOwned'
  BY <1>1, <1>3, <1>4, TablesAssumption DEF OpenSaleOwned, TypeOK, Versions
<1>11. NumberHeld'
  BY <1>1, <1>2, <1>3, <1>4 DEF NumberHeld, WorkersTyped, Goto, CheckoutSaveTyped, AfterInsert
<1>12. CheckoutNumbersFollow' /\ GapFreeNumbers'
  BY <1>1, <1>3, CheckoutNumbersKept DEF Taken
<1>13. LocksHeldBySales'
  BY <1>1, <1>4, <1>5, <1>6, <1>7 DEF LocksHeldBySales, TypeOK, Versions
<1> QED
  BY <1>8, <1>9, <1>10, <1>11, <1>12, <1>13

\* The commit puts the number of the worker's sale into the table, above numbers
\* that are all there.
LEMMA CommitKeepsOrder ==
    ASSUME CheckoutsOrdered, NEW w \in Workers, Commit(w)
    PROVE  CheckoutsOrdered'
<1> USE DEF CheckoutsOrdered, Leave, Goto
<1>1. pc[w] = "commit" /\ Leave(w) /\ HasSale(w)
  BY DEF Commit, HasSale, WithSale, AfterInsert
<1>2. num[w] \in SaleIds /\ sale[num[w]].xid = w
  BY <1>1 DEF NumberHeld
<1>3. TypeOK'
  <2>1. tx[w].moves \in [BatchIds -> Int] /\ tx[w].pay = 0
    BY DEF WorkersTyped, CheckoutLocalsTyped
  <2>2. moved' \in [BatchIds -> Int] /\ paid' \in [Customers -> Nat]
    BY <2>1 DEF Commit, TypeOK
  <2> QED
    BY <2>2, EndTyped DEF TypeOK, Commit
<1>4. /\ pc' = [pc EXCEPT ![w] = "idle"]
      /\ \A u \in Workers \ {w} : (HasSale(u)' <=> HasSale(u)) /\ num'[u] = num[u]
      /\ num'[w] = NoNumber
      /\ ~HasSale(w)'
  BY <1>1 DEF HasSale, WorkersTyped, TypeOK, WithSale, AfterInsert
<1>5. WorkersTyped'
  BY <1>1, CheckoutNoLocalsTyped DEF WorkersTyped, CheckoutStatements
<1>6. \A s \in SaleIds :
         /\ sale[s].xid # w => sale'[s] = sale[s]
         /\ sale[s].xid = w => sale'[s].xid = NoTx /\ Taken(s)'
         /\ Taken(s) => Taken(s)'
         /\ Taken(s)' => Taken(s) \/ s = num[w]
  <2>1. SUFFICES ASSUME NEW s \in SaleIds
                 PROVE  /\ sale[s].xid # w => sale'[s] = sale[s]
                        /\ sale[s].xid = w => sale'[s].xid = NoTx /\ Taken(s)'
                        /\ Taken(s) => Taken(s)'
                        /\ Taken(s)' => Taken(s) \/ s = num[w]
    OBVIOUS
  <2>2. sale'[s] = CommitRow(sale[s], w)
    BY DEF Commit, CommitTable, TypeOK
  <2>3. sale[s].xid = w => s = num[w] /\ sale[s].new.status = "completed"
    BY TablesAssumption DEF OpenSaleOwned
  <2> QED
    BY <2>2, <2>3 DEF CommitRow, Stored, Taken
<1>7. OpenSaleOwned'
  BY <1>4, <1>6, TablesAssumption DEF OpenSaleOwned, TypeOK, Versions
<1>8. NumberHeld'
  BY <1>4, <1>6 DEF NumberHeld, WorkersTyped
<1>9. CheckoutNumbersFollow'
  BY <1>4, <1>6, NoNumberIsNoSale, CheckoutNumbersKept
<1>10. LocksHeldBySales'
  BY <1>4, TablesAssumption
  DEF LocksHeldBySales, TypeOK, Versions, Commit, CommitTable, CommitRow, Stored
<1>11. GapFreeNumbers'
  <2>1. SUFFICES ASSUME NEW d \in 1 .. LastDay, NEW n \in 1 .. MaxSales, Taken(<<d, n>>)',
                        NEW m \in 1 .. n - 1
                 PROVE  Taken(<<d, m>>)'
    BY DEF GapFreeNumbers
  <2>2. <<d, n>> \in SaleIds /\ <<d, m>> \in SaleIds
    BY TablesAssumption DEF SaleIds
  <2>3. CASE Taken(<<d, n>>)
    BY <1>6, <2>2, <2>3 DEF GapFreeNumbers
  <2>4. CASE <<d, n>> = num[w]
    BY <1>2, <1>6, <2>2, <2>4 DEF CheckoutNumbersFollow
  <2> QED
    BY <1>6, <2>1, <2>2, <2>3, <2>4
<1> QED
  BY <1>3, <1>5, <1>7, <1>8, <1>9, <1>10, <1>11

\* The steps of create that only read: each one ends at the next statement or
\* rolls back.
LEMMA ReadsKeepOrder ==
    ASSUME CheckoutsOrdered, NEW w \in Workers,
           \/ FindCustomer(w) \/ CheckStock(w) \/ FindBatches(w)
    PROVE  CheckoutsOrdered'
<1> DEFINE t == tx[w]
           it == t.req.items[t.i]
<1> USE DEF CheckoutsOrdered
<1>1. CheckoutLocalsTyped(pc[w], t)
  BY DEF WorkersTyped
<1>2. ASSUME FindCustomer(w) PROVE CheckoutsOrdered'
  <2>1. pc[w] = "findCustomer"
    BY <1>2 DEF FindCustomer
  <2>2. CASE Abort(w)
    BY <2>2, AbortKeepsOrder
  <2>3. CASE /\ Goto(w, "checkStock", t)
             /\ UNCHANGED <<tables, today, served, num>>
    <3>1. CheckoutLocalsTyped("checkStock", t)
      BY <1>1, <2>1 DEF CheckoutLocalsTyped
    <3> QED
      BY <2>1, <2>3, <3>1, GotoKeepsOrder DEF HasSale, WithSale, AfterInsert, CheckoutStatements
  <2>4. CASE /\ t.req.customer # NoCustomer
             /\ Goto(w, "checkStock", [t EXCEPT !.cust = Seen(customer[t.req.customer], w)])
             /\ UNCHANGED <<tables, today, served, num>>
    <3>1. t.req.customer \in Customers
      BY <1>1, <2>1, <2>4 DEF CheckoutLocalsTyped, SaleForm
    <3>2. Seen(customer[t.req.customer], w) \in CustomerRow
      BY <3>1, SeenTyped DEF TypeOK
    <3>3. CheckoutLocalsTyped("checkStock", [t EXCEPT !.cust = Seen(customer[t.req.customer], w)])
      BY <1>1, <2>1, <3>2 DEF CheckoutLocalsTyped, CheckoutLocalNames
    <3> QED
      BY <2>1, <2>4, <3>3, GotoKeepsOrder DEF HasSale, WithSale, AfterInsert, CheckoutStatements
  <2> QED
    BY <1>2, <2>2, <2>3, <2>4 DEF FindCustomer
<1>3. ASSUME CheckStock(w) PROVE CheckoutsOrdered'
  <2> DEFINE p == Seen(product[it.product], w)
  <2>1. pc[w] = "checkStock"
    BY <1>3 DEF CheckStock
  <2>2. p \in ProductRow
    BY <1>1, <2>1, CheckoutItemTyped, SeenTyped DEF TypeOK
  <2>3. t.i \in Nat \ {0} /\ Len(t.req.items) \in Nat /\ t.i <= Len(t.req.items)
    BY <1>1, <2>1 DEF CheckoutLocalsTyped, SaleForm
  <2>4. CASE Abort(w)
    BY <2>4, AbortKeepsOrder
  <2>5. CASE /\ t.i < Len(t.req.items)
             /\ Goto(w, "checkStock", Checked(t, t.i + 1, it.product, p))
             /\ UNCHANGED <<tables, today, served, num>>
    <3>1. t.i + 1 \in Nat \ {0} /\ t.i + 1 <= Len(t.req.items)
      BY <2>3, <2>5
    <3>2. CheckoutLocalsTyped("checkStock", Checked(t, t.i + 1, it.product, p))
      <4>1. "checkStock" \in CheckoutStatements \ {"select", "update"}
        BY DEF CheckoutStatements
      <4>2. CheckoutLocalsTyped("checkStock", t)
        BY <1>1, <2>1
      <4> HIDE DEF p, it, t
      <4> QED
        BY <2>2, <3>1, <4>1, <4>2, CheckoutCheckedTyped
    <3> QED
      BY <2>1, <2>5, <3>2, GotoKeepsOrder DEF HasSale, WithSale, AfterInsert, CheckoutStatements
  <2>6. CASE /\ Goto(w, "generateSaleNumber", Checked(t, 1, it.product, p))
             /\ UNCHANGED <<tables, today, served, num>>
    <3>1. CheckoutLocalsTyped("generateSaleNumber", Checked(t, 1, it.product, p))
      <4>1. 1 \in Nat \ {0} /\ 1 <= Len(t.req.items)
        BY <2>3
      <4>2. "generateSaleNumber" \in CheckoutStatements \ {"select", "update"}
        BY DEF CheckoutStatements
      <4>3. CheckoutLocalsTyped("checkStock", t)
        BY <1>1, <2>1
      <4> HIDE DEF p, it, t
      <4> QED
        BY <2>2, <4>1, <4>2, <4>3, CheckoutCheckedTyped
    <3>2. /\ "generateSaleNumber" \in CheckoutStatements \ WithSale
          /\ ~HasSale(w)
      BY <2>1 DEF HasSale, WithSale, AfterInsert, CheckoutStatements
    <3> QED
      BY <2>6, <3>1, <3>2, GotoKeepsOrder
  <2> QED
    BY <1>3, <2>4, <2>5, <2>6 DEF CheckStock
<1>4. ASSUME FindBatches(w) PROVE CheckoutsOrdered'
  <2> DEFINE u == [t EXCEPT !.list = OpenBatches(it.product, w), !.left = it.qty]
  <2>1. pc[w] = "findBatches"
    BY <1>4 DEF FindBatches
  <2>2. it.product \in Products /\ it.qty \in Nat
    BY <1>1, <2>1, CheckoutItemTyped
  <2>3. /\ DOMAIN OpenBatches(it.product, w) \subseteq Slots
        /\ \A k \in DOMAIN OpenBatches(it.product, w) :
              OpenBatches(it.product, w)[k] \in BatchRow
    BY <2>2, SeenTyped DEF OpenBatches, TypeOK, BatchIds
  <2>4. CheckoutLocalsTyped("takeBatch", u)
    BY <1>1, <2>1, <2>2, <2>3 DEF CheckoutLocalsTyped, CheckoutLocalNames
  <2>5. Goto(w, "takeBatch", u) /\ UNCHANGED <<tables, today, served, num>>
    BY <1>4 DEF FindBatches
  <2> HIDE DEF u
  <2> QED
    BY <2>1, <2>4, <2>5, GotoKeepsOrder DEF HasSale, WithSale, AfterInsert, CheckoutStatements
<1> QED
  BY <1>2, <1>3, <1>4

\* The steps of create that begin a save, or skip it.
LEMMA SavesKeepOrder ==
    ASSUME CheckoutsOrdered, NEW w \in Workers,
           \/ DeductProduct(w) \/ ChargeCustomer(w) \/ SaveSelect(w)
    PROVE  CheckoutsOrdered'
<1> DEFINE t == tx[w]
           it == t.req.items[t.i]
<1> USE DEF CheckoutsOrdered
<1>1. CheckoutLocalsTyped(pc[w], t)
  BY DEF WorkersTyped
<1>2. ASSUME DeductProduct(w) PROVE CheckoutsOrdered'
  <2> DEFINE ent == [t.prod[it.product] EXCEPT !.stock = @ - it.qty]
             u == [t EXCEPT !.prod[it.product] = ent, !.list = NoList]
             v == [u EXCEPT !.i = @ + 1]
  <2>1. pc[w] = "takeBatch" /\ UNCHANGED <<tables, today, served, num>>
    BY <1>2 DEF DeductProduct
  <2>2. it.product \in Products /\ ent \in ProductRow
    <3>1. it.product \in Products /\ it.qty \in Nat /\ t.prod[it.product] \in ProductRow
      BY <1>1, <2>1, CheckoutItemTyped DEF CheckoutLocalsTyped
    <3>2. \A row \in ProductRow, q \in Nat : [row EXCEPT !.stock = @ - q] \in ProductRow
      BY DEF ProductRow
    <3> QED
      BY <3>1, <3>2
  <2> HIDE DEF ent
  <2>3. /\ DOMAIN u = CheckoutLocalNames
        /\ u.i = t.i /\ u.prod = [t.prod EXCEPT ![it.product] = ent] /\ u.cust = t.cust
        /\ u.left = t.left /\ u.moves = t.moves /\ u.pay = t.pay /\ u.list = NoList
        /\ u.req = t.req
    BY <1>1 DEF CheckoutLocalsTyped, CheckoutLocalNames
  <2>4. u.prod \in [Products -> ProductRow] /\ DOMAIN u.list = {}
    BY <1>1, <2>2, <2>3 DEF CheckoutLocalsTyped, NoList
  <2>5. CheckoutLocalsTyped("takeBatch", u)
    BY <1>1, <2>1, <2>3, <2>4 DEF CheckoutLocalsTyped
  <2> HIDE DEF u
  <2>6. CASE /\ t.i < Len(t.req.items)
             /\ Goto(w, "select", Saving("product", it.product, ent, "findBatches", v))
    <3>1. Len(u.req.items) \in Nat /\ u.i \in Nat
      BY <2>5 DEF CheckoutLocalsTyped, SaleForm
    <3>2. /\ DOMAIN v = CheckoutLocalNames
          /\ v.i = t.i + 1 /\ v.prod = u.prod /\ v.cust = u.cust /\ v.left = u.left
          /\ v.moves = u.moves /\ v.pay = u.pay /\ v.list = u.list /\ v.req = u.req
      BY <2>3 DEF CheckoutLocalNames
    <3> HIDE DEF v
    <3>3. v.i \in Nat \ {0} /\ v.i <= Len(v.req.items)
      BY <2>3, <2>6, <3>1, <3>2
    <3>4. CheckoutLocalsTyped("takeBatch", v)
      BY <2>5, <3>2, <3>3 DEF CheckoutLocalsTyped
    <3>5. CheckoutLocalsTyped("select", Saving("product", it.product, ent, "findBatches", v))
      BY <2>2, <3>4, SavingTyped DEF AfterInsert
    <3> QED
      BY <2>1, <2>6, <3>5, GotoKeepsOrder DEF HasSale, WithSale, AfterInsert, CheckoutStatements
  <2>7. CASE Goto(w, "select", Saving("product", it.product, ent, "chargeCustomer", u))
    <3>1. CheckoutLocalsTyped("select", Saving("product", it.product, ent, "chargeCustomer", u))
      BY <2>2, <2>5, SavingTyped DEF AfterInsert
    <3> QED
      BY <2>1, <2>7, <3>1, GotoKeepsOrder DEF HasSale, WithSale, AfterInsert, CheckoutStatements
  <2> QED
    BY <1>2, <2>6, <2>7 DEF DeductProduct, Save, u, ent
<1>3. ASSUME ChargeCustomer(w) PROVE CheckoutsOrdered'
  <2> DEFINE c == t.req.customer
             ent == [t.cust EXCEPT !.balance = @ + t.req.credit]
  <2>1. pc[w] = "chargeCustomer" /\ UNCHANGED <<tables, today, served, num>>
    BY <1>3 DEF ChargeCustomer
  <2>2. CASE c # NoCustomer /\ Goto(w, "select", Saving("customer", c, ent, "commit", t))
    <3>1. c \in Customers /\ t.req.credit \in Nat /\ t.cust \in CustomerRow
      BY <1>1, <2>1, <2>2 DEF CheckoutLocalsTyped, SaleForm
    <3>2. ent \in CustomerRow
      BY <3>1 DEF CustomerRow
    <3> HIDE DEF ent
    <3>3. CheckoutLocalsTyped("select", Saving("customer", c, ent, "commit", t))
      BY <1>1, <2>1, <3>1, <3>2, SavingTyped DEF AfterInsert
    <3> QED
      BY <2>1, <2>2, <3>3, GotoKeepsOrder DEF HasSale, WithSale, AfterInsert, CheckoutStatements
  <2>3. CASE Goto(w, "commit", t)
    <3>1. CheckoutLocalsTyped("commit", t)
      BY <1>1, <2>1 DEF CheckoutLocalsTyped
    <3> QED
      BY <2>1, <2>3, <3>1, GotoKeepsOrder DEF HasSale, WithSale, AfterInsert, CheckoutStatements
  <2> QED
    BY <1>3, <2>2, <2>3 DEF ChargeCustomer, Save
<1>4. ASSUME SaveSelect(w) PROVE CheckoutsOrdered'
  <2> DEFINE cols == Changed(t.ent, Seen(RowOf(t), w)) \cup Details(t.req)
  <2>1. pc[w] = "select" /\ UNCHANGED <<tables, today, served, num>>
    BY <1>4 DEF SaveSelect
  <2>2. CheckoutLocalsTyped("select", t) /\ CheckoutSaveTyped(t) /\ t.then \in AfterInsert
    BY <1>1, <2>1 DEF CheckoutLocalsTyped, CheckoutSaveTyped
  <2> HIDE DEF cols
  <2>3. CASE Goto(w, t.then, Saved(t))
    <3>1. CheckoutLocalsTyped(t.then, Saved(t))
      BY <2>2 DEF CheckoutLocalsTyped, Saved, CheckoutLocalNames, AfterInsert
    <3> QED
      BY <2>1, <2>2, <2>3, <3>1, GotoKeepsOrder DEF HasSale, WithSale, AfterInsert, CheckoutStatements
  <2>4. CASE Goto(w, "update", [t EXCEPT !.cols = cols])
    <3>1. CheckoutLocalsTyped("update", [t EXCEPT !.cols = cols])
      BY <2>2 DEF CheckoutLocalsTyped, CheckoutSaveTyped, CheckoutLocalNames
    <3> QED
      BY <2>1, <2>4, <3>1, GotoKeepsOrder DEF HasSale, WithSale, CheckoutStatements
  <2> QED
    BY <1>4, <2>3, <2>4 DEF SaveSelect, cols
<1> QED
  BY <1>2, <1>3, <1>4

-----------------------------------------------------------------------------
(* The theorems                                                            *)

\* The invariant holds at the start.
LEMMA InitOrdered == Init => CheckoutsOrdered
<1> SUFFICES ASSUME Init PROVE CheckoutsOrdered
  OBVIOUS
<1>1. \A b \in BatchIds : OpeningBatch(b) \in BatchRow
  BY TablesAssumption DEF BatchIds, OpeningBatch, BatchRow, NoBatch
<1>2. TypeOK
  <2>1. NoSale \in SaleRow
    BY DEF NoSale, SaleRow
  <2> QED
    BY <1>1, <2>1, TablesAssumption
    DEF Init, TypeOK, Stored, Versions, ProductRow, CustomerRow, BatchRow
<1>3. WorkersTyped
  BY CheckoutNoLocalsTyped DEF Init, WorkersTyped, CheckoutStatements
<1>4. \A w \in Workers : ~HasSale(w)
  BY DEF Init, HasSale, WithSale, AfterInsert
<1>5. OpenSaleOwned /\ LocksHeldBySales
  BY DEF Init, OpenSaleOwned, LocksHeldBySales, Stored
<1>6. NumberHeld /\ CheckoutNumbersFollow
  BY <1>4, NoNumberIsNoSale DEF Init, NumberHeld, CheckoutNumbersFollow
<1>7. GapFreeNumbers
  BY DEF Init, GapFreeNumbers, Taken, Stored, NoSale, SaleIds
<1> QED
  BY <1>2, <1>3, <1>5, <1>6, <1>7 DEF CheckoutsOrdered

\* Every step keeps the invariant.
LEMMA NextKeepsOrder == CheckoutsOrdered /\ [CheckoutNext]_vars => CheckoutsOrdered'
<1> SUFFICES ASSUME CheckoutsOrdered, [CheckoutNext]_vars PROVE CheckoutsOrdered'
  OBVIOUS
<1>1. ASSUME NEW w \in Workers, NEW r \in SaleRequests, Begin(w, r) PROVE CheckoutsOrdered'
  BY <1>1, BeginKeepsOrder
<1>2. ASSUME NEW w \in Workers, Create(w) PROVE CheckoutsOrdered'
  <2>1. CASE FindCustomer(w) \/ CheckStock(w) \/ FindBatches(w)
    BY <2>1, ReadsKeepOrder
  <2>2. CASE GenerateSaleNumber(w)
    BY <2>2, GenerateSaleNumberKeepsOrder
  <2>3. CASE InsertSale(w)
    BY <2>3, InsertSaleKeepsOrder
  <2>4. CASE TakeBatch(w)
    BY <2>4, TakeBatchKeepsOrder
  <2>5. CASE ShortOfBatches(w)
    BY <2>5, AbortKeepsOrder DEF ShortOfBatches
  <2>6. CASE DeductProduct(w) \/ ChargeCustomer(w)
    BY <2>6, SavesKeepOrder
  <2> QED
    BY <1>2, <2>1, <2>2, <2>3, <2>4, <2>5, <2>6 DEF Create
<1>3. ASSUME NEW w \in Workers, CheckoutStep(w) PROVE CheckoutsOrdered'
  BY <1>2, <1>3, SavesKeepOrder, SaveUpdateKeepsOrder, CommitKeepsOrder, AbortKeepsOrder
  DEF CheckoutStep, DeadlockVictim
<1>4. ASSUME NEW w \in Workers, Disconnect(w) PROVE CheckoutsOrdered'
  BY <1>4, AbortKeepsOrder DEF Disconnect
<1>5. CASE UNCHANGED vars
  BY <1>5 DEF vars, CheckoutsOrdered, TypeOK, WorkersTyped, OpenSaleOwned, NumberHeld,
              CheckoutNumbersFollow, LocksHeldBySales, GapFreeNumbers, HasSale, Taken
<1> QED
  BY <1>1, <1>3, <1>4, <1>5, MidnightKeepsOrder DEF CheckoutNext, CheckoutClosed

\* In every behaviour of any number of tills, the checkouts keep the types of the
\* tables and of their own variables and hold sale numbers in order.
THEOREM CheckoutInvariance == CheckoutSpec => []CheckoutsOrdered
  BY InitOrdered, NextKeepsOrder, PTL DEF CheckoutSpec

\* The tables keep their types: no batch quantity below zero is ever stored.
THEOREM CheckoutTypes == CheckoutSpec => []TypeOK
<1>1. CheckoutsOrdered => TypeOK
  BY DEF CheckoutsOrdered
<1> QED
  BY <1>1, CheckoutInvariance, PTL

\* However many checkouts overlap, fail or lose their connection, the sale numbers
\* of a day have no gaps (sales.service.ts:368-395).
THEOREM CheckoutNumbering == CheckoutSpec => []GapFreeNumbers
<1>1. CheckoutsOrdered => GapFreeNumbers
  BY DEF CheckoutsOrdered
<1> QED
  BY <1>1, CheckoutInvariance, PTL

\* At most one uncommitted sale per day follows from the order of the numbers.
LEMMA OrderExcludes == CheckoutsOrdered => OneOpenSale
<1>1. SUFFICES ASSUME CheckoutsOrdered, NEW s1 \in SaleIds, NEW s2 \in SaleIds,
                      s1[1] = s2[1], sale[s1].xid # NoTx, sale[s2].xid # NoTx,
                      s1[2] < s2[2]
               PROVE  FALSE
  BY SmallerNumbers DEF OneOpenSale
<1>2. sale[s2].xid \in Workers /\ num[sale[s2].xid] = s2 /\ sale[s1].cur.status = "none"
  BY <1>1 DEF CheckoutsOrdered, OpenSaleOwned, TypeOK, Versions
<1>3. s1[2] \in 1 .. s2[2] - 1 /\ s1 = <<s2[1], s1[2]>>
  BY <1>1, SmallerNumbers
<1>4. Taken(<<s2[1], s1[2]>>)
  BY <1>1, <1>2, <1>3 DEF CheckoutsOrdered, CheckoutNumbersFollow
<1> QED
  BY <1>2, <1>3, <1>4 DEF Taken

\* Two uncommitted sales of one day are the same sale, so no two checkouts of a
\* day are ever in the batch section together (sales.service.ts:135-223).
THEOREM CheckoutExclusion == CheckoutSpec => []OneOpenSale
  BY OrderExcludes, CheckoutInvariance, PTL

\* Whoever waits for a row waits for another worker that holds a sale number.
LEMMA WaitsForSale ==
    ASSUME CheckoutsOrdered, NEW u \in Workers, WaitsFor(u) \in Workers
    PROVE  /\ HasSale(WaitsFor(u)) /\ WaitsFor(u) # u
           /\ HasSale(u) => pc[u] = "update"
<1> USE DEF CheckoutsOrdered
<1>1. CASE pc[u] = "update" /\ ~Writable(RowOf(tx[u]), u)
  <2>1. CheckoutSaveTyped(tx[u])
    BY <1>1 DEF WorkersTyped, CheckoutLocalsTyped
  <2>2. WaitsFor(u) = RowOf(tx[u]).xid /\ RowOf(tx[u]).xid \notin {NoTx, u}
    BY <1>1 DEF WaitsFor, Writable
  <2>3. HasSale(RowOf(tx[u]).xid)
    BY <2>1, <2>2 DEF CheckoutSaveTyped, RowOf, LocksHeldBySales
  <2> QED
    BY <1>1, <2>2, <2>3
<1>2. CASE ~(pc[u] = "update" /\ ~Writable(RowOf(tx[u]), u))
  <2>1. pc[u] = "insertSale" /\ ~Writable(sale[num[u]], u) /\ WaitsFor(u) = sale[num[u]].xid
    BY <1>2, TablesAssumption DEF WaitsFor
  <2>2. num[u] \in SaleIds /\ sale[num[u]].xid \notin {NoTx, u}
    BY <2>1 DEF NumberHeld, Writable
  <2> QED
    BY <2>1, <2>2 DEF OpenSaleOwned, HasSale, WithSale, AfterInsert
<1> QED
  BY <1>1, <1>2

\* Within a day no checkouts deadlock, whatever order their carts lock products
\* and batches in (sales.service.ts:157-224): all of them wait for the one that
\* holds the sale number, and that one waits for nobody.
THEOREM CheckoutNoDeadlock ==
    ASSUME LastDay = 1
    PROVE  CheckoutSpec => []NoDeadlock
<1>1. CheckoutsOrdered => NoDeadlock
  <2>1. SUFFICES ASSUME CheckoutsOrdered, NEW w \in Workers, NEW S \in SUBSET Workers,
                        w \in S, {WaitsFor(u) : u \in S} = S
                 PROVE  FALSE
    BY DEF NoDeadlock, Deadlocked
  <2> DEFINE x == WaitsFor(w)
             y == WaitsFor(x)
  <2>2. x \in Workers /\ y \in Workers
    BY <2>1
  <2>3. HasSale(x) /\ HasSale(y) /\ y # x
    BY <2>1, <2>2, WaitsForSale
  <2>4. /\ num[x] \in SaleIds /\ sale[num[x]].xid = x
        /\ num[y] \in SaleIds /\ sale[num[y]].xid = y
    BY <2>1, <2>2, <2>3 DEF CheckoutsOrdered, NumberHeld
  <2>5. num[x][1] = num[y][1]
    BY <2>4, SmallerNumbers
  <2>6. num[x] = num[y]
    BY <2>1, <2>2, <2>4, <2>5, OrderExcludes, TablesAssumption DEF OneOpenSale
  <2> QED
    BY <2>3, <2>4, <2>6
<1> QED
  BY <1>1, CheckoutInvariance, PTL

-----------------------------------------------------------------------------
(* What is known                                                           *)

\* No step takes a sale back: its lines and its credit stay, and void stays void.
SalesKept ==
    \A s \in SaleIds : Taken(s) =>
        /\ Taken(s)'
        /\ SameSale(sale[s].cur, sale'[s].cur)
        /\ sale[s].cur.status = "void" => sale'[s].cur.status = "void"

\* What a handler knows stays true while the others work.
LEMMA KnowledgeStays ==
    ASSUME NEW l, NEW t, Knows(l, t), SalesKept
    PROVE  Knows(l, t)'
<1>1. ASSUME SaveTyped(t) PROVE SaveTyped(t)'
  <2>1. t.req \in VoidForm => t.req.sale \in SaleIds
    BY DEF VoidForm
  <2> QED
    BY <1>1, <2>1 DEF SaveTyped, SalesKept, SameSale
<1>2. At(l, t) \in Restocking => t.req.sale \in SaleIds
  BY DEF Knows, VoidForm, Voiding
<1> QED
  BY <1>1, <1>2 DEF Knows, SalesKept, SameSale

\* A handler that has not started.
LEMMA NoLocalsTyped == LocalsTyped(NoLocals)
<1>1. NoSale \in SaleRow /\ DOMAIN NoSale.lines = {}
  BY DEF NoSale, SaleRow
<1> QED
  BY <1>1 DEF LocalsTyped, NoLocals, LocalNames, NoProduct, NoAccount, NoList, NoMoves, NoBatch,
         ProductRow, CustomerRow

LEMMA IdleKnows == Knows("idle", NoLocals) /\ NumberFits("idle", NoLocals, NoNumber)
<1>1. At("idle", NoLocals) = "idle"
  BY DEF At, Saves
<1> QED
  BY <1>1, NoLocalsTyped
  DEF Knows, NumberFits, Numberless, Statements, Saves, Selling, Voiding, Restocking, Adjusting, Editing,
      BeforeNumber, BatchSection

-----------------------------------------------------------------------------
(* From one statement to the next                                          *)

\* A checkout goes on with other variables.
LEMMA SellingGoesOn ==
    ASSUME NEW l, NEW t, Knows(l, t), l # "idle", At(l, t) \in Selling,
           NEW m \in Selling \cup {"commit"}, NEW u, LocalsTyped(u), u.req = t.req,
           u.i <= Len(u.req.items)
    PROVE  Knows(m, u)
<1>1. At(m, u) = m /\ m \notin Saves /\ m # "idle"
  BY DEF At, Saves, Selling, BeforeNumber, BatchSection
<1> QED
  BY <1>1 DEF Knows, Statements, Selling, BeforeNumber, BatchSection, Voiding, Restocking, Adjusting,
              Editing, Saves

\* A void goes on with the sale it read.
LEMMA VoidingGoesOn ==
    ASSUME NEW l, NEW t, Knows(l, t), l # "idle", At(l, t) \in Voiding,
           NEW m \in Restocking \cup {"commit"}, NEW u, LocalsTyped(u), u.req = t.req,
           Taken(u.req.sale), SameSale(u.sold, sale[u.req.sale].cur),
           m = "restockBatch" => u.i \in DOMAIN u.sold.lines
    PROVE  Knows(m, u)
<1>1. At(m, u) = m /\ m \notin Saves /\ m # "idle"
  BY DEF At, Saves, Restocking
<1> QED
  BY <1>1 DEF Knows, Statements, Selling, BeforeNumber, BatchSection, Voiding, Restocking, Adjusting,
              Editing, Saves

\* So do the others, each one in its own statements.
LEMMA OthersGoOn ==
    ASSUME NEW l, NEW t, Knows(l, t), l # "idle", NEW m, NEW u, LocalsTyped(u), u.req = t.req,
           \/ At(l, t) \in Adjusting /\ m \in Adjusting
           \/ At(l, t) \in Editing /\ m \in Editing
           \/ At(l, t) \in {"findAccount", "deactivateCustomer"} /\ m = "deactivateCustomer"
           \/ u.req \in LimitForm /\ m = "editCustomer"
           \/ At(l, t) \in {"findDebtor", "insertPayment"} /\ m = "insertPayment"
           \/ m = "commit"
    PROVE  Knows(m, u)
<1>1. At(m, u) = m /\ m \notin Saves /\ m # "idle"
  BY DEF At, Saves, Adjusting, Editing
<1> QED
  BY <1>1 DEF Knows, Statements, Selling, BeforeNumber, BatchSection, Voiding, Restocking, Adjusting,
              Editing, Saves, Accounting

\* The locals of a save that fits its table, on the way to a statement.
LEMMA SavingKnows ==
    ASSUME NEW l \in AfterSave, NEW t, Knows(l, t), NEW n, NumberFits(l, t, n),
           NEW tbl, NEW key, NEW ent,
           \/ tbl = "product" /\ key \in Products /\ ent \in ProductRow
           \/ tbl = "batch" /\ key \in BatchIds /\ ent \in BatchRow
           \/ tbl = "customer" /\ key \in Customers /\ ent \in CustomerRow
           \/ /\ tbl = "sale" /\ ent \in SaleRow /\ ent.status = "void" /\ l = "commit"
              /\ t.req \in VoidForm /\ key = t.req.sale /\ n = NoNumber
              /\ Taken(key) /\ SameSale(ent, sale[key].cur)
    PROVE  /\ Knows("select", Saving(tbl, key, ent, l, t))
           /\ NumberFits("select", Saving(tbl, key, ent, l, t), n)
<1> DEFINE u == Saving(tbl, key, ent, l, t)
<1>1. LocalsTyped(t)
  BY DEF Knows
<1>2. /\ DOMAIN u = LocalNames
      /\ u.i = t.i /\ u.prod = t.prod /\ u.cust = t.cust /\ u.left = t.left
      /\ u.moves = t.moves /\ u.pay = t.pay /\ u.list = t.list /\ u.req = t.req
      /\ u.sold = t.sold /\ u.todo = t.todo
      /\ u.tbl = tbl /\ u.key = key /\ u.ent = ent /\ u.then = l
  BY <1>1 DEF Saving, LocalsTyped, LocalNames
<1> HIDE DEF u
<1>3. LocalsTyped(u)
  BY <1>1, <1>2 DEF LocalsTyped
<1>4. SaveTyped(u)
  BY <1>2 DEF SaveTyped
<1>5. l \notin Saves /\ l # "idle" /\ At(l, t) = l /\ At("select", u) = l
  BY <1>2 DEF At, AfterSave, Saves
<1>6. Knows("select", u)
  BY <1>2, <1>3, <1>4, <1>5 DEF Knows, Statements, Saves
<1>7. NumberFits("select", u, n)
  BY <1>2, <1>5 DEF NumberFits, Numberless, AfterSave, BeforeNumber, Voiding, Restocking, BatchSection
<1> QED
  BY <1>6, <1>7 DEF u

-----------------------------------------------------------------------------
(* Steps that every handler shares                                         *)

\* When no number is given up, all smaller numbers of a given one stay taken, and
\* the numbers of a day stay without gaps.
LEMMA NumbersKept ==
    ASSUME StoreSound, SalesKept
    PROVE  /\ (\A w \in Workers : num'[w] \in SaleIds => num'[w] = num[w]) => NumbersFollow'
           /\ (\A s \in SaleIds : Taken(s)' => Taken(s)) => GapFreeNumbers'
<1>1. ASSUME \A w \in Workers : num'[w] \in SaleIds => num'[w] = num[w]
      PROVE  NumbersFollow'
  <2>1. SUFFICES ASSUME NEW w \in Workers, (num[w] \in SaleIds)',
                        NEW m \in (1 .. num[w][2] - 1)'
                 PROVE  Taken(<<num[w][1], m>>)'
    BY DEF NumbersFollow
  <2>2. num'[w] = num[w] /\ num[w] \in SaleIds
    BY <1>1, <2>1
  <2>3. <<num[w][1], m>> \in SaleIds /\ Taken(<<num[w][1], m>>)
    BY <2>1, <2>2, SmallerNumbers DEF StoreSound, NumbersFollow
  <2> QED
    BY <2>2, <2>3 DEF Taken, SalesKept
<1>2. ASSUME \A s \in SaleIds : Taken(s)' => Taken(s) PROVE GapFreeNumbers'
  <2>1. SUFFICES ASSUME NEW d \in 1 .. LastDay, NEW n \in 1 .. MaxSales, Taken(<<d, n>>)',
                        NEW m \in 1 .. n - 1
                 PROVE  Taken(<<d, m>>)'
    BY DEF GapFreeNumbers
  <2>2. <<d, n>> \in SaleIds /\ <<d, m>> \in SaleIds
    BY TablesAssumption DEF SaleIds
  <2> QED
    BY <1>2, <2>1, <2>2 DEF StoreSound, GapFreeNumbers, SalesKept
<1> QED
  BY <1>1, <1>2

\* One handler goes on while no sale is taken back and no open sale of another
\* worker changes.
LEMMA OneGoesOn ==
    ASSUME StoreSound, NEW w \in Workers, NEW l, NEW t, Goto(w, l, t), Knows(l, t)',
           TypeOK', \A v \in Workers \ {w} : num'[v] = num[v], NumberFits(l, t, num'[w]),
           SalesKept, (\A s \in SaleIds : Taken(s)' => Taken(s)) \/ GapFreeNumbers',
           \A s \in SaleIds : sale'[s] # sale[s] => sale[s].xid \in {NoTx, w} /\ sale'[s].xid \in {NoTx, w},
           \A s \in SaleIds : sale'[s].xid = w => (Inserted(s) \/ Marked(s))',
           num'[w] \in SaleIds /\ l # "insertSale" => sale'[num'[w]].xid = w,
           num'[w] \in SaleIds => \A m \in 1 .. num'[w][2] - 1 : Taken(<<num'[w][1], m>>)
    PROVE  StoreSound'
<1>1. SalesKept
  OBVIOUS
<1>2. GapFreeNumbers'
  <2>1. (\A s \in SaleIds : Taken(s)' => Taken(s)) => GapFreeNumbers'
    BY <1>1, NumbersKept
  <2> QED
    BY <2>1
<1> USE DEF StoreSound
<1>3. \A s \in SaleIds : /\ Taken(s) => Taken(s)'
                         /\ sale'[s] = sale[s] => (Taken(s)' <=> Taken(s))
  BY DEF Taken, SalesKept
<1>4. /\ pc'[w] = l /\ tx'[w] = t
      /\ \A v \in Workers \ {w} : pc'[v] = pc[v] /\ tx'[v] = tx[v]
      /\ DOMAIN tx' = Workers /\ pc' \in [Workers -> Statements]
  BY DEF HandlersKnow, Goto, Knows
<1>5. HandlersKnow'
  <2>1. \A v \in Workers \ {w} : Knows(pc[v], tx[v])'
    <3>1. SUFFICES ASSUME NEW v \in Workers \ {w} PROVE Knows(pc[v], tx[v])'
      OBVIOUS
    <3>2. PICK k, u : k = pc[v] /\ u = tx[v] /\ Knows(k, u)
      BY DEF HandlersKnow
    <3>3. Knows(k, u)'
      BY <1>1, <3>2, KnowledgeStays
    <3>4. pc'[v] = k /\ tx'[v] = u
      BY <1>4, <3>2
    <3> QED
      BY <3>3, <3>4 DEF Knows, LocalsTyped, SaveTyped, At, Taken
  <2>2. Knows(pc[w], tx[w])'
    BY <1>4 DEF Knows, LocalsTyped, SaveTyped, At, Taken
  <2> QED
    BY <1>4, <2>1, <2>2 DEF HandlersKnow
<1>6. \A v \in Workers \ {w}, s \in SaleIds : sale'[s].xid = v <=> sale[s].xid = v
  BY TablesAssumption
<1>7. NumbersHeld'
  <2>1. ASSUME NEW v \in Workers PROVE NumberFits(pc[v], tx[v], num[v])'
    BY <1>4 DEF NumbersHeld, NumberFits, Numberless, At
  <2>2. ASSUME NEW v \in Workers \ {w}, Holds(v)' PROVE sale'[num'[v]].xid = v
    BY <1>4, <1>6, <2>2 DEF NumbersHeld, Holds
  <2>3. ASSUME Holds(w)' PROVE sale'[num'[w]].xid = w
    BY <1>4, <2>3 DEF Holds
  <2> QED
    BY <2>1, <2>2, <2>3 DEF NumbersHeld
<1>8. OpenSalesOwned'
  <2>1. SUFFICES ASSUME NEW s \in SaleIds, sale'[s].xid # NoTx, sale'[s].xid # w
                 PROVE  (Inserted(s) \/ Marked(s))'
    BY DEF OpenSalesOwned
  <2>2. sale'[s] = sale[s] /\ sale[s].xid \in Workers \ {w}
    BY <2>1 DEF TypeOK, Versions
  <2>3. Inserted(s) \/ Marked(s)
    BY <2>1, <2>2 DEF OpenSalesOwned
  <2>4. Taken(s)' <=> Taken(s)
    BY <1>3, <2>2 DEF Taken
  <2>5. LET v == sale[s].xid IN pc'[v] = pc[v] /\ num'[v] = num[v] /\ sale'[s].xid = v
    BY <1>4, <2>2
  <2> QED
    BY <2>2, <2>3, <2>4, <2>5 DEF Inserted, Marked, Holds
<1>9. NumbersFollow'
  <2>1. SUFFICES ASSUME NEW v \in Workers, num'[v] \in SaleIds, NEW m \in 1 .. num'[v][2] - 1
                 PROVE  Taken(<<num[v][1], m>>)'
    BY DEF NumbersFollow
  <2>2. PICK s : s = <<num'[v][1], m>>
    OBVIOUS
  <2>3. s \in SaleIds
    BY <2>1, <2>2, SmallerNumbers
  <2>4. Taken(s)
    <3>1. CASE v = w
      BY <2>1, <2>2, <3>1
    <3>2. CASE v # w
      <4>1. num'[v] = num[v]
        BY <3>2
      <4> QED
        BY <2>1, <2>2, <4>1 DEF NumbersFollow
    <3> QED
      BY <3>1, <3>2
  <2>5. Taken(s)'
    BY <1>1, <2>3, <2>4 DEF SalesKept, Taken
  <2> QED
    BY <2>2, <2>5 DEF Taken
<1> QED
  BY <1>5, <1>7, <1>8, <1>9, <1>2

\* A step from statement to statement that leaves the sales alone.
LEMMA SalesUntouched ==
    ASSUME StoreSound, NEW w \in Workers, NEW l, NEW t, Goto(w, l, t), Knows(l, t),
           UNCHANGED <<sale, num>>, TypeOK',
           NumberFits(l, t, num[w]), l # "insertSale", pc[w] \notin {"insertSale", "commit"}
    PROVE  StoreSound' /\ SalesKept
<1>1. Knows(l, t)'
  BY DEF Knows, LocalsTyped, SaveTyped, At, Taken
<1>2. num'[w] \in SaleIds => Holds(w) /\ sale[num[w]].xid = w
  BY DEF StoreSound, NumbersHeld, Holds
<1>3. ASSUME NEW s \in SaleIds, sale[s].xid = w PROVE (Inserted(s) \/ Marked(s))'
  <2>1. Inserted(s)
    BY <1>3, TablesAssumption DEF StoreSound, OpenSalesOwned, Marked
  <2>2. pc'[w] = l
    BY DEF Goto, StoreSound, HandlersKnow
  <2> QED
    BY <1>3, <2>1, <2>2 DEF Inserted, Holds, Taken
<1>4. SalesKept /\ \A s \in SaleIds : Taken(s)' <=> Taken(s)
  BY DEF SalesKept, SameSale, Taken
<1> QED
  BY <1>1, <1>2, <1>3, <1>4, OneGoesOn DEF StoreSound, NumbersFollow

\* A step from statement to statement that leaves the tables alone.
LEMMA ReadKeepsStore ==
    ASSUME StoreSound, NEW w \in Workers, NEW l, NEW t, Goto(w, l, t), Knows(l, t),
           UNCHANGED <<tables, today, served, num>>,
           NumberFits(l, t, num[w]), l # "insertSale", pc[w] \notin {"insertSale", "commit"}
    PROVE  StoreSound' /\ SalesKept
<1>1. TypeOK'
  BY DEF StoreSound, TypeOK, tables
<1> QED
  BY <1>1, SalesUntouched DEF tables

-----------------------------------------------------------------------------
(* Taking and leaving requests, and the first half of a save               *)

\* The end of a transaction that is rolled back.
LEMMA AbortKeepsStore ==
    ASSUME StoreSound, NEW w \in Workers, Abort(w)
    PROVE  StoreSound' /\ SalesKept
<1> USE DEF Abort, Leave
<1>1. TypeOK'
  <2>1. num' \in [Workers -> SaleIds \cup {NoNumber}]
    BY DEF StoreSound, TypeOK
  <2> QED
    BY <2>1, EndTyped DEF StoreSound, TypeOK
<1>2. \A s \in SaleIds : /\ sale[s].xid # w => sale'[s] = sale[s]
                         /\ sale[s].xid = w => sale'[s].xid = NoTx
                         /\ sale'[s].cur = sale[s].cur
  BY DEF RollbackTable, RollbackRow, Stored, StoreSound, TypeOK
<1>3. SalesKept /\ \A s \in SaleIds : Taken(s)' <=> Taken(s)
  BY <1>2 DEF SalesKept, SameSale, Taken
<1>4. num'[w] = NoNumber /\ \A v \in Workers \ {w} : num'[v] = num[v]
  BY DEF StoreSound, TypeOK
<1>5. Knows("idle", NoLocals)'
  BY <1>3, IdleKnows, KnowledgeStays
<1>6. NumberFits("idle", NoLocals, num'[w]) /\ num'[w] \notin SaleIds
  BY <1>4, IdleKnows, NoNumberIsNoSale
<1>7. \A s \in SaleIds : sale'[s].xid # w
  BY <1>2, TablesAssumption
<1>8. \A s \in SaleIds : sale'[s] # sale[s] => sale[s].xid \in {NoTx, w} /\ sale'[s].xid \in {NoTx, w}
  BY <1>2
<1> QED
  BY <1>1, <1>3, <1>4, <1>5, <1>6, <1>7, <1>8, OneGoesOn

\* The first statement of a request.
LEMMA EntryKnows ==
    ASSUME NEW r \in Requests
    PROVE  LET t == [NoLocals EXCEPT !.req = r] IN
           Knows(Entry(r), t) /\ NumberFits(Entry(r), t, NoNumber) /\ Entry(r) # "insertSale"
<1>1. PICK t : t = [NoLocals EXCEPT !.req = r]
  OBVIOUS
<1>2. LocalsTyped(t) /\ t.req = r /\ t.i = 1
  BY <1>1, NoLocalsTyped DEF LocalsTyped, NoLocals
<1>3. /\ r.kind = "sale" => r \in SaleForm /\ 1 <= Len(r.items)
      /\ r.kind = "void" => r \in VoidForm
      /\ r.kind \in {"stockIn", "stockOut"} => r \in StockForm
      /\ r.kind \in {"editProduct", "removeProduct"} => r \in ProductForm
      /\ r.kind = "editCustomer" => r \in LimitForm
      /\ r.kind = "deactivateCustomer" => r \in AccountForm
      /\ r.kind = "payment" => r \in PaymentForm
      /\ r.kind \in {"sale", "void", "stockIn", "stockOut", "editProduct", "removeProduct",
                     "editCustomer", "deactivateCustomer", "payment"}
  <2>1. r.kind = "sale" => r \in SaleForm /\ Len(r.items) \in Nat /\ Len(r.items) # 0
    BY RequestsAssumption DEF SaleForm
  <2> QED
    BY <2>1, FormsAssumption DEF SaleForm, VoidForm, StockForm, ProductForm, LimitForm, AccountForm, PaymentForm
<1>4. /\ r.kind = "sale" => Entry(r) = "findCustomer"
      /\ r.kind = "void" => Entry(r) = "findSale"
      /\ r.kind \in {"stockIn", "stockOut"} => Entry(r) = "findStock"
      /\ r.kind \in {"editProduct", "removeProduct"} => Entry(r) = "findProduct"
      /\ r.kind \in {"editCustomer", "deactivateCustomer"} => Entry(r) = "findAccount"
      /\ r.kind = "payment" => Entry(r) = "findDebtor"
  BY DEF Entry
<1>5. At(Entry(r), t) = Entry(r) /\ Entry(r) \notin Saves
  BY <1>3, <1>4 DEF At, Saves
<1>6. Knows(Entry(r), t) /\ NumberFits(Entry(r), t, NoNumber) /\ Entry(r) # "insertSale"
  BY <1>2, <1>3, <1>4, <1>5 DEF Knows, NumberFits, Numberless, Statements, Selling, BeforeNumber, BatchSection,
     Voiding, Restocking, Adjusting, Editing, Accounting, Saves
<1> QED
  BY <1>1, <1>6

\* A request is taken.
LEMMA BeginKeepsStore ==
    ASSUME StoreSound, NEW w \in Workers, NEW r \in Requests, Begin(w, r)
    PROVE  StoreSound' /\ SalesKept
<1> USE DEF tables
<1>1. PICK t : t = [NoLocals EXCEPT !.req = r]
  OBVIOUS
<1>2. /\ pc[w] = "idle" /\ Goto(w, Entry(r), t)
      /\ UNCHANGED <<tables, today, num>>
  BY <1>1 DEF Begin
<1>3. Knows(Entry(r), t) /\ NumberFits(Entry(r), t, NoNumber) /\ Entry(r) # "insertSale"
  BY <1>1, EntryKnows
<1>4. num[w] = NoNumber
  BY <1>2 DEF StoreSound, NumbersHeld, NumberFits, Numberless, At, Saves
<1>5. Knows(Entry(r), t)'
  BY <1>2, <1>3 DEF Knows, LocalsTyped, SaveTyped, At, Taken
<1>6. TypeOK'
  BY <1>2, TablesAssumption DEF Begin, StoreSound, TypeOK
<1>7. SalesKept /\ \A s \in SaleIds : Taken(s)' <=> Taken(s)
  BY <1>2 DEF SalesKept, SameSale, Taken
<1>8. \A s \in SaleIds : sale[s].xid # w
  BY <1>2, <1>4, NoNumberIsNoSale, TablesAssumption DEF StoreSound, OpenSalesOwned, Inserted, Marked, Holds
<1> QED
  BY <1>2, <1>3, <1>4, <1>5, <1>6, <1>7, <1>8, NoNumberIsNoSale, OneGoesOn DEF StoreSound

\* The clock passes midnight.
LEMMA MidnightKeepsStore ==
    ASSUME StoreSound, Midnight
    PROVE  StoreSound' /\ SalesKept
<1> USE DEF StoreSound, Midnight, tables
<1>1. TypeOK'
  BY TablesAssumption DEF TypeOK
<1>2. SalesKept
  BY DEF SalesKept, SameSale, Taken
<1>3. HandlersKnow'
  BY DEF HandlersKnow, Knows, LocalsTyped, SaveTyped, At, Taken
<1>4. NumbersHeld' /\ OpenSalesOwned'
  BY DEF NumbersHeld, NumberFits, Numberless, At, OpenSalesOwned, Inserted, Marked, Holds, Taken
<1>5. NumbersFollow' /\ GapFreeNumbers'
  BY <1>2, NumbersKept DEF Taken
<1> QED
  BY <1>1, <1>2, <1>3, <1>4, <1>5

\* A save begins; the entity fits its table.
LEMMA SaveKeepsStore ==
    ASSUME StoreSound, NEW w \in Workers, NEW l \in AfterSave, NEW t, Knows(l, t), NumberFits(l, t, num[w]),
           NEW tbl, NEW key, NEW ent, Save(w, tbl, key, ent, l, t),
           UNCHANGED <<tables, today, served, num>>, pc[w] \notin {"insertSale", "commit"},
           \/ tbl = "product" /\ key \in Products /\ ent \in ProductRow
           \/ tbl = "batch" /\ key \in BatchIds /\ ent \in BatchRow
           \/ tbl = "customer" /\ key \in Customers /\ ent \in CustomerRow
           \/ /\ tbl = "sale" /\ ent \in SaleRow /\ ent.status = "void" /\ l = "commit"
              /\ t.req \in VoidForm /\ key = t.req.sale /\ num[w] = NoNumber
              /\ Taken(key) /\ SameSale(ent, sale[key].cur)
    PROVE  StoreSound' /\ SalesKept
<1>1. PICK u : u = Saving(tbl, key, ent, l, t)
  OBVIOUS
<1>2. Knows("select", u) /\ NumberFits("select", u, num[w])
  BY <1>1, SavingKnows
<1>3. Goto(w, "select", u)
  BY <1>1 DEF Save
<1> QED
  BY <1>2, <1>3, ReadKeepsStore

\* The locals when a save is over: the handler is at its next statement.
LEMMA SavedKnows ==
    ASSUME NEW l \in Saves, NEW t, Knows(l, t), NEW n, NumberFits(l, t, n)
    PROVE  Knows(t.then, Saved(t)) /\ NumberFits(t.then, Saved(t), n) /\ t.then \notin {"insertSale", "idle"}
<1>1. PICK u : u = Saved(t)
  OBVIOUS
<1>2. LocalsTyped(t) /\ t.then \in AfterSave
  BY DEF Knows, SaveTyped
<1>3. /\ DOMAIN u = LocalNames
      /\ u.i = t.i /\ u.prod = t.prod /\ u.cust = t.cust /\ u.left = t.left
      /\ u.moves = t.moves /\ u.pay = t.pay /\ u.list = t.list /\ u.req = t.req
      /\ u.sold = t.sold /\ u.todo = t.todo
  BY <1>1, <1>2 DEF Saved, LocalsTyped, LocalNames
<1>4. LocalsTyped(u)
  BY <1>2, <1>3 DEF LocalsTyped
<1>5. At(l, t) = t.then /\ At(t.then, u) = t.then /\ t.then \notin Saves \cup {"insertSale", "idle"} /\ l # "idle"
  BY <1>2 DEF At, AfterSave, Saves
<1>6. Knows(t.then, u)
  BY <1>2, <1>3, <1>4, <1>5 DEF Knows, Statements, AfterSave, Selling, BatchSection, Voiding, Restocking, Adjusting
<1>7. NumberFits(t.then, u, n)
  BY <1>5 DEF NumberFits, Numberless
<1> QED
  BY <1>1, <1>5, <1>6, <1>7

LEMMA SaveSelectKeepsStore ==
    ASSUME StoreSound, NEW w \in Workers, SaveSelect(w)
    PROVE  StoreSound' /\ SalesKept
<1>1. PICK t : t = tx[w]
  OBVIOUS
<1>2. /\ pc[w] = "select" /\ Knows("select", t) /\ NumberFits("select", t, num[w])
      /\ UNCHANGED <<tables, today, served, num>>
  BY <1>1 DEF SaveSelect, StoreSound, HandlersKnow, NumbersHeld
<1>3. CASE Goto(w, t.then, Saved(t))
  BY <1>2, <1>3, SavedKnows, ReadKeepsStore DEF Saves
<1>4. ASSUME NEW cols, Goto(w, "update", [t EXCEPT !.cols = cols]) PROVE StoreSound' /\ SalesKept
  <2>1. PICK u : u = [t EXCEPT !.cols = cols]
    OBVIOUS
  <2>2. LocalsTyped(t) /\ SaveTyped(t)
    BY <1>2 DEF Knows, Saves
  <2>3. /\ DOMAIN u = LocalNames
        /\ u.i = t.i /\ u.prod = t.prod /\ u.cust = t.cust /\ u.left = t.left
        /\ u.moves = t.moves /\ u.pay = t.pay /\ u.list = t.list /\ u.req = t.req
        /\ u.sold = t.sold /\ u.todo = t.todo
        /\ u.tbl = t.tbl /\ u.key = t.key /\ u.ent = t.ent /\ u.then = t.then
    BY <2>1, <2>2 DEF LocalsTyped, LocalNames
  <2>4. LocalsTyped(u) /\ SaveTyped(u)
    BY <2>2, <2>3 DEF LocalsTyped, SaveTyped
  <2>5. At("update", u) = At("select", t)
    BY <2>3 DEF At, Saves
  <2>6. Knows("update", u) /\ NumberFits("update", u, num[w])
    BY <1>2, <2>3, <2>4, <2>5 DEF Knows, NumberFits, Numberless, Statements, Saves
  <2> QED
    BY <1>2, <1>4, <2>1, <2>6, ReadKeepsStore
<1> QED
  BY <1>1, <1>3, <1>4 DEF SaveSelect

-----------------------------------------------------------------------------
(* create                                                                  *)

\* Whether a handler has a number does not change with the statement.
LEMMA NumberGoesOn ==
    ASSUME NEW l, NEW t, NEW n, NumberFits(l, t, n), NEW m, m \notin Saves, NEW u,
           \/ m = "commit"
           \/ At(l, t) \in {"insertSale"} \cup BatchSection /\ m \in BatchSection
           \/ At(l, t) \in Numberless /\ m \in Numberless
    PROVE  NumberFits(m, u, n)
<1>1. At(m, u) = m
  BY DEF At
<1> QED
  BY <1>1 DEF NumberFits, Numberless, BatchSection, BeforeNumber, Voiding, Restocking, Adjusting, Editing, Accounting, Saves

\* The product and quantity of the item a checkout is at.
LEMMA ItemTyped ==
    ASSUME NEW r \in SaleForm, NEW i \in Nat \ {0}, i <= Len(r.items)
    PROVE  r.items[i].product \in Products /\ r.items[i].qty \in Nat \ {0}
<1>1. r.items \in Seq(CartItem) /\ i \in 1 .. Len(r.items)
  BY DEF SaleForm
<1>2. r.items[i] \in CartItem
  BY <1>1
<1> QED
  BY <1>2 DEF CartItem

\* The locals after a round of the batch loop.
LEMMA TookTyped ==
    ASSUME NEW t, LocalsTyped(t), NEW k, NEW b \in BatchIds, NEW d \in Nat, t.left - d \in Nat
    PROVE  LocalsTyped(Took(t, k, b, d)) /\ Took(t, k, b, d).req = t.req /\ Took(t, k, b, d).i = t.i
<1> DEFINE u == Took(t, k, b, d)
<1>1. /\ DOMAIN u = LocalNames
      /\ u.i = t.i /\ u.prod = t.prod /\ u.cust = t.cust /\ u.left = t.left - d
      /\ u.moves = [t.moves EXCEPT ![b] = @ - d]
      /\ u.pay = t.pay /\ u.list = Without(t.list, k) /\ u.req = t.req
      /\ u.sold = t.sold /\ u.todo = t.todo
  BY DEF Took, LocalsTyped, LocalNames
<1> HIDE DEF u
<1>2. u.moves \in [BatchIds -> Int]
  BY <1>1 DEF LocalsTyped
<1>3. DOMAIN u.list \subseteq Slots /\ \A j \in DOMAIN u.list : u.list[j] \in BatchRow
  BY <1>1 DEF LocalsTyped, Without
<1>4. LocalsTyped(u)
  BY <1>1, <1>2, <1>3 DEF LocalsTyped
<1> QED
  BY <1>1, <1>4 DEF u

\* The locals after a stock check.
LEMMA CheckedTyped ==
    ASSUME NEW t, LocalsTyped(t), NEW j \in Nat \ {0}, NEW q, NEW p \in ProductRow
    PROVE  /\ LocalsTyped(Checked(t, j, q, p))
           /\ Checked(t, j, q, p).req = t.req /\ Checked(t, j, q, p).i = j
<1> DEFINE u == Checked(t, j, q, p)
<1>1. [t.prod EXCEPT ![q] = p] \in [Products -> ProductRow]
  BY DEF LocalsTyped
<1>2. /\ DOMAIN u = LocalNames
      /\ u.i = j /\ u.prod = [t.prod EXCEPT ![q] = p] /\ u.cust = t.cust /\ u.left = t.left
      /\ u.moves = t.moves /\ u.pay = t.pay /\ u.list = t.list /\ u.req = t.req
      /\ u.sold = t.sold /\ u.todo = t.todo
  BY DEF Checked, LocalsTyped, LocalNames
<1> HIDE DEF u
<1>3. LocalsTyped(u)
  BY <1>1, <1>2 DEF LocalsTyped
<1> QED
  BY <1>2, <1>3 DEF u

\* What a product search for batches returns.
LEMMA OpenBatchesTyped ==
    ASSUME TypeOK, NEW p \in Products, NEW w \in Workers
    PROVE  /\ DOMAIN OpenBatches(p, w) \subseteq Slots
           /\ \A k \in DOMAIN OpenBatches(p, w) : OpenBatches(p, w)[k] \in BatchRow
  BY SeenTyped DEF OpenBatches, TypeOK, BatchIds

LEMMA FindCustomerKeepsStore ==
    ASSUME StoreSound, NEW w \in Workers, FindCustomer(w)
    PROVE  StoreSound' /\ SalesKept
<1>1. PICK t : t = tx[w]
  OBVIOUS
<1>2. /\ pc[w] = "findCustomer" /\ Knows("findCustomer", t) /\ NumberFits("findCustomer", t, num[w])
      /\ At("findCustomer", t) = "findCustomer"
  BY <1>1 DEF FindCustomer, StoreSound, HandlersKnow, NumbersHeld, At, Saves
<1>3. t.req \in SaleForm /\ t.i <= Len(t.req.items) /\ LocalsTyped(t)
  BY <1>2 DEF Knows, Selling, BeforeNumber
<1>4. CASE Abort(w)
  BY <1>4, AbortKeepsStore
<1>5. ASSUME NEW u, LocalsTyped(u), u.req = t.req, u.i = t.i,
             Goto(w, "checkStock", u), UNCHANGED <<tables, today, served, num>>
      PROVE  StoreSound' /\ SalesKept
  <2>1. Knows("checkStock", u)
    BY <1>2, <1>3, <1>5, SellingGoesOn DEF Selling, BeforeNumber
  <2>2. NumberFits("checkStock", u, num[w])
    BY <1>2, NumberGoesOn DEF Numberless, BeforeNumber, Saves
  <2> QED
    BY <1>2, <1>5, <2>1, <2>2, ReadKeepsStore
<1>6. ASSUME t.req.customer # NoCustomer, NEW c, c = Seen(customer[t.req.customer], w)
      PROVE  LET u == [t EXCEPT !.cust = c] IN LocalsTyped(u) /\ u.req = t.req /\ u.i = t.i
  <2>1. c \in CustomerRow
    BY <1>3, <1>6, SeenTyped DEF SaleForm, StoreSound, TypeOK
  <2> QED
    BY <1>3, <2>1 DEF LocalsTyped, LocalNames
<1> QED
  BY <1>1, <1>3, <1>4, <1>5, <1>6 DEF FindCustomer

LEMMA CheckStockKeepsStore ==
    ASSUME StoreSound, NEW w \in Workers, CheckStock(w)
    PROVE  StoreSound' /\ SalesKept
<1>1. PICK t : t = tx[w]
  OBVIOUS
<1>2. /\ pc[w] = "checkStock" /\ Knows("checkStock", t) /\ NumberFits("checkStock", t, num[w])
      /\ At("checkStock", t) = "checkStock"
  BY <1>1 DEF CheckStock, StoreSound, HandlersKnow, NumbersHeld, At, Saves
<1>3. /\ t.req \in SaleForm /\ t.i <= Len(t.req.items) /\ LocalsTyped(t)
      /\ t.i \in Nat \ {0} /\ Len(t.req.items) \in Nat
  BY <1>2 DEF Knows, Selling, BeforeNumber, LocalsTyped, SaleForm
<1>4. PICK q, p : q = t.req.items[t.i].product /\ p = Seen(product[q], w)
  OBVIOUS
<1>5. p \in ProductRow
  BY <1>3, <1>4, ItemTyped, SeenTyped DEF StoreSound, TypeOK
<1>6. CASE Abort(w)
  BY <1>6, AbortKeepsStore
<1>7. ASSUME NEW m \in {"checkStock", "generateSaleNumber"}, NEW j \in Nat \ {0}, j <= Len(t.req.items),
             Goto(w, m, Checked(t, j, q, p)), UNCHANGED <<tables, today, served, num>>
      PROVE  StoreSound' /\ SalesKept
  <2>1. PICK u : u = Checked(t, j, q, p)
    OBVIOUS
  <2>2. LocalsTyped(u) /\ u.req = t.req /\ u.i = j
    BY <1>3, <1>5, <2>1, CheckedTyped
  <2>3. Knows(m, u)
    BY <1>2, <1>3, <1>7, <2>2, SellingGoesOn DEF Selling, BeforeNumber
  <2>4. NumberFits(m, u, num[w])
    BY <1>2, NumberGoesOn DEF Numberless, BeforeNumber, Saves
  <2> QED
    BY <1>2, <1>7, <2>1, <2>3, <2>4, ReadKeepsStore
<1> QED
  <2>1. CASE t.i < Len(t.req.items) /\ ~Abort(w)
    <3>1. Goto(w, "checkStock", Checked(t, t.i + 1, q, p)) /\ UNCHANGED <<tables, today, served, num>>
      BY <1>1, <1>4, <2>1 DEF CheckStock
    <3>2. t.i + 1 \in Nat \ {0} /\ t.i + 1 <= Len(t.req.items)
      BY <1>3, <2>1
    <3> QED
      BY <1>7, <3>1, <3>2
  <2>2. CASE ~(t.i < Len(t.req.items)) /\ ~Abort(w)
    <3>1. Goto(w, "generateSaleNumber", Checked(t, 1, q, p)) /\ UNCHANGED <<tables, today, served, num>>
      BY <1>1, <1>4, <2>2 DEF CheckStock
    <3>2. 1 \in Nat \ {0} /\ 1 <= Len(t.req.items)
      BY <1>3
    <3> QED
      BY <1>7, <3>1, <3>2
  <2> QED
    BY <1>6, <2>1, <2>2

LEMMA FindBatchesKeepsStore ==
    ASSUME StoreSound, NEW w \in Workers, FindBatches(w)
    PROVE  StoreSound' /\ SalesKept
<1>1. PICK t : t = tx[w]
  OBVIOUS
<1>2. /\ pc[w] = "findBatches" /\ Knows("findBatches", t) /\ NumberFits("findBatches", t, num[w])
      /\ At("findBatches", t) = "findBatches"
  BY <1>1 DEF FindBatches, StoreSound, HandlersKnow, NumbersHeld, At, Saves
<1>3. t.req \in SaleForm /\ t.i <= Len(t.req.items) /\ LocalsTyped(t) /\ t.i \in Nat \ {0}
  BY <1>2 DEF Knows, Selling, BatchSection, LocalsTyped
<1>4. PICK it, list : it = t.req.items[t.i] /\ list = OpenBatches(it.product, w)
  OBVIOUS
<1>5. it.product \in Products /\ it.qty \in Nat
  BY <1>3, <1>4, ItemTyped
<1>6. DOMAIN list \subseteq Slots /\ \A k \in DOMAIN list : list[k] \in BatchRow
  BY <1>4, <1>5, OpenBatchesTyped DEF StoreSound
<1>7. PICK u : u = [t EXCEPT !.list = list, !.left = it.qty]
  OBVIOUS
<1>8. LocalsTyped(u) /\ u.req = t.req /\ u.i = t.i
  BY <1>3, <1>5, <1>6, <1>7 DEF LocalsTyped, LocalNames
<1>9. Goto(w, "takeBatch", u) /\ UNCHANGED <<tables, today, served, num>>
  BY <1>1, <1>4, <1>7 DEF FindBatches
<1>10. Knows("takeBatch", u)
  BY <1>2, <1>3, <1>8, SellingGoesOn DEF Selling, BatchSection
<1>11. NumberFits("takeBatch", u, num[w])
  BY <1>2, NumberGoesOn DEF BatchSection, Saves
<1> QED
  BY <1>2, <1>9, <1>10, <1>11, ReadKeepsStore

\* A worker that holds no number has no open sale, unless it is about to commit one.
LEMMA NoOpenSale ==
    ASSUME StoreSound, NEW w \in Workers, num[w] = NoNumber \/ pc[w] = "insertSale", pc[w] # "commit"
    PROVE  \A s \in SaleIds : sale[s].xid # w
  BY NoNumberIsNoSale, TablesAssumption DEF StoreSound, OpenSalesOwned, Inserted, Marked, Holds

\* The number that generateSaleNumber finds follows committed numbers.
LEMMA GenerateSaleNumberKeepsStore ==
    ASSUME StoreSound, NEW w \in Workers, GenerateSaleNumber(w)
    PROVE  StoreSound' /\ SalesKept
<1>1. CASE CreditRefused(tx[w])
  BY <1>1, AbortKeepsStore DEF GenerateSaleNumber
<1>2. CASE ~CreditRefused(tx[w])
  <2> USE DEF tables
  <2>1. PICK n \in 1 .. MaxSales : IsNextNumber(n, w) /\ num' = [num EXCEPT ![w] = <<today, n>>]
    BY <1>2 DEF GenerateSaleNumber
  <2>2. PICK t : t = tx[w]
    OBVIOUS
  <2>3. /\ pc[w] = "generateSaleNumber" /\ Goto(w, "insertSale", t)
        /\ UNCHANGED <<tables, today, served>>
        /\ Knows("generateSaleNumber", t) /\ NumberFits("generateSaleNumber", t, num[w])
        /\ At("generateSaleNumber", t) = "generateSaleNumber"
    BY <1>2, <2>2 DEF GenerateSaleNumber, StoreSound, HandlersKnow, NumbersHeld, At, Saves
  <2>4. today \in 1 .. LastDay /\ <<today, n>> \in SaleIds
    BY <2>1 DEF StoreSound, TypeOK, SaleIds
  <2>5. num[w] = NoNumber
    BY <2>3 DEF NumberFits, Numberless, BeforeNumber
  <2>6. \A s \in SaleIds : sale[s].xid # w
    BY <2>3, <2>5, NoOpenSale
  <2>7. \A m \in 1 .. MaxSales : <<today, m>> \in SaleIds /\ Seen(sale[<<today, m>>], w) = sale[<<today, m>>].cur
    BY <2>4, <2>6 DEF SaleIds, Seen
  <2>8. \A m \in 1 .. n - 1 : Taken(<<today, m>>)
    <3>1. SUFFICES ASSUME NEW m \in 1 .. n - 1 PROVE Taken(<<today, m>>)
      OBVIOUS
    <3>2. n > 1 /\ n - 1 \in 1 .. MaxSales
      BY <2>1, <3>1, TablesAssumption
    <3>3. Taken(<<today, n - 1>>)
      BY <2>1, <2>7, <3>2 DEF IsNextNumber, Taken
    <3> QED
      BY <2>4, <3>1, <3>2, <3>3 DEF StoreSound, GapFreeNumbers
  <2>9. TypeOK'
    BY <2>1, <2>3, <2>4 DEF StoreSound, TypeOK
  <2>10. num'[w] = <<today, n>> /\ \A v \in Workers \ {w} : num'[v] = num[v]
    BY <2>1 DEF StoreSound, TypeOK
  <2>11. Knows("insertSale", t)'
    <3>1. LocalsTyped(t) /\ t.req \in SaleForm /\ t.i <= Len(t.req.items)
      BY <2>3 DEF Knows, Selling, BeforeNumber
    <3>2. Knows("insertSale", t)
      BY <2>3, <3>1, SellingGoesOn DEF Selling, BeforeNumber
    <3> QED
      BY <2>3, <3>2 DEF Knows, LocalsTyped, SaveTyped, At, Taken
  <2>12. NumberFits("insertSale", t, num'[w])
    BY <2>4, <2>10
       DEF NumberFits, Numberless, At, Saves, BeforeNumber, Voiding, Restocking, Adjusting, Editing,
           Accounting
  <2>13. SalesKept /\ \A s \in SaleIds : (Taken(s)' <=> Taken(s)) /\ sale'[s] = sale[s]
    BY <2>3 DEF SalesKept, SameSale, Taken
  <2>14. \A s \in SaleIds : sale'[s].xid # w
    BY <2>6, <2>13
  <2>15. \A m \in 1 .. num'[w][2] - 1 : Taken(<<num'[w][1], m>>)
    BY <2>8, <2>10
  <2> QED
    BY <2>3, <2>9, <2>10, <2>11, <2>12, <2>13, <2>14, <2>15, OneGoesOn
<1> QED
  BY <1>1, <1>2

\* A checkout writes the open sale of its number: it inserts it, or adds an item.
LEMMA SaleWriteKeepsStore ==
    ASSUME StoreSound, NEW w \in Workers, NEW l, NEW t, Knows(l, t), NumberFits(l, t, num[w]),
           Goto(w, l, t), l \notin {"insertSale", "idle"}, num[w] \in SaleIds, ~Taken(num[w]),
           pc[w] # "commit", sale[num[w]].xid \in {NoTx, w},
           NEW row \in SaleRow, row.status = "completed",
           sale' = [sale EXCEPT ![num[w]] = Written(@, w, row)],
           UNCHANGED <<product, batch, customer, moved, paid, today, served, num>>
    PROVE  StoreSound' /\ SalesKept
<1>1. PICK n : n = num[w]
  OBVIOUS
<1>2. /\ sale'[n].cur = sale[n].cur /\ sale'[n].new = row /\ sale'[n].xid = w
      /\ \A s \in SaleIds \ {n} : sale'[s] = sale[s]
  BY <1>1 DEF Written, StoreSound, TypeOK, Versions
<1>3. \A s \in SaleIds : sale'[s].cur = sale[s].cur
  BY <1>2
<1>4. SalesKept /\ (\A s \in SaleIds : Taken(s)' <=> Taken(s)) /\ (Taken(n)' <=> Taken(n))
  BY <1>1, <1>3 DEF SalesKept, SameSale, Taken
<1>5. TypeOK'
  <2>1. sale' \in [SaleIds -> Versions(SaleRow, Workers)]
    BY WrittenTyped DEF StoreSound, TypeOK
  <2> QED
    BY <2>1 DEF StoreSound, TypeOK
<1>6. Knows(l, t)'
  BY <1>4, KnowledgeStays
<1>7. \A s \in SaleIds : s # n => sale[s].xid # w
  BY <1>1, TablesAssumption DEF StoreSound, OpenSalesOwned, Inserted, Marked
<1>8. Inserted(n)'
  <2>1. pc'[w] = l /\ num' = num
    BY DEF Goto, StoreSound, HandlersKnow
  <2> QED
    BY <1>1, <1>2, <1>3, <2>1 DEF Inserted, Holds, Taken
<1>9. \A s \in SaleIds : sale'[s].xid = w => (Inserted(s) \/ Marked(s))'
  <2>1. SUFFICES ASSUME NEW s \in SaleIds, sale'[s].xid = w PROVE Inserted(s)'
    OBVIOUS
  <2>2. s = n
    BY <1>2, <1>7, <2>1
  <2> QED
    BY <1>8, <2>2
<1>10. \A s \in SaleIds : sale'[s] # sale[s] => sale[s].xid \in {NoTx, w} /\ sale'[s].xid \in {NoTx, w}
  BY <1>1, <1>2
<1> QED
  BY <1>1, <1>2, <1>4, <1>5, <1>6, <1>9, <1>10, OneGoesOn DEF StoreSound, NumbersFollow

\* INSERT INTO sales: the number is not in the table, and nobody else writes it.
LEMMA InsertSaleKeepsStore ==
    ASSUME StoreSound, NEW w \in Workers, InsertSale(w)
    PROVE  StoreSound' /\ SalesKept
<1>1. CASE sale[num[w]].cur.status # "none"
  BY <1>1, AbortKeepsStore DEF InsertSale
<1>2. CASE sale[num[w]].cur.status = "none"
  <2>1. PICK d \in Dates(w) : sale' = [sale EXCEPT ![num[w]] = Written(@, w, NewSale(tx[w].req, d))]
    BY <1>2 DEF InsertSale
  <2>2. PICK t : t = tx[w]
    OBVIOUS
  <2>3. /\ pc[w] = "insertSale" /\ Goto(w, "findBatches", t)
        /\ Knows("insertSale", t) /\ NumberFits("insertSale", t, num[w])
        /\ At("insertSale", t) = "insertSale"
        /\ UNCHANGED <<product, batch, customer, moved, paid, today, served, num>>
        /\ Writable(sale[num[w]], w)
    BY <1>2, <2>2 DEF InsertSale, StoreSound, HandlersKnow, NumbersHeld, At, Saves
  <2>4. num[w] \in SaleIds
    BY <2>3 DEF NumberFits, Numberless
  <2>5. t.req \in SaleForm /\ t.i <= Len(t.req.items) /\ LocalsTyped(t)
    BY <2>3 DEF Knows, Selling
  <2>6. PICK row : row = NewSale(t.req, d)
    OBVIOUS
  <2>7. row \in SaleRow /\ row.status = "completed"
    <3>1. d \in Nat
      BY <2>4 DEF Dates, SaleIds, StoreSound, TypeOK
    <3> QED
      BY <2>5, <2>6, <3>1 DEF SaleForm, NewSale, SaleRow
  <2>8. Knows("findBatches", t)
    BY <2>3, <2>5, SellingGoesOn DEF Selling, BatchSection
  <2>9. NumberFits("findBatches", t, num[w])
    BY <2>3, NumberGoesOn DEF BatchSection, Saves
  <2> QED
    BY <1>2, <2>1, <2>2, <2>3, <2>4, <2>6, <2>7, <2>8, <2>9, SaleWriteKeepsStore DEF Writable, Taken
<1> QED
  BY <1>1, <1>2

\* One round of the batch loop adds an item to the sale the worker holds.
LEMMA TakeBatchKeepsStore ==
    ASSUME StoreSound, NEW w \in Workers, TakeBatch(w)
    PROVE  StoreSound' /\ SalesKept
<1>1. PICK t : t = tx[w]
  OBVIOUS
<1>2. /\ pc[w] = "takeBatch" /\ Knows("takeBatch", t) /\ NumberFits("takeBatch", t, num[w])
      /\ At("takeBatch", t) = "takeBatch"
      /\ UNCHANGED <<product, batch, customer, moved, paid, today, served, num>>
  BY <1>1 DEF TakeBatch, StoreSound, HandlersKnow, NumbersHeld, At, Saves
<1>3. t.req \in SaleForm /\ t.i <= Len(t.req.items) /\ LocalsTyped(t) /\ t.i \in Nat \ {0} /\ t.left \in Nat
  BY <1>2 DEF Knows, Selling, BatchSection, LocalsTyped
<1>4. num[w] \in SaleIds /\ Holds(w) /\ sale[num[w]].xid = w
  BY <1>2 DEF NumberFits, Numberless, BatchSection, Holds, StoreSound, NumbersHeld
<1>5. ~Taken(num[w]) /\ sale[num[w]].new \in SaleRow /\ sale[num[w]].new.status = "completed"
  <2>1. Inserted(num[w])
    BY <1>2, <1>4, TablesAssumption DEF StoreSound, OpenSalesOwned, Marked
  <2> QED
    BY <1>4, <2>1 DEF Inserted, StoreSound, TypeOK, Versions
<1>6. PICK k, b, d :
         /\ k \in Slots
         /\ IsOldest(k, t.list) /\ b = <<t.req.items[t.i].product, k>> /\ d = Smaller(t.list[k].qty, t.left)
         /\ sale' = [sale EXCEPT ![num[w]] = Written(@, w, WithItem(@.new, b, d))]
         /\ Save(w, "batch", b, Deducted(t.list[k], d), "takeBatch", Took(t, k, b, d))
  BY <1>1 DEF TakeBatch
<1>7. t.list[k] \in BatchRow /\ b \in BatchIds
  BY <1>3, <1>6, ItemTyped DEF LocalsTyped, IsOldest, BatchIds
<1>8. d \in Nat /\ t.left - d \in Nat /\ Deducted(t.list[k], d) \in BatchRow
  BY <1>3, <1>6, <1>7, DeductedTyped
<1>9. PICK row : row = WithItem(sale[num[w]].new, b, d)
  OBVIOUS
<1>10. row \in SaleRow /\ row.status = "completed"
  BY <1>5, <1>7, <1>8, <1>9, WithItemTyped
<1>11. PICK v : v = Took(t, k, b, d)
  OBVIOUS
<1>12. LocalsTyped(v) /\ v.req = t.req /\ v.i = t.i
  BY <1>3, <1>7, <1>8, <1>11, TookTyped
<1>13. Knows("takeBatch", v) /\ NumberFits("takeBatch", v, num[w])
  <2>1. Knows("takeBatch", v)
    BY <1>2, <1>3, <1>12, SellingGoesOn DEF Selling, BatchSection
  <2> QED
    BY <1>2, <2>1, NumberGoesOn DEF BatchSection, Saves
<1>14. PICK ent : ent = Deducted(t.list[k], d)
  OBVIOUS
<1>15. PICK u : u = Saving("batch", b, ent, "takeBatch", v)
  OBVIOUS
<1>16. Knows("select", u) /\ NumberFits("select", u, num[w])
  BY <1>7, <1>8, <1>13, <1>14, <1>15, SavingKnows DEF AfterSave
<1>17. Goto(w, "select", u) /\ sale' = [sale EXCEPT ![num[w]] = Written(@, w, row)]
  BY <1>6, <1>9, <1>11, <1>14, <1>15 DEF Save
<1> QED
  BY <1>2, <1>4, <1>5, <1>10, <1>16, <1>17, SaleWriteKeepsStore

\* The stock of the product is lowered once the batches gave enough.
LEMMA DeductProductKeepsStore ==
    ASSUME StoreSound, NEW w \in Workers, DeductProduct(w)
    PROVE  StoreSound' /\ SalesKept
<1>1. PICK t : t = tx[w]
  OBVIOUS
<1>2. /\ pc[w] = "takeBatch" /\ Knows("takeBatch", t) /\ NumberFits("takeBatch", t, num[w])
      /\ At("takeBatch", t) = "takeBatch"
      /\ UNCHANGED <<tables, today, served, num>>
  BY <1>1 DEF DeductProduct, StoreSound, HandlersKnow, NumbersHeld, At, Saves
<1>3. /\ t.req \in SaleForm /\ t.i <= Len(t.req.items) /\ LocalsTyped(t) /\ t.i \in Nat \ {0}
      /\ Len(t.req.items) \in Nat
  BY <1>2 DEF Knows, Selling, BatchSection, LocalsTyped, SaleForm
<1>4. PICK q, d : q = t.req.items[t.i].product /\ d = t.req.items[t.i].qty
  OBVIOUS
<1>5. q \in Products /\ d \in Nat /\ t.prod[q] \in ProductRow
  BY <1>3, <1>4, ItemTyped DEF LocalsTyped
<1>6. PICK ent : ent = [t.prod[q] EXCEPT !.stock = @ - d]
  OBVIOUS
<1>7. ent \in ProductRow
  BY <1>5, <1>6 DEF ProductRow
<1>8. PICK u : u = [t EXCEPT !.prod[q] = ent, !.list = NoList]
  OBVIOUS
<1>9. /\ DOMAIN u = LocalNames /\ u.req = t.req /\ u.i = t.i
      /\ u.prod = [t.prod EXCEPT ![q] = ent] /\ u.cust = t.cust /\ u.left = t.left
      /\ u.moves = t.moves /\ u.pay = t.pay /\ u.list = NoList
      /\ u.sold = t.sold /\ u.todo = t.todo
  BY <1>3, <1>8 DEF LocalsTyped, LocalNames
<1>10. u.prod \in [Products -> ProductRow] /\ DOMAIN u.list = {}
  BY <1>3, <1>7, <1>9 DEF LocalsTyped, NoList
<1>11. LocalsTyped(u)
  BY <1>3, <1>9, <1>10 DEF LocalsTyped
<1>12. ASSUME NEW l \in {"findBatches", "chargeCustomer"}, NEW v, LocalsTyped(v), v.req = t.req,
              v.i <= Len(v.req.items), Save(w, "product", q, ent, l, v)
       PROVE  StoreSound' /\ SalesKept
  <2>1. Knows(l, v)
    BY <1>2, <1>12, SellingGoesOn DEF Selling, BatchSection
  <2>2. NumberFits(l, v, num[w])
    BY <1>2, NumberGoesOn DEF BatchSection, Saves
  <2> QED
    BY <1>2, <1>5, <1>7, <1>12, <2>1, <2>2, SaveKeepsStore DEF AfterSave
<1>13. CASE t.i < Len(t.req.items)
  <2>1. PICK v : v = [u EXCEPT !.i = @ + 1]
    OBVIOUS
  <2>2. LocalsTyped(v) /\ v.req = t.req /\ v.i <= Len(v.req.items)
    BY <1>3, <1>9, <1>11, <1>13, <2>1 DEF LocalsTyped, LocalNames
  <2>3. Save(w, "product", q, ent, "findBatches", v)
    BY <1>1, <1>4, <1>6, <1>8, <1>13, <2>1 DEF DeductProduct
  <2> QED
    BY <1>12, <2>2, <2>3
<1>14. CASE ~(t.i < Len(t.req.items))
  <2>1. Save(w, "product", q, ent, "chargeCustomer", u)
    BY <1>1, <1>4, <1>6, <1>8, <1>14 DEF DeductProduct
  <2> QED
    BY <1>3, <1>9, <1>11, <1>12, <2>1
<1> QED
  BY <1>13, <1>14

\* The balance of the customer goes up, or the sale is ready to commit.
LEMMA ChargeCustomerKeepsStore ==
    ASSUME StoreSound, NEW w \in Workers, ChargeCustomer(w)
    PROVE  StoreSound' /\ SalesKept
<1>1. PICK t : t = tx[w]
  OBVIOUS
<1>2. /\ pc[w] = "chargeCustomer" /\ Knows("chargeCustomer", t) /\ NumberFits("chargeCustomer", t, num[w])
      /\ At("chargeCustomer", t) = "chargeCustomer"
      /\ UNCHANGED <<tables, today, served, num>>
  BY <1>1 DEF ChargeCustomer, StoreSound, HandlersKnow, NumbersHeld, At, Saves
<1>3. /\ t.req \in SaleForm /\ t.i <= Len(t.req.items) /\ LocalsTyped(t)
      /\ t.cust \in CustomerRow /\ t.req.credit \in Nat
  BY <1>2 DEF Knows, Selling, BatchSection, LocalsTyped, SaleForm
<1>4. Knows("commit", t) /\ NumberFits("commit", t, num[w])
  <2>1. Knows("commit", t)
    BY <1>2, <1>3, SellingGoesOn DEF Selling, BatchSection
  <2> QED
    BY <1>2, <2>1, NumberGoesOn DEF Saves
<1>5. CASE t.req.customer # NoCustomer /\ t.req.credit > 0
  <2>1. PICK ent : ent = [t.cust EXCEPT !.balance = @ + t.req.credit]
    OBVIOUS
  <2>2. ent \in CustomerRow /\ t.req.customer \in Customers
    BY <1>3, <1>5, <2>1 DEF CustomerRow, SaleForm
  <2>3. Save(w, "customer", t.req.customer, ent, "commit", t)
    BY <1>1, <1>5, <2>1 DEF ChargeCustomer
  <2> QED
    BY <1>2, <1>4, <2>2, <2>3, SaveKeepsStore DEF AfterSave
<1>6. CASE ~(t.req.customer # NoCustomer /\ t.req.credit > 0)
  <2>1. Goto(w, "commit", t)
    BY <1>1, <1>6 DEF ChargeCustomer
  <2> QED
    BY <1>2, <1>4, <2>1, ReadKeepsStore
<1> QED
  BY <1>5, <1>6

\* Every step of create.
LEMMA CreateKeepsStore ==
    ASSUME StoreSound, NEW w \in Workers, Create(w)
    PROVE  StoreSound' /\ SalesKept
<1>1. CASE FindCustomer(w)
  BY <1>1, FindCustomerKeepsStore
<1>2. CASE CheckStock(w)
  BY <1>2, CheckStockKeepsStore
<1>3. CASE GenerateSaleNumber(w)
  BY <1>3, GenerateSaleNumberKeepsStore
<1>4. CASE InsertSale(w)
  BY <1>4, InsertSaleKeepsStore
<1>5. CASE FindBatches(w)
  BY <1>5, FindBatchesKeepsStore
<1>6. CASE TakeBatch(w)
  BY <1>6, TakeBatchKeepsStore
<1>7. CASE ShortOfBatches(w)
  BY <1>7, AbortKeepsStore DEF ShortOfBatches
<1>8. CASE DeductProduct(w)
  BY <1>8, DeductProductKeepsStore
<1>9. CASE ChargeCustomer(w)
  BY <1>9, ChargeCustomerKeepsStore
<1> QED
  BY <1>1, <1>2, <1>3, <1>4, <1>5, <1>6, <1>7, <1>8, <1>9 DEF Create

-----------------------------------------------------------------------------
(* voidSale                                                                *)

\* The lines and the customer of a sale that a void has read.
LEMMA LineTyped ==
    ASSUME NEW s \in SaleRow, NEW i \in DOMAIN s.lines
    PROVE  /\ i \in Nat \ {0} /\ s.lines[i].batch \in BatchIds /\ s.lines[i].qty \in Nat
           /\ s.lines[i].batch[1] \in Products
<1>1. s.lines[i] \in Line /\ i \in Nat \ {0}
  BY DEF SaleRow
<1> QED
  BY <1>1 DEF Line, BatchIds

\* voidSale reads a sale that is in the table and not void.
LEMMA FindSaleKeepsStore ==
    ASSUME StoreSound, NEW w \in Workers, FindSale(w)
    PROVE  StoreSound' /\ SalesKept
<1>1. PICK t, s : t = tx[w] /\ s = Seen(sale[t.req.sale], w)
  OBVIOUS
<1>2. /\ pc[w] = "findSale" /\ Knows("findSale", t) /\ NumberFits("findSale", t, num[w])
      /\ At("findSale", t) = "findSale"
  BY <1>1 DEF FindSale, StoreSound, HandlersKnow, NumbersHeld, At, Saves
<1>3. t.req \in VoidForm /\ LocalsTyped(t) /\ t.req.sale \in SaleIds
  BY <1>2 DEF Knows, Voiding, VoidForm
<1>4. CASE s.status # "completed"
  BY <1>1, <1>4, AbortKeepsStore DEF FindSale
<1>5. CASE s.status = "completed"
  <2>1. num[w] = NoNumber
    BY <1>2 DEF NumberFits, Numberless, Voiding
  <2>2. s = sale[t.req.sale].cur
    BY <1>1, <1>2, <1>3, <2>1, NoOpenSale DEF Seen
  <2>3. s \in SaleRow /\ Taken(t.req.sale)
    BY <1>3, <1>5, <2>2 DEF StoreSound, TypeOK, Versions, Taken
  <2>4. PICK u : u = [t EXCEPT !.sold = s, !.todo = DOMAIN s.lines]
    OBVIOUS
  <2>5. LocalsTyped(u) /\ u.req = t.req /\ u.sold = s
    BY <1>3, <2>3, <2>4 DEF LocalsTyped, LocalNames
  <2>6. Knows("restock", u)
    <3>1. Taken(u.req.sale) /\ SameSale(u.sold, sale[u.req.sale].cur)
      BY <2>2, <2>3, <2>5 DEF SameSale
    <3> QED
      BY <1>2, <2>5, <3>1, VoidingGoesOn DEF Voiding, Restocking
  <2>7. NumberFits("restock", u, num[w])
    BY <1>2, NumberGoesOn DEF Numberless, Voiding, Restocking, Saves
  <2>8. Goto(w, "restock", u) /\ UNCHANGED <<tables, today, served, num>>
    BY <1>1, <1>5, <2>4 DEF FindSale
  <2> QED
    BY <1>2, <2>6, <2>7, <2>8, ReadKeepsStore
<1> QED
  BY <1>4, <1>5

\* A void saves a product, a batch or the customer and goes on.
LEMMA VoidSavesKeepStore ==
    ASSUME StoreSound, NEW w \in Workers, NEW l \in Restocking, pc[w] = l, NEW t, t = tx[w],
           NEW m \in Restocking, NEW v, LocalsTyped(v), v.req = t.req, v.sold = t.sold,
           m = "restockBatch" => v.i \in DOMAIN v.sold.lines,
           NEW tbl, NEW key, NEW ent, Save(w, tbl, key, ent, m, v),
           UNCHANGED <<tables, today, served, num>>,
           \/ tbl = "product" /\ key \in Products /\ ent \in ProductRow
           \/ tbl = "batch" /\ key \in BatchIds /\ ent \in BatchRow
           \/ tbl = "customer" /\ key \in Customers /\ ent \in CustomerRow
    PROVE  StoreSound' /\ SalesKept
<1>1. Knows(l, t) /\ NumberFits(l, t, num[w]) /\ At(l, t) = l /\ l \notin {"idle", "insertSale", "commit"}
  BY DEF StoreSound, HandlersKnow, NumbersHeld, At, Saves, Restocking
<1>2. Taken(t.req.sale) /\ SameSale(t.sold, sale[t.req.sale].cur)
  BY <1>1 DEF Knows
<1>3. Knows(m, v)
  BY <1>1, <1>2, VoidingGoesOn DEF Voiding
<1>4. NumberFits(m, v, num[w])
  BY <1>1, NumberGoesOn DEF Numberless, Voiding, Restocking, Saves
<1> QED
  BY <1>1, <1>3, <1>4, SaveKeepsStore DEF AfterSave, Restocking

\* The steps of a void that save what the sale took.
LEMMA RestockKeepsStore ==
    ASSUME StoreSound, NEW w \in Workers, RestockProduct(w) \/ RestockBatch(w)
    PROVE  StoreSound' /\ SalesKept
<1>1. PICK t : t = tx[w]
  OBVIOUS
<1>2. /\ Knows(pc[w], t) /\ At(pc[w], t) = pc[w] /\ UNCHANGED <<tables, today, served, num>>
      /\ pc[w] \in Restocking
  BY <1>1 DEF RestockProduct, RestockBatch, StoreSound, HandlersKnow, At, Saves, Restocking
<1>3. LocalsTyped(t) /\ t.sold \in SaleRow
  BY <1>2 DEF Knows, LocalsTyped
<1>4. CASE RestockProduct(w)
  <2>1. PICK i \in t.todo : \E p \in {t.sold.lines[i].batch[1]} :
           Save(w, "product", p, [Seen(product[p], w) EXCEPT !.stock = @ + t.sold.lines[i].qty],
                "restockBatch", [t EXCEPT !.i = i, !.todo = @ \ {i}])
    BY <1>1, <1>4 DEF RestockProduct
  <2>2. PICK p, ent, v : /\ p = t.sold.lines[i].batch[1]
                         /\ ent = [Seen(product[p], w) EXCEPT !.stock = @ + t.sold.lines[i].qty]
                         /\ v = [t EXCEPT !.i = i, !.todo = @ \ {i}]
    OBVIOUS
  <2>3. i \in DOMAIN t.sold.lines /\ i \in Nat \ {0} /\ p \in Products /\ t.sold.lines[i].qty \in Nat
    BY <1>3, <2>2, LineTyped DEF LocalsTyped
  <2>4. ent \in ProductRow
    <3>1. Seen(product[p], w) \in ProductRow
      BY <2>3, SeenTyped DEF StoreSound, TypeOK
    <3>2. \A row \in ProductRow, q \in Nat : [row EXCEPT !.stock = @ + q] \in ProductRow
      BY DEF ProductRow
    <3> QED
      BY <2>2, <2>3, <3>1, <3>2
  <2>5. LocalsTyped(v) /\ v.req = t.req /\ v.sold = t.sold /\ v.i = i
    BY <1>3, <2>2, <2>3 DEF LocalsTyped, LocalNames
  <2>6. Save(w, "product", p, ent, "restockBatch", v)
    BY <2>1, <2>2
  <2> QED
    BY <1>1, <1>2, <2>3, <2>4, <2>5, <2>6, VoidSavesKeepStore DEF Restocking
<1>5. CASE RestockBatch(w)
  <2>1. pc[w] = "restockBatch"
    BY <1>5 DEF RestockBatch
  <2>2. t.i \in DOMAIN t.sold.lines
    BY <1>2, <2>1 DEF Knows
  <2>3. PICK b, q : b = t.sold.lines[t.i].batch /\ q = t.sold.lines[t.i].qty
    OBVIOUS
  <2>4. PICK ent, v : /\ ent = [Seen(batch[b], w) EXCEPT !.qty = @ + q, !.active = TRUE]
                      /\ v = [t EXCEPT !.moves[b] = @ + q]
    OBVIOUS
  <2>5. b \in BatchIds /\ q \in Nat
    BY <1>3, <2>2, <2>3, LineTyped
  <2>6. ent \in BatchRow
    <3>1. Seen(batch[b], w) \in BatchRow
      BY <2>5, SeenTyped DEF StoreSound, TypeOK
    <3>2. ASSUME NEW row \in BatchRow, NEW n \in Nat
          PROVE  [row EXCEPT !.qty = @ + n, !.active = TRUE] \in BatchRow
      <4> DEFINE more == [row EXCEPT !.qty = @ + n]
      <4>1. more \in BatchRow
        BY DEF BatchRow
      <4>2. [more EXCEPT !.active = TRUE] \in BatchRow
        BY <4>1 DEF BatchRow
      <4> QED
        BY <4>2
    <3> QED
      BY <2>4, <2>5, <3>1, <3>2
  <2>7. LocalsTyped(v) /\ v.req = t.req /\ v.sold = t.sold
    <3>1. [t.moves EXCEPT ![b] = @ + q] \in [BatchIds -> Int]
      BY <1>3, <2>5 DEF LocalsTyped
    <3> QED
      BY <1>3, <2>4, <3>1 DEF LocalsTyped, LocalNames
  <2>8. Save(w, "batch", b, ent, "restock", v)
    BY <1>1, <1>5, <2>3, <2>4 DEF RestockBatch
  <2> QED
    BY <1>1, <1>2, <2>5, <2>6, <2>7, <2>8, VoidSavesKeepStore DEF Restocking
<1> QED
  BY <1>4, <1>5

\* The credit of the sale is taken back, or there is none.
LEMMA ReverseCreditKeepsStore ==
    ASSUME StoreSound, NEW w \in Workers, ReverseCredit(w)
    PROVE  StoreSound' /\ SalesKept
<1>1. PICK t : t = tx[w]
  OBVIOUS
<1>2. /\ pc[w] = "restock" /\ Knows("restock", t) /\ NumberFits("restock", t, num[w])
      /\ At("restock", t) = "restock" /\ UNCHANGED <<tables, today, served, num>>
  BY <1>1 DEF ReverseCredit, StoreSound, HandlersKnow, NumbersHeld, At, Saves
<1>3. /\ LocalsTyped(t) /\ t.sold \in SaleRow
      /\ Taken(t.req.sale) /\ SameSale(t.sold, sale[t.req.sale].cur)
  BY <1>2 DEF Knows, LocalsTyped, Restocking
<1>4. PICK c, q : c = t.sold.customer /\ q = t.sold.credit
  OBVIOUS
<1>5. CASE c # NoCustomer /\ q > 0
  <2>1. PICK ent : ent = [Seen(customer[c], w) EXCEPT !.balance = Positive(@ - q)]
    OBVIOUS
  <2>2. c \in Customers /\ q \in Nat
    BY <1>3, <1>4, <1>5 DEF SaleRow
  <2>3. ent \in CustomerRow
    <3>1. Seen(customer[c], w) \in CustomerRow
      BY <2>2, SeenTyped DEF StoreSound, TypeOK
    <3> QED
      BY <2>1, <2>2, <3>1 DEF CustomerRow, Positive
  <2>4. Save(w, "customer", c, ent, "setVoid", t)
    BY <1>1, <1>4, <1>5, <2>1 DEF ReverseCredit
  <2> QED
    BY <1>1, <1>2, <1>3, <2>2, <2>3, <2>4, VoidSavesKeepStore DEF Restocking
<1>6. CASE ~(c # NoCustomer /\ q > 0)
  <2>1. Goto(w, "setVoid", t)
    BY <1>1, <1>4, <1>6 DEF ReverseCredit
  <2>2. Knows("setVoid", t)
    BY <1>2, <1>3, VoidingGoesOn DEF Voiding, Restocking
  <2>3. NumberFits("setVoid", t, num[w])
    BY <1>2, NumberGoesOn DEF Numberless, Voiding, Restocking, Saves
  <2> QED
    BY <1>2, <2>1, <2>2, <2>3, ReadKeepsStore
<1> QED
  BY <1>5, <1>6

\* Last the sale is marked void.
LEMMA SetVoidKeepsStore ==
    ASSUME StoreSound, NEW w \in Workers, SetVoid(w)
    PROVE  StoreSound' /\ SalesKept
<1>1. PICK t : t = tx[w]
  OBVIOUS
<1>2. /\ pc[w] = "setVoid" /\ Knows("setVoid", t) /\ NumberFits("setVoid", t, num[w])
      /\ At("setVoid", t) = "setVoid" /\ UNCHANGED <<tables, today, served, num>>
  BY <1>1 DEF SetVoid, StoreSound, HandlersKnow, NumbersHeld, At, Saves
<1>3. /\ LocalsTyped(t) /\ t.sold \in SaleRow /\ t.req \in VoidForm /\ t.req.sale \in SaleIds
      /\ Taken(t.req.sale) /\ SameSale(t.sold, sale[t.req.sale].cur) /\ num[w] = NoNumber
  BY <1>2 DEF Knows, LocalsTyped, Restocking, Voiding, VoidForm, NumberFits, Numberless
<1>4. PICK ent : ent = [t.sold EXCEPT !.status = "void"]
  OBVIOUS
<1>5. ent \in SaleRow /\ ent.status = "void" /\ SameSale(ent, sale[t.req.sale].cur)
  BY <1>3, <1>4 DEF SaleRow, SameSale
<1>6. Knows("commit", t)
  BY <1>2, <1>3, VoidingGoesOn DEF Voiding, Restocking
<1>7. NumberFits("commit", t, num[w])
  BY <1>2, NumberGoesOn DEF Saves
<1>8. Save(w, "sale", t.req.sale, ent, "commit", t)
  BY <1>1, <1>4 DEF SetVoid
<1> QED
  BY <1>2, <1>3, <1>5, <1>6, <1>7, <1>8, SaveKeepsStore DEF AfterSave

\* Every step of voidSale.
LEMMA VoidSaleKeepsStore ==
    ASSUME StoreSound, NEW w \in Workers, VoidSale(w)
    PROVE  StoreSound' /\ SalesKept
  BY FindSaleKeepsStore, RestockKeepsStore, ReverseCreditKeepsStore, SetVoidKeepsStore DEF VoidSale

-----------------------------------------------------------------------------
(* adjust                                                                  *)

\* The steps of adjust, update, remove, deactivate and recordPayment go on from one of
\* their statements to the next, or begin their last save.
LEMMA OthersKnow ==
    ASSUME StoreSound, NEW w \in Workers, NEW t, t = tx[w], NEW l, pc[w] = l,
           l \in Adjusting \cup Editing \cup Accounting
    PROVE  /\ Knows(l, t) /\ NumberFits(l, t, num[w]) /\ At(l, t) = l /\ LocalsTyped(t)
           /\ l \notin Saves \cup {"idle", "insertSale", "commit"}
<1>1. l \notin Saves \cup {"idle", "insertSale", "commit"}
  BY DEF Adjusting, Editing, Accounting, Saves
<1> QED
  BY <1>1 DEF StoreSound, HandlersKnow, NumbersHeld, At, Knows

\* Such a step that saves an entity of another table than sales.
LEMMA OthersSave ==
    ASSUME StoreSound, NEW w \in Workers, NEW t, t = tx[w], NEW l, pc[w] = l,
           l \in Adjusting \cup Editing \cup Accounting,
           NEW m \in {"commit", "drainBatch"}, m = "drainBatch" => l \in Adjusting,
           NEW v, LocalsTyped(v), v.req = t.req,
           NEW tbl, NEW key, NEW ent, Save(w, tbl, key, ent, m, v),
           \/ tbl = "product" /\ key \in Products /\ ent \in ProductRow
           \/ tbl = "batch" /\ key \in BatchIds /\ ent \in BatchRow
           \/ tbl = "customer" /\ key \in Customers /\ ent \in CustomerRow,
           UNCHANGED <<sale, num>>, TypeOK'
    PROVE  StoreSound' /\ SalesKept
<1>1. Knows(l, t) /\ NumberFits(l, t, num[w]) /\ At(l, t) = l /\ l \notin {"idle", "insertSale", "commit"}
  BY OthersKnow
<1>2. Knows(m, v)
  BY <1>1, OthersGoOn DEF Adjusting
<1>3. NumberFits(m, v, num[w])
  BY <1>1, NumberGoesOn DEF Numberless, Adjusting, Saves
<1>4. PICK u : u = Saving(tbl, key, ent, m, v)
  OBVIOUS
<1>5. Knows("select", u) /\ NumberFits("select", u, num[w])
  BY <1>2, <1>3, <1>4, SavingKnows DEF AfterSave
<1> QED
  BY <1>1, <1>4, <1>5, SalesUntouched DEF Save

\* Such a step that reads.
LEMMA OthersRead ==
    ASSUME StoreSound, NEW w \in Workers, NEW t, t = tx[w], NEW l, pc[w] = l,
           NEW m, NEW v, LocalsTyped(v), v.req = t.req, Goto(w, m, v),
           UNCHANGED <<tables, today, served, num>>,
           \/ l \in Adjusting /\ m \in Adjusting
           \/ l \in Editing /\ m \in Editing
           \/ l = "findAccount" /\ m = "deactivateCustomer"
           \/ l = "findAccount" /\ m = "editCustomer" /\ v.req \in LimitForm
           \/ l = "findDebtor" /\ m = "insertPayment"
    PROVE  StoreSound' /\ SalesKept
<1>1. l \in Adjusting \cup Editing \cup Accounting
  BY DEF Accounting
<1>2. Knows(l, t) /\ NumberFits(l, t, num[w]) /\ At(l, t) = l /\ l \notin {"idle", "insertSale", "commit"}
  BY <1>1, OthersKnow
<1>3. Knows(m, v)
  BY <1>2, OthersGoOn
<1>4. m \in Adjusting \cup Editing \cup Accounting /\ m \notin Saves /\ m # "insertSale"
  BY DEF Accounting, Adjusting, Editing, Saves
<1>5. NumberFits(m, v, num[w])
  BY <1>1, <1>2, <1>4, NumberGoesOn DEF Numberless
<1> QED
  BY <1>2, <1>3, <1>4, <1>5, ReadKeepsStore

\* The reads of adjust.
LEMMA FindStockKeepsStore ==
    ASSUME StoreSound, NEW w \in Workers, FindStock(w)
    PROVE  StoreSound' /\ SalesKept
<1>1. PICK t, q, p : t = tx[w] /\ q = t.req.product /\ p = Seen(product[q], w)
  OBVIOUS
<1>2. pc[w] = "findStock" /\ Knows("findStock", t) /\ At("findStock", t) = "findStock" /\ LocalsTyped(t)
  BY <1>1, OthersKnow DEF FindStock, Adjusting
<1>3. t.req \in StockForm
  BY <1>2 DEF Knows, Adjusting
<1>4. q \in Products /\ t.req.kind \in {"stockIn", "stockOut"}
  BY <1>1, <1>3 DEF StockForm
<1>5. p \in ProductRow
  BY <1>1, <1>4, SeenTyped DEF StoreSound, TypeOK
<1>6. PICK u : u = [t EXCEPT !.prod[q] = p]
  OBVIOUS
<1>7. LocalsTyped(u) /\ u.req = t.req
  <2>1. [t.prod EXCEPT ![q] = p] \in [Products -> ProductRow]
    BY <1>2, <1>5 DEF LocalsTyped
  <2> QED
    BY <1>2, <1>6, <2>1 DEF LocalsTyped, LocalNames
<1>8. Goto(w, t.req.kind, u) /\ UNCHANGED <<tables, today, served, num>>
  BY <1>1, <1>6 DEF FindStock
<1> QED
  BY <1>1, <1>2, <1>4, <1>7, <1>8, OthersRead DEF Adjusting

LEMMA StockOutKeepsStore ==
    ASSUME StoreSound, NEW w \in Workers, StockOut(w)
    PROVE  StoreSound' /\ SalesKept
<1>1. PICK t, q : t = tx[w] /\ q = t.req.product
  OBVIOUS
<1>2. pc[w] = "stockOut" /\ Knows("stockOut", t) /\ At("stockOut", t) = "stockOut" /\ LocalsTyped(t)
  BY <1>1, OthersKnow DEF StockOut, Adjusting
<1>3. t.req \in StockForm
  BY <1>2 DEF Knows, Adjusting
<1>4. q \in Products /\ t.req.qty \in Nat
  BY <1>1, <1>3 DEF StockForm
<1>5. CASE Abort(w)
  BY <1>5, AbortKeepsStore
<1>6. CASE ~Abort(w)
  <2>1. PICK list : list = OpenBatches(q, w)
    OBVIOUS
  <2>2. DOMAIN list \subseteq Slots /\ \A k \in DOMAIN list : list[k] \in BatchRow
    BY <1>4, <2>1, OpenBatchesTyped DEF StoreSound
  <2>3. PICK u : u = [t EXCEPT !.list = list, !.left = t.req.qty]
    OBVIOUS
  <2>4. LocalsTyped(u) /\ u.req = t.req
    BY <1>2, <1>4, <2>2, <2>3 DEF LocalsTyped, LocalNames
  <2>5. Goto(w, "drainBatch", u) /\ UNCHANGED <<tables, today, served, num>>
    BY <1>1, <1>6, <2>1, <2>3 DEF StockOut
  <2> QED
    BY <1>1, <1>2, <2>4, <2>5, OthersRead DEF Adjusting
<1> QED
  BY <1>5, <1>6

\* A stock-in inserts a batch and adds to the stock.
LEMMA StockInKeepsStore ==
    ASSUME StoreSound, NEW w \in Workers, StockIn(w)
    PROVE  StoreSound' /\ SalesKept
<1>1. PICK t, q, d : t = tx[w] /\ q = t.req.product /\ d = t.req.qty
  OBVIOUS
<1>2. pc[w] = "stockIn" /\ Knows("stockIn", t) /\ At("stockIn", t) = "stockIn" /\ LocalsTyped(t)
  BY <1>1, OthersKnow DEF StockIn, Adjusting
<1>3. t.req \in StockForm
  BY <1>2 DEF Knows, Adjusting
<1>4. q \in Products /\ d \in Nat /\ t.prod[q] \in ProductRow
  BY <1>1, <1>2, <1>3 DEF StockForm, LocalsTyped
<1>5. PICK ent : ent = [t.prod[q] EXCEPT !.stock = @ + d]
  OBVIOUS
<1>6. ent \in ProductRow
  <2>1. \A row \in ProductRow, n \in Nat : [row EXCEPT !.stock = @ + n] \in ProductRow
    BY DEF ProductRow
  <2> QED
    BY <1>4, <1>5, <2>1
<1>7. PICK k \in Slots :
         /\ batch' = [batch EXCEPT ![<<q, k>>] = Written(@, w, [qty |-> d, active |-> TRUE, made |-> TRUE])]
         /\ Save(w, "product", q, ent, "commit", [t EXCEPT !.moves[<<q, k>>] = d])
  BY <1>1, <1>5 DEF StockIn
<1>8. PICK b, v : b = <<q, k>> /\ v = [t EXCEPT !.moves[b] = d]
  OBVIOUS
<1>9. b \in BatchIds
  BY <1>4, <1>8 DEF BatchIds
<1>10. LocalsTyped(v) /\ v.req = t.req
  <2>1. [t.moves EXCEPT ![b] = d] \in [BatchIds -> Int]
    <3>1. d \in Int /\ t.moves \in [BatchIds -> Int]
      BY <1>2, <1>4 DEF LocalsTyped
    <3> QED
      BY <3>1
  <2> QED
    BY <1>2, <1>8, <2>1 DEF LocalsTyped, LocalNames
<1>11. TypeOK' /\ UNCHANGED <<sale, num>>
  <2>1. [qty |-> d, active |-> TRUE, made |-> TRUE] \in BatchRow
    BY <1>4 DEF BatchRow
  <2>2. batch' \in [BatchIds -> Versions(BatchRow, Workers)]
    BY <1>7, <1>8, <1>9, <2>1, WrittenTyped DEF StoreSound, TypeOK
  <2> QED
    BY <2>2 DEF StockIn, StoreSound, TypeOK
<1>12. Save(w, "product", q, ent, "commit", v)
  BY <1>7, <1>8
<1> QED
  BY <1>1, <1>2, <1>4, <1>6, <1>10, <1>11, <1>12, OthersSave DEF Adjusting

\* A stock-out takes from a batch, and from the stock once the batches gave enough.
LEMMA DrainBatchKeepsStore ==
    ASSUME StoreSound, NEW w \in Workers, DrainBatch(w)
    PROVE  StoreSound' /\ SalesKept
<1>1. PICK t, q : t = tx[w] /\ q = t.req.product
  OBVIOUS
<1>2. /\ pc[w] = "drainBatch" /\ Knows("drainBatch", t) /\ At("drainBatch", t) = "drainBatch"
      /\ LocalsTyped(t) /\ UNCHANGED <<tables, today, served, num>>
  BY <1>1, OthersKnow DEF DrainBatch, Adjusting
<1>3. t.req \in StockForm
  BY <1>2 DEF Knows, Adjusting
<1>4. q \in Products /\ t.req.qty \in Nat /\ t.left \in Nat
  BY <1>1, <1>2, <1>3 DEF StockForm, LocalsTyped
<1>5. PICK k, b, d :
         /\ k \in Slots
         /\ IsOldest(k, t.list) /\ b = <<q, k>> /\ d = Smaller(t.list[k].qty, t.left)
         /\ Save(w, "batch", b, Deducted(t.list[k], d), "drainBatch",
                 [t EXCEPT !.list = Without(@, k), !.left = @ - d,
                           !.moves[b] = IF t.left = t.req.qty THEN - t.req.qty ELSE @])
  BY <1>1 DEF DrainBatch
<1>6. t.list[k] \in BatchRow /\ b \in BatchIds
  BY <1>2, <1>4, <1>5 DEF LocalsTyped, IsOldest, BatchIds
<1>7. PICK ent, n, list : /\ ent = Deducted(t.list[k], d)
                          /\ n = (IF t.left = t.req.qty THEN - t.req.qty ELSE t.moves[b])
                          /\ list = Without(t.list, k)
  OBVIOUS
<1>8. d \in Nat /\ t.left - d \in Nat /\ ent \in BatchRow
  BY <1>4, <1>5, <1>6, <1>7, DeductedTyped
<1>9. PICK v : v = [t EXCEPT !.list = list, !.left = @ - d, !.moves[b] = n]
  OBVIOUS
<1>10. /\ n \in Int /\ [t.moves EXCEPT ![b] = n] \in [BatchIds -> Int]
       /\ DOMAIN list \subseteq Slots /\ \A j \in DOMAIN list : list[j] \in BatchRow
  <2>1. n \in Int
    BY <1>2, <1>4, <1>6, <1>7 DEF LocalsTyped
  <2> QED
    BY <1>2, <1>7, <2>1 DEF LocalsTyped, Without
<1>11. LocalsTyped(v) /\ v.req = t.req
  BY <1>2, <1>8, <1>9, <1>10 DEF LocalsTyped, LocalNames
<1>12. v = [t EXCEPT !.list = Without(@, k), !.left = @ - d,
                     !.moves[b] = IF t.left = t.req.qty THEN - t.req.qty ELSE @]
  BY <1>2, <1>7, <1>9 DEF LocalsTyped, LocalNames
<1>13. Save(w, "batch", b, ent, "drainBatch", v)
  BY <1>5, <1>7, <1>12
<1>14. TypeOK' /\ UNCHANGED <<sale, num>>
  BY <1>2 DEF tables, StoreSound, TypeOK
<1> QED
  BY <1>1, <1>2, <1>6, <1>8, <1>11, <1>13, <1>14, OthersSave DEF Adjusting

LEMMA DeductStockKeepsStore ==
    ASSUME StoreSound, NEW w \in Workers, DeductStock(w)
    PROVE  StoreSound' /\ SalesKept
<1>1. PICK t, q, d : t = tx[w] /\ q = t.req.product /\ d = t.req.qty
  OBVIOUS
<1>2. /\ pc[w] = "drainBatch" /\ Knows("drainBatch", t) /\ At("drainBatch", t) = "drainBatch"
      /\ LocalsTyped(t) /\ UNCHANGED <<tables, today, served, num>>
  BY <1>1, OthersKnow DEF DeductStock, Adjusting
<1>3. t.req \in StockForm
  BY <1>2 DEF Knows, Adjusting
<1>4. q \in Products /\ d \in Nat /\ t.prod[q] \in ProductRow
  BY <1>1, <1>2, <1>3 DEF StockForm, LocalsTyped
<1>5. PICK ent : ent = [t.prod[q] EXCEPT !.stock = @ - d]
  OBVIOUS
<1>6. ent \in ProductRow
  <2>1. \A row \in ProductRow, n \in Nat : [row EXCEPT !.stock = @ - n] \in ProductRow
    BY DEF ProductRow
  <2> QED
    BY <1>4, <1>5, <2>1
<1>7. PICK v : v = [t EXCEPT !.list = NoList]
  OBVIOUS
<1>8. LocalsTyped(v) /\ v.req = t.req
  BY <1>2, <1>7 DEF LocalsTyped, LocalNames, NoList
<1>9. Save(w, "product", q, ent, "commit", v)
  BY <1>1, <1>5, <1>7 DEF DeductStock
<1>10. TypeOK' /\ UNCHANGED <<sale, num>>
  BY <1>2 DEF tables, StoreSound, TypeOK
<1> QED
  BY <1>1, <1>2, <1>4, <1>6, <1>8, <1>9, <1>10, OthersSave DEF Adjusting

LEMMA AdjustKeepsStore ==
    ASSUME StoreSound, NEW w \in Workers, Adjust(w)
    PROVE  StoreSound' /\ SalesKept
  BY FindStockKeepsStore, StockInKeepsStore, StockOutKeepsStore, DrainBatchKeepsStore,
     DeductStockKeepsStore, AbortKeepsStore DEF Adjust, BatchesExhausted

-----------------------------------------------------------------------------
(* Maintenance, and the UPDATE of a save                                   *)

\* update and remove load a product and save it.
LEMMA MaintainProductsKeepsStore ==
    ASSUME StoreSound, NEW w \in Workers, MaintainProducts(w)
    PROVE  StoreSound' /\ SalesKept
<1>1. PICK t, q : t = tx[w] /\ q = t.req.product
  OBVIOUS
<1>2. PICK l \in Editing : pc[w] = l
  BY DEF MaintainProducts, FindProduct, EditProduct, RemoveProduct, Editing
<1>3. /\ Knows(l, t) /\ At(l, t) = l /\ LocalsTyped(t)
      /\ UNCHANGED <<tables, today, served, num>>
  BY <1>1, <1>2, OthersKnow DEF MaintainProducts, FindProduct, EditProduct, RemoveProduct
<1>4. t.req \in ProductForm
  BY <1>3 DEF Knows
<1>5. q \in Products /\ t.prod[q] \in ProductRow /\ t.req.kind \in {"editProduct", "removeProduct"}
  BY <1>1, <1>3, <1>4 DEF ProductForm, LocalsTyped
<1>6. TypeOK' /\ UNCHANGED <<sale, num>>
  BY <1>3 DEF tables, StoreSound, TypeOK
<1>7. CASE FindProduct(w)
  <2>1. PICK p : p = Seen(product[q], w)
    OBVIOUS
  <2>2. p \in ProductRow
    BY <1>5, <2>1, SeenTyped DEF StoreSound, TypeOK
  <2>3. PICK u : u = [t EXCEPT !.prod[q] = p]
    OBVIOUS
  <2>4. LocalsTyped(u) /\ u.req = t.req
    <3>1. [t.prod EXCEPT ![q] = p] \in [Products -> ProductRow]
      BY <1>3, <2>2 DEF LocalsTyped
    <3> QED
      BY <1>3, <2>3, <3>1 DEF LocalsTyped, LocalNames
  <2>5. Goto(w, t.req.kind, u)
    BY <1>1, <1>7, <2>1, <2>3 DEF FindProduct
  <2> QED
    BY <1>1, <1>2, <1>3, <1>5, <2>4, <2>5, OthersRead DEF Editing
<1>8. ASSUME NEW ent \in ProductRow, Save(w, "product", q, ent, "commit", t)
      PROVE  StoreSound' /\ SalesKept
  BY <1>1, <1>2, <1>3, <1>5, <1>6, <1>8, OthersSave
<1>9. CASE EditProduct(w)
  BY <1>1, <1>5, <1>8, <1>9 DEF EditProduct
<1>10. CASE RemoveProduct(w)
  <2>1. [t.prod[q] EXCEPT !.active = FALSE] \in ProductRow
    BY <1>5 DEF ProductRow
  <2> QED
    BY <1>1, <1>8, <1>10, <2>1 DEF RemoveProduct
<1> QED
  BY <1>7, <1>9, <1>10 DEF MaintainProducts

\* update and deactivate load a customer and save it; recordPayment lowers the balance.
LEMMA MaintainCustomersKeepsStore ==
    ASSUME StoreSound, NEW w \in Workers, MaintainCustomers(w)
    PROVE  StoreSound' /\ SalesKept
<1>1. PICK t, c, row : t = tx[w] /\ c = t.req.customer /\ row = Seen(customer[c], w)
  OBVIOUS
<1>2. PICK l \in Accounting : pc[w] = l
  BY DEF MaintainCustomers, FindAccount, EditCustomer, DeactivateCustomer, FindDebtor, InsertPayment,
         Accounting
<1>3. CASE Abort(w)
  BY <1>3, AbortKeepsStore
<1>4. CASE ~Abort(w)
  <2>1. /\ Knows(l, t) /\ At(l, t) = l /\ LocalsTyped(t)
        /\ UNCHANGED <<tables, today, served, num>>
    BY <1>1, <1>2, <1>4, OthersKnow
    DEF MaintainCustomers, FindAccount, EditCustomer, DeactivateCustomer, FindDebtor, InsertPayment
  <2>2. /\ l \in {"findAccount", "deactivateCustomer"} => t.req \in LimitForm \cup AccountForm
        /\ l = "editCustomer" => t.req \in LimitForm
        /\ l \in {"findDebtor", "insertPayment"} => t.req \in PaymentForm
    BY <2>1 DEF Knows
  <2>3. c \in Customers /\ t.cust \in CustomerRow
    BY <1>1, <1>2, <2>1, <2>2 DEF LimitForm, AccountForm, PaymentForm, LocalsTyped, Accounting
  <2>4. row \in CustomerRow
    BY <1>1, <2>3, SeenTyped DEF StoreSound, TypeOK
  <2>5. TypeOK' /\ UNCHANGED <<sale, num>>
    BY <2>1 DEF tables, StoreSound, TypeOK
  <2>6. PICK u : u = [t EXCEPT !.cust = row]
    OBVIOUS
  <2>7. LocalsTyped(u) /\ u.req = t.req
    BY <2>1, <2>4, <2>6 DEF LocalsTyped, LocalNames
  <2>8. ASSUME NEW ent \in CustomerRow, NEW v, LocalsTyped(v), v.req = t.req,
               Save(w, "customer", c, ent, "commit", v)
        PROVE  StoreSound' /\ SalesKept
    BY <1>1, <1>2, <2>3, <2>5, <2>8, OthersSave
  <2>9. CASE FindAccount(w)
    <3>1. l = "findAccount" /\ Goto(w, t.req.kind, u)
      BY <1>1, <1>2, <2>6, <2>9 DEF FindAccount
    <3>2. CASE t.req \in LimitForm
      <4>1. Goto(w, "editCustomer", u)
        BY <3>1, <3>2 DEF LimitForm
      <4> QED
        BY <1>1, <1>2, <2>1, <2>7, <3>1, <3>2, <4>1, OthersRead
    <3>3. CASE t.req \in AccountForm
      <4>1. Goto(w, "deactivateCustomer", u)
        BY <3>1, <3>3 DEF AccountForm
      <4> QED
        BY <1>1, <1>2, <2>1, <2>7, <3>1, <4>1, OthersRead
    <3> QED
      BY <2>2, <3>1, <3>2, <3>3
  <2>10. CASE FindDebtor(w)
    <3>1. l = "findDebtor" /\ Goto(w, "insertPayment", u)
      BY <1>1, <1>2, <1>4, <2>6, <2>10 DEF FindDebtor
    <3> QED
      BY <1>1, <1>2, <2>1, <2>7, <3>1, OthersRead
  <2>11. CASE EditCustomer(w)
    <3>1. t.req.limit \in Nat
      BY <1>2, <2>2, <2>11 DEF EditCustomer, LimitForm
    <3>2. [t.cust EXCEPT !.limit = t.req.limit] \in CustomerRow
      BY <2>3, <3>1 DEF CustomerRow
    <3> QED
      BY <1>1, <2>1, <2>8, <2>11, <3>2 DEF EditCustomer
  <2>12. CASE DeactivateCustomer(w)
    <3>1. [t.cust EXCEPT !.active = FALSE] \in CustomerRow
      BY <2>3 DEF CustomerRow
    <3> QED
      BY <1>1, <2>1, <2>8, <2>12, <3>1 DEF DeactivateCustomer
  <2>13. CASE InsertPayment(w)
    <3>1. PICK d : d = t.req.amount
      OBVIOUS
    <3>2. d \in Nat
      BY <1>2, <2>2, <2>13, <3>1 DEF InsertPayment, PaymentForm
    <3>3. PICK ent, v : ent = [t.cust EXCEPT !.balance = @ - d] /\ v = [t EXCEPT !.pay = d]
      OBVIOUS
    <3>4. ent \in CustomerRow
      BY <2>3, <3>2, <3>3 DEF CustomerRow
    <3>5. LocalsTyped(v) /\ v.req = t.req
      BY <2>1, <3>2, <3>3 DEF LocalsTyped, LocalNames
    <3>6. Save(w, "customer", c, ent, "commit", v)
      BY <1>1, <2>13, <3>1, <3>3 DEF InsertPayment
    <3> QED
      BY <2>8, <3>4, <3>5, <3>6
  <2> QED
    BY <2>9, <2>10, <2>11, <2>12, <2>13 DEF MaintainCustomers
<1> QED
  BY <1>3, <1>4

\* UPDATE of a product, a batch or a customer.
LEMMA UpdateTyped ==
    ASSUME StoreSound, NEW w \in Workers, SaveUpdate(w), tx[w].tbl # "sale"
    PROVE  TypeOK' /\ UNCHANGED sale
<1>1. PICK t : t = tx[w]
  OBVIOUS
<1>2. SaveTyped(t)
  BY <1>1 DEF SaveUpdate, StoreSound, HandlersKnow, Knows, Saves
<1>3. UNCHANGED sale
  BY DEF SaveUpdate, Updated
<1>4. product' \in [Products -> Versions(ProductRow, Workers)]
  <2>1. CASE t.tbl = "product"
    <3>1. PICK v : v = Patched(Seen(product[t.key], w), t.ent, t.cols)
      OBVIOUS
    <3>2. t.key \in Products /\ v \in ProductRow
      BY <1>2, <2>1, <3>1, SeenTyped, PatchedTyped DEF SaveTyped, StoreSound, TypeOK
    <3>3. product' = [product EXCEPT ![t.key] = Written(@, w, v)]
      BY <1>1, <2>1, <3>1 DEF SaveUpdate, Updated
    <3> QED
      BY <3>2, <3>3, WrittenTyped DEF StoreSound, TypeOK
  <2>2. CASE t.tbl # "product"
    BY <1>1, <2>2 DEF SaveUpdate, Updated, StoreSound, TypeOK
  <2> QED
    BY <2>1, <2>2
<1>5. batch' \in [BatchIds -> Versions(BatchRow, Workers)]
  <2>1. CASE t.tbl = "batch"
    <3>1. PICK v : v = Patched(Seen(batch[t.key], w), t.ent, t.cols)
      OBVIOUS
    <3>2. t.key \in BatchIds /\ v \in BatchRow
      BY <1>2, <2>1, <3>1, SeenTyped, PatchedTyped DEF SaveTyped, StoreSound, TypeOK
    <3>3. batch' = [batch EXCEPT ![t.key] = Written(@, w, v)]
      BY <1>1, <2>1, <3>1 DEF SaveUpdate, Updated
    <3> QED
      BY <3>2, <3>3, WrittenTyped DEF StoreSound, TypeOK
  <2>2. CASE t.tbl # "batch"
    BY <1>1, <2>2 DEF SaveUpdate, Updated, StoreSound, TypeOK
  <2> QED
    BY <2>1, <2>2
<1>6. customer' \in [Customers -> Versions(CustomerRow, Workers)]
  <2>1. CASE t.tbl = "customer"
    <3>1. PICK v : v = Patched(Seen(customer[t.key], w), t.ent, t.cols)
      OBVIOUS
    <3>2. t.key \in Customers /\ v \in CustomerRow
      BY <1>2, <2>1, <3>1, SeenTyped, PatchedTyped DEF SaveTyped, StoreSound, TypeOK
    <3>3. customer' = [customer EXCEPT ![t.key] = Written(@, w, v)]
      BY <1>1, <2>1, <3>1 DEF SaveUpdate, Updated
    <3> QED
      BY <3>2, <3>3, WrittenTyped DEF StoreSound, TypeOK
  <2>2. CASE t.tbl # "customer"
    BY <1>1, <2>2 DEF SaveUpdate, Updated, StoreSound, TypeOK
  <2> QED
    BY <2>1, <2>2
<1> QED
  BY <1>3, <1>4, <1>5, <1>6 DEF SaveUpdate, StoreSound, TypeOK

\* The UPDATE of a save; a void puts nothing but its status on a sale.
LEMMA SaveUpdateKeepsStore ==
    ASSUME StoreSound, NEW w \in Workers, SaveUpdate(w)
    PROVE  StoreSound' /\ SalesKept
<1>1. PICK t, l, u : t = tx[w] /\ l = t.then /\ u = Saved(t)
  OBVIOUS
<1>2. /\ pc[w] = "update" /\ Knows("update", t) /\ NumberFits("update", t, num[w]) /\ SaveTyped(t)
      /\ Goto(w, l, u) /\ UNCHANGED num
  BY <1>1 DEF SaveUpdate, StoreSound, HandlersKnow, NumbersHeld, Knows, Saves
<1>3. Knows(l, u) /\ NumberFits(l, u, num[w]) /\ l \notin {"insertSale", "idle"}
  BY <1>1, <1>2, SavedKnows DEF Saves
<1>4. CASE t.tbl # "sale"
  BY <1>1, <1>2, <1>3, <1>4, UpdateTyped, SalesUntouched
<1>5. CASE t.tbl = "sale"
  <2>1. PICK k : k = t.key
    OBVIOUS
  <2>2. /\ t.ent \in SaleRow /\ t.ent.status = "void" /\ l = "commit"
        /\ k \in SaleIds /\ Taken(k) /\ SameSale(t.ent, sale[k].cur) /\ num[w] = NoNumber
    BY <1>1, <1>2, <1>5, <2>1 DEF SaveTyped, VoidForm, NumberFits, Numberless, Saves
  <2>3. \A s \in SaleIds : sale[s].xid # w
    BY <1>2, <2>2, NoOpenSale
  <2>4. sale[k].xid = NoTx /\ Seen(sale[k], w) = sale[k].cur /\ sale[k].cur \in SaleRow
    BY <1>1, <1>5, <2>1, <2>2, <2>3 DEF SaveUpdate, RowOf, Writable, Seen, StoreSound, TypeOK, Versions
  <2>5. PICK v : v = Patched(sale[k].cur, t.ent, t.cols)
    OBVIOUS
  <2>6. v \in SaleRow /\ v \in {sale[k].cur, [sale[k].cur EXCEPT !.status = "void"]}
    <3>1. v \in SaleRow
      BY <2>2, <2>4, <2>5, PatchedTyped
    <3>2. \A f \in {"lines", "customer", "credit", "date"} : t.ent[f] = sale[k].cur[f]
      BY <2>2, <2>4 DEF SameSale, SaleRow
    <3>3. \A f \in {"lines", "customer", "credit", "date"} : v[f] = sale[k].cur[f]
      BY <2>2, <2>4, <2>5, <3>2 DEF Patched, SaleRow
    <3>4. v.status \in {"void", sale[k].cur.status}
      BY <2>2, <2>4, <2>5 DEF Patched, SaleRow
    <3> QED
      BY <2>4, <3>1, <3>3, <3>4 DEF SaleRow
  <2>7. sale' = [sale EXCEPT ![k] = Written(@, w, v)]
    BY <1>1, <1>5, <2>1, <2>4, <2>5 DEF SaveUpdate, Updated
  <2>8. UNCHANGED <<product, batch, customer, moved, paid, today, served>>
    BY <1>1, <1>5 DEF SaveUpdate, Updated
  <2>9. TypeOK'
    <3>1. sale' \in [SaleIds -> Versions(SaleRow, Workers)]
      BY <2>2, <2>6, <2>7, WrittenTyped DEF StoreSound, TypeOK
    <3> QED
      BY <1>2, <2>8, <3>1 DEF StoreSound, TypeOK
  <2>10. /\ sale'[k].cur = sale[k].cur /\ sale'[k].new = v /\ sale'[k].xid = w
         /\ \A s \in SaleIds \ {k} : sale'[s] = sale[s]
    BY <2>2, <2>7 DEF Written, StoreSound, TypeOK, Versions
  <2>11. \A s \in SaleIds : sale'[s].cur = sale[s].cur
    BY <2>10
  <2>12. SalesKept /\ (\A s \in SaleIds : Taken(s)' <=> Taken(s))
    BY <2>11 DEF SalesKept, SameSale, Taken
  <2>13. Knows(l, u)'
    BY <1>3, <2>12, KnowledgeStays
  <2>14. Marked(k)'
    <3>1. pc'[w] = l /\ num'[w] = NoNumber
      BY <1>2, <2>2 DEF Goto, StoreSound, HandlersKnow
    <3> QED
      BY <2>2, <2>6, <2>10, <3>1 DEF Marked, Taken
  <2>15. \A s \in SaleIds : sale'[s].xid = w => (Inserted(s) \/ Marked(s))'
    <3>1. SUFFICES ASSUME NEW s \in SaleIds, sale'[s].xid = w PROVE Marked(s)'
      OBVIOUS
    <3>2. s = k
      BY <2>3, <2>10, <3>1
    <3> QED
      BY <2>14, <3>2
  <2>16. \A s \in SaleIds : sale'[s] # sale[s] => sale[s].xid \in {NoTx, w} /\ sale'[s].xid \in {NoTx, w}
    BY <2>4, <2>10
  <2> QED
    BY <1>2, <1>3, <2>2, <2>9, <2>12, <2>13, <2>15, <2>16, NoNumberIsNoSale, OneGoesOn
<1> QED
  BY <1>4, <1>5

-----------------------------------------------------------------------------
(* Commit                                                                  *)

\* A commit puts the number of a checkout into the table, above numbers that are
\* all there, or makes a taken sale void.
LEMMA CommitKeepsStore ==
    ASSUME StoreSound, NEW w \in Workers, Commit(w)
    PROVE  StoreSound' /\ SalesKept
<1>1. /\ pc[w] = "commit" /\ Goto(w, "idle", NoLocals) /\ num' = [num EXCEPT ![w] = NoNumber]
      /\ UNCHANGED <<today, served>>
  BY DEF Commit, Leave
<1>2. TypeOK'
  <2>1. PICK t : t = tx[w]
    OBVIOUS
  <2>2. t.moves \in [BatchIds -> Int] /\ t.pay \in Nat
    BY <2>1 DEF StoreSound, HandlersKnow, Knows, LocalsTyped
  <2>3. moved' \in [BatchIds -> Int] /\ paid' \in [Customers -> Nat]
    BY <2>1, <2>2 DEF Commit, StoreSound, TypeOK
  <2>4. num' \in [Workers -> SaleIds \cup {NoNumber}]
    BY <1>1 DEF StoreSound, TypeOK
  <2> QED
    BY <1>1, <2>3, <2>4, EndTyped DEF StoreSound, TypeOK, Commit
<1>3. \A s \in SaleIds : /\ sale[s].xid # w => sale'[s] = sale[s]
                         /\ sale[s].xid = w => sale'[s].xid = NoTx /\ sale'[s].cur = sale[s].new
  BY DEF Commit, CommitTable, CommitRow, Stored, StoreSound, TypeOK
<1>4. \A s \in SaleIds : sale[s].xid = w =>
         \/ ~Taken(s) /\ num[w] = s /\ sale[s].new.status = "completed"
         \/ /\ Taken(s) /\ num[w] = NoNumber
            /\ sale[s].new \in {sale[s].cur, [sale[s].cur EXCEPT !.status = "void"]}
            /\ sale[s].cur \in SaleRow
  <2>1. SUFFICES ASSUME NEW s \in SaleIds, sale[s].xid = w
                 PROVE  \/ ~Taken(s) /\ num[w] = s /\ sale[s].new.status = "completed"
                        \/ /\ Taken(s) /\ num[w] = NoNumber
                           /\ sale[s].new \in {sale[s].cur, [sale[s].cur EXCEPT !.status = "void"]}
                           /\ sale[s].cur \in SaleRow
    OBVIOUS
  <2>2. sale[s].cur \in SaleRow
    BY DEF StoreSound, TypeOK, Versions
  <2>3. Inserted(s) \/ Marked(s)
    BY <2>1, TablesAssumption DEF StoreSound, OpenSalesOwned
  <2> QED
    BY <2>1, <2>2, <2>3 DEF Inserted, Marked
<1>5. SalesKept
  <2>1. SUFFICES ASSUME NEW s \in SaleIds, Taken(s)
                 PROVE  /\ Taken(s)'
                        /\ SameSale(sale[s].cur, sale'[s].cur)
                        /\ sale[s].cur.status = "void" => sale'[s].cur.status = "void"
    BY DEF SalesKept
  <2>2. CASE sale'[s].cur = sale[s].cur
    BY <2>1, <2>2 DEF SameSale, Taken
  <2>3. CASE sale'[s].cur = [sale[s].cur EXCEPT !.status = "void"] /\ sale[s].cur \in SaleRow
    BY <2>1, <2>3 DEF SameSale, Taken, SaleRow
  <2> QED
    BY <1>3, <1>4, <2>1, <2>2, <2>3
<1>6. GapFreeNumbers'
  <2>1. SUFFICES ASSUME NEW d \in 1 .. LastDay, NEW n \in 1 .. MaxSales, Taken(<<d, n>>)',
                        NEW m \in 1 .. n - 1
                 PROVE  Taken(<<d, m>>)'
    BY DEF GapFreeNumbers
  <2>2. <<d, n>> \in SaleIds /\ <<d, m>> \in SaleIds
    BY TablesAssumption DEF SaleIds
  <2>3. CASE Taken(<<d, n>>)
    BY <1>5, <2>2, <2>3 DEF StoreSound, GapFreeNumbers, SalesKept, Taken
  <2>4. CASE ~Taken(<<d, n>>)
    <3>1. num[w] = <<d, n>>
      BY <1>3, <1>4, <2>1, <2>2, <2>4 DEF Taken
    <3>2. Taken(<<d, m>>)
      BY <2>2, <3>1 DEF StoreSound, NumbersFollow
    <3> QED
      BY <1>5, <2>2, <3>2 DEF SalesKept, Taken
  <2> QED
    BY <2>3, <2>4
<1>7. num'[w] = NoNumber /\ \A v \in Workers \ {w} : num'[v] = num[v]
  BY <1>1 DEF StoreSound, TypeOK
<1>8. Knows("idle", NoLocals)'
  BY <1>5, IdleKnows, KnowledgeStays
<1>9. NumberFits("idle", NoLocals, num'[w]) /\ num'[w] \notin SaleIds
  BY <1>7, IdleKnows, NoNumberIsNoSale
<1>10. \A s \in SaleIds : sale'[s].xid # w
  BY <1>3, TablesAssumption
<1>11. \A s \in SaleIds : sale'[s] # sale[s] => sale[s].xid \in {NoTx, w} /\ sale'[s].xid \in {NoTx, w}
  BY <1>3
<1> QED
  BY <1>1, <1>2, <1>5, <1>6, <1>7, <1>8, <1>9, <1>10, <1>11, OneGoesOn

-----------------------------------------------------------------------------
(* The theorems                                                            *)

\* The invariant holds at the start.
LEMMA InitSound == Init => StoreSound
<1> SUFFICES ASSUME Init PROVE StoreSound
  OBVIOUS
<1>1. \A b \in BatchIds : OpeningBatch(b) \in BatchRow
  BY TablesAssumption DEF BatchIds, OpeningBatch, BatchRow, NoBatch
<1>2. TypeOK
  <2>1. NoSale \in SaleRow
    BY DEF NoSale, SaleRow
  <2> QED
    BY <1>1, <2>1, TablesAssumption
    DEF Init, TypeOK, Stored, Versions, ProductRow, CustomerRow, BatchRow
<1>3. \A w \in Workers : pc[w] = "idle" /\ tx[w] = NoLocals /\ num[w] = NoNumber
  BY DEF Init
<1>4. HandlersKnow
  <2>1. pc \in [Workers -> Statements] /\ DOMAIN tx = Workers
    BY DEF Init, Statements
  <2> QED
    BY <1>3, <2>1, IdleKnows DEF HandlersKnow
<1>5. NumbersHeld /\ NumbersFollow
  BY <1>3, IdleKnows, NoNumberIsNoSale DEF NumbersHeld, NumbersFollow, Holds
<1>6. OpenSalesOwned
  BY DEF Init, OpenSalesOwned, Stored
<1>7. GapFreeNumbers
  BY DEF Init, GapFreeNumbers, Taken, Stored, NoSale, SaleIds
<1> QED
  BY <1>2, <1>4, <1>5, <1>6, <1>7 DEF StoreSound

\* Every step keeps the invariant, and takes no sale back.
LEMMA NextKeepsStore == StoreSound /\ [Next]_vars => StoreSound' /\ SalesKept
<1> SUFFICES ASSUME StoreSound, [Next]_vars PROVE StoreSound' /\ SalesKept
  OBVIOUS
<1>1. ASSUME NEW w \in Workers, NEW r \in Requests, Begin(w, r) PROVE StoreSound' /\ SalesKept
  BY <1>1, BeginKeepsStore
<1>2. ASSUME NEW w \in Workers, Step(w) PROVE StoreSound' /\ SalesKept
  <2>1. CASE Create(w)
    BY <2>1, CreateKeepsStore
  <2>2. CASE VoidSale(w)
    BY <2>2, VoidSaleKeepsStore
  <2>3. CASE Adjust(w)
    BY <2>3, AdjustKeepsStore
  <2>4. CASE MaintainProducts(w)
    BY <2>4, MaintainProductsKeepsStore
  <2>5. CASE MaintainCustomers(w)
    BY <2>5, MaintainCustomersKeepsStore
  <2>6. CASE SaveSelect(w)
    BY <2>6, SaveSelectKeepsStore
  <2>7. CASE SaveUpdate(w)
    BY <2>7, SaveUpdateKeepsStore
  <2>8. CASE Commit(w)
    BY <2>8, CommitKeepsStore
  <2>9. CASE DeadlockVictim(w)
    BY <2>9, AbortKeepsStore DEF DeadlockVictim
  <2> QED
    BY <1>2, <2>1, <2>2, <2>3, <2>4, <2>5, <2>6, <2>7, <2>8, <2>9 DEF Step
<1>3. ASSUME NEW w \in Workers, Disconnect(w) PROVE StoreSound' /\ SalesKept
  BY <1>3, AbortKeepsStore DEF Disconnect
<1>4. CASE Midnight
  BY <1>4, MidnightKeepsStore
<1>5. CASE UNCHANGED vars
  <2>1. SalesKept
    BY <1>5 DEF vars, SalesKept, SameSale, Taken
  <2>2. TypeOK' /\ NumbersFollow' /\ GapFreeNumbers'
    BY <1>5 DEF vars, StoreSound, TypeOK, NumbersFollow, GapFreeNumbers, Taken
  <2>3. HandlersKnow'
    BY <1>5 DEF vars, StoreSound, HandlersKnow, Knows, LocalsTyped, SaveTyped, At, Taken
  <2>4. NumbersHeld' /\ OpenSalesOwned'
    BY <1>5 DEF vars, StoreSound, NumbersHeld, NumberFits, Numberless, At, OpenSalesOwned, Inserted, Marked, Holds, Taken
  <2> QED
    BY <2>1, <2>2, <2>3, <2>4 DEF StoreSound
<1> QED
  BY <1>1, <1>2, <1>3, <1>4, <1>5 DEF Next, Closed

\* In every behaviour of the back office, with any number of handlers of every
\* kind, the inductive invariant holds.
THEOREM StoreInvariance == Spec => []StoreSound
  BY InitSound, NextKeepsStore, PTL DEF Spec

\* The tables keep their types, whatever handlers overlap: no batch quantity below
\* zero is ever stored (inventory-batch.entity.ts, current_quantity).
THEOREM StoreTypes == Spec => []TypeOK
<1>1. StoreSound => TypeOK
  BY DEF StoreSound
<1> QED
  BY <1>1, StoreInvariance, PTL

\* Voids, deliveries, payments and maintenance running beside the checkouts leave
\* the sale numbers of a day without gaps (sales.service.ts:368-395).
THEOREM StoreNumbering == Spec => []GapFreeNumbers
<1>1. StoreSound => GapFreeNumbers
  BY DEF StoreSound
<1> QED
  BY <1>1, StoreInvariance, PTL

\* No step of any handler changes the lines or the credit of a sale that is in the
\* table, or takes back a void: voidSale saves a whole entity, but nothing of it
\* except its status is new (sales.service.ts:294-366).
THEOREM SalesStayFinal == Spec => SalesAreFinal
<1>1. StoreSound /\ [Next]_vars =>
        [\A s \in SaleIds : Taken(s) =>
           /\ [sale[s].cur EXCEPT !.status = "void"] = [sale'[s].cur EXCEPT !.status = "void"]
           /\ sale[s].cur.status = "void" => sale'[s].cur.status = "void"]_sale
  BY NextKeepsStore DEF SalesKept, SameSale
<1> QED
  BY <1>1, StoreInvariance, PTL DEF Spec, SalesAreFinal

-----------------------------------------------------------------------------
(* The job against the mails it sends, proved for every store, whatever the *)
(* requests do between two of its steps.                                    *)

\* Types of the job's tables and locals.
AlertTypes ==
    /\ open \in [Products -> Nat] /\ mails \in [Products -> Nat] /\ rises \in [Products -> Nat]
    /\ check \in [at: {"idle", "findStores", "findLow", "findUnresolved", "resolve", "create", "mail"},
                  low: SUBSET Products, found: SUBSET Products, fresh: SUBSET Products]

\* p read low and seen without an open alert: the job is about to mail it.
Due(p) == \/ check.at = "findUnresolved" /\ p \in check.low /\ open[p] = 0
          \/ check.at = "resolve" /\ p \in check.low \ check.found
          \/ check.at \in {"create", "mail"} /\ p \in check.fresh

\* p read above its level: an alert of it is about to be closed.
Recovered(p) == check.at \in {"findUnresolved", "resolve"} /\ p \notin check.low

\* The job's locals still describe the alerts table: nobody else writes it.
LocalsFresh(p) ==
    /\ check.at = "resolve" => (p \in check.found <=> open[p] > 0)
    /\ check.at = "create" /\ p \in check.fresh => open[p] = 0
    /\ check.at = "mail" /\ p \in check.fresh => open[p] = 1

\* One mail is owed per spell below the level.  The current spell's is still
\* owed while no alert is open; it is used up, by the mail sent or by the one
\* about to be, only while the product has not risen since.
MailBudget(p) ==
    /\ open[p] <= 1
    /\ mails[p] <= 1 + rises[p]
    /\ open[p] = 0 => mails[p] <= rises[p]
    /\ ~IsLow(p) => mails[p] <= rises[p]
    /\ Recovered(p) => mails[p] <= rises[p]
    /\ Due(p) => mails[p] <= rises[p] /\ (~IsLow(p) => mails[p] + 1 <= rises[p])

AlertsInv == AlertTypes /\ \A p \in Products : LocalsFresh(p) /\ MailBudget(p)

-----------------------------------------------------------------------------
\* An empty alerts table owes every product its first mail.
LEMMA AlertsStart == InitAlerts => AlertsInv
  BY DEF InitAlerts, AlertsInv, AlertTypes, LocalsFresh, MailBudget, Due, Recovered, Asleep

\* A request touches no alert; when it lifts a product above its level, a new
\* mail is owed.
LEMMA TradeKeepsBudget == AlertsInv /\ Trade => AlertsInv'
<1> SUFFICES ASSUME AlertsInv, Trade PROVE AlertsInv'
  OBVIOUS
<1>1. AlertTypes' /\ UNCHANGED <<open, check, mails>>
  BY DEF AlertsInv, AlertTypes, Trade, alertVars
<1>2. ASSUME NEW p \in Products PROVE LocalsFresh(p)' /\ MailBudget(p)'
  <2>1. LocalsFresh(p) /\ MailBudget(p)
    BY DEF AlertsInv
  <2>2. /\ IsLow(p) /\ ~IsLow(p)' => rises'[p] = rises[p] + 1
        /\ ~(IsLow(p) /\ ~IsLow(p)') => rises'[p] = rises[p]
    BY DEF Trade
  <2>3. open[p] \in Nat /\ mails[p] \in Nat /\ rises[p] \in Nat
    BY DEF AlertsInv, AlertTypes
  <2>4. LocalsFresh(p)' /\ (Due(p)' <=> Due(p)) /\ (Recovered(p)' <=> Recovered(p))
    BY <1>1, <2>1 DEF LocalsFresh, Due, Recovered
  <2> QED
    BY <1>1, <2>1, <2>2, <2>3, <2>4 DEF MailBudget
<1> QED
  BY <1>1, <1>2 DEF AlertsInv

\* One step of the job: only Resolve and CreateAlerts write the alerts table,
\* and only SendAlertsEmail spends a mail.
LEMMA JobKeepsBudget == AlertsInv /\ DailyCheck /\ UNCHANGED vars => AlertsInv'
<1> SUFFICES ASSUME AlertsInv, DailyCheck, UNCHANGED vars PROVE AlertsInv'
  OBVIOUS
<1>0. \A p \in Products : IsLow(p)' <=> IsLow(p)
  BY DEF IsLow, vars
<1>1. CASE RunDailyCheck
  BY <1>0, <1>1 DEF RunDailyCheck, Asleep, AlertsInv, AlertTypes, LocalsFresh,
     MailBudget, Due, Recovered
<1>2. CASE FindStores
  BY <1>0, <1>2 DEF FindStores, Asleep, AlertsInv, AlertTypes, LocalsFresh,
     MailBudget, Due, Recovered
<1>3. CASE FindLow
  BY <1>0, <1>3 DEF FindLow, AlertsInv, AlertTypes, LocalsFresh,
     MailBudget, Due, Recovered
<1>4. CASE FindUnresolved
  <2>1. /\ check.at = "findUnresolved" /\ check'.at = "resolve" /\ check'.low = check.low
        /\ check'.found = {p \in Products : open[p] > 0}
        /\ UNCHANGED <<open, mails, rises>> /\ AlertTypes'
    BY <1>4 DEF FindUnresolved, AlertsInv, AlertTypes
  <2>2. ASSUME NEW p \in Products PROVE LocalsFresh(p)' /\ MailBudget(p)'
    <3>1. MailBudget(p) /\ open[p] \in Nat
      BY DEF AlertsInv, AlertTypes
    <3>2. LocalsFresh(p)' /\ (Due(p)' => Due(p)) /\ (Recovered(p)' => Recovered(p))
      BY <2>1, <3>1 DEF LocalsFresh, Due, Recovered
    <3> QED
      BY <1>0, <2>1, <3>1, <3>2 DEF MailBudget
  <2> QED
    BY <2>1, <2>2 DEF AlertsInv
<1>5. CASE Resolve
  <2>1. /\ check.at = "resolve" /\ check'.at = "create" /\ check'.fresh = check.low \ check.found
        /\ \A p \in Products : open'[p] = IF p \in check.found \ check.low THEN 0 ELSE open[p]
        /\ UNCHANGED <<mails, rises>> /\ AlertTypes'
    BY <1>5 DEF Resolve, AlertsInv, AlertTypes
  <2>2. ASSUME NEW p \in Products PROVE LocalsFresh(p)' /\ MailBudget(p)'
    <3>1. /\ LocalsFresh(p) /\ MailBudget(p)
          /\ open[p] \in Nat /\ mails[p] \in Nat /\ rises[p] \in Nat
      BY DEF AlertsInv, AlertTypes
    <3>2. (Due(p)' => Due(p)) /\ ~Recovered(p)'
      BY <2>1 DEF Due, Recovered
    <3>3. p \in check.found \ check.low => Recovered(p) /\ ~Due(p)'
      BY <2>1 DEF Due, Recovered
    <3>4. LocalsFresh(p)'
      BY <2>1, <3>1 DEF LocalsFresh
    <3> QED
      BY <1>0, <2>1, <3>1, <3>2, <3>3, <3>4 DEF MailBudget
  <2> QED
    BY <2>1, <2>2 DEF AlertsInv
<1>6. CASE CreateAlerts
  BY <1>0, <1>6 DEF CreateAlerts, Asleep, AlertsInv, AlertTypes, LocalsFresh,
     MailBudget, Due, Recovered
<1>7. CASE SendAlertsEmail
  BY <1>0, <1>7 DEF SendAlertsEmail, Asleep, AlertsInv, AlertTypes, LocalsFresh,
     MailBudget, Due, Recovered
<1>8. CASE JobDies
  BY <1>0, <1>8 DEF JobDies, Asleep, AlertsInv, AlertTypes, LocalsFresh,
     MailBudget, Due, Recovered
<1> QED
  BY <1>1, <1>2, <1>3, <1>4, <1>5, <1>6, <1>7, <1>8 DEF DailyCheck

LEMMA AlertsStep == AlertsInv /\ [NextAlerts]_allVars => AlertsInv'
<1> SUFFICES ASSUME AlertsInv, [NextAlerts]_allVars PROVE AlertsInv'
  OBVIOUS
<1>1. CASE UNCHANGED allVars
  BY <1>1 DEF allVars, alertVars, vars, AlertsInv, AlertTypes, LocalsFresh, MailBudget, Due,
              Recovered, IsLow
<1> QED
  BY <1>1, TradeKeepsBudget, JobKeepsBudget DEF NextAlerts

\* A product has at most one open alert, and between two mails about it its
\* stock really rose above the reorder level: whatever the tills sell and void
\* while the job runs, on however many workers, and wherever the job dies.
THEOREM MailedOncePerEvent == SpecAlerts => []OneMailPerEvent
<1>1. AlertsInv => OneMailPerEvent
  BY DEF AlertsInv, OneMailPerEvent, MailBudget
<1> QED
  BY <1>1, AlertsStart, AlertsStep, PTL DEF SpecAlerts

-----------------------------------------------------------------------------
(* The figures of the reports as sums.                                     *)

LEMMA SalesFinite == IsFiniteSet(SaleIds)
<1>1. IsFiniteSet(1 .. LastDay) /\ IsFiniteSet(1 .. MaxSales)
  BY TablesAssumption, FS_Interval
<1> QED
  BY <1>1, FS_Product DEF SaleIds

\* f gives for each line in S what it took of p.
UnitsByProduct(ls, p, S, f) == \A i \in S : f[i] = IF ls[i].batch[1] = p THEN ls[i].qty ELSE 0

LEMMA UnitsByProductExist == ASSUME NEW ls, NEW p, NEW S PROVE \E f : UnitsByProduct(ls, p, S, f)
<1> SUFFICES \E f : \A i \in S : f[i] = IF ls[i].batch[1] = p THEN ls[i].qty ELSE 0
  BY DEF UnitsByProduct
<1> WITNESS [i \in S |-> IF ls[i].batch[1] = p THEN ls[i].qty ELSE 0]
<1> QED
  OBVIOUS

LEMMA UnitsOfIs ==
    ASSUME NEW ls \in Seq(Line), NEW p, NEW S, S = 1 .. Len(ls), NEW f, UnitsByProduct(ls, p, S, f)
    PROVE  UnitsOf(ls, p) = SumOf(f, S) /\ IsFiniteSet(S) /\ \A i \in S : f[i] \in Int
<1> DEFINE P(it) == it = [s \in SUBSET S |->
                            IF s = {} THEN 0
                            ELSE (IF ls[Next1(s)].batch[1] = p THEN ls[Next1(s)].qty ELSE 0)
                                 + it[s \ {Next1(s)}]]
<1>1. S = DOMAIN ls /\ Len(ls) \in Nat /\ \A i \in S : ls[i] \in Line
  OBVIOUS
<1>2. IsFiniteSet(S)
  <2>1. 1 \in Int /\ Len(ls) \in Int
    BY <1>1
  <2> QED
    BY <2>1, FS_Interval
<1>3. \A i \in S : f[i] \in Int
  BY <1>1 DEF Line, UnitsByProduct
<1>4. ASSUME NEW it PROVE P(it) <=> Sums(f, S, it)
  <2>1. \A s \in SUBSET S : s # {} =>
          f[Next1(s)] = IF ls[Next1(s)].batch[1] = p THEN ls[Next1(s)].qty ELSE 0
    BY Next1In DEF UnitsByProduct
  <2> QED
    BY <2>1 DEF Sums
<1>5. PICK jt : Sums(f, S, jt)
  BY <1>2, SumsExist
<1>6. P(CHOOSE it : P(it))
  BY <1>4, <1>5
<1>7. UnitsOf(ls, p) = (CHOOSE it : P(it))[S]
  BY <1>1 DEF UnitsOf, MapThenSumSet, MapThenFoldSet, Next1
<1> HIDE DEF P
<1> QED
  BY <1>2, <1>3, <1>4, <1>6, <1>7, TotalIs

\* The units of p on a committed sale, now and after a step.
LEMMA UnitsSoldIs ==
    ASSUME NEW s, NEW p
    PROVE  /\ UnitsSold(s, p) = UnitsOf(sale[s].cur.lines, p)
           /\ UnitsSold(s, p)' = UnitsOf(sale'[s].cur.lines, p)
<1>1. UnitsSold(s, p) = UnitsOf(sale[s].cur.lines, p)
  BY DEF UnitsSold, UnitsOf, MapThenSumSet, MapThenFoldSet
<1>2. UnitsSold(s, p)' = UnitsOf(sale'[s].cur.lines, p)
  BY DEF UnitsSold, UnitsOf, MapThenSumSet, MapThenFoldSet
<1> QED
  BY <1>1, <1>2

\* f gives for each line in S what its units have cost.
CostByLine(ls, S, f) == \A i \in S : f[i] = ls[i].qty * UnitCost[ls[i].batch]

\* The cost of the lines of a sale.
LEMMA CostIs ==
    ASSUME NEW s, NEW ls, ls = sale[s].cur.lines, NEW S, S = DOMAIN ls, IsFiniteSet(S),
           NEW f, CostByLine(ls, S, f)
    PROVE  CostOf(s) = SumOf(f, S)
<1> DEFINE P(it) == it = [r \in SUBSET S |->
                            IF r = {} THEN 0
                            ELSE ls[Next1(r)].qty * UnitCost[ls[Next1(r)].batch] + it[r \ {Next1(r)}]]
<1>1. ASSUME NEW it PROVE P(it) <=> Sums(f, S, it)
  <2>1. \A r \in SUBSET S : r # {} => f[Next1(r)] = ls[Next1(r)].qty * UnitCost[ls[Next1(r)].batch]
    BY Next1In DEF CostByLine
  <2> QED
    BY <2>1 DEF Sums
<1>2. PICK jt : Sums(f, S, jt)
  BY SumsExist
<1>3. P(CHOOSE it : P(it))
  BY <1>1, <1>2
<1>4. CostOf(s) = (CHOOSE it : P(it))[S]
  BY DEF CostOf, MapThenSumSet, MapThenFoldSet, Next1
<1> HIDE DEF P
<1> QED
  BY <1>1, <1>3, <1>4, TotalIs

\* What the units of a sale bring.
LEMMA RevenueIs ==
    ASSUME NEW s, IsFiniteSet(Products), NEW f,
           \A p \in Products : f[p] = RetailPrice[p] * UnitsSold(s, p)
    PROVE  RevenueOf(s) = SumOf(f, Products)
<1> DEFINE P(it) == it = [r \in SUBSET Products |->
                            IF r = {} THEN 0
                            ELSE RetailPrice[Next1(r)] * UnitsSold(s, Next1(r)) + it[r \ {Next1(r)}]]
<1>1. ASSUME NEW it PROVE P(it) <=> Sums(f, Products, it)
  <2>1. \A r \in SUBSET Products : r # {} => f[Next1(r)] = RetailPrice[Next1(r)] * UnitsSold(s, Next1(r))
    BY Next1In
  <2> QED
    BY <2>1 DEF Sums
<1>2. PICK jt : Sums(f, Products, jt)
  BY SumsExist
<1>3. P(CHOOSE it : P(it))
  BY <1>1, <1>2
<1>4. RevenueOf(s) = (CHOOSE it : P(it))[Products]
  BY DEF RevenueOf, MapThenSumSet, MapThenFoldSet, Next1
<1> HIDE DEF P
<1> QED
  BY <1>1, <1>3, <1>4, TotalIs

\* The figures of a set of sales.
LEMMA CostSumIs ==
    ASSUME NEW S, IsFiniteSet(S), NEW f, \A s \in S : f[s] = CostOf(s)
    PROVE  MapThenSumSet(CostOf, S) = SumOf(f, S)
<1> DEFINE P(it) == it = [r \in SUBSET S |-> IF r = {} THEN 0 ELSE CostOf(Next1(r)) + it[r \ {Next1(r)}]]
<1>1. ASSUME NEW it PROVE P(it) <=> Sums(f, S, it)
  <2>1. \A r \in SUBSET S : r # {} => f[Next1(r)] = CostOf(Next1(r))
    BY Next1In
  <2> QED
    BY <2>1 DEF Sums
<1>2. PICK jt : Sums(f, S, jt)
  BY SumsExist
<1>3. P(CHOOSE it : P(it))
  BY <1>1, <1>2
<1>4. MapThenSumSet(CostOf, S) = (CHOOSE it : P(it))[S]
  BY DEF MapThenSumSet, MapThenFoldSet, Next1
<1> HIDE DEF P
<1> QED
  BY <1>1, <1>3, <1>4, TotalIs

\* What a set of sales brought.
LEMMA RevenueSumIs ==
    ASSUME NEW S, IsFiniteSet(S), NEW f, \A s \in S : f[s] = RevenueOf(s)
    PROVE  MapThenSumSet(RevenueOf, S) = SumOf(f, S)
<1> DEFINE P(it) == it = [r \in SUBSET S |-> IF r = {} THEN 0 ELSE RevenueOf(Next1(r)) + it[r \ {Next1(r)}]]
<1>1. ASSUME NEW it PROVE P(it) <=> Sums(f, S, it)
  <2>1. \A r \in SUBSET S : r # {} => f[Next1(r)] = RevenueOf(Next1(r))
    BY Next1In
  <2> QED
    BY <2>1 DEF Sums
<1>2. PICK jt : Sums(f, S, jt)
  BY SumsExist
<1>3. P(CHOOSE it : P(it))
  BY <1>1, <1>2
<1>4. MapThenSumSet(RevenueOf, S) = (CHOOSE it : P(it))[S]
  BY DEF MapThenSumSet, MapThenFoldSet, Next1
<1> HIDE DEF P
<1> QED
  BY <1>1, <1>3, <1>4, TotalIs

\* The units of a product on a set of sales.
LEMMA QuantitySumIs ==
    ASSUME NEW p, NEW S, IsFiniteSet(S), NEW f, \A s \in S : f[s] = UnitsSold(s, p)
    PROVE  MapThenSumSet(LAMBDA s : UnitsSold(s, p), S) = SumOf(f, S)
<1> DEFINE P(it) == it = [r \in SUBSET S |->
                            IF r = {} THEN 0 ELSE UnitsSold(Next1(r), p) + it[r \ {Next1(r)}]]
<1>1. ASSUME NEW it PROVE P(it) <=> Sums(f, S, it)
  <2>1. \A r \in SUBSET S : r # {} => f[Next1(r)] = UnitsSold(Next1(r), p)
    BY Next1In
  <2> QED
    BY <2>1 DEF Sums
<1>2. PICK jt : Sums(f, S, jt)
  BY SumsExist
<1>3. P(CHOOSE it : P(it))
  BY <1>1, <1>2
<1>4. MapThenSumSet(LAMBDA s : UnitsSold(s, p), S) = (CHOOSE it : P(it))[S]
  BY DEF MapThenSumSet, MapThenFoldSet, Next1
<1> HIDE DEF P
<1> QED
  BY <1>1, <1>3, <1>4, TotalIs

\* What the reports read of a sale.
LEMMA SaleRead ==
    ASSUME TypeOK, NEW s \in SaleIds
    PROVE  /\ sale[s].cur.lines \in Seq(Line)
           /\ sale[s].cur.date \in Nat
           /\ sale[s].cur.status \in {"none", "completed", "void"}
<1>1. sale[s] \in Versions(SaleRow, Workers)
  BY DEF TypeOK
<1> QED
  BY <1>1 DEF Versions, SaleRow

LEMMA UnitsSoldTyped == ASSUME TypeOK, NEW s \in SaleIds, NEW p PROVE UnitsSold(s, p) \in Nat
<1>1. PICK ls, S : ls = sale[s].cur.lines /\ S = 1 .. Len(ls)
  OBVIOUS
<1>2. ls \in Seq(Line)
  BY <1>1, SaleRead
<1>3. PICK f : UnitsByProduct(ls, p, S, f)
  BY UnitsByProductExist
<1>4. UnitsSold(s, p) = UnitsOf(ls, p)
  BY <1>1 DEF UnitsSold, UnitsOf, MapThenSumSet, MapThenFoldSet
<1>5. UnitsOf(ls, p) = SumOf(f, S) /\ IsFiniteSet(S)
  BY <1>1, <1>2, <1>3, UnitsOfIs
<1>6. \A i \in S : f[i] \in Nat
  <2>1. \A i \in S : ls[i] \in Line
    BY <1>1, <1>2
  <2> QED
    BY <1>3, <2>1 DEF UnitsByProduct, Line
<1> QED
  BY <1>4, <1>5, <1>6, TotalSub

LEMMA CostTyped == ASSUME TypeOK, NEW s \in SaleIds PROVE CostOf(s) \in Nat
<1>1. PICK ls, S : ls = sale[s].cur.lines /\ S = DOMAIN ls
  OBVIOUS
<1>2. ls \in Seq(Line)
  BY <1>1, SaleRead
<1>3. PICK f : CostByLine(ls, S, f)
  <2>1. \A i \in S : [j \in S |-> ls[j].qty * UnitCost[ls[j].batch]][i] = ls[i].qty * UnitCost[ls[i].batch]
    OBVIOUS
  <2> QED
    BY <2>1 DEF CostByLine
<1>5. S = 1 .. Len(ls) /\ IsFiniteSet(S)
  <2>1. S = 1 .. Len(ls) /\ 1 \in Int /\ Len(ls) \in Int
    BY <1>1, <1>2
  <2> QED
    BY <2>1, FS_Interval
<1>6. CostOf(s) = SumOf(f, S)
  BY <1>1, <1>3, <1>5, CostIs
<1>7. \A i \in S : f[i] \in Nat
  <2>1. SUFFICES ASSUME NEW i \in S PROVE f[i] \in Nat
    OBVIOUS
  <2>2. ls[i] \in Line
    BY <1>2, <1>5
  <2>3. ls[i].qty \in Nat /\ UnitCost[ls[i].batch] \in Nat
    BY <2>2, ReportsAssumption DEF Line
  <2> QED
    BY <1>3, <2>3 DEF CostByLine
<1> QED
  BY <1>5, <1>6, <1>7, TotalSub

LEMMA RevenueTyped == ASSUME TypeOK, NEW s \in SaleIds PROVE RevenueOf(s) \in Nat
<1>1. PICK f : \A p \in Products : f[p] = RetailPrice[p] * UnitsSold(s, p)
  <2>1. \A p \in Products : [q \in Products |-> RetailPrice[q] * UnitsSold(s, q)][p] = RetailPrice[p] * UnitsSold(s, p)
    OBVIOUS
  <2> QED
    BY <2>1
<1>2. IsFiniteSet(Products)
  BY ReportsAssumption
<1>3. RevenueOf(s) = SumOf(f, Products)
  BY <1>1, <1>2, RevenueIs
<1>4. \A p \in Products : f[p] \in Nat
  <2>1. SUFFICES ASSUME NEW p \in Products PROVE f[p] \in Nat
    OBVIOUS
  <2>2. RetailPrice[p] \in Nat /\ UnitsSold(s, p) \in Nat
    BY ReportsAssumption, UnitsSoldTyped
  <2> QED
    BY <1>1, <2>2
<1> QED
  BY <1>2, <1>3, <1>4, TotalSub

LEMMA PeriodFinite ==
    ASSUME NEW from, NEW to
    PROVE  InPeriod(from, to) \subseteq SaleIds /\ IsFiniteSet(InPeriod(from, to))
<1>1. InPeriod(from, to) \subseteq SaleIds
  BY DEF InPeriod
<1> QED
  BY <1>1, SalesFinite, FS_Subset

\* The sales of a period are those of its two halves, none in both.
LEMMA Halves ==
    ASSUME TypeOK, NEW from \in Int, NEW mid \in Int, NEW to \in Int, from <= mid, mid <= to
    PROVE  /\ InPeriod(from, to) = InPeriod(from, mid - 1) \cup InPeriod(mid, to)
           /\ InPeriod(from, mid - 1) \cap InPeriod(mid, to) = {}
<1>1. ASSUME NEW s \in SaleIds
      PROVE  /\ s \in InPeriod(from, to) <=> s \in InPeriod(from, mid - 1) \/ s \in InPeriod(mid, to)
             /\ ~(s \in InPeriod(from, mid - 1) /\ s \in InPeriod(mid, to))
  <2>1. PICK d \in Nat : d = sale[s].cur.date
    BY SaleRead
  <2>2. d \in from .. to <=> d \in from .. mid - 1 \/ d \in mid .. to
    OBVIOUS
  <2>3. ~(d \in from .. mid - 1 /\ d \in mid .. to)
    OBVIOUS
  <2> QED
    BY <2>1, <2>2, <2>3 DEF InPeriod
<1>2. \A a, b : InPeriod(a, b) \subseteq SaleIds
  BY PeriodFinite
<1> QED
  BY <1>1, <1>2

\* Every day of a period has its share of the transactions.
LEMMA DaysAddUp ==
    ASSUME TypeOK, NEW from \in Int, NEW to \in Int
    PROVE  MapThenSumSet(LAMBDA d : DailyBreakdown(from, to)[d], from .. to) = Transactions(from, to)
<1>1. PICK S, D : S = InPeriod(from, to) /\ D = from .. to
  OBVIOUS
<1>2. PICK f : \A s \in S : f[s] = sale[s].cur.date
  <2>1. \A s \in S : [r \in S |-> sale[r].cur.date][s] = sale[s].cur.date
    OBVIOUS
  <2> QED
    BY <2>1
<1>3. IsFiniteSet(S) /\ IsFiniteSet(D)
  BY <1>1, PeriodFinite, FS_Interval
<1>4. \A s \in S : f[s] \in D
  BY <1>1, <1>2 DEF InPeriod
<1>5. SumOf([d \in D |-> Cardinality({s \in S : f[s] = d})], D) = Cardinality(S)
  BY <1>3, <1>4, CountByValue
<1>6. DailyBreakdown(from, to) = [d \in D |-> Cardinality({s \in S : f[s] = d})]
  <2>1. \A d \in D : {s \in S : sale[s].cur.date = d} = {s \in S : f[s] = d}
    BY <1>2
  <2> QED
    BY <1>1, <2>1 DEF DailyBreakdown
<1>7. MapThenSumSet(LAMBDA d : DailyBreakdown(from, to)[d], from .. to) = SumOf(DailyBreakdown(from, to), D)
  BY <1>1 DEF SumOf
<1> QED
  BY <1>1, <1>5, <1>6, <1>7 DEF Transactions

\* Transactions and profit of a period are those of its halves together.
LEMMA HalvesCount ==
    ASSUME TypeOK, NEW from \in Int, NEW mid \in Int, NEW to \in Int, from <= mid, mid <= to
    PROVE  Transactions(mid, to) + Transactions(from, mid - 1) = Transactions(from, to)
<1>1. PICK S, R, U : S = InPeriod(from, mid - 1) /\ R = InPeriod(mid, to) /\ U = InPeriod(from, to)
  OBVIOUS
<1>2. IsFiniteSet(S) /\ IsFiniteSet(R) /\ U = S \cup R /\ S \cap R = {}
  BY <1>1, PeriodFinite, Halves
<1>3. Cardinality(S \cup R) = Cardinality(S) + Cardinality(R) - Cardinality(S \cap R)
  BY <1>2, FS_Union
<1>4. Cardinality(S) \in Nat /\ Cardinality(R) \in Nat /\ Cardinality({}) = 0
  BY <1>2, FS_CardinalityType, FS_EmptySet
<1>5. Cardinality(U) = Cardinality(S) + Cardinality(R)
  <2>1. Cardinality(S \cap R) = 0
    BY <1>2, <1>4, Zenon
  <2>2. Cardinality(U) = Cardinality(S \cup R)
    BY <1>2, Zenon
  <2> QED
    BY <1>3, <1>4, <2>1, <2>2
<1> QED
  BY <1>1, <1>4, <1>5 DEF Transactions

LEMMA HalvesProfit ==
    ASSUME TypeOK, NEW from \in Int, NEW mid \in Int, NEW to \in Int, from <= mid, mid <= to
    PROVE  /\ GrossProfit(mid, to) + GrossProfit(from, mid - 1) = GrossProfit(from, to)
           /\ GrossProfit(mid, to) \in Int /\ GrossProfit(from, mid - 1) \in Int
<1>1. PICK S, R, U : S = InPeriod(from, mid - 1) /\ R = InPeriod(mid, to) /\ U = InPeriod(from, to)
  OBVIOUS
<1>2. IsFiniteSet(S) /\ IsFiniteSet(R) /\ IsFiniteSet(U) /\ U \subseteq SaleIds /\ U = S \cup R /\ S \cap R = {}
  BY <1>1, PeriodFinite, Halves
<1>3. PICK c : \A s \in U : c[s] = CostOf(s)
  <2>1. \A s \in U : [q \in U |-> CostOf(q)][s] = CostOf(s)
    OBVIOUS
  <2> QED
    BY <2>1
<1>4. PICK v : \A s \in U : v[s] = RevenueOf(s)
  <2>1. \A s \in U : [q \in U |-> RevenueOf(q)][s] = RevenueOf(s)
    OBVIOUS
  <2> QED
    BY <2>1
<1>5. \A s \in U : c[s] \in Int /\ v[s] \in Int
  BY <1>2, <1>3, <1>4, CostTyped, RevenueTyped
<1>6. /\ TotalCost(from, mid - 1) = SumOf(c, S)
      /\ TotalCost(mid, to) = SumOf(c, R)
      /\ TotalCost(from, to) = SumOf(c, U)
  <2>1. \A a, b : TotalCost(a, b) = MapThenSumSet(CostOf, InPeriod(a, b))
    BY DEF TotalCost
  <2>2. MapThenSumSet(CostOf, S) = SumOf(c, S)
    BY <1>2, <1>3, CostSumIs
  <2>3. MapThenSumSet(CostOf, R) = SumOf(c, R)
    BY <1>2, <1>3, CostSumIs
  <2>4. MapThenSumSet(CostOf, U) = SumOf(c, U)
    BY <1>2, <1>3, CostSumIs
  <2> QED
    BY <1>1, <2>2, <2>3, <2>4 DEF TotalCost
<1>7. /\ TotalRevenue(from, mid - 1) = SumOf(v, S)
      /\ TotalRevenue(mid, to) = SumOf(v, R)
      /\ TotalRevenue(from, to) = SumOf(v, U)
  <2>2. MapThenSumSet(RevenueOf, S) = SumOf(v, S)
    BY <1>2, <1>4, RevenueSumIs
  <2>3. MapThenSumSet(RevenueOf, R) = SumOf(v, R)
    BY <1>2, <1>4, RevenueSumIs
  <2>4. MapThenSumSet(RevenueOf, U) = SumOf(v, U)
    BY <1>2, <1>4, RevenueSumIs
  <2> QED
    BY <1>1, <2>2, <2>3, <2>4 DEF TotalRevenue
<1>8. SumOf(c, U) = SumOf(c, S) + SumOf(c, R)
  BY <1>2, <1>5, TotalUnion
<1>9. SumOf(v, U) = SumOf(v, S) + SumOf(v, R)
  BY <1>2, <1>5, TotalUnion
<1>10. SumOf(c, S) \in Int /\ SumOf(c, R) \in Int
  BY <1>2, <1>5, TotalInt
<1>11. SumOf(v, S) \in Int /\ SumOf(v, R) \in Int
  BY <1>2, <1>5, TotalInt
<1> QED
  BY <1>6, <1>7, <1>8, <1>9, <1>10, <1>11 DEF GrossProfit

\* Compared with no loss, the arrow points the way the profit went.
LEMMA TrendRight ==
    ASSUME NEW now \in Int, NEW before \in Nat
    PROVE  /\ Trend(now, before) = "up" => now > before
           /\ Trend(now, before) = "down" => now < before
<1>1. CASE before = 0
  BY <1>1 DEF Trend
<1>2. CASE before > 0
  BY <1>2 DEF Trend
<1> QED
  BY <1>1, <1>2

\* What a report adds up is right of any tables of the right types.
LEMMA ReportsAdd == TypeOK => ReportsAgree
<1> SUFFICES ASSUME TypeOK, NEW from \in Days, NEW to \in from .. LastDay
             PROVE  LET before == PreviousRange(from, to) IN
                    /\ MapThenSumSet(LAMBDA d : DailyBreakdown(from, to)[d], from .. to) = Transactions(from, to)
                    /\ Transactions(from, to) + Transactions(before[1], before[2]) = Transactions(before[1], to)
                    /\ GrossProfit(from, to) + GrossProfit(before[1], before[2]) = GrossProfit(before[1], to)
                    /\ LET r == ProfitReport(from, to) IN
                       r.previous >= 0 => /\ r.trend = "up" => r.profit > r.previous
                                          /\ r.trend = "down" => r.profit < r.previous
  BY DEF ReportsAgree
<1>1. from \in Int /\ to \in Int /\ from <= to
  BY TablesAssumption DEF Days
<1>2. PICK start \in Int : start = from - 1 - (to - from) /\ start <= from
  BY <1>1
<1>3. PreviousRange(from, to)[1] = start /\ PreviousRange(from, to)[2] = from - 1
  BY <1>2 DEF PreviousRange
<1>4. MapThenSumSet(LAMBDA d : DailyBreakdown(from, to)[d], from .. to) = Transactions(from, to)
  BY <1>1, DaysAddUp
<1>5. Transactions(from, to) + Transactions(start, from - 1) = Transactions(start, to)
  BY <1>1, <1>2, HalvesCount
<1>6. PICK now \in Int, before \in Int : now = GrossProfit(from, to) /\ before = GrossProfit(start, from - 1)
  BY <1>1, <1>2, HalvesProfit
<1>7. now + before = GrossProfit(start, to)
  BY <1>1, <1>2, <1>6, HalvesProfit
<1>8. PICK r : r = ProfitReport(from, to)
  OBVIOUS
<1>9. r.profit = now /\ r.previous = before /\ r.trend = Trend(now, before)
  BY <1>3, <1>6, <1>8 DEF ProfitReport
<1>10. r.previous >= 0 => /\ r.trend = "up" => r.profit > r.previous
                          /\ r.trend = "down" => r.profit < r.previous
  BY <1>6, <1>9, TrendRight
<1> QED
  BY <1>3, <1>4, <1>5, <1>6, <1>7, <1>8, <1>10

\* Whatever the handlers do, a report read at any moment adds up: the days to the
\* period, both halves to the whole, and the arrow at the profit points the right
\* way unless it is compared with a loss (reports.service.ts:28-175, 364-441).
THEOREM ReportsAddUp == Spec => []ReportsAgree
  BY StoreTypes, ReportsAdd, PTL

-----------------------------------------------------------------------------
(* Days that are over                                                      *)

\* The ways a step treats the table: a rollback, a commit, a new sale, one more
\* line, the mark of a void, or not at all.
LEMMA SaleSteps ==
    ASSUME [Next]_vars
    PROVE  \/ sale' = sale
           \/ \E w \in Workers : sale' = RollbackTable(sale, w)
           \/ \E w \in Workers : Commit(w) \/ InsertSale(w) \/ TakeBatch(w) \/ SaveUpdate(w)
<1> DEFINE Goal == \/ sale' = sale
                   \/ \E w \in Workers : sale' = RollbackTable(sale, w)
                   \/ \E w \in Workers : Commit(w) \/ InsertSale(w) \/ TakeBatch(w) \/ SaveUpdate(w)
<1>1. ASSUME NEW w \in Workers, Abort(w) PROVE Goal
  BY <1>1 DEF Abort
<1>2. ASSUME NEW w \in Workers, Create(w) PROVE Goal
  BY <1>1, <1>2 DEF Create, FindCustomer, CheckStock, GenerateSaleNumber, FindBatches, ShortOfBatches,
                    DeductProduct, ChargeCustomer, tables
<1>3. ASSUME NEW w \in Workers, VoidSale(w) PROVE Goal
  BY <1>1, <1>3 DEF VoidSale, FindSale, RestockProduct, RestockBatch, ReverseCredit, SetVoid, tables
<1>4. ASSUME NEW w \in Workers, Adjust(w) PROVE Goal
  BY <1>1, <1>4 DEF Adjust, FindStock, StockIn, StockOut, DrainBatch, BatchesExhausted, DeductStock, tables
<1>5. ASSUME NEW w \in Workers, MaintainProducts(w) PROVE Goal
  BY <1>1, <1>5 DEF MaintainProducts, FindProduct, EditProduct, RemoveProduct, tables
<1>6. ASSUME NEW w \in Workers, MaintainCustomers(w) PROVE Goal
  BY <1>1, <1>6 DEF MaintainCustomers, FindAccount, EditCustomer, DeactivateCustomer, FindDebtor,
                    InsertPayment, tables
<1>7. ASSUME NEW w \in Workers, SaveSelect(w) PROVE Goal
  BY <1>7 DEF SaveSelect, tables
<1>8. ASSUME NEW w \in Workers, DeadlockVictim(w) \/ Disconnect(w) PROVE Goal
  BY <1>1, <1>8 DEF DeadlockVictim, Disconnect
<1>9. ASSUME NEW w \in Workers, NEW r \in Requests, Begin(w, r) PROVE Goal
  BY <1>9 DEF Begin, tables
<1>10. CASE Midnight
  BY <1>10 DEF Midnight, tables
<1>11. CASE UNCHANGED vars
  BY <1>11 DEF vars
<1> QED
  BY <1>2, <1>3, <1>4, <1>5, <1>6, <1>7, <1>8, <1>9, <1>10, <1>11 DEF Next, Closed, Step

\* A statement that writes one row of sales, dated no earlier than its number.
LEMMA WriteKeepsDates ==
    ASSUME TypeOK, DatesFollow, NEW n \in SaleIds, NEW w, NEW v, n[1] <= v.date,
           sale' = [sale EXCEPT ![n] = Written(@, w, v)]
    PROVE  DatesFollow' /\ \A s \in SaleIds : sale'[s].cur = sale[s].cur
<1>1. /\ sale'[n].cur = sale[n].cur /\ sale'[n].new = v
      /\ \A s \in SaleIds \ {n} : sale'[s] = sale[s]
  BY DEF TypeOK, Versions, Written
<1>2. \A s \in SaleIds : sale'[s].cur = sale[s].cur
  BY <1>1
<1> QED
  BY <1>1, <1>2 DEF DatesFollow, Taken

\* A rollback leaves the rows of the others alone, and takes its own back.
LEMMA UndoneKeepsDates ==
    ASSUME TypeOK, DatesFollow, NEW w \in Workers, sale' = RollbackTable(sale, w)
    PROVE  DatesFollow' /\ \A s \in SaleIds : sale'[s].cur = sale[s].cur
<1>1. \A s \in SaleIds : /\ sale'[s].cur = sale[s].cur
                         /\ sale[s].xid # w => sale'[s] = sale[s]
                         /\ sale[s].xid = w => sale'[s].xid = NoTx
  BY DEF RollbackTable, RollbackRow, Stored, TypeOK
<1> QED
  BY <1>1 DEF DatesFollow, Taken

LEMMA NewSaleKeepsDates ==
    ASSUME StoreSound, DatesFollow, NEW w \in Workers, InsertSale(w)
    PROVE  DatesFollow' /\ \A s \in SaleIds : sale'[s].cur = sale[s].cur
<1>1. CASE sale' = RollbackTable(sale, w)
  BY <1>1, UndoneKeepsDates DEF StoreSound
<1>2. CASE sale[num[w]].cur.status = "none"
  <2>1. PICK n : n = num[w]
    OBVIOUS
  <2>2. PICK d \in Dates(w) : sale' = [sale EXCEPT ![n] = Written(@, w, NewSale(tx[w].req, d))]
    BY <1>2, <2>1 DEF InsertSale
  <2>3. n \in SaleIds
    BY <2>1 DEF InsertSale, StoreSound, NumbersHeld, NumberFits, At, Saves
  <2>4. n[1] <= NewSale(tx[w].req, d).date
    BY <2>1, <2>2, <2>3 DEF Dates, NewSale, SaleIds, StoreSound, TypeOK
  <2>5. TypeOK
    BY DEF StoreSound
  <2> QED
    BY <2>2, <2>3, <2>4, <2>5, WriteKeepsDates
<1> QED
  BY <1>1, <1>2 DEF InsertSale, Abort

LEMMA LineKeepsDates ==
    ASSUME StoreSound, DatesFollow, NEW w \in Workers, TakeBatch(w)
    PROVE  DatesFollow' /\ \A s \in SaleIds : sale'[s].cur = sale[s].cur
<1>1. PICK n : n = num[w]
  OBVIOUS
<1>2. PICK b, d : sale' = [sale EXCEPT ![n] = Written(@, w, WithItem(@.new, b, d))]
  BY <1>1 DEF TakeBatch
<1>3. n \in SaleIds /\ sale[n].xid = w
  BY <1>1 DEF TakeBatch, StoreSound, NumbersHeld, NumberFits, Holds, At, Saves, BatchSection
<1>4. PICK v : v = WithItem(sale[n].new, b, d)
  OBVIOUS
<1>5. TypeOK /\ w # NoTx
  BY TablesAssumption DEF StoreSound
<1>6. n[1] <= v.date
  <2>1. sale[n].new \in SaleRow
    BY <1>3, <1>5 DEF TypeOK, Versions
  <2>2. v.date = sale[n].new.date
    BY <1>4, <2>1 DEF WithItem, SaleRow
  <2> QED
    BY <1>3, <1>5, <2>2 DEF DatesFollow
<1>7. sale' = [sale EXCEPT ![n] = Written(@, w, v)]
  BY <1>2, <1>4
<1> QED
  BY <1>3, <1>5, <1>6, <1>7, WriteKeepsDates

LEMMA SaveKeepsDates ==
    ASSUME StoreSound, DatesFollow, NEW w \in Workers, SaveUpdate(w)
    PROVE  DatesFollow' /\ \A s \in SaleIds : sale'[s].cur = sale[s].cur
<1>1. PICK t : t = tx[w]
  OBVIOUS
<1>2. TypeOK /\ w # NoTx /\ SaveTyped(t)
  BY <1>1, TablesAssumption DEF SaveUpdate, StoreSound, HandlersKnow, Knows, Saves
<1>3. CASE t.tbl # "sale"
  BY <1>1, <1>3 DEF SaveUpdate, Updated, DatesFollow, Taken
<1>4. CASE t.tbl = "sale"
  <2>1. PICK k, old : k = t.key /\ old = Seen(sale[k], w)
    OBVIOUS
  <2>2. k \in SaleIds /\ Taken(k) /\ SameSale(t.ent, sale[k].cur) /\ t.ent \in SaleRow
    BY <1>2, <1>4, <2>1 DEF SaveTyped, VoidForm
  <2>3. sale[k].cur \in SaleRow /\ sale[k].new \in SaleRow
    BY <1>2, <2>2 DEF TypeOK, Versions
  <2>4. k[1] <= t.ent.date
    BY <2>2, <2>3 DEF SameSale, SaleRow, DatesFollow
  <2>5. old \in SaleRow /\ k[1] <= old.date
    BY <1>2, <2>1, <2>2, <2>3 DEF Seen, DatesFollow
  <2>6. PICK v : v = Patched(old, t.ent, t.cols)
    OBVIOUS
  <2>7. k[1] <= v.date
    BY <2>4, <2>5, <2>6 DEF Patched, SaleRow
  <2>8. sale' = [sale EXCEPT ![k] = Written(@, w, v)]
    BY <1>1, <1>4, <2>1, <2>6 DEF SaveUpdate, Updated
  <2> QED
    BY <1>2, <2>2, <2>7, <2>8, WriteKeepsDates
<1> QED
  BY <1>3, <1>4

\* A commit publishes what its transaction wrote, and nothing else.
LEMMA CommitKeepsDates ==
    ASSUME TypeOK, DatesFollow, NEW w \in Workers, Commit(w)
    PROVE  /\ DatesFollow'
           /\ \A s \in SaleIds : \/ sale'[s].cur = sale[s].cur
                                 \/ sale[s].xid = w /\ sale'[s].cur = sale[s].new
<1>1. \A s \in SaleIds : /\ sale[s].xid # w => sale'[s] = sale[s]
                         /\ sale[s].xid = w => sale'[s].cur = sale[s].new /\ sale'[s].xid = NoTx
  BY DEF Commit, CommitTable, CommitRow, Stored, TypeOK
<1>2. \A s \in SaleIds : \/ sale'[s] = sale[s]
                         \/ sale[s].xid = w /\ sale'[s].cur = sale[s].new /\ sale'[s].xid = NoTx
  BY <1>1
<1>3. w # NoTx
  BY TablesAssumption
<1> QED
  BY <1>2, <1>3 DEF DatesFollow, Taken

\* Every step keeps the dates, and only a commit changes a sale in the table.
LEMMA NextKeepsDates ==
    ASSUME StoreSound, DatesFollow, [Next]_vars
    PROVE  /\ DatesFollow'
           /\ \/ \A s \in SaleIds : sale'[s].cur = sale[s].cur
              \/ \E w \in Workers : \A s \in SaleIds :
                    sale'[s].cur = sale[s].cur \/ (sale[s].xid = w /\ sale'[s].cur = sale[s].new)
<1>1. CASE sale' = sale
  BY <1>1 DEF DatesFollow, Taken
<1>2. ASSUME NEW w \in Workers, sale' = RollbackTable(sale, w)
      PROVE  DatesFollow' /\ \A s \in SaleIds : sale'[s].cur = sale[s].cur
  BY <1>2, UndoneKeepsDates DEF StoreSound
<1>3. ASSUME NEW w \in Workers, InsertSale(w) \/ TakeBatch(w) \/ SaveUpdate(w)
      PROVE  DatesFollow' /\ \A s \in SaleIds : sale'[s].cur = sale[s].cur
  BY <1>3, NewSaleKeepsDates, LineKeepsDates, SaveKeepsDates
<1>4. ASSUME NEW w \in Workers, Commit(w)
      PROVE  /\ DatesFollow'
             /\ \A s \in SaleIds : \/ sale'[s].cur = sale[s].cur
                                   \/ sale[s].xid = w /\ sale'[s].cur = sale[s].new
  <2>1. TypeOK
    BY DEF StoreSound
  <2> QED
    BY <1>4, <2>1, CommitKeepsDates
<1> QED
  BY <1>1, <1>2, <1>3, <1>4, SaleSteps

\* A sale that is completed after a step, and dated on a day that is over and that
\* no open checkout has a number of, was completed before it, with the same lines.
LEMMA ClosedDay ==
    ASSUME StoreSound, DatesFollow, [Next]_vars, SalesKept, NEW d \in Days,
           \A w \in Workers : num[w] = NoNumber \/ num[w][1] > d,
           NEW s \in SaleIds, s \in InPeriod(d, d)'
    PROVE  s \in InPeriod(d, d) /\ sale'[s].cur.lines = sale[s].cur.lines
<1>1. sale'[s].cur.status = "completed" /\ sale'[s].cur.date \in d .. d
  BY DEF InPeriod
<1>2. d \in Int
  BY TablesAssumption DEF Days
<1>3. sale'[s].cur.date = d
  BY <1>1, <1>2
<1>4. sale[s] \in Versions(SaleRow, Workers)
  BY DEF StoreSound, TypeOK
<1>5. Taken(s)
  <2>1. SUFFICES ASSUME ~Taken(s) PROVE FALSE
    OBVIOUS
  <2>2. PICK w \in Workers : sale[s].xid = w /\ sale'[s].cur = sale[s].new
    BY <1>1, <2>1, NextKeepsDates DEF Taken
  <2>3. num[w] = s
    BY <2>1, <2>2, TablesAssumption DEF StoreSound, OpenSalesOwned, Inserted, Marked
  <2>4. s[1] <= d
    BY <1>3, <2>2, TablesAssumption DEF DatesFollow
  <2>5. s[1] \in Nat /\ s # NoNumber
    BY NoNumberIsNoSale DEF SaleIds
  <2> QED
    BY <1>2, <2>3, <2>4, <2>5
<1>6. SameSale(sale[s].cur, sale'[s].cur) /\ sale[s].cur.status # "void"
  BY <1>1, <1>5 DEF SalesKept
<1>7. StoreSound'
  BY NextKeepsStore
<1>8. sale'[s].cur \in SaleRow /\ sale[s].cur \in SaleRow
  BY <1>4, <1>7 DEF StoreSound, TypeOK, Versions
<1>9. sale[s].cur.status = "completed" /\ sale[s].cur.date = d /\ sale'[s].cur.lines = sale[s].cur.lines
  BY <1>3, <1>5, <1>6, <1>8 DEF SameSale, SaleRow, Taken
<1> QED
  BY <1>2, <1>9 DEF InPeriod

LEMMA StartKeepsDates == Init => DatesFollow
  BY DEF Init, DatesFollow, Taken, Stored, NoSale

LEMMA DatesInvariance == Spec => []DatesFollow
<1>1. Init => DatesFollow
  BY StartKeepsDates
<1>2. StoreSound /\ DatesFollow /\ [Next]_vars => DatesFollow'
  BY NextKeepsDates
<1> QED
  BY <1>1, <1>2, StoreInvariance, PTL DEF Spec

\* The cost of the lines ls of a sale.
CostOfLines(ls) == MapThenSumSet(LAMBDA i : ls[i].qty * UnitCost[ls[i].batch], DOMAIN ls)

\* The figures of a day, as sums over its sales.
DayFigures ==
    \A d \in Days : \A p : \E c, q :
        /\ \A s \in SaleIds : /\ c[s] = CostOfLines(sale[s].cur.lines) /\ c[s] \in Nat
                              /\ q[s] = UnitsOf(sale[s].cur.lines, p) /\ q[s] \in Nat
        /\ TotalCost(d, d) = SumOf(c, InPeriod(d, d))
        /\ QuantitySold(p, d, d) = SumOf(q, InPeriod(d, d))
        /\ IsFiniteSet(InPeriod(d, d)) /\ Transactions(d, d) = Cardinality(InPeriod(d, d))

LEMMA FiguresAreSums == TypeOK => DayFigures
<1> SUFFICES ASSUME TypeOK, NEW d \in Days, NEW p
             PROVE  \E c, q :
                      /\ \A s \in SaleIds : /\ c[s] = CostOfLines(sale[s].cur.lines) /\ c[s] \in Nat
                                            /\ q[s] = UnitsOf(sale[s].cur.lines, p) /\ q[s] \in Nat
                      /\ TotalCost(d, d) = SumOf(c, InPeriod(d, d))
                      /\ QuantitySold(p, d, d) = SumOf(q, InPeriod(d, d))
                      /\ IsFiniteSet(InPeriod(d, d)) /\ Transactions(d, d) = Cardinality(InPeriod(d, d))
  BY DEF DayFigures
<1>1. \A s \in SaleIds : /\ CostOf(s) = CostOfLines(sale[s].cur.lines)
                         /\ UnitsSold(s, p) = UnitsOf(sale[s].cur.lines, p)
  BY DEF CostOf, CostOfLines, UnitsSold, UnitsOf, MapThenSumSet, MapThenFoldSet
<1>2. PICK c : \A s \in SaleIds : c[s] = CostOf(s)
  <2>1. \A s \in SaleIds : [r \in SaleIds |-> CostOf(r)][s] = CostOf(s)
    OBVIOUS
  <2> QED
    BY <2>1
<1>3. PICK q : \A s \in SaleIds : q[s] = UnitsSold(s, p)
  <2>1. \A s \in SaleIds : [r \in SaleIds |-> UnitsSold(r, p)][s] = UnitsSold(s, p)
    OBVIOUS
  <2> QED
    BY <2>1
<1>4. PICK S : S = InPeriod(d, d)
  OBVIOUS
<1>5. S \subseteq SaleIds /\ IsFiniteSet(S)
  BY <1>4, PeriodFinite
<1>6. MapThenSumSet(CostOf, S) = SumOf(c, S)
  BY <1>2, <1>5, CostSumIs
<1>7. MapThenSumSet(LAMBDA s : UnitsSold(s, p), S) = SumOf(q, S)
  BY <1>3, <1>5, QuantitySumIs
<1>8. TotalCost(d, d) = SumOf(c, S) /\ QuantitySold(p, d, d) = SumOf(q, S)
  BY <1>4, <1>6, <1>7 DEF TotalCost, QuantitySold
<1>9. \A s \in SaleIds : c[s] \in Nat /\ q[s] \in Nat
  BY <1>2, <1>3, CostTyped, UnitsSoldTyped
<1>10. \A s \in SaleIds : /\ c[s] = CostOfLines(sale[s].cur.lines) /\ c[s] \in Nat
                          /\ q[s] = UnitsOf(sale[s].cur.lines, p) /\ q[s] \in Nat
  BY <1>1, <1>2, <1>3, <1>9
<1> QED
  BY <1>4, <1>5, <1>8, <1>10 DEF Transactions

\* No figure of such a day grows.
LEMMA ClosedDayShrinks ==
    ASSUME StoreSound, DatesFollow, [Next]_vars, SalesKept, DayFigures, DayFigures', NEW d \in Days,
           \A w \in Workers : num[w] = NoNumber \/ num[w][1] > d, NEW p
    PROVE  /\ Transactions(d, d)' <= Transactions(d, d)
           /\ TotalCost(d, d)' <= TotalCost(d, d)
           /\ QuantitySold(p, d, d)' <= QuantitySold(p, d, d)
<1>1. PICK S, R : S = InPeriod(d, d) /\ R = InPeriod(d, d)'
  OBVIOUS
<1>2. PICK c, q :
        /\ \A s \in SaleIds : /\ c[s] = CostOfLines(sale[s].cur.lines) /\ c[s] \in Nat
                              /\ q[s] = UnitsOf(sale[s].cur.lines, p) /\ q[s] \in Nat
        /\ TotalCost(d, d) = SumOf(c, S) /\ QuantitySold(p, d, d) = SumOf(q, S)
        /\ IsFiniteSet(S) /\ Transactions(d, d) = Cardinality(S)
  BY <1>1 DEF DayFigures
<1>3. PICK e, r :
        /\ \A s \in SaleIds : /\ e[s] = CostOfLines(sale'[s].cur.lines) /\ e[s] \in Nat
                              /\ r[s] = UnitsOf(sale'[s].cur.lines, p) /\ r[s] \in Nat
        /\ TotalCost(d, d)' = SumOf(e, R) /\ QuantitySold(p, d, d)' = SumOf(r, R)
        /\ Transactions(d, d)' = Cardinality(R)
  <2>1. \A s \in SaleIds : /\ CostOfLines(sale[s].cur.lines)' = CostOfLines(sale'[s].cur.lines)
                           /\ UnitsOf(sale[s].cur.lines, p)' = UnitsOf(sale'[s].cur.lines, p)
    BY DEF CostOfLines, UnitsOf, MapThenSumSet, MapThenFoldSet
  <2> QED
    BY <1>1, <2>1 DEF DayFigures
<1>4. S \subseteq SaleIds /\ R \subseteq SaleIds
  BY <1>1 DEF InPeriod
<1>5. \A s \in R : s \in S /\ sale'[s].cur.lines = sale[s].cur.lines
  BY <1>1, <1>4, ClosedDay
<1>6. R \subseteq S
  BY <1>5
<1>7. \A s \in R : e[s] = c[s] /\ r[s] = q[s]
  BY <1>2, <1>3, <1>4, <1>5
<1>8. IsFiniteSet(R) /\ Cardinality(R) <= Cardinality(S)
  BY <1>2, <1>6, FS_Subset
<1>9. SumOf(e, R) = SumOf(c, R) /\ SumOf(r, R) = SumOf(q, R)
  BY <1>7, <1>8, TotalSame
<1>10. \A s \in S : c[s] \in Nat /\ q[s] \in Nat
  BY <1>2, <1>4
<1>11. SumOf(c, R) <= SumOf(c, S)
  BY <1>2, <1>6, <1>10, TotalSub
<1>12. SumOf(q, R) <= SumOf(q, S)
  BY <1>2, <1>6, <1>10, TotalSub
<1> QED
  BY <1>2, <1>3, <1>8, <1>9, <1>11, <1>12

\* Once no open checkout has a number of a day that is over, no step of any handler
\* makes a figure of the day grow: a sale is dated no earlier than its number
\* (sales.service.ts:135-143), and only voids still touch it.
THEOREM ReportsClose == Spec => ClosedDaysShrink
<1>1. StoreSound /\ DatesFollow /\ DayFigures /\ DayFigures' /\ [Next]_vars =>
        [\A d \in Days :
            d < today /\ (\A w \in Workers : num[w] = NoNumber \/ num[w][1] > d) =>
                /\ Transactions(d, d)' <= Transactions(d, d)
                /\ TotalCost(d, d)' <= TotalCost(d, d)
                /\ \A p \in Products : QuantitySold(p, d, d)' <= QuantitySold(p, d, d)]_vars
  <2> SUFFICES ASSUME StoreSound, DatesFollow, DayFigures, DayFigures', [Next]_vars, NEW d \in Days,
                      \A w \in Workers : num[w] = NoNumber \/ num[w][1] > d
               PROVE  /\ Transactions(d, d)' <= Transactions(d, d)
                      /\ TotalCost(d, d)' <= TotalCost(d, d)
                      /\ \A p \in Products : QuantitySold(p, d, d)' <= QuantitySold(p, d, d)
    OBVIOUS
  <2>1. SalesKept
    BY NextKeepsStore
  <2>2. ASSUME NEW p
        PROVE  /\ Transactions(d, d)' <= Transactions(d, d)
               /\ TotalCost(d, d)' <= TotalCost(d, d)
               /\ QuantitySold(p, d, d)' <= QuantitySold(p, d, d)
    BY <2>1, ClosedDayShrinks
  <2> QED
    BY <2>2
<1>2. TypeOK => DayFigures
  BY FiguresAreSums
<1> QED
  BY <1>1, <1>2, StoreInvariance, StoreTypes, DatesInvariance, PTL DEF Spec, ClosedDaysShrink
=============================================================================
