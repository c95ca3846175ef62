---------------------------- MODULE SerialProofs ----------------------------
(***************************************************************************)
(* Theorems about PointOfSale when the store serves one request at a time: *)
(* there stock and batches agree, a void restocks once, the balances cover *)
(* the debt and credit stays within the limits.  The invariant says what   *)
(* the view of the open transaction agrees on at each of its statements,   *)
(* up to what the handler has half done.  What two requests do to each     *)
(* other's reads is in the runs that expect a violation.                   *)
(***************************************************************************)
EXTENDS TillsProofs

-----------------------------------------------------------------------------
(* One request at a time                                                   *)

Serial == \A v, w \in Workers : v = w

\* No edit of a customer gives more credit than the customer had at the start.
LimitsNotRaised ==
    \A r \in Requests : r.kind = "editCustomer" => r.limit <= CreditLimit[r.customer]

\* The tables as they are committed, as the open transaction sees them, and as it
\* sees them once the save that is open at statement l is written.
CurOf(table) == [k \in DOMAIN table |-> table[k].cur]
NewOf(table) == [k \in DOMAIN table |-> table[k].new]
SavedIn(new, name, l, t) == IF l \in Saves /\ t.tbl = name THEN [new EXCEPT ![t.key] = t.ent] ELSE new

\* The units of p in the batches B, the units of b on the completed sales S, and what
\* c owes for them.
HeldIn(B, p) == SumOf([b \in BatchesOf(p) |-> B[b].qty], BatchesOf(p))
UnitsOn(row, b) == IF row.status # "completed" THEN 0 ELSE LineUnits(row.lines, b)
OutIn(S, b) == SumOf([s \in SaleIds |-> UnitsOn(S[s], b)], SaleIds)
CreditOn(row, c) == IF row.customer = c /\ row.status = "completed" THEN row.credit ELSE 0
OwedIn(S, c) == SumOf([s \in SaleIds |-> CreditOn(S[s], c)], SaleIds)

\* What a handler at statement m has read is what it would read again.
AllChecked == {"generateSaleNumber", "insertSale", "findBatches", "takeBatch"}
ProductsFresh(m, u, P) ==
    /\ m = "findCustomer" => u.i = 1
    /\ m = "checkStock" => \A j \in 1 .. u.i - 1 :
          LET p == u.req.items[j].product IN u.prod[p] = P[p]
    /\ m \in AllChecked => \A j \in 1 .. Len(u.req.items) :
          LET p == u.req.items[j].product IN u.prod[p] = P[p]
    /\ m \in {"stockIn", "stockOut", "drainBatch", "editProduct", "removeProduct"} =>
          u.prod[u.req.product] = P[u.req.product]
CustomerFresh(m, u, C) ==
    /\ m \in {"checkStock", "chargeCustomer"} \cup AllChecked /\ u.req.customer # NoCustomer =>
          u.cust = C[u.req.customer]
    /\ m \in {"editCustomer", "deactivateCustomer", "insertPayment"} => u.cust = C[u.req.customer]
Listed(list, B, p) == \A k \in DOMAIN list : list[k] = B[<<p, k>>] /\ list[k].active
ListSeen(m, u, B) ==
    m \in {"takeBatch", "drainBatch"} =>
        Listed(u.list, B, IF m = "takeBatch" THEN ProductOf(u) ELSE u.req.product)
SaleFresh(m, u, S) ==
    m \in Restocking => u.sold = S[u.req.sale] /\ u.sold.status = "completed"
\* A checkout that is past the check has room for its credit.
HasRoom(m, u) ==
    m = "insertSale" /\ u.req.credit > 0 =>
        u.req.customer # NoCustomer /\ u.cust.balance + u.req.credit <= u.cust.limit

Fresh(m, u, P, B, C, S) ==
    /\ ProductsFresh(m, u, P) /\ CustomerFresh(m, u, C) /\ ListSeen(m, u, B) /\ SaleFresh(m, u, S)
    /\ HasRoom(m, u)

\* The stock of p is ahead of its batches by what was taken of them and is still in
\* the stock, or was put back into the stock and not into them.
AheadBy(m, u, p) ==
    CASE m = "takeBatch"    -> IF ProductOf(u) = p THEN u.req.items[u.i].qty - u.left ELSE 0
      [] m = "drainBatch"   -> IF u.req.product = p THEN u.req.qty - u.left ELSE 0
      [] m = "restockBatch" -> IF u.sold.lines[u.i].batch[1] = p THEN u.sold.lines[u.i].qty ELSE 0
      [] OTHER -> 0
StockAgrees(m, u, P, B) ==
    \A p \in Products : P[p].stock = HeldIn(B, p) + AheadBy(m, u, p)

\* Only active batches hold anything, and only batches that came in were sold.
BatchesInUse(B, S) ==
    /\ \A b \in BatchIds : (B[b].active => B[b].made) /\ Emptied(B[b])
    /\ \A s \in SaleIds : \A i \in DOMAIN S[s].lines : B[S[s].lines[i].batch].made

\* The units of batch b that a void has put back.
StillOut(m, u) == u.todo \cup (IF m = "restockBatch" THEN {u.i} ELSE {})
PutBack(m, u, b) ==
    IF m \in Restocking
    THEN SumOf([i \in DOMAIN u.sold.lines |->
                  IF u.sold.lines[i].batch = b THEN u.sold.lines[i].qty ELSE 0],
               DOMAIN u.sold.lines \ StillOut(m, u))
    ELSE 0
UnitsAgree(m, u, B, S) ==
    /\ m = "restockBatch" => u.i \notin u.todo
    /\ m = "setVoid" => u.todo = {}
    /\ \A b \in BatchIds : OpeningBatch(b).made =>
          B[b].made /\ B[b].qty + OutIn(S, b) - PutBack(m, u, b) <= OpeningBatch(b).qty

\* A checkout books its sale before it charges the customer, a void takes the credit
\* back before it marks the sale, and a payment counts from its commit on.
Pending(m, u, c) ==
    CASE m \in BatchSection /\ u.req.customer = c -> u.req.credit
      [] m = "setVoid" /\ u.sold.customer = c -> u.sold.credit
      [] m = "commit" /\ u.pay > 0 /\ u.req.customer = c -> u.pay
      [] OTHER -> 0
BalanceAgrees(m, u, C, S, pd) ==
    \A c \in Customers : C[c].balance + Pending(m, u, c) >= OwedIn(S, c) - pd[c]

\* Nobody owes more than the limit, as long as no limit is raised.
LimitsAgree(C, S, pd) ==
    LimitsNotRaised =>
        \A c \in Customers : C[c].limit <= CreditLimit[c] /\ OwedIn(S, c) - pd[c] <= CreditLimit[c]

Accounts(m, u, P, B, C, S, pd) ==
    /\ StockAgrees(m, u, P, B) /\ BatchesInUse(B, S) /\ UnitsAgree(m, u, B, S)
    /\ BalanceAgrees(m, u, C, S, pd) /\ LimitsAgree(C, S, pd)

\* Of the tables as a handler at statement l with the locals t will have written them.
Agrees(l, t, P, B, C, S, pd) ==
    LET P2 == SavedIn(P, "product", l, t)
        B2 == SavedIn(B, "batch", l, t)
        C2 == SavedIn(C, "customer", l, t)
        S2 == SavedIn(S, "sale", l, t)
    IN Fresh(At(l, t), t, P2, B2, C2, S2) /\ Accounts(At(l, t), t, P2, B2, C2, S2, pd)

\* An update writes all that is new.
WritesAll(l, t) == l = "update" => Changed(t.ent, RowOf(t).new) \subseteq t.cols

\* A row nobody writes is as it was committed, and an idle worker writes none.
Settled(table) ==
    \A k \in DOMAIN table : /\ table[k].xid = NoTx => table[k].new = table[k].cur
                            /\ \A w \in Workers : pc[w] = "idle" => table[k].xid # w

SerialSound ==
    /\ Accounts("idle", NoLocals, CurOf(product), CurOf(batch), CurOf(customer), CurOf(sale), paid)
    /\ Settled(product) /\ Settled(batch) /\ Settled(customer) /\ Settled(sale)
    /\ \A w \in Workers :
             /\ Agrees(pc[w], tx[w], NewOf(product), NewOf(batch), NewOf(customer), NewOf(sale), paid)
             /\ WritesAll(pc[w], tx[w])

-----------------------------------------------------------------------------
(* The sums when one row changes                                           *)

\* f and g are integers and differ at most at e.
DifferAt(f, g, R, e) ==
    (\A x \in R : f[x] \in Int /\ g[x] \in Int) /\ (\A x \in R \ {e} : f[x] = g[x])

\* A sum changes by what one of its terms changes.
LEMMA ChangeAt ==
    ASSUME NEW R, IsFiniteSet(R), NEW f, NEW g, NEW e \in R, DifferAt(f, g, R, e)
    PROVE  SumOf(g, R) = SumOf(f, R) - f[e] + g[e]
<1>1. \A x \in R : f[x] \in Int /\ g[x] \in Int
  BY DEF DifferAt
<1>2. \A x \in R \ {e} : f[x] = g[x]
  BY DEF DifferAt
<1> QED
  BY <1>1, <1>2, TotalChange

Batches == [BatchIds -> BatchRow]
Sales   == [SaleIds -> SaleRow]
Puts(T2, T, k, row) == T2 = [T EXCEPT ![k] = row]

\* What the batches of a product hold is a number.
LEMMA HeldInTyped ==
    ASSUME NEW B \in Batches, NEW p
    PROVE  HeldIn(B, p) \in Int
<1>1. PICK f, R : R = BatchesOf(p) /\ f = [b \in R |-> B[b].qty]
  OBVIOUS
<1>2. \A x \in R : f[x] \in Int
  BY <1>1 DEF Batches, BatchRow, BatchesOf
<1> QED
  BY <1>1, <1>2, BatchesFinite, TotalInt DEF HeldIn

\* The batches of p hold more or less by what one of them does.
LEMMA HeldOne ==
    ASSUME NEW B \in Batches, NEW b \in BatchIds, NEW row \in BatchRow, NEW p \in Products,
           NEW B2, Puts(B2, B, b, row)
    PROVE  HeldIn(B2, p) = HeldIn(B, p) + (IF b[1] = p THEN row.qty - B[b].qty ELSE 0)
<1>1. PICK f, g, R : /\ R = BatchesOf(p) /\ f = [x \in R |-> B[x].qty]
                     /\ g = [x \in R |-> B2[x].qty]
  OBVIOUS
<1>2. \A x \in BatchIds : B[x].qty \in Int /\ B2[x].qty \in Int /\ (x # b => B2[x] = B[x])
  BY DEF Batches, BatchRow, Puts
<1>3. B2[b] = row
  BY DEF Batches, Puts
<1>4. IsFiniteSet(R) /\ R \subseteq BatchIds
  BY <1>1, BatchesFinite DEF BatchesOf
<1>5. \A x \in R : f[x] \in Int /\ g[x] \in Int
  BY <1>1, <1>2, <1>4
<1>6. \A x \in R \ {b} : f[x] = g[x]
  BY <1>1, <1>2, <1>4
<1>7. HeldIn(B, p) = SumOf(f, R) /\ HeldIn(B2, p) = SumOf(g, R)
  BY <1>1 DEF HeldIn
<1>8. CASE b[1] = p
  <2>1. b \in R
    BY <1>1, <1>8 DEF BatchesOf
  <2>2. SumOf(g, R) = SumOf(f, R) - f[b] + g[b]
    <3>1. DifferAt(f, g, R, b)
      BY <1>5, <1>6 DEF DifferAt
    <3> QED
      BY <1>4, <2>1, <3>1, ChangeAt
  <2>3. f[b] = B[b].qty /\ g[b] = row.qty
    BY <1>1, <1>3, <2>1
  <2>4. SumOf(f, R) \in Int /\ f[b] \in Int /\ g[b] \in Int
    BY <1>4, <1>5, <2>1, TotalInt
  <2> QED
    BY <1>7, <1>8, <2>2, <2>3, <2>4
<1>9. CASE b[1] # p
  <2>1. b \notin R
    BY <1>1, <1>9 DEF BatchesOf
  <2>2. \A x \in R : f[x] = g[x]
    BY <1>6, <2>1
  <2>3. SumOf(f, R) = SumOf(g, R)
    BY <1>4, <2>2, TotalSame
  <2>4. SumOf(f, R) \in Int
    BY <1>4, <1>5, TotalInt
  <2> QED
    BY <1>7, <1>9, <2>3, <2>4
<1> QED
  BY <1>8, <1>9

\* The units of a batch on a sale are a number.
LEMMA UnitsOnTyped ==
    ASSUME NEW row \in SaleRow, NEW b
    PROVE  UnitsOn(row, b) \in Int
<1>1. row.lines \in Seq(Line)
  BY DEF SaleRow
<1>2. LineUnits(row.lines, b) \in Int
  BY <1>1, LineUnitsTyped
<1> QED
  BY <1>2 DEF UnitsOn

\* The units of a batch that are sold are a number.
LEMMA OutInTyped ==
    ASSUME NEW S \in Sales, NEW b
    PROVE  OutIn(S, b) \in Int
<1>1. PICK f : f = [s \in SaleIds |-> UnitsOn(S[s], b)]
  OBVIOUS
<1>2. ASSUME NEW x \in SaleIds PROVE f[x] \in Int
  <2>1. S[x] \in SaleRow
    BY DEF Sales
  <2> QED
    BY <1>1, <2>1, UnitsOnTyped
<1> QED
  BY <1>1, <1>2, SalesFinite, TotalInt DEF OutIn

\* The units that are out change with those of the one sale that does.
LEMMA OutOne ==
    ASSUME NEW S \in Sales, NEW n \in SaleIds, NEW row \in SaleRow, NEW b,
           NEW S2, Puts(S2, S, n, row)
    PROVE  OutIn(S2, b) = OutIn(S, b) - UnitsOn(S[n], b) + UnitsOn(row, b)
<1>1. PICK f, g : f = [x \in SaleIds |-> UnitsOn(S[x], b)] /\ g = [x \in SaleIds |-> UnitsOn(S2[x], b)]
  OBVIOUS
<1>2. S2 \in Sales /\ S2[n] = row /\ \A x \in SaleIds \ {n} : S2[x] = S[x]
  BY DEF Sales, Puts
<1>3. ASSUME NEW x \in SaleIds PROVE f[x] \in Int /\ g[x] \in Int
  <2>1. S[x] \in SaleRow /\ S2[x] \in SaleRow
    BY <1>2 DEF Sales
  <2> QED
    BY <1>1, <2>1, UnitsOnTyped
<1>4. \A x \in SaleIds \ {n} : f[x] = g[x]
  BY <1>1, <1>2
<1>5. SumOf(g, SaleIds) = SumOf(f, SaleIds) - f[n] + g[n]
  <2>1. DifferAt(f, g, SaleIds, n)
    BY <1>3, <1>4 DEF DifferAt
  <2> QED
    BY <2>1, SalesFinite, ChangeAt
<1>6. f[n] = UnitsOn(S[n], b) /\ g[n] = UnitsOn(row, b)
  BY <1>1, <1>2
<1> QED
  BY <1>1, <1>5, <1>6 DEF OutIn

\* What a sale puts on credit is a number.
LEMMA CreditOnTyped == ASSUME NEW row \in SaleRow, NEW c PROVE CreditOn(row, c) \in Nat
  BY DEF SaleRow, CreditOn

\* What a customer owes is a number.
LEMMA OwedInTyped ==
    ASSUME NEW S \in Sales, NEW c
    PROVE  OwedIn(S, c) \in Int
<1>1. PICK f : f = [s \in SaleIds |-> CreditOn(S[s], c)]
  OBVIOUS
<1>2. ASSUME NEW x \in SaleIds PROVE f[x] \in Int
  <2>1. S[x] \in SaleRow
    BY DEF Sales
  <2> QED
    BY <1>1, <2>1, CreditOnTyped
<1> QED
  BY <1>1, <1>2, SalesFinite, TotalInt DEF OwedIn

\* What a customer owes changes with the one sale that does.
LEMMA OwedOne ==
    ASSUME NEW S \in Sales, NEW n \in SaleIds, NEW row \in SaleRow, NEW c,
           NEW S2, Puts(S2, S, n, row)
    PROVE  OwedIn(S2, c) = OwedIn(S, c) - CreditOn(S[n], c) + CreditOn(row, c)
<1>1. PICK f, g : f = [x \in SaleIds |-> CreditOn(S[x], c)] /\ g = [x \in SaleIds |-> CreditOn(S2[x], c)]
  OBVIOUS
<1>2. S2 \in Sales /\ S2[n] = row /\ \A x \in SaleIds \ {n} : S2[x] = S[x]
  BY DEF Sales, Puts
<1>3. ASSUME NEW x \in SaleIds PROVE f[x] \in Int /\ g[x] \in Int
  <2>1. S[x] \in SaleRow /\ S2[x] \in SaleRow
    BY <1>2 DEF Sales
  <2> QED
    BY <1>1, <2>1, CreditOnTyped
<1>4. \A x \in SaleIds \ {n} : f[x] = g[x]
  BY <1>1, <1>2
<1>5. SumOf(g, SaleIds) = SumOf(f, SaleIds) - f[n] + g[n]
  <2>1. DifferAt(f, g, SaleIds, n)
    BY <1>3, <1>4 DEF DifferAt
  <2> QED
    BY <2>1, SalesFinite, ChangeAt
<1>6. f[n] = CreditOn(S[n], c) /\ g[n] = CreditOn(row, c)
  BY <1>1, <1>2
<1> QED
  BY <1>1, <1>5, <1>6 DEF OwedIn

\* A void that has put nothing back yet, one line more, and all of them.
LEMMA NothingBack ==
    ASSUME NEW m, NEW u, NEW b, m \in Restocking => DOMAIN u.sold.lines \subseteq StillOut(m, u)
    PROVE  PutBack(m, u, b) = 0
<1>1. PICK f : f = [i \in DOMAIN u.sold.lines |->
                      IF u.sold.lines[i].batch = b THEN u.sold.lines[i].qty ELSE 0]
  OBVIOUS
<1>2. CASE m \in Restocking
  <2>1. DOMAIN u.sold.lines \ StillOut(m, u) = {}
    BY <1>2
  <2> QED
    BY <1>1, <1>2, <2>1, TotalEmpty DEF PutBack
<1> QED
  BY <1>2 DEF PutBack

\* A void that is done with line i, too, has put back the units of line i.
LEMMA OneLineBack ==
    ASSUME NEW m \in Restocking, NEW v \in Restocking, NEW t, NEW u, NEW b, t.sold = u.sold,
           u.sold.lines \in Seq(Line), NEW i \in DOMAIN u.sold.lines,
           i \in StillOut(m, t), StillOut(v, u) = StillOut(m, t) \ {i}
    PROVE  PutBack(v, u, b) = PutBack(m, t, b) + (IF u.sold.lines[i].batch = b THEN u.sold.lines[i].qty ELSE 0)
<1>1. PICK ls, D : ls = u.sold.lines /\ D = DOMAIN ls
  OBVIOUS
<1>2. PICK f : f = [x \in D |-> IF ls[x].batch = b THEN ls[x].qty ELSE 0]
  OBVIOUS
<1>3. PICK R, Q : R = D \ StillOut(v, u) /\ Q = D \ StillOut(m, t)
  OBVIOUS
<1>4. D = 1 .. Len(ls) /\ Len(ls) \in Nat /\ \A x \in D : ls[x].qty \in Nat
  <2>1. PICK L : L = Line
    OBVIOUS
  <2>2. ls \in Seq(L)
    BY <1>1, <2>1
  <2>3. D = 1 .. Len(ls) /\ Len(ls) \in Nat /\ \A x \in D : ls[x] \in L
    BY <1>1, <2>2
  <2> QED
    BY <2>1, <2>3 DEF Line
<1>5. IsFiniteSet(R)
  <2>1. IsFiniteSet(D)
    BY <1>4, FS_Interval
  <2> QED
    BY <1>3, <2>1, FS_Subset
<1>6. i \in R /\ R \ {i} = Q
  BY <1>1, <1>3
<1>7. \A x \in R : f[x] \in Int
  BY <1>2, <1>3, <1>4
<1>8. SumOf(f, R) = f[i] + SumOf(f, Q)
  BY <1>5, <1>6, <1>7, TotalAt
<1>9. PutBack(v, u, b) = SumOf(f, R) /\ PutBack(m, t, b) = SumOf(f, Q)
  BY <1>1, <1>2, <1>3 DEF PutBack
<1>10. f[i] = IF ls[i].batch = b THEN ls[i].qty ELSE 0
  BY <1>1, <1>2
<1>11. SumOf(f, Q) \in Int /\ f[i] \in Int
  <2>1. IsFiniteSet(Q) /\ \A x \in Q : f[x] \in Int
    BY <1>5, <1>6, <1>7, FS_Subset
  <2> QED
    BY <1>6, <1>7, <2>1, TotalInt
<1> QED
  BY <1>1, <1>8, <1>9, <1>10, <1>11

\* A void that is done with all lines has put back every unit of the sale.
LEMMA AllBack ==
    ASSUME NEW u, NEW b, u.sold.lines \in Seq(Line), u.todo = {}
    PROVE  PutBack("setVoid", u, b) = LineUnits(u.sold.lines, b)
<1>1. PICK ls, D : ls = u.sold.lines /\ D = 1 .. Len(ls)
  OBVIOUS
<1>2. ls \in Seq(Line) /\ DOMAIN ls = D
  BY <1>1
<1>3. PICK f : f = [x \in D |-> IF ls[x].batch = b THEN ls[x].qty ELSE 0]
  OBVIOUS
<1>4. UnitsByLine(ls, b, D, f)
  BY <1>3 DEF UnitsByLine
<1>5. LineUnits(ls, b) = SumOf(f, D)
  BY <1>1, <1>2, <1>4, LineUnitsIs
<1>6. D \ StillOut("setVoid", u) = D
  BY DEF StillOut
<1>7. PutBack("setVoid", u, b) = SumOf(f, D)
  BY <1>1, <1>2, <1>3, <1>6 DEF PutBack, Restocking
<1> QED
  BY <1>1, <1>5, <1>7

\* What a void has put back is a number.
LEMMA PutBackTyped ==
    ASSUME NEW m, NEW u, NEW b, u.sold.lines \in Seq(Line)
    PROVE  PutBack(m, u, b) \in Int
<1>1. PICK ls, D : ls = u.sold.lines /\ D = DOMAIN ls
  OBVIOUS
<1>2. PICK f : f = [x \in D |-> IF ls[x].batch = b THEN ls[x].qty ELSE 0]
  OBVIOUS
<1>3. PICK R : R = D \ StillOut(m, u)
  OBVIOUS
<1>4. D = 1 .. Len(ls) /\ Len(ls) \in Nat /\ \A x \in D : ls[x].qty \in Nat
  <2>1. PICK L : L = Line
    OBVIOUS
  <2>2. ls \in Seq(L)
    BY <1>1, <2>1
  <2>3. D = 1 .. Len(ls) /\ Len(ls) \in Nat /\ \A x \in D : ls[x] \in L
    BY <1>1, <2>2
  <2> QED
    BY <2>1, <2>3 DEF Line
<1>5. IsFiniteSet(R)
  <2>1. IsFiniteSet(D)
    BY <1>4, FS_Interval
  <2> QED
    BY <1>3, <2>1, FS_Subset
<1>6. SumOf(f, R) \in Int
  <2>1. \A x \in R : f[x] \in Int
    BY <1>2, <1>3, <1>4
  <2> QED
    BY <1>5, <2>1, TotalInt
<1> QED
  BY <1>1, <1>2, <1>3, <1>6 DEF PutBack

-----------------------------------------------------------------------------
(* What each statement does to what its handler keeps                      *)

TablesTyped(P, B, C, S, pd) ==
    /\ P \in [Products -> ProductRow] /\ B \in Batches
    /\ C \in [Customers -> CustomerRow] /\ S \in Sales /\ pd \in [Customers -> Nat]

\* Statements at which nothing is half done.
Plain == {"idle", "findCustomer", "checkStock", "generateSaleNumber", "insertSale", "findSale",
          "findStock", "stockIn", "stockOut", "findProduct", "editProduct", "removeProduct",
          "findAccount", "editCustomer", "deactivateCustomer", "findDebtor", "insertPayment"}

\* Nothing is half done there.
LEMMA PlainIsDone ==
    ASSUME NEW m \in Plain, NEW u
    PROVE  /\ \A p : AheadBy(m, u, p) = 0
           /\ \A b : PutBack(m, u, b) = 0
           /\ \A c : Pending(m, u, c) = 0
  BY DEF Plain, AheadBy, PutBack, Pending, Restocking, BatchSection

\* From one such statement to the next the accounts stay as they are.
LEMMA PlainAccounts ==
    ASSUME NEW m \in Plain, NEW v \in Plain, NEW t, NEW u, NEW P, NEW B, NEW C, NEW S, NEW pd,
           Accounts(m, t, P, B, C, S, pd)
    PROVE  Accounts(v, u, P, B, C, S, pd)
<1>1. /\ \A p : AheadBy(m, t, p) = AheadBy(v, u, p)
      /\ \A b : PutBack(m, t, b) = PutBack(v, u, b)
      /\ \A c : Pending(m, t, c) = Pending(v, u, c)
  BY PlainIsDone
<1>2. v # "restockBatch" /\ v # "setVoid"
  BY DEF Plain
<1>3. StockAgrees(v, u, P, B)
  BY <1>1 DEF Accounts, StockAgrees
<1>4. UnitsAgree(v, u, B, S)
  BY <1>1, <1>2 DEF Accounts, UnitsAgree
<1>5. BalanceAgrees(v, u, C, S, pd)
  BY <1>1 DEF Accounts, BalanceAgrees
<1> QED
  BY <1>3, <1>4, <1>5 DEF Accounts

\* Statements that need nothing that was read.
LEMMA NothingRead ==
    ASSUME NEW m \in {"findSale", "findStock", "findProduct", "findAccount", "findDebtor", "commit",
                      "idle", "findCustomer"},
           NEW u, m = "findCustomer" => u.i = 1, NEW P, NEW B, NEW C, NEW S
    PROVE  Fresh(m, u, P, B, C, S)
  BY DEF Fresh, ProductsFresh, CustomerFresh, ListSeen, SaleFresh, HasRoom, AllChecked, Restocking

\* The variables that the invariant speaks of.
SameCore(t, u) ==
    /\ u.req = t.req /\ u.i = t.i /\ u.prod = t.prod /\ u.cust = t.cust /\ u.sold = t.sold
    /\ u.todo = t.todo /\ u.list = t.list /\ u.left = t.left /\ u.pay = t.pay

\* The other variables of a handler do not matter to the invariant.
LEMMA CoreAgrees ==
    ASSUME NEW m, NEW t, NEW u, SameCore(t, u), NEW P, NEW B, NEW C, NEW S, NEW pd,
           Fresh(m, t, P, B, C, S), Accounts(m, t, P, B, C, S, pd)
    PROVE  Fresh(m, u, P, B, C, S) /\ Accounts(m, u, P, B, C, S, pd)
<1>1. ProductsFresh(m, u, P)
  BY DEF SameCore, Fresh, ProductsFresh
<1>2. CustomerFresh(m, u, C) /\ SaleFresh(m, u, S) /\ HasRoom(m, u)
  BY DEF SameCore, Fresh, CustomerFresh, SaleFresh, HasRoom
<1>3. ListSeen(m, u, B)
  BY DEF SameCore, Fresh, ListSeen, ProductOf
<1>4. /\ \A p : AheadBy(m, u, p) = AheadBy(m, t, p)
      /\ \A b : PutBack(m, u, b) = PutBack(m, t, b)
      /\ \A c : Pending(m, u, c) = Pending(m, t, c)
  BY DEF SameCore, AheadBy, ProductOf, PutBack, StillOut, Pending
<1>5. StockAgrees(m, u, P, B)
  BY <1>4 DEF Accounts, StockAgrees
<1>6. UnitsAgree(m, u, B, S)
  BY <1>4 DEF Accounts, UnitsAgree, SameCore
<1>7. BalanceAgrees(m, u, C, S, pd)
  BY <1>4 DEF Accounts, BalanceAgrees
<1> QED
  BY <1>1, <1>2, <1>3, <1>5, <1>6, <1>7 DEF Fresh, Accounts

-----------------------------------------------------------------------------
(* A checkout                                                              *)

\* findCustomer: the customer that was read is the one that is stored.
LEMMA CustomerFound ==
    ASSUME NEW t, NEW u, NEW P, NEW B, NEW C, NEW S, Fresh("findCustomer", t, P, B, C, S),
           u.req = t.req, u.i = t.i, u.req.customer # NoCustomer => u.cust = C[u.req.customer]
    PROVE  Fresh("checkStock", u, P, B, C, S)
<1>1. u.i = 1
  BY DEF Fresh, ProductsFresh
<1> QED
  BY <1>1 DEF Fresh, ProductsFresh, CustomerFresh, ListSeen, SaleFresh, HasRoom, AllChecked, Restocking

\* checkStock: one more product that was read is as it is stored.
LEMMA StockChecked ==
    ASSUME NEW t, NEW u, NEW P, NEW B, NEW C, NEW S, Fresh("checkStock", t, P, B, C, S),
           t.req \in SaleForm, t.i \in Nat \ {0}, t.i <= Len(t.req.items), t.prod \in [Products -> ProductRow],
           NEW q, q = ProductOf(t),
           u.req = t.req, u.cust = t.cust, u.prod = [t.prod EXCEPT ![q] = P[q]],
           NEW v, \/ v = "checkStock" /\ t.i < Len(t.req.items) /\ u.i = t.i + 1
                  \/ v = "generateSaleNumber" /\ t.i >= Len(t.req.items)
    PROVE  Fresh(v, u, P, B, C, S)
<1>1. Len(t.req.items) \in Nat /\ q \in Products
  BY ItemTyped DEF SaleForm, ProductOf
<1>2. ASSUME NEW j \in 1 .. t.i
      PROVE  u.prod[u.req.items[j].product] = P[u.req.items[j].product]
  <2>1. j \in 1 .. t.i - 1 => t.prod[t.req.items[j].product] = P[t.req.items[j].product]
    BY DEF Fresh, ProductsFresh
  <2>2. t.req.items[j].product \in Products
    BY <1>1, ItemTyped
  <2>3. j = t.i => t.req.items[j].product = q
    BY DEF ProductOf
  <2> QED
    BY <1>1, <2>1, <2>2, <2>3
<1>3. ProductsFresh(v, u, P)
  BY <1>1, <1>2 DEF ProductsFresh, AllChecked
<1> QED
  BY <1>3 DEF Fresh, CustomerFresh, ListSeen, SaleFresh, HasRoom, AllChecked, Restocking

\* generateSaleNumber: a checkout that got here has room for its credit.
LEMMA NumberDrawn ==
    ASSUME NEW t, NEW P, NEW B, NEW C, NEW S, Fresh("generateSaleNumber", t, P, B, C, S),
           t.req \in Requests, t.req \in SaleForm, ~CreditRefused(t), t.cust \in CustomerRow
    PROVE  Fresh("insertSale", t, P, B, C, S)
<1>1. HasRoom("insertSale", t)
  BY RequestsAssumption DEF HasRoom, CreditRefused, SaleForm, CustomerRow
<1> QED
  BY <1>1 DEF Fresh, ProductsFresh, CustomerFresh, ListSeen, SaleFresh, AllChecked, Restocking

\* insertSale: the customer owes the credit before the balance says so.
LEMMA SaleInserted ==
    ASSUME NEW t, NEW P, NEW B, NEW C, NEW S, NEW pd, TablesTyped(P, B, C, S, pd), LocalsTyped(t),
           Fresh("insertSale", t, P, B, C, S), Accounts("insertSale", t, P, B, C, S, pd),
           t.req \in SaleForm, NEW n \in SaleIds, S[n].status = "none", NEW d \in Nat,
           NEW S2, S2 = [S EXCEPT ![n] = NewSale(t.req, d)]
    PROVE  Fresh("findBatches", t, P, B, C, S2) /\ Accounts("findBatches", t, P, B, C, S2, pd)
<1>1. PICK row : row = NewSale(t.req, d)
  OBVIOUS
<1>2. /\ row \in SaleRow /\ row.lines = <<>> /\ row.status = "completed"
      /\ row.customer = t.req.customer /\ row.credit = t.req.credit /\ t.req.credit \in Nat
  <2>1. <<>> \in Seq(Line)
    OBVIOUS
  <2> QED
    BY <1>1, <2>1 DEF NewSale, SaleRow, SaleForm
<1>3. Puts(S2, S, n, row) /\ S \in Sales
  BY <1>1 DEF TablesTyped, Puts
<1>4. Fresh("findBatches", t, P, B, C, S2)
  BY DEF Fresh, ProductsFresh, CustomerFresh, ListSeen, SaleFresh, HasRoom, AllChecked, Restocking
<1>5. /\ \A p : AheadBy("insertSale", t, p) = 0 /\ AheadBy("findBatches", t, p) = 0
      /\ \A b : PutBack("insertSale", t, b) = 0 /\ PutBack("findBatches", t, b) = 0
      /\ \A c : Pending("insertSale", t, c) = 0
      /\ \A c : Pending("findBatches", t, c) = IF t.req.customer = c THEN t.req.credit ELSE 0
  BY DEF AheadBy, PutBack, Pending, Restocking, BatchSection
<1>6. StockAgrees("findBatches", t, P, B)
  BY <1>5 DEF Accounts, StockAgrees
<1>7. BatchesInUse(B, S2)
  <2>1. S2[n].lines = <<>> /\ \A s \in SaleIds \ {n} : S2[s] = S[s]
    BY <1>2, <1>3 DEF Sales, Puts
  <2>2. \A s \in SaleIds : s # n => \A i \in DOMAIN S2[s].lines : B[S2[s].lines[i].batch].made
    BY <2>1 DEF Accounts, BatchesInUse
  <2> QED
    BY <2>1, <2>2 DEF Accounts, BatchesInUse
<1>8. UnitsAgree("findBatches", t, B, S2)
  <2>1. ASSUME NEW b \in BatchIds PROVE OutIn(S2, b) = OutIn(S, b)
    <3>1. OutIn(S2, b) = OutIn(S, b) - UnitsOn(S[n], b) + UnitsOn(row, b)
      BY <1>2, <1>3, OutOne
    <3>2. UnitsOn(S[n], b) = 0 /\ UnitsOn(row, b) = 0
      BY <1>2, NoLinesNoUnits DEF UnitsOn
    <3> QED
      BY <1>3, <3>1, <3>2, OutInTyped
  <2> QED
    BY <1>5, <2>1 DEF Accounts, UnitsAgree
<1>9. ASSUME NEW c \in Customers
      PROVE  OwedIn(S2, c) = OwedIn(S, c) + Pending("findBatches", t, c) /\ OwedIn(S, c) \in Int
  <2>1. OwedIn(S2, c) = OwedIn(S, c) - CreditOn(S[n], c) + CreditOn(row, c)
    BY <1>2, <1>3, OwedOne
  <2>2. CreditOn(S[n], c) = 0 /\ CreditOn(row, c) = Pending("findBatches", t, c)
    BY <1>2, <1>5 DEF CreditOn
  <2> QED
    BY <1>2, <1>3, <1>5, <2>1, <2>2, OwedInTyped
<1>10. ASSUME NEW c \in Customers
       PROVE  C[c].balance \in Int /\ C[c].limit \in Int /\ pd[c] \in Int /\ CreditLimit[c] \in Int
  BY TablesAssumption DEF TablesTyped, CustomerRow
<1>11. BalanceAgrees("findBatches", t, C, S2, pd)
  <2>1. ASSUME NEW c \in Customers
        PROVE  C[c].balance + Pending("findBatches", t, c) >= OwedIn(S2, c) - pd[c]
    <3>1. C[c].balance + 0 >= OwedIn(S, c) - pd[c]
      BY <1>5 DEF Accounts, BalanceAgrees
    <3>2. Pending("findBatches", t, c) \in Int
      BY <1>2, <1>5
    <3>3. OwedIn(S2, c) = OwedIn(S, c) + Pending("findBatches", t, c) /\ OwedIn(S, c) \in Int
      BY <1>9
    <3>4. C[c].balance \in Int /\ pd[c] \in Int
      BY <1>10
    <3> QED
      BY <3>1, <3>2, <3>3, <3>4
  <2> QED
    BY <2>1 DEF BalanceAgrees
<1>12. LimitsAgree(C, S2, pd)
  <2>1. SUFFICES ASSUME LimitsNotRaised, NEW c \in Customers
                 PROVE  C[c].limit <= CreditLimit[c] /\ OwedIn(S2, c) - pd[c] <= CreditLimit[c]
    BY DEF LimitsAgree
  <2>2. C[c].limit <= CreditLimit[c] /\ OwedIn(S, c) - pd[c] <= CreditLimit[c]
    BY <2>1 DEF Accounts, LimitsAgree
  <2>3. CASE t.req.customer = c /\ t.req.credit > 0
    <3>1. t.cust = C[c] /\ C[c].balance + t.req.credit <= C[c].limit
      <4>1. c # NoCustomer
        BY TablesAssumption
      <4> QED
        BY <2>3, <4>1 DEF Fresh, CustomerFresh, HasRoom, AllChecked
    <3>2. C[c].balance + 0 >= OwedIn(S, c) - pd[c]
      BY <1>5 DEF Accounts, BalanceAgrees
    <3>3. OwedIn(S2, c) = OwedIn(S, c) + t.req.credit /\ OwedIn(S, c) \in Int
      BY <1>5, <1>9, <2>3
    <3>4. /\ C[c].balance \in Int /\ C[c].limit \in Int /\ pd[c] \in Int /\ CreditLimit[c] \in Int
          /\ t.req.credit \in Nat
      BY <1>2, <1>10
    <3> QED
      BY <2>2, <3>1, <3>2, <3>3, <3>4
  <2>4. CASE ~(t.req.customer = c /\ t.req.credit > 0)
    <3>1. Pending("findBatches", t, c) = 0
      BY <1>2, <1>5, <2>4
    <3>2. OwedIn(S2, c) = OwedIn(S, c) + 0 /\ OwedIn(S, c) \in Int
      BY <1>9, <3>1
    <3> QED
      BY <2>2, <3>2
  <2> QED
    BY <2>3, <2>4
<1> QED
  BY <1>4, <1>6, <1>7, <1>8, <1>11, <1>12 DEF Accounts

\* findBatches, stockOut: the batches that were listed are the ones that are stored.
LEMMA BatchesFound ==
    ASSUME NEW t, NEW u, NEW P, NEW B, NEW C, NEW S, NEW pd, NEW m, NEW v,
           \/ m = "findBatches" /\ v = "takeBatch" /\ u.left = u.req.items[u.i].qty
              /\ t.req \in SaleForm /\ t.i \in Nat \ {0} /\ t.i <= Len(t.req.items)
           \/ m = "stockOut" /\ v = "drainBatch" /\ u.left = u.req.qty /\ t.req \in StockForm,
           Fresh(m, t, P, B, C, S), Accounts(m, t, P, B, C, S, pd),
           u.req = t.req, u.i = t.i, u.cust = t.cust, u.prod = t.prod,
           NEW p, p = (IF v = "takeBatch" THEN ProductOf(t) ELSE t.req.product),
           Listed(u.list, B, p)
    PROVE  Fresh(v, u, P, B, C, S) /\ Accounts(v, u, P, B, C, S, pd)
<1>1. /\ \A q : AheadBy(m, t, q) = 0
      /\ \A b : PutBack(m, t, b) = 0 /\ PutBack(v, u, b) = 0
      /\ \A c : Pending(m, t, c) = Pending(v, u, c)
  BY DEF AheadBy, PutBack, Pending, Restocking, BatchSection
<1>2. \A q \in Products : AheadBy(v, u, q) = 0
  <2>1. CASE v = "takeBatch"
    <3>1. u.req.items[u.i].qty \in Nat /\ u.left = u.req.items[u.i].qty
      BY <2>1, ItemTyped
    <3> QED
      BY <2>1, <3>1 DEF AheadBy
  <2>2. CASE v = "drainBatch"
    <3>1. u.req.qty \in Nat /\ u.left = u.req.qty
      BY <2>2 DEF StockForm
    <3> QED
      BY <2>2, <3>1 DEF AheadBy
  <2> QED
    BY <2>1, <2>2
<1>3. ProductsFresh(v, u, P)
  BY DEF Fresh, ProductsFresh, AllChecked
<1>4. CustomerFresh(v, u, C) /\ SaleFresh(v, u, S) /\ HasRoom(v, u)
  BY DEF Fresh, CustomerFresh, SaleFresh, HasRoom, AllChecked, Restocking
<1>5. ListSeen(v, u, B)
  BY DEF ListSeen, ProductOf
<1>6. StockAgrees(v, u, P, B)
  BY <1>1, <1>2 DEF Accounts, StockAgrees
<1>7. UnitsAgree(v, u, B, S)
  BY <1>1 DEF Accounts, UnitsAgree
<1>8. BalanceAgrees(v, u, C, S, pd)
  BY <1>1 DEF Accounts, BalanceAgrees
<1> QED
  BY <1>3, <1>4, <1>5, <1>6, <1>7, <1>8 DEF Fresh, Accounts

\* One round of the loop over the batches, of a checkout or of a stock-out: d units
\* leave batch k of product p and the list.
Takes(t, u, B, B2, p, k, d) ==
    /\ k \in DOMAIN t.list /\ d = Smaller(t.list[k].qty, t.left)
    /\ Puts(B2, B, <<p, k>>, Deducted(t.list[k], d))
    /\ u.list = Without(t.list, k) /\ u.left = t.left - d

\* What is left of the batch.
TakenOf(u, B, B2, b, p, d) ==
    /\ d \in Nat /\ b \in BatchIds /\ B2 \in Batches
    /\ B2[b].qty = B[b].qty - d /\ B[b].made
    /\ \A x \in BatchIds : B2[x].made = B[x].made /\ (x # b => B2[x] = B[x])
    /\ \A x \in BatchIds : (B2[x].active => B2[x].made) /\ Emptied(B2[x])
    /\ Listed(u.list, B2, p)
    /\ \A q \in Products : HeldIn(B2, q) = HeldIn(B, q) - (IF p = q THEN d ELSE 0)

\* Taking d from the k-th batch of p takes no more than it holds.
LEMMA BatchTakenOf ==
    ASSUME NEW t, LocalsTyped(t), NEW u, NEW B \in Batches, NEW S, BatchesInUse(B, S),
           NEW p \in Products, NEW k \in Slots, NEW d, NEW B2, Takes(t, u, B, B2, p, k, d),
           NEW b, b = <<p, k>>, Listed(t.list, B, p)
    PROVE  TakenOf(u, B, B2, b, p, d)
<1>1. PICK row : row = t.list[k]
  OBVIOUS
<1>2. row \in BatchRow /\ row = B[b] /\ row.active /\ t.left \in Nat /\ b \in BatchIds /\ b[1] = p
  BY <1>1 DEF LocalsTyped, Takes, BatchIds, Listed
<1>3. d \in Nat /\ d <= row.qty
  BY <1>1, <1>2 DEF Takes, Smaller, BatchRow
<1>4. PICK new : new = Deducted(row, d)
  OBVIOUS
<1>5. /\ new \in BatchRow /\ new.qty = row.qty - d /\ new.made = row.made
      /\ new.active = IF row.qty = d THEN FALSE ELSE row.active
  <2>1. row.qty \in Nat /\ row.active \in BOOLEAN /\ row.made \in BOOLEAN /\ row.qty - d \in Nat
    BY <1>2, <1>3 DEF BatchRow
  <2>2. DOMAIN row = {"qty", "active", "made"}
    BY <1>2 DEF BatchRow
  <2>3. new = [qty |-> row.qty - d, active |-> IF row.qty = d THEN FALSE ELSE row.active, made |-> row.made]
    BY <1>2, <1>4 DEF Deducted, BatchRow
  <2> QED
    BY <2>1, <2>3 DEF BatchRow
<1>6. Emptied(new) /\ row.made
  <2>1. row.qty = d => new.qty = 0
    BY <1>3, <1>5
  <2> QED
    BY <1>2, <1>5, <2>1 DEF Emptied, BatchesInUse
<1>7. B2[b] = new /\ B2 \in Batches /\ \A x \in BatchIds : x # b => B2[x] = B[x]
  BY <1>1, <1>2, <1>4, <1>5 DEF Takes, Puts, Batches
<1>8. Puts(B2, B, b, new)
  BY <1>1, <1>4 DEF Takes
<1>9. \A x \in BatchIds : B2[x].made = B[x].made
  BY <1>2, <1>5, <1>7
<1>10. \A x \in BatchIds : (B2[x].active => B2[x].made) /\ Emptied(B2[x])
  BY <1>6, <1>2, <1>5, <1>7 DEF BatchesInUse
<1>11. Listed(u.list, B2, p)
  <2>1. ASSUME NEW j \in DOMAIN u.list PROVE u.list[j] = B2[<<p, j>>] /\ u.list[j].active
    <3>1. j \in DOMAIN t.list /\ j # k /\ u.list[j] = t.list[j] /\ t.list[j] = B[<<p, j>>] /\ t.list[j].active
      BY <2>1 DEF Takes, Without, Listed
    <3>2. <<p, j>> \in BatchIds /\ <<p, j>> # b
      BY <1>1, <3>1 DEF LocalsTyped, BatchIds
    <3> QED
      BY <1>7, <3>1, <3>2
  <2> QED
    BY <2>1 DEF Listed
<1>12. ASSUME NEW q \in Products PROVE HeldIn(B2, q) = HeldIn(B, q) - (IF p = q THEN d ELSE 0)
  <2>1. HeldIn(B2, q) = HeldIn(B, q) + (IF b[1] = q THEN new.qty - B[b].qty ELSE 0)
    BY <1>2, <1>5, <1>8, HeldOne
  <2>2. HeldIn(B, q) \in Int /\ row.qty \in Int
    BY <1>2, HeldInTyped DEF BatchRow
  <2> QED
    BY <1>2, <1>3, <1>5, <2>1, <2>2
<1> QED
  BY <1>1, <1>2, <1>3, <1>4, <1>5, <1>6, <1>7, <1>9, <1>10, <1>11, <1>12 DEF TakenOf

\* takeBatch: what leaves the batch is on a line of the sale.
LEMMA BatchTaken ==
    ASSUME NEW t, NEW u, NEW P, NEW B, NEW C, NEW S, NEW pd, TablesTyped(P, B, C, S, pd), LocalsTyped(t),
           Fresh("takeBatch", t, P, B, C, S), Accounts("takeBatch", t, P, B, C, S, pd),
           t.req \in SaleForm, t.i <= Len(t.req.items),
           NEW p, p = ProductOf(t), NEW k \in Slots, NEW d, NEW B2, Takes(t, u, B, B2, p, k, d),
           u.req = t.req, u.i = t.i, u.cust = t.cust, u.prod = t.prod,
           NEW n \in SaleIds, S[n].status = "completed",
           NEW S2, S2 = [S EXCEPT ![n] = WithItem(S[n], <<p, k>>, d)]
    PROVE  Fresh("takeBatch", u, P, B2, C, S2) /\ Accounts("takeBatch", u, P, B2, C, S2, pd)
<1>1. p \in Products /\ t.i \in Nat \ {0} /\ t.req.items[t.i].qty \in Nat
  BY ItemTyped DEF LocalsTyped, ProductOf
<1>2. B \in Batches /\ BatchesInUse(B, S) /\ S \in Sales
  BY DEF TablesTyped, Accounts
<1>3. Listed(t.list, B, p)
  BY DEF Fresh, ListSeen
<1>4. PICK b : b = <<p, k>>
  OBVIOUS
<1>5. /\ d \in Nat /\ b \in BatchIds /\ B2 \in Batches
      /\ B2[b].qty = B[b].qty - d /\ B[b].made
      /\ \A x \in BatchIds : B2[x].made = B[x].made /\ (x # b => B2[x] = B[x])
      /\ \A x \in BatchIds : (B2[x].active => B2[x].made) /\ Emptied(B2[x])
      /\ Listed(u.list, B2, p)
      /\ \A q \in Products : HeldIn(B2, q) = HeldIn(B, q) - (IF p = q THEN d ELSE 0)
  <2>1. TakenOf(u, B, B2, b, p, d)
    BY <1>1, <1>2, <1>3, <1>4, BatchTakenOf
  <2> QED
    BY <2>1 DEF TakenOf
<1>6. PICK row, line : row = WithItem(S[n], b, d) /\ line = [batch |-> b, qty |-> d]
  OBVIOUS
<1>7. line \in Line /\ S[n] \in SaleRow /\ S[n].lines \in Seq(Line)
  BY <1>2, <1>5, <1>6 DEF Line, Sales, SaleRow
<1>8. row.lines = Append(S[n].lines, line) /\ Append(S[n].lines, line) \in Seq(Line)
  <2>1. PICK L : L = Line
    OBVIOUS
  <2>2. S[n].lines \in Seq(L) /\ line \in L
    BY <1>7, <2>1
  <2>3. Append(S[n].lines, line) \in Seq(L)
    BY <2>2
  <2> QED
    BY <1>6, <1>7, <2>1, <2>3 DEF WithItem, SaleRow
<1>9. /\ row \in SaleRow /\ row.status = "completed" /\ row.customer = S[n].customer
      /\ row.credit = S[n].credit
  BY <1>6, <1>7, <1>8 DEF WithItem, SaleRow
<1>10. Puts(S2, S, n, row) /\ S2[n] = row /\ \A s \in SaleIds \ {n} : S2[s] = S[s]
  BY <1>2, <1>4, <1>6 DEF Puts, Sales
<1>11. /\ \A q : AheadBy("takeBatch", t, q) = IF p = q THEN t.req.items[t.i].qty - t.left ELSE 0
       /\ \A q : AheadBy("takeBatch", u, q) = IF p = q THEN t.req.items[t.i].qty - u.left ELSE 0
       /\ \A x : PutBack("takeBatch", t, x) = 0 /\ PutBack("takeBatch", u, x) = 0
       /\ \A c : Pending("takeBatch", t, c) = Pending("takeBatch", u, c)
  BY DEF AheadBy, PutBack, Pending, Restocking, BatchSection, ProductOf
<1>12. StockAgrees("takeBatch", u, P, B2)
  <2>1. ASSUME NEW q \in Products PROVE P[q].stock = HeldIn(B2, q) + AheadBy("takeBatch", u, q)
    <3>1. P[q].stock = HeldIn(B, q) + AheadBy("takeBatch", t, q)
      BY DEF Accounts, StockAgrees
    <3>2. HeldIn(B2, q) = HeldIn(B, q) - (IF p = q THEN d ELSE 0) /\ HeldIn(B, q) \in Int
      BY <1>2, <1>5, HeldInTyped
    <3>3. t.left \in Int /\ u.left = t.left - d /\ d \in Int
      BY <1>5 DEF LocalsTyped, Takes
    <3>4. CASE p = q
      <4>1. P[q].stock = HeldIn(B, q) + (t.req.items[t.i].qty - t.left) /\ HeldIn(B2, q) = HeldIn(B, q) - d
        BY <1>11, <3>1, <3>2, <3>4
      <4>2. AheadBy("takeBatch", u, q) = t.req.items[t.i].qty - u.left
        BY <1>11, <3>4
      <4> QED
        BY <1>1, <3>2, <3>3, <4>1, <4>2
    <3>5. CASE p # q
      <4>1. P[q].stock = HeldIn(B, q) + 0 /\ HeldIn(B2, q) = HeldIn(B, q) - 0
        BY <1>11, <3>1, <3>2, <3>5
      <4>2. AheadBy("takeBatch", u, q) = 0
        BY <1>11, <3>5
      <4> QED
        BY <3>2, <4>1, <4>2
    <3> QED
      BY <3>4, <3>5
  <2> QED
    BY <2>1 DEF StockAgrees
<1>13. BatchesInUse(B2, S2)
  <2>1. ASSUME NEW i \in DOMAIN row.lines PROVE B2[row.lines[i].batch].made
    <3>1. PICK ls : ls = S[n].lines
      OBVIOUS
    <3>2. \/ i \in DOMAIN ls /\ row.lines[i] = ls[i]
          \/ row.lines[i] = line
      <4>1. PICK L : L = Line
        OBVIOUS
      <4>2. ls \in Seq(L) /\ row.lines = Append(ls, line) /\ i \in DOMAIN row.lines
        BY <1>7, <1>8, <2>1, <3>1, <4>1
      <4> QED
        BY <4>2
    <3>3. \A j \in DOMAIN ls : ls[j].batch \in BatchIds /\ B[ls[j].batch].made
      <4>1. \A j \in DOMAIN ls : ls[j] \in Line
        <5>1. PICK L : L = Line
          OBVIOUS
        <5>2. ls \in Seq(L)
          BY <1>7, <3>1, <5>1
        <5> QED
          BY <5>1, <5>2
      <4> QED
        BY <1>2, <3>1, <4>1 DEF BatchesInUse, Line
    <3>4. line.batch = b
      BY <1>6
    <3> QED
      BY <1>5, <3>2, <3>3, <3>4
  <2>2. ASSUME NEW s \in SaleIds, s # n, NEW i \in DOMAIN S2[s].lines PROVE B2[S2[s].lines[i].batch].made
    <3>1. S2[s] = S[s] /\ B[S[s].lines[i].batch].made
      BY <1>2, <1>10, <2>2 DEF BatchesInUse
    <3>2. S[s].lines[i] \in Line
      <4>1. PICK L : L = Line
        OBVIOUS
      <4>2. S[s].lines \in Seq(L) /\ i \in DOMAIN S[s].lines
        BY <1>2, <2>2, <3>1, <4>1 DEF Sales, SaleRow
      <4> QED
        BY <4>1, <4>2
    <3> QED
      BY <1>5, <3>1, <3>2 DEF Line
  <2> QED
    BY <1>5, <1>10, <2>1, <2>2 DEF BatchesInUse
<1>14. UnitsAgree("takeBatch", u, B2, S2)
  <2>1. ASSUME NEW x \in BatchIds, OpeningBatch(x).made
        PROVE  B2[x].made /\ B2[x].qty + OutIn(S2, x) - PutBack("takeBatch", u, x) <= OpeningBatch(x).qty
    <3>1. B[x].made /\ B[x].qty + OutIn(S, x) - 0 <= OpeningBatch(x).qty
      BY <1>11, <2>1 DEF Accounts, UnitsAgree
    <3>2. OutIn(S2, x) = OutIn(S, x) - UnitsOn(S[n], x) + UnitsOn(row, x)
      BY <1>2, <1>9, <1>10, OutOne
    <3>3. UnitsOn(row, x) = UnitsOn(S[n], x) + (IF b = x THEN d ELSE 0)
      <4>1. LineUnits(row.lines, x) = LineUnits(S[n].lines, x) + (IF line.batch = x THEN line.qty ELSE 0)
        BY <1>7, <1>8, LineAdds
      <4> QED
        BY <1>6, <1>9, <4>1 DEF UnitsOn
    <3>4. OutIn(S, x) \in Int /\ UnitsOn(S[n], x) \in Int
      BY <1>2, <1>7, OutInTyped, UnitsOnTyped
    <3>5. B2[x].qty = B[x].qty - (IF b = x THEN d ELSE 0) /\ B[x].qty \in Int
      BY <1>2, <1>5 DEF Batches, BatchRow
    <3>6. OpeningBatch(x).qty \in Int
      BY <3>1, <2>1, TablesAssumption DEF OpeningBatch, NoBatch, BatchIds
    <3> QED
      BY <1>5, <1>11, <3>1, <3>2, <3>3, <3>4, <3>5, <3>6
  <2> QED
    BY <2>1 DEF UnitsAgree
<1>15. ASSUME NEW c PROVE OwedIn(S2, c) = OwedIn(S, c)
  <2>1. OwedIn(S2, c) = OwedIn(S, c) - CreditOn(S[n], c) + CreditOn(row, c)
    BY <1>2, <1>9, <1>10, OwedOne
  <2>2. CreditOn(row, c) = CreditOn(S[n], c) /\ CreditOn(S[n], c) \in Int /\ OwedIn(S, c) \in Int
    BY <1>2, <1>7, <1>9, CreditOnTyped, OwedInTyped DEF CreditOn
  <2> QED
    BY <2>1, <2>2
<1>16. BalanceAgrees("takeBatch", u, C, S2, pd) /\ LimitsAgree(C, S2, pd)
  BY <1>11, <1>15 DEF Accounts, BalanceAgrees, LimitsAgree
<1>17. ListSeen("takeBatch", u, B2)
  BY <1>5 DEF ListSeen, ProductOf
<1>18. Fresh("takeBatch", u, P, B2, C, S2)
  BY <1>17 DEF Fresh, ProductsFresh, CustomerFresh, SaleFresh, HasRoom, AllChecked, Restocking
<1> QED
  BY <1>12, <1>13, <1>14, <1>16, <1>18 DEF Accounts

\* What does not change with a step.
SameBack(m, t, v, u)     == \A b : PutBack(v, u, b) = PutBack(m, t, b)
SamePending(m, t, v, u)  == \A c : Pending(v, u, c) = Pending(m, t, c)
PendingBut(m, t, v, u, q) == \A c \in Customers : c # q => Pending(v, u, c) = Pending(m, t, c)
SameAhead(m, t, v, u)    == \A p : AheadBy(v, u, p) = AheadBy(m, t, p)
AheadBut(m, t, v, u, q)  == \A p \in Products : p # q => AheadBy(v, u, p) = AheadBy(m, t, p)

\* A save of product q settles what the stock of q was ahead by, or brings it ahead.
LEMMA ProductSaved ==
    ASSUME NEW m, NEW v, NEW t, NEW u, NEW P, NEW B, NEW C, NEW S, NEW pd, TablesTyped(P, B, C, S, pd),
           Accounts(m, t, P, B, C, S, pd), NEW q \in Products, NEW ent \in ProductRow,
           NEW P2, Puts(P2, P, q, ent),
           AheadBy(m, t, q) \in Int, AheadBy(v, u, q) = AheadBy(m, t, q) + ent.stock - P[q].stock,
           AheadBut(m, t, v, u, q), SameBack(m, t, v, u), SamePending(m, t, v, u),
           v = "restockBatch" => u.i \notin u.todo, v # "setVoid"
    PROVE  Accounts(v, u, P2, B, C, S, pd)
<1>1. P2[q] = ent /\ \A p \in Products : p # q => P2[p] = P[p]
  BY DEF Puts, TablesTyped
<1>2. StockAgrees(v, u, P2, B)
  <2>1. ASSUME NEW p \in Products PROVE P2[p].stock = HeldIn(B, p) + AheadBy(v, u, p)
    <3>1. P[p].stock = HeldIn(B, p) + AheadBy(m, t, p)
      BY DEF Accounts, StockAgrees
    <3>2. CASE p = q
      <4>1. HeldIn(B, q) \in Int /\ ent.stock \in Int /\ P[q].stock \in Int
        BY HeldInTyped DEF TablesTyped, ProductRow
      <4> QED
        BY <1>1, <3>1, <3>2, <4>1
    <3>3. CASE p # q
      BY <1>1, <3>1, <3>3 DEF AheadBut
    <3> QED
      BY <3>2, <3>3
  <2> QED
    BY <2>1 DEF StockAgrees
<1>3. UnitsAgree(v, u, B, S)
  BY DEF Accounts, UnitsAgree, SameBack
<1>4. BalanceAgrees(v, u, C, S, pd)
  BY DEF Accounts, BalanceAgrees, SamePending
<1> QED
  BY <1>2, <1>3, <1>4 DEF Accounts

\* A save of customer q that leaves the balance, with what is still pending, where it was.
LEMMA CustomerSaved ==
    ASSUME NEW m, NEW v, NEW t, NEW u, NEW P, NEW B, NEW C, NEW S, NEW pd, TablesTyped(P, B, C, S, pd),
           Accounts(m, t, P, B, C, S, pd), NEW q \in Customers, NEW ent \in CustomerRow,
           NEW C2, Puts(C2, C, q, ent),
           Pending(m, t, q) \in Int, Pending(v, u, q) \in Int,
           ent.balance + Pending(v, u, q) >= C[q].balance + Pending(m, t, q),
           PendingBut(m, t, v, u, q), SameAhead(m, t, v, u), SameBack(m, t, v, u),
           LimitsNotRaised => ent.limit <= CreditLimit[q],
           v # "restockBatch", v = "setVoid" => u.todo = {}
    PROVE  Accounts(v, u, P, B, C2, S, pd)
<1>1. C2[q] = ent /\ \A c \in Customers : c # q => C2[c] = C[c]
  BY DEF Puts, TablesTyped
<1>2. StockAgrees(v, u, P, B)
  BY DEF Accounts, StockAgrees, SameAhead
<1>3. UnitsAgree(v, u, B, S)
  BY DEF Accounts, UnitsAgree, SameBack
<1>4. BalanceAgrees(v, u, C2, S, pd)
  <2>1. ASSUME NEW c \in Customers PROVE C2[c].balance + Pending(v, u, c) >= OwedIn(S, c) - pd[c]
    <3>1. C[c].balance + Pending(m, t, c) >= OwedIn(S, c) - pd[c]
      BY DEF Accounts, BalanceAgrees
    <3>2. CASE c = q
      <4>1. C[q].balance \in Int /\ ent.balance \in Int /\ OwedIn(S, q) \in Int /\ pd[q] \in Int
        BY OwedInTyped DEF TablesTyped, CustomerRow
      <4> QED
        BY <1>1, <3>1, <3>2, <4>1
    <3>3. CASE c # q
      BY <1>1, <3>1, <3>3 DEF PendingBut
    <3> QED
      BY <3>2, <3>3
  <2> QED
    BY <2>1 DEF BalanceAgrees
<1>5. LimitsAgree(C2, S, pd)
  BY <1>1 DEF Accounts, LimitsAgree
<1> QED
  BY <1>2, <1>3, <1>4, <1>5 DEF Accounts

\* deductProduct: the stock falls by what was taken of the batches.
LEMMA ProductDeducted ==
    ASSUME NEW t, NEW u, NEW P, NEW B, NEW C, NEW S, NEW pd, TablesTyped(P, B, C, S, pd), LocalsTyped(t),
           Fresh("takeBatch", t, P, B, C, S), Accounts("takeBatch", t, P, B, C, S, pd),
           t.req \in SaleForm, t.i <= Len(t.req.items), t.left = 0,
           NEW p, p = ProductOf(t), NEW ent, ent = [t.prod[p] EXCEPT !.stock = @ - t.req.items[t.i].qty],
           u.req = t.req, u.cust = t.cust, u.prod = [t.prod EXCEPT ![p] = ent],
           NEW P2, Puts(P2, P, p, ent), NEW v \in {"findBatches", "chargeCustomer"}
    PROVE  Fresh(v, u, P2, B, C, S) /\ Accounts(v, u, P2, B, C, S, pd)
<1>1. PICK d : d = t.req.items[t.i].qty
  OBVIOUS
<1>2. p \in Products /\ t.i \in Nat \ {0} /\ d \in Nat /\ Len(t.req.items) \in Nat
  <2>1. t.req.items \in Seq(CartItem)
    BY DEF SaleForm
  <2>2. PICK R : R = CartItem
    OBVIOUS
  <2>3. Len(t.req.items) \in Nat
    BY <2>1, <2>2
  <2>4. t.i \in Nat \ {0}
    BY DEF LocalsTyped
  <2>5. t.req.items[t.i].product \in Products /\ t.req.items[t.i].qty \in Nat
    BY <2>4, ItemTyped
  <2> QED
    BY <1>1, <2>3, <2>4, <2>5 DEF ProductOf
<1>3. t.prod[p] = P[p] /\ P[p] \in ProductRow
  <2>1. t.i \in 1 .. Len(t.req.items)
    BY <1>2
  <2> QED
    BY <1>2, <2>1 DEF Fresh, ProductsFresh, AllChecked, ProductOf, TablesTyped
<1>4. ent \in ProductRow /\ ent.stock = P[p].stock - d
  BY <1>1, <1>2, <1>3 DEF ProductRow
<1>5. P2[p] = ent /\ u.prod[p] = ent /\ \A q \in Products : q # p => P2[q] = P[q] /\ u.prod[q] = t.prod[q]
  BY <1>2 DEF Puts, TablesTyped, LocalsTyped
<1>6. ProductsFresh(v, u, P2)
  <2>1. ASSUME NEW j \in 1 .. Len(u.req.items)
        PROVE  u.prod[u.req.items[j].product] = P2[u.req.items[j].product]
    <3>1. t.prod[t.req.items[j].product] = P[t.req.items[j].product]
      BY <2>1 DEF Fresh, ProductsFresh, AllChecked
    <3>2. t.req.items[j].product \in Products
      BY <1>2, <2>1, ItemTyped
    <3> QED
      BY <1>5, <3>1, <3>2
  <2> QED
    BY <2>1 DEF ProductsFresh
<1>7. /\ AheadBy("takeBatch", t, p) = d /\ AheadBy(v, u, p) = 0
      /\ AheadBut("takeBatch", t, v, u, p) /\ SameBack("takeBatch", t, v, u)
      /\ SamePending("takeBatch", t, v, u)
  BY <1>1, <1>2 DEF AheadBy, PutBack, Pending, Restocking, BatchSection, AheadBut, SameBack, SamePending
<1>8. Fresh(v, u, P2, B, C, S)
  BY <1>6 DEF Fresh, CustomerFresh, ListSeen, SaleFresh, HasRoom, AllChecked, Restocking
<1>9. Accounts(v, u, P2, B, C, S, pd)
  <2>1. P[p].stock \in Int
    BY <1>3 DEF ProductRow
  <2>2. AheadBy(v, u, p) = AheadBy("takeBatch", t, p) + ent.stock - P[p].stock /\ AheadBy("takeBatch", t, p) \in Int
    BY <1>2, <1>4, <1>7, <2>1
  <2>3. v # "restockBatch" /\ v # "setVoid"
    OBVIOUS
  <2> QED
    BY <1>2, <1>4, <1>7, <2>2, <2>3, ProductSaved
<1> QED
  BY <1>8, <1>9

\* chargeCustomer: the balance catches up with the credit of the sale.
LEMMA CustomerCharged ==
    ASSUME NEW t, NEW u, NEW P, NEW B, NEW C, NEW S, NEW pd, TablesTyped(P, B, C, S, pd), LocalsTyped(t),
           Fresh("chargeCustomer", t, P, B, C, S), Accounts("chargeCustomer", t, P, B, C, S, pd),
           t.req \in SaleForm, SameCore(t, u), NEW C2,
           \/ /\ t.req.customer # NoCustomer
              /\ Puts(C2, C, t.req.customer, [t.cust EXCEPT !.balance = @ + t.req.credit])
           \/ (t.req.customer = NoCustomer \/ t.req.credit = 0) /\ C2 = C
    PROVE  Fresh("commit", u, P, B, C2, S) /\ Accounts("commit", u, P, B, C2, S, pd)
<1>1. PICK c, a : c = t.req.customer /\ a = t.req.credit
  OBVIOUS
<1>2. a \in Nat /\ (c # NoCustomer => c \in Customers)
  BY <1>1 DEF SaleForm
<1>3. u.pay \in Nat
  BY DEF SameCore, LocalsTyped
<1>4. /\ SameAhead("chargeCustomer", t, "commit", u) /\ SameBack("chargeCustomer", t, "commit", u)
      /\ \A x : Pending("chargeCustomer", t, x) = IF x = c THEN a ELSE 0
      /\ \A x : Pending("commit", u, x) \in Nat
      /\ \A x : x # c => Pending("commit", u, x) = 0
  BY <1>1, <1>3 DEF AheadBy, PutBack, Pending, Restocking, BatchSection, SameCore, SameAhead, SameBack
<1>5. Fresh("commit", u, P, B, C2, S)
  BY NothingRead
<1>6. CASE c # NoCustomer /\ Puts(C2, C, c, [t.cust EXCEPT !.balance = @ + a])
  <2>1. PICK ent : ent = [t.cust EXCEPT !.balance = @ + a]
    OBVIOUS
  <2>2. t.cust = C[c] /\ C[c] \in CustomerRow /\ c \in Customers
    BY <1>1, <1>2, <1>6 DEF Fresh, CustomerFresh, TablesTyped
  <2>3. ent \in CustomerRow /\ ent.balance = C[c].balance + a /\ ent.limit = C[c].limit /\ C[c].balance \in Int
    BY <1>2, <2>1, <2>2 DEF CustomerRow
  <2>4. LimitsNotRaised => ent.limit <= CreditLimit[c]
    BY <2>2, <2>3 DEF Accounts, LimitsAgree
  <2>5. /\ Pending("chargeCustomer", t, c) = a /\ Pending("commit", u, c) \in Nat
        /\ PendingBut("chargeCustomer", t, "commit", u, c)
    BY <1>4 DEF PendingBut
  <2>6. /\ Pending("chargeCustomer", t, c) \in Int /\ Pending("commit", u, c) \in Int
        /\ ent.balance + Pending("commit", u, c) >= C[c].balance + Pending("chargeCustomer", t, c)
    BY <1>2, <2>3, <2>5
  <2>7. Puts(C2, C, c, ent)
    BY <1>6, <2>1
  <2>8. Accounts("commit", u, P, B, C2, S, pd)
    BY <1>4, <2>2, <2>3, <2>4, <2>5, <2>6, <2>7, CustomerSaved
  <2> QED
    BY <1>5, <2>8
<1>7. CASE (c = NoCustomer \/ a = 0) /\ C2 = C
  <2>1. StockAgrees("commit", u, P, B)
    BY <1>4 DEF Accounts, StockAgrees, SameAhead
  <2>2. UnitsAgree("commit", u, B, S)
    BY <1>4 DEF Accounts, UnitsAgree, SameBack
  <2>3. ASSUME NEW x \in Customers PROVE C[x].balance + Pending("commit", u, x) >= OwedIn(S, x) - pd[x]
    <3>1. Pending("chargeCustomer", t, x) = 0
      BY <1>4, <1>7, TablesAssumption
    <3>2. C[x].balance + 0 >= OwedIn(S, x) - pd[x]
      BY <3>1 DEF Accounts, BalanceAgrees
    <3>3. Pending("commit", u, x) \in Nat
      BY <1>4
    <3>4. C[x].balance \in Int /\ OwedIn(S, x) \in Int /\ pd[x] \in Int
      BY OwedInTyped DEF TablesTyped, CustomerRow
    <3> QED
      BY <3>2, <3>3, <3>4
  <2>4. BalanceAgrees("commit", u, C2, S, pd)
    BY <1>7, <2>3 DEF BalanceAgrees
  <2> QED
    BY <1>5, <1>7, <2>1, <2>2, <2>4 DEF Accounts
<1> QED
  BY <1>1, <1>6, <1>7

-----------------------------------------------------------------------------
(* A void                                                                  *)

\* findSale: the sale that a void reads is completed.
LEMMA SaleFound ==
    ASSUME NEW t, NEW u, NEW P, NEW B, NEW C, NEW S, NEW pd, Accounts("findSale", t, P, B, C, S, pd),
           u.sold = S[u.req.sale], u.sold.status = "completed", u.todo = DOMAIN u.sold.lines
    PROVE  Fresh("restock", u, P, B, C, S) /\ Accounts("restock", u, P, B, C, S, pd)
<1>1. Fresh("restock", u, P, B, C, S)
  BY DEF Fresh, ProductsFresh, CustomerFresh, ListSeen, SaleFresh, HasRoom, AllChecked, Restocking
<1>2. "findSale" \in Plain
  BY DEF Plain
<1>3. \A b : PutBack("restock", u, b) = 0
  BY NothingBack DEF StillOut
<1>4. \A p : AheadBy("restock", u, p) = 0
  BY DEF AheadBy
<1>5. \A c : Pending("restock", u, c) = 0
  BY DEF Pending, BatchSection
<1>6. UnitsAgree("restock", u, B, S)
  BY <1>2, <1>3, PlainIsDone DEF Accounts, UnitsAgree
<1>7. StockAgrees("restock", u, P, B)
  BY <1>2, <1>4, PlainIsDone DEF Accounts, StockAgrees
<1>8. BalanceAgrees("restock", u, C, S, pd)
  BY <1>2, <1>5, PlainIsDone DEF Accounts, BalanceAgrees
<1> QED
  BY <1>1, <1>6, <1>7, <1>8 DEF Accounts

\* The opening batches are rows.
LEMMA OpeningTyped == ASSUME NEW b \in BatchIds PROVE OpeningBatch(b) \in BatchRow
<1>1. b[1] \in Products /\ Opening[b[1]] \in Seq(Nat \ {0})
  BY TablesAssumption DEF BatchIds
<1>2. CASE b[2] \in DOMAIN Opening[b[1]]
  <2>1. Opening[b[1]][b[2]] \in Nat
    BY <1>1, <1>2
  <2> QED
    BY <1>2, <2>1 DEF OpeningBatch, BatchRow
<1>3. CASE b[2] \notin DOMAIN Opening[b[1]]
  BY <1>3 DEF OpeningBatch, NoBatch, BatchRow
<1> QED
  BY <1>2, <1>3

\* A line of a sale that is typed, and its batch and units.
LEMMA SoldLine ==
    ASSUME NEW t, LocalsTyped(t), NEW i \in DOMAIN t.sold.lines
    PROVE  /\ t.sold.lines[i].batch \in BatchIds /\ t.sold.lines[i].batch[1] \in Products
           /\ t.sold.lines[i].qty \in Nat
<1>1. PICK L : L = Line
  OBVIOUS
<1>2. t.sold.lines \in Seq(L)
  BY <1>1 DEF LocalsTyped, SaleRow
<1>3. t.sold.lines[i] \in Line
  BY <1>1, <1>2
<1> QED
  BY <1>3 DEF Line, BatchIds

\* What a void puts back.
MoreStock(row, d) == [row EXCEPT !.stock = @ + d]
Refilled(row, d)  == [row EXCEPT !.qty = @ + d, !.active = TRUE]

\* Line i of the sale that t voids is d units of b, a batch of p.
SoldAs(t, i, b, p, d) == t.sold.lines[i] = [batch |-> b, qty |-> d] /\ b[1] = p
OneLess(t, u, i) == u.req = t.req /\ u.sold = t.sold /\ u.i = i /\ u.todo = t.todo \ {i}

\* restockProduct: the stock is ahead by the units of one line.
LEMMA ProductRestocked ==
    ASSUME NEW t, NEW u, NEW P, NEW B, NEW C, NEW S, NEW pd, TablesTyped(P, B, C, S, pd), LocalsTyped(t),
           Fresh("restock", t, P, B, C, S), Accounts("restock", t, P, B, C, S, pd),
           NEW i \in t.todo, NEW b, NEW p \in Products, NEW d \in Nat, SoldAs(t, i, b, p, d),
           NEW ent, ent = MoreStock(P[p], d), OneLess(t, u, i), NEW P2, Puts(P2, P, p, ent)
    PROVE  Fresh("restockBatch", u, P2, B, C, S) /\ Accounts("restockBatch", u, P2, B, C, S, pd)
<1>3. P[p] \in ProductRow
  BY DEF TablesTyped
<1>4. ent \in ProductRow /\ ent.stock = P[p].stock + d /\ P[p].stock \in Int
  <2>1. P[p].stock \in Int /\ P[p].active \in BOOLEAN
    BY <1>3 DEF ProductRow
  <2>2. ent = [stock |-> P[p].stock + d, active |-> P[p].active]
    BY <1>3 DEF ProductRow, MoreStock
  <2>3. P[p].stock + d \in Int
    BY <2>1
  <2> QED
    BY <2>1, <2>2, <2>3 DEF ProductRow
<1>5. Fresh("restockBatch", u, P2, B, C, S)
  BY DEF OneLess, Fresh, ProductsFresh, CustomerFresh, ListSeen, SaleFresh, HasRoom, AllChecked, Restocking
<1>6. StillOut("restockBatch", u) = StillOut("restock", t)
  BY DEF StillOut, OneLess
<1>7. /\ AheadBy("restock", t, p) = 0 /\ AheadBy("restockBatch", u, p) = d
      /\ AheadBut("restock", t, "restockBatch", u, p)
      /\ SameBack("restock", t, "restockBatch", u) /\ SamePending("restock", t, "restockBatch", u)
  <2>1. u.sold.lines[u.i].batch = b /\ b[1] = p /\ u.sold.lines[u.i].qty = d
    BY DEF SoldAs, OneLess
  <2>2. \A q : AheadBy("restock", t, q) = 0 /\ AheadBy("restockBatch", u, q) = IF p = q THEN d ELSE 0
    BY <2>1 DEF AheadBy
  <2>3. SameBack("restock", t, "restockBatch", u)
    BY <1>6 DEF OneLess, PutBack, SameBack, Restocking
  <2>4. SamePending("restock", t, "restockBatch", u)
    BY DEF Pending, SamePending, BatchSection
  <2> QED
    BY <2>2, <2>3, <2>4 DEF AheadBut
<1>8. AheadBy("restockBatch", u, p) = AheadBy("restock", t, p) + ent.stock - P[p].stock
      /\ AheadBy("restock", t, p) \in Int
  <2>1. PICK x : x = P[p].stock
    OBVIOUS
  <2>2. x \in Int /\ ent.stock = x + d /\ d \in Int
    BY <1>4, <2>1
  <2>3. d = 0 + ent.stock - x
    BY <2>2
  <2> QED
    BY <1>7, <2>1, <2>3
<1>9. u.i \notin u.todo
  BY DEF OneLess
<1>10. Accounts("restockBatch", u, P2, B, C, S, pd)
  BY <1>4, <1>7, <1>8, <1>9, ProductSaved
<1> QED
  BY <1>5, <1>10

SameVoid(t, u) == u.req = t.req /\ u.sold = t.sold /\ u.todo = t.todo

\* restockBatch: the batch catches up with the stock.
LEMMA BatchRestocked ==
    ASSUME NEW t, NEW u, NEW P, NEW B, NEW C, NEW S, NEW pd, TablesTyped(P, B, C, S, pd), LocalsTyped(t),
           Fresh("restockBatch", t, P, B, C, S), Accounts("restockBatch", t, P, B, C, S, pd),
           t.i \in DOMAIN t.sold.lines, NEW s \in SaleIds, s = t.req.sale,
           NEW b \in BatchIds, NEW p \in Products, NEW d \in Nat, SoldAs(t, t.i, b, p, d),
           NEW row, row = Refilled(B[b], d), SameVoid(t, u), NEW B2, Puts(B2, B, b, row)
    PROVE  Fresh("restock", u, P, B2, C, S) /\ Accounts("restock", u, P, B2, C, S, pd)
<1>3. B \in Batches /\ S \in Sales /\ B[b] \in BatchRow
  BY DEF TablesTyped, Batches
<1>4. row \in BatchRow /\ row.qty = B[b].qty + d /\ row.active /\ row.made = B[b].made /\ B[b].qty \in Nat
  <2>1. B[b].qty \in Nat /\ B[b].made \in BOOLEAN
    BY <1>3 DEF BatchRow
  <2>2. row = [qty |-> B[b].qty + d, active |-> TRUE, made |-> B[b].made]
    BY <1>3 DEF BatchRow, Refilled
  <2>3. B[b].qty + d \in Nat
    BY <2>1
  <2> QED
    BY <2>1, <2>2, <2>3 DEF BatchRow
<1>5. B2[b] = row /\ \A x \in BatchIds : x # b => B2[x] = B[x]
  BY <1>3 DEF Puts, Batches
<1>6. B[b].made
  <2>1. t.sold = S[s] /\ t.sold.lines[t.i].batch = b
    BY DEF Fresh, SaleFresh, Restocking, SoldAs
  <2> QED
    BY <2>1 DEF Accounts, BatchesInUse
<1>7. Fresh("restock", u, P, B2, C, S)
  BY DEF SameVoid, Fresh, ProductsFresh, CustomerFresh, ListSeen, SaleFresh, HasRoom, AllChecked, Restocking
<1>8. /\ \A q : AheadBy("restockBatch", t, q) = IF p = q THEN d ELSE 0
      /\ \A q : AheadBy("restock", u, q) = 0
      /\ \A c : Pending("restock", u, c) = Pending("restockBatch", t, c)
  BY DEF SameVoid, SoldAs, AheadBy, Pending, BatchSection
<1>9. StockAgrees("restock", u, P, B2)
  <2>1. ASSUME NEW q \in Products PROVE P[q].stock = HeldIn(B2, q) + AheadBy("restock", u, q)
    <3>1. P[q].stock = HeldIn(B, q) + (IF p = q THEN d ELSE 0)
      BY <1>8 DEF Accounts, StockAgrees
    <3>2. HeldIn(B2, q) = HeldIn(B, q) + (IF p = q THEN row.qty - B[b].qty ELSE 0)
      <4>1. HeldIn(B2, q) = HeldIn(B, q) + (IF b[1] = q THEN row.qty - B[b].qty ELSE 0)
        BY <1>3, <1>4, HeldOne
      <4> QED
        BY <4>1 DEF SoldAs
    <3>3. HeldIn(B, q) \in Int /\ B[b].qty \in Int /\ d \in Int
      BY <1>3, <1>4, HeldInTyped
    <3>4. AheadBy("restock", u, q) = 0
      BY <1>8
    <3>5. CASE p = q
      <4>1. P[q].stock = HeldIn(B, q) + d /\ HeldIn(B2, q) = HeldIn(B, q) + (row.qty - B[b].qty)
        BY <3>1, <3>2, <3>5
      <4> QED
        BY <1>4, <3>3, <3>4, <4>1
    <3>6. CASE p # q
      <4>1. P[q].stock = HeldIn(B, q) + 0 /\ HeldIn(B2, q) = HeldIn(B, q) + 0
        BY <3>1, <3>2, <3>6
      <4> QED
        BY <3>3, <3>4, <4>1
    <3> QED
      BY <3>5, <3>6
  <2> QED
    BY <2>1 DEF StockAgrees
<1>10. BatchesInUse(B2, S)
  <2>1. \A x \in BatchIds : B2[x].made = B[x].made
    BY <1>4, <1>5
  <2>2. \A x \in BatchIds : (B2[x].active => B2[x].made) /\ Emptied(B2[x])
    BY <1>4, <1>5, <1>6 DEF Accounts, BatchesInUse, Emptied
  <2>3. ASSUME NEW n \in SaleIds, NEW i \in DOMAIN S[n].lines PROVE B2[S[n].lines[i].batch].made
    <3>1. S[n].lines[i] \in Line
      <4>1. PICK L : L = Line
        OBVIOUS
      <4>2. S[n].lines \in Seq(L) /\ i \in DOMAIN S[n].lines
        BY <1>3, <2>3, <4>1 DEF Sales, SaleRow
      <4> QED
        BY <4>1, <4>2
    <3>2. B[S[n].lines[i].batch].made
      BY DEF Accounts, BatchesInUse
    <3> QED
      BY <2>1, <3>1, <3>2 DEF Line
  <2> QED
    BY <2>2, <2>3 DEF BatchesInUse
<1>11. UnitsAgree("restock", u, B2, S)
  <2>1. ASSUME NEW x \in BatchIds, OpeningBatch(x).made
        PROVE  B2[x].made /\ B2[x].qty + OutIn(S, x) - PutBack("restock", u, x) <= OpeningBatch(x).qty
    <3>1. B[x].made /\ B[x].qty + OutIn(S, x) - PutBack("restockBatch", t, x) <= OpeningBatch(x).qty
      BY <2>1 DEF Accounts, UnitsAgree
    <3>2. PutBack("restock", u, x) = PutBack("restockBatch", t, x) + (IF b = x THEN d ELSE 0)
      <4>1. t.i \notin t.todo
        BY DEF Accounts, UnitsAgree
      <4>2. StillOut("restock", u) = StillOut("restockBatch", t) \ {t.i} /\ t.i \in StillOut("restockBatch", t)
        BY <4>1 DEF StillOut, SameVoid
      <4>3. "restock" \in Restocking /\ "restockBatch" \in Restocking
        BY DEF Restocking
      <4>4. u.sold.lines \in Seq(Line) /\ t.sold = u.sold /\ t.i \in DOMAIN u.sold.lines
        BY DEF LocalsTyped, SaleRow, SameVoid
      <4>5. PutBack("restock", u, x) = PutBack("restockBatch", t, x)
              + (IF u.sold.lines[t.i].batch = x THEN u.sold.lines[t.i].qty ELSE 0)
        BY <4>2, <4>3, <4>4, OneLineBack
      <4> QED
        BY <4>4, <4>5 DEF SoldAs
    <3>3. OutIn(S, x) \in Int /\ PutBack("restockBatch", t, x) \in Int
      <4>1. t.sold.lines \in Seq(Line)
        BY DEF LocalsTyped, SaleRow
      <4> QED
        BY <1>3, <4>1, OutInTyped, PutBackTyped
    <3>4. B[x].qty \in Int
      BY <1>3 DEF Batches, BatchRow
    <3>5. OpeningBatch(x).qty \in Int
      BY OpeningTyped DEF BatchRow
    <3>6. CASE b = x
      <4>1. B2[x].qty = B[x].qty + d /\ B2[x].made
        BY <1>4, <1>5, <1>6, <3>6
      <4>2. PutBack("restock", u, x) = PutBack("restockBatch", t, x) + d
        BY <3>2, <3>6
      <4> QED
        BY <3>1, <3>3, <3>4, <3>5, <4>1, <4>2
    <3>7. CASE b # x
      <4>1. B2[x] = B[x]
        BY <1>5, <3>7
      <4>2. PutBack("restock", u, x) = PutBack("restockBatch", t, x) + 0
        BY <3>2, <3>7
      <4> QED
        BY <3>1, <3>3, <3>4, <3>5, <4>1, <4>2
    <3> QED
      BY <3>6, <3>7
  <2> QED
    BY <2>1 DEF UnitsAgree
<1>12. BalanceAgrees("restock", u, C, S, pd)
  BY <1>8 DEF Accounts, BalanceAgrees
<1> QED
  BY <1>7, <1>9, <1>10, <1>11, <1>12 DEF Accounts

\* reverseCredit: the credit leaves the balance before the sale is void.
LEMMA CreditReversed ==
    ASSUME NEW t, NEW u, NEW P, NEW B, NEW C, NEW S, NEW pd, TablesTyped(P, B, C, S, pd), LocalsTyped(t),
           Fresh("restock", t, P, B, C, S), Accounts("restock", t, P, B, C, S, pd),
           t.todo = {}, SameCore(t, u), NEW c, c = t.sold.customer, NEW C2,
           \/ c # NoCustomer /\ Puts(C2, C, c, [C[c] EXCEPT !.balance = Positive(@ - t.sold.credit)])
           \/ (c = NoCustomer \/ t.sold.credit = 0) /\ C2 = C
    PROVE  Fresh("setVoid", u, P, B, C2, S) /\ Accounts("setVoid", u, P, B, C2, S, pd)
<1>1. PICK a : a = t.sold.credit
  OBVIOUS
<1>2. a \in Nat /\ (c # NoCustomer => c \in Customers)
  BY <1>1 DEF LocalsTyped, SaleRow
<1>3. Fresh("setVoid", u, P, B, C2, S)
  BY DEF Fresh, ProductsFresh, CustomerFresh, ListSeen, SaleFresh, HasRoom, AllChecked, Restocking, SameCore
<1>4. StillOut("setVoid", u) = StillOut("restock", t) /\ u.todo = {}
  BY DEF StillOut, SameCore
<1>5. /\ SameAhead("restock", t, "setVoid", u) /\ SameBack("restock", t, "setVoid", u)
      /\ \A x : Pending("restock", t, x) = 0
      /\ \A x : Pending("setVoid", u, x) = IF x = c THEN a ELSE 0
  BY <1>1, <1>4 DEF AheadBy, SameAhead, PutBack, SameBack, Pending, SameCore, Restocking, BatchSection
<1>6. CASE c # NoCustomer /\ Puts(C2, C, c, [C[c] EXCEPT !.balance = Positive(@ - a)])
  <2>1. PICK ent : ent = [C[c] EXCEPT !.balance = Positive(@ - a)]
    OBVIOUS
  <2>2. C[c] \in CustomerRow /\ c \in Customers
    BY <1>2, <1>6 DEF TablesTyped
  <2>3. C[c].balance \in Int /\ Positive(C[c].balance - a) \in Int /\ Positive(C[c].balance - a) + a >= C[c].balance
    BY <1>2, <2>2 DEF CustomerRow, Positive
  <2>4. ent \in CustomerRow /\ ent.balance = Positive(C[c].balance - a) /\ ent.limit = C[c].limit
    BY <2>1, <2>2, <2>3 DEF CustomerRow
  <2>5. LimitsNotRaised => ent.limit <= CreditLimit[c]
    BY <2>2, <2>4 DEF Accounts, LimitsAgree
  <2>6. /\ Pending("restock", t, c) \in Int /\ Pending("setVoid", u, c) \in Int
        /\ ent.balance + Pending("setVoid", u, c) >= C[c].balance + Pending("restock", t, c)
    BY <1>2, <1>5, <2>3, <2>4
  <2>7. PendingBut("restock", t, "setVoid", u, c)
    BY <1>5 DEF PendingBut
  <2>8. Puts(C2, C, c, ent) /\ u.todo = {}
    BY <1>4, <1>6, <2>1
  <2>9. Accounts("setVoid", u, P, B, C2, S, pd)
    BY <1>5, <2>2, <2>4, <2>5, <2>6, <2>7, <2>8, CustomerSaved
  <2> QED
    BY <1>3, <2>9
<1>7. CASE (c = NoCustomer \/ a = 0) /\ C2 = C
  <2>1. StockAgrees("setVoid", u, P, B)
    BY <1>5 DEF Accounts, StockAgrees, SameAhead
  <2>2. UnitsAgree("setVoid", u, B, S)
    BY <1>4, <1>5 DEF Accounts, UnitsAgree, SameBack
  <2>3. \A x \in Customers : Pending("setVoid", u, x) = 0
    BY <1>5, <1>7, TablesAssumption
  <2>4. BalanceAgrees("setVoid", u, C2, S, pd)
    BY <1>5, <1>7, <2>3 DEF Accounts, BalanceAgrees
  <2> QED
    BY <1>3, <1>7, <2>1, <2>2, <2>4 DEF Accounts
<1> QED
  BY <1>1, <1>6, <1>7

\* setVoid: the sale is void, and all its units are back.
LEMMA SaleMarked ==
    ASSUME NEW t, NEW u, NEW P, NEW B, NEW C, NEW S, NEW pd, TablesTyped(P, B, C, S, pd), LocalsTyped(t),
           Fresh("setVoid", t, P, B, C, S), Accounts("setVoid", t, P, B, C, S, pd),
           NEW n \in SaleIds, n = t.req.sale, SameCore(t, u),
           NEW S2, S2 = [S EXCEPT ![n] = [t.sold EXCEPT !.status = "void"]]
    PROVE  Fresh("commit", u, P, B, C, S2) /\ Accounts("commit", u, P, B, C, S2, pd)
<1>1. PICK row : row = [t.sold EXCEPT !.status = "void"]
  OBVIOUS
<1>2. t.sold = S[n] /\ S[n] \in SaleRow /\ S[n].status = "completed" /\ S \in Sales /\ t.todo = {}
  BY DEF Fresh, SaleFresh, Restocking, TablesTyped, Sales, Accounts, UnitsAgree
<1>3. /\ row \in SaleRow /\ row.status = "void" /\ row.lines = S[n].lines
      /\ row.customer = S[n].customer /\ row.credit = S[n].credit
  BY <1>1, <1>2 DEF SaleRow
<1>4. Puts(S2, S, n, row) /\ S2[n] = row /\ \A s \in SaleIds : s # n => S2[s] = S[s]
  BY <1>1, <1>2 DEF Puts, Sales
<1>5. Fresh("commit", u, P, B, C, S2)
  BY NothingRead
<1>6. /\ SameAhead("setVoid", t, "commit", u)
      /\ \A b : PutBack("commit", u, b) = 0
      /\ \A c : Pending("setVoid", t, c) = CreditOn(S[n], c)
      /\ \A c : Pending("commit", u, c) \in Nat
  BY <1>2 DEF AheadBy, SameAhead, PutBack, Pending, SameCore, Restocking, BatchSection, CreditOn, LocalsTyped
<1>7. StockAgrees("commit", u, P, B)
  BY <1>6 DEF Accounts, StockAgrees, SameAhead
<1>8. BatchesInUse(B, S2)
  <2>1. \A s \in SaleIds : S2[s].lines = S[s].lines
    BY <1>3, <1>4
  <2> QED
    BY <2>1 DEF Accounts, BatchesInUse
<1>9. UnitsAgree("commit", u, B, S2)
  <2>1. ASSUME NEW x \in BatchIds, OpeningBatch(x).made
        PROVE  B[x].made /\ B[x].qty + OutIn(S2, x) - PutBack("commit", u, x) <= OpeningBatch(x).qty
    <3>1. B[x].made /\ B[x].qty + OutIn(S, x) - PutBack("setVoid", t, x) <= OpeningBatch(x).qty
      BY <2>1 DEF Accounts, UnitsAgree
    <3>2. S[n].lines \in Seq(Line)
      BY <1>2 DEF SaleRow
    <3>3. PutBack("setVoid", t, x) = LineUnits(S[n].lines, x) /\ LineUnits(S[n].lines, x) \in Int
      BY <1>2, <3>2, AllBack, LineUnitsTyped
    <3>4. OutIn(S2, x) = OutIn(S, x) - UnitsOn(S[n], x) + UnitsOn(row, x)
      BY <1>2, <1>3, <1>4, OutOne
    <3>5. UnitsOn(S[n], x) = LineUnits(S[n].lines, x) /\ UnitsOn(row, x) = 0
      BY <1>2, <1>3 DEF UnitsOn
    <3>6. OutIn(S, x) \in Int
      BY <1>2, OutInTyped
    <3>7. B[x].qty \in Int /\ OpeningBatch(x).qty \in Int
      BY <2>1, TablesAssumption DEF OpeningBatch, NoBatch, BatchIds, TablesTyped, Batches, BatchRow
    <3> QED
      BY <1>6, <3>1, <3>3, <3>4, <3>5, <3>6, <3>7
  <2> QED
    BY <2>1 DEF UnitsAgree
<1>10. ASSUME NEW c
       PROVE  OwedIn(S2, c) = OwedIn(S, c) - CreditOn(S[n], c) /\ OwedIn(S, c) \in Int /\ CreditOn(S[n], c) \in Nat
  <2>1. OwedIn(S2, c) = OwedIn(S, c) - CreditOn(S[n], c) + CreditOn(row, c)
    BY <1>2, <1>3, <1>4, OwedOne
  <2>2. CreditOn(row, c) = 0 /\ CreditOn(S[n], c) \in Nat /\ OwedIn(S, c) \in Int
    BY <1>2, <1>3, CreditOnTyped, OwedInTyped DEF CreditOn
  <2> QED
    BY <2>1, <2>2
<1>11. BalanceAgrees("commit", u, C, S2, pd)
  <2>1. ASSUME NEW c \in Customers PROVE C[c].balance + Pending("commit", u, c) >= OwedIn(S2, c) - pd[c]
    <3>1. C[c].balance + CreditOn(S[n], c) >= OwedIn(S, c) - pd[c]
      BY <1>6 DEF Accounts, BalanceAgrees
    <3>2. OwedIn(S2, c) = OwedIn(S, c) - CreditOn(S[n], c) /\ OwedIn(S, c) \in Int /\ CreditOn(S[n], c) \in Nat
      BY <1>10
    <3>3. C[c].balance \in Int /\ pd[c] \in Int /\ Pending("commit", u, c) \in Nat
      BY <1>6 DEF TablesTyped, CustomerRow
    <3> QED
      BY <3>1, <3>2, <3>3
  <2> QED
    BY <2>1 DEF BalanceAgrees
<1>12. LimitsAgree(C, S2, pd)
  <2>1. ASSUME LimitsNotRaised, NEW c \in Customers
        PROVE  C[c].limit <= CreditLimit[c] /\ OwedIn(S2, c) - pd[c] <= CreditLimit[c]
    <3>1. C[c].limit <= CreditLimit[c] /\ OwedIn(S, c) - pd[c] <= CreditLimit[c]
      BY <2>1 DEF Accounts, LimitsAgree
    <3>2. OwedIn(S2, c) = OwedIn(S, c) - CreditOn(S[n], c) /\ OwedIn(S, c) \in Int /\ CreditOn(S[n], c) \in Nat
      BY <1>10
    <3>3. pd[c] \in Int /\ CreditLimit[c] \in Int
      BY TablesAssumption DEF TablesTyped
    <3> QED
      BY <3>1, <3>2, <3>3
  <2> QED
    BY <2>1 DEF LimitsAgree
<1> QED
  BY <1>5, <1>7, <1>8, <1>9, <1>11, <1>12 DEF Accounts

-----------------------------------------------------------------------------
(* A stock adjustment                                                      *)

\* drainBatch: what leaves the batch is still in the stock.
LEMMA BatchDrained ==
    ASSUME NEW t, NEW u, NEW P, NEW B, NEW C, NEW S, NEW pd, TablesTyped(P, B, C, S, pd), LocalsTyped(t),
           Fresh("drainBatch", t, P, B, C, S), Accounts("drainBatch", t, P, B, C, S, pd),
           t.req \in StockForm,
           NEW p, p = t.req.product, NEW k \in Slots, NEW d, NEW B2, Takes(t, u, B, B2, p, k, d),
           u.req = t.req, u.prod = t.prod
    PROVE  Fresh("drainBatch", u, P, B2, C, S) /\ Accounts("drainBatch", u, P, B2, C, S, pd)
<1>1. p \in Products /\ t.req.qty \in Nat
  BY DEF StockForm
<1>2. B \in Batches /\ BatchesInUse(B, S) /\ S \in Sales
  BY DEF TablesTyped, Accounts
<1>3. Listed(t.list, B, p)
  BY DEF Fresh, ListSeen
<1>4. PICK b : b = <<p, k>>
  OBVIOUS
<1>5. /\ d \in Nat /\ b \in BatchIds /\ B2 \in Batches
      /\ B2[b].qty = B[b].qty - d /\ B[b].made
      /\ \A x \in BatchIds : B2[x].made = B[x].made /\ (x # b => B2[x] = B[x])
      /\ \A x \in BatchIds : (B2[x].active => B2[x].made) /\ Emptied(B2[x])
      /\ Listed(u.list, B2, p)
      /\ \A q \in Products : HeldIn(B2, q) = HeldIn(B, q) - (IF p = q THEN d ELSE 0)
  <2>1. TakenOf(u, B, B2, b, p, d)
    BY <1>1, <1>2, <1>3, <1>4, BatchTakenOf
  <2> QED
    BY <2>1 DEF TakenOf
<1>6. /\ \A q : AheadBy("drainBatch", t, q) = IF p = q THEN t.req.qty - t.left ELSE 0
      /\ \A q : AheadBy("drainBatch", u, q) = IF p = q THEN t.req.qty - u.left ELSE 0
      /\ \A x : PutBack("drainBatch", t, x) = 0 /\ PutBack("drainBatch", u, x) = 0
      /\ \A c : Pending("drainBatch", t, c) = 0 /\ Pending("drainBatch", u, c) = 0
  BY DEF AheadBy, PutBack, Pending, Restocking, BatchSection
<1>7. StockAgrees("drainBatch", u, P, B2)
  <2>1. ASSUME NEW q \in Products PROVE P[q].stock = HeldIn(B2, q) + AheadBy("drainBatch", u, q)
    <3>1. P[q].stock = HeldIn(B, q) + AheadBy("drainBatch", t, q)
      BY DEF Accounts, StockAgrees
    <3>2. HeldIn(B2, q) = HeldIn(B, q) - (IF p = q THEN d ELSE 0) /\ HeldIn(B, q) \in Int
      BY <1>2, <1>5, HeldInTyped
    <3>3. t.left \in Int /\ u.left = t.left - d /\ d \in Int
      BY <1>5 DEF LocalsTyped, Takes
    <3>4. CASE p = q
      <4>1. P[q].stock = HeldIn(B, q) + (t.req.qty - t.left) /\ HeldIn(B2, q) = HeldIn(B, q) - d
        BY <1>6, <3>1, <3>2, <3>4
      <4>2. AheadBy("drainBatch", u, q) = t.req.qty - u.left
        BY <1>6, <3>4
      <4> QED
        BY <1>1, <3>2, <3>3, <4>1, <4>2
    <3>5. CASE p # q
      <4>1. P[q].stock = HeldIn(B, q) + 0 /\ HeldIn(B2, q) = HeldIn(B, q) - 0
        BY <1>6, <3>1, <3>2, <3>5
      <4>2. AheadBy("drainBatch", u, q) = 0
        BY <1>6, <3>5
      <4> QED
        BY <3>2, <4>1, <4>2
    <3> QED
      BY <3>4, <3>5
  <2> QED
    BY <2>1 DEF StockAgrees
<1>8. BatchesInUse(B2, S)
  <2>1. ASSUME NEW n \in SaleIds, NEW i \in DOMAIN S[n].lines PROVE B2[S[n].lines[i].batch].made
    <3>1. S[n].lines[i] \in Line
      <4>1. PICK L : L = Line
        OBVIOUS
      <4>2. S[n].lines \in Seq(L) /\ i \in DOMAIN S[n].lines
        BY <1>2, <2>1, <4>1 DEF Sales, SaleRow
      <4> QED
        BY <4>1, <4>2
    <3>2. B[S[n].lines[i].batch].made
      BY <1>2 DEF BatchesInUse
    <3> QED
      BY <1>5, <3>1, <3>2 DEF Line
  <2> QED
    BY <1>5, <2>1 DEF BatchesInUse
<1>9. UnitsAgree("drainBatch", u, B2, S)
  <2>1. ASSUME NEW x \in BatchIds, OpeningBatch(x).made
        PROVE  B2[x].made /\ B2[x].qty + OutIn(S, x) - PutBack("drainBatch", u, x) <= OpeningBatch(x).qty
    <3>1. B[x].made /\ B[x].qty + OutIn(S, x) - 0 <= OpeningBatch(x).qty
      BY <1>6, <2>1 DEF Accounts, UnitsAgree
    <3>2. B2[x].made /\ B2[x].qty <= B[x].qty
      <4>1. B[x].qty \in Int
        BY <1>2 DEF Batches, BatchRow
      <4>2. CASE x = b
        BY <1>5, <3>1, <4>1, <4>2
      <4>3. CASE x # b
        BY <1>5, <3>1, <4>1, <4>3
      <4> QED
        BY <4>2, <4>3
    <3>3. B2[x].qty \in Int /\ B[x].qty \in Int
      BY <1>2, <1>5 DEF Batches, BatchRow
    <3>4. OpeningBatch(x).qty \in Int
      BY OpeningTyped DEF BatchRow
    <3>5. OutIn(S, x) \in Int /\ PutBack("drainBatch", u, x) = 0
      BY <1>2, <1>6, OutInTyped
    <3> QED
      BY <3>1, <3>2, <3>3, <3>4, <3>5
  <2> QED
    BY <2>1 DEF UnitsAgree
<1>10. BalanceAgrees("drainBatch", u, C, S, pd)
  BY <1>6 DEF Accounts, BalanceAgrees
<1>11. ListSeen("drainBatch", u, B2)
  BY <1>5 DEF ListSeen
<1>12. Fresh("drainBatch", u, P, B2, C, S)
  BY <1>11 DEF Fresh, ProductsFresh, CustomerFresh, SaleFresh, HasRoom, AllChecked, Restocking
<1> QED
  BY <1>7, <1>8, <1>9, <1>10, <1>12 DEF Accounts

\* The stock of product p less d.
LessStock(row, d) == [row EXCEPT !.stock = @ - d]

\* deductStock: the stock falls by what was drained.
LEMMA StockDeducted ==
    ASSUME NEW t, NEW u, NEW P, NEW B, NEW C, NEW S, NEW pd, TablesTyped(P, B, C, S, pd), LocalsTyped(t),
           Fresh("drainBatch", t, P, B, C, S), Accounts("drainBatch", t, P, B, C, S, pd),
           t.req \in StockForm, t.left = 0, NEW p, p = t.req.product,
           NEW ent, ent = LessStock(t.prod[p], t.req.qty), u.pay = 0, NEW P2, Puts(P2, P, p, ent)
    PROVE  Fresh("commit", u, P2, B, C, S) /\ Accounts("commit", u, P2, B, C, S, pd)
<1>1. p \in Products /\ t.req.qty \in Nat
  BY DEF StockForm
<1>2. t.prod[p] = P[p] /\ P[p] \in ProductRow
  BY <1>1 DEF Fresh, ProductsFresh, TablesTyped
<1>3. ent \in ProductRow /\ ent.stock = P[p].stock - t.req.qty /\ P[p].stock \in Int
  <2>1. P[p].stock \in Int /\ P[p].active \in BOOLEAN
    BY <1>2 DEF ProductRow
  <2>2. ent = [stock |-> P[p].stock - t.req.qty, active |-> P[p].active]
    BY <1>2 DEF ProductRow, LessStock
  <2>3. P[p].stock - t.req.qty \in Int
    BY <1>1, <2>1
  <2> QED
    BY <2>1, <2>2, <2>3 DEF ProductRow
<1>4. /\ \A q : AheadBy("commit", u, q) = 0
      /\ \A q : AheadBy("drainBatch", t, q) = IF p = q THEN t.req.qty ELSE 0
      /\ SameBack("drainBatch", t, "commit", u) /\ SamePending("drainBatch", t, "commit", u)
  <2>1. t.req.qty - 0 = t.req.qty
    BY <1>1
  <2> QED
    BY <2>1 DEF AheadBy, PutBack, SameBack, Pending, SamePending, Restocking, BatchSection
<1>5. AheadBut("drainBatch", t, "commit", u, p)
  BY <1>4 DEF AheadBut
<1>6. AheadBy("commit", u, p) = AheadBy("drainBatch", t, p) + ent.stock - P[p].stock
      /\ AheadBy("drainBatch", t, p) \in Int
  <2>1. AheadBy("commit", u, p) = 0 /\ AheadBy("drainBatch", t, p) = t.req.qty
    BY <1>4
  <2> QED
    BY <1>1, <1>3, <2>1
<1>7. Accounts("commit", u, P2, B, C, S, pd)
  <2>1. "commit" # "restockBatch" /\ "commit" # "setVoid"
    OBVIOUS
  <2> QED
    BY <1>1, <1>3, <1>4, <1>5, <1>6, <2>1, ProductSaved
<1>8. Fresh("commit", u, P2, B, C, S)
  BY NothingRead
<1> QED
  BY <1>7, <1>8

\* A stock-in: a new batch, and as much more stock.
LEMMA StockReceived ==
    ASSUME NEW t, NEW u, NEW P, NEW B, NEW C, NEW S, NEW pd, TablesTyped(P, B, C, S, pd), LocalsTyped(t),
           Fresh("stockIn", t, P, B, C, S), Accounts("stockIn", t, P, B, C, S, pd),
           t.req \in StockForm, NEW p, p = t.req.product,
           NEW ent, ent = MoreStock(t.prod[p], t.req.qty), u.pay = 0, NEW P2, Puts(P2, P, p, ent),
           NEW b \in BatchIds, b[1] = p, ~B[b].made, NEW row,
           row = [qty |-> t.req.qty, active |-> TRUE, made |-> TRUE], NEW B2, Puts(B2, B, b, row)
    PROVE  Fresh("commit", u, P2, B2, C, S) /\ Accounts("commit", u, P2, B2, C, S, pd)
<1>1. p \in Products /\ t.req.qty \in Nat
  BY DEF StockForm
<1>2. t.prod[p] = P[p] /\ P[p] \in ProductRow
  BY <1>1 DEF Fresh, ProductsFresh, TablesTyped
<1>3. B \in Batches /\ S \in Sales /\ B[b] \in BatchRow /\ row \in BatchRow
  BY <1>1 DEF TablesTyped, Batches, BatchRow
<1>4. ent.stock = P[p].stock + t.req.qty /\ P[p].stock \in Int
  BY <1>2 DEF ProductRow, MoreStock
<1>5. P2[p] = ent /\ \A q \in Products : q # p => P2[q] = P[q]
  BY <1>1 DEF Puts, TablesTyped
<1>6. B2[b] = row /\ \A x \in BatchIds : x # b => B2[x] = B[x]
  BY <1>3 DEF Puts, Batches
<1>7. B[b].qty = 0
  BY <1>3 DEF Accounts, BatchesInUse, Emptied, BatchRow
<1>8. \A q : AheadBy("stockIn", t, q) = 0 /\ AheadBy("commit", u, q) = 0
  BY DEF AheadBy
<1>9. StockAgrees("commit", u, P2, B2)
  <2>1. ASSUME NEW q \in Products PROVE P2[q].stock = HeldIn(B2, q) + AheadBy("commit", u, q)
    <3>1. P[q].stock = HeldIn(B, q) + 0 /\ AheadBy("commit", u, q) = 0 /\ HeldIn(B, q) \in Int
      BY <1>3, <1>8, HeldInTyped DEF Accounts, StockAgrees
    <3>2. HeldIn(B2, q) = HeldIn(B, q) + (IF b[1] = q THEN row.qty - B[b].qty ELSE 0)
      BY <1>3, HeldOne
    <3>3. CASE p = q
      <4>1. HeldIn(B2, q) = HeldIn(B, q) + (t.req.qty - 0)
        BY <1>7, <3>2, <3>3
      <4>2. P2[q].stock = P[q].stock + t.req.qty
        BY <1>4, <1>5, <3>3
      <4> QED
        BY <1>1, <3>1, <4>1, <4>2
    <3>4. CASE p # q
      <4>1. HeldIn(B2, q) = HeldIn(B, q) + 0 /\ P2[q] = P[q]
        BY <1>5, <3>2, <3>4
      <4> QED
        BY <3>1, <4>1
    <3> QED
      BY <3>3, <3>4
  <2> QED
    BY <2>1 DEF StockAgrees
<1>10. BatchesInUse(B2, S)
  <2>1. ASSUME NEW n \in SaleIds, NEW i \in DOMAIN S[n].lines PROVE B2[S[n].lines[i].batch].made
    <3>1. S[n].lines[i] \in Line
      <4>1. PICK L : L = Line
        OBVIOUS
      <4>2. S[n].lines \in Seq(L) /\ i \in DOMAIN S[n].lines
        BY <1>3, <2>1, <4>1 DEF Sales, SaleRow
      <4> QED
        BY <4>1, <4>2
    <3>2. B[S[n].lines[i].batch].made
      BY DEF Accounts, BatchesInUse
    <3> QED
      BY <1>6, <3>1, <3>2 DEF Line
  <2>2. \A x \in BatchIds : (B2[x].active => B2[x].made) /\ Emptied(B2[x])
    BY <1>6 DEF Accounts, BatchesInUse, Emptied
  <2> QED
    BY <2>1, <2>2 DEF BatchesInUse
<1>11. UnitsAgree("commit", u, B2, S)
  <2>1. \A x : PutBack("stockIn", t, x) = 0 /\ PutBack("commit", u, x) = 0
    BY DEF PutBack, Restocking
  <2>2. \A x \in BatchIds : OpeningBatch(x).made => x # b
    BY DEF Accounts, UnitsAgree
  <2>3. \A x \in BatchIds : OpeningBatch(x).made => B2[x] = B[x]
    BY <1>6, <2>2
  <2> QED
    BY <2>1, <2>3 DEF Accounts, UnitsAgree
<1>12. BalanceAgrees("commit", u, C, S, pd)
  <2>1. \A c : Pending("stockIn", t, c) = 0 /\ Pending("commit", u, c) = 0
    BY DEF Pending, BatchSection
  <2> QED
    BY <2>1 DEF Accounts, BalanceAgrees
<1>13. Fresh("commit", u, P2, B2, C, S)
  BY NothingRead
<1> QED
  BY <1>9, <1>10, <1>11, <1>12, <1>13 DEF Accounts

-----------------------------------------------------------------------------
(* Master data and payments                                                *)

\* editProduct, removeProduct: the stock is the one that was read.
LEMMA ProductEdited ==
    ASSUME NEW m \in {"editProduct", "removeProduct"},
           NEW t, NEW u, NEW P, NEW B, NEW C, NEW S, NEW pd, TablesTyped(P, B, C, S, pd),
           Fresh(m, t, P, B, C, S), Accounts(m, t, P, B, C, S, pd),
           NEW p \in Products, p = t.req.product,
           NEW ent \in ProductRow, ent.stock = t.prod[p].stock, u.pay = 0, NEW P2, Puts(P2, P, p, ent)
    PROVE  Fresh("commit", u, P2, B, C, S) /\ Accounts("commit", u, P2, B, C, S, pd)
<1>1. ent.stock = P[p].stock /\ ent.stock \in Int
  BY DEF Fresh, ProductsFresh, ProductRow
<1>2. /\ \A q : AheadBy("commit", u, q) = 0 /\ AheadBy(m, t, q) = 0
      /\ SameBack(m, t, "commit", u) /\ SamePending(m, t, "commit", u)
  BY DEF AheadBy, PutBack, SameBack, Pending, SamePending, Restocking, BatchSection
<1>3. AheadBut(m, t, "commit", u, p) /\ AheadBy(m, t, p) \in Int
  BY <1>2 DEF AheadBut
<1>4. AheadBy("commit", u, p) = AheadBy(m, t, p) + ent.stock - P[p].stock
  <2>1. 0 = 0 + ent.stock - ent.stock
    BY <1>1
  <2> QED
    BY <1>1, <1>2, <2>1
<1>5. Accounts("commit", u, P2, B, C, S, pd)
  <2>1. "commit" # "restockBatch" /\ "commit" # "setVoid"
    OBVIOUS
  <2> QED
    BY <1>2, <1>3, <1>4, <2>1, ProductSaved
<1>6. Fresh("commit", u, P2, B, C, S)
  BY NothingRead
<1> QED
  BY <1>5, <1>6

\* An edit of a customer keeps the balance, a payment lowers it by what it will book.
LEMMA AccountSaved ==
    ASSUME NEW m \in {"editCustomer", "deactivateCustomer", "insertPayment"},
           NEW t, NEW u, NEW P, NEW B, NEW C, NEW S, NEW pd, TablesTyped(P, B, C, S, pd),
           Fresh(m, t, P, B, C, S), Accounts(m, t, P, B, C, S, pd),
           NEW c \in Customers, c = t.req.customer, u.req = t.req,
           NEW ent \in CustomerRow, u.pay \in Nat, ent.balance = t.cust.balance - u.pay,
           LimitsNotRaised => ent.limit <= CreditLimit[c], NEW C2, Puts(C2, C, c, ent)
    PROVE  Fresh("commit", u, P, B, C2, S) /\ Accounts("commit", u, P, B, C2, S, pd)
<1>1. t.cust = C[c] /\ C[c].balance \in Int
  BY DEF Fresh, CustomerFresh, TablesTyped, CustomerRow
<1>2. /\ SameAhead(m, t, "commit", u) /\ SameBack(m, t, "commit", u)
      /\ \A x : Pending(m, t, x) = 0
      /\ \A x : Pending("commit", u, x) = IF u.pay > 0 /\ x = c THEN u.pay ELSE 0
  BY DEF AheadBy, SameAhead, PutBack, SameBack, Pending, Restocking, BatchSection
<1>3. Pending("commit", u, c) = u.pay /\ Pending("commit", u, c) \in Int /\ Pending(m, t, c) \in Int
  BY <1>2
<1>4. PendingBut(m, t, "commit", u, c)
  BY <1>2 DEF PendingBut
<1>5. ent.balance + Pending("commit", u, c) >= C[c].balance + Pending(m, t, c)
  <2>1. Pending(m, t, c) = 0
    BY <1>2
  <2> QED
    BY <1>1, <1>3, <2>1
<1>6. Accounts("commit", u, P, B, C2, S, pd)
  <2>1. "commit" # "restockBatch" /\ ("commit" = "setVoid" => u.todo = {})
    OBVIOUS
  <2> QED
    BY <1>2, <1>3, <1>4, <1>5, <2>1, CustomerSaved
<1>7. Fresh("commit", u, P, B, C2, S)
  BY NothingRead
<1> QED
  BY <1>6, <1>7

\* The payment counts once it is committed.
LEMMA PaymentCounts ==
    ASSUME NEW t, NEW P, NEW B, NEW C, NEW S, NEW pd, NEW pd2, TablesTyped(P, B, C, S, pd),
           Accounts("commit", t, P, B, C, S, pd), t.pay \in Nat,
           \A c \in Customers : pd2[c] = IF t.pay > 0 /\ t.req.customer = c THEN pd[c] + t.pay ELSE pd[c]
    PROVE  Accounts("idle", NoLocals, P, B, C, S, pd2)
<1>1. \A q : AheadBy("commit", t, q) = 0 /\ AheadBy("idle", NoLocals, q) = 0
  BY DEF AheadBy
<1>2. \A b : PutBack("commit", t, b) = 0 /\ PutBack("idle", NoLocals, b) = 0
  BY DEF PutBack, Restocking
<1>3. StockAgrees("idle", NoLocals, P, B)
  BY <1>1 DEF Accounts, StockAgrees
<1>4. UnitsAgree("idle", NoLocals, B, S)
  BY <1>2 DEF Accounts, UnitsAgree
<1>5. ASSUME NEW c \in Customers
      PROVE  /\ pd2[c] = pd[c] + Pending("commit", t, c) /\ Pending("commit", t, c) \in Nat
             /\ Pending("idle", NoLocals, c) = 0
             /\ OwedIn(S, c) \in Int /\ pd[c] \in Int /\ C[c].balance \in Int /\ CreditLimit[c] \in Int
  <2>1. pd[c] \in Int /\ C[c].balance \in Int /\ OwedIn(S, c) \in Int /\ CreditLimit[c] \in Int
    BY OwedInTyped, TablesAssumption DEF TablesTyped, CustomerRow
  <2>2. CASE t.pay > 0 /\ t.req.customer = c
    <3>1. Pending("commit", t, c) = t.pay /\ Pending("idle", NoLocals, c) = 0
      BY <2>2 DEF Pending, BatchSection
    <3> QED
      BY <2>1, <2>2, <3>1
  <2>3. CASE ~(t.pay > 0 /\ t.req.customer = c)
    <3>1. Pending("commit", t, c) = 0 /\ Pending("idle", NoLocals, c) = 0
      BY <2>3 DEF Pending, BatchSection
    <3>2. pd2[c] = pd[c] + 0
      BY <2>1, <2>3
    <3> QED
      BY <2>1, <3>1, <3>2
  <2> QED
    BY <2>2, <2>3
<1>6. BalanceAgrees("idle", NoLocals, C, S, pd2)
  <2>1. ASSUME NEW c \in Customers PROVE C[c].balance + Pending("idle", NoLocals, c) >= OwedIn(S, c) - pd2[c]
    <3>1. C[c].balance + Pending("commit", t, c) >= OwedIn(S, c) - pd[c]
      BY DEF Accounts, BalanceAgrees
    <3> QED
      BY <1>5, <3>1
  <2> QED
    BY <2>1 DEF BalanceAgrees
<1>7. LimitsAgree(C, S, pd2)
  <2>1. ASSUME LimitsNotRaised, NEW c \in Customers
        PROVE  C[c].limit <= CreditLimit[c] /\ OwedIn(S, c) - pd2[c] <= CreditLimit[c]
    <3>1. C[c].limit <= CreditLimit[c] /\ OwedIn(S, c) - pd[c] <= CreditLimit[c]
      BY <2>1 DEF Accounts, LimitsAgree
    <3> QED
      BY <1>5, <3>1
  <2> QED
    BY <2>1 DEF LimitsAgree
<1> QED
  BY <1>3, <1>4, <1>6, <1>7 DEF Accounts

-----------------------------------------------------------------------------
(* The one worker and its view of the tables                               *)

\* Each row is as it was, or w has a new version of it.
Wrote(w, T, T2) ==
    /\ DOMAIN T2 = DOMAIN T
    /\ \A k \in DOMAIN T : T2[k] = T[k] \/ (T2[k].cur = T[k].cur /\ T2[k].xid = w)

\* A table whose rows nobody but w has open.
OnlyOf(w, T, K, Row) ==
    T \in [K -> Versions(Row, {w})] /\ \A k \in K : T[k].xid = NoTx => T[k].new = T[k].cur

\* With one worker every row is open in its transaction or in none.
LEMMA OnlyMine ==
    ASSUME Serial, StoreSound, SerialSound, NEW w \in Workers
    PROVE  /\ OnlyOf(w, product, Products, ProductRow) /\ OnlyOf(w, batch, BatchIds, BatchRow)
           /\ OnlyOf(w, customer, Customers, CustomerRow) /\ OnlyOf(w, sale, SaleIds, SaleRow)
           /\ w # NoTx
<1>1. Workers = {w}
  BY DEF Serial
<1>2. /\ product \in [Products -> Versions(ProductRow, {w})] /\ batch \in [BatchIds -> Versions(BatchRow, {w})]
      /\ customer \in [Customers -> Versions(CustomerRow, {w})] /\ sale \in [SaleIds -> Versions(SaleRow, {w})]
  BY <1>1 DEF StoreSound, TypeOK
<1>3. Settled(product) /\ Settled(batch) /\ Settled(customer) /\ Settled(sale)
  BY DEF SerialSound
<1>4. OnlyOf(w, product, Products, ProductRow) /\ OnlyOf(w, batch, BatchIds, BatchRow)
  BY <1>2, <1>3 DEF OnlyOf, Settled
<1>5. OnlyOf(w, customer, Customers, CustomerRow) /\ OnlyOf(w, sale, SaleIds, SaleRow)
  BY <1>2, <1>3 DEF OnlyOf, Settled
<1> QED
  BY <1>4, <1>5, TablesAssumption

\* What w sees of such a table.
ViewOf(w, T, K, Row) ==
    /\ NewOf(T) \in [K -> Row] /\ CurOf(T) \in [K -> Row] /\ DOMAIN T = K
    /\ \A k \in K : /\ Seen(T[k], w) = NewOf(T)[k] /\ NewOf(T)[k] = T[k].new
                    /\ T[k].xid \in {NoTx, w} /\ (T[k].xid = NoTx => T[k].new = T[k].cur)

\* What such a worker sees of a table are rows of that table.
LEMMA OnlyTyped ==
    ASSUME NEW w, w # NoTx, NEW T, NEW K, NEW Row, OnlyOf(w, T, K, Row)
    PROVE  ViewOf(w, T, K, Row)
<1>1. DOMAIN T = K /\ \A k \in K : T[k] \in Versions(Row, {w})
  BY DEF OnlyOf
<1>2. \A k \in K : T[k].new \in Row /\ T[k].cur \in Row /\ T[k].xid \in {NoTx, w}
  BY <1>1 DEF Versions
<1>3. \A k \in K : T[k].xid = NoTx => T[k].new = T[k].cur
  BY DEF OnlyOf
<1>4. NewOf(T) \in [K -> Row] /\ CurOf(T) \in [K -> Row]
  BY <1>1, <1>2 DEF NewOf, CurOf
<1>5. \A k \in K : Seen(T[k], w) = NewOf(T)[k] /\ NewOf(T)[k] = T[k].new
  BY <1>1, <1>2, <1>3 DEF NewOf, Seen
<1> QED
  BY <1>1, <1>2, <1>3, <1>4, <1>5 DEF ViewOf

\* What the one worker sees.
LEMMA OwnView ==
    ASSUME Serial, StoreSound, SerialSound, NEW w \in Workers
    PROVE  /\ ViewOf(w, product, Products, ProductRow) /\ ViewOf(w, batch, BatchIds, BatchRow)
           /\ ViewOf(w, customer, Customers, CustomerRow) /\ ViewOf(w, sale, SaleIds, SaleRow)
           /\ TablesTyped(NewOf(product), NewOf(batch), NewOf(customer), NewOf(sale), paid)
<1>1. /\ OnlyOf(w, product, Products, ProductRow) /\ OnlyOf(w, batch, BatchIds, BatchRow)
      /\ OnlyOf(w, customer, Customers, CustomerRow) /\ OnlyOf(w, sale, SaleIds, SaleRow)
      /\ w # NoTx
  BY OnlyMine
<1>2. /\ ViewOf(w, product, Products, ProductRow) /\ ViewOf(w, batch, BatchIds, BatchRow)
      /\ ViewOf(w, customer, Customers, CustomerRow) /\ ViewOf(w, sale, SaleIds, SaleRow)
  BY <1>1, OnlyTyped
<1>6. paid \in [Customers -> Nat]
  BY DEF StoreSound, TypeOK
<1>7. TablesTyped(NewOf(product), NewOf(batch), NewOf(customer), NewOf(sale), paid)
  BY <1>2, <1>6 DEF ViewOf, TablesTyped, Batches, Sales
<1> QED
  BY <1>2, <1>7

\* The tables as the one worker sees them.
Mine(l, t) == /\ Fresh(l, t, NewOf(product), NewOf(batch), NewOf(customer), NewOf(sale))
              /\ Accounts(l, t, NewOf(product), NewOf(batch), NewOf(customer), NewOf(sale), paid)

\* At a statement that is no save the tables are as the worker sees them.
LEMMA NotSaved ==
    ASSUME NEW l, l \notin Saves, NEW t, NEW P, NEW B, NEW C, NEW S, NEW pd
    PROVE  Agrees(l, t, P, B, C, S, pd) <=> Fresh(l, t, P, B, C, S) /\ Accounts(l, t, P, B, C, S, pd)
  BY DEF Agrees, SavedIn, At

\* What the one worker knows at a statement of its own.
LEMMA OwnAgrees ==
    ASSUME Serial, StoreSound, SerialSound, NEW w \in Workers, NEW l, NEW t, l = pc[w], t = tx[w], l \notin Saves
    PROVE  At(l, t) = l /\ Knows(l, t) /\ LocalsTyped(t) /\ NumberFits(l, t, num[w]) /\ Mine(l, t)
<1>1. At(l, t) = l /\ Knows(l, t) /\ LocalsTyped(t) /\ NumberFits(l, t, num[w])
  BY DEF At, StoreSound, HandlersKnow, NumbersHeld, Knows
<1>2. Agrees(l, t, NewOf(product), NewOf(batch), NewOf(customer), NewOf(sale), paid)
  BY DEF SerialSound
<1>3. Mine(l, t)
  BY <1>2, NotSaved DEF Mine
<1> QED
  BY <1>1, <1>3

-----------------------------------------------------------------------------
(* The kinds of steps                                                      *)

\* A worker that wrote is not idle, and what it wrote is not committed.
LEMMA WroteSettles ==
    ASSUME Serial, NEW w \in Workers, w # NoTx, NEW T, NEW T2, Wrote(w, T, T2), Settled(T), pc'[w] # "idle",
           NEW k \in DOMAIN T2
    PROVE  /\ T2[k].xid = NoTx => T2[k].new = T2[k].cur
           /\ \A v \in Workers : pc'[v] = "idle" => T2[k].xid # v
           /\ T2[k].cur = T[k].cur
  BY DEF Serial, Wrote, Settled

\* A step inside a transaction keeps the invariant when the new view agrees.
LEMMA StepKeeps ==
    ASSUME Serial, StoreSound, SerialSound, NEW w \in Workers, NEW l, NEW t, Goto(w, l, t), l # "idle",
           UNCHANGED paid,
           Wrote(w, product, product'), Wrote(w, batch, batch'), Wrote(w, customer, customer'),
           Wrote(w, sale, sale'),
           Agrees(l, t, NewOf(product'), NewOf(batch'), NewOf(customer'), NewOf(sale'), paid'),
           WritesAll(l, t)'
    PROVE  SerialSound'
<1>1. pc'[w] = l /\ tx'[w] = t /\ w # NoTx
  BY TablesAssumption DEF Goto, StoreSound, HandlersKnow
<1>2. Settled(product) /\ Settled(batch) /\ Settled(customer) /\ Settled(sale)
  BY DEF SerialSound
<1>3. Settled(product)' /\ CurOf(product') = CurOf(product)
  <2>1. \A k \in DOMAIN product' : /\ product'[k].xid = NoTx => product'[k].new = product'[k].cur
                                   /\ \A v \in Workers : pc'[v] = "idle" => product'[k].xid # v
                                   /\ product'[k].cur = product[k].cur
    BY <1>1, <1>2, WroteSettles
  <2>2. DOMAIN product' = DOMAIN product
    BY DEF Wrote
  <2> QED
    BY <2>1, <2>2 DEF Settled, CurOf
<1>4. Settled(batch)' /\ CurOf(batch') = CurOf(batch)
  <2>1. \A k \in DOMAIN batch' : /\ batch'[k].xid = NoTx => batch'[k].new = batch'[k].cur
                                 /\ \A v \in Workers : pc'[v] = "idle" => batch'[k].xid # v
                                 /\ batch'[k].cur = batch[k].cur
    BY <1>1, <1>2, WroteSettles
  <2>2. DOMAIN batch' = DOMAIN batch
    BY DEF Wrote
  <2> QED
    BY <2>1, <2>2 DEF Settled, CurOf
<1>5. Settled(customer)' /\ CurOf(customer') = CurOf(customer)
  <2>1. \A k \in DOMAIN customer' : /\ customer'[k].xid = NoTx => customer'[k].new = customer'[k].cur
                                    /\ \A v \in Workers : pc'[v] = "idle" => customer'[k].xid # v
                                    /\ customer'[k].cur = customer[k].cur
    BY <1>1, <1>2, WroteSettles
  <2>2. DOMAIN customer' = DOMAIN customer
    BY DEF Wrote
  <2> QED
    BY <2>1, <2>2 DEF Settled, CurOf
<1>6. Settled(sale)' /\ CurOf(sale') = CurOf(sale)
  <2>1. \A k \in DOMAIN sale' : /\ sale'[k].xid = NoTx => sale'[k].new = sale'[k].cur
                                /\ \A v \in Workers : pc'[v] = "idle" => sale'[k].xid # v
                                /\ sale'[k].cur = sale[k].cur
    BY <1>1, <1>2, WroteSettles
  <2>2. DOMAIN sale' = DOMAIN sale
    BY DEF Wrote
  <2> QED
    BY <2>1, <2>2 DEF Settled, CurOf
<1>7. Accounts("idle", NoLocals, CurOf(product'), CurOf(batch'), CurOf(customer'), CurOf(sale'), paid')
  BY <1>3, <1>4, <1>5, <1>6 DEF SerialSound
<1>8. \A v \in Workers : /\ Agrees(pc'[v], tx'[v], NewOf(product'), NewOf(batch'), NewOf(customer'), NewOf(sale'), paid')
                         /\ WritesAll(pc[v], tx[v])'
  <2>1. \A v \in Workers : v = w
    BY DEF Serial
  <2>2. WritesAll(pc[w], tx[w])'
    BY <1>1 DEF WritesAll
  <2> QED
    BY <1>1, <2>1, <2>2
<1> QED
  BY <1>3, <1>4, <1>5, <1>6, <1>7, <1>8 DEF SerialSound

\* A table that stays is written as well.
LEMMA Unwritten == ASSUME NEW w, NEW T PROVE Wrote(w, T, T)
  BY DEF Wrote

\* A statement that writes nothing.
LEMMA ReadKeeps ==
    ASSUME Serial, StoreSound, SerialSound, NEW w \in Workers, NEW l, NEW t, Goto(w, l, t),
           l # "idle", l \notin Saves, UNCHANGED tables,
           Fresh(l, t, NewOf(product), NewOf(batch), NewOf(customer), NewOf(sale)),
           Accounts(l, t, NewOf(product), NewOf(batch), NewOf(customer), NewOf(sale), paid)
    PROVE  SerialSound'
<1>1. Agrees(l, t, NewOf(product), NewOf(batch), NewOf(customer), NewOf(sale), paid)
  BY NotSaved
<1>2. UNCHANGED <<product, batch, customer, sale, paid>>
  BY DEF tables
<1>3. WritesAll(l, t)'
  BY DEF WritesAll, Saves
<1>4. Wrote(w, product, product') /\ Wrote(w, batch, batch') /\ Wrote(w, customer, customer') /\ Wrote(w, sale, sale')
  BY <1>2, Unwritten
<1>5. Agrees(l, t, NewOf(product'), NewOf(batch'), NewOf(customer'), NewOf(sale'), paid')
  BY <1>1, <1>2
<1> QED
  BY <1>2, <1>3, <1>4, <1>5, StepKeeps

-----------------------------------------------------------------------------
(* The end of a request                                                    *)

\* All rows of T2 are committed, with the values of V.
Closes(T2, V) ==
    /\ CurOf(T2) = V /\ NewOf(T2) = V
    /\ \A k \in DOMAIN T2 : T2[k].xid = NoTx /\ T2[k].new = T2[k].cur

\* After a rollback the table is what was committed.
LEMMA RollbackCloses ==
    ASSUME NEW w, w # NoTx, NEW T, NEW K, NEW Row, ViewOf(w, T, K, Row), NEW T2, T2 = RollbackTable(T, w)
    PROVE  Closes(T2, CurOf(T))
<1>1. DOMAIN T2 = K /\ DOMAIN T = K
  BY DEF RollbackTable, ViewOf
<1>2. ASSUME NEW k \in K
      PROVE  T2[k].xid = NoTx /\ T2[k].new = T2[k].cur /\ T2[k].cur = T[k].cur
  <2>1. T2[k] = IF T[k].xid = w THEN Stored(T[k].cur) ELSE T[k]
    BY <1>1 DEF RollbackTable, RollbackRow
  <2>2. T[k].xid \in {NoTx, w} /\ (T[k].xid = NoTx => T[k].new = T[k].cur)
    BY DEF ViewOf
  <2> QED
    BY <2>1, <2>2 DEF Stored
<1> QED
  BY <1>1, <1>2 DEF Closes, CurOf, NewOf

\* After a commit the table is what the transaction saw.
LEMMA CommitCloses ==
    ASSUME NEW w, w # NoTx, NEW T, NEW K, NEW Row, ViewOf(w, T, K, Row), NEW T2, T2 = CommitTable(T, w)
    PROVE  Closes(T2, NewOf(T))
<1>1. DOMAIN T2 = K /\ DOMAIN T = K
  BY DEF CommitTable, ViewOf
<1>2. ASSUME NEW k \in K
      PROVE  T2[k].xid = NoTx /\ T2[k].new = T2[k].cur /\ T2[k].cur = T[k].new
  <2>1. T2[k] = IF T[k].xid = w THEN Stored(T[k].new) ELSE T[k]
    BY <1>1 DEF CommitTable, CommitRow
  <2>2. T[k].xid \in {NoTx, w} /\ (T[k].xid = NoTx => T[k].new = T[k].cur)
    BY DEF ViewOf
  <2> QED
    BY <2>1, <2>2 DEF Stored
<1> QED
  BY <1>1, <1>2 DEF Closes, CurOf, NewOf

\* The end of a transaction keeps the invariant when the tables agree.
LEMMA EndKeeps ==
    ASSUME Serial, StoreSound, NEW w \in Workers, Goto(w, "idle", NoLocals),
           NEW P, NEW B, NEW C, NEW S, Closes(product', P), Closes(batch', B), Closes(customer', C),
           Closes(sale', S), Accounts("idle", NoLocals, P, B, C, S, paid')
    PROVE  SerialSound'
<1>1. pc'[w] = "idle" /\ tx'[w] = NoLocals /\ \A v \in Workers : v = w /\ v # NoTx
  BY TablesAssumption DEF Serial, Goto, StoreSound, HandlersKnow
<1>2. /\ CurOf(product') = P /\ CurOf(batch') = B /\ CurOf(customer') = C /\ CurOf(sale') = S
      /\ NewOf(product') = P /\ NewOf(batch') = B /\ NewOf(customer') = C /\ NewOf(sale') = S
  BY DEF Closes
<1>3. Settled(product)' /\ Settled(batch)' /\ Settled(customer)' /\ Settled(sale)'
  BY <1>1 DEF Closes, Settled
<1>4. Agrees("idle", NoLocals, P, B, C, S, paid')
  <2>1. Fresh("idle", NoLocals, P, B, C, S)
    BY NothingRead
  <2>2. "idle" \notin Saves
    BY DEF Saves
  <2> QED
    BY <2>1, <2>2, NotSaved
<1>5. WritesAll("idle", NoLocals)'
  BY DEF WritesAll
<1>6. Accounts("idle", NoLocals, CurOf(product'), CurOf(batch'), CurOf(customer'), CurOf(sale'), paid')
  BY <1>2
<1>7. ASSUME NEW v \in Workers
      PROVE  /\ Agrees(pc'[v], tx'[v], NewOf(product'), NewOf(batch'), NewOf(customer'), NewOf(sale'), paid')
             /\ WritesAll(pc[v], tx[v])'
  <2>1. WritesAll(pc[w], tx[w])'
    BY <1>1, <1>5 DEF WritesAll
  <2> QED
    BY <1>1, <1>2, <1>4, <2>1
<1> QED
  BY <1>3, <1>6, <1>7 DEF SerialSound

\* An abort leaves the tables of before the transaction.
LEMMA AbortKeepsSerial ==
    ASSUME Serial, StoreSound, SerialSound, NEW w \in Workers, Abort(w)
    PROVE  SerialSound'
<1>1. /\ ViewOf(w, product, Products, ProductRow) /\ ViewOf(w, batch, BatchIds, BatchRow)
      /\ ViewOf(w, customer, Customers, CustomerRow) /\ ViewOf(w, sale, SaleIds, SaleRow)
      /\ w # NoTx
  BY OwnView, TablesAssumption
<1>2. /\ product' = RollbackTable(product, w) /\ batch' = RollbackTable(batch, w)
      /\ customer' = RollbackTable(customer, w) /\ sale' = RollbackTable(sale, w)
      /\ paid' = paid /\ Goto(w, "idle", NoLocals)
  BY DEF Abort, Leave
<1>3. /\ Closes(product', CurOf(product)) /\ Closes(batch', CurOf(batch))
      /\ Closes(customer', CurOf(customer)) /\ Closes(sale', CurOf(sale))
  BY <1>1, <1>2, RollbackCloses
<1>4. Accounts("idle", NoLocals, CurOf(product), CurOf(batch), CurOf(customer), CurOf(sale), paid')
  BY <1>2 DEF SerialSound
<1> QED
  BY <1>2, <1>3, <1>4, EndKeeps

\* A commit keeps the invariant: the last statement left nothing half done.
LEMMA CommitKeepsSerial ==
    ASSUME Serial, StoreSound, SerialSound, NEW w \in Workers, Commit(w)
    PROVE  SerialSound'
<1>1. PICK t : t = tx[w]
  OBVIOUS
<1>2. /\ ViewOf(w, product, Products, ProductRow) /\ ViewOf(w, batch, BatchIds, BatchRow)
      /\ ViewOf(w, customer, Customers, CustomerRow) /\ ViewOf(w, sale, SaleIds, SaleRow)
      /\ w # NoTx /\ TablesTyped(NewOf(product), NewOf(batch), NewOf(customer), NewOf(sale), paid)
  BY OwnView, TablesAssumption
<1>3. /\ product' = CommitTable(product, w) /\ batch' = CommitTable(batch, w)
      /\ customer' = CommitTable(customer, w) /\ sale' = CommitTable(sale, w)
      /\ pc[w] = "commit" /\ Goto(w, "idle", NoLocals)
  BY DEF Commit, Leave
<1>4. \A c \in Customers : paid'[c] = IF t.pay > 0 /\ t.req.customer = c THEN paid[c] + t.pay ELSE paid[c]
  BY <1>1 DEF Commit
<1>5. LocalsTyped(t) /\ Mine("commit", t)
  BY <1>1, <1>3, OwnAgrees DEF Saves
<1>6. t.pay \in Nat
  BY <1>5 DEF LocalsTyped
<1>7. Accounts("idle", NoLocals, NewOf(product), NewOf(batch), NewOf(customer), NewOf(sale), paid')
  BY <1>2, <1>4, <1>5, <1>6, PaymentCounts DEF Mine
<1>8. /\ Closes(product', NewOf(product)) /\ Closes(batch', NewOf(batch))
      /\ Closes(customer', NewOf(customer)) /\ Closes(sale', NewOf(sale))
  BY <1>2, <1>3, CommitCloses
<1> QED
  BY <1>3, <1>7, <1>8, EndKeeps

-----------------------------------------------------------------------------
(* A save                                                                  *)

\* The save of row key of table tbl makes V of the rows T of table name.
Makes(tbl, name, T, key, ent, V) == IF tbl = name THEN Puts(V, T, key, ent) ELSE V = T

\* A handler that starts to save.
LEMMA SaveKeeps ==
    ASSUME Serial, StoreSound, SerialSound, NEW w \in Workers, NEW tbl, NEW key, NEW ent, NEW m, NEW v,
           Save(w, tbl, key, ent, m, v), DOMAIN v = LocalNames, UNCHANGED paid,
           Wrote(w, product, product'), Wrote(w, batch, batch'), Wrote(w, customer, customer'),
           Wrote(w, sale, sale'), NEW P, NEW B, NEW C, NEW S,
           Makes(tbl, "product", NewOf(product'), key, ent, P), Makes(tbl, "batch", NewOf(batch'), key, ent, B),
           Makes(tbl, "customer", NewOf(customer'), key, ent, C), Makes(tbl, "sale", NewOf(sale'), key, ent, S),
           Fresh(m, v, P, B, C, S), Accounts(m, v, P, B, C, S, paid)
    PROVE  SerialSound'
<1>1. PICK t : t = Saving(tbl, key, ent, m, v)
  OBVIOUS
<1>2. Goto(w, "select", t)
  BY <1>1 DEF Save
<1>3. SameCore(v, t) /\ t.tbl = tbl /\ t.key = key /\ t.ent = ent /\ t.then = m
  BY <1>1 DEF Saving, SameCore, LocalNames
<1>4. Fresh(m, t, P, B, C, S) /\ Accounts(m, t, P, B, C, S, paid)
  BY <1>3, CoreAgrees
<1>5. At("select", t) = m /\ "select" \in Saves
  BY <1>3 DEF At, Saves
<1>6. /\ SavedIn(NewOf(product'), "product", "select", t) = P
      /\ SavedIn(NewOf(batch'), "batch", "select", t) = B
      /\ SavedIn(NewOf(customer'), "customer", "select", t) = C
      /\ SavedIn(NewOf(sale'), "sale", "select", t) = S
  BY <1>3, <1>5 DEF SavedIn, Makes, Puts
<1>7. Agrees("select", t, NewOf(product'), NewOf(batch'), NewOf(customer'), NewOf(sale'), paid')
  BY <1>4, <1>5, <1>6 DEF Agrees
<1>8. WritesAll("select", t)'
  BY DEF WritesAll
<1> QED
  BY <1>2, <1>7, <1>8, StepKeeps

\* Starting to save a product keeps the invariant when the view with it agrees.
LEMMA ProductSaveKeeps ==
    ASSUME Serial, StoreSound, SerialSound, NEW w \in Workers, NEW key, NEW ent, NEW m, NEW v,
           Save(w, "product", key, ent, m, v), DOMAIN v = LocalNames, UNCHANGED <<product, customer, sale, paid>>,
           Wrote(w, batch, batch'), NEW P, Puts(P, NewOf(product), key, ent),
           Fresh(m, v, P, NewOf(batch'), NewOf(customer), NewOf(sale)),
           Accounts(m, v, P, NewOf(batch'), NewOf(customer), NewOf(sale), paid)
    PROVE  SerialSound'
<1>1. /\ Makes("product", "product", NewOf(product'), key, ent, P)
      /\ Makes("product", "batch", NewOf(batch'), key, ent, NewOf(batch'))
      /\ Makes("product", "customer", NewOf(customer'), key, ent, NewOf(customer))
      /\ Makes("product", "sale", NewOf(sale'), key, ent, NewOf(sale))
  BY DEF Makes
<1>2. Wrote(w, product, product') /\ Wrote(w, customer, customer') /\ Wrote(w, sale, sale')
  BY Unwritten
<1> QED
  BY <1>1, <1>2, SaveKeeps

\* Starting to save a batch keeps it.
LEMMA BatchSaveKeeps ==
    ASSUME Serial, StoreSound, SerialSound, NEW w \in Workers, NEW key, NEW ent, NEW m, NEW v,
           Save(w, "batch", key, ent, m, v), DOMAIN v = LocalNames, UNCHANGED <<product, batch, customer, paid>>,
           Wrote(w, sale, sale'), NEW B, Puts(B, NewOf(batch), key, ent),
           Fresh(m, v, NewOf(product), B, NewOf(customer), NewOf(sale')),
           Accounts(m, v, NewOf(product), B, NewOf(customer), NewOf(sale'), paid)
    PROVE  SerialSound'
<1>1. /\ Makes("batch", "product", NewOf(product'), key, ent, NewOf(product))
      /\ Makes("batch", "batch", NewOf(batch'), key, ent, B)
      /\ Makes("batch", "customer", NewOf(customer'), key, ent, NewOf(customer))
      /\ Makes("batch", "sale", NewOf(sale'), key, ent, NewOf(sale'))
  BY DEF Makes
<1>2. Wrote(w, product, product') /\ Wrote(w, batch, batch') /\ Wrote(w, customer, customer')
  BY Unwritten
<1> QED
  BY <1>1, <1>2, SaveKeeps

\* Starting to save a customer keeps it.
LEMMA CustomerSaveKeeps ==
    ASSUME Serial, StoreSound, SerialSound, NEW w \in Workers, NEW key, NEW ent, NEW m, NEW v,
           Save(w, "customer", key, ent, m, v), DOMAIN v = LocalNames, UNCHANGED tables,
           NEW C, Puts(C, NewOf(customer), key, ent),
           Fresh(m, v, NewOf(product), NewOf(batch), C, NewOf(sale)),
           Accounts(m, v, NewOf(product), NewOf(batch), C, NewOf(sale), paid)
    PROVE  SerialSound'
<1>1. UNCHANGED <<product, batch, customer, sale, paid>>
  BY DEF tables
<1>2. /\ Makes("customer", "product", NewOf(product'), key, ent, NewOf(product))
      /\ Makes("customer", "batch", NewOf(batch'), key, ent, NewOf(batch))
      /\ Makes("customer", "customer", NewOf(customer'), key, ent, C)
      /\ Makes("customer", "sale", NewOf(sale'), key, ent, NewOf(sale))
  BY <1>1 DEF Makes
<1>3. Wrote(w, product, product') /\ Wrote(w, batch, batch') /\ Wrote(w, customer, customer') /\ Wrote(w, sale, sale')
  BY <1>1, Unwritten
<1> QED
  BY <1>1, <1>2, <1>3, SaveKeeps

\* Starting to save a sale keeps it.
LEMMA SaleSaveKeeps ==
    ASSUME Serial, StoreSound, SerialSound, NEW w \in Workers, NEW key, NEW ent, NEW m, NEW v,
           Save(w, "sale", key, ent, m, v), DOMAIN v = LocalNames, UNCHANGED tables,
           NEW S, Puts(S, NewOf(sale), key, ent),
           Fresh(m, v, NewOf(product), NewOf(batch), NewOf(customer), S),
           Accounts(m, v, NewOf(product), NewOf(batch), NewOf(customer), S, paid)
    PROVE  SerialSound'
<1>1. UNCHANGED <<product, batch, customer, sale, paid>>
  BY DEF tables
<1>2. /\ Makes("sale", "product", NewOf(product'), key, ent, NewOf(product))
      /\ Makes("sale", "batch", NewOf(batch'), key, ent, NewOf(batch))
      /\ Makes("sale", "customer", NewOf(customer'), key, ent, NewOf(customer))
      /\ Makes("sale", "sale", NewOf(sale'), key, ent, S)
  BY <1>1 DEF Makes
<1>3. Wrote(w, product, product') /\ Wrote(w, batch, batch') /\ Wrote(w, customer, customer') /\ Wrote(w, sale, sale')
  BY <1>1, Unwritten
<1> QED
  BY <1>1, <1>2, <1>3, SaveKeeps

\* An entity is what its row becomes when all that differs is written, and is the row
\* when nothing differs.
Rows == {ProductRow, BatchRow, CustomerRow, SaleRow}

\* A row with all the changed columns written is the entity.
LEMMA PatchedIs ==
    ASSUME NEW Row \in Rows, NEW row \in Row, NEW ent \in Row, NEW cols, Changed(ent, row) \subseteq cols
    PROVE  Patched(row, ent, cols) = ent
<1>1. CASE Row = ProductRow
  BY <1>1 DEF Changed, Patched, ProductRow
<1>2. CASE Row = BatchRow
  BY <1>2 DEF Changed, Patched, BatchRow
<1>3. CASE Row = CustomerRow
  BY <1>3 DEF Changed, Patched, CustomerRow
<1>4. CASE Row = SaleRow
  BY <1>4 DEF Changed, Patched, SaleRow
<1> QED
  BY <1>1, <1>2, <1>3, <1>4 DEF Rows

\* An entity without changes is the row.
LEMMA SameEntity ==
    ASSUME NEW Row \in Rows, NEW row \in Row, NEW ent \in Row, Changed(ent, row) = {}
    PROVE  ent = row
<1>1. CASE Row = ProductRow
  BY <1>1 DEF Changed, ProductRow
<1>2. CASE Row = BatchRow
  BY <1>2 DEF Changed, BatchRow
<1>3. CASE Row = CustomerRow
  BY <1>3 DEF Changed, CustomerRow
<1>4. CASE Row = SaleRow
  BY <1>4 DEF Changed, SaleRow
<1> QED
  BY <1>1, <1>2, <1>3, <1>4 DEF Rows

\* A row that is saved as it is, and one that is written as computed.
LEMMA SavedAsIs ==
    ASSUME NEW w, NEW T, NEW K, NEW Row \in Rows, ViewOf(w, T, K, Row), NEW key \in K, NEW ent \in Row,
           Changed(ent, Seen(T[key], w)) = {}
    PROVE  [NewOf(T) EXCEPT ![key] = ent] = NewOf(T)
<1>1. Seen(T[key], w) = NewOf(T)[key] /\ NewOf(T)[key] \in Row /\ NewOf(T) \in [K -> Row]
  BY DEF ViewOf
<1>2. ent = NewOf(T)[key]
  BY <1>1, SameEntity
<1> QED
  BY <1>1, <1>2

Patches(w, T, key, ent, cols, T2) == T2 = [T EXCEPT ![key] = Written(@, w, Patched(Seen(@, w), ent, cols))]

\* With nobody else writing, a save stores the whole entity.
LEMMA SavedAsComputed ==
    ASSUME NEW w, NEW T, NEW K, NEW Row \in Rows, ViewOf(w, T, K, Row), NEW key \in K, NEW ent \in Row,
           T \in [K -> Versions(Row, {w})],
           NEW cols, Changed(ent, T[key].new) \subseteq cols,
           NEW T2, Patches(w, T, key, ent, cols, T2)
    PROVE  Wrote(w, T, T2) /\ NewOf(T2) = [NewOf(T) EXCEPT ![key] = ent]
<1>1. Seen(T[key], w) = T[key].new /\ T[key].new \in Row /\ NewOf(T) \in [K -> Row] /\ DOMAIN T = K
  BY DEF ViewOf
<1>2. Patched(Seen(T[key], w), ent, cols) = ent
  BY <1>1, PatchedIs
<1>3. T2[key] = Written(T[key], w, ent) /\ DOMAIN T2 = K /\ \A k \in K : k # key => T2[k] = T[k]
  BY <1>1, <1>2 DEF Patches
<1>4. T2[key].cur = T[key].cur /\ T2[key].xid = w /\ T2[key].new = ent
  <2>1. T[key] \in Versions(Row, {w})
    OBVIOUS
  <2> QED
    BY <1>3, <2>1 DEF Written, Versions
<1>5. Wrote(w, T, T2)
  BY <1>1, <1>3, <1>4 DEF Wrote
<1>6. NewOf(T2) = [NewOf(T) EXCEPT ![key] = ent]
  BY <1>1, <1>3, <1>4 DEF NewOf
<1> QED
  BY <1>5, <1>6

\* What the one worker knows while it saves.
LEMMA SavesAgree ==
    ASSUME Serial, StoreSound, SerialSound, NEW w \in Workers, NEW l \in Saves, NEW t, l = pc[w], t = tx[w]
    PROVE  /\ SaveTyped(t) /\ LocalsTyped(t) /\ t.then \notin Saves /\ t.then # "idle" /\ WritesAll(l, t)
           /\ Fresh(t.then, t, SavedIn(NewOf(product), "product", l, t), SavedIn(NewOf(batch), "batch", l, t),
                    SavedIn(NewOf(customer), "customer", l, t), SavedIn(NewOf(sale), "sale", l, t))
           /\ Accounts(t.then, t, SavedIn(NewOf(product), "product", l, t), SavedIn(NewOf(batch), "batch", l, t),
                       SavedIn(NewOf(customer), "customer", l, t), SavedIn(NewOf(sale), "sale", l, t), paid)
           /\ SameCore(t, Saved(t))
<1>1. SaveTyped(t) /\ LocalsTyped(t) /\ At(l, t) = t.then
  BY DEF StoreSound, HandlersKnow, Knows, At
<1>2. t.then \notin Saves /\ t.then # "idle"
  BY <1>1 DEF SaveTyped, AfterSave, Saves
<1>3. Agrees(l, t, NewOf(product), NewOf(batch), NewOf(customer), NewOf(sale), paid) /\ WritesAll(l, t)
  BY DEF SerialSound
<1>4. SameCore(t, Saved(t))
  BY <1>1 DEF Saved, SameCore, LocalsTyped, LocalNames
<1> QED
  BY <1>1, <1>2, <1>3, <1>4 DEF Agrees

\* The SELECT of a save finds the row that the handler changed.
LEMMA SaveSelectKeepsSerial ==
    ASSUME Serial, StoreSound, SerialSound, NEW w \in Workers, SaveSelect(w)
    PROVE  SerialSound'
<1>1. PICK t, l : t = tx[w] /\ l = "select"
  OBVIOUS
<1>2. PICK cols : cols = Changed(t.ent, Seen(RowOf(t), w)) \cup Details(t.req)
  OBVIOUS
<1>3. /\ pc[w] = l /\ l \in Saves /\ UNCHANGED tables
      /\ IF cols = {} THEN Goto(w, t.then, Saved(t)) ELSE Goto(w, "update", [t EXCEPT !.cols = cols])
  BY <1>1, <1>2 DEF SaveSelect, Saves
<1>4. /\ SaveTyped(t) /\ LocalsTyped(t) /\ t.then \notin Saves /\ t.then # "idle" /\ WritesAll(l, t)
      /\ SameCore(t, Saved(t))
  BY <1>1, <1>3, SavesAgree
<1>5. PICK P, B, C, S :
         /\ P = SavedIn(NewOf(product), "product", l, t) /\ B = SavedIn(NewOf(batch), "batch", l, t)
         /\ C = SavedIn(NewOf(customer), "customer", l, t) /\ S = SavedIn(NewOf(sale), "sale", l, t)
  OBVIOUS
<1>6. Fresh(t.then, t, P, B, C, S) /\ Accounts(t.then, t, P, B, C, S, paid)
  BY <1>1, <1>3, <1>5, SavesAgree
<1>7. UNCHANGED <<product, batch, customer, sale, paid>>
  BY <1>3 DEF tables
<1>8. /\ ViewOf(w, product, Products, ProductRow) /\ ViewOf(w, batch, BatchIds, BatchRow)
      /\ ViewOf(w, customer, Customers, CustomerRow) /\ ViewOf(w, sale, SaleIds, SaleRow)
  BY OwnView
<1>9. CASE cols = {}
  <2>1. Changed(t.ent, Seen(RowOf(t), w)) = {}
    BY <1>2, <1>9
  <2>2. P = NewOf(product) /\ B = NewOf(batch) /\ C = NewOf(customer) /\ S = NewOf(sale)
    <3>1. CASE t.tbl = "product" /\ t.key \in Products /\ t.ent \in ProductRow
      <4>1. Changed(t.ent, Seen(product[t.key], w)) = {}
        BY <2>1, <3>1 DEF RowOf
      <4>2. [NewOf(product) EXCEPT ![t.key] = t.ent] = NewOf(product)
        BY <1>8, <3>1, <4>1, SavedAsIs DEF Rows
      <4> QED
        BY <1>5, <3>1, <4>2 DEF SavedIn
    <3>2. CASE t.tbl = "batch" /\ t.key \in BatchIds /\ t.ent \in BatchRow
      <4>1. Changed(t.ent, Seen(batch[t.key], w)) = {}
        BY <2>1, <3>2 DEF RowOf
      <4>2. [NewOf(batch) EXCEPT ![t.key] = t.ent] = NewOf(batch)
        BY <1>8, <3>2, <4>1, SavedAsIs DEF Rows
      <4> QED
        BY <1>5, <3>2, <4>2 DEF SavedIn
    <3>3. CASE t.tbl = "customer" /\ t.key \in Customers /\ t.ent \in CustomerRow
      <4>1. Changed(t.ent, Seen(customer[t.key], w)) = {}
        BY <2>1, <3>3 DEF RowOf
      <4>2. [NewOf(customer) EXCEPT ![t.key] = t.ent] = NewOf(customer)
        BY <1>8, <3>3, <4>1, SavedAsIs DEF Rows
      <4> QED
        BY <1>5, <3>3, <4>2 DEF SavedIn
    <3>4. CASE t.tbl = "sale" /\ t.key \in SaleIds /\ t.ent \in SaleRow
      <4>1. Changed(t.ent, Seen(sale[t.key], w)) = {}
        BY <2>1, <3>4 DEF RowOf
      <4>2. [NewOf(sale) EXCEPT ![t.key] = t.ent] = NewOf(sale)
        BY <1>8, <3>4, <4>1, SavedAsIs DEF Rows
      <4> QED
        BY <1>5, <3>4, <4>2 DEF SavedIn
    <3> QED
      BY <1>4, <3>1, <3>2, <3>3, <3>4 DEF SaveTyped, VoidForm
  <2>3. /\ Fresh(t.then, Saved(t), NewOf(product), NewOf(batch), NewOf(customer), NewOf(sale))
        /\ Accounts(t.then, Saved(t), NewOf(product), NewOf(batch), NewOf(customer), NewOf(sale), paid)
    BY <1>4, <1>6, <2>2, CoreAgrees
  <2>4. Goto(w, t.then, Saved(t))
    BY <1>3, <1>9
  <2> QED
    BY <1>3, <1>4, <2>3, <2>4, ReadKeeps
<1>10. CASE cols # {}
  <2>1. PICK u : u = [t EXCEPT !.cols = cols]
    OBVIOUS
  <2>2. Goto(w, "update", u)
    BY <1>3, <1>10, <2>1
  <2>3. /\ SameCore(t, u) /\ u.tbl = t.tbl /\ u.key = t.key /\ u.ent = t.ent /\ u.then = t.then /\ u.cols = cols
    BY <1>4, <2>1 DEF SameCore, LocalsTyped, LocalNames
  <2>4. Fresh(t.then, u, P, B, C, S) /\ Accounts(t.then, u, P, B, C, S, paid)
    BY <1>6, <2>3, CoreAgrees
  <2>5. At("update", u) = t.then /\ "update" \in Saves
    BY <2>3 DEF At, Saves
  <2>6. /\ SavedIn(NewOf(product), "product", "update", u) = P
        /\ SavedIn(NewOf(batch), "batch", "update", u) = B
        /\ SavedIn(NewOf(customer), "customer", "update", u) = C
        /\ SavedIn(NewOf(sale), "sale", "update", u) = S
    BY <1>3, <1>5, <2>3, <2>5 DEF SavedIn
  <2>7. Agrees("update", u, NewOf(product), NewOf(batch), NewOf(customer), NewOf(sale), paid)
    BY <2>4, <2>5, <2>6 DEF Agrees
  <2>8. Agrees("update", u, NewOf(product'), NewOf(batch'), NewOf(customer'), NewOf(sale'), paid')
    BY <1>7, <2>7
  <2>9. WritesAll("update", u)'
    <3>1. CASE t.tbl = "product" /\ t.key \in Products
      BY <1>2, <1>7, <1>8, <2>3, <3>1 DEF WritesAll, RowOf, ViewOf
    <3>2. CASE t.tbl = "batch" /\ t.key \in BatchIds
      BY <1>2, <1>7, <1>8, <2>3, <3>2 DEF WritesAll, RowOf, ViewOf
    <3>3. CASE t.tbl = "customer" /\ t.key \in Customers
      BY <1>2, <1>7, <1>8, <2>3, <3>3 DEF WritesAll, RowOf, ViewOf
    <3>4. CASE t.tbl = "sale" /\ t.key \in SaleIds
      BY <1>2, <1>7, <1>8, <2>3, <3>4 DEF WritesAll, RowOf, ViewOf
    <3> QED
      BY <1>4, <3>1, <3>2, <3>3, <3>4 DEF SaveTyped, VoidForm
  <2>10. Wrote(w, product, product') /\ Wrote(w, batch, batch') /\ Wrote(w, customer, customer') /\ Wrote(w, sale, sale')
    BY <1>7, Unwritten
  <2> QED
    BY <1>7, <2>2, <2>8, <2>9, <2>10, StepKeeps
<1> QED
  BY <1>9, <1>10

\* The UPDATE of a save makes the view what the invariant said it would be.
LEMMA SaveUpdateKeepsSerial ==
    ASSUME Serial, StoreSound, SerialSound, NEW w \in Workers, SaveUpdate(w)
    PROVE  SerialSound'
<1>1. PICK t, l : t = tx[w] /\ l = "update"
  OBVIOUS
<1>0. PICK key, ent, cols : key = t.key /\ ent = t.ent /\ cols = t.cols
  OBVIOUS
<1>2. /\ pc[w] = l /\ l \in Saves /\ Goto(w, t.then, Saved(t)) /\ UNCHANGED paid
      /\ product' = Updated(product, "product", w) /\ batch' = Updated(batch, "batch", w)
      /\ customer' = Updated(customer, "customer", w) /\ sale' = Updated(sale, "sale", w)
  BY <1>1 DEF SaveUpdate, Saves
<1>3. /\ SaveTyped(t) /\ LocalsTyped(t) /\ t.then \notin Saves /\ t.then # "idle" /\ WritesAll(l, t)
      /\ SameCore(t, Saved(t))
  BY <1>1, <1>2, SavesAgree
<1>4. PICK P, B, C, S :
         /\ P = SavedIn(NewOf(product), "product", l, t) /\ B = SavedIn(NewOf(batch), "batch", l, t)
         /\ C = SavedIn(NewOf(customer), "customer", l, t) /\ S = SavedIn(NewOf(sale), "sale", l, t)
  OBVIOUS
<1>5. Fresh(t.then, t, P, B, C, S) /\ Accounts(t.then, t, P, B, C, S, paid)
  BY <1>1, <1>2, <1>4, SavesAgree
<1>6. /\ ViewOf(w, product, Products, ProductRow) /\ ViewOf(w, batch, BatchIds, BatchRow)
      /\ ViewOf(w, customer, Customers, CustomerRow) /\ ViewOf(w, sale, SaleIds, SaleRow)
  BY OwnView
<1>7. /\ product \in [Products -> Versions(ProductRow, {w})] /\ batch \in [BatchIds -> Versions(BatchRow, {w})]
      /\ customer \in [Customers -> Versions(CustomerRow, {w})] /\ sale \in [SaleIds -> Versions(SaleRow, {w})]
  BY OnlyMine DEF OnlyOf
<1>8. Changed(t.ent, RowOf(t).new) \subseteq t.cols
  BY <1>1, <1>3 DEF WritesAll
<1>9. Wrote(w, product, product') /\ NewOf(product') = P
  <2>1. CASE t.tbl = "product"
    <3>1. key \in Products /\ ent \in ProductRow
      BY <1>0, <1>3, <2>1 DEF SaveTyped
    <3>2. Patches(w, product, key, ent, cols, product')
      BY <1>0, <1>1, <1>2, <2>1 DEF Updated, Patches
    <3>3. Changed(ent, product[key].new) \subseteq cols
      BY <1>0, <1>8, <2>1 DEF RowOf
    <3>4. ProductRow \in Rows
      BY DEF Rows
    <3>5. ViewOf(w, product, Products, ProductRow) /\ product \in [Products -> Versions(ProductRow, {w})]
      BY <1>6, <1>7
    <3>6. Wrote(w, product, product') /\ NewOf(product') = [NewOf(product) EXCEPT ![key] = ent]
      BY <3>1, <3>2, <3>3, <3>4, <3>5, SavedAsComputed
    <3> QED
      BY <1>0, <1>2, <1>4, <2>1, <3>6 DEF SavedIn
  <2>2. CASE t.tbl # "product"
    BY <1>1, <1>2, <1>4, <2>2, Unwritten DEF Updated, SavedIn
  <2> QED
    BY <2>1, <2>2
<1>10. Wrote(w, batch, batch') /\ NewOf(batch') = B
  <2>1. CASE t.tbl = "batch"
    <3>1. key \in BatchIds /\ ent \in BatchRow
      BY <1>0, <1>3, <2>1 DEF SaveTyped
    <3>2. Patches(w, batch, key, ent, cols, batch')
      BY <1>0, <1>1, <1>2, <2>1 DEF Updated, Patches
    <3>3. Changed(ent, batch[key].new) \subseteq cols
      BY <1>0, <1>8, <2>1 DEF RowOf
    <3>4. BatchRow \in Rows
      BY DEF Rows
    <3>5. ViewOf(w, batch, BatchIds, BatchRow) /\ batch \in [BatchIds -> Versions(BatchRow, {w})]
      BY <1>6, <1>7
    <3>6. Wrote(w, batch, batch') /\ NewOf(batch') = [NewOf(batch) EXCEPT ![key] = ent]
      BY <3>1, <3>2, <3>3, <3>4, <3>5, SavedAsComputed
    <3> QED
      BY <1>0, <1>2, <1>4, <2>1, <3>6 DEF SavedIn
  <2>2. CASE t.tbl # "batch"
    BY <1>1, <1>2, <1>4, <2>2, Unwritten DEF Updated, SavedIn
  <2> QED
    BY <2>1, <2>2
<1>11. Wrote(w, customer, customer') /\ NewOf(customer') = C
  <2>1. CASE t.tbl = "customer"
    <3>1. key \in Customers /\ ent \in CustomerRow
      BY <1>0, <1>3, <2>1 DEF SaveTyped
    <3>2. Patches(w, customer, key, ent, cols, customer')
      BY <1>0, <1>1, <1>2, <2>1 DEF Updated, Patches
    <3>3. Changed(ent, customer[key].new) \subseteq cols
      BY <1>0, <1>8, <2>1 DEF RowOf
    <3>4. CustomerRow \in Rows
      BY DEF Rows
    <3>5. ViewOf(w, customer, Customers, CustomerRow) /\ customer \in [Customers -> Versions(CustomerRow, {w})]
      BY <1>6, <1>7
    <3>6. Wrote(w, customer, customer') /\ NewOf(customer') = [NewOf(customer) EXCEPT ![key] = ent]
      BY <3>1, <3>2, <3>3, <3>4, <3>5, SavedAsComputed
    <3> QED
      BY <1>0, <1>2, <1>4, <2>1, <3>6 DEF SavedIn
  <2>2. CASE t.tbl # "customer"
    BY <1>1, <1>2, <1>4, <2>2, Unwritten DEF Updated, SavedIn
  <2> QED
    BY <2>1, <2>2
<1>12. Wrote(w, sale, sale') /\ NewOf(sale') = S
  <2>1. CASE t.tbl = "sale"
    <3>1. key \in SaleIds /\ ent \in SaleRow
      BY <1>0, <1>3, <2>1 DEF SaveTyped, VoidForm
    <3>2. Patches(w, sale, key, ent, cols, sale')
      BY <1>0, <1>1, <1>2, <2>1 DEF Updated, Patches
    <3>3. Changed(ent, sale[key].new) \subseteq cols
      BY <1>0, <1>8, <2>1 DEF RowOf
    <3>4. SaleRow \in Rows
      BY DEF Rows
    <3>5. ViewOf(w, sale, SaleIds, SaleRow) /\ sale \in [SaleIds -> Versions(SaleRow, {w})]
      BY <1>6, <1>7
    <3>6. Wrote(w, sale, sale') /\ NewOf(sale') = [NewOf(sale) EXCEPT ![key] = ent]
      BY <3>1, <3>2, <3>3, <3>4, <3>5, SavedAsComputed
    <3> QED
      BY <1>0, <1>2, <1>4, <2>1, <3>6 DEF SavedIn
  <2>2. CASE t.tbl # "sale"
    BY <1>1, <1>2, <1>4, <2>2, Unwritten DEF Updated, SavedIn
  <2> QED
    BY <2>1, <2>2
<1>13. Fresh(t.then, Saved(t), P, B, C, S) /\ Accounts(t.then, Saved(t), P, B, C, S, paid)
  BY <1>3, <1>5, CoreAgrees
<1>14. Agrees(t.then, Saved(t), NewOf(product'), NewOf(batch'), NewOf(customer'), NewOf(sale'), paid')
  BY <1>2, <1>3, <1>9, <1>10, <1>11, <1>12, <1>13, NotSaved
<1>15. WritesAll(t.then, Saved(t))'
  BY <1>3 DEF WritesAll, Saves
<1> QED
  BY <1>2, <1>3, <1>9, <1>10, <1>11, <1>12, <1>14, <1>15, StepKeeps

-----------------------------------------------------------------------------
(* The statements that read                                                *)

\* What the one worker reads is what its transaction has written.
LEMMA OwnRead ==
    ASSUME Serial, StoreSound, SerialSound, NEW w \in Workers
    PROVE  /\ \A p \in Products : Seen(product[p], w) = NewOf(product)[p] /\ NewOf(product)[p] \in ProductRow
           /\ \A b \in BatchIds : Seen(batch[b], w) = NewOf(batch)[b] /\ NewOf(batch)[b] \in BatchRow
           /\ \A c \in Customers : Seen(customer[c], w) = NewOf(customer)[c] /\ NewOf(customer)[c] \in CustomerRow
           /\ \A s \in SaleIds : Seen(sale[s], w) = NewOf(sale)[s] /\ NewOf(sale)[s] \in SaleRow
<1>1. /\ ViewOf(w, product, Products, ProductRow) /\ ViewOf(w, batch, BatchIds, BatchRow)
      /\ ViewOf(w, customer, Customers, CustomerRow) /\ ViewOf(w, sale, SaleIds, SaleRow)
  BY OwnView
<1> QED
  BY <1>1 DEF ViewOf

\* The action Begin keeps the invariant.
LEMMA BeginKeepsSerial ==
    ASSUME Serial, StoreSound, SerialSound, NEW w \in Workers, NEW r \in Requests, Begin(w, r)
    PROVE  SerialSound'
<1>1. PICK t, u, m : t = tx[w] /\ u = [NoLocals EXCEPT !.req = r] /\ m = Entry(r)
  OBVIOUS
<1>2. pc[w] = "idle" /\ UNCHANGED tables /\ Goto(w, m, u) /\ u.i = 1
  BY <1>1 DEF Begin, NoLocals
<1>3. Mine("idle", t)
  BY <1>1, <1>2, OwnAgrees DEF Saves
<1>4. m \in {"findCustomer", "findSale", "findStock", "findProduct", "findAccount", "findDebtor"}
  BY <1>1, FormsAssumption DEF Entry, SaleForm, VoidForm, StockForm, ProductForm, LimitForm, AccountForm,
     PaymentForm
<1>5. m \in Plain /\ "idle" \in Plain /\ m # "idle" /\ m \notin Saves
  BY <1>4 DEF Plain, Saves
<1>6. Fresh(m, u, NewOf(product), NewOf(batch), NewOf(customer), NewOf(sale))
  BY <1>2, <1>4, NothingRead
<1>7. Accounts(m, u, NewOf(product), NewOf(batch), NewOf(customer), NewOf(sale), paid)
  BY <1>3, <1>5, PlainAccounts DEF Mine
<1> QED
  BY <1>2, <1>5, <1>6, <1>7, ReadKeeps

\* The action FindCustomer keeps the invariant.
LEMMA FindCustomerKeepsSerial ==
    ASSUME Serial, StoreSound, SerialSound, NEW w \in Workers, FindCustomer(w)
    PROVE  SerialSound'
<1>1. PICK t : t = tx[w]
  OBVIOUS
<1>2. pc[w] = "findCustomer" /\ "findCustomer" \notin Saves /\ "findCustomer" \in Plain /\ "checkStock" \in Plain
      /\ "checkStock" \notin Saves
  BY DEF FindCustomer, Saves, Plain
<1>3. /\ Knows("findCustomer", t) /\ LocalsTyped(t) /\ Mine("findCustomer", t) /\ At("findCustomer", t) = "findCustomer"
  BY <1>1, <1>2, OwnAgrees
<1>4. t.req \in SaleForm
  BY <1>3 DEF Knows, Selling, BeforeNumber
<1>5. CASE ~Abort(w)
  <2>1. PICK u : /\ UNCHANGED tables /\ Goto(w, "checkStock", u)
                 /\ IF t.req.customer = NoCustomer THEN u = t
                    ELSE u = [t EXCEPT !.cust = Seen(customer[t.req.customer], w)]
    BY <1>1, <1>5 DEF FindCustomer
  <2>2. u.req = t.req /\ u.i = t.i
    BY <1>3, <2>1 DEF LocalsTyped, LocalNames
  <2>3. t.req.customer # NoCustomer => u.cust = NewOf(customer)[t.req.customer]
    <3>1. HAVE t.req.customer # NoCustomer
    <3>2. t.req.customer \in Customers
      BY <1>4, <3>1 DEF SaleForm
    <3>3. Seen(customer[t.req.customer], w) = NewOf(customer)[t.req.customer]
      BY <3>2, OwnRead
    <3> QED
      BY <1>3, <2>1, <3>1, <3>3 DEF LocalsTyped, LocalNames
  <2>4. Fresh("checkStock", u, NewOf(product), NewOf(batch), NewOf(customer), NewOf(sale))
    BY <1>3, <2>2, <2>3, CustomerFound DEF Mine
  <2>5. Accounts("checkStock", u, NewOf(product), NewOf(batch), NewOf(customer), NewOf(sale), paid)
    BY <1>2, <1>3, PlainAccounts DEF Mine
  <2> QED
    BY <1>2, <2>1, <2>4, <2>5, ReadKeeps
<1> QED
  BY <1>5, AbortKeepsSerial

\* The action CheckStock keeps the invariant.
LEMMA CheckStockKeepsSerial ==
    ASSUME Serial, StoreSound, SerialSound, NEW w \in Workers, CheckStock(w)
    PROVE  SerialSound'
<1>1. PICK t, q, row : t = tx[w] /\ q = ProductOf(t) /\ row = Seen(product[q], w)
  OBVIOUS
<1>2. pc[w] = "checkStock" /\ "checkStock" \notin Saves /\ "checkStock" \in Plain
      /\ "generateSaleNumber" \in Plain /\ "generateSaleNumber" \notin Saves
  BY DEF CheckStock, Saves, Plain
<1>3. Knows("checkStock", t) /\ LocalsTyped(t) /\ Mine("checkStock", t) /\ At("checkStock", t) = "checkStock"
  BY <1>1, <1>2, OwnAgrees
<1>4. t.req \in SaleForm /\ t.i <= Len(t.req.items) /\ t.i \in Nat \ {0} /\ t.prod \in [Products -> ProductRow]
  BY <1>3 DEF Knows, LocalsTyped, Selling, BeforeNumber
<1>5. q \in Products
  BY <1>1, <1>4, ItemTyped DEF ProductOf, SaleForm
<1>6. row = NewOf(product)[q]
  BY <1>1, <1>5, OwnRead
<1>7. CASE ~Abort(w)
  <2>0. /\ UNCHANGED tables
        /\ IF t.i < Len(t.req.items) THEN Goto(w, "checkStock", Checked(t, t.i + 1, q, row))
           ELSE Goto(w, "generateSaleNumber", Checked(t, 1, q, row))
    BY <1>1, <1>7 DEF CheckStock, ProductOf
  <2>1. PICK j, v : /\ UNCHANGED tables /\ Goto(w, v, Checked(t, j, q, row))
                    /\ \/ v = "checkStock" /\ t.i < Len(t.req.items) /\ j = t.i + 1
                       \/ v = "generateSaleNumber" /\ t.i >= Len(t.req.items)
    <3>1. CASE t.i < Len(t.req.items)
      BY <2>0, <3>1
    <3>2. CASE ~(t.i < Len(t.req.items))
      <4>1. Len(t.req.items) \in Nat
        BY <1>4 DEF SaleForm
      <4> QED
        BY <1>4, <2>0, <3>2, <4>1
    <3> QED
      BY <3>1, <3>2
  <2>2. PICK u : u = Checked(t, j, q, row)
    OBVIOUS
  <2>3. u.req = t.req /\ u.cust = t.cust /\ u.prod = [t.prod EXCEPT ![q] = NewOf(product)[q]] /\ u.i = j
    BY <1>3, <1>6, <2>2 DEF Checked, LocalsTyped, LocalNames
  <2>4. Fresh(v, u, NewOf(product), NewOf(batch), NewOf(customer), NewOf(sale))
    BY <1>1, <1>3, <1>4, <2>1, <2>3, StockChecked DEF Mine
  <2>5. v \in Plain /\ v \notin Saves /\ v # "idle"
    BY <1>2, <2>1
  <2>6. Accounts(v, u, NewOf(product), NewOf(batch), NewOf(customer), NewOf(sale), paid)
    BY <1>2, <1>3, <2>5, PlainAccounts DEF Mine
  <2> QED
    BY <2>1, <2>2, <2>4, <2>5, <2>6, ReadKeeps
<1> QED
  BY <1>7, AbortKeepsSerial

\* The action GenerateSaleNumber keeps the invariant.
LEMMA GenerateSaleNumberKeepsSerial ==
    ASSUME Serial, StoreSound, SerialSound, NEW w \in Workers, GenerateSaleNumber(w)
    PROVE  SerialSound'
<1>1. PICK t : t = tx[w]
  OBVIOUS
<1>2. pc[w] = "generateSaleNumber" /\ "generateSaleNumber" \notin Saves /\ "generateSaleNumber" \in Plain
      /\ "insertSale" \in Plain /\ "insertSale" \notin Saves
  BY DEF GenerateSaleNumber, Saves, Plain
<1>3. Knows("generateSaleNumber", t) /\ LocalsTyped(t) /\ Mine("generateSaleNumber", t)
      /\ At("generateSaleNumber", t) = "generateSaleNumber"
  BY <1>1, <1>2, OwnAgrees
<1>4. t.req \in SaleForm /\ t.req \in Requests /\ t.cust \in CustomerRow
  BY <1>3 DEF Knows, LocalsTyped, Selling, BeforeNumber
<1>5. CASE ~Abort(w)
  <2>1. UNCHANGED tables /\ Goto(w, "insertSale", t) /\ ~CreditRefused(t)
    BY <1>1, <1>5 DEF GenerateSaleNumber
  <2>2. Fresh("insertSale", t, NewOf(product), NewOf(batch), NewOf(customer), NewOf(sale))
    BY <1>3, <1>4, <2>1, NumberDrawn DEF Mine
  <2>3. Accounts("insertSale", t, NewOf(product), NewOf(batch), NewOf(customer), NewOf(sale), paid)
    BY <1>2, <1>3, PlainAccounts DEF Mine
  <2> QED
    BY <1>2, <2>1, <2>2, <2>3, ReadKeeps
<1> QED
  BY <1>5, AbortKeepsSerial

\* The batches that can be sold are active.
LEMMA OpenBatchesListed ==
    ASSUME Serial, StoreSound, SerialSound, NEW w \in Workers, NEW p \in Products, NEW list, list = OpenBatches(p, w)
    PROVE  Listed(list, NewOf(batch), p)
<1>1. \A k \in DOMAIN list : /\ k \in Slots /\ list[k] = Seen(batch[<<p, k>>], w)
                             /\ Seen(batch[<<p, k>>], w).active
  BY DEF OpenBatches
<1>2. \A k \in DOMAIN list : <<p, k>> \in BatchIds
  BY <1>1 DEF BatchIds
<1> QED
  BY <1>1, <1>2, OwnRead DEF Listed

\* The action FindBatches keeps the invariant.
LEMMA FindBatchesKeepsSerial ==
    ASSUME Serial, StoreSound, SerialSound, NEW w \in Workers, FindBatches(w)
    PROVE  SerialSound'
<1>1. PICK t, p : t = tx[w] /\ p = ProductOf(t)
  OBVIOUS
<1>2. PICK u : u = [t EXCEPT !.list = OpenBatches(p, w), !.left = t.req.items[t.i].qty]
  OBVIOUS
<1>3. pc[w] = "findBatches" /\ "findBatches" \notin Saves /\ "takeBatch" \notin Saves /\ UNCHANGED tables
      /\ Goto(w, "takeBatch", u)
  BY <1>1, <1>2 DEF FindBatches, Saves, ProductOf
<1>4. Knows("findBatches", t) /\ LocalsTyped(t) /\ Mine("findBatches", t) /\ At("findBatches", t) = "findBatches"
  BY <1>1, <1>3, OwnAgrees
<1>5. t.req \in SaleForm /\ t.i <= Len(t.req.items) /\ t.i \in Nat \ {0}
  BY <1>4 DEF Knows, LocalsTyped, Selling, BatchSection
<1>6. p \in Products
  BY <1>1, <1>5, ItemTyped DEF ProductOf, SaleForm
<1>7. /\ u.req = t.req /\ u.i = t.i /\ u.cust = t.cust /\ u.prod = t.prod /\ u.left = u.req.items[u.i].qty
      /\ u.list = OpenBatches(p, w)
  BY <1>2, <1>4 DEF LocalsTyped, LocalNames
<1>8. Listed(u.list, NewOf(batch), p)
  BY <1>6, <1>7, OpenBatchesListed
<1>9. /\ Fresh("takeBatch", u, NewOf(product), NewOf(batch), NewOf(customer), NewOf(sale))
      /\ Accounts("takeBatch", u, NewOf(product), NewOf(batch), NewOf(customer), NewOf(sale), paid)
  BY <1>1, <1>4, <1>5, <1>7, <1>8, BatchesFound DEF Mine
<1> QED
  BY <1>3, <1>9, ReadKeeps

\* The action StockOut keeps the invariant.
LEMMA StockOutKeepsSerial ==
    ASSUME Serial, StoreSound, SerialSound, NEW w \in Workers, StockOut(w)
    PROVE  SerialSound'
<1>1. PICK t, p : t = tx[w] /\ p = t.req.product
  OBVIOUS
<1>2. PICK u : u = [t EXCEPT !.list = OpenBatches(p, w), !.left = t.req.qty]
  OBVIOUS
<1>3. pc[w] = "stockOut" /\ "stockOut" \notin Saves /\ "drainBatch" \notin Saves
  BY DEF StockOut, Saves
<1>4. Knows("stockOut", t) /\ LocalsTyped(t) /\ Mine("stockOut", t) /\ At("stockOut", t) = "stockOut"
  BY <1>1, <1>3, OwnAgrees
<1>5. t.req \in StockForm /\ p \in Products
  BY <1>1, <1>4 DEF Knows, LocalsTyped, Adjusting, StockForm
<1>6. /\ u.req = t.req /\ u.i = t.i /\ u.cust = t.cust /\ u.prod = t.prod /\ u.left = u.req.qty
      /\ u.list = OpenBatches(p, w)
  BY <1>2, <1>4 DEF LocalsTyped, LocalNames
<1>7. Listed(u.list, NewOf(batch), p)
  BY <1>5, <1>6, OpenBatchesListed
<1>8. /\ Fresh("drainBatch", u, NewOf(product), NewOf(batch), NewOf(customer), NewOf(sale))
      /\ Accounts("drainBatch", u, NewOf(product), NewOf(batch), NewOf(customer), NewOf(sale), paid)
  BY <1>1, <1>4, <1>5, <1>6, <1>7, BatchesFound DEF Mine
<1>9. CASE ~Abort(w)
  <2>1. UNCHANGED tables /\ Goto(w, "drainBatch", u)
    BY <1>1, <1>2, <1>9 DEF StockOut
  <2> QED
    BY <1>3, <1>8, <2>1, ReadKeeps
<1> QED
  BY <1>9, AbortKeepsSerial

\* The action FindSale keeps the invariant.
LEMMA FindSaleKeepsSerial ==
    ASSUME Serial, StoreSound, SerialSound, NEW w \in Workers, FindSale(w)
    PROVE  SerialSound'
<1>1. PICK t, s : t = tx[w] /\ s = t.req.sale
  OBVIOUS
<1>2. PICK u : u = [t EXCEPT !.sold = Seen(sale[s], w), !.todo = DOMAIN Seen(sale[s], w).lines]
  OBVIOUS
<1>3. pc[w] = "findSale" /\ "findSale" \notin Saves /\ "restock" \notin Saves
  BY DEF FindSale, Saves
<1>4. Knows("findSale", t) /\ LocalsTyped(t) /\ Mine("findSale", t) /\ At("findSale", t) = "findSale"
  BY <1>1, <1>3, OwnAgrees
<1>5. s \in SaleIds
  BY <1>1, <1>4 DEF Knows, Voiding, VoidForm
<1>6. Seen(sale[s], w) = NewOf(sale)[s]
  BY <1>5, OwnRead
<1>7. CASE ~Abort(w)
  <2>1. UNCHANGED tables /\ Goto(w, "restock", u) /\ NewOf(sale)[s].status = "completed"
    BY <1>1, <1>2, <1>6, <1>7 DEF FindSale
  <2>2. u.req = t.req /\ u.sold = NewOf(sale)[u.req.sale] /\ u.todo = DOMAIN u.sold.lines
    BY <1>1, <1>2, <1>4, <1>6 DEF LocalsTyped, LocalNames
  <2>3. /\ Fresh("restock", u, NewOf(product), NewOf(batch), NewOf(customer), NewOf(sale))
        /\ Accounts("restock", u, NewOf(product), NewOf(batch), NewOf(customer), NewOf(sale), paid)
    BY <1>1, <1>4, <2>1, <2>2, SaleFound DEF Mine
  <2> QED
    BY <1>3, <2>1, <2>3, ReadKeeps
<1> QED
  BY <1>7, AbortKeepsSerial

\* A statement that reads the product of the request, and one that reads its customer.
LEMMA ProductRead ==
    ASSUME NEW m \in {"stockIn", "stockOut", "editProduct", "removeProduct"}, NEW u, NEW P, NEW B, NEW C, NEW S,
           u.prod[u.req.product] = P[u.req.product]
    PROVE  Fresh(m, u, P, B, C, S) /\ m \in Plain /\ m \notin Saves
  BY DEF Fresh, ProductsFresh, CustomerFresh, ListSeen, SaleFresh, HasRoom, AllChecked, Restocking, Plain, Saves

\* A customer that was just read is fresh.
LEMMA CustomerRead ==
    ASSUME NEW m \in {"editCustomer", "deactivateCustomer", "insertPayment"}, NEW u, NEW P, NEW B, NEW C, NEW S,
           u.cust = C[u.req.customer]
    PROVE  Fresh(m, u, P, B, C, S) /\ m \in Plain /\ m \notin Saves
  BY DEF Fresh, ProductsFresh, CustomerFresh, ListSeen, SaleFresh, HasRoom, AllChecked, Restocking, Plain, Saves

\* The action FindStock keeps the invariant.
LEMMA FindStockKeepsSerial ==
    ASSUME Serial, StoreSound, SerialSound, NEW w \in Workers, FindStock(w)
    PROVE  SerialSound'
<1>1. PICK t, p, m : t = tx[w] /\ p = t.req.product /\ m = t.req.kind
  OBVIOUS
<1>2. PICK u : u = [t EXCEPT !.prod[p] = Seen(product[p], w)]
  OBVIOUS
<1>3. /\ pc[w] = "findStock" /\ "findStock" \notin Saves /\ "findStock" \in Plain /\ UNCHANGED tables
      /\ Goto(w, m, u)
  BY <1>1, <1>2 DEF FindStock, Saves, Plain
<1>4. Knows("findStock", t) /\ LocalsTyped(t) /\ Mine("findStock", t) /\ At("findStock", t) = "findStock"
  BY <1>1, <1>3, OwnAgrees
<1>5. p \in Products /\ m \in {"stockIn", "stockOut"}
  BY <1>1, <1>4 DEF Knows, Adjusting, StockForm
<1>6. u.req = t.req /\ u.prod[p] = NewOf(product)[p]
  BY <1>2, <1>4, <1>5, OwnRead DEF LocalsTyped, LocalNames
<1>7. Fresh(m, u, NewOf(product), NewOf(batch), NewOf(customer), NewOf(sale)) /\ m \in Plain /\ m \notin Saves
  BY <1>1, <1>5, <1>6, ProductRead
<1>8. Accounts(m, u, NewOf(product), NewOf(batch), NewOf(customer), NewOf(sale), paid)
  BY <1>3, <1>4, <1>7, PlainAccounts DEF Mine
<1> QED
  BY <1>3, <1>5, <1>7, <1>8, ReadKeeps

\* The action FindProduct keeps the invariant.
LEMMA FindProductKeepsSerial ==
    ASSUME Serial, StoreSound, SerialSound, NEW w \in Workers, FindProduct(w)
    PROVE  SerialSound'
<1>1. PICK t, p, m : t = tx[w] /\ p = t.req.product /\ m = t.req.kind
  OBVIOUS
<1>2. PICK u : u = [t EXCEPT !.prod[p] = Seen(product[p], w)]
  OBVIOUS
<1>3. /\ pc[w] = "findProduct" /\ "findProduct" \notin Saves /\ "findProduct" \in Plain /\ UNCHANGED tables
      /\ Goto(w, m, u)
  BY <1>1, <1>2 DEF FindProduct, Saves, Plain
<1>4. Knows("findProduct", t) /\ LocalsTyped(t) /\ Mine("findProduct", t) /\ At("findProduct", t) = "findProduct"
  BY <1>1, <1>3, OwnAgrees
<1>5. p \in Products /\ m \in {"editProduct", "removeProduct"}
  BY <1>1, <1>4 DEF Knows, Editing, ProductForm
<1>6. u.req = t.req /\ u.prod[p] = NewOf(product)[p]
  BY <1>2, <1>4, <1>5, OwnRead DEF LocalsTyped, LocalNames
<1>7. Fresh(m, u, NewOf(product), NewOf(batch), NewOf(customer), NewOf(sale)) /\ m \in Plain /\ m \notin Saves
  BY <1>1, <1>5, <1>6, ProductRead
<1>8. Accounts(m, u, NewOf(product), NewOf(batch), NewOf(customer), NewOf(sale), paid)
  BY <1>3, <1>4, <1>7, PlainAccounts DEF Mine
<1> QED
  BY <1>3, <1>5, <1>7, <1>8, ReadKeeps

\* The action FindAccount keeps the invariant.
LEMMA FindAccountKeepsSerial ==
    ASSUME Serial, StoreSound, SerialSound, NEW w \in Workers, FindAccount(w)
    PROVE  SerialSound'
<1>1. PICK t, c, m : t = tx[w] /\ c = t.req.customer /\ m = t.req.kind
  OBVIOUS
<1>2. PICK u : u = [t EXCEPT !.cust = Seen(customer[c], w)]
  OBVIOUS
<1>3. /\ pc[w] = "findAccount" /\ "findAccount" \notin Saves /\ "findAccount" \in Plain /\ UNCHANGED tables
      /\ Goto(w, m, u)
  BY <1>1, <1>2 DEF FindAccount, Saves, Plain
<1>4. Knows("findAccount", t) /\ LocalsTyped(t) /\ Mine("findAccount", t) /\ At("findAccount", t) = "findAccount"
  BY <1>1, <1>3, OwnAgrees
<1>5. c \in Customers /\ m \in {"editCustomer", "deactivateCustomer"}
  BY <1>1, <1>4 DEF Knows, LimitForm, AccountForm
<1>6. u.req = t.req /\ u.cust = NewOf(customer)[c]
  BY <1>2, <1>4, <1>5, OwnRead DEF LocalsTyped, LocalNames
<1>7. Fresh(m, u, NewOf(product), NewOf(batch), NewOf(customer), NewOf(sale)) /\ m \in Plain /\ m \notin Saves
  BY <1>1, <1>5, <1>6, CustomerRead
<1>8. Accounts(m, u, NewOf(product), NewOf(batch), NewOf(customer), NewOf(sale), paid)
  BY <1>3, <1>4, <1>7, PlainAccounts DEF Mine
<1> QED
  BY <1>3, <1>5, <1>7, <1>8, ReadKeeps

\* The action FindDebtor keeps the invariant.
LEMMA FindDebtorKeepsSerial ==
    ASSUME Serial, StoreSound, SerialSound, NEW w \in Workers, FindDebtor(w)
    PROVE  SerialSound'
<1>1. PICK t, c : t = tx[w] /\ c = t.req.customer
  OBVIOUS
<1>2. PICK u : u = [t EXCEPT !.cust = Seen(customer[c], w)]
  OBVIOUS
<1>3. pc[w] = "findDebtor" /\ "findDebtor" \notin Saves /\ "findDebtor" \in Plain
  BY DEF FindDebtor, Saves, Plain
<1>4. Knows("findDebtor", t) /\ LocalsTyped(t) /\ Mine("findDebtor", t) /\ At("findDebtor", t) = "findDebtor"
  BY <1>1, <1>3, OwnAgrees
<1>5. c \in Customers
  BY <1>1, <1>4 DEF Knows, PaymentForm
<1>6. u.req = t.req /\ u.cust = NewOf(customer)[c]
  BY <1>2, <1>4, <1>5, OwnRead DEF LocalsTyped, LocalNames
<1>7. /\ Fresh("insertPayment", u, NewOf(product), NewOf(batch), NewOf(customer), NewOf(sale))
      /\ "insertPayment" \in Plain /\ "insertPayment" \notin Saves
  BY <1>1, <1>5, <1>6, CustomerRead
<1>8. Accounts("insertPayment", u, NewOf(product), NewOf(batch), NewOf(customer), NewOf(sale), paid)
  BY <1>3, <1>4, <1>7, PlainAccounts DEF Mine
<1>9. CASE ~Abort(w)
  <2>1. UNCHANGED tables /\ Goto(w, "insertPayment", u)
    BY <1>1, <1>2, <1>9 DEF FindDebtor
  <2> QED
    BY <1>7, <1>8, <2>1, ReadKeeps
<1> QED
  BY <1>9, AbortKeepsSerial

-----------------------------------------------------------------------------
(* The statements that write                                               *)

\* A row that is written is the one new thing in its table.
Sets(w, T, key, ent, T2) == T2 = [T EXCEPT ![key] = Written(@, w, ent)]

\* An INSERT or a direct UPDATE of one row changes the view there.
LEMMA RowWritten ==
    ASSUME NEW w, NEW T, NEW K, NEW Row, ViewOf(w, T, K, Row), T \in [K -> Versions(Row, {w})],
           NEW key \in K, NEW ent, NEW T2, Sets(w, T, key, ent, T2)
    PROVE  Wrote(w, T, T2) /\ NewOf(T2) = [NewOf(T) EXCEPT ![key] = ent]
<1>1. NewOf(T) \in [K -> Row] /\ DOMAIN T = K
  BY DEF ViewOf
<1>2. T2[key] = Written(T[key], w, ent) /\ DOMAIN T2 = K /\ \A k \in K : k # key => T2[k] = T[k]
  BY <1>1 DEF Sets
<1>3. T2[key].cur = T[key].cur /\ T2[key].xid = w /\ T2[key].new = ent
  <2>1. T[key] \in Versions(Row, {w})
    OBVIOUS
  <2> QED
    BY <1>2, <2>1 DEF Written, Versions
<1>4. Wrote(w, T, T2)
  BY <1>1, <1>2, <1>3 DEF Wrote
<1>5. NewOf(T2) = [NewOf(T) EXCEPT ![key] = ent]
  BY <1>1, <1>2, <1>3 DEF NewOf
<1> QED
  BY <1>4, <1>5

\* The tables the one worker sees are typed.
LEMMA OwnTables ==
    ASSUME Serial, StoreSound, SerialSound, NEW w \in Workers
    PROVE  TablesTyped(NewOf(product), NewOf(batch), NewOf(customer), NewOf(sale), paid)
  BY OwnView

\* At a commit only a payment is pending.
LEMMA PayMore ==
    ASSUME NEW t, NEW u, NEW P, NEW B, NEW C, NEW S, NEW pd, TablesTyped(P, B, C, S, pd),
           Accounts("commit", t, P, B, C, S, pd), t.pay = 0, u.pay \in Nat
    PROVE  Fresh("commit", u, P, B, C, S) /\ Accounts("commit", u, P, B, C, S, pd)
<1>1. /\ \A p : AheadBy("commit", u, p) = AheadBy("commit", t, p)
      /\ \A b : PutBack("commit", u, b) = PutBack("commit", t, b)
  BY DEF AheadBy, PutBack, Restocking
<1>2. \A c : Pending("commit", t, c) = 0 /\ Pending("commit", u, c) \in Nat
  BY DEF Pending, BatchSection
<1>3. StockAgrees("commit", u, P, B)
  BY <1>1 DEF Accounts, StockAgrees
<1>4. UnitsAgree("commit", u, B, S)
  BY <1>1 DEF Accounts, UnitsAgree
<1>5. BalanceAgrees("commit", u, C, S, pd)
  <2>1. SUFFICES ASSUME NEW c \in Customers PROVE C[c].balance + Pending("commit", u, c) >= OwedIn(S, c) - pd[c]
    BY DEF BalanceAgrees
  <2>2. C[c].balance \in Int /\ OwedIn(S, c) \in Int /\ pd[c] \in Int
    BY OwedInTyped DEF TablesTyped, CustomerRow
  <2>3. C[c].balance + Pending("commit", t, c) >= OwedIn(S, c) - pd[c]
    BY DEF Accounts, BalanceAgrees
  <2> QED
    BY <1>2, <2>2, <2>3
<1>6. Accounts("commit", u, P, B, C, S, pd)
  BY <1>3, <1>4, <1>5 DEF Accounts
<1>7. Fresh("commit", u, P, B, C, S)
  BY NothingRead
<1> QED
  BY <1>6, <1>7

\* The action InsertSale keeps the invariant.
LEMMA InsertSaleKeepsSerial ==
    ASSUME Serial, StoreSound, SerialSound, NEW w \in Workers, InsertSale(w)
    PROVE  SerialSound'
<1>1. PICK t, n : t = tx[w] /\ n = num[w]
  OBVIOUS
<1>2. pc[w] = "insertSale" /\ "insertSale" \notin Saves /\ "findBatches" \notin Saves
  BY DEF InsertSale, Saves
<1>3. Knows("insertSale", t) /\ LocalsTyped(t) /\ Mine("insertSale", t) /\ At("insertSale", t) = "insertSale"
      /\ NumberFits("insertSale", t, n)
  BY <1>1, <1>2, OwnAgrees
<1>4. t.req \in SaleForm /\ n \in SaleIds
  BY <1>3 DEF Knows, NumberFits, Selling
<1>5. ViewOf(w, sale, SaleIds, SaleRow) /\ sale \in [SaleIds -> Versions(SaleRow, {w})]
  BY OwnView, OnlyMine DEF OnlyOf
<1>6. sale[n].xid = NoTx
  <2>1. sale[n].xid \in {NoTx, w}
    BY <1>4, <1>5 DEF ViewOf
  <2>2. sale[n].xid # NoTx => Inserted(n) \/ Marked(n)
    BY <1>4 DEF StoreSound, OpenSalesOwned
  <2> QED
    BY <1>2, <2>1, <2>2 DEF Inserted, Marked, Holds
<1>7. CASE ~Abort(w)
  <2>1. PICK d \in Dates(w) : Sets(w, sale, n, NewSale(t.req, d), sale')
    BY <1>1, <1>7 DEF InsertSale, Sets
  <2>2. sale[n].cur.status = "none" /\ Goto(w, "findBatches", t) /\ UNCHANGED <<product, batch, customer, paid>>
    BY <1>1, <1>7 DEF InsertSale
  <2>3. d \in Nat
    <3>1. n \in (1 .. LastDay) \X (1 .. MaxSales) /\ today \in 1 .. LastDay /\ LastDay \in Nat
      BY <1>4, TablesAssumption DEF SaleIds, StoreSound, TypeOK
    <3>2. n[1] \in Nat
      BY <3>1
    <3> QED
      BY <1>1, <2>1, <3>1, <3>2 DEF Dates
  <2>4. NewOf(sale)[n].status = "none"
    BY <1>4, <1>5, <1>6, <2>2 DEF ViewOf
  <2>5. Wrote(w, sale, sale') /\ NewOf(sale') = [NewOf(sale) EXCEPT ![n] = NewSale(t.req, d)]
    BY <1>4, <1>5, <2>1, RowWritten
  <2>6. TablesTyped(NewOf(product), NewOf(batch), NewOf(customer), NewOf(sale), paid)
    BY OwnTables
  <2>7. /\ Fresh("insertSale", t, NewOf(product), NewOf(batch), NewOf(customer), NewOf(sale))
        /\ Accounts("insertSale", t, NewOf(product), NewOf(batch), NewOf(customer), NewOf(sale), paid)
    BY <1>3 DEF Mine
  <2>8. /\ Fresh("findBatches", t, NewOf(product), NewOf(batch), NewOf(customer), NewOf(sale'))
        /\ Accounts("findBatches", t, NewOf(product), NewOf(batch), NewOf(customer), NewOf(sale'), paid)
    BY <1>3, <1>4, <2>3, <2>4, <2>5, <2>6, <2>7, SaleInserted
  <2>9. Agrees("findBatches", t, NewOf(product'), NewOf(batch'), NewOf(customer'), NewOf(sale'), paid')
    BY <1>2, <2>2, <2>8, NotSaved
  <2>10. Wrote(w, product, product') /\ Wrote(w, batch, batch') /\ Wrote(w, customer, customer')
    BY <2>2, Unwritten
  <2>11. WritesAll("findBatches", t)'
    BY DEF WritesAll
  <2> QED
    BY <2>2, <2>5, <2>9, <2>10, <2>11, StepKeeps
<1> QED
  BY <1>7, AbortKeepsSerial

\* The action TakeBatch keeps the invariant.
LEMMA TakeBatchKeepsSerial ==
    ASSUME Serial, StoreSound, SerialSound, NEW w \in Workers, TakeBatch(w)
    PROVE  SerialSound'
<1>1. PICK t, p, n : t = tx[w] /\ p = ProductOf(t) /\ n = num[w]
  OBVIOUS
<1>2. PICK k \in Slots : IsOldest(k, t.list) /\
         LET b == <<p, k>>
             d == Smaller(t.list[k].qty, t.left) IN
         /\ sale' = [sale EXCEPT ![n] = Written(@, w, WithItem(@.new, b, d))]
         /\ Save(w, "batch", b, Deducted(t.list[k], d), "takeBatch", Took(t, k, b, d))
  BY <1>1 DEF TakeBatch, ProductOf
<1>3. PICK b, d, ent, u : /\ b = <<p, k>> /\ d = Smaller(t.list[k].qty, t.left) /\ ent = Deducted(t.list[k], d)
                          /\ u = Took(t, k, b, d)
  OBVIOUS
<1>4. /\ pc[w] = "takeBatch" /\ "takeBatch" \notin Saves /\ k \in DOMAIN t.list
      /\ Sets(w, sale, n, WithItem(sale[n].new, b, d), sale') /\ Save(w, "batch", b, ent, "takeBatch", u)
      /\ UNCHANGED <<product, batch, customer, paid>>
  BY <1>1, <1>2, <1>3 DEF TakeBatch, Saves, IsOldest, Sets
<1>5. Knows("takeBatch", t) /\ LocalsTyped(t) /\ Mine("takeBatch", t) /\ At("takeBatch", t) = "takeBatch"
      /\ NumberFits("takeBatch", t, n)
  BY <1>1, <1>4, OwnAgrees
<1>6. t.req \in SaleForm /\ t.i <= Len(t.req.items) /\ n \in SaleIds
  BY <1>5 DEF Knows, NumberFits, Selling, BatchSection
<1>7. ViewOf(w, sale, SaleIds, SaleRow) /\ sale \in [SaleIds -> Versions(SaleRow, {w})]
  BY OwnView, OnlyMine DEF OnlyOf
<1>8. NewOf(sale)[n].status = "completed" /\ sale[n].new = NewOf(sale)[n]
  <2>1. Holds(w)
    BY <1>1, <1>4, <1>6 DEF Holds
  <2>2. sale[n].xid = w /\ w # NoTx
    BY <1>1, <2>1, TablesAssumption DEF StoreSound, NumbersHeld
  <2>3. Inserted(n) \/ Marked(n)
    BY <1>6, <2>2 DEF StoreSound, OpenSalesOwned
  <2>4. sale[n].new.status = "completed"
    BY <1>4, <2>2, <2>3 DEF Inserted, Marked
  <2> QED
    BY <1>6, <1>7, <2>4 DEF ViewOf
<1>9. PICK row : row = WithItem(sale[n].new, b, d)
  OBVIOUS
<1>10. Wrote(w, sale, sale') /\ NewOf(sale') = [NewOf(sale) EXCEPT ![n] = row]
  <2>1. Sets(w, sale, n, row, sale')
    BY <1>4, <1>9
  <2> QED
    BY <1>6, <1>7, <2>1, RowWritten
<1>11. PICK B : Puts(B, NewOf(batch), b, ent)
  BY DEF Puts
<1>12. /\ u.req = t.req /\ u.i = t.i /\ u.cust = t.cust /\ u.prod = t.prod /\ DOMAIN u = LocalNames
       /\ u.list = Without(t.list, k) /\ u.left = t.left - d
  BY <1>3, <1>5 DEF Took, LocalsTyped, LocalNames
<1>13. Takes(t, u, NewOf(batch), B, p, k, d)
  BY <1>3, <1>4, <1>11, <1>12 DEF Takes
<1>14. PICK P0, B0, C0, S0, S2 : /\ P0 = NewOf(product) /\ B0 = NewOf(batch) /\ C0 = NewOf(customer)
                                 /\ S0 = NewOf(sale) /\ S2 = NewOf(sale')
  OBVIOUS
<1>15. TablesTyped(P0, B0, C0, S0, paid)
  BY <1>14, OwnTables
<1>16. Fresh("takeBatch", t, P0, B0, C0, S0) /\ Accounts("takeBatch", t, P0, B0, C0, S0, paid)
  BY <1>5, <1>14 DEF Mine
<1>17. S0[n].status = "completed" /\ S2 = [S0 EXCEPT ![n] = WithItem(S0[n], <<p, k>>, d)]
  BY <1>3, <1>8, <1>9, <1>10, <1>14
<1>18. Takes(t, u, B0, B, p, k, d)
  BY <1>13, <1>14
<1>19. Fresh("takeBatch", u, P0, B, C0, S2) /\ Accounts("takeBatch", u, P0, B, C0, S2, paid)
  BY <1>1, <1>5, <1>6, <1>12, <1>15, <1>16, <1>17, <1>18, BatchTaken
<1> QED
  BY <1>4, <1>10, <1>11, <1>12, <1>14, <1>19, BatchSaveKeeps

\* The action DeductProduct keeps the invariant.
LEMMA DeductProductKeepsSerial ==
    ASSUME Serial, StoreSound, SerialSound, NEW w \in Workers, DeductProduct(w)
    PROVE  SerialSound'
<1>1. PICK t, p : t = tx[w] /\ p = ProductOf(t)
  OBVIOUS
<1>2. PICK ent : ent = [t.prod[p] EXCEPT !.stock = @ - t.req.items[t.i].qty]
  OBVIOUS
<1>3. PICK u : u = [t EXCEPT !.prod[p] = ent, !.list = NoList]
  OBVIOUS
<1>4. /\ pc[w] = "takeBatch" /\ "takeBatch" \notin Saves /\ t.left = 0 /\ UNCHANGED tables
      /\ \/ Save(w, "product", p, ent, "findBatches", [u EXCEPT !.i = @ + 1])
         \/ Save(w, "product", p, ent, "chargeCustomer", u)
  BY <1>1, <1>2, <1>3 DEF DeductProduct, ProductOf, Saves
<1>5. Knows("takeBatch", t) /\ LocalsTyped(t) /\ Mine("takeBatch", t) /\ At("takeBatch", t) = "takeBatch"
  BY <1>1, <1>4, OwnAgrees
<1>6. t.req \in SaleForm /\ t.i <= Len(t.req.items)
  BY <1>5 DEF Knows, Selling, BatchSection
<1>7. PICK v, m : /\ Save(w, "product", p, ent, m, v) /\ m \in {"findBatches", "chargeCustomer"}
                  /\ v \in {u, [u EXCEPT !.i = @ + 1]}
  BY <1>4
<1>8. v.req = t.req /\ v.cust = t.cust /\ v.prod = [t.prod EXCEPT ![p] = ent] /\ DOMAIN v = LocalNames
  BY <1>3, <1>5, <1>7 DEF LocalsTyped, LocalNames
<1>9. PICK P : Puts(P, NewOf(product), p, ent)
  BY DEF Puts
<1>10. PICK P0, B0, C0, S0 : /\ P0 = NewOf(product) /\ B0 = NewOf(batch) /\ C0 = NewOf(customer)
                             /\ S0 = NewOf(sale)
  OBVIOUS
<1>11. TablesTyped(P0, B0, C0, S0, paid)
  BY <1>10, OwnTables
<1>12. Fresh("takeBatch", t, P0, B0, C0, S0) /\ Accounts("takeBatch", t, P0, B0, C0, S0, paid)
  BY <1>5, <1>10 DEF Mine
<1>13. Puts(P, P0, p, ent)
  BY <1>9, <1>10
<1>14. Fresh(m, v, P, B0, C0, S0) /\ Accounts(m, v, P, B0, C0, S0, paid)
  <2>1. p = ProductOf(t) /\ t.left = 0 /\ m \in {"findBatches", "chargeCustomer"} /\ LocalsTyped(t)
    BY <1>1, <1>4, <1>5, <1>7
  <2>2. v.req = t.req /\ v.cust = t.cust /\ v.prod = [t.prod EXCEPT ![p] = ent]
    BY <1>8
  <2> QED
    BY <1>2, <1>6, <1>11, <1>12, <1>13, <2>1, <2>2, ProductDeducted
<1>15. UNCHANGED <<product, batch, customer, sale, paid>> /\ Wrote(w, batch, batch')
  BY <1>4, Unwritten DEF tables
<1> QED
  BY <1>7, <1>8, <1>9, <1>10, <1>14, <1>15, ProductSaveKeeps

\* The action ChargeCustomer keeps the invariant.
LEMMA ChargeCustomerKeepsSerial ==
    ASSUME Serial, StoreSound, SerialSound, NEW w \in Workers, ChargeCustomer(w)
    PROVE  SerialSound'
<1>1. PICK t, c, ent : t = tx[w] /\ c = t.req.customer /\ ent = [t.cust EXCEPT !.balance = @ + t.req.credit]
  OBVIOUS
<1>2. pc[w] = "chargeCustomer" /\ "chargeCustomer" \notin Saves /\ "commit" \notin Saves /\ UNCHANGED tables
  BY DEF ChargeCustomer, Saves
<1>3. Knows("chargeCustomer", t) /\ LocalsTyped(t) /\ Mine("chargeCustomer", t) /\ At("chargeCustomer", t) = "chargeCustomer"
  BY <1>1, <1>2, OwnAgrees
<1>4. t.req \in SaleForm /\ DOMAIN t = LocalNames /\ SameCore(t, t)
  BY <1>3 DEF Knows, Selling, BatchSection, LocalsTyped, SameCore
<1>5. TablesTyped(NewOf(product), NewOf(batch), NewOf(customer), NewOf(sale), paid)
  BY OwnTables
<1>6. /\ Fresh("chargeCustomer", t, NewOf(product), NewOf(batch), NewOf(customer), NewOf(sale))
      /\ Accounts("chargeCustomer", t, NewOf(product), NewOf(batch), NewOf(customer), NewOf(sale), paid)
  BY <1>3 DEF Mine
<1>7. CASE c # NoCustomer /\ t.req.credit > 0
  <2>1. Save(w, "customer", c, ent, "commit", t)
    BY <1>1, <1>7 DEF ChargeCustomer
  <2>2. PICK C : Puts(C, NewOf(customer), c, ent)
    BY DEF Puts
  <2>3. /\ Fresh("commit", t, NewOf(product), NewOf(batch), C, NewOf(sale))
        /\ Accounts("commit", t, NewOf(product), NewOf(batch), C, NewOf(sale), paid)
    BY <1>1, <1>3, <1>4, <1>5, <1>6, <1>7, <2>2, CustomerCharged
  <2> QED
    BY <1>2, <1>4, <2>1, <2>2, <2>3, CustomerSaveKeeps
<1>8. CASE ~(c # NoCustomer /\ t.req.credit > 0)
  <2>1. Goto(w, "commit", t)
    BY <1>1, <1>8 DEF ChargeCustomer
  <2>2. c = NoCustomer \/ t.req.credit = 0
    BY <1>4, <1>8 DEF SaleForm
  <2>3. /\ Fresh("commit", t, NewOf(product), NewOf(batch), NewOf(customer), NewOf(sale))
        /\ Accounts("commit", t, NewOf(product), NewOf(batch), NewOf(customer), NewOf(sale), paid)
    BY <1>1, <1>3, <1>4, <1>5, <1>6, <2>2, CustomerCharged
  <2> QED
    BY <1>2, <2>1, <2>3, ReadKeeps
<1> QED
  BY <1>7, <1>8

\* What the one worker at a statement that is not a save knows, and the tables it sees.
LEMMA AtStatement ==
    ASSUME Serial, StoreSound, SerialSound, NEW w \in Workers, NEW l, NEW t, l = pc[w], t = tx[w], l \notin Saves,
           NEW P, NEW B, NEW C, NEW S, P = NewOf(product), B = NewOf(batch), C = NewOf(customer), S = NewOf(sale)
    PROVE  /\ Knows(l, t) /\ At(l, t) = l /\ LocalsTyped(t) /\ TablesTyped(P, B, C, S, paid)
           /\ Fresh(l, t, P, B, C, S) /\ Accounts(l, t, P, B, C, S, paid)
<1>1. Knows(l, t) /\ At(l, t) = l /\ LocalsTyped(t) /\ Mine(l, t)
  BY OwnAgrees
<1>2. TablesTyped(P, B, C, S, paid)
  BY OwnTables
<1> QED
  BY <1>1, <1>2 DEF Mine

\* A line of a sale that was read names a batch and units.
LEMMA SoldIs ==
    ASSUME NEW t, LocalsTyped(t), NEW i \in DOMAIN t.sold.lines, NEW b, NEW p, NEW d,
           b = t.sold.lines[i].batch, p = b[1], d = t.sold.lines[i].qty
    PROVE  SoldAs(t, i, b, p, d)
<1>1. PICK L : L = Line
  OBVIOUS
<1>2. t.sold.lines \in Seq(L)
  BY <1>1 DEF LocalsTyped, SaleRow
<1>3. t.sold.lines[i] \in L
  BY <1>2
<1> QED
  BY <1>1, <1>3 DEF SoldAs, Line

\* The action RestockProduct keeps the invariant.
LEMMA RestockProductKeepsSerial ==
    ASSUME Serial, StoreSound, SerialSound, NEW w \in Workers, RestockProduct(w)
    PROVE  SerialSound'
<1>1. PICK P, B, C, S : P = NewOf(product) /\ B = NewOf(batch) /\ C = NewOf(customer) /\ S = NewOf(sale)
  OBVIOUS
<1>2. PICK t : t = tx[w]
  OBVIOUS
<1>3. pc[w] = "restock" /\ "restock" \notin Saves /\ UNCHANGED tables
  BY DEF RestockProduct, Saves
<1>4. /\ Knows("restock", t) /\ At("restock", t) = "restock" /\ LocalsTyped(t) /\ TablesTyped(P, B, C, S, paid)
      /\ Fresh("restock", t, P, B, C, S) /\ Accounts("restock", t, P, B, C, S, paid)
  BY <1>1, <1>2, <1>3, AtStatement
<1>5. PICK i \in t.todo :
         LET p == t.sold.lines[i].batch[1] IN
         Save(w, "product", p, [Seen(product[p], w) EXCEPT !.stock = @ + t.sold.lines[i].qty],
              "restockBatch", [t EXCEPT !.i = i, !.todo = @ \ {i}])
  BY <1>2 DEF RestockProduct
<1>6. PICK b, p, d, u : /\ b = t.sold.lines[i].batch /\ p = b[1] /\ d = t.sold.lines[i].qty
                        /\ u = [t EXCEPT !.i = i, !.todo = @ \ {i}]
  OBVIOUS
<1>7. i \in DOMAIN t.sold.lines
  BY <1>4 DEF LocalsTyped
<1>8. b \in BatchIds /\ p \in Products /\ d \in Nat
  BY <1>4, <1>6, <1>7, SoldLine
<1>9. SoldAs(t, i, b, p, d)
  BY <1>4, <1>6, <1>7, SoldIs
<1>10. PICK ent : ent = MoreStock(P[p], d)
  OBVIOUS
<1>11. Save(w, "product", p, ent, "restockBatch", u)
  <2>1. Seen(product[p], w) = P[p]
    BY <1>1, <1>8, OwnRead
  <2> QED
    BY <1>5, <1>6, <1>10, <2>1 DEF MoreStock
<1>12. OneLess(t, u, i) /\ DOMAIN u = LocalNames
  BY <1>4, <1>6 DEF OneLess, LocalsTyped, LocalNames
<1>13. PICK P2 : Puts(P2, P, p, ent)
  BY DEF Puts
<1>14. Fresh("restockBatch", u, P2, B, C, S) /\ Accounts("restockBatch", u, P2, B, C, S, paid)
  BY <1>4, <1>5, <1>8, <1>9, <1>10, <1>12, <1>13, ProductRestocked
<1>15. UNCHANGED <<product, batch, customer, sale, paid>> /\ Wrote(w, batch, batch')
  BY <1>3, Unwritten DEF tables
<1> QED
  BY <1>1, <1>11, <1>12, <1>13, <1>14, <1>15, ProductSaveKeeps

\* The action RestockBatch keeps the invariant.
LEMMA RestockBatchKeepsSerial ==
    ASSUME Serial, StoreSound, SerialSound, NEW w \in Workers, RestockBatch(w)
    PROVE  SerialSound'
<1>1. PICK P, B, C, S : P = NewOf(product) /\ B = NewOf(batch) /\ C = NewOf(customer) /\ S = NewOf(sale)
  OBVIOUS
<1>2. PICK t, i : t = tx[w] /\ i = t.i
  OBVIOUS
<1>3. PICK b, p, d, u : /\ b = t.sold.lines[i].batch /\ p = b[1] /\ d = t.sold.lines[i].qty
                        /\ u = [t EXCEPT !.moves[b] = @ + d]
  OBVIOUS
<1>4. /\ pc[w] = "restockBatch" /\ "restockBatch" \notin Saves /\ UNCHANGED tables
      /\ Save(w, "batch", b, [Seen(batch[b], w) EXCEPT !.qty = @ + d, !.active = TRUE], "restock", u)
  BY <1>2, <1>3 DEF RestockBatch, Saves
<1>5. /\ Knows("restockBatch", t) /\ At("restockBatch", t) = "restockBatch" /\ LocalsTyped(t)
      /\ TablesTyped(P, B, C, S, paid) /\ Fresh("restockBatch", t, P, B, C, S)
      /\ Accounts("restockBatch", t, P, B, C, S, paid)
  BY <1>1, <1>2, <1>4, AtStatement
<1>6. PICK s : s = t.req.sale
  OBVIOUS
<1>7. t.i \in DOMAIN t.sold.lines /\ s \in SaleIds
  BY <1>5, <1>6 DEF Knows, Voiding, Restocking, VoidForm
<1>8. b \in BatchIds /\ p \in Products /\ d \in Nat /\ SoldAs(t, t.i, b, p, d)
  BY <1>2, <1>3, <1>5, <1>7, SoldLine, SoldIs
<1>9. PICK row : row = Refilled(B[b], d)
  OBVIOUS
<1>10. Save(w, "batch", b, row, "restock", u)
  <2>1. Seen(batch[b], w) = B[b]
    BY <1>1, <1>8, OwnRead
  <2> QED
    BY <1>4, <1>9, <2>1 DEF Refilled
<1>11. SameVoid(t, u) /\ DOMAIN u = LocalNames
  BY <1>3, <1>5 DEF SameVoid, LocalsTyped, LocalNames
<1>12. PICK B2 : Puts(B2, B, b, row)
  BY DEF Puts
<1>13. Fresh("restock", u, P, B2, C, S) /\ Accounts("restock", u, P, B2, C, S, paid)
  BY <1>5, <1>6, <1>7, <1>8, <1>9, <1>11, <1>12, BatchRestocked
<1>14. UNCHANGED <<product, batch, customer, sale, paid>> /\ Wrote(w, sale, sale')
  BY <1>4, Unwritten DEF tables
<1> QED
  BY <1>1, <1>10, <1>11, <1>12, <1>13, <1>14, BatchSaveKeeps

\* The action ReverseCredit keeps the invariant.
LEMMA ReverseCreditKeepsSerial ==
    ASSUME Serial, StoreSound, SerialSound, NEW w \in Workers, ReverseCredit(w)
    PROVE  SerialSound'
<1>1. PICK P, B, C, S : P = NewOf(product) /\ B = NewOf(batch) /\ C = NewOf(customer) /\ S = NewOf(sale)
  OBVIOUS
<1>2. PICK t, c : t = tx[w] /\ c = t.sold.customer
  OBVIOUS
<1>3. pc[w] = "restock" /\ "restock" \notin Saves /\ "setVoid" \notin Saves /\ UNCHANGED tables /\ t.todo = {}
  BY <1>2 DEF ReverseCredit, Saves
<1>4. /\ Knows("restock", t) /\ At("restock", t) = "restock" /\ LocalsTyped(t) /\ TablesTyped(P, B, C, S, paid)
      /\ Fresh("restock", t, P, B, C, S) /\ Accounts("restock", t, P, B, C, S, paid)
  BY <1>1, <1>2, <1>3, AtStatement
<1>5. SameCore(t, t) /\ DOMAIN t = LocalNames /\ t.sold \in SaleRow
  BY <1>4 DEF SameCore, LocalsTyped
<1>6. CASE c # NoCustomer /\ t.sold.credit > 0
  <2>1. PICK ent : ent = [C[c] EXCEPT !.balance = Positive(@ - t.sold.credit)]
    OBVIOUS
  <2>2. Save(w, "customer", c, ent, "setVoid", t)
    <3>1. c \in Customers
      BY <1>2, <1>5, <1>6 DEF SaleRow
    <3>2. Seen(customer[c], w) = C[c]
      BY <1>1, <3>1, OwnRead
    <3> QED
      BY <1>2, <1>6, <2>1, <3>2 DEF ReverseCredit
  <2>3. PICK C2 : Puts(C2, C, c, ent)
    BY DEF Puts
  <2>4. Puts(C2, C, c, [C[c] EXCEPT !.balance = Positive(@ - t.sold.credit)])
    BY <2>1, <2>3
  <2>5. Fresh("setVoid", t, P, B, C2, S) /\ Accounts("setVoid", t, P, B, C2, S, paid)
    BY <1>2, <1>3, <1>4, <1>5, <1>6, <2>4, CreditReversed
  <2> QED
    BY <1>1, <1>3, <1>5, <2>2, <2>3, <2>5, CustomerSaveKeeps
<1>7. CASE ~(c # NoCustomer /\ t.sold.credit > 0)
  <2>1. Goto(w, "setVoid", t)
    BY <1>2, <1>7 DEF ReverseCredit
  <2>2. c = NoCustomer \/ t.sold.credit = 0
    BY <1>5, <1>7 DEF SaleRow
  <2>3. Fresh("setVoid", t, P, B, C, S) /\ Accounts("setVoid", t, P, B, C, S, paid)
    BY <1>2, <1>3, <1>4, <1>5, <2>2, CreditReversed
  <2> QED
    BY <1>1, <1>3, <2>1, <2>3, ReadKeeps
<1> QED
  BY <1>6, <1>7

\* The action SetVoid keeps the invariant.
LEMMA SetVoidKeepsSerial ==
    ASSUME Serial, StoreSound, SerialSound, NEW w \in Workers, SetVoid(w)
    PROVE  SerialSound'
<1>1. PICK P, B, C, S : P = NewOf(product) /\ B = NewOf(batch) /\ C = NewOf(customer) /\ S = NewOf(sale)
  OBVIOUS
<1>2. PICK t, n, ent : t = tx[w] /\ n = t.req.sale /\ ent = [t.sold EXCEPT !.status = "void"]
  OBVIOUS
<1>3. pc[w] = "setVoid" /\ "setVoid" \notin Saves /\ UNCHANGED tables /\ Save(w, "sale", n, ent, "commit", t)
  BY <1>2 DEF SetVoid, Saves
<1>4. /\ Knows("setVoid", t) /\ At("setVoid", t) = "setVoid" /\ LocalsTyped(t) /\ TablesTyped(P, B, C, S, paid)
      /\ Fresh("setVoid", t, P, B, C, S) /\ Accounts("setVoid", t, P, B, C, S, paid)
  BY <1>1, <1>2, <1>3, AtStatement
<1>5. n \in SaleIds /\ SameCore(t, t) /\ DOMAIN t = LocalNames
  BY <1>2, <1>4 DEF Knows, Voiding, Restocking, VoidForm, SameCore, LocalsTyped
<1>6. PICK S2 : S2 = [S EXCEPT ![n] = ent]
  OBVIOUS
<1>7. Puts(S2, S, n, ent) /\ S2 = [S EXCEPT ![n] = [t.sold EXCEPT !.status = "void"]]
  BY <1>2, <1>6 DEF Puts
<1>8. Fresh("commit", t, P, B, C, S2) /\ Accounts("commit", t, P, B, C, S2, paid)
  BY <1>2, <1>4, <1>5, <1>7, SaleMarked
<1> QED
  BY <1>1, <1>3, <1>5, <1>7, <1>8, SaleSaveKeeps

\* The action StockIn keeps the invariant.
LEMMA StockInKeepsSerial ==
    ASSUME Serial, StoreSound, SerialSound, NEW w \in Workers, StockIn(w)
    PROVE  SerialSound'
<1>1. PICK P, B, C, S : P = NewOf(product) /\ B = NewOf(batch) /\ C = NewOf(customer) /\ S = NewOf(sale)
  OBVIOUS
<1>2. PICK t, p, d : t = tx[w] /\ p = t.req.product /\ d = t.req.qty
  OBVIOUS
<1>3. PICK ent, row : ent = MoreStock(t.prod[p], d) /\ row = [qty |-> d, active |-> TRUE, made |-> TRUE]
  OBVIOUS
<1>4. PICK k \in Slots :
         /\ Unmade(<<p, k>>) /\ batch' = [batch EXCEPT ![<<p, k>>] = Written(@, w, row)]
         /\ Save(w, "product", p, ent, "commit", [t EXCEPT !.moves[<<p, k>>] = d])
  BY <1>2, <1>3 DEF StockIn, MoreStock
<1>5. PICK b, u : b = <<p, k>> /\ u = [t EXCEPT !.moves[b] = d]
  OBVIOUS
<1>6. /\ pc[w] = "stockIn" /\ "stockIn" \notin Saves /\ UNCHANGED <<product, customer, sale, paid>>
      /\ Unmade(b) /\ Sets(w, batch, b, row, batch') /\ Save(w, "product", p, ent, "commit", u)
  BY <1>4, <1>5 DEF StockIn, Saves, Sets
<1>7. /\ Knows("stockIn", t) /\ At("stockIn", t) = "stockIn" /\ LocalsTyped(t) /\ TablesTyped(P, B, C, S, paid)
      /\ Fresh("stockIn", t, P, B, C, S) /\ Accounts("stockIn", t, P, B, C, S, paid)
  BY <1>1, <1>2, <1>6, AtStatement
<1>8. t.req \in StockForm /\ p \in Products
  BY <1>2, <1>7 DEF Knows, Adjusting, StockForm
<1>9. b \in BatchIds /\ b[1] = p
  BY <1>4, <1>5, <1>8 DEF BatchIds
<1>10. ViewOf(w, batch, BatchIds, BatchRow) /\ batch \in [BatchIds -> Versions(BatchRow, {w})]
  BY OwnView, OnlyMine DEF OnlyOf
<1>11. ~B[b].made
  BY <1>1, <1>6, <1>9, <1>10 DEF ViewOf, Unmade
<1>12. PICK B2 : B2 = NewOf(batch')
  OBVIOUS
<1>13. Wrote(w, batch, batch') /\ Puts(B2, B, b, row)
  <2>1. Sets(w, batch, b, row, batch') /\ b \in BatchIds
    BY <1>6, <1>9
  <2>2. Wrote(w, batch, batch') /\ NewOf(batch') = [NewOf(batch) EXCEPT ![b] = row]
    BY <1>10, <2>1, RowWritten
  <2> QED
    BY <1>1, <1>12, <2>2 DEF Puts
<1>14. PICK P2 : Puts(P2, P, p, ent)
  BY DEF Puts
<1>15. NoLocals.pay = 0 /\ u.pay \in Nat /\ DOMAIN u = LocalNames
  BY <1>5, <1>7 DEF NoLocals, LocalsTyped, LocalNames
<1>16. Accounts("commit", NoLocals, P2, B2, C, S, paid)
  <2>1. ent = MoreStock(t.prod[p], t.req.qty)
    BY <1>2, <1>3
  <2>2. row = [qty |-> t.req.qty, active |-> TRUE, made |-> TRUE]
    BY <1>2, <1>3
  <2>3. NoLocals.pay = 0 /\ p = t.req.product
    BY <1>2, <1>15
  <2> QED
    BY <1>7, <1>8, <1>9, <1>11, <1>13, <1>14, <2>1, <2>2, <2>3, StockReceived
<1>17. TablesTyped(P2, B2, C, S, paid)
  <2>1. ent \in ProductRow
    BY <1>2, <1>3, <1>7, <1>8 DEF MoreStock, LocalsTyped, ProductRow, StockForm
  <2>2. row \in BatchRow
    BY <1>2, <1>3, <1>8 DEF BatchRow, StockForm
  <2> QED
    BY <1>7, <1>8, <1>9, <1>13, <1>14, <2>1, <2>2 DEF TablesTyped, Puts, Batches
<1>18. Fresh("commit", u, P2, B2, C, S) /\ Accounts("commit", u, P2, B2, C, S, paid)
  BY <1>15, <1>16, <1>17, PayMore
<1> QED
  BY <1>1, <1>6, <1>12, <1>13, <1>14, <1>15, <1>18, ProductSaveKeeps

\* The action DrainBatch keeps the invariant.
LEMMA DrainBatchKeepsSerial ==
    ASSUME Serial, StoreSound, SerialSound, NEW w \in Workers, DrainBatch(w)
    PROVE  SerialSound'
<1>1. PICK P, B, C, S : P = NewOf(product) /\ B = NewOf(batch) /\ C = NewOf(customer) /\ S = NewOf(sale)
  OBVIOUS
<1>2. PICK t, p : t = tx[w] /\ p = t.req.product
  OBVIOUS
<1>3. PICK k \in Slots : IsOldest(k, t.list) /\
         LET b == <<p, k>>
             d == Smaller(t.list[k].qty, t.left) IN
         Save(w, "batch", b, Deducted(t.list[k], d), "drainBatch",
              [t EXCEPT !.list = Without(@, k), !.left = @ - d,
                        !.moves[b] = IF t.left = t.req.qty THEN - t.req.qty ELSE @])
  BY <1>2 DEF DrainBatch
<1>4. PICK b, d, ent : b = <<p, k>> /\ d = Smaller(t.list[k].qty, t.left) /\ ent = Deducted(t.list[k], d)
  OBVIOUS
<1>5. PICK u : u = [t EXCEPT !.list = Without(@, k), !.left = @ - d,
                             !.moves[b] = IF t.left = t.req.qty THEN - t.req.qty ELSE @]
  OBVIOUS
<1>6. /\ pc[w] = "drainBatch" /\ "drainBatch" \notin Saves /\ k \in DOMAIN t.list /\ UNCHANGED tables
      /\ Save(w, "batch", b, ent, "drainBatch", u)
  BY <1>2, <1>3, <1>4, <1>5 DEF DrainBatch, Saves, IsOldest
<1>7. /\ Knows("drainBatch", t) /\ At("drainBatch", t) = "drainBatch" /\ LocalsTyped(t)
      /\ TablesTyped(P, B, C, S, paid) /\ Fresh("drainBatch", t, P, B, C, S)
      /\ Accounts("drainBatch", t, P, B, C, S, paid)
  BY <1>1, <1>2, <1>6, AtStatement
<1>8. t.req \in StockForm
  BY <1>7 DEF Knows, Adjusting
<1>9. PICK B2 : Puts(B2, B, b, ent)
  BY DEF Puts
<1>10. u.req = t.req /\ u.prod = t.prod /\ u.list = Without(t.list, k) /\ u.left = t.left - d /\ DOMAIN u = LocalNames
  BY <1>5, <1>7 DEF LocalsTyped, LocalNames
<1>11. Takes(t, u, B, B2, p, k, d)
  BY <1>4, <1>6, <1>9, <1>10 DEF Takes
<1>12. Fresh("drainBatch", u, P, B2, C, S) /\ Accounts("drainBatch", u, P, B2, C, S, paid)
  <2>1. u.req = t.req /\ u.prod = t.prod /\ p = t.req.product
    BY <1>2, <1>10
  <2> QED
    BY <1>7, <1>8, <1>11, <2>1, BatchDrained
<1>13. UNCHANGED <<product, batch, customer, sale, paid>> /\ Wrote(w, sale, sale')
  BY <1>6, Unwritten DEF tables
<1> QED
  BY <1>1, <1>6, <1>9, <1>10, <1>12, <1>13, BatchSaveKeeps

\* The action DeductStock keeps the invariant.
LEMMA DeductStockKeepsSerial ==
    ASSUME Serial, StoreSound, SerialSound, NEW w \in Workers, DeductStock(w)
    PROVE  SerialSound'
<1>1. PICK P, B, C, S : P = NewOf(product) /\ B = NewOf(batch) /\ C = NewOf(customer) /\ S = NewOf(sale)
  OBVIOUS
<1>2. PICK t, p, ent : t = tx[w] /\ p = t.req.product /\ ent = LessStock(t.prod[p], t.req.qty)
  OBVIOUS
<1>3. PICK u : u = [t EXCEPT !.list = NoList]
  OBVIOUS
<1>4. /\ pc[w] = "drainBatch" /\ "drainBatch" \notin Saves /\ t.left = 0 /\ UNCHANGED tables
      /\ Save(w, "product", p, ent, "commit", u)
  BY <1>2, <1>3 DEF DeductStock, Saves, LessStock
<1>5. /\ Knows("drainBatch", t) /\ At("drainBatch", t) = "drainBatch" /\ LocalsTyped(t)
      /\ TablesTyped(P, B, C, S, paid) /\ Fresh("drainBatch", t, P, B, C, S)
      /\ Accounts("drainBatch", t, P, B, C, S, paid)
  BY <1>1, <1>2, <1>4, AtStatement
<1>6. t.req \in StockForm /\ p \in Products
  BY <1>2, <1>5 DEF Knows, Adjusting, StockForm
<1>7. PICK P2 : Puts(P2, P, p, ent)
  BY DEF Puts
<1>8. NoLocals.pay = 0 /\ u.pay \in Nat /\ DOMAIN u = LocalNames
  BY <1>3, <1>5 DEF NoLocals, LocalsTyped, LocalNames
<1>9. Accounts("commit", NoLocals, P2, B, C, S, paid)
  BY <1>2, <1>4, <1>5, <1>6, <1>7, <1>8, StockDeducted
<1>10. TablesTyped(P2, B, C, S, paid)
  <2>1. ent \in ProductRow
    BY <1>2, <1>5, <1>6 DEF LessStock, LocalsTyped, ProductRow, StockForm
  <2> QED
    BY <1>5, <1>6, <1>7, <2>1 DEF TablesTyped, Puts
<1>11. Fresh("commit", u, P2, B, C, S) /\ Accounts("commit", u, P2, B, C, S, paid)
  BY <1>8, <1>9, <1>10, PayMore
<1>12. UNCHANGED <<product, batch, customer, sale, paid>> /\ Wrote(w, batch, batch')
  BY <1>4, Unwritten DEF tables
<1> QED
  BY <1>1, <1>4, <1>7, <1>8, <1>11, <1>12, ProductSaveKeeps

\* An edit of the request's product that leaves its stock as it was read.
LEMMA ProductEditKeepsSerial ==
    ASSUME Serial, StoreSound, SerialSound, NEW w \in Workers, NEW m \in {"editProduct", "removeProduct"},
           pc[w] = m, NEW t, t = tx[w], NEW p, p = t.req.product, NEW ent, ent.stock = t.prod[p].stock,
           UNCHANGED tables, ent \in ProductRow, Save(w, "product", p, ent, "commit", t)
    PROVE  SerialSound'
<1>1. PICK P, B, C, S : P = NewOf(product) /\ B = NewOf(batch) /\ C = NewOf(customer) /\ S = NewOf(sale)
  OBVIOUS
<1>2. m \notin Saves
  BY DEF Saves
<1>3. /\ Knows(m, t) /\ At(m, t) = m /\ LocalsTyped(t) /\ TablesTyped(P, B, C, S, paid)
      /\ Fresh(m, t, P, B, C, S) /\ Accounts(m, t, P, B, C, S, paid)
  BY <1>1, <1>2, AtStatement
<1>4. p \in Products
  BY <1>3 DEF Knows, Editing, ProductForm
<1>5. PICK P2 : Puts(P2, P, p, ent)
  BY DEF Puts
<1>6. NoLocals.pay = 0 /\ t.pay \in Nat /\ DOMAIN t = LocalNames
  BY <1>3 DEF NoLocals, LocalsTyped
<1>7. Accounts("commit", NoLocals, P2, B, C, S, paid)
  BY <1>3, <1>4, <1>5, <1>6, ProductEdited
<1>8. TablesTyped(P2, B, C, S, paid)
  BY <1>3, <1>4, <1>5 DEF TablesTyped, Puts
<1>9. Fresh("commit", t, P2, B, C, S) /\ Accounts("commit", t, P2, B, C, S, paid)
  BY <1>6, <1>7, <1>8, PayMore
<1>10. UNCHANGED <<product, batch, customer, sale, paid>> /\ Wrote(w, batch, batch')
  BY Unwritten DEF tables
<1> QED
  BY <1>1, <1>5, <1>6, <1>9, <1>10, ProductSaveKeeps

\* The action EditProduct keeps the invariant.
LEMMA EditProductKeepsSerial ==
    ASSUME Serial, StoreSound, SerialSound, NEW w \in Workers, EditProduct(w)
    PROVE  SerialSound'
<1>1. PICK t, p, ent : t = tx[w] /\ p = t.req.product /\ ent = t.prod[p]
  OBVIOUS
<1>2. pc[w] = "editProduct" /\ UNCHANGED tables /\ Save(w, "product", p, ent, "commit", t)
  BY <1>1 DEF EditProduct
<1>3. Knows("editProduct", t) /\ LocalsTyped(t) /\ At("editProduct", t) = "editProduct"
  BY <1>1, <1>2 DEF StoreSound, HandlersKnow, Knows, At, Saves
<1>4. p \in Products
  BY <1>1, <1>3 DEF Knows, Editing, ProductForm
<1>5. ent \in ProductRow /\ ent.stock = t.prod[p].stock
  BY <1>1, <1>3, <1>4 DEF LocalsTyped, ProductRow
<1> QED
  BY <1>1, <1>2, <1>5, ProductEditKeepsSerial

\* The action RemoveProduct keeps the invariant.
LEMMA RemoveProductKeepsSerial ==
    ASSUME Serial, StoreSound, SerialSound, NEW w \in Workers, RemoveProduct(w)
    PROVE  SerialSound'
<1>1. PICK t, p, ent : t = tx[w] /\ p = t.req.product /\ ent = [t.prod[p] EXCEPT !.active = FALSE]
  OBVIOUS
<1>2. pc[w] = "removeProduct" /\ UNCHANGED tables /\ Save(w, "product", p, ent, "commit", t)
  BY <1>1 DEF RemoveProduct
<1>3. Knows("removeProduct", t) /\ LocalsTyped(t) /\ At("removeProduct", t) = "removeProduct"
  BY <1>1, <1>2 DEF StoreSound, HandlersKnow, Knows, At, Saves
<1>4. p \in Products
  BY <1>1, <1>3 DEF Knows, Editing, ProductForm
<1>5. ent \in ProductRow /\ ent.stock = t.prod[p].stock
  BY <1>1, <1>3, <1>4 DEF LocalsTyped, ProductRow
<1> QED
  BY <1>1, <1>2, <1>5, ProductEditKeepsSerial

\* An edit of the request's customer: it pays d.
LEMMA AccountKeepsSerial ==
    ASSUME Serial, StoreSound, SerialSound, NEW w \in Workers,
           NEW m \in {"editCustomer", "deactivateCustomer", "insertPayment"}, pc[w] = m,
           NEW t, t = tx[w], NEW c, c = t.req.customer, NEW d \in Nat, NEW ent \in CustomerRow,
           ent.balance = t.cust.balance - d,
           ent.limit = t.cust.limit \/ (m = "editCustomer" /\ ent.limit = t.req.limit),
           NEW u, u.req = t.req, u.pay = d \/ (d = 0 /\ u.pay \in Nat), DOMAIN u = LocalNames,
           UNCHANGED tables, Save(w, "customer", c, ent, "commit", u)
    PROVE  SerialSound'
<1>1. PICK P, B, C, S : P = NewOf(product) /\ B = NewOf(batch) /\ C = NewOf(customer) /\ S = NewOf(sale)
  OBVIOUS
<1>2. m \notin Saves
  BY DEF Saves
<1>3. /\ Knows(m, t) /\ At(m, t) = m /\ LocalsTyped(t) /\ TablesTyped(P, B, C, S, paid)
      /\ Fresh(m, t, P, B, C, S) /\ Accounts(m, t, P, B, C, S, paid)
  BY <1>1, <1>2, AtStatement
<1>4. c \in Customers
  BY <1>3 DEF Knows, LimitForm, AccountForm, PaymentForm
<1>5. LimitsNotRaised => ent.limit <= CreditLimit[c]
  <2>1. CASE ent.limit = t.cust.limit
    <3>1. t.cust = C[c]
      BY <1>3 DEF Fresh, CustomerFresh
    <3> QED
      BY <1>3, <1>4, <2>1, <3>1 DEF Accounts, LimitsAgree
  <2>2. CASE m = "editCustomer" /\ ent.limit = t.req.limit
    <3>1. t.req \in Requests /\ t.req.kind = "editCustomer"
      BY <1>3, <2>2 DEF Knows, LimitForm
    <3> QED
      BY <2>2, <3>1 DEF LimitsNotRaised
  <2> QED
    BY <2>1, <2>2
<1>6. PICK C2 : Puts(C2, C, c, ent)
  BY DEF Puts
<1>7. PICK v : v = [u EXCEPT !.pay = d]
  OBVIOUS
<1>8. v.req = t.req /\ v.pay = d
  BY <1>7 DEF LocalNames
<1>9. Accounts("commit", v, P, B, C2, S, paid)
  BY <1>3, <1>4, <1>5, <1>6, <1>8, AccountSaved
<1>10. TablesTyped(P, B, C2, S, paid)
  BY <1>3, <1>4, <1>6 DEF TablesTyped, Puts
<1>11. Fresh("commit", u, P, B, C2, S) /\ Accounts("commit", u, P, B, C2, S, paid)
  <2>1. CASE u.pay = d
    <3>1. SameCore(v, u)
      BY <1>7, <2>1 DEF SameCore, LocalNames
    <3>2. Fresh("commit", v, P, B, C2, S)
      BY NothingRead
    <3> QED
      BY <1>9, <3>1, <3>2, CoreAgrees
  <2>2. CASE d = 0 /\ u.pay \in Nat
    BY <1>8, <1>9, <1>10, <2>2, PayMore
  <2> QED
    BY <2>1, <2>2
<1> QED
  BY <1>1, <1>6, <1>11, CustomerSaveKeeps

\* The action EditCustomer keeps the invariant.
LEMMA EditCustomerKeepsSerial ==
    ASSUME Serial, StoreSound, SerialSound, NEW w \in Workers, EditCustomer(w)
    PROVE  SerialSound'
<1>1. PICK t, c, d, ent, u : /\ t = tx[w] /\ c = t.req.customer /\ d = 0
                             /\ ent = [t.cust EXCEPT !.limit = t.req.limit] /\ u = t
  OBVIOUS
<1>2. pc[w] = "editCustomer" /\ UNCHANGED tables /\ Save(w, "customer", c, ent, "commit", u)
  BY <1>1 DEF EditCustomer
<1>3. Knows("editCustomer", t) /\ LocalsTyped(t) /\ At("editCustomer", t) = "editCustomer"
  BY <1>1, <1>2 DEF StoreSound, HandlersKnow, Knows, At, Saves
<1>4. d \in Nat /\ ent \in CustomerRow /\ ent.balance = t.cust.balance - d /\ ent.limit = t.req.limit
  <2>1. t.cust \in [balance : Int, limit : Nat, active : BOOLEAN]
    BY <1>3 DEF LocalsTyped, CustomerRow
  <2>2. t.req.limit \in Nat
    BY <1>1, <1>3 DEF Knows, LimitForm
  <2>3. d \in Nat
    BY <1>1, <2>2
  <2>4. PICK row : row = t.cust /\ row \in [balance : Int, limit : Nat, active : BOOLEAN]
    BY <2>1
  <2>5. ent \in CustomerRow /\ ent.limit = t.req.limit
    BY <1>1, <2>2, <2>4 DEF CustomerRow
  <2>6. ent.balance = row.balance - d
    <3>1. row.balance \in Int /\ row.balance - 0 = row.balance
      BY <2>4
    <3>2. ent.balance = row.balance
      BY <1>1, <2>4
    <3> QED
      BY <1>1, <2>2, <3>1, <3>2
  <2> QED
    BY <2>3, <2>4, <2>5, <2>6
<1>5. u.req = t.req /\ (u.pay = d \/ (d = 0 /\ u.pay \in Nat)) /\ DOMAIN u = LocalNames
  BY <1>1, <1>3 DEF LocalsTyped, LocalNames
<1>6. t = tx[w] /\ c = t.req.customer
  BY <1>1
<1> QED
  BY <1>2, <1>4, <1>5, <1>6, AccountKeepsSerial

\* The action DeactivateCustomer keeps the invariant.
LEMMA DeactivateCustomerKeepsSerial ==
    ASSUME Serial, StoreSound, SerialSound, NEW w \in Workers, DeactivateCustomer(w)
    PROVE  SerialSound'
<1>1. PICK t, c, d, ent, u : /\ t = tx[w] /\ c = t.req.customer /\ d = 0
                             /\ ent = [t.cust EXCEPT !.active = FALSE] /\ u = t
  OBVIOUS
<1>2. pc[w] = "deactivateCustomer" /\ UNCHANGED tables /\ Save(w, "customer", c, ent, "commit", u)
  BY <1>1 DEF DeactivateCustomer
<1>3. Knows("deactivateCustomer", t) /\ LocalsTyped(t) /\ At("deactivateCustomer", t) = "deactivateCustomer"
  BY <1>1, <1>2 DEF StoreSound, HandlersKnow, Knows, At, Saves
<1>4. d \in Nat /\ ent \in CustomerRow /\ ent.balance = t.cust.balance - d /\ ent.limit = t.cust.limit
  <2>1. t.cust \in [balance : Int, limit : Nat, active : BOOLEAN]
    BY <1>3 DEF LocalsTyped, CustomerRow
  <2>2. d = 0
    BY <1>1, <1>3 DEF Knows, LimitForm, AccountForm
  <2>3. d \in Nat
    BY <1>1, <2>2
  <2>4. PICK row : row = t.cust /\ row \in [balance : Int, limit : Nat, active : BOOLEAN]
    BY <2>1
  <2>5. ent \in CustomerRow /\ ent.limit = t.cust.limit
    BY <1>1, <2>2, <2>4 DEF CustomerRow
  <2>6. ent.balance = row.balance - d
    <3>1. row.balance \in Int /\ row.balance - 0 = row.balance
      BY <2>4
    <3>2. ent.balance = row.balance
      BY <1>1, <2>4
    <3> QED
      BY <1>1, <2>2, <3>1, <3>2
  <2> QED
    BY <2>3, <2>4, <2>5, <2>6
<1>5. u.req = t.req /\ (u.pay = d \/ (d = 0 /\ u.pay \in Nat)) /\ DOMAIN u = LocalNames
  BY <1>1, <1>3 DEF LocalsTyped, LocalNames
<1>6. t = tx[w] /\ c = t.req.customer
  BY <1>1
<1> QED
  BY <1>2, <1>4, <1>5, <1>6, AccountKeepsSerial

\* The action InsertPayment keeps the invariant.
LEMMA InsertPaymentKeepsSerial ==
    ASSUME Serial, StoreSound, SerialSound, NEW w \in Workers, InsertPayment(w)
    PROVE  SerialSound'
<1>1. PICK t, c, d, ent, u : /\ t = tx[w] /\ c = t.req.customer /\ d = t.req.amount
                             /\ ent = [t.cust EXCEPT !.balance = @ - t.req.amount] /\ u = [t EXCEPT !.pay = t.req.amount]
  OBVIOUS
<1>2. pc[w] = "insertPayment" /\ UNCHANGED tables /\ Save(w, "customer", c, ent, "commit", u)
  BY <1>1 DEF InsertPayment
<1>3. Knows("insertPayment", t) /\ LocalsTyped(t) /\ At("insertPayment", t) = "insertPayment"
  BY <1>1, <1>2 DEF StoreSound, HandlersKnow, Knows, At, Saves
<1>4. d \in Nat /\ ent \in CustomerRow /\ ent.balance = t.cust.balance - d /\ ent.limit = t.cust.limit
  <2>1. t.cust \in [balance : Int, limit : Nat, active : BOOLEAN]
    BY <1>3 DEF LocalsTyped, CustomerRow
  <2>2. t.req.amount \in Nat
    BY <1>1, <1>3 DEF Knows, PaymentForm
  <2>3. d \in Nat
    BY <1>1, <2>2
  <2>4. PICK row : row = t.cust /\ row \in [balance : Int, limit : Nat, active : BOOLEAN]
    BY <2>1
  <2>5. ent \in CustomerRow /\ ent.limit = t.cust.limit
    BY <1>1, <2>2, <2>4 DEF CustomerRow
  <2>6. ent.balance = row.balance - d
    <3>1. row.balance \in Int /\ row.balance - 0 = row.balance
      BY <2>4
    <3>2. ent.balance = row.balance - t.req.amount
      BY <1>1, <2>4
    <3> QED
      BY <1>1, <2>2, <3>1, <3>2
  <2> QED
    BY <2>3, <2>4, <2>5, <2>6
<1>5. u.req = t.req /\ (u.pay = d \/ (d = 0 /\ u.pay \in Nat)) /\ DOMAIN u = LocalNames
  BY <1>1, <1>3 DEF LocalsTyped, LocalNames
<1>6. t = tx[w] /\ c = t.req.customer
  BY <1>1
<1> QED
  BY <1>2, <1>4, <1>5, <1>6, AccountKeepsSerial

-----------------------------------------------------------------------------
(* Every step                                                              *)

\* What the invariant reads stays as it is.
LEMMA AsideKeepsSerial ==
    ASSUME SerialSound, UNCHANGED <<product, batch, customer, sale, paid, pc, tx>>
    PROVE  SerialSound'
<1>1. Settled(product)' /\ Settled(batch)' /\ Settled(customer)' /\ Settled(sale)'
  BY DEF SerialSound, Settled
<1>2. ASSUME NEW w \in Workers
      PROVE  WritesAll(pc[w], tx[w])'
  <2>1. WritesAll(pc[w], tx[w])
    BY DEF SerialSound
  <2> QED
    BY <2>1 DEF WritesAll, RowOf
<1>3. ASSUME NEW w \in Workers
      PROVE  Agrees(pc[w], tx[w], NewOf(product), NewOf(batch), NewOf(customer), NewOf(sale), paid)'
  <2>1. Agrees(pc[w], tx[w], NewOf(product), NewOf(batch), NewOf(customer), NewOf(sale), paid)
    BY DEF SerialSound
  <2> QED
    BY <2>1
<1>4. Accounts("idle", NoLocals, CurOf(product), CurOf(batch), CurOf(customer), CurOf(sale), paid)'
  <2>1. Accounts("idle", NoLocals, CurOf(product), CurOf(batch), CurOf(customer), CurOf(sale), paid)
    BY DEF SerialSound
  <2> QED
    BY <2>1
<1> QED
  BY <1>1, <1>2, <1>3, <1>4 DEF SerialSound

\* Every step of a store that serves one request at a time.
LEMMA NextKeepsSerial ==
    ASSUME Serial, StoreSound, SerialSound, [Next]_vars
    PROVE  SerialSound'
<1>1. ASSUME NEW w \in Workers, NEW r \in Requests, Begin(w, r) PROVE SerialSound'
  BY <1>1, BeginKeepsSerial
<1>2. ASSUME NEW w \in Workers, Step(w) PROVE SerialSound'
  <2>1. CASE Create(w)
    <3>1. CASE ShortOfBatches(w)
      BY <3>1, AbortKeepsSerial DEF ShortOfBatches
    <3> QED
      BY <2>1, <3>1, FindCustomerKeepsSerial, CheckStockKeepsSerial, GenerateSaleNumberKeepsSerial,
         InsertSaleKeepsSerial, FindBatchesKeepsSerial, TakeBatchKeepsSerial, DeductProductKeepsSerial,
         ChargeCustomerKeepsSerial DEF Create
  <2>2. CASE VoidSale(w)
    BY <2>2, FindSaleKeepsSerial, RestockProductKeepsSerial, RestockBatchKeepsSerial,
       ReverseCreditKeepsSerial, SetVoidKeepsSerial DEF VoidSale
  <2>3. CASE Adjust(w)
    <3>1. CASE BatchesExhausted(w)
      BY <3>1, AbortKeepsSerial DEF BatchesExhausted
    <3> QED
      BY <2>3, <3>1, FindStockKeepsSerial, StockInKeepsSerial, StockOutKeepsSerial, DrainBatchKeepsSerial,
         DeductStockKeepsSerial DEF Adjust
  <2>4. CASE MaintainProducts(w)
    BY <2>4, FindProductKeepsSerial, EditProductKeepsSerial, RemoveProductKeepsSerial DEF MaintainProducts
  <2>5. CASE MaintainCustomers(w)
    BY <2>5, FindAccountKeepsSerial, EditCustomerKeepsSerial, DeactivateCustomerKeepsSerial,
       FindDebtorKeepsSerial, InsertPaymentKeepsSerial DEF MaintainCustomers
  <2>6. CASE SaveSelect(w)
    BY <2>6, SaveSelectKeepsSerial
  <2>7. CASE SaveUpdate(w)
    BY <2>7, SaveUpdateKeepsSerial
  <2>8. CASE Commit(w)
    BY <2>8, CommitKeepsSerial
  <2>9. CASE DeadlockVictim(w)
    BY <2>9, AbortKeepsSerial DEF DeadlockVictim
  <2> QED
    BY <1>2, <2>1, <2>2, <2>3, <2>4, <2>5, <2>6, <2>7, <2>8, <2>9 DEF Step
<1>3. ASSUME NEW w \in Workers, Disconnect(w) PROVE SerialSound'
  BY <1>3, AbortKeepsSerial DEF Disconnect
<1>4. CASE Midnight \/ UNCHANGED vars
  <2>1. UNCHANGED <<product, batch, customer, sale, paid, pc, tx>>
    BY <1>4 DEF Midnight, tables, vars
  <2> QED
    BY <2>1, AsideKeepsSerial
<1> QED
  BY <1>1, <1>2, <1>3, <1>4 DEF Next, Closed

\* At the start nothing was sold, and the stock is what the batches hold.
LEMMA InitSerial == Init => SerialSound
<1> SUFFICES ASSUME Init PROVE SerialSound
  OBVIOUS
<1>1. PICK P, B, C, S : P = CurOf(product) /\ B = CurOf(batch) /\ C = CurOf(customer) /\ S = CurOf(sale)
  OBVIOUS
<1>2. P = NewOf(product) /\ B = NewOf(batch) /\ C = NewOf(customer) /\ S = NewOf(sale)
  BY <1>1 DEF Init, Stored, CurOf, NewOf
<1>3. /\ \A p \in Products : P[p].stock = OpeningStock[p]
      /\ \A b \in BatchIds : B[b] = OpeningBatch(b)
      /\ \A c \in Customers : C[c].balance = 0 /\ C[c].limit = CreditLimit[c] /\ paid[c] = 0
      /\ \A s \in SaleIds : S[s] = NoSale
  BY <1>1 DEF Init, Stored, CurOf
<1>4. /\ \A b \in BatchIds : OutIn(S, b) = 0
      /\ \A c \in Customers : OwedIn(S, c) = 0
  <2>1. ASSUME NEW b \in BatchIds PROVE OutIn(S, b) = 0
    <3>1. PICK f : f = [s \in SaleIds |-> UnitsOn(S[s], b)]
      OBVIOUS
    <3>2. \A s \in SaleIds : f[s] = 0
      BY <1>3, <3>1 DEF UnitsOn, NoSale
    <3>3. SumOf(f, SaleIds) = SumOf(f, {})
      BY <3>2, SalesFinite, TotalOver
    <3>4. SumOf(f, SaleIds) = 0
      BY <3>3, TotalEmpty
    <3> QED
      BY <3>1, <3>4 DEF OutIn
  <2>2. ASSUME NEW c \in Customers PROVE OwedIn(S, c) = 0
    <3>1. PICK f : f = [s \in SaleIds |-> CreditOn(S[s], c)]
      OBVIOUS
    <3>2. \A s \in SaleIds : f[s] = 0
      BY <1>3, <3>1 DEF CreditOn, NoSale
    <3>3. SumOf(f, SaleIds) = SumOf(f, {})
      BY <3>2, SalesFinite, TotalOver
    <3>4. SumOf(f, SaleIds) = 0
      BY <3>3, TotalEmpty
    <3> QED
      BY <3>1, <3>4 DEF OwedIn
  <2> QED
    BY <2>1, <2>2
<1>5. Accounts("idle", NoLocals, P, B, C, S, paid)
  <2>1. /\ \A p : AheadBy("idle", NoLocals, p) = 0
        /\ \A b : PutBack("idle", NoLocals, b) = 0
        /\ \A c : Pending("idle", NoLocals, c) = 0
    BY PlainIsDone DEF Plain
  <2>2. StockAgrees("idle", NoLocals, P, B)
    <3>1. SUFFICES ASSUME NEW p \in Products PROVE P[p].stock = HeldIn(B, p)
      <4>1. \A p \in Products : P[p].stock \in Nat
        BY <1>3, TablesAssumption
      <4> QED
        BY <2>1, <3>1, <4>1 DEF StockAgrees
    <3>2. PICK R, f, g : R = BatchesOf(p) /\ f = [b \in R |-> OpeningBatch(b).qty] /\ g = [b \in R |-> B[b].qty]
      OBVIOUS
    <3>3. OpeningStock[p] = SumOf(f, R)
      BY <3>2, OpeningIs, OpeningAssumption
    <3>4. IsFiniteSet(R) /\ R \subseteq BatchIds
      BY <3>2, BatchesFinite DEF BatchesOf
    <3>5. \A b \in R : f[b] = g[b]
      BY <1>3, <3>2, <3>4
    <3>6. SumOf(f, R) = SumOf(g, R)
      BY <3>4, <3>5, TotalSame
    <3> QED
      BY <1>3, <3>2, <3>3, <3>6 DEF HeldIn
  <2>3. BatchesInUse(B, S)
    <3>1. \A b \in BatchIds : (OpeningBatch(b).active => OpeningBatch(b).made) /\ Emptied(OpeningBatch(b))
      BY DEF OpeningBatch, NoBatch, Emptied
    <3>2. DOMAIN NoSale.lines = {}
      BY DEF NoSale
    <3> QED
      BY <1>3, <3>1, <3>2 DEF BatchesInUse
  <2>4. UnitsAgree("idle", NoLocals, B, S)
    <3>1. ASSUME NEW b \in BatchIds, OpeningBatch(b).made
          PROVE  B[b].made /\ B[b].qty + OutIn(S, b) - PutBack("idle", NoLocals, b) <= OpeningBatch(b).qty
      <4>1. OpeningBatch(b).qty \in Nat
        BY OpeningTyped DEF BatchRow
      <4> QED
        BY <1>3, <1>4, <2>1, <3>1, <4>1
    <3> QED
      BY <3>1 DEF UnitsAgree
  <2>5. BalanceAgrees("idle", NoLocals, C, S, paid)
    BY <1>3, <1>4, <2>1 DEF BalanceAgrees
  <2>6. LimitsAgree(C, S, paid)
    <3>1. \A c \in Customers : CreditLimit[c] \in Nat
      BY TablesAssumption
    <3> QED
      BY <1>3, <1>4, <3>1 DEF LimitsAgree
  <2> QED
    BY <2>2, <2>3, <2>4, <2>5, <2>6 DEF Accounts
<1>6. Settled(product) /\ Settled(batch) /\ Settled(customer) /\ Settled(sale)
  <2>1. \A w \in Workers : NoTx # w
    BY TablesAssumption
  <2>2. /\ \A p \in Products : product[p].xid = NoTx /\ product[p].new = product[p].cur
        /\ \A b \in BatchIds : batch[b].xid = NoTx /\ batch[b].new = batch[b].cur
        /\ \A c \in Customers : customer[c].xid = NoTx /\ customer[c].new = customer[c].cur
        /\ \A s \in SaleIds : sale[s].xid = NoTx /\ sale[s].new = sale[s].cur
        /\ DOMAIN product = Products /\ DOMAIN batch = BatchIds /\ DOMAIN customer = Customers
        /\ DOMAIN sale = SaleIds
    BY DEF Init, Stored
  <2> QED
    BY <2>1, <2>2 DEF Settled
<1>7. ASSUME NEW w \in Workers
      PROVE  /\ Agrees(pc[w], tx[w], NewOf(product), NewOf(batch), NewOf(customer), NewOf(sale), paid)
             /\ WritesAll(pc[w], tx[w])
  <2>1. pc[w] = "idle" /\ tx[w] = NoLocals /\ "idle" \notin Saves
    BY DEF Init, Saves
  <2>2. Fresh("idle", NoLocals, P, B, C, S)
    BY NothingRead
  <2>3. Agrees("idle", NoLocals, P, B, C, S, paid)
    BY <1>5, <2>1, <2>2, NotSaved
  <2> QED
    BY <1>2, <2>1, <2>3 DEF WritesAll
<1> QED
  BY <1>1, <1>5, <1>6, <1>7 DEF SerialSound

-----------------------------------------------------------------------------
(* What the committed tables say                                           *)

\* What a sale can take of p is what its batches hold.
LEMMA OnHandIn ==
    ASSUME StoreSound, SerialSound, NEW p \in Products
    PROVE  OnHand(p) = HeldIn(CurOf(batch), p)
<1>1. PICK A, f : A = {b \in BatchesOf(p) : batch[b].cur.active} /\ f = [b \in A |-> batch[b].cur.qty]
  OBVIOUS
<1>2. PICK B, R, g : B = CurOf(batch) /\ R = BatchesOf(p) /\ g = [b \in R |-> B[b].qty]
  OBVIOUS
<1>3. OnHand(p) = SumOf(f, A) /\ IsFiniteSet(A)
  BY <1>1, OnHandIs
<1>4. R \subseteq BatchIds /\ A \subseteq R /\ IsFiniteSet(R)
  BY <1>1, <1>2, BatchesFinite DEF BatchesOf
<1>5. \A b \in BatchIds : B[b] = batch[b].cur /\ batch[b].cur \in BatchRow
  BY <1>2 DEF StoreSound, TypeOK, Versions, CurOf
<1>6. \A b \in A : f[b] = g[b]
  BY <1>1, <1>2, <1>4, <1>5
<1>7. \A b \in R : g[b] \in Int
  BY <1>2, <1>4, <1>5 DEF BatchRow
<1>8. \A b \in R \ A : g[b] = 0
  <2>1. \A b \in BatchIds : Emptied(B[b])
    BY <1>2 DEF SerialSound, Accounts, BatchesInUse
  <2> QED
    BY <1>1, <1>2, <1>4, <1>5, <2>1 DEF Emptied
<1>9. SumOf(f, A) = SumOf(g, A)
  BY <1>3, <1>6, TotalSame
<1>10. SumOf(g, R) = SumOf(g, A)
  BY <1>4, <1>7, <1>8, TotalOver
<1> QED
  BY <1>2, <1>3, <1>9, <1>10 DEF HeldIn

\* What c owes.
LEMMA DebtIn ==
    ASSUME StoreSound, NEW c \in Customers
    PROVE  Debt(c) = OwedIn(CurOf(sale), c) - paid[c]
<1>1. PICK S, f, g : /\ S = CurOf(sale) /\ f = [s \in SaleIds |-> CreditOf(s, c)]
                     /\ g = [s \in SaleIds |-> CreditOn(S[s], c)]
  OBVIOUS
<1>2. \A s \in SaleIds : S[s] = sale[s].cur
  BY <1>1 DEF StoreSound, TypeOK, CurOf
<1>3. \A s \in SaleIds : f[s] = g[s]
  BY <1>1, <1>2 DEF CreditOf, CreditOn
<1>4. SumOf(f, SaleIds) = SumOf(g, SaleIds)
  BY <1>3, SalesFinite, TotalSame
<1> QED
  BY <1>1, <1>4, DebtIs DEF Owed, OwedIn

\* The units of a batch on some lines are a number.
LEMMA LineUnitsNat == ASSUME NEW ls \in Seq(Line), NEW b PROVE LineUnits(ls, b) \in Nat
<1>1. PICK S : S = 1 .. Len(ls)
  OBVIOUS
<1>2. PICK f : UnitsByLine(ls, b, S, f)
  BY UnitsByLineExist
<1>3. LineUnits(ls, b) = SumOf(f, S) /\ IsFiniteSet(S)
  BY <1>1, <1>2, LineUnitsIs
<1>4. \A i \in S : f[i] \in Nat
  <2>1. PICK L : L = Line
    OBVIOUS
  <2>2. ls \in Seq(L)
    BY <2>1
  <2>3. \A i \in S : ls[i] \in L
    BY <1>1, <2>2
  <2> QED
    BY <1>2, <2>1, <2>3 DEF UnitsByLine, Line
<1> QED
  BY <1>3, <1>4, TotalSub

\* The units of a batch that are sold are a number, from the tables.
LEMMA OutInNat ==
    ASSUME NEW S \in Sales, NEW b
    PROVE  OutIn(S, b) \in Nat
<1>1. PICK f : f = [s \in SaleIds |-> UnitsOn(S[s], b)]
  OBVIOUS
<1>2. ASSUME NEW s \in SaleIds PROVE f[s] \in Nat
  <2>1. S[s].lines \in Seq(Line)
    BY DEF Sales, SaleRow
  <2>2. LineUnits(S[s].lines, b) \in Nat
    BY <2>1, LineUnitsNat
  <2> QED
    BY <1>1, <2>2 DEF UnitsOn
<1>3. SumOf(f, SaleIds) \in Nat
  BY <1>2, SalesFinite, TotalSub
<1> QED
  BY <1>1, <1>3 DEF OutIn

\* The invariant of the serial store, in every behaviour.
LEMMA SerialAlways == ASSUME Serial PROVE Spec => [](StoreSound /\ SerialSound)
<1>1. Init => StoreSound /\ SerialSound
  BY InitSound, InitSerial
<1>2. StoreSound /\ SerialSound /\ [Next]_vars => StoreSound' /\ SerialSound'
  BY NextKeepsStore, NextKeepsSerial
<1> QED
  BY <1>1, <1>2, PTL DEF Spec

-----------------------------------------------------------------------------
(* The theorems                                                            *)

\* While requests are served one at a time, the cached stock of every product is what
\* its active batches hold, over any sequence of checkouts, voids, adjustments, edits
\* and payments, with a lost connection at any statement (products.current_stock).
THEOREM SerialStockMatches ==
    ASSUME Serial PROVE Spec => []StockMatchesBatches
<1>1. StoreSound /\ SerialSound => StockMatchesBatches
  <2>1. SUFFICES ASSUME StoreSound, SerialSound, NEW p \in Products
                 PROVE  product[p].cur.stock = OnHand(p)
    BY DEF StockMatchesBatches
  <2>2. PICK P, B : P = CurOf(product) /\ B = CurOf(batch)
    OBVIOUS
  <2>3. StockAgrees("idle", NoLocals, P, B) /\ AheadBy("idle", NoLocals, p) = 0
    BY <2>1, <2>2, PlainIsDone DEF SerialSound, Accounts, Plain
  <2>4. P[p] = product[p].cur /\ P[p].stock \in Int
    BY <2>1, <2>2 DEF StoreSound, TypeOK, Versions, CurOf, ProductRow
  <2>5. B \in Batches
    BY <2>1, <2>2 DEF StoreSound, TypeOK, Versions, CurOf, Batches
  <2>6. HeldIn(B, p) \in Int
    BY <2>5, HeldInTyped
  <2>7. P[p].stock = HeldIn(B, p)
    BY <2>3, <2>4, <2>6 DEF StockAgrees
  <2>8. OnHand(p) = HeldIn(B, p)
    BY <2>1, <2>2, OnHandIn
  <2> QED
    BY <2>4, <2>7, <2>8
<1> QED
  BY <1>1, SerialAlways, PTL

\* While requests are served one at a time, what a void puts back into a batch, and what
\* it reactivates, is what the sale had taken: over any sequence of requests and lost
\* connections no batch ever holds more than it came with (sales.service.ts:302-304).
THEOREM SerialRestocksOnce ==
    ASSUME Serial PROVE Spec => []RestockedOnce
<1>1. StoreSound /\ SerialSound => RestockedOnce
  <2>1. SUFFICES ASSUME StoreSound, SerialSound, NEW b \in BatchIds, OpeningBatch(b).made
                 PROVE  batch[b].cur.qty <= OpeningBatch(b).qty
    BY DEF RestockedOnce
  <2>2. PICK B, S : B = CurOf(batch) /\ S = CurOf(sale)
    OBVIOUS
  <2>3. UnitsAgree("idle", NoLocals, B, S) /\ PutBack("idle", NoLocals, b) = 0
    BY <2>1, <2>2, PlainIsDone DEF SerialSound, Accounts, Plain
  <2>4. B[b] = batch[b].cur /\ B[b].qty \in Nat
    BY <2>1, <2>2 DEF StoreSound, TypeOK, Versions, CurOf, BatchRow
  <2>5. S \in Sales
    BY <2>1, <2>2 DEF StoreSound, TypeOK, Versions, CurOf, Sales
  <2>6. OutIn(S, b) \in Nat
    BY <2>5, OutInNat
  <2>7. B[b].qty + OutIn(S, b) - 0 <= OpeningBatch(b).qty
    BY <2>1, <2>3 DEF UnitsAgree
  <2>8. OpeningBatch(b).qty \in Nat
    BY <2>1, OpeningTyped DEF BatchRow
  <2> QED
    BY <2>4, <2>6, <2>7, <2>8
<1> QED
  BY <1>1, SerialAlways, PTL

\* While requests are served one at a time, the balance of a customer covers what the
\* completed credit sales less the payments leave open: voids of paid sales and edits
\* between a charge and its payment included (sales.service.ts:352-361).
THEOREM SerialBalanceCovers ==
    ASSUME Serial PROVE Spec => []BalanceCoversDebt
<1>1. StoreSound /\ SerialSound => BalanceCoversDebt
  <2>1. SUFFICES ASSUME StoreSound, SerialSound, NEW c \in Customers
                 PROVE  customer[c].cur.balance >= Debt(c)
    BY DEF BalanceCoversDebt
  <2>2. PICK C, S : C = CurOf(customer) /\ S = CurOf(sale)
    OBVIOUS
  <2>3. BalanceAgrees("idle", NoLocals, C, S, paid) /\ Pending("idle", NoLocals, c) = 0
    BY <2>1, <2>2, PlainIsDone DEF SerialSound, Accounts, Plain
  <2>4. C[c] = customer[c].cur /\ C[c].balance \in Int
    BY <2>1, <2>2 DEF StoreSound, TypeOK, Versions, CurOf, CustomerRow
  <2>5. Debt(c) = OwedIn(S, c) - paid[c]
    BY <2>1, <2>2, DebtIn
  <2>6. C[c].balance + 0 >= OwedIn(S, c) - paid[c]
    BY <2>1, <2>3 DEF BalanceAgrees
  <2> QED
    BY <2>4, <2>5, <2>6
<1> QED
  BY <1>1, SerialAlways, PTL

\* While requests are served one at a time and no edit raises a credit limit, what a
\* customer owes stays within the limit given to him (docs/project-summary.md:226-228),
\* whatever is voided, paid or lost in between.
THEOREM SerialCreditWithin ==
    ASSUME Serial, LimitsNotRaised PROVE Spec => []CreditWithinLimit
<1>1. StoreSound /\ SerialSound => CreditWithinLimit
  <2>1. SUFFICES ASSUME StoreSound, SerialSound, NEW c \in Customers
                 PROVE  Debt(c) <= CreditLimit[c]
    BY DEF CreditWithinLimit
  <2>2. LimitsAgree(CurOf(customer), CurOf(sale), paid)
    BY <2>1 DEF SerialSound, Accounts
  <2>3. OwedIn(CurOf(sale), c) - paid[c] <= CreditLimit[c]
    BY <2>1, <2>2 DEF LimitsAgree
  <2> QED
    BY <2>1, <2>3, DebtIn
<1> QED
  BY <1>1, SerialAlways, PTL
=============================================================================
