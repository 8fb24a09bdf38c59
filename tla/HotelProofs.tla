----------------------------- MODULE HotelProofs -----------------------------
(***************************************************************************)
(* The accounts of the guests, the turnover of the rooms, the trips of the *)
(* travel desk, the registers, the stock, the terms of sale and the orders *)
(* of the restaurant, for any number of rows and of people at them, and    *)
(* however their reads and writes cross.                                   *)
(*                                                                         *)
(* Accounts, the argument: a stay that no two requests were on at once has *)
(* at most one, so what that one has read of the folio still holds when it *)
(* writes the paid amount, or closes the stay.                             *)
(*                                                                         *)
(* Turnover, the argument: a row of either table never changes its room,   *)
(* nor an order whether it takes the room out.  So a write by id, though   *)
(* decided on an old read, is about the room it was read of.               *)
(*                                                                         *)
(* Trips, the argument: only the desk gives or takes a driver, and what it *)
(* takes it takes with the stage; a driver's step is undone unless the     *)
(* trip still is the driver's.                                             *)
(*                                                                         *)
(* Registers, the argument: no move leads back to the status that awaits   *)
(* approval and nothing that was withdrawn returns, so an entry with a     *)
(* verdict stays decided, and a second verdict was decided on a row that   *)
(* is no longer as it was read.                                            *)
(*                                                                         *)
(* Stock, the argument: a transaction that has seen to an item holds its   *)
(* row until it commits, so nobody else moves the item in between, and     *)
(* what it writes is the row with its own movements.                       *)
(*                                                                         *)
(* Terms, the argument: of a row that no two editors met on, what the one  *)
(* at it was checked against is still there but for columns that the check *)
(* does not read.                                                          *)
(*                                                                         *)
(* Orders, the argument: of an order no two requests met on, the row that  *)
(* its one request read is still the row, and the row, the money taken and *)
(* the stock say the same of it.                                           *)
(***************************************************************************)
EXTENDS Restaurant, Housekeeping, Transport, Registers, Inventory, RatePlans, SequenceTheorems,
        FiniteSetTheorems, WellFoundedInduction, TLAPS

-----------------------------------------------------------------------------
(* Accounts: what is summed *)

\* No payments, nothing paid.
LEMMA NoughtsSumToNought ==
    ASSUME NEW K, IsFiniteSet(K)
    PROVE  SumFunction([k \in K |-> 0]) = 0
  <1> DEFINE f == [k \in K |-> 0]
             Step(g) == [s \in SUBSET K |->
                            IF s = {} THEN 0
                            ELSE LET x == CHOOSE x \in s : TRUE IN f[x] + g[s \ {x}]]
             sum == CHOOSE g : g = Step(g)
             Bad == {s \in FiniteSubsetsOf(K) : sum[s] # 0}
  <1>1. SumFunction(f) = sum[K]
    BY DEF SumFunction, SumFunctionOnSet, FoldFunctionOnSet, MapThenFoldSet
  <1>2. sum = Step(sum)
    <2> DEFINE nought == [s \in SUBSET K |-> 0]
    <2>1. nought = Step(nought)
      <3>1. ASSUME NEW s \in SUBSET K, s # {}, NEW x, x = CHOOSE y \in s : TRUE
            PROVE  f[x] + nought[s \ {x}] = 0
        BY <3>1
      <3>2. QED
        BY <3>1
    <2> HIDE DEF nought, Step
    <2>2. QED
      BY <2>1
  <1>3. \A s \in SUBSET K : s # {} => \E x \in s : sum[s] = 0 + sum[s \ {x}]
    <2> HIDE DEF sum
    <2> SUFFICES ASSUME NEW s \in SUBSET K, s # {}
                 PROVE  \E x \in s : sum[s] = 0 + sum[s \ {x}]
      OBVIOUS
    <2>1. PICK x \in s : x = CHOOSE y \in s : TRUE
      OBVIOUS
    <2>2. sum[s] = f[x] + sum[s \ {x}]
      BY <1>2, <2>1
    <2>3. QED
      BY <2>2
  <1>4. sum[{}] = 0
    <2> HIDE DEF sum
    <2>1. QED
      BY <1>2
  <1> HIDE DEF sum
  <1>5. ASSUME NEW s \in Bad
        PROVE  \E r \in Bad : <<r, s>> \in StrictSubsetOrdering(K)
    <2>1. s \in SUBSET K /\ IsFiniteSet(s) /\ sum[s] # 0 /\ s # {}
      BY <1>4, FS_FiniteSubsetsOfFinite DEF FiniteSubsetsOf
    <2>2. PICK x \in s : sum[s] = 0 + sum[s \ {x}]
      BY <1>3, <2>1
    <2>3. IsFiniteSet(s \ {x})
      BY <2>1, FS_Subset
    <2>4. s \ {x} \in Bad
      BY <2>1, <2>2, <2>3 DEF FiniteSubsetsOf
    <2>5. QED
      BY <2>1, <2>4 DEF StrictSubsetOrdering
  <1>6. Bad = {}
    <2>1. IsWellFoundedOn(StrictSubsetOrdering(K), FiniteSubsetsOf(K))
      BY FS_StrictSubsetOrderingWellFounded
    <2>2. Bad \subseteq FiniteSubsetsOf(K)
      OBVIOUS
    <2> HIDE DEF Bad
    <2>3. QED
      BY <1>5, <2>1, <2>2, WFMin
  <1>7. K \in FiniteSubsetsOf(K)
    BY DEF FiniteSubsetsOf
  <1>8. QED
    BY <1>1, <1>6, <1>7

\* A stay whose lines and payments a step leaves alone is owed what it was.
LEMMA BalanceKept ==
    ASSUME NEW b, DOMAIN lines = Lines, DOMAIN lines' = Lines, payments'[b] = payments[b],
           \A l \in Lines :
              \/ lines'[l] = lines[l]
              \/ /\ lines[l] = Null \/ lines[l].booking # b
                 /\ lines'[l] = Null \/ lines'[l].booking # b
    PROVE  netPaid(b)' = netPaid(b) /\ balancePaise(b)' = balancePaise(b)
  <1>1. LinesOn(b)' = LinesOn(b) /\ \A l \in LinesOn(b) : l \in Lines /\ lines'[l] = lines[l]
    BY DEF LinesOn
  <1>2. [l \in LinesOn(b) |-> LineTotal(l)]' = [l \in LinesOn(b) |-> LineTotal(l)]
    BY <1>1 DEF LineTotal
  <1>3. netPaid(b)' = netPaid(b)
    BY DEF netPaid
  <1>4. QED
    BY <1>2, <1>3 DEF balancePaise

\* The least free line is a free line.
LEMMA FreeLine ==
    ASSUME Lines \subseteq Nat, FreeLines # {}
    PROVE  Min(FreeLines) \in FreeLines
  <1>1. PICK m \in FreeLines : \A l \in FreeLines : ~ (<<l, m>> \in OpToRel(<, Nat))
    BY NatLessThanWellFounded, WFMin DEF FreeLines
  <1>2. \A l \in FreeLines : m =< l
    <2> SUFFICES ASSUME NEW l \in FreeLines PROVE m =< l
      OBVIOUS
    <2>1. l \in Nat /\ m \in Nat
      BY DEF FreeLines
    <2>2. l < m => <<l, m>> \in OpToRel(<, Nat)
      BY <2>1 DEF OpToRel
    <2>3. ~(l < m)
      BY <1>1, <2>2
    <2>4. QED
      BY <2>1, <2>3
  <1>3. QED
    BY <1>1, <1>2 DEF Min

-----------------------------------------------------------------------------
(* Accounts: the invariant *)

Fields == {"pc", "op", "booking", "key", "pay", "seen", "shift"}

\* Only those who leave pass the gate, and who has nothing to do works on no stay.
RequestFine(row) ==
    /\ DOMAIN row = Fields
    /\ row.pc = "idle" => row.booking = Null
    /\ row.pc \in {"find", "insert", "sum", "cache", "gate", "leave"}
       => row.op \in {"collect", "checkout", "depart"}
    /\ row.pc \in {"gate", "leave"} => row.op # "collect"

\* What a request that is alone on the folio of b has read of it still holds.
ReadFine(row, b) ==
    /\ row.pc = "cache" => row.seen = netPaid(b)
    /\ row.pc = "leave" /\ row.op = "checkout" => ~(balancePaise(b) > 0)

Writing(row) == row.pc \in {"sum", "cache"}

\* At most one request is on the folio of b, and paid_paise agrees but between its
\* insert and its write of the cache.
StayFine(b) ==
    /\ \A d, e \in Desks : desk[d].booking = b /\ desk[e].booking = b => d = e
    /\ \A d \in Desks : desk[d].booking = b => ReadFine(desk[d], b)
    /\ (\A d \in Desks : desk[d].booking = b => ~Writing(desk[d])) => cached[b] = netPaid(b)

TablesFine ==
    /\ DOMAIN lines = Lines /\ DOMAIN desk = Desks
    /\ DOMAIN payments = Stays /\ (\A b \in Stays : DOMAIN payments[b] = Keys)
    /\ DOMAIN cached = Stays
    /\ \A d \in Desks : RequestFine(desk[d])

FolioInv ==
    /\ TablesFine
    /\ \A b \in Stays \ disturbed : StayFine(b)
    /\ DOMAIN stay = Stays /\ LeavesPaidUp
    /\ ChargedOncePerSource

-----------------------------------------------------------------------------
(* Accounts: what a step keeps *)

\* A stay that a step is not about.
LEMMA OtherStayKept ==
    ASSUME TablesFine, NEW b \in Stays, StayFine(b), DOMAIN lines' = Lines,
           \A e \in Desks : \/ desk'[e] = desk[e]
                            \/ desk[e].booking # b /\ desk'[e].booking # b,
           \A l \in Lines :
              \/ lines'[l] = lines[l]
              \/ /\ lines[l] = Null \/ lines[l].booking # b
                 /\ lines'[l] = Null \/ lines'[l].booking # b,
           payments'[b] = payments[b], cached'[b] = cached[b]
    PROVE  StayFine(b)'
  <1>1. netPaid(b)' = netPaid(b) /\ balancePaise(b)' = balancePaise(b)
    BY BalanceKept DEF TablesFine
  <1>2. QED
    BY <1>1 DEF StayFine, ReadFine, Writing

\* The stay that nobody works on.
LEMMA IdleStayKept ==
    ASSUME NEW b \in Stays, StayFine(b), desk' = desk, payments' = payments,
           cached' = cached, \A e \in Desks : desk[e].booking # b
    PROVE  StayFine(b)'
  <1>1. netPaid(b)' = netPaid(b)
    BY DEF netPaid
  <1>2. QED
    BY <1>1 DEF StayFine

\* A request goes on, or ends, and the tables stay as they are.
LEMMA RequestKeeps ==
    ASSUME Null \notin Stays, FolioInv, NEW d \in Desks, NEW row, RequestFine(row),
           desk' = [desk EXCEPT ![d] = row],
           row.booking \in {desk[d].booking, Null},
           UNCHANGED <<lines, payments, cached, disturbed>>,
           stay' = stay \/ (DOMAIN stay' = Stays /\ LeavesPaidUp'),
           ReadFine(row, desk[d].booking),
           Writing(desk[d]) => Writing(row) /\ row.booking = desk[d].booking
    PROVE  FolioInv'
  <1>1. /\ DOMAIN desk' = Desks /\ desk'[d] = row
        /\ \A e \in Desks : e # d => desk'[e] = desk[e]
    BY DEF FolioInv, TablesFine
  <1>2. TablesFine'
    BY <1>1 DEF FolioInv, TablesFine
  <1>3. LeavesPaidUp' /\ ChargedOncePerSource'
    BY DEF FolioInv, LeavesPaidUp, ChargedOncePerSource
  <1>4. ASSUME NEW b \in Stays \ disturbed
        PROVE  StayFine(b)'
    <2>1. netPaid(b)' = netPaid(b) /\ balancePaise(b)' = balancePaise(b)
      BY DEF netPaid, balancePaise, LinesOn, LineTotal
    <2>2. StayFine(b) /\ b # Null
      BY DEF FolioInv
    <2>3. \A e \in Desks : desk'[e].booking = b => desk[e].booking = b
      BY <1>1
    <2>4. \A e \in Desks : (desk[e].booking = b => ReadFine(desk[e], b))'
      <3>1. ASSUME desk'[d].booking = b PROVE ReadFine(desk[d], b)'
        BY <1>1, <2>1, <3>1 DEF ReadFine
      <3>2. ASSUME NEW e \in Desks, e # d, desk'[e].booking = b PROVE ReadFine(desk[e], b)'
        BY <1>1, <2>1, <2>2, <3>2 DEF StayFine, ReadFine
      <3>3. QED
        BY <3>1, <3>2
    <2>5. (\A e \in Desks : desk'[e].booking = b => ~Writing(desk'[e])) => cached'[b] = netPaid(b)'
      <3> SUFFICES ASSUME \A e \in Desks : desk'[e].booking = b => ~Writing(desk'[e])
                   PROVE  cached[b] = netPaid(b)
        BY <2>1
      <3>1. desk[d].booking = b => ~Writing(desk[d])
        BY <1>1
      <3>2. \A e \in Desks : desk[e].booking = b => ~Writing(desk[e])
        BY <1>1, <3>1
      <3>3. QED
        BY <2>2, <3>2 DEF StayFine
    <2>6. QED
      BY <2>2, <2>3, <2>4, <2>5 DEF StayFine
  <1>5. QED
    BY <1>2, <1>3, <1>4 DEF FolioInv

\* A request ends.
LEMMA DoneKeeps ==
    ASSUME Null \notin Stays, FolioInv, NEW d \in Desks, Done(d), ~Writing(desk[d]),
           UNCHANGED <<lines, payments, cached, disturbed>>,
           stay' = stay \/ (DOMAIN stay' = Stays /\ LeavesPaidUp')
    PROVE  FolioInv'
  <1>1. RequestFine(AtRest) /\ AtRest.booking = Null
    BY DEF RequestFine, AtRest, Fields
  <1>2. ReadFine(AtRest, desk[d].booking)
    BY DEF ReadFine, AtRest
  <1>3. desk' = [desk EXCEPT ![d] = AtRest]
    BY DEF Done
  <1>4. QED
    BY <1>1, <1>2, <1>3, RequestKeeps

\* A request that has nothing half done goes on to its next step.
LEMMA GotoKeeps ==
    ASSUME Null \notin Stays, FolioInv, NEW d \in Desks, NEW pc, Goto(d, pc), ~Writing(desk[d]),
           pc \notin {"idle", "cache", "leave"},
           pc \in {"find", "insert", "sum", "gate"} => desk[d].op \in {"collect", "checkout", "depart"},
           pc = "gate" => desk[d].op # "collect",
           UNCHANGED <<lines, payments, cached, stay, disturbed>>
    PROVE  FolioInv'
  <1>1. PICK row : row = [desk[d] EXCEPT !.pc = pc]
    OBVIOUS
  <1>2. RequestFine(desk[d])
    BY DEF FolioInv, TablesFine
  <1>3. row.pc = pc /\ row.op = desk[d].op /\ row.booking = desk[d].booking /\ DOMAIN row = Fields
    BY <1>1, <1>2 DEF RequestFine, Fields
  <1>4. RequestFine(row) /\ ReadFine(row, desk[d].booking)
    BY <1>3 DEF RequestFine, ReadFine
  <1>5. desk' = [desk EXCEPT ![d] = row]
    BY <1>1 DEF Goto
  <1>6. QED
    BY <1>3, <1>4, <1>5, RequestKeeps

\* A line is posted, voided or taxed again: of the stay b, and of no other.
LEMMA LinesKeep ==
    ASSUME Null \notin Stays, FolioInv, NEW b, Disturbs(b),
           UNCHANGED <<payments, cached, stay, desk>>, DOMAIN lines' = Lines,
           \A l \in Lines :
              \/ lines'[l] = lines[l]
              \/ /\ lines[l] = Null \/ lines[l].booking = b
                 /\ lines'[l] = Null \/ lines'[l].booking = b,
           ChargedOncePerSource'
    PROVE  FolioInv'
  <1>1. TablesFine'
    BY DEF FolioInv, TablesFine
  <1>2. disturbed \subseteq disturbed' /\ (b \notin disturbed' => \A d \in Desks : desk[d].booking # b)
    BY DEF Disturbs
  <1>3. LeavesPaidUp'
    BY <1>2 DEF FolioInv, LeavesPaidUp
  <1>4. ASSUME NEW x \in Stays \ disturbed'
        PROVE  StayFine(x)'
    <2>1. StayFine(x)
      BY <1>2 DEF FolioInv
    <2>2. CASE x = b
      BY <1>2, <2>1, <2>2, IdleStayKept
    <2>3. CASE x # b
      <3>1. TablesFine
        BY DEF FolioInv
      <3>2. QED
        BY <2>1, <2>3, <3>1, OtherStayKept
    <2>4. QED
      BY <2>2, <2>3
  <1>5. QED
    BY <1>1, <1>3, <1>4 DEF FolioInv

\* A row is added, unless its source has one.
LEMMA PostKeeps ==
    ASSUME Null \notin Stays, Lines \subseteq Nat, FolioInv, NEW b \in Stays, NEW amount, NEW source,
           PostCharge(b, amount, source), CanPost(source), Disturbs(b),
           UNCHANGED <<payments, cached, stay, desk>>
    PROVE  FolioInv'
  <1>1. CASE LinePosted(source) # {}
    <2>1. lines' = lines
      BY <1>1 DEF PostCharge
    <2>2. DOMAIN lines' = Lines /\ ChargedOncePerSource'
      BY <2>1 DEF FolioInv, TablesFine, ChargedOncePerSource
    <2>3. QED
      BY <2>1, <2>2, LinesKeep
  <1>2. CASE LinePosted(source) = {}
    <2>1. PICK l \in FreeLines : l = Min(FreeLines)
      BY <1>2, FreeLine DEF CanPost
    <2>2. PICK row : row = [booking |-> b, amount |-> amount, tax |-> Taxed(amount, amount < 0),
                            exempt |-> amount < 0, source |-> source, voided |-> FALSE]
      OBVIOUS
    <2>3. row.booking = b /\ row.source = source
      BY <2>2
    <2>4. lines' = [lines EXCEPT ![l] = row]
      BY <1>2, <2>1, <2>2 DEF PostCharge
    <2>5. /\ DOMAIN lines' = Lines /\ l \in Lines /\ lines[l] = Null /\ lines'[l] = row
          /\ \A m \in Lines : m # l => lines'[m] = lines[m]
      BY <2>1, <2>4 DEF FreeLines, FolioInv, TablesFine
    <2>6. \A m \in Lines : lines[m] # Null /\ source # Null => lines[m].source # source
      BY <1>2 DEF LinePosted, FindLineBySource, FolioInv, TablesFine
    <2>7. ChargedOncePerSource'
      <3>1. ChargedOncePerSource /\ DOMAIN lines = Lines
        BY DEF FolioInv, TablesFine
      <3> SUFFICES ASSUME NEW x \in Lines, NEW y \in Lines, lines'[x] # Null, lines'[y] # Null,
                          lines'[x].source # Null, lines'[x].source = lines'[y].source
                   PROVE  x = y
        BY <2>5 DEF ChargedOncePerSource
      <3>2. CASE x # l /\ y # l
        BY <2>5, <3>1, <3>2 DEF ChargedOncePerSource
      <3>3. CASE x = l /\ y # l
        BY <2>3, <2>5, <2>6, <3>3
      <3>4. CASE x # l /\ y = l
        BY <2>3, <2>5, <2>6, <3>4
      <3>5. QED
        BY <3>2, <3>3, <3>4
    <2>8. QED
      BY <2>3, <2>5, <2>7, LinesKeep
  <1>3. QED
    BY <1>1, <1>2

\* A row keeps its stay and its source.
LEMMA RowKeeps ==
    ASSUME Null \notin Stays, FolioInv, NEW l \in Lines, NEW row, lines[l] # Null,
           row.booking = lines[l].booking, row.source = lines[l].source,
           lines' = [lines EXCEPT ![l] = row], Disturbs(lines[l].booking),
           UNCHANGED <<payments, cached, stay, desk>>
    PROVE  FolioInv'
  <1>1. /\ DOMAIN lines' = Lines /\ lines'[l] = row
        /\ \A m \in Lines : m # l => lines'[m] = lines[m]
    BY DEF FolioInv, TablesFine
  <1>2. ChargedOncePerSource'
    BY <1>1 DEF FolioInv, TablesFine, ChargedOncePerSource
  <1>3. PICK b : b = lines[l].booking
    OBVIOUS
  <1>4. QED
    BY <1>1, <1>2, <1>3, LinesKeep

-----------------------------------------------------------------------------
(* Accounts: one lemma for each action *)

\* A request begins alone on its stay, or disturbs it.
LEMMA BeginKeeps ==
    ASSUME Null \notin Stays, FolioInv, NEW d \in Desks, NEW op, NEW b \in Stays, NEW k, NEW p,
           Begin(d, op, b, k, p), op \in {"collect", "checkout", "depart"},
           p = Null => op # "collect"
    PROVE  FolioInv'
  <1>1. PICK row : row = [AtRest EXCEPT !.op = op, !.booking = b, !.key = k, !.pay = p,
                                        !.pc = IF p = Null THEN "gate" ELSE "find"]
    OBVIOUS
  <1>2. /\ row.op = op /\ row.booking = b /\ DOMAIN row = Fields
        /\ row.pc = IF p = Null THEN "gate" ELSE "find"
    BY <1>1 DEF AtRest, Fields
  <1>3. RequestFine(row) /\ ~Writing(row)
    BY <1>2 DEF RequestFine, Writing
  <1>4. desk' = [desk EXCEPT ![d] = row]
    BY <1>1 DEF Begin
  <1>5. /\ DOMAIN desk' = Desks /\ desk'[d] = row
        /\ \A e \in Desks : e # d => desk'[e] = desk[e]
    BY <1>4 DEF FolioInv, TablesFine
  <1>6. TablesFine'
    BY <1>3, <1>5 DEF FolioInv, TablesFine, Begin
  <1>7. /\ disturbed \subseteq disturbed'
        /\ b \notin disturbed' => \A e \in Desks : e # d => desk[e].booking # b
    BY DEF Begin, Rivals
  <1>8. DOMAIN stay' = Stays /\ LeavesPaidUp' /\ ChargedOncePerSource'
    BY <1>7 DEF FolioInv, LeavesPaidUp, ChargedOncePerSource, Begin
  <1>9. desk[d].booking = Null
    BY DEF FolioInv, TablesFine, RequestFine, Begin
  <1>10. ASSUME NEW x \in Stays \ disturbed'
         PROVE  StayFine(x)'
    <2>1. StayFine(x) /\ x # Null
      BY <1>7 DEF FolioInv
    <2>2. UNCHANGED <<lines, payments, cached>>
      BY DEF Begin
    <2>3. CASE x = b
      <3>1. \A e \in Desks : desk[e].booking # b
        BY <1>7, <1>9, <2>3
      <3>2. cached[b] = netPaid(b)
        BY <2>1, <2>3, <3>1 DEF StayFine
      <3>3. cached'[b] = netPaid(b)'
        BY <2>2, <3>2 DEF netPaid
      <3>4. \A e \in Desks : desk'[e].booking = b => e = d
        BY <1>5, <3>1
      <3>5. ReadFine(desk[d], b)'
        BY <1>2, <1>5 DEF ReadFine
      <3>6. \A e \in Desks : (desk[e].booking = b => ReadFine(desk[e], b))'
        BY <3>4, <3>5
      <3>7. QED
        BY <2>3, <3>3, <3>4, <3>6 DEF StayFine
    <2>4. CASE x # b
      <3>1. TablesFine /\ DOMAIN lines' = Lines
        BY <2>2 DEF FolioInv, TablesFine
      <3>2. \A e \in Desks : desk'[e] = desk[e] \/ (desk[e].booking # x /\ desk'[e].booking # x)
        BY <1>2, <1>5, <1>9, <2>1, <2>4
      <3>3. QED
        BY <2>1, <2>2, <3>1, <3>2, OtherStayKept
    <2>5. QED
      BY <2>3, <2>4
  <1>11. QED
    BY <1>6, <1>8, <1>10 DEF FolioInv

\* A payment is inserted once, and is still to be summed.
LEMMA InsertPaymentKeeps ==
    ASSUME Null \notin Stays, FolioInv, NEW d \in Desks, InsertPayment(d)
    PROVE  FolioInv'
  <1>1. PICK row : row = [desk[d] EXCEPT !.pc = "sum"]
    OBVIOUS
  <1>2. RequestFine(desk[d]) /\ desk[d].pc = "insert"
    BY DEF FolioInv, TablesFine, InsertPayment
  <1>3. /\ row.pc = "sum" /\ row.op = desk[d].op /\ row.booking = desk[d].booking
        /\ DOMAIN row = Fields
    BY <1>1, <1>2 DEF RequestFine, Fields
  <1>4. RequestFine(row) /\ Writing(row)
    BY <1>2, <1>3 DEF RequestFine, Writing
  <1>5. desk' = [desk EXCEPT ![d] = row]
    BY <1>1 DEF InsertPayment, Goto
  <1>6. /\ DOMAIN desk' = Desks /\ desk'[d] = row
        /\ \A e \in Desks : e # d => desk'[e] = desk[e]
    BY <1>5 DEF FolioInv, TablesFine
  <1>7. /\ DOMAIN payments' = Stays /\ \A b \in Stays : DOMAIN payments'[b] = Keys
        /\ \A b \in Stays : b # desk[d].booking => payments'[b] = payments[b]
    BY DEF FolioInv, TablesFine, InsertPayment
  <1>8. TablesFine' /\ UNCHANGED <<lines, cached, stay, disturbed>>
    BY <1>4, <1>6, <1>7 DEF FolioInv, TablesFine, InsertPayment
  <1>9. LeavesPaidUp' /\ ChargedOncePerSource'
    BY <1>8 DEF FolioInv, LeavesPaidUp, ChargedOncePerSource
  <1>10. ASSUME NEW x \in Stays \ disturbed
         PROVE  StayFine(x)'
    <2>1. StayFine(x)
      BY DEF FolioInv
    <2>2. CASE x = desk[d].booking
      <3>1. \A e \in Desks : desk'[e].booking = x => e = d
        BY <1>6, <2>1, <2>2 DEF StayFine
      <3>2. ReadFine(desk[d], x)'
        BY <1>3, <1>6 DEF ReadFine
      <3>3. \A e \in Desks : (desk[e].booking = x => ReadFine(desk[e], x))'
        BY <3>1, <3>2
      <3>4. desk'[d].booking = x /\ Writing(desk[d])'
        BY <1>3, <1>4, <1>6, <2>2 DEF Writing
      <3>5. QED
        BY <3>1, <3>3, <3>4 DEF StayFine
    <2>3. CASE x # desk[d].booking
      <3>1. TablesFine /\ DOMAIN lines' = Lines
        BY <1>8 DEF FolioInv, TablesFine
      <3>2. \A e \in Desks : desk'[e] = desk[e] \/ (desk[e].booking # x /\ desk'[e].booking # x)
        BY <1>3, <1>6, <2>3
      <3>3. QED
        BY <1>7, <1>8, <2>1, <2>3, <3>1, <3>2, OtherStayKept
    <2>4. QED
      BY <2>2, <2>3
  <1>11. QED
    BY <1>8, <1>9, <1>10 DEF FolioInv

\* Nothing half done is a payment that was found, or not.
LEMMA FindPaymentKeeps ==
    ASSUME Null \notin Stays, FolioInv, NEW d \in Desks, FindPaymentByKey(d)
    PROVE  FolioInv'
  <1>1. /\ desk[d].op \in {"collect", "checkout", "depart"} /\ ~Writing(desk[d])
        /\ UNCHANGED <<lines, payments, cached, stay, disturbed>>
    BY DEF FolioInv, TablesFine, RequestFine, FindPaymentByKey, Writing
  <1>2. Continue(d, AfterPayment(d)) \/ Goto(d, "insert")
    BY DEF FindPaymentByKey
  <1>3. CASE Goto(d, "insert")
    BY <1>1, <1>3, GotoKeeps
  <1>4. CASE Continue(d, AfterPayment(d))
    <2>1. /\ AfterPayment(d) \in {"gate", "done", "shift", "account"}
          /\ AfterPayment(d) = "gate" => desk[d].op # "collect"
      BY DEF AfterPayment
    <2>2. CASE AfterPayment(d) = "done"
      BY <1>1, <1>4, <2>2, DoneKeeps DEF Continue
    <2>3. CASE AfterPayment(d) # "done"
      <3>1. PICK pc : pc = AfterPayment(d)
        OBVIOUS
      <3>2. Goto(d, pc)
        BY <1>4, <2>3, <3>1 DEF Continue
      <3>3. QED
        BY <1>1, <2>1, <2>3, <3>1, <3>2, GotoKeeps
    <2>4. QED
      BY <2>2, <2>3
  <1>5. QED
    BY <1>2, <1>3, <1>4

\* The sum is that of the rows, and is written next.
LEMMA SumPaymentsKeeps ==
    ASSUME Null \notin Stays, FolioInv, NEW d \in Desks, SumPayments(d)
    PROVE  FolioInv'
  <1>1. PICK row : row = [desk[d] EXCEPT !.pc = "cache", !.seen = netPaid(desk[d].booking)]
    OBVIOUS
  <1>2. RequestFine(desk[d]) /\ desk[d].pc = "sum"
    BY DEF FolioInv, TablesFine, SumPayments
  <1>3. /\ row.pc = "cache" /\ row.op = desk[d].op /\ row.booking = desk[d].booking
        /\ row.seen = netPaid(desk[d].booking) /\ DOMAIN row = Fields
    BY <1>1, <1>2 DEF RequestFine, Fields
  <1>4. RequestFine(row) /\ Writing(row) /\ ReadFine(row, desk[d].booking)
    BY <1>2, <1>3 DEF RequestFine, Writing, ReadFine
  <1>5. desk' = [desk EXCEPT ![d] = row] /\ UNCHANGED <<lines, payments, cached, stay, disturbed>>
    BY <1>1 DEF SumPayments
  <1>6. QED
    BY <1>3, <1>4, <1>5, RequestKeeps

\* What is written is what the rows still say, where nobody disturbed them.
LEMMA WriteCacheKeeps ==
    ASSUME Null \notin Stays, FolioInv, NEW d \in Desks, WriteCache(d)
    PROVE  FolioInv'
  <1>1. RequestFine(desk[d]) /\ desk[d].pc = "cache" /\ Continue(d, AfterPayment(d))
    BY DEF FolioInv, TablesFine, WriteCache
  <1>2. PICK row :
           /\ desk' = [desk EXCEPT ![d] = row] /\ RequestFine(row) /\ row.pc \notin {"sum", "cache", "leave"}
           /\ row.booking \in {desk[d].booking, Null}
    <2>1. /\ AfterPayment(d) \in {"gate", "done", "shift", "account"}
          /\ AfterPayment(d) = "gate" => desk[d].op # "collect"
      BY DEF AfterPayment
    <2>2. CASE AfterPayment(d) = "done"
      <3>1. desk' = [desk EXCEPT ![d] = AtRest]
        BY <1>1, <2>2 DEF Continue, Done
      <3>2. RequestFine(AtRest) /\ AtRest.pc = "idle" /\ AtRest.booking = Null
        BY DEF RequestFine, AtRest, Fields
      <3>3. QED
        BY <3>1, <3>2
    <2>3. CASE AfterPayment(d) # "done"
      <3>1. PICK row : row = [desk[d] EXCEPT !.pc = AfterPayment(d)]
        OBVIOUS
      <3>2. desk' = [desk EXCEPT ![d] = row]
        BY <1>1, <2>3, <3>1 DEF Continue, Goto
      <3>3. /\ row.pc = AfterPayment(d) /\ row.op = desk[d].op
            /\ row.booking = desk[d].booking /\ DOMAIN row = Fields
        BY <1>1, <3>1 DEF RequestFine, Fields
      <3>4. RequestFine(row)
        BY <1>1, <2>1, <2>3, <3>3 DEF RequestFine
      <3>5. QED
        BY <2>1, <2>3, <3>2, <3>3, <3>4
    <2>4. QED
      BY <2>2, <2>3
  <1>3. /\ DOMAIN desk' = Desks /\ desk'[d] = row
        /\ \A e \in Desks : e # d => desk'[e] = desk[e]
    BY <1>2 DEF FolioInv, TablesFine
  <1>4. /\ cached' = [cached EXCEPT ![desk[d].booking] = desk[d].seen]
        /\ UNCHANGED <<lines, payments, stay, disturbed>>
    BY DEF WriteCache
  <1>5. TablesFine'
    BY <1>2, <1>3, <1>4 DEF FolioInv, TablesFine
  <1>6. LeavesPaidUp' /\ ChargedOncePerSource'
    BY <1>4 DEF FolioInv, LeavesPaidUp, ChargedOncePerSource
  <1>7. ASSUME NEW x \in Stays \ disturbed
        PROVE  StayFine(x)'
    <2>1. StayFine(x) /\ x # Null
      BY DEF FolioInv
    <2>2. CASE x = desk[d].booking
      <3>1. \A e \in Desks : desk[e].booking = x => e = d
        BY <2>1, <2>2 DEF StayFine
      <3>2. desk[d].seen = netPaid(x)
        BY <1>1, <2>1, <2>2 DEF StayFine, ReadFine
      <3>3. cached'[x] = netPaid(x)'
        BY <1>4, <2>2, <3>2 DEF netPaid, FolioInv, TablesFine
      <3>4. \A e \in Desks : desk'[e].booking = x => e = d
        BY <1>3, <3>1
      <3>5. ReadFine(desk[d], x)'
        BY <1>2, <1>3 DEF ReadFine
      <3>6. \A e \in Desks : (desk[e].booking = x => ReadFine(desk[e], x))'
        BY <3>4, <3>5
      <3>7. QED
        BY <3>3, <3>4, <3>6 DEF StayFine
    <2>3. CASE x # desk[d].booking
      <3>1. TablesFine /\ DOMAIN lines' = Lines /\ cached'[x] = cached[x]
        BY <1>4, <2>3 DEF FolioInv, TablesFine
      <3>2. \A e \in Desks : desk'[e] = desk[e] \/ (desk[e].booking # x /\ desk'[e].booking # x)
        BY <1>2, <1>3, <2>1, <2>3
      <3>3. QED
        BY <1>4, <2>1, <3>1, <3>2, OtherStayKept
    <2>4. QED
      BY <2>2, <2>3
  <1>8. QED
    BY <1>4, <1>5, <1>6, <1>7 DEF FolioInv

\* The gate lets through who owes nothing, and who may leave owing.
LEMMA GateKeeps ==
    ASSUME Null \notin Stays, FolioInv, NEW d \in Desks, Gate(d)
    PROVE  FolioInv'
  <1>1. /\ RequestFine(desk[d]) /\ desk[d].pc = "gate" /\ ~Writing(desk[d])
        /\ UNCHANGED <<lines, payments, cached, stay, disturbed>>
    BY DEF FolioInv, TablesFine, Gate, Writing
  <1>2. CASE balancePaise(desk[d].booking) > 0 /\ desk[d].op = "checkout"
    BY <1>1, <1>2, DoneKeeps DEF Gate, GateBalance
  <1>3. CASE ~(balancePaise(desk[d].booking) > 0 /\ desk[d].op = "checkout")
    <2>1. PICK row : row = [desk[d] EXCEPT !.pc = "leave", !.seen = GateBalance(desk[d].booking)]
      OBVIOUS
    <2>2. /\ row.pc = "leave" /\ row.op = desk[d].op /\ row.booking = desk[d].booking
          /\ DOMAIN row = Fields
      BY <1>1, <2>1 DEF RequestFine, Fields
    <2>3. RequestFine(row)
      BY <1>1, <2>2 DEF RequestFine
    <2>4. ReadFine(row, desk[d].booking)
      BY <1>3, <2>2 DEF ReadFine
    <2>5. desk' = [desk EXCEPT ![d] = row]
      BY <1>3, <2>1 DEF Gate, GateBalance
    <2>6. QED
      BY <1>1, <2>2, <2>3, <2>4, <2>5, RequestKeeps
  <1>4. QED
    BY <1>2, <1>3

\* Who leaves without an override owes what the gate has seen.
LEMMA LeaveKeeps ==
    ASSUME Null \notin Stays, FolioInv, NEW d \in Desks, Leave(d)
    PROVE  FolioInv'
  <1> DEFINE b == desk[d].booking
             gone == [out |-> TRUE, owed |-> balancePaise(b), overrode |-> desk[d].op = "depart"]
  <1>1. /\ desk[d].pc = "leave" /\ desk[d].op \in {"checkout", "depart"} /\ ~Writing(desk[d])
    BY DEF FolioInv, TablesFine, RequestFine, Leave, Writing
  <1>2. b \in Stays \ disturbed => ~(balancePaise(b) > 0) \/ desk[d].op = "depart"
    BY <1>1 DEF FolioInv, StayFine, ReadFine
  <1>3. gone.out /\ gone.owed = balancePaise(b) /\ gone.overrode = (desk[d].op = "depart")
    OBVIOUS
  <1>4. DOMAIN gone = {"out", "owed", "overrode"}
    OBVIOUS
  <1>5. stay' = [stay EXCEPT ![b] = gone] /\ Done(d) /\ UNCHANGED <<lines, payments, cached, disturbed>>
    BY DEF Leave
  <1> HIDE DEF gone, b
  <1>6. /\ DOMAIN stay' = Stays /\ (b \in Stays => stay'[b] = gone)
        /\ \A x \in Stays : x # b => stay'[x] = stay[x]
    BY <1>5 DEF FolioInv, TablesFine
  <1>7. LeavesPaidUp'
    BY <1>2, <1>3, <1>5, <1>6 DEF FolioInv, LeavesPaidUp
  <1>8. QED
    BY <1>1, <1>5, <1>6, <1>7, DoneKeeps

\* What only reads, or touches the drawer, the shifts or the account.
LEMMA DrawerKeeps ==
    ASSUME Null \notin Stays, FolioInv, NEW d \in Desks,
           \/ ChargeAccount(d) \/ openShiftFor(d) \/ RecordCash(d)
           \/ openShift(d) \/ InsertShift(d) \/ closeShift(d) \/ UpdateShift(d)
           \/ \E amount \in {-1, 1} : recordMovement(d, amount)
           \/ \E op \in {"open", "close"} : FindShift(d, op)
    PROVE  FolioInv'
  <1>1. RequestFine(desk[d])
    BY DEF FolioInv, TablesFine
  <1>2. UNCHANGED <<lines, payments, cached, stay, disturbed>> /\ ~Writing(desk[d])
    BY DEF ChargeAccount, openShiftFor, RecordCash, openShift, InsertShift, closeShift, UpdateShift,
           recordMovement, FindShift, Writing, purse
  <1>3. PICK row :
           /\ desk' = [desk EXCEPT ![d] = row]
           /\ row.pc \notin {"find", "insert", "sum", "cache", "gate", "leave"}
           /\ DOMAIN row = Fields /\ row.booking \in {desk[d].booking, Null}
           /\ row.pc = "idle" => row.booking = Null
    <2>1. CASE Done(d)
      <3>1. AtRest.pc = "idle" /\ AtRest.booking = Null /\ DOMAIN AtRest = Fields
        BY DEF AtRest, Fields
      <3>2. QED
        BY <2>1, <3>1 DEF Done
    <2>2. CASE openShiftFor(d)
      <3>1. PICK s : desk' = [desk EXCEPT ![d].pc = "drawer", ![d].shift = s]
        BY <2>2 DEF openShiftFor
      <3>2. PICK row : row = [desk[d] EXCEPT !.pc = "drawer", !.shift = s]
        OBVIOUS
      <3>3. desk' = [desk EXCEPT ![d] = row]
        BY <3>1, <3>2
      <3>4. row.pc = "drawer" /\ row.booking = desk[d].booking /\ DOMAIN row = Fields
        BY <1>1, <3>2 DEF RequestFine, Fields
      <3>5. QED
        BY <3>3, <3>4
    <2>3. CASE openShift(d) /\ ~Done(d)
      <3>1. PICK row : row = [desk[d] EXCEPT !.pc = "opening"]
        OBVIOUS
      <3>2. desk' = [desk EXCEPT ![d] = row]
        BY <2>3, <3>1 DEF openShift, Goto
      <3>3. row.pc = "opening" /\ row.booking = desk[d].booking /\ DOMAIN row = Fields
        BY <1>1, <3>1 DEF RequestFine, Fields
      <3>4. QED
        BY <3>2, <3>3
    <2>4. CASE closeShift(d) /\ ~Done(d)
      <3>1. PICK s : desk' = [desk EXCEPT ![d].pc = "closing", ![d].shift = s, ![d].seen = drawer[s]]
        BY <2>4 DEF closeShift
      <3>2. PICK row : row = [desk[d] EXCEPT !.pc = "closing", !.shift = s, !.seen = drawer[s]]
        OBVIOUS
      <3>3. desk' = [desk EXCEPT ![d] = row]
        BY <3>1, <3>2
      <3>4. row.pc = "closing" /\ row.booking = desk[d].booking /\ DOMAIN row = Fields
        BY <1>1, <3>2 DEF RequestFine, Fields
      <3>5. QED
        BY <3>3, <3>4
    <2>5. ASSUME NEW amount \in {-1, 1}, recordMovement(d, amount)
          PROVE  \E row :
                    /\ desk' = [desk EXCEPT ![d] = row]
                    /\ row.pc \notin {"find", "insert", "sum", "cache", "gate", "leave"}
                    /\ DOMAIN row = Fields /\ row.booking \in {desk[d].booking, Null}
                    /\ row.pc = "idle" => row.booking = Null
      <3>1. PICK row : row = [AtRest EXCEPT !.op = "movement", !.pc = "shift", !.seen = amount]
        OBVIOUS
      <3>2. row.pc = "shift" /\ row.booking = Null /\ DOMAIN row = Fields
        BY <3>1 DEF AtRest, Fields
      <3>3. desk' = [desk EXCEPT ![d] = row]
        BY <2>5, <3>1 DEF recordMovement
      <3>4. QED
        BY <3>2, <3>3
    <2>6. ASSUME NEW op \in {"open", "close"}, FindShift(d, op)
          PROVE  \E row :
                    /\ desk' = [desk EXCEPT ![d] = row]
                    /\ row.pc \notin {"find", "insert", "sum", "cache", "gate", "leave"}
                    /\ DOMAIN row = Fields /\ row.booking \in {desk[d].booking, Null}
                    /\ row.pc = "idle" => row.booking = Null
      <3>1. PICK row : row = [AtRest EXCEPT !.op = op, !.pc = op]
        OBVIOUS
      <3>2. row.pc = op /\ row.booking = Null /\ DOMAIN row = Fields
        BY <3>1 DEF AtRest, Fields
      <3>3. desk' = [desk EXCEPT ![d] = row]
        BY <2>6, <3>1 DEF FindShift
      <3>4. QED
        BY <3>2, <3>3
    <2>7. Done(d) \/ openShiftFor(d) \/ (openShift(d) /\ ~Done(d)) \/ (closeShift(d) /\ ~Done(d))
          \/ (\E amount \in {-1, 1} : recordMovement(d, amount))
          \/ (\E op \in {"open", "close"} : FindShift(d, op))
      BY DEF ChargeAccount, RecordCash, InsertShift, UpdateShift
    <2>8. QED
      BY <2>1, <2>2, <2>3, <2>4, <2>5, <2>6, <2>7
  <1>4. RequestFine(row) /\ ReadFine(row, desk[d].booking)
    BY <1>3 DEF RequestFine, ReadFine
  <1>5. QED
    BY <1>2, <1>3, <1>4, RequestKeeps

LEMMA FolioStepKeeps ==
    ASSUME Null \notin Stays, Lines \subseteq Nat, Null \notin PaymentRows(PayMethods, Sums),
           FolioInv, [FolioNext]_folioVars
    PROVE  FolioInv'
  <1>1. ASSUME NEW b \in Stays, Charge(b) \/ applyDiscount(b)
        PROVE  FolioInv'
    <2>1. CanPost(Null)
      BY <1>1 DEF Charge, applyDiscount, CanPost
    <2>2. QED
      BY <1>1, <2>1, PostKeeps DEF Charge, applyDiscount, purse
  <1>2. ASSUME NEW b \in Stays, NEW source \in Sources, ChargeForSource(b, source)
        PROVE  FolioInv'
    BY <1>2, PostKeeps DEF ChargeForSource, purse
  <1>3. ASSUME NEW l \in Lines, voidLine(l)
        PROVE  FolioInv'
    <2>1. PICK row : row = [lines[l] EXCEPT !.voided = TRUE]
      OBVIOUS
    <2>2. row.booking = lines[l].booking /\ row.source = lines[l].source
      BY <2>1
    <2>3. lines' = [lines EXCEPT ![l] = row]
      BY <1>3, <2>1 DEF voidLine
    <2>4. QED
      BY <1>3, <2>2, <2>3, RowKeeps DEF voidLine, purse
  <1>4. ASSUME NEW l \in Lines, NEW exempt \in BOOLEAN, setLineTaxExempt(l, exempt)
        PROVE  FolioInv'
    <2>1. PICK row : row = [lines[l] EXCEPT !.exempt = exempt, !.tax = Taxed(lines[l].amount, exempt)]
      OBVIOUS
    <2>2. row.booking = lines[l].booking /\ row.source = lines[l].source
      BY <2>1
    <2>3. lines' = [lines EXCEPT ![l] = row]
      BY <1>4, <2>1 DEF setLineTaxExempt
    <2>4. QED
      BY <1>4, <2>2, <2>3, RowKeeps DEF setLineTaxExempt, purse
  <1>5. ASSUME NEW d \in Desks, NEW b \in Stays, NEW k \in Keys,
               NEW p \in PaymentRows(PayMethods, Sums), collectPayment(d, b, k, p)
        PROVE  FolioInv'
    BY <1>5, BeginKeeps DEF collectPayment
  <1>6. ASSUME NEW d \in Desks, NEW b \in Stays, NEW k \in Keys,
               NEW p \in PaymentRows(PayMethods, Sums) \cup {Null}, NEW o \in BOOLEAN,
               checkOut(d, b, k, p, o)
        PROVE  FolioInv'
    <2>1. Begin(d, "depart", b, k, p) \/ Begin(d, "checkout", b, k, p)
      BY <1>6 DEF checkOut
    <2>2. QED
      BY <2>1, BeginKeeps
  <1>7. ASSUME NEW d \in Desks, FindPaymentByKey(d) \/ InsertPayment(d) \/ SumPayments(d) \/ WriteCache(d)
        PROVE  FolioInv'
    BY <1>7, FindPaymentKeeps, InsertPaymentKeeps, SumPaymentsKeeps, WriteCacheKeeps
  <1>8. ASSUME NEW d \in Desks, Gate(d) \/ Leave(d)
        PROVE  FolioInv'
    BY <1>8, GateKeeps, LeaveKeeps
  <1>9. CASE payAccount \/ UNCHANGED folioVars
    <2>1. UNCHANGED <<lines, payments, cached, stay, desk, disturbed>>
      BY <1>9 DEF payAccount, folioVars
    <2>2. QED
      BY <2>1 DEF FolioInv, TablesFine, StayFine, ReadFine, Writing, RequestFine, LeavesPaidUp,
                  ChargedOncePerSource, netPaid, balancePaise, LinesOn, LineTotal
  <1>10. QED
    BY <1>1, <1>2, <1>3, <1>4, <1>5, <1>6, <1>7, <1>8, <1>9, DrawerKeeps DEF FolioNext

LEMMA FolioStartsFine ==
    ASSUME Null \notin Stays, IsFiniteSet(Keys), FolioInit
    PROVE  FolioInv
  <1>1. /\ desk = [d \in Desks |-> AtRest] /\ lines = [l \in Lines |-> Null]
        /\ payments = [b \in Stays |-> [k \in Keys |-> Null]] /\ cached = [b \in Stays |-> 0]
        /\ stay = [b \in Stays |-> [out |-> FALSE, owed |-> 0, overrode |-> FALSE]]
    BY DEF FolioInit
  <1>2. RequestFine(AtRest) /\ AtRest.booking = Null
    BY DEF RequestFine, AtRest, Fields
  <1>3. TablesFine /\ LeavesPaidUp /\ ChargedOncePerSource
    BY <1>1, <1>2 DEF TablesFine, LeavesPaidUp, ChargedOncePerSource
  <1>4. ASSUME NEW b \in Stays
        PROVE  StayFine(b)
    <2>1. [k \in DOMAIN payments[b] |-> Signed(payments[b][k])] = [k \in Keys |-> 0]
      BY <1>1 DEF Signed
    <2>2. netPaid(b) = 0
      BY <2>1, NoughtsSumToNought DEF netPaid
    <2>3. \A d \in Desks : desk[d].booking # b
      BY <1>1, <1>2
    <2>4. QED
      BY <1>1, <2>2, <2>3 DEF StayFine
  <1>5. QED
    BY <1>1, <1>3, <1>4 DEF FolioInv

\* However charges, payments, refunds and check-outs cross: the cached paid amount is
\* that of the rows, a source is charged once, and who leaves without an override
\* owes nothing, wherever no two requests were on the folio at once.
THEOREM AccountsAddUp ==
    ASSUME Null \notin Stays, Lines \subseteq Nat, IsFiniteSet(Keys),
           Null \notin PaymentRows(PayMethods, Sums)
    PROVE  FolioSpec => []GuestAccountsAddUp
  <1>1. FolioInit => FolioInv
    BY FolioStartsFine
  <1>2. FolioInv /\ [FolioNext]_folioVars => FolioInv'
    BY FolioStepKeeps
  <1>3. FolioInv => GuestAccountsAddUp
    <2> SUFFICES ASSUME FolioInv PROVE GuestAccountsAddUp
      OBVIOUS
    <2>1. CacheIsNetUnlessDisturbed
      BY DEF FolioInv, TablesFine, StayFine, CacheIsNetUnlessDisturbed, Working
    <2>2. QED
      BY <2>1 DEF FolioInv, GuestAccountsAddUp
  <1>4. QED
    BY <1>1, <1>2, <1>3, PTL DEF FolioSpec

-----------------------------------------------------------------------------
(* Turnover: what is in the tables *)

USE CountsAssumption, HorizonAssumption, TypeOfAssumption, NullAssumption
    DEF Bookings, Rooms, Days

OffTheBoard == {"OUT_OF_ORDER", "MAINTENANCE"}

TaskCalls == [table : {"tasks"}, id : Nat, move : DOMAIN TaskMoves, before : Tasks]
OrderCalls == [table : {"orders"}, id : Nat, move : DOMAIN OrderMoves, before : Orders]

\* The tables and the calls in flight are typed.
Typed ==
    /\ resv \in [Bookings -> Rows]
    /\ roomStatus \in [Rooms -> RoomStatuses]
    /\ tasks \in Seq(Tasks) /\ orders \in Seq(Orders)
    /\ call \in [Staff -> {NoCall} \cup TaskCalls \cup OrderCalls]

\* A call in flight is about a row that is still there, and about its room.
CallsKnown ==
    \A s \in Staff :
        /\ call[s] \in TaskCalls =>
              /\ call[s].id \in DOMAIN tasks
              /\ call[s].before.room = tasks[call[s].id].room
        /\ call[s] \in OrderCalls =>
              /\ call[s].id \in DOMAIN orders
              /\ call[s].before.room = orders[call[s].id].room
              /\ call[s].before.takesOut = orders[call[s].id].takesOut

HouseInv == Typed /\ CallsKnown /\ OwedRoomHasTask /\ NoRoomStranded

-----------------------------------------------------------------------------
(* Turnover: moves *)

\* A task's move gives it a status of the map and puts its room on the board; but for
\* an inspection, the task stays open.
LEMMA TaskMovesKnown ==
    \A m \in DOMAIN TaskMoves :
        /\ TaskMoves[m].to \in DOMAIN TaskTransitions
        /\ TaskMoves[m].room \in RoomStatuses \ OffTheBoard
        /\ m \notin {"pass", "fail"} => TaskMoves[m].to \in OpenTask
  BY DEF TaskMoves, TaskTransitions, RoomStatuses, OffTheBoard, OpenTask

\* An order's move that ends it puts its room on the board, and no other takes the
\* room anywhere but off it.
LEMMA OrderMovesKnown ==
    \A m \in DOMAIN OrderMoves :
        /\ OrderMoves[m].to \in DOMAIN OrderTransitions
        /\ OrderMoves[m].room \in RoomStatuses \cup {Null}
        /\ \/ OrderTransitions[OrderMoves[m].to] # {}
           \/ OrderMoves[m].room = "DIRTY"
  <1>1. \A m \in DOMAIN OrderMoves : m \in {"accept", "start", "pause", "complete", "cancel"}
    BY DEF OrderMoves
  <1>2. /\ OrderTransitions["ACCEPTED"] # {} /\ OrderTransitions["IN_PROGRESS"] # {}
        /\ OrderTransitions["PAUSED"] # {}
        /\ {"ACCEPTED", "IN_PROGRESS", "PAUSED", "COMPLETED", "CANCELLED"}
             \subseteq DOMAIN OrderTransitions
    BY DEF OrderTransitions
  <1>3. \A m \in DOMAIN OrderMoves :
           \/ m = "accept" /\ OrderMoves[m] = [to |-> "ACCEPTED", room |-> "MAINTENANCE"]
           \/ m = "start" /\ OrderMoves[m] = [to |-> "IN_PROGRESS", room |-> Null]
           \/ m = "pause" /\ OrderMoves[m] = [to |-> "PAUSED", room |-> Null]
           \/ m = "complete" /\ OrderMoves[m] = [to |-> "COMPLETED", room |-> "DIRTY"]
           \/ m = "cancel" /\ OrderMoves[m] = [to |-> "CANCELLED", room |-> "DIRTY"]
    BY <1>1 DEF OrderMoves
  <1>4. QED
    BY <1>2, <1>3 DEF RoomStatuses

-----------------------------------------------------------------------------
(* Turnover: the desk *)

\* What a desk request does to the tables it shares with housekeeping: rooms only
\* come onto the board.
DeskStep ==
    /\ resv' \in [Bookings -> Rows]
    /\ roomStatus' \in [Rooms -> RoomStatuses]
    /\ \A r \in Rooms : roomStatus'[r] \in OffTheBoard => roomStatus[r] \in OffTheBoard

\* Running a plan of typed rows that puts rooms on the board.
LEMMA ExecuteIsDeskStep ==
    ASSUME NEW p, Typed, R!Execute(p),
           \A b \in DOMAIN p.rows : p.rows[b] \in Rows,
           \A r \in DOMAIN p.rooms : p.rooms[r] \in RoomStatuses \ OffTheBoard
    PROVE  DeskStep
  BY DEF Typed, DeskStep, R!Execute, R!Bookings, R!Rooms

\* A booking that is read is a row.
LEMMA ReadRow ==
    ASSUME Typed, NEW id \in Bookings
    PROVE  /\ resv[id] \in Rows /\ resv[id].ci \in Days /\ resv[id].co \in Days
           /\ resv[id].room \in Rooms \cup {Null}
  BY DEF Typed, Rows

\* checkOut() leaves the room DIRTY.
LEMMA CheckOutIsDeskStep ==
    ASSUME Typed, NEW id \in Bookings, R!CheckOut(id)
    PROVE  DeskStep
  <1> DEFINE p == R!CheckOutPlan(id)
  <1>1. /\ DOMAIN p.rows = {id} /\ p.rows[id] = [resv[id] EXCEPT !.status = "CHECKED_OUT"]
        /\ \A r \in DOMAIN p.rooms : p.rooms[r] = "DIRTY"
    BY DEF R!CheckOutPlan, R!PlanFor, R!Plan
  <1>2. p.rows[id] \in Rows
    BY <1>1, ReadRow DEF Rows, Statuses
  <1>3. R!Execute(p)
    BY DEF R!CheckOut
  <1> HIDE DEF p
  <1>4. QED
    BY <1>1, <1>2, <1>3, ExecuteIsDeskStep DEF RoomStatuses, OffTheBoard

\* checkIn() leaves it OCCUPIED.
LEMMA CheckInIsDeskStep ==
    ASSUME Typed, NEW id \in Bookings, R!CheckIn(id)
    PROVE  DeskStep
  <1>1. PICK named \in Rooms \cup {Null} :
           R!CanCheckIn(id, named) /\ R!Execute(R!CheckInPlan(id, named))
    BY DEF R!CheckIn, R!Rooms
  <1> DEFINE p == R!CheckInPlan(id, named)
             r == R!OrElse(named, resv[id].room)
  <1>2. r \in Rooms
    BY <1>1, ReadRow DEF R!CanCheckIn, R!OrElse
  <1>3. /\ DOMAIN p.rows = {id}
        /\ p.rows[id] = [resv[id] EXCEPT !.status = "CHECKED_IN", !.room = r]
        /\ \A x \in DOMAIN p.rooms : p.rooms[x] = "OCCUPIED"
    BY DEF R!CheckInPlan, R!PlanFor, R!Plan
  <1>4. p.rows[id] \in Rows
    <2> HIDE DEF p, r
    <2>1. QED
      BY <1>2, <1>3, ReadRow DEF Rows, Statuses
  <1> HIDE DEF p, r
  <1>5. QED
    BY <1>1, <1>3, <1>4, ExecuteIsDeskStep DEF RoomStatuses, OffTheBoard, p

\* moveRoom() leaves the one DIRTY and the other OCCUPIED.
LEMMA MoveIsDeskStep ==
    ASSUME Typed, NEW id \in Bookings, R!MoveRoom(id)
    PROVE  DeskStep
  <1>1. PICK r \in Rooms : R!CanMove(id, r) /\ R!Execute(R!MovePlan(id, r))
    BY DEF R!MoveRoom, R!Rooms
  <1> DEFINE p == R!MovePlan(id, r)
             n == R!nightsBetween(resv[id].ci, resv[id].co)
  <1>2. n \in Nat /\ TypeOf[r] \in Types
    BY ReadRow DEF R!nightsBetween
  <1>3. /\ DOMAIN p.rows = {id}
        /\ p.rows[id] = [resv[id] EXCEPT !.room = r, !.type = TypeOf[r], !.nights = n]
        /\ \A x \in DOMAIN p.rooms : p.rooms[x] \in {"OCCUPIED", "DIRTY"}
    BY DEF R!MovePlan, R!PlanFor, R!Plan
  <1>4. p.rows[id] \in Rows
    <2> HIDE DEF p, n
    <2>1. QED
      BY <1>2, <1>3, ReadRow DEF Rows
  <1> HIDE DEF p, n
  <1>5. QED
    BY <1>1, <1>3, <1>4, ExecuteIsDeskStep DEF RoomStatuses, OffTheBoard, p

\* extendStay() and swapRooms() write no room status.
LEMMA ExtendIsDeskStep ==
    ASSUME Typed, NEW id \in Bookings, R!ExtendStay(id)
    PROVE  DeskStep
  <1>1. PICK co \in Days : R!Execute(R!ExtendPlan(id, co))
    BY DEF R!ExtendStay, R!Days
  <1> DEFINE p == R!ExtendPlan(id, co)
             n == R!nightsBetween(resv[id].ci, co)
  <1>2. n \in Nat
    BY ReadRow DEF R!nightsBetween
  <1>3. /\ DOMAIN p.rows = {id} /\ p.rows[id] = [resv[id] EXCEPT !.co = co, !.nights = n]
        /\ DOMAIN p.rooms = {}
    BY DEF R!ExtendPlan, R!PlanFor, R!Plan, R!NoRooms
  <1>4. p.rows[id] \in Rows
    <2> HIDE DEF p, n
    <2>1. QED
      BY <1>2, <1>3, ReadRow DEF Rows
  <1> HIDE DEF p, n
  <1>5. QED
    BY <1>1, <1>3, <1>4, ExecuteIsDeskStep DEF p

LEMMA SwapIsDeskStep ==
    ASSUME Typed, NEW a \in Bookings, NEW b \in Bookings, R!SwapRooms(a, b)
    PROVE  DeskStep
  <1> DEFINE p == R!SwapPlan(a, b)
  <1>1. /\ DOMAIN p.rows = {a, b}
        /\ p.rows[a] = [resv[a] EXCEPT !.room = resv[b].room]
        /\ p.rows[b] = [resv[b] EXCEPT !.room = resv[a].room]
        /\ DOMAIN p.rooms = {}
    BY DEF R!SwapPlan, R!Plan, R!NoRooms
  <1>2. R!Execute(p)
    BY DEF R!SwapRooms
  <1> HIDE DEF p
  <1>3. p.rows[a] \in Rows /\ p.rows[b] \in Rows
    BY <1>1, ReadRow DEF Rows
  <1>4. QED
    BY <1>1, <1>2, <1>3, ExecuteIsDeskStep

-----------------------------------------------------------------------------
(* Turnover: what a step keeps *)

\* Rows stay where they are, about the room they were raised for.
TasksKept ==
    \A i \in DOMAIN tasks : i \in DOMAIN tasks' /\ tasks'[i].room = tasks[i].room

OrdersKept ==
    \A i \in DOMAIN orders : /\ i \in DOMAIN orders'
                             /\ orders'[i].room = orders[i].room
                             /\ orders'[i].takesOut = orders[i].takesOut

\* No call is in both tables, and nobody in flight is in either.
LEMMA CallsApart ==
    /\ NoCall \notin TaskCalls /\ NoCall \notin OrderCalls
    /\ \A c \in TaskCalls : c.table = "tasks" /\ c \notin OrderCalls
    /\ \A c \in OrderCalls : c.table = "orders"
  BY DEF NoCall, TaskCalls, OrderCalls

\* Calls that end, or that go on, stay about the room they were made for.
LEMMA CallsKept ==
    ASSUME CallsKnown, TasksKept, OrdersKept,
           \A s \in Staff : call'[s] \in {call[s], NoCall}
    PROVE  CallsKnown'
  BY CallsApart DEF CallsKnown, TasksKept, OrdersKept

\* A step that closes no task of a room that is owed one.
LEMMA OwedKept ==
    ASSUME OwedRoomHasTask, TasksKept, owed' \subseteq owed,
           \A i \in DOMAIN tasks :
              tasks[i].room \in owed' /\ tasks[i].status \in OpenTask
              => tasks'[i].status \in OpenTask
    PROVE  OwedRoomHasTask'
  BY DEF OwedRoomHasTask, TasksKept, OpenTasks

\* A step that leaves the orders alone, and takes no room off the board.
LEMMA StrandedKept ==
    ASSUME NoRoomStranded, orders' = orders,
           \A r \in Rooms : roomStatus'[r] \in OffTheBoard => roomStatus[r] \in OffTheBoard
    PROVE  NoRoomStranded'
  BY DEF NoRoomStranded, ActiveOrders, OffTheBoard

\* A room off the board has an active order, once an order is shown for it.
LEMMA BoardFrom ==
    ASSUME \A r \in Rooms :
              roomStatus'[r] \in OffTheBoard
              => \E i \in DOMAIN orders' : /\ orders'[i].room = r /\ orders'[i].takesOut
                                           /\ OrderTransitions[orders'[i].status] # {}
    PROVE  NoRoomStranded'
  <1> SUFFICES ASSUME NEW r \in Rooms, roomStatus'[r] \in OffTheBoard
               PROVE  ActiveOrders(r)' # {}
    BY DEF NoRoomStranded, OffTheBoard
  <1>1. PICK i \in DOMAIN orders' : /\ orders'[i].room = r /\ orders'[i].takesOut
                                    /\ OrderTransitions[orders'[i].status] # {}
    OBVIOUS
  <1>2. i \in ActiveOrders(r)'
    BY <1>1 DEF ActiveOrders
  <1>3. QED
    BY <1>2

\* A table with rows added at its end.
LEMMA RowsAdded ==
    ASSUME NEW S, NEW t \in Seq(S), NEW more \in Seq(S)
    PROVE  /\ t \o more \in Seq(S)
           /\ \A j \in DOMAIN t : j \in DOMAIN (t \o more) /\ (t \o more)[j] = t[j]
           /\ \A j \in DOMAIN more : /\ Len(t) + j \in DOMAIN (t \o more)
                                     /\ (t \o more)[Len(t) + j] = more[j]
  <1>1. /\ t \o more \in Seq(S) /\ Len(t \o more) = Len(t) + Len(more)
        /\ \A i \in 1 .. Len(t) + Len(more) :
              (t \o more)[i] = IF i <= Len(t) THEN t[i] ELSE more[i - Len(t)]
    BY ConcatProperties
  <1>2. /\ DOMAIN t = 1 .. Len(t) /\ Len(t) \in Nat
        /\ DOMAIN more = 1 .. Len(more) /\ Len(more) \in Nat
        /\ DOMAIN (t \o more) = 1 .. Len(t \o more)
    BY <1>1, LenProperties
  <1> HIDE DEF Bookings, Rooms, Days
  <1>3. QED
    BY <1>1, <1>2

-----------------------------------------------------------------------------
(* Turnover: one lemma for each action *)

\* What a handler's row is: the call in flight, typed.
LEMMA TaskCall ==
    ASSUME HouseInv, NEW s \in Staff, call[s].table = "tasks"
    PROVE  /\ call[s] \in TaskCalls
           /\ call[s].id \in DOMAIN tasks
           /\ call[s].before.room = tasks[call[s].id].room
  BY CallsApart DEF HouseInv, Typed, CallsKnown, NoCall, OrderCalls

LEMMA OrderCall ==
    ASSUME HouseInv, NEW s \in Staff, call[s].table = "orders"
    PROVE  /\ call[s] \in OrderCalls
           /\ call[s].id \in DOMAIN orders
           /\ call[s].before.room = orders[call[s].id].room
           /\ call[s].before.takesOut = orders[call[s].id].takesOut
  BY CallsApart DEF HouseInv, Typed, CallsKnown, NoCall, TaskCalls

\* A row of a table is typed.
LEMMA TableRows ==
    ASSUME Typed
    PROVE  /\ \A i \in DOMAIN tasks : tasks[i] \in Tasks
           /\ \A i \in DOMAIN orders : orders[i] \in Orders
           /\ DOMAIN tasks \subseteq Nat /\ DOMAIN orders \subseteq Nat
  BY LenProperties, ElementOfSeq DEF Typed

\* A task is raised: by hand, after a check-out or after a failed inspection.
LEMMA NewTaskIsTask ==
    ASSUME NEW r \in Rooms, NEW auto \in BOOLEAN, NEW t \in Staff \cup {Null}
    PROVE  /\ <<NewTask(r, auto, t)>> \in Seq(Tasks)
           /\ NewTask(r, auto, t).room = r /\ NewTask(r, auto, t).status \in OpenTask
  BY DEF NewTask, Tasks, TaskTransitions, OpenTask

\* The tables when tasks are only added.
LEMMA AddingTasks ==
    ASSUME HouseInv, NEW more \in Seq(Tasks), tasks' = tasks \o more
    PROVE  /\ tasks' \in Seq(Tasks) /\ TasksKept
           /\ \A i \in DOMAIN tasks : tasks'[i] = tasks[i]
           /\ \A j \in DOMAIN more : /\ Len(tasks) + j \in DOMAIN tasks'
                                     /\ tasks'[Len(tasks) + j] = more[j]
  <1>1. tasks \in Seq(Tasks)
    BY DEF HouseInv, Typed
  <1>2. /\ tasks \o more \in Seq(Tasks)
        /\ \A i \in DOMAIN tasks : i \in DOMAIN (tasks \o more) /\ (tasks \o more)[i] = tasks[i]
        /\ \A j \in DOMAIN more : /\ Len(tasks) + j \in DOMAIN (tasks \o more)
                                  /\ (tasks \o more)[Len(tasks) + j] = more[j]
    BY <1>1, RowsAdded
  <1>3. /\ tasks' \in Seq(Tasks)
        /\ \A i \in DOMAIN tasks : i \in DOMAIN tasks' /\ tasks'[i] = tasks[i]
        /\ \A j \in DOMAIN more : /\ Len(tasks) + j \in DOMAIN tasks'
                                  /\ tasks'[Len(tasks) + j] = more[j]
    BY <1>2
  <1> QED
    BY <1>3, Zenon DEF TasksKept

LEMMA RaiseTaskKeeps ==
    ASSUME HouseInv, NEW s \in Staff, NEW r \in Rooms, RaiseTask(s, r)
    PROVE  HouseInv'
  <1>1. PICK t \in Staff \cup {Null} : tasks' = Append(tasks, NewTask(r, FALSE, t))
    BY DEF RaiseTask
  <1> DEFINE more == <<NewTask(r, FALSE, t)>>
  <1>2. more \in Seq(Tasks) /\ NewTask(r, FALSE, t) \in Tasks
    BY NewTaskIsTask DEF NewTask, Tasks, TaskTransitions
  <1>3. tasks' = tasks \o more
    BY <1>1, <1>2, AppendIsConcat DEF HouseInv, Typed
  <1> HIDE DEF more
  <1>4. /\ tasks' \in Seq(Tasks) /\ TasksKept
        /\ \A i \in DOMAIN tasks : tasks'[i] = tasks[i]
    BY <1>2, <1>3, AddingTasks
  <1>5. Typed'
    BY <1>4 DEF HouseInv, Typed, RaiseTask, vars
  <1>6. CallsKnown'
    BY <1>4, CallsKept DEF HouseInv, RaiseTask, OrdersKept
  <1>7. OwedRoomHasTask'
    BY <1>4, OwedKept DEF HouseInv, RaiseTask
  <1>8. NoRoomStranded'
    BY StrandedKept DEF HouseInv, RaiseTask, vars
  <1>9. QED
    BY <1>5, <1>6, <1>7, <1>8 DEF HouseInv

LEMMA AssignTaskKeeps ==
    ASSUME HouseInv, NEW s \in Staff, NEW id \in DOMAIN tasks, AssignTask(s, id)
    PROVE  HouseInv'
  <1>1. PICK t \in Staff : tasks' = [tasks EXCEPT ![id].assignee = t]
    BY DEF AssignTask
  <1>2. [tasks[id] EXCEPT !.assignee = t] \in Tasks
    BY TableRows DEF HouseInv, Tasks
  <1>3. /\ tasks' = [tasks EXCEPT ![id] = [tasks[id] EXCEPT !.assignee = t]]
        /\ id \in 1 .. Len(tasks)
    BY <1>1, LenProperties DEF HouseInv, Typed
  <1>4. tasks' \in Seq(Tasks)
    BY <1>2, <1>3, ExceptSeq DEF HouseInv, Typed
  <1>5. /\ DOMAIN tasks' = DOMAIN tasks
        /\ \A i \in DOMAIN tasks : /\ tasks'[i].room = tasks[i].room
                                   /\ tasks'[i].status = tasks[i].status
    BY <1>1, TableRows DEF HouseInv, Tasks
  <1>6. TasksKept
    BY <1>5 DEF TasksKept
  <1>7. Typed'
    BY <1>4 DEF HouseInv, Typed, AssignTask, vars
  <1>8. CallsKnown'
    BY <1>6, CallsKept DEF HouseInv, AssignTask, OrdersKept
  <1>9. OwedRoomHasTask'
    BY <1>5, <1>6, OwedKept DEF HouseInv, AssignTask
  <1>10. NoRoomStranded'
    BY StrandedKept DEF HouseInv, AssignTask, vars
  <1>11. QED
    BY <1>7, <1>8, <1>9, <1>10 DEF HouseInv

\* A handler that reads a row writes nothing.
LEMMA ReadKeeps ==
    ASSUME HouseInv, UNCHANGED <<vars, tasks, orders, owed, untouched>>,
           Typed', CallsKnown'
    PROVE  HouseInv'
  BY DEF HouseInv, vars, OwedRoomHasTask, NoRoomStranded, OpenTasks, ActiveOrders

LEMMA ReadTaskKeeps ==
    ASSUME HouseInv, NEW s \in Staff, NEW id \in DOMAIN tasks,
           NEW move \in DOMAIN TaskMoves, ReadTask(s, id, move)
    PROVE  HouseInv'
  <1> DEFINE c == [table |-> "tasks", id |-> id, move |-> move, before |-> tasks[id]]
  <1>1. c \in TaskCalls /\ c.id = id /\ c.before = tasks[id]
    BY TableRows DEF HouseInv, TaskCalls
  <1>2. call' = [call EXCEPT ![s] = c]
    BY DEF ReadTask
  <1> HIDE DEF c
  <1>3. /\ call' \in [Staff -> {NoCall} \cup TaskCalls \cup OrderCalls]
        /\ \A m \in Staff : call'[m] = IF m = s THEN c ELSE call[m]
    BY <1>1, <1>2 DEF HouseInv, Typed
  <1>4. Typed'
    BY <1>3 DEF HouseInv, Typed, ReadTask, vars
  <1>5. CallsKnown'
    BY <1>1, <1>3, CallsApart DEF HouseInv, CallsKnown, ReadTask
  <1>6. QED
    BY <1>4, <1>5, ReadKeeps DEF ReadTask

LEMMA ReadOrderKeeps ==
    ASSUME HouseInv, NEW s \in Staff, NEW id \in DOMAIN orders,
           NEW move \in DOMAIN OrderMoves, ReadOrder(s, id, move)
    PROVE  HouseInv'
  <1> DEFINE c == [table |-> "orders", id |-> id, move |-> move, before |-> orders[id]]
  <1>1. c \in OrderCalls /\ c.id = id /\ c.before = orders[id]
    BY TableRows DEF HouseInv, OrderCalls
  <1>2. call' = [call EXCEPT ![s] = c]
    BY DEF ReadOrder
  <1> HIDE DEF c
  <1>3. /\ call' \in [Staff -> {NoCall} \cup TaskCalls \cup OrderCalls]
        /\ \A m \in Staff : call'[m] = IF m = s THEN c ELSE call[m]
    BY <1>1, <1>2 DEF HouseInv, Typed
  <1>4. Typed'
    BY <1>3 DEF HouseInv, Typed, ReadOrder, vars
  <1>5. CallsKnown'
    BY <1>1, <1>3, CallsApart DEF HouseInv, CallsKnown, ReadOrder
  <1>6. QED
    BY <1>4, <1>5, ReadKeeps DEF ReadOrder

\* The write of a task is about the row that was read, whatever it has become; a failed
\* inspection closes it and opens another of the same room.
LEMMA WriteTaskKeeps ==
    ASSUME HouseInv, NEW s \in Staff, WriteTask(s)
    PROVE  HouseInv'
  <1> DEFINE c == call[s]
             r == c.before.room
             id == c.id
             to == TaskMoves[c.move].to
             holder == IF c.move = "start"
                       THEN IF c.before.assignee = Null THEN s ELSE c.before.assignee
                       ELSE tasks[id].assignee
             row == [tasks[id] EXCEPT !.status = to, !.assignee = holder]
             written == [tasks EXCEPT ![id] = row]
             more == Redo(c)
  <1>1. /\ c \in TaskCalls /\ id \in DOMAIN tasks /\ r = tasks[id].room
        /\ c.move \in DOMAIN TaskMoves /\ c.before \in Tasks /\ tasks[id] \in Tasks
        /\ id \in Nat
    BY TaskCall, TableRows DEF WriteTask, TaskCalls, HouseInv
  <1>2. /\ to \in DOMAIN TaskTransitions
        /\ TaskMoves[c.move].room \in RoomStatuses \ OffTheBoard
        /\ c.move \notin {"pass", "fail"} => to \in OpenTask
    BY <1>1, TaskMovesKnown
  <1>3. holder \in Staff \cup {Null} /\ r \in Rooms
    BY <1>1 DEF Tasks
  <1>4. row \in Tasks /\ row.room = r /\ row.status = to
    <2> HIDE DEF to, holder, r, c
    <2>1. QED
      BY <1>1, <1>2, <1>3 DEF Tasks
  <1>5. tasks' = written \o more
    <2>1. tasks' = [tasks EXCEPT ![c.id].status = to, ![c.id].assignee = holder] \o more
      BY DEF WriteTask
    <2>2. [tasks EXCEPT ![c.id].status = to, ![c.id].assignee = holder] = written
      <3> HIDE DEF to, holder, r
      <3>1. QED
        BY <1>1 DEF Tasks
    <2>3. QED
      BY <2>1, <2>2, Zenon
  <1>6. more \in Seq(Tasks)
    BY <1>1, <1>3, NewTaskIsTask, EmptySeq DEF Redo, Tasks
  <1>7. c.move = "fail" => /\ 1 \in DOMAIN more /\ more[1].room = r
                           /\ more[1].status \in OpenTask
    BY <1>1, <1>3, NewTaskIsTask DEF Redo, Tasks
  <1>8. roomStatus' = [roomStatus EXCEPT ![r] = TaskMoves[c.move].room]
    BY DEF WriteTask
  <1>9. /\ call' = [call EXCEPT ![s] = NoCall]
        /\ owed' = IF c.move = "pass" THEN owed \ {r} ELSE owed
        /\ resv' = resv /\ orders' = orders
    BY DEF WriteTask
  <1> HIDE DEF to, holder, r, c, id, row, more
  <1>10. /\ written \in Seq(Tasks) /\ DOMAIN written = DOMAIN tasks /\ Len(written) = Len(tasks)
         /\ \A j \in DOMAIN tasks : written[j] = IF j = id THEN row ELSE tasks[j]
    BY <1>1, <1>4, ExceptSeq, LenProperties DEF HouseInv, Typed
  <1> HIDE DEF written
  <1>11. /\ tasks' \in Seq(Tasks)
         /\ \A j \in DOMAIN tasks :
               j \in DOMAIN tasks' /\ tasks'[j] = IF j = id THEN row ELSE tasks[j]
         /\ \A j \in DOMAIN more : /\ Len(tasks) + j \in DOMAIN tasks'
                                   /\ tasks'[Len(tasks) + j] = more[j]
    BY <1>5, <1>6, <1>10, RowsAdded
  <1>12. TasksKept
    BY <1>1, <1>4, <1>11 DEF TasksKept
  <1>13. Typed'
    <2>1. roomStatus' \in [Rooms -> RoomStatuses]
      BY <1>2, <1>8 DEF HouseInv, Typed
    <2>2. call' \in [Staff -> {NoCall} \cup TaskCalls \cup OrderCalls]
      BY <1>9 DEF HouseInv, Typed
    <2>3. QED
      BY <1>9, <1>11, <2>1, <2>2 DEF HouseInv, Typed
  <1>14. CallsKnown'
    BY <1>9, <1>12, CallsKept DEF HouseInv, Typed, OrdersKept
  <1>15. OwedRoomHasTask'
    <2>1. CASE c.move = "fail"
      <3> SUFFICES ASSUME NEW x \in owed
                   PROVE  \E i \in DOMAIN tasks' : /\ tasks'[i].room = x
                                                   /\ tasks'[i].status \in OpenTask
        BY <1>9, <2>1 DEF OwedRoomHasTask, OpenTasks
      <3>1. CASE x = r
        BY <1>7, <1>11, <2>1, <3>1
      <3>2. CASE x # r
        <4>1. PICK i \in DOMAIN tasks : tasks[i].room = x /\ tasks[i].status \in OpenTask
          BY DEF HouseInv, OwedRoomHasTask, OpenTasks
        <4>2. i # id
          BY <1>1, <3>2, <4>1
        <4>3. QED
          BY <1>11, <4>1, <4>2
      <3>3. QED
        BY <3>1, <3>2
    <2>2. CASE c.move # "fail"
      <3>1. owed' \subseteq owed /\ (c.move = "pass" => r \notin owed')
        BY <1>9
      <3>2. \A i \in DOMAIN tasks :
               tasks[i].room \in owed' /\ tasks[i].status \in OpenTask
               => tasks'[i].status \in OpenTask
        BY <1>1, <1>2, <1>4, <1>11, <2>2, <3>1
      <3>3. QED
        BY <1>12, <3>1, <3>2, OwedKept DEF HouseInv
    <2>3. QED
      BY <2>1, <2>2
  <1>16. NoRoomStranded'
    <2>1. \A x \in Rooms : roomStatus'[x] \in OffTheBoard => roomStatus[x] \in OffTheBoard
      BY <1>2, <1>8 DEF HouseInv, Typed
    <2>2. QED
      BY <1>9, <2>1, StrandedKept DEF HouseInv
  <1>17. QED
    BY <1>13, <1>14, <1>15, <1>16 DEF HouseInv

\* Work orders leave what is owed alone.
LEMMA OwedUntouched ==
    ASSUME HouseInv, tasks' = tasks, owed' = owed
    PROVE  OwedRoomHasTask' /\ TasksKept
  BY DEF HouseInv, OwedRoomHasTask, OpenTasks, TasksKept

\* An order that takes its room off the board is active from the start.
LEMMA RaiseOrderKeeps ==
    ASSUME HouseInv, NEW s \in Staff, NEW r \in Rooms, RaiseOrder(s, r)
    PROVE  HouseInv'
  <1>1. PICK out \in BOOLEAN :
           /\ orders' = Append(orders, [room |-> r, takesOut |-> out, status |-> "OPEN"])
           /\ roomStatus' = IF out THEN [roomStatus EXCEPT ![r] = "OUT_OF_ORDER"]
                                   ELSE roomStatus
    BY DEF RaiseOrder
  <1> DEFINE row == [room |-> r, takesOut |-> out, status |-> "OPEN"]
  <1>2. /\ row \in Orders /\ row.room = r /\ row.takesOut = out
        /\ OrderTransitions[row.status] # {}
    BY DEF Orders, OrderTransitions
  <1>3. orders' = Append(orders, row)
    BY <1>1
  <1> HIDE DEF row
  <1>4. /\ orders' \in Seq(Orders)
        /\ \A i \in DOMAIN orders : i \in DOMAIN orders' /\ orders'[i] = orders[i]
        /\ Len(orders) + 1 \in DOMAIN orders' /\ orders'[Len(orders) + 1] = row
    <2>1. orders \in Seq(Orders) /\ Len(orders) \in Nat /\ DOMAIN orders = 1 .. Len(orders)
      BY LenProperties DEF HouseInv, Typed
    <2>2. /\ orders' \in Seq(Orders) /\ Len(orders') = Len(orders) + 1
          /\ \A i \in 1 .. Len(orders) : orders'[i] = orders[i]
          /\ orders'[Len(orders) + 1] = row
      BY <1>2, <1>3, <2>1, AppendProperties
    <2>3. DOMAIN orders' = 1 .. Len(orders')
      BY <2>2, LenProperties
    <2>4. QED
      BY <2>1, <2>2, <2>3
  <1>5. OrdersKept
    BY <1>4 DEF OrdersKept
  <1>6. Typed'
    BY <1>1, <1>4 DEF HouseInv, Typed, RaiseOrder, RoomStatuses
  <1>7. CallsKnown'
    BY <1>5, CallsKept DEF HouseInv, RaiseOrder, TasksKept
  <1>8. OwedRoomHasTask'
    BY OwedUntouched DEF RaiseOrder
  <1>9. NoRoomStranded'
    <2> SUFFICES ASSUME NEW x \in Rooms, roomStatus'[x] \in OffTheBoard
                 PROVE  \E i \in DOMAIN orders' : /\ orders'[i].room = x /\ orders'[i].takesOut
                                                  /\ OrderTransitions[orders'[i].status] # {}
      BY BoardFrom
    <2>1. CASE x = r /\ out
      BY <1>2, <1>4, <2>1
    <2>2. CASE ~(x = r /\ out)
      <3>1. roomStatus[x] \in OffTheBoard
        BY <1>1, <2>2 DEF HouseInv, Typed
      <3>2. ActiveOrders(x) # {}
        BY <3>1 DEF HouseInv, NoRoomStranded, OffTheBoard
      <3>3. PICK i \in DOMAIN orders : /\ orders[i].room = x /\ orders[i].takesOut
                                       /\ OrderTransitions[orders[i].status] # {}
        BY <3>2, Zenon DEF ActiveOrders
      <3>4. QED
        BY <1>4, <3>3
    <2>3. QED
      BY <2>1, <2>2
  <1>10. QED
    BY <1>6, <1>7, <1>8, <1>9 DEF HouseInv

\* An order that ends puts its room on the board; one that goes on is active.
LEMMA WriteOrderKeeps ==
    ASSUME HouseInv, NEW s \in Staff, WriteOrder(s)
    PROVE  HouseInv'
  <1> DEFINE c == call[s]
             r == c.before.room
             id == c.id
             to == OrderMoves[c.move].to
             given == OrderMoves[c.move].room
             row == [orders[id] EXCEPT !.status = to]
  <1>1. /\ c \in OrderCalls /\ id \in DOMAIN orders /\ orders[id].room = r
        /\ orders[id].takesOut = c.before.takesOut
        /\ c.move \in DOMAIN OrderMoves /\ c.before \in Orders /\ orders[id] \in Orders
    BY OrderCall, TableRows DEF WriteOrder, OrderCalls, HouseInv
  <1>2. /\ to \in DOMAIN OrderTransitions /\ given \in RoomStatuses \cup {Null}
        /\ OrderTransitions[to] # {} \/ given = "DIRTY"
    BY <1>1, OrderMovesKnown
  <1>3. r \in Rooms /\ c.before.takesOut \in BOOLEAN
    BY <1>1 DEF Orders
  <1>4. row \in Orders /\ row.room = r /\ row.status = to /\ row.takesOut = c.before.takesOut
    <2> HIDE DEF to, r, c
    <2>1. QED
      BY <1>1, <1>2 DEF Orders
  <1>5. orders' = [orders EXCEPT ![id] = row]
    <2>1. orders' = [orders EXCEPT ![id].status = to]
      BY DEF WriteOrder
    <2> HIDE DEF to, id
    <2>2. QED
      BY <2>1
  <1>6. /\ roomStatus' = IF c.before.takesOut /\ given # Null
                         THEN [roomStatus EXCEPT ![r] = given] ELSE roomStatus
        /\ call' = [call EXCEPT ![s] = NoCall]
        /\ resv' = resv /\ tasks' = tasks /\ owed' = owed
    BY DEF WriteOrder
  <1> HIDE DEF c, r, id, to, given, row
  <1>7. /\ orders' \in Seq(Orders) /\ DOMAIN orders' = DOMAIN orders
        /\ \A j \in DOMAIN orders : orders'[j] = IF j = id THEN row ELSE orders[j]
    BY <1>1, <1>4, <1>5, ExceptSeq, LenProperties DEF HouseInv, Typed
  <1>8. OrdersKept
    BY <1>1, <1>4, <1>7 DEF OrdersKept
  <1>9. Typed'
    <2>1. roomStatus' \in [Rooms -> RoomStatuses]
      BY <1>2, <1>6 DEF HouseInv, Typed
    <2>2. call' \in [Staff -> {NoCall} \cup TaskCalls \cup OrderCalls]
      BY <1>6 DEF HouseInv, Typed
    <2>3. QED
      BY <1>6, <1>7, <2>1, <2>2 DEF HouseInv, Typed
  <1>10. OwedRoomHasTask' /\ TasksKept
    BY <1>6, OwedUntouched
  <1>11. CallsKnown'
    BY <1>6, <1>8, <1>10, CallsKept DEF HouseInv, Typed
  <1>12. NoRoomStranded'
    <2> SUFFICES ASSUME NEW x \in Rooms, roomStatus'[x] \in OffTheBoard
                 PROVE  \E i \in DOMAIN orders' : /\ orders'[i].room = x /\ orders'[i].takesOut
                                                  /\ OrderTransitions[orders'[i].status] # {}
      BY BoardFrom
    <2>1. CASE x = r /\ c.before.takesOut
      <3>1. given # "DIRTY"
        <4>1. given = "DIRTY" => roomStatus'[x] = "DIRTY"
          BY <1>3, <1>6, <2>1 DEF HouseInv, Typed, RoomStatuses
        <4>2. QED
          BY <4>1 DEF OffTheBoard
      <3>2. QED
        BY <1>1, <1>2, <1>4, <1>7, <2>1, <3>1
    <2>2. CASE ~(x = r /\ c.before.takesOut)
      <3>1. roomStatus[x] \in OffTheBoard
        BY <1>3, <1>6, <2>2 DEF HouseInv, Typed
      <3>2. PICK i \in DOMAIN orders : /\ orders[i].room = x /\ orders[i].takesOut
                                       /\ OrderTransitions[orders[i].status] # {}
        BY <3>1 DEF HouseInv, NoRoomStranded, ActiveOrders, OffTheBoard
      <3>3. i # id
        BY <1>1, <2>2, <3>2
      <3>4. QED
        BY <1>7, <3>2, <3>3
    <2>3. QED
      BY <2>1, <2>2
  <1>13. QED
    BY <1>9, <1>10, <1>11, <1>12 DEF HouseInv

\* A check-out raises the task that it owes, unless one is open.
LEMMA CheckOutKeeps ==
    ASSUME HouseInv, NEW id \in Bookings, CheckOut(id)
    PROVE  HouseInv'
  <1> DEFINE r == resv[id].room
             more == CheckoutClean(r)
  <1>1. DeskStep
    BY CheckOutIsDeskStep DEF HouseInv, CheckOut
  <1>2. r \in Rooms \cup {Null}
    BY ReadRow DEF HouseInv
  <1>3. /\ tasks' = tasks \o more /\ owed' = owed \cup ({r} \ {Null})
        /\ orders' = orders /\ call' = call
    BY DEF CheckOut
  <1> HIDE DEF r
  <1>4. /\ more \in Seq(Tasks)
        /\ \/ r = Null \/ OpenTasks(r) # {}
           \/ 1 \in DOMAIN more /\ more[1].room = r /\ more[1].status \in OpenTask
    <2>1. CASE r = Null \/ OpenTasks(r) # {}
      BY <2>1, EmptySeq DEF CheckoutClean
    <2>2. CASE ~(r = Null \/ OpenTasks(r) # {})
      <3>1. more = <<NewTask(r, TRUE, Null)>> /\ r \in Rooms
        BY <1>2, <2>2 DEF CheckoutClean
      <3>2. /\ <<NewTask(r, TRUE, Null)>> \in Seq(Tasks)
            /\ NewTask(r, TRUE, Null).room = r /\ NewTask(r, TRUE, Null).status \in OpenTask
        BY <3>1, NewTaskIsTask
      <3> DEFINE task == NewTask(r, TRUE, Null)
      <3>3. more = <<task>>
        BY <3>1
      <3> HIDE DEF more, task
      <3>4. 1 \in DOMAIN more /\ more[1] = task
        BY <3>3
      <3>5. QED
        BY <3>2, <3>3, <3>4 DEF task
    <2>3. QED
      BY <2>1, <2>2
  <1> HIDE DEF more
  <1>5. /\ tasks' \in Seq(Tasks) /\ TasksKept
        /\ \A i \in DOMAIN tasks : i \in DOMAIN tasks' /\ tasks'[i] = tasks[i]
        /\ \A j \in DOMAIN more : /\ Len(tasks) + j \in DOMAIN tasks'
                                  /\ tasks'[Len(tasks) + j] = more[j]
    BY <1>3, <1>4, AddingTasks DEF TasksKept
  <1>6. Typed'
    BY <1>1, <1>3, <1>5 DEF HouseInv, Typed, DeskStep
  <1>7. CallsKnown'
    BY <1>3, <1>5, CallsKept DEF HouseInv, OrdersKept
  <1>8. OwedRoomHasTask'
    <2> SUFFICES ASSUME NEW x \in owed'
                 PROVE  \E i \in DOMAIN tasks' : /\ tasks'[i].room = x
                                                 /\ tasks'[i].status \in OpenTask
      BY DEF OwedRoomHasTask, OpenTasks
    <2>1. CASE OpenTasks(x) # {}
      BY <1>5, <2>1 DEF OpenTasks
    <2>2. CASE OpenTasks(x) = {}
      <3>1. x = r /\ r # Null
        BY <1>3, <2>2 DEF HouseInv, OwedRoomHasTask
      <3>2. QED
        BY <1>4, <1>5, <2>2, <3>1
    <2>3. QED
      BY <2>1, <2>2
  <1>9. NoRoomStranded'
    BY <1>1, <1>3, StrandedKept DEF HouseInv, DeskStep
  <1>10. QED
    BY <1>6, <1>7, <1>8, <1>9 DEF HouseInv

\* A step outside the house that takes no room off the board.
LEMMA OutsideKeeps ==
    ASSUME HouseInv, DeskStep, UNCHANGED houseVars
    PROVE  HouseInv'
  <1>1. /\ tasks' = tasks /\ orders' = orders /\ call' = call /\ owed' = owed
    BY DEF houseVars
  <1>2. Typed' /\ CallsKnown'
    BY <1>1 DEF HouseInv, Typed, CallsKnown, DeskStep
  <1>3. OwedRoomHasTask'
    BY <1>1, OwedUntouched
  <1>4. NoRoomStranded'
    BY <1>1, StrandedKept DEF HouseInv, DeskStep
  <1>5. QED
    BY <1>2, <1>3, <1>4 DEF HouseInv

-----------------------------------------------------------------------------
(* Turnover: what the board shows *)

\* The newest open task of a room is one of them.
LEMMA NewestIsOpen ==
    ASSUME Typed, NEW r, OpenTasks(r) # {}
    PROVE  boardTask(r) \in OpenTasks(r)
  <1> DEFINE n == Len(tasks)
             Ages == {k \in Nat : \E i \in OpenTasks(r) : k = n - i}
  <1>1. n \in Nat /\ OpenTasks(r) \subseteq 1 .. n
    BY LenProperties DEF Typed, OpenTasks
  <1>2. Ages \subseteq Nat /\ Ages # {}
    <2>1. PICK i \in OpenTasks(r) : TRUE
      OBVIOUS
    <2>2. n - i \in Ages
      BY <1>1, <2>1
    <2>3. QED
      BY <2>2
  <1> HIDE DEF n
  <1>3. PICK k \in Ages : \A j \in Ages : ~ (<<j, k>> \in OpToRel(<, Nat))
    BY <1>2, NatLessThanWellFounded, WFMin
  <1>4. PICK i \in OpenTasks(r) : k = n - i
    BY <1>3
  <1>5. \A j \in OpenTasks(r) : j <= i
    <2> SUFFICES ASSUME NEW j \in OpenTasks(r) PROVE j <= i
      OBVIOUS
    <2>1. i \in 1 .. n /\ j \in 1 .. n
      BY <1>1
    <2>2. n - j \in Ages /\ n - j \in Nat /\ k \in Nat
      BY <1>1, <2>1
    <2>3. n - j < k => <<n - j, k>> \in OpToRel(<, Nat)
      BY <2>2 DEF OpToRel
    <2>4. ~(n - j < k)
      BY <1>3, <2>2, <2>3
    <2>5. QED
      BY <1>1, <1>4, <2>1, <2>4
  <1>6. QED
    BY <1>5 DEF boardTask

-----------------------------------------------------------------------------
(* Turnover: the specification *)

\* The desk begins with a table of rows, and nobody but a work order takes a room off
\* the board.
LEMMA NextKeeps ==
    ASSUME StaffSets \cap OffTheBoard = {}, HouseInv, [Next]_allVars
    PROVE  HouseInv'
  <1>1. CASE \E s \in Staff, r \in Rooms : RaiseTask(s, r) \/ RaiseOrder(s, r)
    BY <1>1, RaiseTaskKeeps, RaiseOrderKeeps
  <1>2. CASE \E s \in Staff, id \in DOMAIN tasks :
                \/ AssignTask(s, id)
                \/ \E move \in DOMAIN TaskMoves : ReadTask(s, id, move)
    BY <1>2, AssignTaskKeeps, ReadTaskKeeps
  <1>3. CASE \E s \in Staff, id \in DOMAIN orders, move \in DOMAIN OrderMoves :
                ReadOrder(s, id, move)
    BY <1>3, ReadOrderKeeps
  <1>4. CASE \E s \in Staff : WriteTask(s) \/ WriteOrder(s)
    BY <1>4, WriteTaskKeeps, WriteOrderKeeps
  <1>5. CASE \E id \in Bookings : CheckOut(id)
    BY <1>5, CheckOutKeeps
  <1>6. CASE \E id \in Bookings : OtherRequest(id)
    BY <1>6, CheckInIsDeskStep, MoveIsDeskStep, ExtendIsDeskStep, SwapIsDeskStep,
       OutsideKeeps DEF OtherRequest, HouseInv
  <1>7. CASE (\E r \in Rooms : R!SetRoomStatus(r)) /\ UNCHANGED houseVars
    <2>1. PICK r \in Rooms, x \in StaffSets : roomStatus' = [roomStatus EXCEPT ![r] = x]
      BY <1>7 DEF R!SetRoomStatus
    <2>2. resv' = resv
      BY <1>7 DEF R!SetRoomStatus
    <2>3. DeskStep
      BY <2>1, <2>2, StaffSetsAssumption DEF HouseInv, Typed, DeskStep
    <2>4. QED
      BY <1>7, <2>3, OutsideKeeps
  <1>8. CASE R!NextDay /\ UNCHANGED houseVars
    <2>1. DeskStep
      BY <1>8 DEF HouseInv, Typed, DeskStep, R!NextDay
    <2>2. QED
      BY <1>8, <2>1, OutsideKeeps
  <1>9. CASE UNCHANGED allVars
    <2>1. DeskStep /\ UNCHANGED houseVars
      BY <1>9 DEF HouseInv, Typed, DeskStep, allVars, vars
    <2>2. QED
      BY <2>1, OutsideKeeps
  <1>10. QED
    BY <1>1, <1>2, <1>3, <1>4, <1>5, <1>6, <1>7, <1>8, <1>9 DEF Next, R!Rooms

LEMMA InitIsFine ==
    ASSUME Starts \subseteq [Bookings -> Rows], Init
    PROVE  HouseInv
  <1>1. /\ tasks = <<>> /\ orders = <<>> /\ owed = {}
        /\ roomStatus = [r \in Rooms |-> "AVAILABLE"]
        /\ call = [s \in Staff |-> NoCall] /\ resv \in [Bookings -> Rows]
    BY DEF Init
  <1>2. Typed
    BY <1>1, EmptySeq DEF Typed, RoomStatuses
  <1>3. CallsKnown
    BY <1>1, CallsApart DEF CallsKnown
  <1>4. OwedRoomHasTask /\ NoRoomStranded
    BY <1>1 DEF OwedRoomHasTask, NoRoomStranded
  <1>5. QED
    BY <1>2, <1>3, <1>4 DEF HouseInv

\* No room is left off the board by work orders whose reads and writes cross, whatever
\* the number of orders that name it.
THEOREM RoomsComeBack ==
    ASSUME Starts \subseteq [Bookings -> Rows], StaffSets \cap OffTheBoard = {}
    PROVE  Spec => []NoRoomStranded
  <1>1. Init => HouseInv
    BY InitIsFine
  <1>2. HouseInv /\ [Next]_allVars => HouseInv'
    BY NextKeeps
  <1>3. HouseInv => NoRoomStranded
    BY DEF HouseInv
  <1>4. QED
    BY <1>1, <1>2, <1>3, PTL DEF Spec

\* A room that a guest has left keeps an open task until an inspection of it passes,
\* though two inspections of one task may cross.
THEOREM OwedRoomsStayOnBoard ==
    ASSUME Starts \subseteq [Bookings -> Rows], StaffSets \cap OffTheBoard = {}
    PROVE  Spec => []OwedRoomHasTask
  <1>1. Init => HouseInv
    BY InitIsFine
  <1>2. HouseInv /\ [Next]_allVars => HouseInv'
    BY NextKeeps
  <1>3. HouseInv => OwedRoomHasTask
    BY DEF HouseInv
  <1>4. QED
    BY <1>1, <1>2, <1>3, PTL DEF Spec

\* What the board shows of a room that a guest has left waits for somebody who may do
\* it, whoever the tasks of the room were raised for and handed to.
THEOREM OwedWorkShown ==
    ASSUME Starts \subseteq [Bookings -> Rows], StaffSets \cap OffTheBoard = {}, Staff # {}
    PROVE  Spec => []OwedWorkIsShown
  <1>1. Init => HouseInv
    BY InitIsFine
  <1>2. HouseInv /\ [Next]_allVars => HouseInv'
    BY NextKeeps
  <1>3. HouseInv => OwedWorkIsShown
    <2> SUFFICES ASSUME HouseInv, NEW r \in owed
                 PROVE  /\ OpenTasks(r) # {}
                        /\ \/ tasks[boardTask(r)].status = "COMPLETED"
                           \/ \E s \in Staff : boardTask(r) \in myTasks(s) /\ MayWork(s, tasks[boardTask(r)])
      BY DEF OwedWorkIsShown
    <2>1. OpenTasks(r) # {}
      BY DEF HouseInv, OwedRoomHasTask
    <2>2. PICK i \in OpenTasks(r) : i = boardTask(r)
      BY <2>1, NewestIsOpen DEF HouseInv
    <2>3. i \in DOMAIN tasks /\ tasks[i].status \in OpenTask /\ tasks[i].assignee \in Staff \cup {Null}
      BY TableRows DEF HouseInv, OpenTasks, Tasks
    <2>4. ASSUME tasks[i].status # "COMPLETED"
          PROVE  \E s \in Staff : i \in myTasks(s) /\ MayWork(s, tasks[i])
      <3>1. PICK s \in Staff : tasks[i].assignee \in {s, Null}
        BY <2>3
      <3>2. QED
        BY <2>3, <2>4, <3>1 DEF myTasks, MayWork, OpenTask
    <2>5. QED
      BY <2>1, <2>2, <2>4
  <1>4. QED
    BY <1>1, <1>2, <1>3, PTL DEF Spec

-----------------------------------------------------------------------------
(* The travel desk, for any number of trips, drivers and requests under way *)

DeskPatches == [status : {"ASSIGNED"}, driver : Drivers, vehicle : Vehicles \cup {Null}]
                  \cup {PatchFor(to) : to \in TripStatuses}

StepPatches == {[status |-> "IN_PROGRESS", stage |-> "ACCEPTED"], [status |-> "COMPLETED"]}
                  \cup {[stage |-> s] : s \in Stages}

Driven(row) == row.stage # Null => row.driver # Null

\* Rows hold what they should, and a request under way means to write one of these.
DrivenInv ==
    /\ trips \in [Trips -> {Null} \cup TripRows]
    /\ \A t \in Trips : trips[t] # Null => Driven(trips[t])
    /\ DOMAIN callers = Callers
    /\ \A c \in Callers :
          /\ callers[c].op = "desk" =>
                /\ callers[c].trip \in Trips /\ trips[callers[c].trip] # Null
                /\ callers[c].patch \in DeskPatches
          /\ callers[c].op = "step" =>
                /\ callers[c].trip \in Trips /\ callers[c].me \in Drivers
                /\ callers[c].patch \in StepPatches

\* The desk gives the driver of the guard, or takes the stage back with the driver.
LEMMA DeskPatchKeeps ==
    ASSUME Null \notin Drivers, NEW row \in TripRows, Driven(row), NEW p \in DeskPatches
    PROVE  Patched(row, p) \in TripRows /\ Driven(Patched(row, p))
  <1>1. DOMAIN row = {"status", "stage", "driver", "vehicle", "deleted"}
    BY DEF TripRows
  <1>2. CASE p \in [status : {"ASSIGNED"}, driver : Drivers, vehicle : Vehicles \cup {Null}]
    BY <1>1, <1>2 DEF TripRows, Patched, Driven, TripStatuses
  <1>3. CASE p = [status |-> "REQUESTED", driver |-> Null, vehicle |-> Null, stage |-> Null]
    BY <1>1, <1>3 DEF TripRows, Patched, Driven, TripStatuses
  <1>4. CASE \E to \in TripStatuses : p = [status |-> to]
    BY <1>1, <1>4 DEF TripRows, Patched, Driven
  <1>5. QED
    BY <1>2, <1>3, <1>4 DEF DeskPatches, PatchFor

\* A driver's step leaves the driver as it is.
LEMMA StepPatchKeeps ==
    ASSUME NEW row \in TripRows, row.driver # Null, NEW p \in StepPatches
    PROVE  Patched(row, p) \in TripRows /\ Driven(Patched(row, p))
  <1>1. DOMAIN row = {"status", "stage", "driver", "vehicle", "deleted"}
    BY DEF TripRows
  <1>2. CASE p = [status |-> "IN_PROGRESS", stage |-> "ACCEPTED"]
    BY <1>1, <1>2 DEF TripRows, Patched, Driven, TripStatuses, Stages
  <1>3. CASE p = [status |-> "COMPLETED"]
    BY <1>1, <1>3 DEF TripRows, Patched, Driven, TripStatuses
  <1>4. CASE \E s \in Stages : p = [stage |-> s]
    BY <1>1, <1>4 DEF TripRows, Patched, Driven
  <1>5. QED
    BY <1>2, <1>3, <1>4 DEF StepPatches

\* A request that only reads.
LEMMA DecisionKeeps ==
    ASSUME DrivenInv, NEW c \in Callers, NEW op, NEW t \in Trips, NEW me, NEW p,
           Decides(c, op, t, me, p), trips[t] # Null,
           \/ op = "desk" /\ p \in DeskPatches
           \/ op = "step" /\ p \in StepPatches /\ me \in Drivers
    PROVE  DrivenInv'
  <1>1. callers' = [callers EXCEPT ![c] = [op |-> op, trip |-> t, me |-> me, patch |-> p]]
    BY DEF Decides
  <1>2. trips' = trips
    BY DEF Decides
  <1>3. QED
    BY <1>1, <1>2 DEF DrivenInv, Driven

\* A trip is written, or not, and the request that did it is over.
LEMMA WriteKeeps ==
    ASSUME DrivenInv, NEW c \in Callers, NEW t \in Trips, NEW row \in TripRows, Driven(row),
           callers' = [callers EXCEPT ![c] = Waiting],
           trips' = [trips EXCEPT ![t] = row] \/ trips' = trips,
           row # Null
    PROVE  DrivenInv'
  <1>1. Waiting.op \notin {"desk", "step"}
    BY DEF Waiting
  <1>2. QED
    BY <1>1 DEF DrivenInv, Driven

\* StartedTripHasDriver, whatever the requests in between.
THEOREM StartedTripsDriven ==
    ASSUME Null \notin Drivers, Null \notin TripRows
    PROVE  TransportInit /\ [][TransportNext]_transportVars => []StartedTripHasDriver
  <1>1. TransportInit => DrivenInv
    BY DEF TransportInit, DrivenInv, Waiting
  <1>2. DrivenInv /\ [TransportNext]_transportVars => DrivenInv'
    <2> SUFFICES ASSUME DrivenInv, [TransportNext]_transportVars PROVE DrivenInv'
      OBVIOUS
    <2>1. ASSUME NEW t \in Trips, create(t) PROVE DrivenInv'
      BY <2>1 DEF create, DrivenInv, Driven, TripRows, TripStatuses
    <2>2. ASSUME NEW t \in Trips, remove(t) PROVE DrivenInv'
      <3>1. [trips[t] EXCEPT !.deleted = TRUE] \in TripRows /\ Driven([trips[t] EXCEPT !.deleted = TRUE])
        <4>1. trips[t] \in TripRows /\ Driven(trips[t])
          BY <2>2 DEF remove, requireRequest, DrivenInv
        <4>2. ASSUME NEW b \in BOOLEAN
              PROVE  [trips[t] EXCEPT !.deleted = b] \in TripRows /\ Driven([trips[t] EXCEPT !.deleted = b])
          BY <4>1, SMT DEF TripRows, Driven
        <4> QED
          BY <4>2, Zenon
      <3>2. trips' = [trips EXCEPT ![t] = [trips[t] EXCEPT !.deleted = TRUE]] /\ callers' = callers
        BY <2>2 DEF remove
      <3>3. QED
        BY <3>1, <3>2 DEF DrivenInv, Driven
    <2>3. ASSUME NEW c \in Callers, NEW t \in Trips, NEW d \in Drivers,
                 NEW v \in Vehicles \cup {Null}, assign(c, t, d, v)
          PROVE  DrivenInv'
      <3>1. [status |-> "ASSIGNED", driver |-> d, vehicle |-> v] \in DeskPatches
        BY DEF DeskPatches
      <3>2. QED
        BY <2>3, <3>1, DecisionKeeps DEF assign, requireRequest
    <2>4. ASSUME NEW c \in Callers, NEW t \in Trips, NEW to \in TripStatuses, setStatus(c, t, to)
          PROVE  DrivenInv'
      BY <2>4, DecisionKeeps DEF setStatus, requireRequest, DeskPatches
    <2>5. ASSUME NEW v \in Vehicles, removeVehicle(v) PROVE DrivenInv'
      BY <2>5 DEF removeVehicle, DrivenInv, Driven
    <2>6. ASSUME NEW c \in Callers, NEW me \in Drivers, NEW t \in Trips,
                 NEW s \in DOMAIN StepStage, step(c, me, t, s)
          PROVE  DrivenInv'
      <3>1. StepPatch(t, s) \in StepPatches
        BY DEF StepPatch, StepPatches, StepStage, Stages
      <3>2. QED
        BY <2>6, <3>1, DecisionKeeps DEF step, requireMyTrip, requireRequest
    <2>7. ASSUME NEW c \in Callers, WriteDesk(c) PROVE DrivenInv'
      <3> DEFINE t == callers[c].trip
                 row == Patched(trips[t], callers[c].patch)
      <3>1. /\ t \in Trips /\ trips[t] # Null /\ trips[t] \in TripRows /\ Driven(trips[t])
            /\ callers[c].patch \in DeskPatches
        BY <2>7 DEF WriteDesk, DrivenInv
      <3>2. row \in TripRows /\ Driven(row)
        BY <3>1, DeskPatchKeeps
      <3>3. trips' = [trips EXCEPT ![t] = row] /\ callers' = [callers EXCEPT ![c] = Waiting]
        BY <2>7 DEF WriteDesk
      <3> HIDE DEF t, row
      <3>4. QED
        BY <3>1, <3>2, <3>3, WriteKeeps
    <2>8. ASSUME NEW c \in Callers, WriteStep(c) PROVE DrivenInv'
      <3> DEFINE t == callers[c].trip
                 row == Patched(trips[t], callers[c].patch)
      <3>1. t \in Trips /\ callers[c].me \in Drivers /\ callers[c].patch \in StepPatches
        BY <2>8 DEF WriteStep, DrivenInv
      <3>2. /\ trips' = IF StillMine(t, callers[c].me) THEN [trips EXCEPT ![t] = row] ELSE trips
            /\ callers' = [callers EXCEPT ![c] = Waiting]
        BY <2>8 DEF WriteStep
      <3>3. CASE StillMine(t, callers[c].me)
        <4>1. trips[t] \in TripRows /\ trips[t].driver # Null
          BY <3>1, <3>3 DEF StillMine, requireMyTrip, requireRequest, DrivenInv
        <4>2. row \in TripRows /\ Driven(row)
          BY <3>1, <4>1, StepPatchKeeps
        <4> HIDE DEF t, row
        <4>3. QED
          BY <3>1, <3>2, <3>3, <4>2, WriteKeeps
      <3>4. CASE ~StillMine(t, callers[c].me)
        <4>1. trips' = trips /\ callers' = [callers EXCEPT ![c] = Waiting]
          BY <3>2, <3>4
        <4>2. QED
          BY <4>1 DEF DrivenInv, Driven, Waiting
      <3>5. QED
        BY <3>3, <3>4
    <2>9. CASE UNCHANGED transportVars
      BY <2>9 DEF transportVars, DrivenInv, Driven
    <2>10. QED
      BY <2>1, <2>2, <2>3, <2>4, <2>5, <2>6, <2>7, <2>8, <2>9 DEF TransportNext
  <1>3. DrivenInv => StartedTripHasDriver
    BY DEF DrivenInv, Driven, StartedTripHasDriver, requireRequest
  <1>4. QED
    BY <1>1, <1>2, <1>3, PTL

-----------------------------------------------------------------------------
(* The registers, for any number of entries and clerks *)

\* What the queue may still decide.
Undecided(row) == row.live /\ row.status = "DRAFT"

\* A row of its register, an event stamped as it ended.
SoundEntry(e, row) ==
    /\ row \in EntryRows /\ row.status \in StatusesOf(KindOf[e])
    /\ KindOf[e] = "event" => /\ row.cancelled <=> row.status = "CANCELLED"
                              /\ row.completed <=> row.status = "COMPLETED"

\* What a request has read was so: an entry that a move or a verdict was decided
\* on could be moved, or decided, as it was read.
SoundClerk(q) ==
    /\ q.step \in {"MOVE", "PATCH", "REMOVE", "DECIDE"} =>
          q.row \in Entries /\ entries[q.row] # Null
    /\ q.step = "MOVE" => /\ SoundEntry(q.row, q.before)
                          /\ q.to \in Moves(KindOf[q.row], q.before.status)
    /\ q.step = "PATCH" => q.sum \in Amounts
    /\ q.step = "DECIDE" => /\ KindOf[q.row] \in {"expense", "purchase"}
                            /\ Undecided(q.before) /\ q.approve \in BOOLEAN

\* A verdict is never given on an entry that has one and was not overtaken: what
\* has a verdict is never undecided again.
RegistersInv ==
    /\ DOMAIN entries = Entries /\ DOMAIN clerks = Clerks
    /\ verdicts \in [Entries -> SUBSET BOOLEAN]
    /\ \A e \in Entries : entries[e] # Null => SoundEntry(e, entries[e])
    /\ \A e \in Entries : verdicts[e] # {} => entries[e] # Null /\ ~Undecided(entries[e])
    /\ \A e \in Entries : FALSE \in verdicts[e] /\ KindOf[e] = "expense" => ~entries[e].live
    /\ \A e \in Entries \ overtaken : verdicts[e] # BOOLEAN
    /\ \A c \in Clerks : SoundClerk(clerks[c])

\* An entry is written, by a request that is then over, and not made undecided.
LEMMA EntryWritten ==
    ASSUME RegistersAssumption, RegistersInv, NEW c \in Clerks, NEW e \in Entries, entries[e] # Null,
           NEW row, SoundEntry(e, row), entries' = [entries EXCEPT ![e] = row],
           row.live => entries[e].live, Undecided(row) => Undecided(entries[e]),
           clerks' = [clerks EXCEPT ![c] = Idle], overtaken \subseteq overtaken',
           verdicts' = verdicts
    PROVE  RegistersInv'
  <1>1. row # Null
    BY DEF SoundEntry, RegistersAssumption
  <1>2. \A x \in Entries : entries[x] # Null => entries'[x] # Null
    BY <1>1 DEF RegistersInv
  <1>3. ASSUME NEW d \in Clerks PROVE SoundClerk(clerks[d])'
    <2>1. CASE d = c
      BY <2>1 DEF RegistersInv, SoundClerk, Idle
    <2>2. CASE d # c
      <3>1. clerks'[d] = clerks[d] /\ SoundClerk(clerks[d])
        BY <2>2 DEF RegistersInv
      <3>2. QED
        BY <3>1, <1>2 DEF SoundClerk
    <2>3. QED
      BY <2>1, <2>2
  <1>4. QED
    BY <1>1, <1>3 DEF RegistersInv

\* A request has read an entry and will write it.
LEMMA EntryRead ==
    ASSUME RegistersInv, NEW c \in Clerks, NEW e \in Entries, NEW write, Reads(c, e, write),
           SoundClerk(write)
    PROVE  RegistersInv'
  <1>1. clerks' = [clerks EXCEPT ![c] = write]
    BY DEF Reads
  <1>2. UNCHANGED <<entries, verdicts, overtaken>>
    BY DEF Reads
  <1>3. ASSUME NEW d \in Clerks PROVE SoundClerk(clerks[d])'
    <2>1. clerks'[d] = write \/ clerks'[d] = clerks[d]
      BY <1>1 DEF RegistersInv
    <2>2. QED
      BY <2>1, <1>2 DEF RegistersInv, SoundClerk
  <1>4. QED
    BY <1>1, <1>2, <1>3 DEF RegistersInv

\* The tasks of events touch no entry.
LEMMA TodosKeep ==
    ASSUME RegistersInv, UNCHANGED <<entries, verdicts, overtaken>>,
           DOMAIN clerks' = Clerks,
           \A c \in Clerks : clerks'[c] = clerks[c] \/ clerks'[c].step \in {"IDLE", "TASK"}
    PROVE  RegistersInv'
  <1>1. ASSUME NEW d \in Clerks PROVE SoundClerk(clerks[d])'
    BY DEF RegistersInv, SoundClerk
  <1>2. QED
    BY <1>1 DEF RegistersInv

\* The moves of a register stay in it, and never lead back to the first status of
\* an entry that awaits approval; what has ended does not move.
LEMMA MovesOnly ==
    ASSUME NEW k \in Kinds, NEW s, NEW to \in Moves(k, s), s \in StatusesOf(k)
    PROVE  /\ to \in StatusesOf(k) /\ to # "DRAFT"
           /\ k = "event" => s \notin {"CANCELLED", "COMPLETED"}
  <1>1. CASE k = "expense"
    BY <1>1 DEF Moves, StatusesOf, ExpenseMoves
  <1>2. CASE k = "lead"
    BY <1>2 DEF Moves, StatusesOf, LeadMoves
  <1>3. CASE k = "event"
    BY <1>3 DEF Moves, StatusesOf, EventMoves
  <1>4. CASE k = "purchase"
    BY <1>4 DEF Moves
  <1>5. QED
    BY <1>1, <1>2, <1>3, <1>4 DEF Kinds

LEMMA RegistersStart ==
    ASSUME RegistersInit
    PROVE  RegistersInv
  BY DEF RegistersInit, RegistersInv, SoundClerk, Idle

\* A move of an entry leaves it as it should be, of whatever it was read as.
LEMMA MoveKeeps ==
    ASSUME RegistersAssumption, RegistersInv, NEW c \in Clerks, Move(c)
    PROVE  RegistersInv'
  <1> DEFINE q == clerks[c]
             e == q.row
             row == Moved(entries[e], q)
  <1>1. /\ e \in Entries /\ entries[e] # Null /\ SoundEntry(e, entries[e]) /\ SoundEntry(e, q.before)
        /\ q.to \in Moves(KindOf[e], q.before.status)
    BY DEF Move, RegistersInv, SoundClerk
  <1>2. /\ entries' = [entries EXCEPT ![e] = row]
        /\ clerks' = [clerks EXCEPT ![c] = Idle] /\ overtaken \subseteq overtaken'
        /\ verdicts' = verdicts
    BY DEF Move, Ends
  <1>3. /\ q.to \in StatusesOf(KindOf[e]) /\ q.to # "DRAFT"
        /\ KindOf[e] = "event" => q.before.status \notin {"CANCELLED", "COMPLETED"}
    BY <1>1, MovesOnly DEF SoundEntry, RegistersAssumption
  <1>4. /\ row.status = q.to /\ row.live = entries[e].live
        /\ KindOf[e] = "event" => /\ row.cancelled <=> q.to = "CANCELLED"
                                  /\ row.completed <=> q.to = "COMPLETED"
    BY <1>1, <1>3 DEF Moved, StampsRead, SoundEntry, EntryRows
  <1>5. row \in EntryRows
    BY <1>1, <1>3 DEF Moved, StampsRead, SoundEntry, EntryRows, RegistersAssumption
  <1>6. SoundEntry(e, row) /\ ~Undecided(row)
    BY <1>3, <1>4, <1>5 DEF SoundEntry, Undecided
  <1> HIDE DEF row, e, q
  <1>7. QED
    BY <1>1, <1>2, <1>4, <1>6, EntryWritten

\* A sum is not looked at by anything else.
LEMMA PatchKeeps ==
    ASSUME RegistersAssumption, RegistersInv, NEW c \in Clerks, Patch(c)
    PROVE  RegistersInv'
  <1> DEFINE q == clerks[c]
             e == q.row
             row == [entries[e] EXCEPT !.sum = q.sum]
  <1>1. e \in Entries /\ entries[e] # Null /\ SoundEntry(e, entries[e]) /\ q.sum \in Amounts
    BY DEF Patch, RegistersInv, SoundClerk
  <1>2. /\ entries' = [entries EXCEPT ![e] = row]
        /\ clerks' = [clerks EXCEPT ![c] = Idle] /\ overtaken \subseteq overtaken'
        /\ verdicts' = verdicts
    BY DEF Patch, Ends
  <1>3. SoundEntry(e, row) /\ row.live = entries[e].live /\ row.status = entries[e].status
    BY <1>1 DEF SoundEntry, EntryRows
  <1> HIDE DEF row, e, q
  <1>4. QED
    BY <1>1, <1>2, <1>3, EntryWritten DEF Undecided

LEMMA RemovalKeeps ==
    ASSUME RegistersAssumption, RegistersInv, NEW c \in Clerks, Remove(c)
    PROVE  RegistersInv'
  <1> DEFINE e == clerks[c].row
             row == [entries[e] EXCEPT !.live = FALSE]
  <1>1. e \in Entries /\ entries[e] # Null /\ SoundEntry(e, entries[e])
    BY DEF Remove, RegistersInv, SoundClerk
  <1>2. /\ entries' = [entries EXCEPT ![e] = row]
        /\ clerks' = [clerks EXCEPT ![c] = Idle] /\ overtaken \subseteq overtaken'
        /\ verdicts' = verdicts
    BY DEF Remove, Ends
  <1>3. SoundEntry(e, row) /\ ~row.live
    BY <1>1 DEF SoundEntry, EntryRows
  <1> HIDE DEF row, e
  <1>4. QED
    BY <1>1, <1>2, <1>3, EntryWritten DEF Undecided

\* A verdict that was not overtaken is the first: what it was decided on still was
\* undecided when it was written.
LEMMA VerdictKeeps ==
    ASSUME RegistersAssumption, RegistersInv, NEW c \in Clerks, Verdict(c)
    PROVE  RegistersInv'
  <1> DEFINE q == clerks[c]
             e == q.row
             row == IF KindOf[e] = "purchase"
                    THEN [entries[e] EXCEPT !.status = IF q.approve THEN "SENT" ELSE "CANCELLED"]
                    ELSE IF q.approve THEN [entries[e] EXCEPT !.status = "APPROVED"]
                    ELSE [entries[e] EXCEPT !.live = FALSE]
  <1>1. /\ e \in Entries /\ entries[e] # Null /\ SoundEntry(e, entries[e])
        /\ KindOf[e] \in {"expense", "purchase"} /\ Undecided(q.before) /\ q.approve \in BOOLEAN
    BY DEF Verdict, RegistersInv, SoundClerk
  <1>2. /\ entries' = [entries EXCEPT ![e] = row]
        /\ clerks' = [clerks EXCEPT ![c] = Idle]
        /\ overtaken' = IF entries[e] # q.before THEN overtaken \cup {e} ELSE overtaken
        /\ verdicts' = [verdicts EXCEPT ![e] = @ \cup {q.approve}]
    BY DEF Verdict, Ends
  <1>3. /\ SoundEntry(e, row) /\ ~Undecided(row)
        /\ row.live => entries[e].live
        /\ KindOf[e] = "expense" /\ q.approve = FALSE => ~row.live
    <2>1. CASE KindOf[e] = "purchase"
      <3>1. {"SENT", "CANCELLED"} \subseteq StatusesOf(KindOf[e]) /\ "purchase" \in Kinds
        BY <2>1 DEF StatusesOf, Kinds
      <3>2. row = [entries[e] EXCEPT !.status = IF q.approve THEN "SENT" ELSE "CANCELLED"]
        BY <2>1
      <3>3. row.status \in {"SENT", "CANCELLED"} /\ row \in EntryRows /\ row.live = entries[e].live
        BY <1>1, <2>1, <3>1, <3>2 DEF SoundEntry, EntryRows
      <3> HIDE DEF row
      <3>4. QED
        BY <2>1, <3>1, <3>3 DEF SoundEntry, Undecided
    <2>2. CASE KindOf[e] = "expense" /\ q.approve
      <3>1. "APPROVED" \in StatusesOf(KindOf[e]) /\ "expense" \in Kinds
        BY <2>2 DEF StatusesOf, ExpenseMoves, Kinds
      <3>2. row = [entries[e] EXCEPT !.status = "APPROVED"]
        BY <2>2
      <3>3. row.status = "APPROVED" /\ row \in EntryRows /\ row.live = entries[e].live
        BY <1>1, <2>2, <3>1, <3>2 DEF SoundEntry, EntryRows
      <3> HIDE DEF row
      <3>4. QED
        BY <2>2, <3>1, <3>3 DEF SoundEntry, Undecided
    <2>3. CASE KindOf[e] = "expense" /\ ~q.approve
      <3>1. row = [entries[e] EXCEPT !.live = FALSE]
        BY <2>3
      <3>2. row.status = entries[e].status /\ row \in EntryRows /\ ~row.live
        BY <1>1, <2>3, <3>1 DEF SoundEntry, EntryRows
      <3> HIDE DEF row
      <3>3. QED
        BY <1>1, <2>3, <3>2 DEF SoundEntry, Undecided
    <2>4. QED
      BY <1>1, <2>1, <2>2, <2>3
  <1> HIDE DEF row
  <1>4. row # Null
    BY <1>3 DEF SoundEntry, RegistersAssumption
  <1>5. \A x \in Entries : x # e => entries'[x] = entries[x] /\ verdicts'[x] = verdicts[x]
    BY <1>2 DEF RegistersInv
  <1>6. entries'[e] = row /\ verdicts'[e] = verdicts[e] \cup {q.approve}
    BY <1>1, <1>2 DEF RegistersInv
  <1> HIDE DEF e, q
  <1>7. \A x \in Entries \ overtaken' : verdicts'[x] # BOOLEAN
    <2>1. ASSUME e \notin overtaken' PROVE e \notin overtaken /\ entries[e] = q.before
      BY <1>2, <2>1
    <2>2. ASSUME e \notin overtaken' PROVE verdicts'[e] = {q.approve}
      BY <2>1, <2>2, <1>1, <1>6 DEF RegistersInv
    <2>3. overtaken \subseteq overtaken'
      BY <1>2
    <2>4. \A x \in Entries \ overtaken : verdicts[x] # BOOLEAN
      BY DEF RegistersInv
    <2>5. ASSUME NEW x \in Entries \ overtaken', x # e PROVE verdicts'[x] # BOOLEAN
      BY <2>3, <2>4, <2>5, <1>5, Zenon
    <2>6. ASSUME e \notin overtaken' PROVE verdicts'[e] # BOOLEAN
      <3>1. \A b : {b} # {TRUE, FALSE}
        <4>1. TRUE # FALSE
          OBVIOUS
        <4> QED
          BY <4>1
      <3> QED
        BY <2>2, <2>6, <3>1
    <2>7. QED
      BY <2>5, <2>6, Zenon
  <1>8. ASSUME NEW d \in Clerks PROVE SoundClerk(clerks[d])'
    <2>1. CASE clerks'[d] = Idle
      BY <2>1 DEF SoundClerk, Idle
    <2>2. CASE clerks'[d] = clerks[d]
      <3>1. SoundClerk(clerks[d]) /\ \A x \in Entries : entries[x] # Null => entries'[x] # Null
        BY <1>4, <1>5, <1>6 DEF RegistersInv
      <3>2. QED
        BY <2>2, <3>1 DEF SoundClerk
    <2>3. QED
      BY <1>2, <2>1, <2>2 DEF RegistersInv
  <1>9. verdicts' \in [Entries -> SUBSET BOOLEAN]
    BY <1>1, <1>2 DEF RegistersInv
  <1>10. DOMAIN entries' = Entries /\ DOMAIN clerks' = Clerks
    BY <1>2 DEF RegistersInv
  <1>11. ASSUME NEW x \in Entries
         PROVE  /\ entries'[x] # Null => SoundEntry(x, entries'[x])
                /\ verdicts'[x] # {} => entries'[x] # Null /\ ~Undecided(entries'[x])
                /\ FALSE \in verdicts'[x] /\ KindOf[x] = "expense" => ~entries'[x].live
    <2>1. CASE x = e
      BY <2>1, <1>1, <1>3, <1>4, <1>6 DEF RegistersInv
    <2>2. CASE x # e
      BY <2>2, <1>5 DEF RegistersInv
    <2>3. QED
      BY <2>1, <2>2
  <1>12. QED
    BY <1>7, <1>8, <1>9, <1>10, <1>11 DEF RegistersInv, SoundEntry, Undecided

LEMMA EntryCreated ==
    ASSUME RegistersAssumption, RegistersInv, NEW e \in Entries, createEntry(e)
    PROVE  RegistersInv'
  <1>1. PICK sum \in Amounts :
          entries' = [entries EXCEPT ![e] = [status |-> FirstStatus(KindOf[e]), sum |-> sum, live |-> TRUE,
                                             cancelled |-> FALSE, completed |-> FALSE]]
    BY DEF createEntry
  <1> DEFINE row == [status |-> FirstStatus(KindOf[e]), sum |-> sum, live |-> TRUE,
                     cancelled |-> FALSE, completed |-> FALSE]
  <1>2. /\ FirstStatus(KindOf[e]) \in StatusesOf(KindOf[e]) /\ KindOf[e] \in Kinds
        /\ KindOf[e] = "event" => FirstStatus(KindOf[e]) = "ENQUIRY"
    BY DEF FirstStatus, StatusesOf, Kinds, ExpenseMoves, LeadMoves, EventMoves, RegistersAssumption
  <1>3. row \in EntryRows
    BY <1>2 DEF EntryRows
  <1>4. SoundEntry(e, row) /\ row # Null
    BY <1>2, <1>3 DEF SoundEntry, RegistersAssumption
  <1>5. entries' = [entries EXCEPT ![e] = row] /\ entries[e] = Null
    BY <1>1 DEF createEntry
  <1> HIDE DEF row
  <1>6. UNCHANGED <<clerks, verdicts, overtaken>>
    BY DEF createEntry
  <1>7. verdicts[e] = {}
    BY <1>5 DEF RegistersInv
  <1>8. ASSUME NEW d \in Clerks PROVE SoundClerk(clerks[d])'
    <2>1. SoundClerk(clerks[d]) /\ \A x \in Entries : entries[x] # Null => entries'[x] # Null
      BY <1>4, <1>5 DEF RegistersInv
    <2>2. QED
      BY <2>1, <1>6 DEF SoundClerk
  <1>9. QED
    BY <1>4, <1>5, <1>6, <1>7, <1>8 DEF RegistersInv

LEMMA RegistersStep ==
    ASSUME RegistersAssumption, RegistersInv, [RegistersNext]_registerVars
    PROVE  RegistersInv'
  <1>1. ASSUME NEW e \in Entries, createEntry(e) PROVE RegistersInv'
    BY <1>1, EntryCreated
  <1>2. ASSUME NEW e \in Entries, NEW t \in Todos, addTask(t, e) PROVE RegistersInv'
    BY <1>2, TodosKeep DEF addTask, RegistersInv
  <1>3. ASSUME NEW c \in Clerks, NEW e \in Entries, setEntryStatus(c, e) PROVE RegistersInv'
    <2>1. PICK to \in Moves(KindOf[e], entries[e].status) :
            Reads(c, e, [step |-> "MOVE", row |-> e, to |-> to, before |-> entries[e]])
      BY <1>3 DEF setEntryStatus
    <2>2. SoundClerk([step |-> "MOVE", row |-> e, to |-> to, before |-> entries[e]])
      BY <1>3 DEF setEntryStatus, At, SoundClerk, RegistersInv
    <2>3. QED
      BY <2>1, <2>2, EntryRead
  <1>4. ASSUME NEW c \in Clerks, NEW e \in Entries, update(c, e) PROVE RegistersInv'
    <2>1. PICK sum \in Amounts \cup {Null} :
            /\ sum = Null => KindOf[e] = "event"
            /\ Reads(c, e, [step |-> "PATCH", row |-> e, before |-> entries[e],
                            sum |-> IF sum = Null THEN entries[e].sum ELSE sum])
      BY <1>4 DEF update
    <2>2. entries[e] # Null /\ entries[e].sum \in Amounts
      BY <2>1 DEF Reads, At, RegistersInv, SoundEntry, EntryRows
    <2>3. SoundClerk([step |-> "PATCH", row |-> e, before |-> entries[e],
                      sum |-> IF sum = Null THEN entries[e].sum ELSE sum])
      BY <2>2 DEF SoundClerk
    <2>4. QED
      BY <2>1, <2>3, EntryRead
  <1>5. ASSUME NEW c \in Clerks, NEW e \in Entries, removeEntry(c, e) PROVE RegistersInv'
    <2>1. Reads(c, e, [step |-> "REMOVE", row |-> e, before |-> entries[e]])
      BY <1>5 DEF removeEntry
    <2>2. SoundClerk([step |-> "REMOVE", row |-> e, before |-> entries[e]])
      BY <2>1 DEF SoundClerk, Reads, At
    <2>3. QED
      BY <2>1, <2>2, EntryRead
  <1>6. ASSUME NEW c \in Clerks, NEW e \in Entries, decide(c, e) PROVE RegistersInv'
    <2>1. PICK approve \in BOOLEAN :
            Reads(c, e, [step |-> "DECIDE", row |-> e, approve |-> approve, before |-> entries[e]])
      BY <1>6 DEF decide
    <2>2. SoundClerk([step |-> "DECIDE", row |-> e, approve |-> approve, before |-> entries[e]])
      BY <1>6 DEF decide, AwaitsApproval, Awaiting, At, SoundClerk, Undecided
    <2>3. QED
      BY <2>1, <2>2, EntryRead
  <1>7. ASSUME NEW c \in Clerks, WriteTodo(c) PROVE RegistersInv'
    BY <1>7, TodosKeep DEF WriteTodo, RegistersInv, Idle
  <1>8. ASSUME NEW c \in Clerks, NEW t \in Todos, updateTask(c, t) PROVE RegistersInv'
    <2>1. PICK to : clerks' = [clerks EXCEPT ![c] = [step |-> "TASK", task |-> t, to |-> to]]
      BY <1>8 DEF updateTask
    <2>2. UNCHANGED <<entries, verdicts, overtaken>>
      BY <1>8 DEF updateTask
    <2>3. QED
      BY <2>1, <2>2, TodosKeep DEF RegistersInv
  <1>9. ASSUME NEW t \in Todos, removeTask(t) PROVE RegistersInv'
    BY <1>9, TodosKeep DEF removeTask, RegistersInv
  <1>10. CASE UNCHANGED registerVars
    BY <1>10, TodosKeep DEF registerVars, RegistersInv
  <1>11. QED
    BY <1>1, <1>2, <1>3, <1>4, <1>5, <1>6, <1>7, <1>8, <1>9, <1>10,
       MoveKeeps, PatchKeeps, RemovalKeeps, VerdictKeeps DEF RegistersNext

\* What the invariant says of the screens: the queue, the payables, the dashboard.
LEMMA BooksRead ==
    ASSUME RegistersInv
    PROVE  BooksFollowTheQueue
  <1>1. OneVerdictUnlessRaced
    <2> SUFFICES ASSUME NEW e \in Entries, e \notin overtaken PROVE Cardinality(verdicts[e]) <= 1
      BY DEF OneVerdictUnlessRaced, RegistersInv
    <2>1. verdicts[e] = {} \/ verdicts[e] = {TRUE} \/ verdicts[e] = {FALSE}
      <3>1. verdicts[e] \subseteq {TRUE, FALSE} /\ ~({TRUE, FALSE} \subseteq verdicts[e])
        <4>1. verdicts[e] \in SUBSET BOOLEAN /\ verdicts[e] # BOOLEAN
          BY DEF RegistersInv
        <4>2. BOOLEAN = {TRUE, FALSE}
          OBVIOUS
        <4>3. QED
          BY <4>1, <4>2, Zenon
      <3>2. CASE TRUE \in verdicts[e]
        BY <3>1, <3>2, Zenon
      <3>3. CASE TRUE \notin verdicts[e]
        BY <3>1, <3>3, Zenon
      <3>4. QED
        BY <3>2, <3>3
    <2>2. Cardinality({}) <= 1 /\ \A b : Cardinality({b}) <= 1
      <3>1. Cardinality({}) = 0 /\ \A b : Cardinality({b}) = 1
        BY FS_EmptySet, FS_Singleton
      <3>2. QED
        BY <3>1
    <2>3. QED
      BY <2>1, <2>2, Zenon
  <1>2. OwedAsDecided
    <2> SUFFICES ASSUME NEW e \in Entries, KindOf[e] = "expense"
                 PROVE  /\ e \in Queue => e \in Payables /\ verdicts[e] = {}
                        /\ verdicts[e] = {FALSE} => e \notin Queue \cup Payables
                        /\ verdicts[e] = {TRUE} /\ At(e) =>
                              (e \in Payables <=> entries[e].status = "APPROVED")
      BY DEF OwedAsDecided, RegistersInv
    <2>1. e \in Queue <=> At(e) /\ entries[e].status = "DRAFT"
      BY DEF Queue, AwaitsApproval, Awaiting, RegistersInv
    <2>2. e \in Payables <=> At(e) /\ entries[e].status # "PAID"
      BY DEF Payables, RegistersInv
    <2>3. At(e) => entries[e].status \in {"DRAFT", "APPROVED", "PAID"}
      BY DEF At, RegistersInv, SoundEntry, StatusesOf, ExpenseMoves
    <2>4. QED
      BY <2>1, <2>2, <2>3 DEF At, RegistersInv, Undecided
  <1>3. StampsFollowStatus
    BY DEF StampsFollowStatus, Upcoming, EventRows, RegistersInv, SoundEntry
  <1>4. QED
    BY <1>1, <1>2, <1>3 DEF BooksFollowTheQueue

\* BooksFollowTheQueue: whatever stale reads the clerks write on, an entry that was not
\* overtaken has one verdict, the books follow it, and an event is stamped as it ended.
THEOREM BooksKept == RegistersSpec => []BooksFollowTheQueue
  <1>1. RegistersInit => RegistersInv
    BY RegistersStart
  <1>2. RegistersInv /\ [RegistersNext]_registerVars => RegistersInv'
    BY RegistersAssumption, RegistersStep
  <1>3. RegistersInv => BooksFollowTheQueue
    BY BooksRead
  <1>4. QED
    BY <1>1, <1>2, <1>3, PTL DEF RegistersSpec

-----------------------------------------------------------------------------
(* Stock: the invariant *)

Transactions ==
    [kind : {"none", "IN", "OUT", "deplete", "receive", "status"}, po : PurchaseOrders \cup {Null},
     todo : Seq(StockItems), to : {"none", "SENT", "CANCELLED"},
     balance : [StockItems -> Int \cup {Null}], moved : [StockItems -> Int]]

\* A transaction that has seen to an item holds its row, and what it is to write is the
\* stock with what it has moved; of any other item it has moved nothing.
Holds(m, i) ==
    IF movers[m].balance[i] = Null THEN movers[m].moved[i] = 0
    ELSE /\ lockedBy[i] = m /\ rows[i] = "live"
         /\ movers[m].balance[i] = onHand[i] + movers[m].moved[i]
         /\ movers[m].balance[i] >= 0

StockTyped ==
    /\ onHand \in [StockItems -> Int] /\ ledger \in [StockItems -> Int]
    /\ rows \in [StockItems -> {"none", "live", "removed"}]
    /\ lockedBy \in [StockItems -> Movers \cup {Null}]
    /\ movers \in [Movers -> Transactions]

StockInv ==
    /\ StockTyped
    /\ OnHandIsTheLedger
    /\ \A m \in Movers, i \in StockItems : Holds(m, i)

-----------------------------------------------------------------------------
(* Stock: the steps *)

LEMMA ClosedHoldsNothing ==
    /\ Closed \in Transactions
    /\ Closed.todo = <<>>
    /\ \A i \in StockItems : Closed.balance[i] = Null /\ Closed.moved[i] = 0
  BY DEF Closed, Transactions

LEMMA StockStart ==
    ASSUME InventoryInit
    PROVE  StockInv
  <1>1. StockTyped
    BY ClosedHoldsNothing DEF InventoryInit, StockTyped
  <1>2. OnHandIsTheLedger
    BY DEF InventoryInit, OnHandIsTheLedger
  <1>3. ASSUME NEW m \in Movers, NEW i \in StockItems PROVE Holds(m, i)
    BY ClosedHoldsNothing DEF InventoryInit, Holds
  <1>4. QED
    BY <1>1, <1>2, <1>3 DEF StockInv

\* A transaction begins, or a status is written: no row is touched, no lock is taken.
LEMMA MoverOpens ==
    ASSUME StockInv, NEW m \in Movers, NEW t \in Transactions,
           \A i \in StockItems : t.balance[i] = Null /\ t.moved[i] = 0,
           movers' = [movers EXCEPT ![m] = t], UNCHANGED <<onHand, rows, ledger, lockedBy>>
    PROVE  StockInv'
  <1>1. StockTyped' /\ OnHandIsTheLedger'
    BY DEF StockInv, StockTyped, OnHandIsTheLedger
  <1>2. ASSUME NEW n \in Movers, NEW i \in StockItems PROVE Holds(n, i)'
    <2>1. CASE n = m
      BY <2>1 DEF Holds, StockInv, StockTyped
    <2>2. CASE n # m
      BY <2>2 DEF Holds, StockInv, StockTyped
    <2>3. QED
      BY <2>1, <2>2
  <1>3. QED
    BY <1>1, <1>2 DEF StockInv

\* Nothing of the transaction is kept, nor any lock of it.
LEMMA MoverRollsBack ==
    ASSUME InventoryAssumption, StockInv, NEW m \in Movers, Rollback(m),
           UNCHANGED <<onHand, rows, ledger>>
    PROVE  StockInv'
  <1>1. movers' = [movers EXCEPT ![m] = Closed]
        /\ lockedBy' = [i \in StockItems |-> IF lockedBy[i] = m THEN Null ELSE lockedBy[i]]
    BY DEF Rollback
  <1>2. StockTyped' /\ OnHandIsTheLedger'
    BY <1>1, ClosedHoldsNothing DEF StockInv, StockTyped, OnHandIsTheLedger
  <1>3. ASSUME NEW n \in Movers, NEW i \in StockItems PROVE Holds(n, i)'
    <2>1. CASE n = m
      BY <1>1, <2>1, ClosedHoldsNothing DEF Holds, StockInv, StockTyped
    <2>2. CASE n # m
      BY <1>1, <2>2 DEF Holds, StockInv, StockTyped
    <2>3. QED
      BY <2>1, <2>2
  <1>4. QED
    BY <1>2, <1>3 DEF StockInv

\* Who may lock a row is the only one to have seen to its item.
LEMMA OthersHoldOtherItems ==
    ASSUME InventoryAssumption, StockInv, NEW m \in Movers, NEW i \in StockItems, Lockable(m, i),
           NEW n \in Movers, n # m
    PROVE  movers[n].balance[i] = Null
  BY DEF InventoryAssumption, StockInv, Holds, Lockable

LEMMA MovementApplied ==
    ASSUME InventoryAssumption, StockInv, NEW m \in Movers, applyMovement(m)
    PROVE  StockInv'
  <1> DEFINE i == Head(movers[m].todo)
             rest == Tail(movers[m].todo)
             q == CurrentQty(m, i) + Delta(movers[m].kind)
             sum == movers[m].moved[i] + Delta(movers[m].kind)
             t == [movers[m] EXCEPT !.todo = rest, !.balance = [movers[m].balance EXCEPT ![i] = q],
                                    !.moved = [movers[m].moved EXCEPT ![i] = sum]]
  <1>1. /\ movers[m] \in Transactions
        /\ i \in StockItems /\ rest \in Seq(StockItems)
    <2>1. movers[m] \in Transactions /\ movers[m].todo \in Seq(StockItems) /\ movers[m].todo # <<>>
      BY DEF StockInv, StockTyped, Transactions, applyMovement
    <2>2. QED
      BY <2>1, HeadTailProperties
  <1>2. Lockable(m, i) /\ UNCHANGED <<onHand, rows, ledger>>
    BY DEF applyMovement
  <1>3. \A n \in Movers \ {m} : movers[n].balance[i] = Null
    BY <1>1, <1>2, OthersHoldOtherItems
  <1>4. CASE Refused(m, i) /\ movers[m].kind = "deplete"
    <2>1. /\ movers' = [movers EXCEPT ![m].todo = rest]
          /\ lockedBy' = lockedBy \/ lockedBy' = [lockedBy EXCEPT ![i] = m]
      BY <1>4 DEF applyMovement
    <2> HIDE DEF i, rest
    <2>2. /\ movers' = [movers EXCEPT ![m] = [movers[m] EXCEPT !.todo = rest]]
          /\ [movers[m] EXCEPT !.todo = rest] \in Transactions
      BY <1>1, <2>1 DEF StockInv, StockTyped, Transactions
    <2>3. StockTyped' /\ OnHandIsTheLedger'
      <3>1. movers' \in [Movers -> Transactions]
        BY <2>2 DEF StockInv, StockTyped
      <3>2. lockedBy' \in [StockItems -> Movers \cup {Null}]
        BY <1>1, <2>1 DEF StockInv, StockTyped
      <3>3. QED
        BY <1>2, <3>1, <3>2 DEF StockInv, StockTyped, OnHandIsTheLedger
    <2>4. ASSUME NEW n \in Movers, NEW j \in StockItems PROVE Holds(n, j)'
      <3>1. movers'[n].balance = movers[n].balance /\ movers'[n].moved = movers[n].moved
        <4>1. movers'[n] = IF n = m THEN [movers[m] EXCEPT !.todo = rest] ELSE movers[n]
          BY <2>2 DEF StockInv, StockTyped
        <4>2. /\ [movers[m] EXCEPT !.todo = rest].balance = movers[m].balance
              /\ [movers[m] EXCEPT !.todo = rest].moved = movers[m].moved
          BY <1>1 DEF Transactions
        <4>3. QED
          BY <4>1, <4>2, Zenon
      <3>2. Holds(n, j)
        BY DEF StockInv
      <3>3. lockedBy'[j] = lockedBy[j] \/ (j = i /\ lockedBy'[j] = m)
        BY <2>1 DEF StockInv, StockTyped
      <3>4. QED
        BY <1>2, <1>3, <3>1, <3>2, <3>3 DEF Holds
    <2>5. QED
      BY <2>3, <2>4 DEF StockInv
  <1>5. CASE Refused(m, i) /\ movers[m].kind # "deplete"
    <2>1. Rollback(m)
      BY <1>5 DEF applyMovement
    <2>2. QED
      BY <1>2, <2>1, MoverRollsBack
  <1>6. CASE ~Refused(m, i)
    <2>1. /\ movers' = [movers EXCEPT ![m] = t]
          /\ lockedBy' = [lockedBy EXCEPT ![i] = m]
      BY <1>6 DEF applyMovement
    <2>2. /\ rows[i] = "live" /\ q \in Int /\ q >= 0
          /\ Delta(movers[m].kind) \in Int
          /\ q = onHand[i] + (movers[m].moved[i] + Delta(movers[m].kind))
      <3>1. /\ rows[i] = "live" /\ ~(q < 0)
            /\ Delta(movers[m].kind) \in Int
        BY <1>6 DEF Refused, Delta
      <3>2. /\ Holds(m, i) /\ onHand[i] \in Int /\ movers[m].moved[i] \in Int
            /\ movers[m].balance[i] \in Int \cup {Null}
        BY <1>1 DEF StockInv, StockTyped, Transactions
      <3>3. CurrentQty(m, i) \in Int /\ CurrentQty(m, i) = onHand[i] + movers[m].moved[i]
        BY <3>2 DEF CurrentQty, Holds
      <3>4. QED
        BY <3>1, <3>2, <3>3
    <2> HIDE DEF i, rest, q
    <2>3. /\ [movers[m].balance EXCEPT ![i] = q] \in [StockItems -> Int \cup {Null}]
          /\ [movers[m].moved EXCEPT ![i] = sum] \in [StockItems -> Int]
          /\ movers[m].balance \in [StockItems -> Int \cup {Null}]
          /\ movers[m].moved \in [StockItems -> Int]
      BY <1>1, <2>2 DEF Transactions
    <2>4. /\ t \in Transactions
          /\ \A j \in StockItems : j # i => t.balance[j] = movers[m].balance[j] /\ t.moved[j] = movers[m].moved[j]
          /\ t.balance[i] = q /\ t.moved[i] = sum
      <3> DEFINE balance == [movers[m].balance EXCEPT ![i] = q]
                 moved == [movers[m].moved EXCEPT ![i] = sum]
      <3>1. /\ balance \in [StockItems -> Int \cup {Null}] /\ moved \in [StockItems -> Int]
            /\ \A j \in StockItems : j # i => balance[j] = movers[m].balance[j] /\ moved[j] = movers[m].moved[j]
            /\ balance[i] = q /\ moved[i] = sum
        BY <1>1, <2>3
      <3>2. t = [movers[m] EXCEPT !.todo = rest, !.balance = balance, !.moved = moved]
        OBVIOUS
      <3> HIDE DEF t, balance, moved
      <3>3. t \in Transactions /\ t.balance = balance /\ t.moved = moved
        BY <1>1, <3>1, <3>2 DEF Transactions
      <3>4. QED
        BY <3>1, <3>3
    <2> HIDE DEF t
    <2>5. StockTyped' /\ OnHandIsTheLedger'
      BY <1>1, <1>2, <2>1, <2>4 DEF StockInv, StockTyped, OnHandIsTheLedger
    <2>6. ASSUME NEW n \in Movers, NEW j \in StockItems PROVE Holds(n, j)'
      <3>1. Holds(n, j)
        BY DEF StockInv
      <3>2. movers'[n] = IF n = m THEN t ELSE movers[n]
        BY <2>1 DEF StockInv, StockTyped
      <3>3. lockedBy'[j] = IF j = i THEN m ELSE lockedBy[j]
        BY <2>1 DEF StockInv, StockTyped
      <3>4. CASE j = i /\ n = m
        <4>1. q # Null
          BY <2>2 DEF InventoryAssumption
        <4>2. QED
          BY <1>2, <2>2, <2>4, <3>2, <3>3, <3>4, <4>1 DEF Holds
      <3>5. CASE j = i /\ n # m
        BY <1>2, <1>3, <3>1, <3>2, <3>5 DEF Holds
      <3>6. CASE j # i
        BY <1>2, <2>4, <3>1, <3>2, <3>3, <3>6 DEF Holds
      <3>7. QED
        BY <3>4, <3>5, <3>6
    <2>7. QED
      BY <2>5, <2>6 DEF StockInv
  <1>7. QED
    BY <1>4, <1>5, <1>6

LEMMA MovementsCommitted ==
    ASSUME InventoryAssumption, StockInv, NEW m \in Movers, Commit(m)
    PROVE  StockInv'
  <1>1. /\ onHand' = [i \in StockItems |-> CurrentQty(m, i)]
        /\ ledger' = [i \in StockItems |-> ledger[i] + movers[m].moved[i]]
        /\ movers' = [movers EXCEPT ![m] = Closed]
        /\ lockedBy' = [i \in StockItems |-> IF lockedBy[i] = m THEN Null ELSE lockedBy[i]]
        /\ rows' = rows
    BY DEF Commit, Rollback
  <1>2. ASSUME NEW i \in StockItems
        PROVE  /\ onHand[i] \in Int /\ ledger[i] \in Int /\ movers[m].moved[i] \in Int
               /\ movers[m].balance[i] = Null => CurrentQty(m, i) = onHand[i] /\ movers[m].moved[i] = 0
               /\ CurrentQty(m, i) \in Int
               /\ CurrentQty(m, i) = onHand[i] + movers[m].moved[i] /\ CurrentQty(m, i) >= 0
    <2>1. /\ Holds(m, i) /\ onHand[i] \in Int /\ ledger[i] \in Int /\ movers[m].moved[i] \in Int
          /\ movers[m].balance[i] \in Int \cup {Null} /\ onHand[i] >= 0
      BY DEF StockInv, StockTyped, Transactions, OnHandIsTheLedger
    <2>2. QED
      BY <2>1 DEF Holds, CurrentQty
  <1>3. StockTyped'
    BY <1>1, <1>2, ClosedHoldsNothing DEF StockInv, StockTyped
  <1>4. OnHandIsTheLedger'
    BY <1>1, <1>2 DEF StockInv, OnHandIsTheLedger
  <1>5. ASSUME NEW n \in Movers, NEW i \in StockItems PROVE Holds(n, i)'
    <2>1. CASE n = m
      BY <1>1, <2>1, ClosedHoldsNothing DEF Holds, StockInv, StockTyped
    <2>2. CASE n # m
      <3>1. movers'[n] = movers[n] /\ Holds(n, i) /\ Holds(m, i)
        BY <1>1, <2>2 DEF StockInv, StockTyped
      <3>2. CASE movers[n].balance[i] = Null
        BY <3>1, <3>2 DEF Holds
      <3>3. CASE movers[n].balance[i] # Null
        <4>1. lockedBy[i] = n /\ movers[m].balance[i] = Null
          BY <2>2, <3>1, <3>3 DEF Holds
        <4>2. onHand'[i] = onHand[i] /\ lockedBy'[i] = n
          BY <1>1, <1>2, <2>2, <4>1
        <4>3. QED
          BY <1>1, <3>1, <3>3, <4>2 DEF Holds
      <3>4. QED
        BY <3>2, <3>3
    <2>3. QED
      BY <2>1, <2>2
  <1>6. QED
    BY <1>3, <1>4, <1>5 DEF StockInv

LEMMA StockStep ==
    ASSUME InventoryAssumption, StockInv, [InventoryNext]_inventoryVars
    PROVE  StockInv'
  <1>1. ASSUME NEW i \in StockItems, removeItem(i) PROVE StockInv'
    <2>1. StockTyped' /\ OnHandIsTheLedger'
      BY <1>1 DEF removeItem, StockInv, StockTyped, OnHandIsTheLedger
    <2>2. ASSUME NEW m \in Movers, NEW j \in StockItems PROVE Holds(m, j)'
      BY <1>1 DEF removeItem, StockInv, StockTyped, Holds, InventoryAssumption
    <2>3. QED
      BY <2>1, <2>2 DEF StockInv
  <1>2. ASSUME NEW i \in StockItems, NEW opening \in {0, 1}, createItem(i, opening) PROVE StockInv'
    <2>1. StockTyped' /\ OnHandIsTheLedger'
      BY <1>2 DEF createItem, StockInv, StockTyped, OnHandIsTheLedger
    <2>2. ASSUME NEW m \in Movers, NEW j \in StockItems PROVE Holds(m, j)'
      BY <1>2 DEF createItem, StockInv, StockTyped, Holds
    <2>3. QED
      BY <2>1, <2>2 DEF StockInv
  <1>3. ASSUME NEW m \in Movers, NEW i \in StockItems, NEW type \in {"IN", "OUT"},
               recordStockMovement(m, i, type)
        PROVE  StockInv'
    <2> DEFINE t == [Closed EXCEPT !.kind = type, !.todo = <<i>>]
    <2>1. t \in Transactions /\ \A j \in StockItems : t.balance[j] = Null /\ t.moved[j] = 0
      <3>1. <<i>> \in Seq(StockItems)
        OBVIOUS
      <3>2. QED
        BY <3>1, ClosedHoldsNothing DEF Transactions
    <2>2. movers' = [movers EXCEPT ![m] = t] /\ UNCHANGED <<onHand, rows, ledger, lockedBy>>
      BY <1>3 DEF recordStockMovement, Opens
    <2> HIDE DEF t
    <2>3. QED
      BY <2>1, <2>2, MoverOpens
  <1>4. ASSUME NEW m \in Movers, NEW recipe \in Recipes, depleteStock(m, recipe) PROVE StockInv'
    <2> DEFINE t == [Closed EXCEPT !.kind = "deplete", !.todo = recipe]
    <2>1. t \in Transactions /\ \A j \in StockItems : t.balance[j] = Null /\ t.moved[j] = 0
      BY ClosedHoldsNothing DEF Transactions, InventoryAssumption
    <2>2. movers' = [movers EXCEPT ![m] = t] /\ UNCHANGED <<onHand, rows, ledger, lockedBy>>
      BY <1>4 DEF depleteStock, Opens
    <2> HIDE DEF t
    <2>3. QED
      BY <2>1, <2>2, MoverOpens
  <1>5. ASSUME NEW m \in Movers, DeadlockDetected(m) PROVE StockInv'
    BY <1>5, MoverRollsBack DEF DeadlockDetected
  <1>6. ASSUME NEW m \in Movers, setOrderStatus(m) PROVE StockInv'
    BY <1>6, MoverOpens, ClosedHoldsNothing DEF setOrderStatus
  <1>7. ASSUME NEW p \in PurchaseOrders, createPurchaseOrder(p) PROVE StockInv'
    BY <1>7 DEF createPurchaseOrder, StockInv, StockTyped, OnHandIsTheLedger, Holds
  <1>8. ASSUME NEW m \in Movers, NEW p \in PurchaseOrders, NEW to \in {"SENT", "CANCELLED"},
               ReadToSetStatus(m, p, to)
        PROVE  StockInv'
    <2> DEFINE t == [Closed EXCEPT !.kind = "status", !.po = p, !.to = to]
    <2>1. t \in Transactions /\ \A j \in StockItems : t.balance[j] = Null /\ t.moved[j] = 0
      BY ClosedHoldsNothing DEF Transactions
    <2>2. movers' = [movers EXCEPT ![m] = t] /\ UNCHANGED <<onHand, rows, ledger, lockedBy>>
      BY <1>8 DEF ReadToSetStatus, Opens
    <2> HIDE DEF t
    <2>3. QED
      BY <2>1, <2>2, MoverOpens
  <1>9. ASSUME NEW m \in Movers, NEW p \in PurchaseOrders, receive(m, p) PROVE StockInv'
    <2> DEFINE t == [Closed EXCEPT !.kind = "receive", !.po = p, !.todo = LinesOf[p]]
    <2>1. t \in Transactions /\ \A j \in StockItems : t.balance[j] = Null /\ t.moved[j] = 0
      BY ClosedHoldsNothing DEF Transactions, InventoryAssumption
    <2>2. movers' = [movers EXCEPT ![m] = t] /\ UNCHANGED <<onHand, rows, ledger, lockedBy>>
      BY <1>9 DEF receive, Opens
    <2> HIDE DEF t
    <2>3. QED
      BY <2>1, <2>2, MoverOpens
  <1>10. CASE UNCHANGED inventoryVars
    BY <1>10 DEF inventoryVars, StockInv, StockTyped, OnHandIsTheLedger, Holds
  <1>11. QED
    BY <1>1, <1>2, <1>3, <1>4, <1>5, <1>6, <1>7, <1>8, <1>9, <1>10,
       MovementApplied, MovementsCommitted DEF InventoryNext

\* OnHandIsTheLedger: whatever transactions run side by side, commit, are undone or wait
\* for each other, the stock of an item is the sum of its movements and not below zero.
THEOREM StockIsItsLedger == InventorySpec => []OnHandIsTheLedger
  <1>1. InventoryInit => StockInv
    BY StockStart
  <1>2. StockInv /\ [InventoryNext]_inventoryVars => StockInv'
    BY InventoryAssumption, StockStep
  <1>3. StockInv => OnHandIsTheLedger
    BY DEF StockInv
  <1>4. QED
    BY <1>1, <1>2, <1>3, PTL DEF InventorySpec

-----------------------------------------------------------------------------
(* Terms: the invariant *)

\* What an editor has in hand: a patch of a plan or of a fee that is on the list.
Edits == {NoEdit} \cup [target : Plans, patch : PlanPatches] \cup [target : Fees, patch : FeePatches]

\* The row its patch would make is a row that passes.
Fits(d) ==
    /\ d.target \in Plans =>
          /\ plans[d.target] # Null
          /\ d.target \notin contested => validatePlan(Merged(plans[d.target], d.patch))
    /\ d.target \in Fees =>
          /\ fees[d.target] # Null
          /\ d.target \notin contested => validateFee(Merged(fees[d.target], d.patch))

\* Two editors of one row have met on it.
EditorsApart ==
    \A d, e \in Editors : d # e /\ editing[d] # NoEdit /\ editing[d].target = editing[e].target
                             => editing[d].target \in contested

PlansInv ==
    /\ PlansTypeOK
    /\ editing \in [Editors -> Edits]
    /\ EditorsApart
    /\ \A e \in Editors : Fits(editing[e])
    /\ TermsAgree

-----------------------------------------------------------------------------
(* Terms: rows and patches *)

\* A patch puts typed values into the columns it names.
LEMMA MergedPlanIsPlan ==
    ASSUME NEW row \in PlanRows, NEW patch \in PlanPatches
    PROVE  Merged(row, patch) \in PlanRows
  <1>1. /\ DOMAIN row = {"status", "name", "selling", "minStay", "maxStay"}
        /\ row.status \in {"LIVE", "DELETED"} /\ row.name \in Names /\ row.selling \in BOOLEAN
        /\ row.minStay \in StayLimits \cup {Null} /\ row.maxStay \in StayLimits \cup {Null}
    BY DEF PlanRows
  <1>2. /\ DOMAIN patch \subseteq {"name", "minStay", "maxStay"}
        /\ "name" \in DOMAIN patch => patch.name \in Names
        /\ "minStay" \in DOMAIN patch => patch.minStay \in StayLimits \cup {Null}
        /\ "maxStay" \in DOMAIN patch => patch.maxStay \in StayLimits \cup {Null}
    <2>1. CASE \E n \in Names : patch = [name |-> n]
      BY <2>1
    <2>2. CASE \E k \in StayLimits \cup {Null} : patch = [minStay |-> k]
      BY <2>2
    <2>3. CASE \E k \in StayLimits \cup {Null} : patch = [maxStay |-> k]
      BY <2>3
    <2>4. CASE patch \in [minStay : StayLimits, maxStay : StayLimits]
      BY <2>4
    <2>5. QED
      BY <2>1, <2>2, <2>3, <2>4 DEF PlanPatches
  <1> DEFINE of(k) == IF k \in DOMAIN patch THEN patch[k] ELSE row[k]
  <1>3. /\ of("status") \in {"LIVE", "DELETED"} /\ of("name") \in Names /\ of("selling") \in BOOLEAN
        /\ of("minStay") \in StayLimits \cup {Null} /\ of("maxStay") \in StayLimits \cup {Null}
    BY <1>1, <1>2
  <1>4. Merged(row, patch) = [status |-> of("status"), name |-> of("name"), selling |-> of("selling"),
                              minStay |-> of("minStay"), maxStay |-> of("maxStay")]
    BY <1>1 DEF Merged
  <1> HIDE DEF of
  <1>5. QED
    BY <1>3, <1>4 DEF PlanRows

LEMMA MergedFeeIsFee ==
    ASSUME NEW row \in FeeRows, NEW patch \in FeePatches
    PROVE  Merged(row, patch) \in FeeRows
  <1>1. /\ DOMAIN row = {"status", "calculation", "value"}
        /\ row.status \in {"LIVE", "DELETED"} /\ row.calculation \in Calculations /\ row.value \in Values
    BY DEF FeeRows
  <1>2. /\ DOMAIN patch \subseteq {"calculation", "value"}
        /\ "calculation" \in DOMAIN patch => patch.calculation \in Calculations
        /\ "value" \in DOMAIN patch => patch.value \in Values
    <2>1. CASE \E v \in Values : patch = [value |-> v]
      BY <2>1
    <2>2. CASE \E c \in Calculations : patch = [calculation |-> c]
      BY <2>2
    <2>3. CASE patch \in [value : Values, calculation : Calculations]
      BY <2>3
    <2>4. QED
      BY <2>1, <2>2, <2>3 DEF FeePatches
  <1> DEFINE of(k) == IF k \in DOMAIN patch THEN patch[k] ELSE row[k]
  <1>3. of("status") \in {"LIVE", "DELETED"} /\ of("calculation") \in Calculations /\ of("value") \in Values
    BY <1>1, <1>2
  <1>4. Merged(row, patch) = [status |-> of("status"), calculation |-> of("calculation"), value |-> of("value")]
    BY <1>1 DEF Merged
  <1> HIDE DEF of
  <1>5. QED
    BY <1>3, <1>4 DEF FeeRows

\* A change of the other columns leaves the check of a row, and of a patch to it, as it was.
LEMMA OtherColumnsOfPlan ==
    ASSUME NEW r \in PlanRows, NEW s \in PlanRows, r.minStay = s.minStay, r.maxStay = s.maxStay
    PROVE  /\ validatePlan(r) <=> validatePlan(s)
           /\ \A patch \in PlanPatches : validatePlan(Merged(r, patch)) <=> validatePlan(Merged(s, patch))
  <1>1. \A a, b \in PlanRows : a.minStay = b.minStay /\ a.maxStay = b.maxStay
                                  => (validatePlan(a) <=> validatePlan(b))
    BY DEF PlanRows, validatePlan
  <1>2. ASSUME NEW patch \in PlanPatches
        PROVE  /\ Merged(r, patch).minStay = Merged(s, patch).minStay
               /\ Merged(r, patch).maxStay = Merged(s, patch).maxStay
    BY DEF Merged, PlanRows
  <1>3. QED
    BY <1>1, <1>2, MergedPlanIsPlan

LEMMA OtherColumnsOfFee ==
    ASSUME NEW r \in FeeRows, NEW s \in FeeRows, r.calculation = s.calculation, r.value = s.value
    PROVE  /\ validateFee(r) <=> validateFee(s)
           /\ \A patch \in FeePatches : validateFee(Merged(r, patch)) <=> validateFee(Merged(s, patch))
  <1>1. \A a, b \in FeeRows : a.calculation = b.calculation /\ a.value = b.value
                                 => (validateFee(a) <=> validateFee(b))
    BY DEF FeeRows, validateFee
  <1>2. ASSUME NEW patch \in FeePatches
        PROVE  /\ Merged(r, patch).calculation = Merged(s, patch).calculation
               /\ Merged(r, patch).value = Merged(s, patch).value
    BY DEF Merged, FeeRows
  <1>3. QED
    BY <1>1, <1>2, MergedFeeIsFee

-----------------------------------------------------------------------------
(* Terms: the steps *)

LEMMA PlansStart ==
    ASSUME PlansAndFeesAssumption, PlansInit
    PROVE  PlansInv
  <1>1. /\ PlansTypeOK
        /\ editing \in [Editors -> Edits]
        /\ TermsAgree
    BY DEF PlansInit, PlansTypeOK, Edits, TermsAgree
  <1>2. EditorsApart /\ \A e \in Editors : Fits(editing[e])
    BY DEF PlansInit, EditorsApart, Fits, NoEdit, PlansAndFeesAssumption
  <1>3. QED
    BY <1>1, <1>2 DEF PlansInv

\* A plan written in its other columns only, or put on the list.
LEMMA PlanRowWritten ==
    ASSUME PlansAndFeesAssumption, PlansInv, NEW p \in Plans, NEW row \in PlanRows,
           plans' = [plans EXCEPT ![p] = row], UNCHANGED <<fees, editing, contested, quote>>,
           plans[p] = Null => validatePlan(row),
           plans[p] # Null => row.minStay = plans[p].minStay /\ row.maxStay = plans[p].maxStay
    PROVE  PlansInv'
  <1>1. row # Null
    BY DEF PlansAndFeesAssumption
  <1>2. PlansTypeOK' /\ (editing \in [Editors -> Edits])' /\ EditorsApart'
    BY DEF PlansInv, PlansTypeOK, Edits, NoEdit, EditorsApart
  <1>3. plans[p] # Null => plans[p] \in PlanRows
    BY DEF PlansInv, PlansTypeOK
  <1>4. ASSUME NEW e \in Editors PROVE Fits(editing[e])'
    <2>1. Fits(editing[e]) /\ editing[e] \in Edits
      BY DEF PlansInv
    <2>2. \A q \in Plans : plans'[q] = IF q = p THEN row ELSE plans[q]
      BY DEF PlansInv, PlansTypeOK
    <2>3. ASSUME editing[e].target = p
          PROVE  plans[p] # Null /\ (p \notin contested => validatePlan(Merged(row, editing[e].patch)))
      <3>1. editing[e].patch \in PlanPatches /\ plans[p] # Null
        BY <2>1, <2>3 DEF Edits, NoEdit, PlansAndFeesAssumption, Fits
      <3>2. validatePlan(Merged(row, editing[e].patch)) <=> validatePlan(Merged(plans[p], editing[e].patch))
        BY <1>3, <3>1, OtherColumnsOfPlan
      <3>3. QED
        BY <2>1, <2>3, <3>1, <3>2 DEF Fits
    <2>4. QED
      BY <1>1, <2>1, <2>2, <2>3 DEF Fits
  <1>5. TermsAgree'
    <2>1. p \notin contested => validatePlan(row)
      BY <1>3, OtherColumnsOfPlan DEF PlansInv, TermsAgree
    <2>2. QED
      BY <2>1 DEF PlansInv, PlansTypeOK, TermsAgree
  <1>6. QED
    BY <1>2, <1>4, <1>5 DEF PlansInv

LEMMA FeeRowWritten ==
    ASSUME PlansAndFeesAssumption, PlansInv, NEW f \in Fees, NEW row \in FeeRows,
           fees' = [fees EXCEPT ![f] = row], UNCHANGED <<plans, editing, contested, quote>>,
           fees[f] = Null => validateFee(row),
           fees[f] # Null => row.calculation = fees[f].calculation /\ row.value = fees[f].value
    PROVE  PlansInv'
  <1>1. row # Null
    BY DEF PlansAndFeesAssumption
  <1>2. PlansTypeOK' /\ (editing \in [Editors -> Edits])' /\ EditorsApart'
    BY DEF PlansInv, PlansTypeOK, Edits, NoEdit, EditorsApart
  <1>3. fees[f] # Null => fees[f] \in FeeRows
    BY DEF PlansInv, PlansTypeOK
  <1>4. ASSUME NEW e \in Editors PROVE Fits(editing[e])'
    <2>1. Fits(editing[e]) /\ editing[e] \in Edits
      BY DEF PlansInv
    <2>2. \A q \in Fees : fees'[q] = IF q = f THEN row ELSE fees[q]
      BY DEF PlansInv, PlansTypeOK
    <2>3. ASSUME editing[e].target = f
          PROVE  fees[f] # Null /\ (f \notin contested => validateFee(Merged(row, editing[e].patch)))
      <3>1. editing[e].patch \in FeePatches /\ fees[f] # Null
        BY <2>1, <2>3 DEF Edits, NoEdit, PlansAndFeesAssumption, Fits
      <3>2. validateFee(Merged(row, editing[e].patch)) <=> validateFee(Merged(fees[f], editing[e].patch))
        BY <1>3, <3>1, OtherColumnsOfFee
      <3>3. QED
        BY <2>1, <2>3, <3>1, <3>2 DEF Fits
    <2>4. QED
      BY <1>1, <2>1, <2>2, <2>3 DEF Fits
  <1>5. TermsAgree'
    <2>1. f \notin contested => validateFee(row)
      BY <1>3, OtherColumnsOfFee DEF PlansInv, TermsAgree
    <2>2. QED
      BY <2>1 DEF PlansInv, PlansTypeOK, TermsAgree
  <1>6. QED
    BY <1>2, <1>4, <1>5 DEF PlansInv

\* An editor has read the row, and what it will write passes with it.
LEMMA TermsRead ==
    ASSUME PlansAndFeesAssumption, PlansInv, NEW e \in Editors, NEW t, NEW patch,
           ReadsTerms(e, t, patch), Fits([target |-> t, patch |-> patch]),
           [target |-> t, patch |-> patch] \in Edits, t \in Plans \cup Fees
    PROVE  PlansInv'
  <1> DEFINE d == [target |-> t, patch |-> patch]
  <1>1. /\ editing' = [editing EXCEPT ![e] = d]
        /\ UNCHANGED <<plans, fees>>
        /\ contested \subseteq contested' /\ contested' \subseteq contested \cup {t}
        /\ (\E o \in Editors \ {e} : editing[o].target = t) => t \in contested'
    BY DEF ReadsTerms
  <1>2. d.target = t /\ d \in Edits /\ Fits(d)
    OBVIOUS
  <1> HIDE DEF d
  <1>3. PlansTypeOK' /\ TermsAgree' /\ (editing \in [Editors -> Edits])'
    BY <1>1, <1>2 DEF PlansInv, PlansTypeOK, TermsAgree, Edits, NoEdit
  <1>4. EditorsApart'
    <2> SUFFICES ASSUME NEW a \in Editors, NEW b \in Editors, a # b, editing'[a] # NoEdit,
                        editing'[a].target = editing'[b].target
                 PROVE  editing'[a].target \in contested'
      BY DEF EditorsApart, NoEdit
    <2>1. CASE a = e \/ b = e
      BY <1>1, <1>2, <2>1 DEF PlansInv
    <2>2. CASE a # e /\ b # e
      BY <1>1, <2>2 DEF PlansInv, EditorsApart
    <2>3. QED
      BY <2>1, <2>2
  <1>5. ASSUME NEW a \in Editors PROVE Fits(editing[a])'
    <2>1. Fits(editing'[a])
      BY <1>1, <1>2 DEF PlansInv
    <2>2. QED
      BY <1>1, <2>1 DEF Fits
  <1>6. QED
    BY <1>3, <1>4, <1>5 DEF PlansInv

\* The patch is written, or refused by the index.
LEMMA PlanPatched ==
    ASSUME PlansAndFeesAssumption, PlansInv, NEW e \in Editors, updatePlan(e)
    PROVE  PlansInv'
  <1> DEFINE p == editing[e].target
             row == Merged(plans[p], editing[e].patch)
  <1>1. /\ p \in Plans /\ plans[p] \in PlanRows /\ editing[e].patch \in PlanPatches
        /\ editing[e] # NoEdit
    BY DEF updatePlan, PlansInv, PlansTypeOK, Fits, Edits, NoEdit, PlansAndFeesAssumption
  <1>2. row \in PlanRows /\ row # Null
    BY <1>1, MergedPlanIsPlan DEF PlansAndFeesAssumption
  <1>3. p \notin contested => validatePlan(row)
    BY <1>1 DEF PlansInv, Fits
  <1>4. /\ plans' = [plans EXCEPT ![p] = row] \/ plans' = plans
        /\ editing' = [editing EXCEPT ![e] = NoEdit]
        /\ UNCHANGED <<fees, contested, quote>>
    BY DEF updatePlan
  <1>5. \A o \in Editors : o # e /\ editing[o].target = p => p \in contested
    BY <1>1 DEF PlansInv, EditorsApart
  <1> HIDE DEF row
  <1>6. PlansTypeOK' /\ TermsAgree' /\ (editing \in [Editors -> Edits])'
    <2>1. PlansTypeOK'
      BY <1>1, <1>2, <1>4 DEF PlansInv, PlansTypeOK
    <2>2. TermsAgree'
      BY <1>1, <1>2, <1>3, <1>4 DEF PlansInv, PlansTypeOK, TermsAgree
    <2>3. (editing \in [Editors -> Edits])'
      BY <1>4 DEF PlansInv, Edits
    <2>4. QED
      BY <2>1, <2>2, <2>3
  <1>7. EditorsApart'
    BY <1>4 DEF EditorsApart, PlansInv, Edits, NoEdit, PlansAndFeesAssumption
  <1>8. ASSUME NEW o \in Editors PROVE Fits(editing[o])'
    <2>1. CASE o = e
      BY <1>4, <2>1 DEF Fits, NoEdit, PlansInv, PlansAndFeesAssumption
    <2>2. CASE o # e
      <3>1. editing'[o] = editing[o] /\ Fits(editing[o])
        BY <1>4, <2>2 DEF PlansInv
      <3>2. \A q \in Plans : q # p => plans'[q] = plans[q]
        BY <1>4 DEF PlansInv, PlansTypeOK
      <3>3. plans'[p] # Null
        BY <1>1, <1>2, <1>4 DEF PlansInv, PlansTypeOK, PlansAndFeesAssumption
      <3>4. QED
        BY <1>4, <1>5, <2>2, <3>1, <3>2, <3>3 DEF Fits
    <2>3. QED
      BY <2>1, <2>2
  <1>9. QED
    BY <1>6, <1>7, <1>8 DEF PlansInv

LEMMA FeePatched ==
    ASSUME PlansAndFeesAssumption, PlansInv, NEW e \in Editors, updateFee(e)
    PROVE  PlansInv'
  <1> DEFINE f == editing[e].target
             row == Merged(fees[f], editing[e].patch)
  <1>1. /\ f \in Fees /\ fees[f] \in FeeRows /\ editing[e].patch \in FeePatches
        /\ editing[e] # NoEdit
    BY DEF updateFee, PlansInv, PlansTypeOK, Fits, Edits, NoEdit, PlansAndFeesAssumption
  <1>2. row \in FeeRows /\ row # Null
    BY <1>1, MergedFeeIsFee DEF PlansAndFeesAssumption
  <1>3. f \notin contested => validateFee(row)
    BY <1>1 DEF PlansInv, Fits
  <1>4. /\ fees' = [fees EXCEPT ![f] = row]
        /\ editing' = [editing EXCEPT ![e] = NoEdit]
        /\ UNCHANGED <<plans, contested, quote>>
    BY DEF updateFee
  <1>5. \A o \in Editors : o # e /\ editing[o].target = f => f \in contested
    BY <1>1 DEF PlansInv, EditorsApart
  <1> HIDE DEF row
  <1>6. PlansTypeOK' /\ TermsAgree' /\ (editing \in [Editors -> Edits])'
    <2>1. PlansTypeOK'
      BY <1>1, <1>2, <1>4 DEF PlansInv, PlansTypeOK
    <2>2. TermsAgree'
      BY <1>1, <1>2, <1>3, <1>4 DEF PlansInv, PlansTypeOK, TermsAgree
    <2>3. (editing \in [Editors -> Edits])'
      BY <1>4 DEF PlansInv, Edits
    <2>4. QED
      BY <2>1, <2>2, <2>3
  <1>7. EditorsApart'
    BY <1>4 DEF EditorsApart, PlansInv, Edits, NoEdit, PlansAndFeesAssumption
  <1>8. ASSUME NEW o \in Editors PROVE Fits(editing[o])'
    <2>1. CASE o = e
      BY <1>4, <2>1 DEF Fits, NoEdit, PlansInv, PlansAndFeesAssumption
    <2>2. CASE o # e
      <3>1. editing'[o] = editing[o] /\ Fits(editing[o])
        BY <1>4, <2>2 DEF PlansInv
      <3>2. \A q \in Fees : q # f => fees'[q] = fees[q]
        BY <1>4 DEF PlansInv, PlansTypeOK
      <3>3. fees'[f] # Null
        BY <1>1, <1>2, <1>4 DEF PlansInv, PlansTypeOK
      <3>4. QED
        BY <1>4, <1>5, <2>2, <3>1, <3>2, <3>3 DEF Fits
    <2>3. QED
      BY <2>1, <2>2
  <1>9. QED
    BY <1>6, <1>7, <1>8 DEF PlansInv

LEMMA PlansStep ==
    ASSUME PlansAndFeesAssumption, PlansInv, [PlansNext]_planVars
    PROVE  PlansInv'
  <1>1. ASSUME NEW p \in Plans, createPlan(p) PROVE PlansInv'
    BY <1>1, PlanRowWritten DEF createPlan
  <1>2. ASSUME NEW p \in Plans, setPlanStatus(p) PROVE PlansInv'
    <2>1. plans[p] \in PlanRows /\ plans[p] # Null
      BY <1>2 DEF setPlanStatus, LivePlan, PlansInv, PlansTypeOK
    <2>2. [plans[p] EXCEPT !.selling = ~plans[p].selling] \in PlanRows
      BY <2>1 DEF PlanRows
    <2>3. QED
      BY <1>2, <2>1, <2>2, PlanRowWritten DEF setPlanStatus, PlanRows
  <1>3. ASSUME NEW p \in Plans, removePlan(p) PROVE PlansInv'
    <2>1. plans[p] \in PlanRows /\ plans[p] # Null
      BY <1>3 DEF removePlan, LivePlan, PlansInv, PlansTypeOK
    <2>2. [plans[p] EXCEPT !.status = "DELETED"] \in PlanRows
      BY <2>1 DEF PlanRows
    <2>3. QED
      BY <1>3, <2>1, <2>2, PlanRowWritten DEF removePlan, PlanRows
  <1>4. ASSUME NEW f \in Fees, createFee(f) PROVE PlansInv'
    BY <1>4, FeeRowWritten DEF createFee
  <1>5. ASSUME NEW f \in Fees, removeFee(f) PROVE PlansInv'
    <2>1. fees[f] \in FeeRows /\ fees[f] # Null
      BY <1>5 DEF removeFee, LiveFee, PlansInv, PlansTypeOK
    <2>2. [fees[f] EXCEPT !.status = "DELETED"] \in FeeRows
      BY <2>1 DEF FeeRows
    <2>3. QED
      BY <1>5, <2>1, <2>2, FeeRowWritten DEF removeFee, FeeRows
  <1>6. ASSUME NEW e \in Editors, NEW p \in Plans, ReadPlan(e, p) PROVE PlansInv'
    <2>1. PICK patch \in PlanPatches : validatePlan(Merged(plans[p], patch)) /\ ReadsTerms(e, p, patch)
      BY <1>6 DEF ReadPlan, Proposed
    <2>2. [target |-> p, patch |-> patch] \in Edits
      BY DEF Edits
    <2>3. Fits([target |-> p, patch |-> patch])
      BY <1>6, <2>1 DEF Fits, ReadPlan, LivePlan, PlansAndFeesAssumption
    <2>4. QED
      BY <2>1, <2>2, <2>3, TermsRead
  <1>7. ASSUME NEW e \in Editors, NEW f \in Fees, ReadFee(e, f) PROVE PlansInv'
    <2>1. PICK patch \in FeePatches : validateFee(Merged(fees[f], patch)) /\ ReadsTerms(e, f, patch)
      BY <1>7 DEF ReadFee, Proposed
    <2>2. [target |-> f, patch |-> patch] \in Edits
      BY DEF Edits
    <2>3. Fits([target |-> f, patch |-> patch])
      BY <1>7, <2>1 DEF Fits, ReadFee, LiveFee, PlansAndFeesAssumption
    <2>4. QED
      BY <2>1, <2>2, <2>3, TermsRead
  <1>8. CASE UNCHANGED planVars
    <2>1. UNCHANGED <<plans, fees, editing, contested>>
      BY <1>8 DEF planVars
    <2>2. QED
      BY <2>1 DEF PlansInv, PlansTypeOK, EditorsApart, Fits, TermsAgree, Edits, NoEdit
  <1>9. QED
    BY <1>1, <1>2, <1>3, <1>4, <1>5, <1>6, <1>7, <1>8, PlanPatched, FeePatched DEF PlansNext

\* TermsAgree: a row of terms that no two editors met on passes its own check, although
\* an update is checked on one read and written on a later one.
THEOREM TermsStand == PlansSpec => []TermsAgree
  <1>1. PlansInit => PlansInv
    BY PlansAndFeesAssumption, PlansStart
  <1>2. PlansInv /\ [PlansNext]_planVars => PlansInv'
    BY PlansAndFeesAssumption, PlansStep
  <1>3. PlansInv => TermsAgree
    BY DEF PlansInv
  <1>4. QED
    BY <1>1, <1>2, <1>3, PTL DEF PlansSpec

-----------------------------------------------------------------------------
(* Orders of the restaurant (Restaurant).                                  *)

HIDE CountsAssumption
HIDE HorizonAssumption
HIDE TypeOfAssumption
HIDE NullAssumption
USE RestaurantAssumption

Writes == {"bill", "cancel", "rebate", "settle"}

StartsFrom(op) ==
    CASE op = "settle" -> {"BILLED"}
      [] op = "rebate" -> {"OPEN", "BILLED"}
      [] OTHER -> {"OPEN"}

\* What a request carries between its two steps.
JobFine(r) ==
    \/ r.op = "none"
    \/ /\ r.order \in DiningOrders /\ dining[r.order] # Null
       /\ \/ r.op = "add" /\ r.by \in Dishes
          \/ /\ r.op = "kot" /\ r.item \in Items
             /\ items[r.item] # Null /\ r.to \in KotStatuses
          \/ /\ r.op \in Writes /\ r.row \in OrderRows
             /\ r.row.table = dining[r.order].table

\* What a request read of its order is still there when nobody else worked on it.
AsRead(r) ==
    r.op \in Writes /\ r.order \notin crowded =>
        r.row = dining[r.order] /\ r.row.status \in StartsFrom(r.op)

JobsFine ==
    /\ DOMAIN waiters = Waiters
    /\ \A w \in Waiters : JobFine(waiters[w]) /\ AsRead(waiters[w])

Alone ==
    \A v, w \in Waiters :
        /\ waiters[v].op # "none" /\ waiters[w].op # "none"
        /\ waiters[v].order = waiters[w].order /\ v # w
        => waiters[v].order \in crowded

\* What was taken for an order is in its row, and its stock is out once it is PAID.
Settles(o) ==
    /\ dining[o] = Null => takings[o] = 0 /\ depleted[o] = 0
    /\ dining[o] # Null =>
           /\ takings[o] = dining[o].paid
           /\ depleted[o] = (IF dining[o].status = "PAID" THEN 1 ELSE 0)
           /\ dining[o].status = "PAID" => takings[o] >= dining[o].total

OrdersInv ==
    /\ RestaurantTypeOK
    /\ OneOpenOrderPerTable
    /\ JobsFine
    /\ Alone
    /\ \A o \in crowded : dining[o] # Null
    /\ \A o \in DiningOrders \ crowded : Settles(o)

LEMMA LesserOfTwo ==
    ASSUME NEW a \in Int, NEW b \in Int
    PROVE  /\ Min({a, b}) \in {a, b} /\ Min({a, b}) <= a /\ Min({a, b}) <= b
           /\ Max({a, b}) \in {a, b} /\ Max({a, b}) >= a /\ Max({a, b}) >= b
<1>1. \E x \in {a, b} : \A y \in {a, b} : x <= y
    OBVIOUS
<1>2. \E x \in {a, b} : \A y \in {a, b} : x >= y
    OBVIOUS
<1>. QED
    BY <1>1, <1>2 DEF Min, Max

LEMMA LinesCounted ==
    ASSUME NEW o
    PROVE  Cardinality(Counting(o)) \in Nat
<1>. Counting(o) \subseteq Items
    BY DEF Counting
<1>. QED
    BY FS_Subset, FS_CardinalityType

LEMMA BillIsNatural ==
    ASSUME NEW gross \in Nat, NEW discount \in Nat
    PROVE  computeBill(gross, discount) \in Nat
<1>. DEFINE off == Min({discount, gross})
<1>1. off \in {discount, gross} /\ off <= gross
    BY LesserOfTwo
<1>2. computeBill(gross, discount) = IF gross - off = 0 THEN 0 ELSE gross - off + Surcharge
    BY DEF computeBill
<1>. HIDE DEF off
<1>. QED
    BY <1>1, <1>2

LEMMA OrdersStart ==
    ASSUME RestaurantInit
    PROVE  OrdersInv
<1>. USE DEF RestaurantInit
<1>1. RestaurantTypeOK
    BY DEF RestaurantTypeOK
<1>2. OneOpenOrderPerTable
    BY DEF OneOpenOrderPerTable, StatusOf
<1>3. JobsFine /\ Alone
    BY DEF JobsFine, JobFine, AsRead, Alone, Free, Writes
<1>4. \A o \in DiningOrders \ crowded : Settles(o)
    BY DEF Settles
<1>. QED
    BY <1>1, <1>2, <1>3, <1>4 DEF OrdersInv

\* A table shown is of a table, and no other is touched.
LEMMA TableShown ==
    ASSUME RestaurantTypeOK, NEW t \in Tables \cup {Null},
           NEW status \in {"OPEN", "OCCUPIED", "BILLED", "BLOCKED"}
    PROVE  /\ Shown(t, status) \in [Tables -> {"OPEN", "OCCUPIED", "BILLED", "BLOCKED", "removed"}]
           /\ \A u \in Tables \ {t} : Shown(t, status)[u] = tables[u]
           /\ t # Null /\ tables[t] # "removed" => Shown(t, status)[t] = status
BY DEF RestaurantTypeOK, Shown

\* A request that begins reads its order; if another works on it, it is crowded.
LEMMA RequestTaken ==
    ASSUME OrdersInv, NEW w \in Waiters, NEW op, NEW o \in DiningOrders, NEW r,
           Takes(w, op, o, r), r.op # "none", r.order = o, JobFine(r),
           r.op \in Writes => r.row = dining[o] /\ r.row.status \in StartsFrom(r.op)
    PROVE  OrdersInv'
<1>. USE DEF OrdersInv, Takes
<1>1. RestaurantTypeOK'
    BY DEF RestaurantTypeOK
<1>2. OneOpenOrderPerTable'
    BY DEF OneOpenOrderPerTable, StatusOf
<1>3. \A v \in Waiters : waiters'[v] = IF v = w THEN r ELSE waiters[v]
    BY DEF JobsFine
<1>4. JobsFine'
    <2>1. ASSUME NEW v \in Waiters PROVE JobFine(waiters[v])'
        BY <1>3 DEF JobsFine, JobFine
    <2>2. ASSUME NEW v \in Waiters PROVE AsRead(waiters[v])'
        BY <1>3 DEF JobsFine, AsRead
    <2>. QED
        BY <2>1, <2>2 DEF JobsFine
<1>5. Alone'
    BY <1>3 DEF Alone
<1>6. (\A p \in DiningOrders \ crowded : Settles(p))'
    BY DEF Settles
<1>7. (\A p \in crowded : dining[p] # Null)'
    BY DEF JobsFine, JobFine
<1>. QED
    BY <1>1, <1>2, <1>4, <1>5, <1>6, <1>7

\* The requests of which none begins: one may be done.
NoneBegins ==
    /\ DOMAIN waiters' = Waiters
    /\ \A v \in Waiters : waiters'[v] = waiters[v] \/ waiters'[v].op = "none"

\* A step that writes no order keeps what is said of orders.
LEMMA OtherRowsWritten ==
    ASSUME OrdersInv, NoneBegins, UNCHANGED <<dining, takings, depleted, crowded>>,
           RestaurantTypeOK', \A i \in Items : items[i] # Null => items'[i] # Null
    PROVE  OrdersInv'
<1>. USE DEF OrdersInv, NoneBegins
<1>1. OneOpenOrderPerTable'
    BY DEF OneOpenOrderPerTable, StatusOf
<1>2. JobsFine'
    <2>1. ASSUME NEW v \in Waiters PROVE JobFine(waiters[v])'
        BY DEF JobsFine, JobFine
    <2>2. ASSUME NEW v \in Waiters PROVE AsRead(waiters[v])'
        BY DEF JobsFine, AsRead, Writes
    <2>. QED
        BY <2>1, <2>2 DEF JobsFine
<1>3. Alone'
    BY DEF Alone
<1>4. (\A p \in DiningOrders \ crowded : Settles(p))'
    BY DEF Settles
<1>. QED
    BY <1>1, <1>2, <1>3, <1>4

LEMMA FinishesKeepsOthers ==
    ASSUME JobsFine, NEW w \in Waiters, Finishes(w)
    PROVE  NoneBegins /\ waiters'[w].op = "none"
BY DEF JobsFine, Finishes, NoneBegins, Free

\* A request writes its order, and nobody else works on it unless it is crowded.
LEMMA OrderWritten ==
    ASSUME OrdersInv, NEW w \in Waiters, NEW o \in DiningOrders,
           waiters[w].op \in Writes, waiters[w].order = o,
           Finishes(w), UNCHANGED <<items, crowded>>,
           RestaurantTypeOK', dining[o] # Null, dining'[o] \in OrderRows,
           dining'[o].table = dining[o].table,
           dining'[o].status = "OPEN" => dining[o].status = "OPEN",
           \A p \in DiningOrders \ {o} :
               dining'[p] = dining[p] /\ takings'[p] = takings[p] /\ depleted'[p] = depleted[p],
           o \notin crowded => Settles(o)'
    PROVE  OrdersInv'
<1>1. NoneBegins /\ waiters'[w].op = "none"
    BY FinishesKeepsOthers DEF OrdersInv
<1>2. DOMAIN dining = DiningOrders /\ DOMAIN dining' = DiningOrders
    BY DEF OrdersInv, RestaurantTypeOK
<1>3. OneOpenOrderPerTable'
    BY <1>2 DEF OrdersInv, OneOpenOrderPerTable, StatusOf
<1>4. JobsFine'
    <2>1. ASSUME NEW v \in Waiters PROVE JobFine(waiters[v])'
        BY <1>1 DEF OrdersInv, JobsFine, JobFine, NoneBegins
    <2>2. ASSUME NEW v \in Waiters PROVE AsRead(waiters[v])'
        <3>1. CASE waiters'[v].op = "none"
            BY <3>1 DEF AsRead, Writes
        <3>2. CASE waiters'[v].op # "none"
            <4>1. waiters'[v] = waiters[v] /\ v # w
                BY <1>1, <3>2 DEF NoneBegins
            <4>2. waiters[v].order = o => o \in crowded
                BY <3>2, <4>1 DEF OrdersInv, Alone, Writes
            <4>3. waiters[v].op \in Writes => waiters[v].order \in DiningOrders
                BY DEF OrdersInv, JobsFine, JobFine, Writes
            <4>. QED
                BY <4>1, <4>2, <4>3 DEF OrdersInv, JobsFine, AsRead
        <3>. QED
            BY <3>1, <3>2
    <2>. QED
        BY <1>1, <2>1, <2>2 DEF JobsFine, NoneBegins
<1>5. Alone'
    BY <1>1 DEF OrdersInv, Alone, NoneBegins
<1>6. (\A p \in DiningOrders \ crowded : Settles(p))'
    <2>. SUFFICES ASSUME NEW p \in DiningOrders \ crowded PROVE Settles(p)'
        OBVIOUS
    <2>1. CASE p = o
        BY <2>1
    <2>2. CASE p # o
        BY <2>2 DEF OrdersInv, Settles
    <2>. QED
        BY <2>1, <2>2
<1>7. (\A p \in crowded : dining[p] # Null)'
    BY DEF OrdersInv, RestaurantTypeOK
<1>. QED
    BY <1>3, <1>4, <1>5, <1>6, <1>7 DEF OrdersInv

-----------------------------------------------------------------------------
(* The requests that write an order. *)

\* What the row of the order is to a request on it.
LEMMA RowAtHand ==
    ASSUME OrdersInv, NEW w \in Waiters, waiters[w].op \in Writes
    PROVE  /\ waiters[w].order \in DiningOrders
           /\ dining[waiters[w].order] # Null /\ dining[waiters[w].order] \in OrderRows
           /\ waiters[w].row \in OrderRows
           /\ waiters[w].row.table = dining[waiters[w].order].table
           /\ waiters[w].order \notin crowded =>
                  /\ waiters[w].row = dining[waiters[w].order]
                  /\ waiters[w].row.status \in StartsFrom(waiters[w].op)
                  /\ Settles(waiters[w].order)
<1>1. JobFine(waiters[w]) /\ AsRead(waiters[w])
    BY DEF OrdersInv, JobsFine
<1>2. waiters[w].order \in DiningOrders /\ dining[waiters[w].order] # Null
      /\ waiters[w].row \in OrderRows
      /\ waiters[w].row.table = dining[waiters[w].order].table
    BY <1>1 DEF JobFine, Writes
<1>. QED
    BY <1>1, <1>2 DEF OrdersInv, AsRead, RestaurantTypeOK

\* The row of one order written, and nothing else of the orders.
LEMMA RowOfOrderWritten ==
    ASSUME OrdersInv, NEW o \in DiningOrders, NEW row \in OrderRows,
           dining' = [dining EXCEPT ![o] = row]
    PROVE  /\ dining' \in [DiningOrders -> OrderRows \cup {Null}]
           /\ dining'[o] = row
           /\ \A p \in DiningOrders \ {o} : dining'[p] = dining[p]
BY DEF OrdersInv, RestaurantTypeOK

\* The table a request sets for its order.
LEMMA TableOfRow ==
    ASSUME OrdersInv, NEW row \in OrderRows, NEW status \in {"OPEN", "OCCUPIED", "BILLED"}
    PROVE  /\ Shown(row.table, status)
                 \in [Tables -> {"OPEN", "OCCUPIED", "BILLED", "BLOCKED", "removed"}]
           /\ \A t \in Tables : t # row.table => Shown(row.table, status)[t] = tables[t]
<1>1. row.table \in Tables \cup {Null}
    BY DEF OrderRows
<1>2. RestaurantTypeOK
    BY DEF OrdersInv
<1>. QED
    BY <1>1, <1>2, TableShown

\* A request that takes no money writes its order.
LEMMA OrderRewritten ==
    ASSUME OrdersInv, NEW w \in Waiters, waiters[w].op \in Writes,
           NEW o \in DiningOrders, o = waiters[w].order, NEW row \in OrderRows,
           dining' = [dining EXCEPT ![o] = row],
           row.table = dining[o].table, row.paid = dining[o].paid,
           row.status = "OPEN" => dining[o].status = "OPEN",
           o \notin crowded => row.status # "PAID",
           Finishes(w), UNCHANGED <<menu, items, takings, stock, depleted, crowded, disputed>>,
           tables' \in [Tables -> {"OPEN", "OCCUPIED", "BILLED", "BLOCKED", "removed"}]
    PROVE  OrdersInv'
<1>1. /\ dining' \in [DiningOrders -> OrderRows \cup {Null}]
      /\ dining'[o] = row
      /\ \A p \in DiningOrders \ {o} : dining'[p] = dining[p]
    BY RowOfOrderWritten
<1>2. RestaurantTypeOK'
    BY <1>1 DEF OrdersInv, RestaurantTypeOK
<1>3. /\ dining[o] # Null
      /\ o \notin crowded => waiters[w].row = dining[o] /\ Settles(o)
                             /\ waiters[w].row.status \in StartsFrom(waiters[w].op)
    BY RowAtHand
<1>4. o \notin crowded => dining[o].status # "PAID"
    BY <1>3 DEF StartsFrom, Writes
<1>5. o \notin crowded => Settles(o)'
    BY <1>1, <1>3, <1>4 DEF Settles
<1>. QED
    BY <1>1, <1>2, <1>3, <1>5, OrderWritten

LEMMA BillKeeps ==
    ASSUME OrdersInv, NEW w \in Waiters, bill(w)
    PROVE  OrdersInv'
<1>1. waiters[w].op \in Writes
    BY DEF bill, Doing, Writes
<1>2. PICK o \in DiningOrders : o = waiters[w].order /\ dining[o] \in OrderRows
                               /\ waiters[w].row \in OrderRows
    BY <1>1, RowAtHand
<1>. DEFINE count == Cardinality(Counting(o))
            discount == Min({waiters[w].row.discount, count})
            total == computeBill(count, discount)
            row == [dining[o] EXCEPT !.status = "BILLED", !.discount = discount, !.total = total]
<1>3. count \in Nat
    BY LinesCounted
<1>4. waiters[w].row.discount \in {0, 1} /\ waiters[w].row.table \in Tables \cup {Null}
    BY <1>2 DEF OrderRows
<1>5. discount \in {waiters[w].row.discount, count} /\ discount <= waiters[w].row.discount
    <2>. DEFINE given == waiters[w].row.discount
    <2>1. given \in Int /\ count \in Int
        BY <1>3, <1>4
    <2>. HIDE DEF given, count
    <2>2. Min({given, count}) \in {given, count} /\ Min({given, count}) <= given
        BY <2>1, LesserOfTwo
    <2>. QED
        BY <2>2 DEF given
<1>6. discount \in {0, 1}
    <2>. HIDE DEF discount, count
    <2>. QED
        BY <1>3, <1>4, <1>5
<1>7. total \in Nat
    BY <1>3, <1>6, BillIsNatural
<1>8. /\ dining' = [dining EXCEPT ![o].status = "BILLED", ![o].discount = discount,
                                 ![o].total = total]
      /\ tables' = Shown(waiters[w].row.table, "BILLED")
      /\ Finishes(w)
      /\ UNCHANGED <<menu, items, takings, stock, depleted, crowded, disputed>>
    BY <1>2 DEF bill
<1>. HIDE DEF discount, total
<1>9. dining' = [dining EXCEPT ![o] = row]
    BY <1>8 DEF OrdersInv, RestaurantTypeOK
<1>10. row \in OrderRows /\ row.table = dining[o].table /\ row.paid = dining[o].paid
       /\ row.status = "BILLED"
    BY <1>2, <1>6, <1>7 DEF OrderRows
<1>11. tables' \in [Tables -> {"OPEN", "OCCUPIED", "BILLED", "BLOCKED", "removed"}]
    BY <1>2, <1>8, TableOfRow
<1>. HIDE DEF row
<1>. QED
    BY <1>1, <1>2, <1>8, <1>9, <1>10, <1>11, OrderRewritten

\* A request that is done and leaves everything else keeps what is said.
LEMMA FailureKeeps ==
    ASSUME OrdersInv, NEW w \in Waiters, Fails(w)
    PROVE  OrdersInv'
<1>1. NoneBegins
    BY FinishesKeepsOthers DEF OrdersInv, Fails
<1>2. RestaurantTypeOK'
    BY DEF OrdersInv, RestaurantTypeOK, Fails
<1>. QED
    BY <1>1, <1>2, OtherRowsWritten DEF Fails

LEMMA CancelKeeps ==
    ASSUME OrdersInv, NEW w \in Waiters, cancel(w)
    PROVE  OrdersInv'
<1>1. waiters[w].op \in Writes
    BY DEF cancel, Doing, Writes
<1>2. PICK o \in DiningOrders : o = waiters[w].order /\ dining[o] \in OrderRows
                               /\ waiters[w].row \in OrderRows
    BY <1>1, RowAtHand
<1>. DEFINE row == [dining[o] EXCEPT !.status = "CANCELLED"]
<1>3. CASE Fails(w)
    BY <1>3, FailureKeeps
<1>4. CASE ~Fails(w)
    <2>1. /\ dining' = [dining EXCEPT ![o].status = "CANCELLED"]
          /\ tables' = Shown(waiters[w].row.table, "OPEN")
          /\ Finishes(w)
          /\ UNCHANGED <<menu, items, takings, stock, depleted, crowded, disputed>>
        BY <1>2, <1>4 DEF cancel
    <2>2. dining' = [dining EXCEPT ![o] = row]
        BY <2>1 DEF OrdersInv, RestaurantTypeOK
    <2>3. row \in OrderRows /\ row.table = dining[o].table /\ row.paid = dining[o].paid
          /\ row.status = "CANCELLED"
        BY <1>2 DEF OrderRows
    <2>4. tables' \in [Tables -> {"OPEN", "OCCUPIED", "BILLED", "BLOCKED", "removed"}]
        BY <1>2, <2>1, TableOfRow
    <2>. HIDE DEF row
    <2>. QED
        BY <1>1, <1>2, <2>1, <2>2, <2>3, <2>4, OrderRewritten
<1>. QED
    BY <1>3, <1>4

LEMMA RebateKeeps ==
    ASSUME OrdersInv, NEW w \in Waiters, RebateOrder(w)
    PROVE  OrdersInv'
<1>1. waiters[w].op \in Writes /\ waiters[w].op = "rebate"
    BY DEF RebateOrder, Doing, Writes
<1>2. PICK o \in DiningOrders :
          /\ o = waiters[w].order /\ dining[o] \in OrderRows
          /\ o \notin crowded =>
                 waiters[w].row = dining[o] /\ waiters[w].row.status \in {"OPEN", "BILLED"}
    BY <1>1, RowAtHand DEF StartsFrom
<1>. DEFINE billed == computeBill(Cardinality(Counting(o)), 1)
            total == IF waiters[w].row.status = "BILLED" THEN billed ELSE dining[o].total
            row == [dining[o] EXCEPT !.discount = 1, !.total = total]
<1>3. billed \in Nat
    BY LinesCounted, BillIsNatural
<1>4. dining' = [dining EXCEPT ![o].discount = 1,
                              ![o].total = IF waiters[w].row.status = "BILLED"
                                           THEN billed ELSE @]
      /\ Finishes(w)
      /\ UNCHANGED <<tables, menu, items, takings, stock, depleted, crowded, disputed>>
    BY <1>2 DEF RebateOrder
<1>. HIDE DEF billed
<1>5. dining' = [dining EXCEPT ![o] = row]
    BY <1>4, <1>2 DEF OrdersInv, RestaurantTypeOK, OrderRows
<1>6. total \in Nat
    BY <1>2, <1>3 DEF OrderRows
<1>. HIDE DEF total
<1>7. row \in OrderRows /\ row.table = dining[o].table /\ row.paid = dining[o].paid
      /\ row.status = dining[o].status
    BY <1>2, <1>6 DEF OrderRows
<1>8. tables' \in [Tables -> {"OPEN", "OCCUPIED", "BILLED", "BLOCKED", "removed"}]
    BY <1>4 DEF OrdersInv, RestaurantTypeOK
<1>9. o \notin crowded => row.status # "PAID"
    BY <1>2, <1>7
<1>10. Finishes(w) /\ UNCHANGED <<menu, items, takings, stock, depleted, crowded, disputed>>
    BY <1>4
<1>. HIDE DEF row
<1>. QED
    BY <1>1, <1>2, <1>5, <1>7, <1>8, <1>9, <1>10, OrderRewritten

LEMMA StockAfterIsLeft ==
    ASSUME NEW o, stock \in 0 .. InitialStock
    PROVE  StockAfter(o) \in 0 .. InitialStock
<1>. DEFINE left == stock - Cardinality(Counting(o))
<1>1. left \in Int /\ left <= InitialStock
    BY LinesCounted
<1>2. Max({0, left}) \in {0, left} /\ Max({0, left}) >= 0
    <2>. HIDE DEF left
    <2>. QED
        BY <1>1, LesserOfTwo
<1>. QED
    BY <1>1, <1>2 DEF StockAfter

\* Money taken for an order: its row, its takings and its stock go together.
LEMMA MoneyKeeps ==
    ASSUME OrdersInv, NEW w \in Waiters, waiters[w].op = "settle", NEW amount \in Nat,
           SettleFor(w, amount), Finishes(w), UNCHANGED <<menu, items, crowded, disputed>>
    PROVE  OrdersInv'
<1>1. waiters[w].op \in Writes
    BY DEF Writes
<1>2. PICK o \in DiningOrders :
          /\ o = waiters[w].order /\ dining[o] \in OrderRows /\ dining[o] # Null
          /\ waiters[w].row \in OrderRows
          /\ o \notin crowded =>
                 /\ waiters[w].row = dining[o] /\ waiters[w].row.status = "BILLED"
                 /\ Settles(o)
    BY <1>1, RowAtHand DEF StartsFrom
<1>. DEFINE paid == waiters[w].row.paid + amount
            settled == Settled(paid, waiters[w].row.total)
            status == IF settled THEN "PAID" ELSE "BILLED"
            row == [dining[o] EXCEPT !.paid = paid, !.status = status]
<1>3. /\ takings' = [takings EXCEPT ![o] = @ + amount]
      /\ dining' = [dining EXCEPT ![o].paid = paid, ![o].status = status]
      /\ settled => /\ stock' = StockAfter(o)
                    /\ depleted' = [depleted EXCEPT ![o] = @ + 1]
                    /\ tables' = Shown(waiters[w].row.table, "OPEN")
      /\ ~settled => UNCHANGED <<stock, depleted, tables>>
    BY <1>2 DEF SettleFor
<1>4. paid \in Nat /\ status \in {"PAID", "BILLED"} /\ (status = "PAID" <=> settled)
    BY <1>2 DEF OrderRows
<1>5. settled <=> paid >= waiters[w].row.total
    BY DEF Settled
<1>. HIDE DEF settled, status
<1>6. dining' = [dining EXCEPT ![o] = row]
    BY <1>3 DEF OrdersInv, RestaurantTypeOK
<1>7. row \in OrderRows /\ row.table = dining[o].table /\ row.paid = paid
      /\ row.status = status /\ row.total = dining[o].total
    BY <1>2, <1>4 DEF OrderRows
<1>. HIDE DEF row
<1>8. /\ dining' \in [DiningOrders -> OrderRows \cup {Null}]
      /\ dining'[o] = row
      /\ \A p \in DiningOrders \ {o} : dining'[p] = dining[p]
    BY <1>6, <1>7, RowOfOrderWritten
<1>9. /\ takings' \in [DiningOrders -> Nat] /\ takings'[o] = takings[o] + amount
      /\ \A p \in DiningOrders \ {o} : takings'[p] = takings[p]
    BY <1>3 DEF OrdersInv, RestaurantTypeOK
<1>10. /\ depleted' \in [DiningOrders -> Nat]
       /\ depleted'[o] = IF settled THEN depleted[o] + 1 ELSE depleted[o]
       /\ \A p \in DiningOrders \ {o} : depleted'[p] = depleted[p]
    BY <1>3 DEF OrdersInv, RestaurantTypeOK
<1>11. stock' \in 0 .. InitialStock
    BY <1>3, StockAfterIsLeft DEF OrdersInv, RestaurantTypeOK
<1>12. tables' \in [Tables -> {"OPEN", "OCCUPIED", "BILLED", "BLOCKED", "removed"}]
    <2>1. CASE settled
        BY <1>2, <1>3, <2>1, TableOfRow
    <2>2. CASE ~settled
        BY <1>3, <2>2 DEF OrdersInv, RestaurantTypeOK
    <2>. QED
        BY <2>1, <2>2
<1>13. RestaurantTypeOK'
    BY <1>8, <1>9, <1>10, <1>11, <1>12 DEF OrdersInv, RestaurantTypeOK
<1>14. o \notin crowded => Settles(o)'
    <2>. SUFFICES ASSUME o \notin crowded PROVE Settles(o)'
        OBVIOUS
    <2>1. /\ waiters[w].row = dining[o] /\ takings[o] = dining[o].paid
          /\ depleted[o] = 0
        BY <1>2 DEF Settles
    <2>2. takings'[o] = paid /\ row # Null
        BY <1>7, <1>9, <2>1
    <2>3. depleted'[o] = IF row.status = "PAID" THEN 1 ELSE 0
        BY <1>4, <1>7, <1>10, <2>1
    <2>4. row.status = "PAID" => takings'[o] >= row.total
        BY <1>4, <1>5, <1>7, <2>1, <2>2
    <2>. HIDE DEF paid
    <2>. QED
        BY <1>7, <1>8, <2>2, <2>3, <2>4 DEF Settles
<1>. HIDE DEF paid
<1>. QED
    BY <1>1, <1>2, <1>4, <1>7, <1>8, <1>9, <1>10, <1>13, <1>14, OrderWritten

LEMMA SettleKeeps ==
    ASSUME OrdersInv, NEW w \in Waiters, settle(w)
    PROVE  OrdersInv'
<1>. DEFINE row == waiters[w].row
            remaining == Max({0, row.total - row.paid})
<1>1. waiters[w].op = "settle" /\ waiters[w].op \in Writes
    BY DEF settle, Doing, Writes
<1>2. row.total \in Nat /\ row.paid \in Nat
    BY <1>1, RowAtHand DEF OrderRows
<1>3. remaining \in Nat
    <2>. DEFINE left == row.total - row.paid
    <2>1. left \in Int
        BY <1>2
    <2>. HIDE DEF left
    <2>2. Max({0, left}) \in {0, left} /\ Max({0, left}) >= 0
        BY <2>1, LesserOfTwo
    <2>3. remaining = Max({0, left})
        BY DEF left
    <2>. HIDE DEF remaining
    <2>. QED
        BY <2>1, <2>2, <2>3
<1>4. Min({1, remaining}) \in Nat
    <2>. HIDE DEF remaining
    <2>1. 1 \in Int /\ remaining \in Int
        BY <1>3
    <2>2. Min({1, remaining}) \in {1, remaining}
        BY <2>1, LesserOfTwo
    <2>. QED
        BY <1>3, <2>2
<1>5. PICK amount \in {remaining, Min({1, remaining})} : SettleFor(w, amount)
    BY DEF settle
<1>. HIDE DEF remaining
<1>6. amount \in Nat
    BY <1>3, <1>4, <1>5
<1>. QED
    BY <1>1, <1>5, <1>6, MoneyKeeps DEF settle

-----------------------------------------------------------------------------
(* The other operations, and the step. *)

LEMMA CreateKeeps ==
    ASSUME OrdersInv, NEW t \in Tables \cup {Null}, createOrder(t)
    PROVE  OrdersInv'
<1>1. PICK o \in DiningOrders :
          /\ dining[o] = Null
          /\ dining' = [dining EXCEPT ![o] = [table |-> t, status |-> "OPEN", discount |-> 0,
                                              total |-> 0, paid |-> 0]]
          /\ disputed' \subseteq disputed \cup {o}
    BY DEF createOrder
<1>. DEFINE row == [table |-> t, status |-> "OPEN", discount |-> 0, total |-> 0, paid |-> 0]
<1>2. row \in OrderRows /\ row.table = t /\ row.status = "OPEN" /\ row.paid = 0
    BY DEF OrderRows
<1>3. row # Null
    BY <1>2
<1>. HIDE DEF row
<1>4. dining' = [dining EXCEPT ![o] = row]
    BY <1>1 DEF row
<1>5. /\ dining' \in [DiningOrders -> OrderRows \cup {Null}]
      /\ dining'[o] = row
      /\ \A p \in DiningOrders \ {o} : dining'[p] = dining[p]
    BY <1>2, <1>4, RowOfOrderWritten
<1>6. UNCHANGED <<menu, items, takings, stock, depleted, waiters, crowded>>
    BY DEF createOrder
<1>7. RestaurantTypeOK'
    <2>1. tables' \in [Tables -> {"OPEN", "OCCUPIED", "BILLED", "BLOCKED", "removed"}]
        BY TableShown DEF createOrder, OrdersInv
    <2>. QED
        BY <1>1, <1>5, <1>6, <2>1 DEF OrdersInv, RestaurantTypeOK
<1>8. OneOpenOrderPerTable'
    <2>1. \A p \in DiningOrders : StatusOf(p) = "OPEN" /\ t # Null => dining[p].table # t
        BY DEF createOrder, Taken, OpenOnTable
    <2>2. DOMAIN dining = DiningOrders /\ DOMAIN dining' = DiningOrders
        BY <1>5 DEF OrdersInv, RestaurantTypeOK
    <2>3. ASSUME NEW p \in DiningOrders, p # o
          PROVE  dining'[p] = dining[p] /\ StatusOf(p)' = StatusOf(p)
        BY <1>5, <2>3 DEF StatusOf
    <2>4. OneOpenOrderPerTable
        BY DEF OrdersInv
    <2>. SUFFICES ASSUME NEW p \in DiningOrders, NEW q \in DiningOrders,
                         StatusOf(p)' = "OPEN", StatusOf(q)' = "OPEN", p # q,
                         dining'[p].table # Null
                  PROVE  dining'[p].table # dining'[q].table
        BY <2>2 DEF OneOpenOrderPerTable
    <2>5. CASE p = o
        BY <1>2, <1>5, <2>1, <2>3, <2>5
    <2>6. CASE q = o
        BY <1>2, <1>5, <2>1, <2>3, <2>6
    <2>7. CASE p # o /\ q # o
        BY <2>2, <2>3, <2>4, <2>7 DEF OneOpenOrderPerTable
    <2>. QED
        BY <2>5, <2>6, <2>7
<1>9. JobsFine'
    <2>1. ASSUME NEW v \in Waiters PROVE JobFine(waiters[v])'
        <3>1. JobFine(waiters[v])
            BY DEF OrdersInv, JobsFine
        <3>2. waiters[v].op # "none" => waiters[v].order \in DiningOrders \ {o}
            BY <1>1, <3>1 DEF JobFine
        <3>. QED
            BY <1>5, <1>6, <3>1, <3>2 DEF JobFine
    <2>2. ASSUME NEW v \in Waiters PROVE AsRead(waiters[v])'
        <3>1. waiters[v].op \in Writes => waiters[v].order \in DiningOrders \ {o}
            BY <1>1 DEF OrdersInv, JobsFine, JobFine, Writes
        <3>. QED
            BY <1>5, <1>6, <3>1 DEF OrdersInv, JobsFine, AsRead
    <2>. QED
        BY <1>6, <2>1, <2>2 DEF OrdersInv, JobsFine
<1>10. Alone'
    BY <1>6 DEF OrdersInv, Alone
<1>11. (\A p \in DiningOrders \ crowded : Settles(p))'
    <2>. SUFFICES ASSUME NEW p \in DiningOrders \ crowded PROVE Settles(p)'
        BY <1>6
    <2>1. Settles(p)
        BY DEF OrdersInv
    <2>2. CASE p = o
        BY <1>1, <1>2, <1>3, <1>5, <1>6, <2>1, <2>2 DEF Settles
    <2>3. CASE p # o
        BY <1>5, <1>6, <2>1, <2>3 DEF Settles
    <2>. QED
        BY <2>2, <2>3
<1>. QED
    <2>1. (\A p \in crowded : dining[p] # Null)'
        BY <1>3, <1>5, <1>6 DEF OrdersInv, RestaurantTypeOK
    <2>. QED
        BY <1>7, <1>8, <1>9, <1>10, <1>11, <2>1 DEF OrdersInv

LEMMA AddItemsKeeps ==
    ASSUME OrdersInv, NEW w \in Waiters, addItems(w)
    PROVE  OrdersInv'
<1>1. JobFine(waiters[w]) /\ waiters[w].op = "add"
    BY DEF OrdersInv, JobsFine, addItems, Doing
<1>2. waiters[w].order \in DiningOrders /\ waiters[w].by \in Dishes
    BY <1>1 DEF JobFine, Writes
<1>3. NoneBegins
    BY FinishesKeepsOthers DEF OrdersInv, addItems
<1>4. PICK i \in Items :
          items' = [items EXCEPT ![i] = [order |-> waiters[w].order, dish |-> waiters[w].by,
                                         kot |-> "NEW"]]
    BY DEF addItems
<1>. DEFINE line == [order |-> waiters[w].order, dish |-> waiters[w].by, kot |-> "NEW"]
<1>5. line \in ItemRows
    BY <1>2 DEF ItemRows, KotStatuses
<1>6. items' = [items EXCEPT ![i] = line]
    BY <1>4
<1>. HIDE DEF line
<1>7. items' \in [Items -> ItemRows \cup {Null}]
      /\ \A j \in Items : items[j] # Null => items'[j] # Null
    BY <1>5, <1>6 DEF OrdersInv, RestaurantTypeOK
<1>8. UNCHANGED <<tables, menu, dining, takings, stock, depleted, crowded, disputed>>
    BY DEF addItems
<1>9. RestaurantTypeOK'
    BY <1>7, <1>8 DEF OrdersInv, RestaurantTypeOK
<1>. QED
    BY <1>3, <1>7, <1>8, <1>9, OtherRowsWritten

LEMMA SetKotKeeps ==
    ASSUME OrdersInv, NEW w \in Waiters, setKotStatus(w)
    PROVE  OrdersInv'
<1>1. JobFine(waiters[w]) /\ waiters[w].op = "kot"
    BY DEF OrdersInv, JobsFine, setKotStatus, Doing
<1>2. PICK i \in Items : i = waiters[w].item /\ items[i] \in ItemRows
                         /\ waiters[w].to \in KotStatuses
    BY <1>1 DEF JobFine, Writes, OrdersInv, RestaurantTypeOK
<1>3. NoneBegins
    BY FinishesKeepsOthers DEF OrdersInv, setKotStatus
<1>. DEFINE line == [items[i] EXCEPT !.kot = waiters[w].to]
<1>4. line \in ItemRows
    BY <1>2 DEF ItemRows
<1>5. items' = [items EXCEPT ![i] = line]
    BY <1>2 DEF setKotStatus, OrdersInv, RestaurantTypeOK
<1>. HIDE DEF line
<1>6. items' \in [Items -> ItemRows \cup {Null}]
      /\ \A j \in Items : items[j] # Null => items'[j] # Null
    BY <1>4, <1>5 DEF OrdersInv, RestaurantTypeOK
<1>7. UNCHANGED <<tables, menu, dining, takings, stock, depleted, crowded, disputed>>
    BY DEF setKotStatus
<1>8. RestaurantTypeOK'
    BY <1>6, <1>7 DEF OrdersInv, RestaurantTypeOK
<1>. QED
    BY <1>3, <1>6, <1>7, <1>8, OtherRowsWritten

\* Tables and dishes changed by hand.
LEMMA FloorKeeps ==
    ASSUME OrdersInv,
           \/ \E t \in Tables, status \in {"OPEN", "OCCUPIED", "BILLED", "BLOCKED"} :
                  updateTable(t, status)
           \/ \E t \in Tables : removeTable(t)
           \/ \E dish \in Dishes, status \in {"ACTIVE", "UNAVAILABLE", "ARCHIVED"} :
                  updateItem(dish, status)
    PROVE  OrdersInv'
<1>1. UNCHANGED <<dining, items, takings, stock, depleted, waiters, crowded>>
    BY DEF updateTable, removeTable, updateItem
<1>2. tables' \in [Tables -> {"OPEN", "OCCUPIED", "BILLED", "BLOCKED", "removed"}]
    BY DEF OrdersInv, RestaurantTypeOK, updateTable, removeTable, updateItem
<1>3. menu' \in [Dishes -> {"ACTIVE", "UNAVAILABLE", "ARCHIVED"}]
    BY DEF OrdersInv, RestaurantTypeOK, updateTable, removeTable, updateItem
<1>4. RestaurantTypeOK'
    BY <1>1, <1>2, <1>3 DEF OrdersInv, RestaurantTypeOK, updateTable, removeTable, updateItem, ByHand
<1>5. NoneBegins
    BY <1>1 DEF OrdersInv, JobsFine, NoneBegins
<1>. QED
    BY <1>1, <1>4, <1>5, OtherRowsWritten

\* What a request that begins carries.
LEMMA RequestFields ==
    ASSUME NEW op, NEW o
    PROVE  /\ Request(op, o).op = op /\ Request(op, o).order = o
           /\ Request(op, o).row = dining[o]
           /\ \A i, to : LET r == [Request(op, o) EXCEPT !.item = i, !.to = to]
                         IN  r.op = op /\ r.order = o /\ r.row = dining[o]
                             /\ r.item = i /\ r.to = to
           /\ \A to, by : LET r == [Request(op, o) EXCEPT !.to = to, !.by = by]
                          IN  r.op = op /\ r.order = o /\ r.row = dining[o]
           /\ \A by : LET r == [Request(op, o) EXCEPT !.by = by]
                      IN  r.op = op /\ r.order = o /\ r.row = dining[o] /\ r.by = by
BY DEF Request, Free

LEMMA OrderRead ==
    ASSUME OrdersInv, NEW w \in Waiters, NEW o \in DiningOrders, NEW op \in Writes, NEW r,
           Takes(w, op, o, r), r.op = op, r.order = o, r.row = dining[o],
           dining[o] # Null, dining[o].status \in StartsFrom(op)
    PROVE  OrdersInv'
<1>1. dining[o] \in OrderRows
    BY DEF OrdersInv, RestaurantTypeOK
<1>2. JobFine(r) /\ r.op # "none"
    BY <1>1 DEF JobFine, Writes
<1>. QED
    BY <1>2, RequestTaken

LEMMA LineRead ==
    ASSUME OrdersInv, NEW w \in Waiters, NEW i \in Items, items[i] # Null,
           StatusOf(items[i].order) = "OPEN",
           NEW to \in KotStatuses, NEW r,
           Takes(w, "kot", items[i].order, r),
           r.op = "kot", r.order = items[i].order, r.item = i, r.to = to
    PROVE  OrdersInv'
<1>1. PICK o \in DiningOrders : o = items[i].order
    BY DEF OrdersInv, RestaurantTypeOK, ItemRows
<1>2. JobFine(r) /\ r.op # "none" /\ r.op \notin Writes
    BY <1>1 DEF JobFine, Writes, StatusOf
<1>. QED
    BY <1>1, <1>2, RequestTaken

LEMMA RequestBegins ==
    ASSUME OrdersInv, NEW w \in Waiters,
           \/ \E o \in DiningOrders, dish \in Dishes : ReadToAdd(w, o, dish)
           \/ \E i \in Items, role \in DOMAIN KOT_ROLE_TARGETS :
                  \E to \in KOT_ROLE_TARGETS[role] : ReadToSetKot(w, i, to, role)
           \/ \E i \in Items : ReadToCancelItem(w, i)
           \/ \E o \in DiningOrders :
                  ReadToBill(w, o) \/ ReadToCancel(w, o) \/ ReadToDiscount(w, o)
           \/ \E o \in DiningOrders, m \in OrderMethods, b \in Stays : ReadToSettle(w, o, m, b)
    PROVE  OrdersInv'
<1>1. ASSUME NEW o \in DiningOrders, NEW dish \in Dishes, ReadToAdd(w, o, dish)
      PROVE  OrdersInv'
    <2>. DEFINE r == [Request("add", o) EXCEPT !.by = dish]
    <2>1. r.op = "add" /\ r.order = o /\ r.by = dish
        BY RequestFields
    <2>2. Takes(w, "add", o, r) /\ dining[o] # Null
        BY <1>1 DEF ReadToAdd, StatusOf
    <2>. HIDE DEF r
    <2>3. JobFine(r) /\ r.op # "none" /\ r.op \notin Writes
        BY <2>1, <2>2 DEF JobFine, Writes
    <2>. QED
        BY <2>1, <2>2, <2>3, RequestTaken
<1>2. ASSUME NEW i \in Items, NEW role \in DOMAIN KOT_ROLE_TARGETS,
             NEW to \in KOT_ROLE_TARGETS[role], ReadToSetKot(w, i, to, role)
      PROVE  OrdersInv'
    <2>. DEFINE r == [Request("kot", items[i].order) EXCEPT !.item = i, !.to = to]
    <2>1. r.op = "kot" /\ r.order = items[i].order /\ r.item = i /\ r.to = to
        BY RequestFields
    <2>2. /\ Takes(w, "kot", items[i].order, r)
          /\ items[i] # Null /\ StatusOf(items[i].order) = "OPEN"
        BY <1>2 DEF ReadToSetKot
    <2>3. to \in KotStatuses
        BY <1>2 DEF ReadToSetKot, KOT_TRANSITIONS, KotStatuses
    <2>. HIDE DEF r
    <2>. QED
        BY <2>1, <2>2, <2>3, LineRead
<1>3. ASSUME NEW i \in Items, ReadToCancelItem(w, i)
      PROVE  OrdersInv'
    <2>. DEFINE r == [Request("kot", items[i].order) EXCEPT !.item = i, !.to = "CANCELLED"]
    <2>1. r.op = "kot" /\ r.order = items[i].order /\ r.item = i /\ r.to = "CANCELLED"
        BY RequestFields
    <2>2. /\ Takes(w, "kot", items[i].order, r)
          /\ items[i] # Null /\ StatusOf(items[i].order) = "OPEN"
        BY <1>3 DEF ReadToCancelItem
    <2>3. "CANCELLED" \in KotStatuses
        BY DEF KotStatuses
    <2>. HIDE DEF r
    <2>. QED
        BY <2>1, <2>2, <2>3, LineRead
<1>4. ASSUME NEW o \in DiningOrders, ReadToBill(w, o)
      PROVE  OrdersInv'
    <2>1. StatusOf(o) = "OPEN" /\ Takes(w, "bill", o, Request("bill", o))
        BY <1>4 DEF ReadToBill, ORDER_TRANSITIONS
    <2>. QED
        BY <2>1, RequestFields, OrderRead DEF StatusOf, StartsFrom, Writes
<1>5. ASSUME NEW o \in DiningOrders, ReadToCancel(w, o)
      PROVE  OrdersInv'
    <2>1. StatusOf(o) = "OPEN" /\ Takes(w, "cancel", o, Request("cancel", o))
        BY <1>5 DEF ReadToCancel, ORDER_TRANSITIONS
    <2>. QED
        BY <2>1, RequestFields, OrderRead DEF StatusOf, StartsFrom, Writes
<1>6. ASSUME NEW o \in DiningOrders, ReadToDiscount(w, o)
      PROVE  OrdersInv'
    <2>1. StatusOf(o) \in {"OPEN", "BILLED"} /\ Takes(w, "rebate", o, Request("rebate", o))
        BY <1>6 DEF ReadToDiscount
    <2>. QED
        BY <2>1, RequestFields, OrderRead DEF StatusOf, StartsFrom, Writes
<1>7. ASSUME NEW o \in DiningOrders, NEW m \in OrderMethods, NEW b \in Stays,
             ReadToSettle(w, o, m, b)
      PROVE  OrdersInv'
    <2>. DEFINE r == [Request("settle", o) EXCEPT !.to = m, !.by = b]
    <2>1. StatusOf(o) = "BILLED" /\ Takes(w, "settle", o, r)
        BY <1>7 DEF ReadToSettle
    <2>2. r.op = "settle" /\ r.order = o /\ r.row = dining[o]
        BY RequestFields
    <2>. HIDE DEF r
    <2>. QED
        BY <2>1, <2>2, OrderRead DEF StatusOf, StartsFrom, Writes
<1>. QED
    BY <1>1, <1>2, <1>3, <1>4, <1>5, <1>6, <1>7

LEMMA OrdersStep ==
    ASSUME OrdersInv, [RestaurantNext]_<<restaurantVars, folioVars>>
    PROVE  OrdersInv'
<1>1. ASSUME NEW w \in Waiters,
             \/ addItems(w) \/ setKotStatus(w) \/ bill(w) \/ EmptyBill(w) \/ cancel(w)
             \/ RebateOrder(w) \/ settle(w) \/ NoCashToTake(w)
      PROVE  OrdersInv'
    BY <1>1, AddItemsKeeps, SetKotKeeps, BillKeeps, CancelKeeps, RebateKeeps, SettleKeeps,
       FailureKeeps DEF EmptyBill, NoCashToTake
<1>2. CASE UNCHANGED <<restaurantVars, folioVars>>
    <2>1. UNCHANGED <<tables, menu, dining, items, takings, stock, depleted, waiters, crowded,
                      disputed>>
        BY <1>2 DEF restaurantVars
    <2>2. RestaurantTypeOK'
        BY <2>1 DEF OrdersInv, RestaurantTypeOK
    <2>3. NoneBegins
        BY <2>1 DEF OrdersInv, JobsFine, NoneBegins
    <2>. QED
        BY <2>1, <2>2, <2>3, OtherRowsWritten
<1>3. CASE RestaurantNext
    <2>1. \/ \E t \in Tables \cup {Null} : createOrder(t)
          \/ \E w \in Waiters :
                 \/ \E o \in DiningOrders, dish \in Dishes : ReadToAdd(w, o, dish)
                 \/ \E i \in Items, role \in DOMAIN KOT_ROLE_TARGETS :
                        \E to \in KOT_ROLE_TARGETS[role] : ReadToSetKot(w, i, to, role)
                 \/ \E i \in Items : ReadToCancelItem(w, i)
                 \/ \E o \in DiningOrders :
                        ReadToBill(w, o) \/ ReadToCancel(w, o) \/ ReadToDiscount(w, o)
                 \/ \E o \in DiningOrders, m \in OrderMethods, b \in Stays :
                        ReadToSettle(w, o, m, b)
          \/ \E w \in Waiters :
                 \/ addItems(w) \/ setKotStatus(w) \/ bill(w) \/ EmptyBill(w) \/ cancel(w)
                 \/ RebateOrder(w) \/ settle(w) \/ NoCashToTake(w)
          \/ \/ \E t \in Tables, status \in {"OPEN", "OCCUPIED", "BILLED", "BLOCKED"} :
                    updateTable(t, status)
             \/ \E t \in Tables : removeTable(t)
             \/ \E dish \in Dishes, status \in {"ACTIVE", "UNAVAILABLE", "ARCHIVED"} :
                    updateItem(dish, status)
        BY <1>3, ZenonT(30) DEF RestaurantNext
    <2>. QED
        BY <1>1, <2>1, CreateKeeps, RequestBegins, FloorKeeps
<1>. QED
    BY <1>2, <1>3

-----------------------------------------------------------------------------
(* The tables and the orders that sit at them. *)

Ended == {"PAID", "CANCELLED"}

\* At the table of an open order at ease nobody else has anything left to do.
FloorInv ==
    \A o \in DiningOrders :
        StatusOf(o) = "OPEN" /\ AtEase(o) =>
            /\ tables[dining[o].table] = "OCCUPIED"
            /\ \A p \in DiningOrders \ {o} :
                   dining[p] # Null /\ dining[p].table = dining[o].table =>
                       dining[p].status \in Ended

\* A step that writes no order, and sets no table but those it lists as disputed.
LEMMA FloorCalm ==
    ASSUME FloorInv, dining' = dining, crowded \subseteq crowded', disputed \subseteq disputed',
           \A o \in DiningOrders :
               StatusOf(o) = "OPEN" /\ dining[o].table # Null /\ o \notin disputed' =>
                   tables'[dining[o].table] = tables[dining[o].table]
    PROVE  FloorInv'
BY DEF FloorInv, AtEase, StatusOf

\* A request writes its order and may set the table of the order.
LEMMA FloorWritten ==
    ASSUME OrdersInv, FloorInv, NEW w \in Waiters, waiters[w].op \in Writes,
           NEW o \in DiningOrders, o = waiters[w].order, OrdersInv',
           UNCHANGED <<crowded, disputed>>,
           \A p \in DiningOrders \ {o} : dining'[p] = dining[p],
           dining'[o].table = dining[o].table,
           dining'[o].status = "OPEN" => dining[o].status = "OPEN" /\ tables' = tables,
           \A t \in Tables : t # dining[o].table => tables'[t] = tables[t]
    PROVE  FloorInv'
<1>1. /\ dining[o] # Null
      /\ o \notin crowded => dining[o].status \in {"OPEN", "BILLED"}
    BY RowAtHand DEF StartsFrom, Writes
<1>. SUFFICES ASSUME NEW q \in DiningOrders, StatusOf(q)' = "OPEN", AtEase(q)'
              PROVE  /\ tables'[dining'[q].table] = "OCCUPIED"
                     /\ \A p \in DiningOrders \ {q} :
                            dining'[p] # Null /\ dining'[p].table = dining'[q].table =>
                                dining'[p].status \in Ended
    BY DEF FloorInv
<1>2. /\ dining'[q] # Null /\ dining'[q].status = "OPEN"
      /\ StatusOf(q) = "OPEN" /\ dining'[q].table = dining[q].table
    BY <1>1 DEF StatusOf
<1>3. AtEase(q)
    BY <1>2 DEF AtEase, OrdersInv, RestaurantTypeOK
<1>4. /\ tables[dining[q].table] = "OCCUPIED"
      /\ \A p \in DiningOrders \ {q} :
             dining[p] # Null /\ dining[p].table = dining[q].table => dining[p].status \in Ended
    BY <1>2, <1>3 DEF FloorInv
<1>5. CASE q = o
    BY <1>2, <1>4, <1>5
<1>6. CASE q # o
    <2>1. dining[o].table # dining[q].table
        BY <1>1, <1>3, <1>4, <1>6 DEF AtEase, Ended
    <2>2. dining[q].table \in Tables
        BY <1>2, <1>3 DEF AtEase, OrdersInv, RestaurantTypeOK, OrderRows, StatusOf
    <2>. QED
        BY <1>2, <1>4, <1>6, <2>1, <2>2
<1>. QED
    BY <1>5, <1>6

\* An order opened at a table that is nobody's is alone there and shown.
LEMMA FloorOpened ==
    ASSUME OrdersInv, FloorInv, NEW t \in Tables \cup {Null}, createOrder(t), OrdersInv'
    PROVE  FloorInv'
<1>1. PICK o \in DiningOrders :
          /\ dining[o] = Null
          /\ dining' = [dining EXCEPT ![o] = [table |-> t, status |-> "OPEN", discount |-> 0,
                                              total |-> 0, paid |-> 0]]
          /\ disputed' = IF t # Null /\ BilledOnTable(t) THEN disputed \cup {o} ELSE disputed
    BY DEF createOrder
<1>2. /\ t # Null => tables[t] # "removed" /\ ~OpenOnTable(t)
      /\ tables' = Shown(t, "OCCUPIED") /\ crowded' = crowded
    BY DEF createOrder, Taken
<1>3. /\ dining'[o] # Null /\ dining'[o].table = t /\ dining'[o].status = "OPEN"
      /\ \A p \in DiningOrders \ {o} : dining'[p] = dining[p]
    <2>. DEFINE row == [table |-> t, status |-> "OPEN", discount |-> 0, total |-> 0, paid |-> 0]
    <2>1. row \in OrderRows /\ row.table = t /\ row.status = "OPEN"
        BY DEF OrderRows
    <2>. HIDE DEF row
    <2>2. dining' = [dining EXCEPT ![o] = row]
        BY <1>1 DEF row
    <2>. QED
        BY <2>1, <2>2, RowOfOrderWritten
<1>4. /\ \A u \in Tables \ {t} : tables'[u] = tables[u]
      /\ t # Null => tables'[t] = "OCCUPIED"
    BY <1>2, TableShown DEF OrdersInv
<1>. SUFFICES ASSUME NEW q \in DiningOrders, StatusOf(q)' = "OPEN", AtEase(q)'
              PROVE  /\ tables'[dining'[q].table] = "OCCUPIED"
                     /\ \A p \in DiningOrders \ {q} :
                            dining'[p] # Null /\ dining'[p].table = dining'[q].table =>
                                dining'[p].status \in Ended
    BY DEF FloorInv
<1>5. CASE q = o
    <2>1. t # Null /\ ~BilledOnTable(t)
        BY <1>1, <1>3, <1>5 DEF AtEase
    <2>2. ASSUME NEW p \in DiningOrders \ {o}, dining[p] # Null, dining[p].table = t
          PROVE  dining[p].status \in Ended
        <3>1. dining[p].status \notin {"OPEN", "BILLED"}
            BY <1>2, <2>1, <2>2 DEF OpenOnTable, BilledOnTable, StatusOf
        <3>2. dining[p] \in OrderRows
            BY <2>2 DEF OrdersInv, RestaurantTypeOK
        <3>. QED
            BY <3>1, <3>2 DEF OrderRows, Ended
    <2>. QED
        BY <1>3, <1>4, <1>5, <2>1, <2>2
<1>6. CASE q # o
    <2>1. dining'[q] = dining[q] /\ StatusOf(q) = "OPEN" /\ dining[q] # Null
        BY <1>3, <1>6 DEF StatusOf
    <2>2. o \notin crowded
        BY <1>1 DEF OrdersInv
    <2>3. AtEase(q)
        BY <1>1, <1>2, <1>3, <2>1, <2>2 DEF AtEase, OrdersInv, RestaurantTypeOK
    <2>4. t # dining[q].table
        BY <1>2, <2>1, <2>3 DEF OpenOnTable, AtEase
    <2>5. dining[q].table \in Tables
        BY <2>1, <2>3 DEF AtEase, OrdersInv, RestaurantTypeOK, OrderRows
    <2>. QED
        BY <1>3, <1>4, <1>6, <2>1, <2>3, <2>4, <2>5 DEF FloorInv
<1>. QED
    BY <1>5, <1>6

LEMMA FloorBilled ==
    ASSUME OrdersInv, FloorInv, NEW w \in Waiters, bill(w), OrdersInv'
    PROVE  FloorInv'
<1>1. waiters[w].op \in Writes
    BY DEF bill, Doing, Writes
<1>2. PICK o \in DiningOrders :
          /\ o = waiters[w].order /\ dining[o] \in OrderRows /\ dining[o] # Null
          /\ waiters[w].row \in OrderRows /\ waiters[w].row.table = dining[o].table
    BY <1>1, RowAtHand
<1>3. PICK discount, total :
          /\ dining' = [dining EXCEPT ![o].status = "BILLED", ![o].discount = discount,
                                     ![o].total = total]
          /\ tables' = Shown(dining[o].table, "BILLED")
          /\ UNCHANGED <<crowded, disputed>>
    BY <1>2 DEF bill
<1>4. /\ \A p \in DiningOrders \ {o} : dining'[p] = dining[p]
      /\ dining'[o].status = "BILLED" /\ dining'[o].table = dining[o].table
    <2>. DEFINE row == [dining[o] EXCEPT !.status = "BILLED", !.discount = discount,
                                         !.total = total]
    <2>1. dining' = [dining EXCEPT ![o] = row]
        BY <1>3 DEF OrdersInv, RestaurantTypeOK
    <2>2. row.status = "BILLED" /\ row.table = dining[o].table
        BY <1>2 DEF OrderRows
    <2>. HIDE DEF row
    <2>. QED
        BY <2>1, <2>2 DEF OrdersInv, RestaurantTypeOK
<1>5. \A t \in Tables : t # dining[o].table => tables'[t] = tables[t]
    BY <1>2, <1>3, TableOfRow
<1>. QED
    BY <1>1, <1>2, <1>3, <1>4, <1>5, FloorWritten

LEMMA FloorCancelled ==
    ASSUME OrdersInv, FloorInv, NEW w \in Waiters, cancel(w), OrdersInv'
    PROVE  FloorInv'
<1>1. waiters[w].op \in Writes
    BY DEF cancel, Doing, Writes
<1>2. PICK o \in DiningOrders :
          /\ o = waiters[w].order /\ dining[o] \in OrderRows /\ dining[o] # Null
          /\ waiters[w].row \in OrderRows /\ waiters[w].row.table = dining[o].table
    BY <1>1, RowAtHand
<1>3. CASE Fails(w)
    BY <1>3, FloorCalm DEF Fails
<1>4. CASE ~Fails(w)
    <2>1. /\ dining' = [dining EXCEPT ![o].status = "CANCELLED"]
          /\ tables' = Shown(dining[o].table, "OPEN")
          /\ UNCHANGED <<crowded, disputed>>
        BY <1>2, <1>4 DEF cancel
    <2>2. /\ \A p \in DiningOrders \ {o} : dining'[p] = dining[p]
          /\ dining'[o].status = "CANCELLED" /\ dining'[o].table = dining[o].table
        <3>. DEFINE row == [dining[o] EXCEPT !.status = "CANCELLED"]
        <3>1. dining' = [dining EXCEPT ![o] = row]
            BY <2>1 DEF OrdersInv, RestaurantTypeOK
        <3>2. row.status = "CANCELLED" /\ row.table = dining[o].table
            BY <1>2 DEF OrderRows
        <3>. HIDE DEF row
        <3>. QED
            BY <3>1, <3>2 DEF OrdersInv, RestaurantTypeOK
    <2>3. \A t \in Tables : t # dining[o].table => tables'[t] = tables[t]
        BY <1>2, <2>1, TableOfRow
    <2>. QED
        BY <1>1, <1>2, <2>1, <2>2, <2>3, FloorWritten
<1>. QED
    BY <1>3, <1>4

LEMMA FloorRebated ==
    ASSUME OrdersInv, FloorInv, NEW w \in Waiters, RebateOrder(w), OrdersInv'
    PROVE  FloorInv'
<1>1. waiters[w].op \in Writes
    BY DEF RebateOrder, Doing, Writes
<1>2. PICK o \in DiningOrders :
          /\ o = waiters[w].order /\ dining[o] \in OrderRows /\ dining[o] # Null
    BY <1>1, RowAtHand
<1>3. PICK total :
          /\ dining' = [dining EXCEPT ![o].discount = 1, ![o].total = total]
          /\ UNCHANGED <<tables, crowded, disputed>>
    <2>1. PICK billed :
              dining' = [dining EXCEPT ![o].discount = 1,
                                       ![o].total = IF waiters[w].row.status = "BILLED"
                                                    THEN billed ELSE @]
        BY <1>2 DEF RebateOrder
    <2>2. UNCHANGED <<tables, crowded, disputed>>
        BY DEF RebateOrder
    <2>. QED
        BY <1>2, <2>1, <2>2 DEF OrdersInv, RestaurantTypeOK, OrderRows
<1>4. /\ \A p \in DiningOrders \ {o} : dining'[p] = dining[p]
      /\ dining'[o].status = dining[o].status /\ dining'[o].table = dining[o].table
    <2>. DEFINE row == [dining[o] EXCEPT !.discount = 1, !.total = total]
    <2>1. dining' = [dining EXCEPT ![o] = row]
        BY <1>3 DEF OrdersInv, RestaurantTypeOK
    <2>2. row.status = dining[o].status /\ row.table = dining[o].table
        BY <1>2 DEF OrderRows
    <2>. HIDE DEF row
    <2>. QED
        BY <2>1, <2>2 DEF OrdersInv, RestaurantTypeOK
<1>5. UNCHANGED <<crowded, disputed>> /\ tables' = tables
    BY <1>3
<1>. QED
    BY <1>1, <1>2, <1>4, <1>5, FloorWritten

LEMMA FloorSettled ==
    ASSUME OrdersInv, FloorInv, NEW w \in Waiters, settle(w), OrdersInv'
    PROVE  FloorInv'
<1>1. waiters[w].op \in Writes
    BY DEF settle, Doing, Writes
<1>2. PICK o \in DiningOrders :
          /\ o = waiters[w].order /\ dining[o] \in OrderRows /\ dining[o] # Null
          /\ waiters[w].row \in OrderRows /\ waiters[w].row.table = dining[o].table
    BY <1>1, RowAtHand
<1>3. PICK amount : SettleFor(w, amount)
    BY DEF settle
<1>. DEFINE paid == waiters[w].row.paid + amount
            settled == Settled(paid, waiters[w].row.total)
            status == IF settled THEN "PAID" ELSE "BILLED"
<1>4. /\ dining' = [dining EXCEPT ![o].paid = paid, ![o].status = status]
      /\ settled => tables' = Shown(dining[o].table, "OPEN")
      /\ ~settled => tables' = tables
      /\ status \in {"PAID", "BILLED"}
    BY <1>2, <1>3 DEF SettleFor
<1>. HIDE DEF status, settled, paid
<1>5. UNCHANGED <<crowded, disputed>>
    BY DEF settle
<1>6. /\ \A p \in DiningOrders \ {o} : dining'[p] = dining[p]
      /\ dining'[o].status # "OPEN" /\ dining'[o].table = dining[o].table
    <2>. DEFINE row == [dining[o] EXCEPT !.paid = paid, !.status = status]
    <2>1. dining' = [dining EXCEPT ![o] = row]
        BY <1>4 DEF OrdersInv, RestaurantTypeOK
    <2>2. row.status # "OPEN" /\ row.table = dining[o].table
        BY <1>2, <1>4 DEF OrderRows
    <2>. HIDE DEF row
    <2>. QED
        BY <2>1, <2>2 DEF OrdersInv, RestaurantTypeOK
<1>7. \A t \in Tables : t # dining[o].table => tables'[t] = tables[t]
    BY <1>2, <1>4, TableOfRow
<1>. QED
    BY <1>1, <1>2, <1>5, <1>6, <1>7, FloorWritten

LEMMA FloorStep ==
    ASSUME OrdersInv, FloorInv, [RestaurantNext]_<<restaurantVars, folioVars>>
    PROVE  FloorInv'
<1>1. OrdersInv'
    BY OrdersStep
<1>2. ASSUME NEW w \in Waiters, addItems(w) \/ setKotStatus(w) \/ Fails(w) PROVE FloorInv'
    BY <1>2, FloorCalm DEF addItems, setKotStatus, Fails
<1>3. ASSUME NEW w \in Waiters, NEW op, NEW o, NEW r, Takes(w, op, o, r) PROVE FloorInv'
    BY <1>3, FloorCalm DEF Takes
<1>4. ASSUME NEW t \in Tables,
             \/ \E status \in {"OPEN", "OCCUPIED", "BILLED", "BLOCKED"} : updateTable(t, status)
             \/ removeTable(t)
      PROVE  FloorInv'
    <2>1. /\ UNCHANGED <<dining, crowded>> /\ ByHand(t)
          /\ \E status : tables' = [tables EXCEPT ![t] = status]
        BY <1>4 DEF updateTable, removeTable
    <2>2. \A u \in Tables \ {t} : tables'[u] = tables[u]
        BY <2>1 DEF OrdersInv, RestaurantTypeOK
    <2>3. disputed \subseteq disputed'
          /\ \A o \in DiningOrders :
                 StatusOf(o) = "OPEN" /\ dining[o].table = t => o \in disputed'
        BY <2>1 DEF ByHand
    <2>4. ASSUME NEW o \in DiningOrders, StatusOf(o) = "OPEN", dining[o].table # Null,
                 o \notin disputed'
          PROVE  tables'[dining[o].table] = tables[dining[o].table]
        <3>1. dining[o].table \in Tables \ {t}
            BY <2>3, <2>4 DEF OrdersInv, RestaurantTypeOK, OrderRows, StatusOf
        <3>. QED
            BY <2>2, <3>1
    <2>. QED
        BY <2>1, <2>3, <2>4, FloorCalm
<1>5. ASSUME NEW dish, NEW status, updateItem(dish, status) PROVE FloorInv'
    BY <1>5, FloorCalm DEF updateItem
<1>6. CASE UNCHANGED <<restaurantVars, folioVars>>
    BY <1>6, FloorCalm DEF restaurantVars
<1>7. CASE RestaurantNext
    <2>1. ASSUME NEW w \in Waiters,
                 \/ addItems(w) \/ setKotStatus(w) \/ bill(w) \/ EmptyBill(w) \/ cancel(w)
                 \/ RebateOrder(w) \/ settle(w) \/ NoCashToTake(w)
          PROVE  FloorInv'
        BY <1>1, <1>2, <2>1, FloorBilled, FloorCancelled, FloorRebated, FloorSettled
           DEF EmptyBill, NoCashToTake
    <2>2. ASSUME NEW w \in Waiters, NEW o \in DiningOrders,
                 \/ \E dish \in Dishes : ReadToAdd(w, o, dish)
                 \/ ReadToBill(w, o) \/ ReadToCancel(w, o) \/ ReadToDiscount(w, o)
                 \/ \E m \in OrderMethods, b \in Stays : ReadToSettle(w, o, m, b)
          PROVE  FloorInv'
        BY <1>3, <2>2
           DEF ReadToAdd, ReadToBill, ReadToCancel, ReadToDiscount, ReadToSettle
    <2>3. ASSUME NEW w \in Waiters, NEW i \in Items,
                 \/ \E role \in DOMAIN KOT_ROLE_TARGETS :
                        \E to \in KOT_ROLE_TARGETS[role] : ReadToSetKot(w, i, to, role)
                 \/ ReadToCancelItem(w, i)
          PROVE  FloorInv'
        BY <1>3, <2>3 DEF ReadToSetKot, ReadToCancelItem
    <2>4. \/ \E t \in Tables \cup {Null} : createOrder(t)
          \/ \E w \in Waiters, o \in DiningOrders :
                 \/ \E dish \in Dishes : ReadToAdd(w, o, dish)
                 \/ ReadToBill(w, o) \/ ReadToCancel(w, o) \/ ReadToDiscount(w, o)
                 \/ \E m \in OrderMethods, b \in Stays : ReadToSettle(w, o, m, b)
          \/ \E w \in Waiters, i \in Items :
                 \/ \E role \in DOMAIN KOT_ROLE_TARGETS :
                        \E to \in KOT_ROLE_TARGETS[role] : ReadToSetKot(w, i, to, role)
                 \/ ReadToCancelItem(w, i)
          \/ \E w \in Waiters :
                 \/ addItems(w) \/ setKotStatus(w) \/ bill(w) \/ EmptyBill(w) \/ cancel(w)
                 \/ RebateOrder(w) \/ settle(w) \/ NoCashToTake(w)
          \/ \E t \in Tables :
                 \/ \E status \in {"OPEN", "OCCUPIED", "BILLED", "BLOCKED"} :
                        updateTable(t, status)
                 \/ removeTable(t)
          \/ \E dish \in Dishes, status \in {"ACTIVE", "UNAVAILABLE", "ARCHIVED"} :
                 updateItem(dish, status)
        BY <1>7, ZenonT(60) DEF RestaurantNext
    <2>. QED
        BY <1>1, <1>4, <1>5, <2>1, <2>2, <2>3, <2>4, FloorOpened
<1>. QED
    BY <1>6, <1>7

\* The rows, the lines, the stock and the money of the restaurant stay of their
\* types: a discount is 0 or 1, nothing taken or billed is negative, and the
\* stock stays between nothing and what there was (OrdersService).
THEOREM RestaurantTyped == RestaurantSpec => []RestaurantTypeOK
<1>1. FolioInit /\ RestaurantInit => OrdersInv
    BY OrdersStart
<1>2. OrdersInv /\ [RestaurantNext]_<<restaurantVars, folioVars>> => OrdersInv'
    BY OrdersStep
<1>3. OrdersInv => RestaurantTypeOK
    BY DEF OrdersInv
<1>. QED
    BY <1>1, <1>2, <1>3, PTL DEF RestaurantSpec

\* An order no two requests worked on at once is PAID when what was taken covers
\* its bill, and its stock is out once; of a table one order at most is open,
\* whoever works on it; and a table with an open order is shown OCCUPIED unless a
\* hand set it, an earlier party's bill was unpaid or two requests crossed on one
\* of its orders (OrdersService.settle, cancel, create).
THEOREM OrdersSettled == RestaurantSpec => []OrdersSettleOnce
<1>. DEFINE Inv == OrdersInv /\ FloorInv
<1>1. FolioInit /\ RestaurantInit => Inv
    <2>1. RestaurantInit => FloorInv
        BY DEF RestaurantInit, FloorInv, StatusOf
    <2>. QED
        BY <2>1, OrdersStart
<1>2. Inv /\ [RestaurantNext]_<<restaurantVars, folioVars>> => Inv'
    BY OrdersStep, FloorStep
<1>3. Inv => OrdersSettleOnce
    <2>. SUFFICES ASSUME OrdersInv, FloorInv PROVE OrdersSettleOnce
        OBVIOUS
    <2>1. DOMAIN dining = DiningOrders
        BY DEF OrdersInv, RestaurantTypeOK
    <2>2. PaidInFullUnlessRaced
        <3>. SUFFICES ASSUME NEW o \in DiningOrders, StatusOf(o) = "PAID", o \notin crowded
                      PROVE  takings[o] >= dining[o].total /\ depleted[o] = 1
            BY <2>1 DEF PaidInFullUnlessRaced
        <3>. QED
            BY DEF OrdersInv, Settles, StatusOf
    <2>3. TableShowsItsOrder
        BY <2>1 DEF FloorInv, TableShowsItsOrder
    <2>. QED
        BY <2>2, <2>3 DEF OrdersSettleOnce, OrdersInv
<1>. QED
    BY <1>1, <1>2, <1>3, PTL DEF RestaurantSpec

=============================================================================
