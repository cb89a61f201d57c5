--------------------------- MODULE EscrowTxProofs ---------------------------
(***************************************************************************)
(* What holds of EscrowTx for any number of requests, escrows, proofs and  *)
(* wallets, however the statements interleave and whichever connections    *)
(* die.                                                                    *)
(***************************************************************************)
EXTENDS EscrowTx, FiniteSetTheorems, TLAPS

------------------------------------------------------------------------------
(* What a request has left to do.                                          *)
Statements ==
  {"loadProof", "saveProof", "saveMilestone", "checkMilestones", "loadToCancel", "loadToDispute",
   "loadEscrow", "loadWallet", "saveWallet", "insertPayment", "updatePayment", "compareEscrow",
   "updateEscrow", "markDisputed", "writeMilestones", "commit"}

\* All programs execute statements in this order.
Rank(statement) ==
  CASE statement = "loadProof" -> 1       [] statement = "saveProof" -> 2
    [] statement = "saveMilestone" -> 3   [] statement = "checkMilestones" -> 4
    [] statement = "loadToCancel" -> 5    [] statement = "loadToDispute" -> 6
    [] statement = "loadEscrow" -> 7      [] statement = "loadWallet" -> 8
    [] statement = "saveWallet" -> 9      [] statement = "insertPayment" -> 10
    [] statement = "updatePayment" -> 11  [] statement = "compareEscrow" -> 12
    [] statement = "updateEscrow" -> 13   [] statement = "markDisputed" -> 14
    [] statement = "writeMilestones" -> 15 [] statement = "commit" -> 16

Ordered(s) ==
  /\ s \in Seq(Statements)
  /\ \A i, j \in 1..Len(s) : i < j => Rank(s[i]) < Rank(s[j])

Elements(s) == {s[i] : i \in 1..Len(s)}
Left(w) == Elements(todo[w])

\* A statement that is executed leaves those of a higher rank.
LEMMA AfterHead ==
  ASSUME NEW s, Ordered(s), s # <<>>
  PROVE  /\ Head(s) \in Elements(s) /\ Ordered(Tail(s))
         /\ Elements(Tail(s)) = Elements(s) \ {Head(s)}
         /\ \A x \in Elements(Tail(s)) : Rank(Head(s)) < Rank(x)
<1>1. s \in Seq(Statements) /\ Len(s) \in Nat /\ Len(s) > 0 /\ Head(s) = s[1]
  BY DEF Ordered
<1>2. /\ Tail(s) \in Seq(Statements) /\ Len(Tail(s)) = Len(s) - 1
      /\ \A i \in 1..Len(Tail(s)) : Tail(s)[i] = s[i + 1]
  BY <1>1
<1>3. \A i, j \in 1..Len(s) : i < j => Rank(s[i]) < Rank(s[j])
  BY DEF Ordered
<1>4. \A x \in Statements : Rank(x) \in Nat
  BY DEF Statements, Rank
<1>5. \A i \in 1..Len(s) : s[i] \in Statements /\ Rank(s[i]) \in Nat
  BY <1>1, <1>4
<1>6. ASSUME NEW x \in Elements(Tail(s))
      PROVE  x \in Elements(s) \ {Head(s)} /\ Rank(Head(s)) < Rank(x)
  <2>1. PICK i \in 1..Len(Tail(s)) : x = Tail(s)[i]
    BY <1>6 DEF Elements
  <2>2. i + 1 \in 1..Len(s) /\ 1 \in 1..Len(s) /\ 1 < i + 1 /\ x = s[i + 1]
    BY <1>1, <1>2, <2>1
  <2>3. Rank(s[1]) < Rank(s[i + 1]) /\ Rank(s[1]) \in Nat /\ Rank(s[i + 1]) \in Nat
    BY <1>3, <1>5, <2>2
  <2>4. x # Head(s) /\ Rank(Head(s)) < Rank(x)
    BY <1>1, <2>2, <2>3
  <2> QED
    BY <2>2, <2>4 DEF Elements
<1>7. ASSUME NEW x \in Elements(s) \ {Head(s)} PROVE x \in Elements(Tail(s))
  <2>1. PICK i \in 1..Len(s) : x = s[i]
    BY <1>7 DEF Elements
  <2>2. i - 1 \in 1..Len(Tail(s)) /\ x = Tail(s)[i - 1]
    BY <1>1, <1>2, <1>7, <2>1
  <2> QED
    BY <2>2 DEF Elements
<1>8. Ordered(Tail(s))
  <2> SUFFICES ASSUME NEW i \in 1..Len(Tail(s)), NEW j \in 1..Len(Tail(s)), i < j
               PROVE  Rank(Tail(s)[i]) < Rank(Tail(s)[j])
    BY <1>2 DEF Ordered
  <2>1. i + 1 \in 1..Len(s) /\ j + 1 \in 1..Len(s) /\ i + 1 < j + 1
    BY <1>1, <1>2
  <2> QED
    BY <1>2, <1>3, <2>1
<1> QED
  BY <1>1, <1>6, <1>7, <1>8 DEF Elements

\* The programs, as sets of statements.
Finishing == {"loadWallet", "saveWallet", "compareEscrow", "updateEscrow"}
Completing == {"loadEscrow", "updatePayment", "writeMilestones"} \cup Finishing
First(kind) ==
  CASE kind = "fund" -> {"loadEscrow", "insertPayment", "writeMilestones", "commit"} \cup Finishing
    [] kind = "cancel" -> {"loadToCancel"}
    [] kind = "dispute" -> {"loadToDispute", "markDisputed", "commit"}
    [] kind = "complete" -> Completing \cup {"commit"}
    [] kind = "release" -> Completing \cup {"commit"}
    [] kind = "accept" -> {"loadProof", "saveProof", "commit"} \cup Completing
    [] kind = "reject" -> {"loadProof", "saveProof", "commit"}
    [] kind = "milestone" -> {"saveMilestone", "checkMilestones"}
    [] OTHER -> {}

\* Lists of statements, written out, that are in order.
LEMMA RankTable ==
  /\ Rank("loadProof") = 1 /\ Rank("saveProof") = 2 /\ Rank("saveMilestone") = 3
  /\ Rank("checkMilestones") = 4 /\ Rank("loadToCancel") = 5 /\ Rank("loadToDispute") = 6
  /\ Rank("loadEscrow") = 7 /\ Rank("loadWallet") = 8 /\ Rank("saveWallet") = 9
  /\ Rank("insertPayment") = 10 /\ Rank("updatePayment") = 11 /\ Rank("compareEscrow") = 12
  /\ Rank("updateEscrow") = 13 /\ Rank("markDisputed") = 14 /\ Rank("writeMilestones") = 15
  /\ Rank("commit") = 16
BY DEF Rank

LEMMA ShortLists ==
  /\ Ordered(<<>>) /\ Elements(<<>>) = {}
  /\ Ordered(<<"commit">>) /\ Elements(<<"commit">>) = {"commit"}
  /\ Ordered(<<"loadToCancel">>) /\ Elements(<<"loadToCancel">>) = {"loadToCancel"}
  /\ Ordered(<<"saveMilestone", "checkMilestones">>)
  /\ Elements(<<"saveMilestone", "checkMilestones">>) = {"saveMilestone", "checkMilestones"}
  /\ Ordered(<<"loadProof", "saveProof", "commit">>)
  /\ Elements(<<"loadProof", "saveProof", "commit">>) = {"loadProof", "saveProof", "commit"}
  /\ Ordered(<<"loadToDispute", "markDisputed", "commit">>)
  /\ Elements(<<"loadToDispute", "markDisputed", "commit">>)
       = {"loadToDispute", "markDisputed", "commit"}
BY RankTable DEF Ordered, Elements, Statements

LEMMA CompletionOrdered == Ordered(Completion) /\ Elements(Completion) = Completing
<1>1. Ordered(Completion)
  BY RankTable DEF Completion, Ordered, Statements
<1>2. Elements(Completion) = Completing
  BY DEF Completion, Elements, Completing, Finishing
<1> QED
  BY <1>1, <1>2

\* Putting lists in order one behind the other.
LEMMA Behind ==
  ASSUME NEW s, NEW t, Ordered(s), Ordered(t),
         \A x \in Elements(s), y \in Elements(t) : Rank(x) < Rank(y)
  PROVE  Ordered(s \o t) /\ Elements(s \o t) = Elements(s) \cup Elements(t)
<1>1. /\ s \in Seq(Statements) /\ t \in Seq(Statements) /\ s \o t \in Seq(Statements)
      /\ Len(s) \in Nat /\ Len(t) \in Nat /\ Len(s \o t) = Len(s) + Len(t)
      /\ \A i \in 1..Len(s) + Len(t) : (s \o t)[i] = IF i <= Len(s) THEN s[i] ELSE t[i - Len(s)]
  BY DEF Ordered
<1> DEFINE m == Len(s)
           n == Len(t)
           both == s \o t
<1>2. m \in Nat /\ n \in Nat /\ Len(both) = m + n /\ both \in Seq(Statements)
  BY <1>1
<1>3. \A i \in 1..m : both[i] = s[i] /\ s[i] \in Elements(s)
  BY <1>1 DEF Elements
<1>4. \A i \in 1..m + n : ~(i <= m) => both[i] = t[i - m] /\ i - m \in 1..n /\ t[i - m] \in Elements(t)
  BY <1>1 DEF Elements
<1>5. \A i \in 1..n : both[i + m] = t[i] /\ i + m \in 1..m + n
  BY <1>1
<1>6. /\ \A i, j \in 1..m : i < j => Rank(s[i]) < Rank(s[j])
      /\ \A i, j \in 1..n : i < j => Rank(t[i]) < Rank(t[j])
  BY DEF Ordered
<1>7. Elements(s) = {s[i] : i \in 1..m} /\ Elements(t) = {t[i] : i \in 1..n}
  BY DEF Elements
<1>8. Elements(both) = {both[i] : i \in 1..m + n}
  BY <1>2 DEF Elements
<1> HIDE DEF m, n, both
<1>9. ASSUME NEW i \in 1..m + n, NEW j \in 1..m + n, i < j PROVE Rank(both[i]) < Rank(both[j])
  <2>1. CASE j <= m
    BY <1>2, <1>3, <1>6, <1>9, <2>1
  <2>2. CASE i <= m /\ ~(j <= m)
    BY <1>2, <1>3, <1>4, <2>2
  <2>3. CASE ~(i <= m)
    <3>1. ~(j <= m) /\ i - m < j - m
      BY <1>2, <1>9, <2>3
    <3> QED
      BY <1>4, <1>6, <2>3, <3>1
  <2> QED
    BY <2>1, <2>2, <2>3
<1>10. Elements(both) = Elements(s) \cup Elements(t)
  <2>1. ASSUME NEW i \in 1..m + n PROVE both[i] \in Elements(s) \cup Elements(t)
    BY <1>2, <1>3, <1>4, <2>1
  <2>2. ASSUME NEW i \in 1..m PROVE s[i] \in Elements(both)
    BY <1>2, <1>3, <1>8, <2>2
  <2>3. ASSUME NEW i \in 1..n PROVE t[i] \in Elements(both)
    BY <1>5, <1>8, <2>3
  <2> QED
    BY <1>7, <1>8, <2>1, <2>2, <2>3
<1> QED
  BY <1>2, <1>9, <1>10 DEF Ordered, both

LEMMA ClosingOrdered ==
  /\ Ordered(Completion \o <<"commit">>)
  /\ Elements(Completion \o <<"commit">>) = Completing \cup {"commit"}
BY CompletionOrdered, ShortLists, RankTable, Behind DEF Completing, Finishing

Kinds == {"fund", "cancel", "dispute", "complete", "release", "accept", "reject", "milestone"}

LEMMA ProgramsOrdered ==
  ASSUME NEW r \in Requests
  PROVE  Ordered(Program(r)) /\ Elements(Program(r)) = First(r.kind)
<1>1. r.kind \in Kinds
  BY DEF Requests, Request, Kinds
<1>2. CASE r.kind = "fund"
  <2>1. Program(r) = <<"loadEscrow", "loadWallet", "saveWallet", "insertPayment", "compareEscrow",
                       "updateEscrow", "writeMilestones", "commit">>
    BY <1>2 DEF Program
  <2>2. Ordered(Program(r))
    BY <2>1, RankTable DEF Ordered, Statements
  <2>3. Elements(Program(r)) = First(r.kind)
    BY <1>2, <2>1 DEF Elements, First, Finishing
  <2> QED
    BY <2>2, <2>3
<1>3. CASE r.kind = "cancel"
  BY <1>3, ShortLists DEF Program, First
<1>4. CASE r.kind = "complete"
  BY <1>4, ClosingOrdered DEF Program, First
<1>5. CASE r.kind = "release"
  BY <1>5, ClosingOrdered DEF Program, First
<1>6. CASE r.kind = "accept"
  <2>1. /\ Ordered(<<"loadProof", "saveProof">>)
        /\ Elements(<<"loadProof", "saveProof">>) = {"loadProof", "saveProof"}
    BY RankTable DEF Ordered, Elements, Statements
  <2>2. /\ Ordered(<<"loadProof", "saveProof">> \o Completion)
        /\ Elements(<<"loadProof", "saveProof">> \o Completion)
             = {"loadProof", "saveProof"} \cup Completing
    BY <2>1, CompletionOrdered, RankTable, Behind DEF Completing, Finishing
  <2>3. /\ Ordered((<<"loadProof", "saveProof">> \o Completion) \o <<"commit">>)
        /\ Elements((<<"loadProof", "saveProof">> \o Completion) \o <<"commit">>)
             = {"loadProof", "saveProof"} \cup Completing \cup {"commit"}
    BY <2>2, ShortLists, RankTable, Behind DEF Completing, Finishing
  <2>4. Program(r) = (<<"loadProof", "saveProof">> \o Completion) \o <<"commit">>
    BY <1>6 DEF Program
  <2> QED
    BY <1>6, <2>3, <2>4 DEF First
<1>7. CASE r.kind = "reject"
  BY <1>7, ShortLists DEF Program, First
<1>8. CASE r.kind = "milestone"
  BY <1>8, ShortLists DEF Program, First
<1>9. CASE r.kind = "dispute"
  BY <1>9, ShortLists DEF Program, First
<1> QED
  BY <1>1, <1>2, <1>3, <1>4, <1>5, <1>6, <1>7, <1>8, <1>9 DEF Kinds

------------------------------------------------------------------------------
(* Rows.                                                                   *)
Rows ==
  {W(u) : u \in Users} \cup {E(e) : e \in Escrows} \cup {P(k) : k \in PaymentIds}
  \cup {M(m) : m \in Milestones} \cup {D(p) : p \in Proofs}

EscrowRows == [status : EscrowStatus, paymentId : PaymentIds \cup {None}]

MilestoneStatus == {"PENDING", "COMPLETED", "DISPUTED"}
MilestoneRows == [status : MilestoneStatus, by : Workers \cup {None}]

Fits(row, value) ==
  /\ \A u \in Users : row = W(u) => value \in Nat
  /\ \A e \in Escrows : row = E(e) => value \in EscrowRows
  /\ \A k \in PaymentIds : row = P(k) => value \in {"ABSENT", "ESCROW", "COMPLETED", "REFUNDED"}
  /\ \A m \in Milestones : row = M(m) => value \in MilestoneRows

LEMMA RowsDiffer ==
  \A x, y : /\ W(x) = W(y) => x = y
            /\ E(x) = E(y) => x = y
            /\ P(x) = P(y) => x = y
            /\ M(x) = M(y) => x = y
            /\ D(x) = D(y) => x = y
            /\ W(x) # E(y) /\ W(x) # P(y) /\ W(x) # M(y) /\ W(x) # D(y)
            /\ E(x) # P(y) /\ E(x) # M(y) /\ E(x) # D(y)
            /\ P(x) # M(y) /\ P(x) # D(y) /\ M(x) # D(y)
BY DEF W, E, P, M, D

\* A write laid over earlier ones, and a transaction laid over the committed rows.
LEMMA Overlay ==
  ASSUME NEW f, NEW row, NEW value
  PROVE  /\ DOMAIN With(f, row, value) = DOMAIN f \cup {row}
         /\ With(f, row, value)[row] = value
         /\ \A x \in DOMAIN f \ {row} : With(f, row, value)[x] = f[x]
BY DEF With

LEMMA Merge ==
  ASSUME NEW f, NEW g
  PROVE  /\ DOMAIN Over(f, g) = DOMAIN f \cup DOMAIN g
         /\ \A x \in DOMAIN f : Over(f, g)[x] = f[x]
         /\ \A x \in DOMAIN g \ DOMAIN f : Over(f, g)[x] = g[x]
BY DEF Over

LEMMA NoWrites == DOMAIN <<>> = {}
OBVIOUS

------------------------------------------------------------------------------
(* What is true of one request at a time.                                  *)
Shape ==
  /\ DOMAIN db = Rows
  /\ DOMAIN writes = Workers /\ DOMAIN request = Workers
  /\ DOMAIN todo = Workers /\ DOMAIN mem = Workers

\* The statements that a request may ever have to execute.
MayRun(kind) ==
  CASE kind = "cancel" -> {"loadToCancel", "updatePayment", "commit"} \cup Finishing
    [] kind = "milestone" -> {"saveMilestone", "checkMilestones", "commit"} \cup Completing
    [] OTHER -> First(kind)

Branching == {"loadToCancel", "saveMilestone", "checkMilestones"}

\* A request executes all that follows the statement it is at, the end of a transaction last; it
\* has no open writes when it has ended, nor without a transaction up to the escrow's own save.
RequestOK(w) ==
  /\ request[w] \in Offered \cup {NoRequest}
  /\ request[w] = NoRequest => todo[w] = <<>>
  /\ Ordered(todo[w])
  /\ Left(w) \subseteq MayRun(request[w].kind)
  /\ \A x \in Left(w) \ Branching, y \in MayRun(request[w].kind) : Rank(x) < Rank(y) => y \in Left(w)
  /\ todo[w] = <<>> \/ (request[w].kind = "complete" /\ "updateEscrow" \in Left(w)) =>
       DOMAIN writes[w] = {}
  /\ InFlight(w) => Left(w) \cap {"loadToCancel", "checkMilestones", "commit"} # {}

Memories ==
  [balance : Int, paymentId : PaymentIds \cup {None}, milestones : SUBSET (Milestones \X MilestoneRows),
   dirty : SUBSET {"status", "paymentId", "completedAt"},
   back : SUBSET (Milestones \X (MilestoneStatus \cup {None})), wrote : BOOLEAN]

\* What it has in memory is what its next write needs.
MemOK(w) ==
  /\ mem[w] \in Memories
  /\ "saveWallet" \in Left(w) /\ "loadWallet" \notin Left(w) =>
       mem[w].balance + Amount(request[w]) \in Nat
  /\ InFlight(w) /\ request[w].kind \in {"fund", "accept"} =>
       "saveWallet" \in Left(w) \/ mem[w].wrote
  /\ InFlight(w) /\ request[w].kind = "accept" =>
       "compareEscrow" \in Left(w) \/ "completedAt" \in mem[w].dirty

\* A transaction writes the proof's row first, and after the escrow's row only milestones.
WritesOK(w) ==
  /\ \A row \in DOMAIN writes[w] : row \in Rows /\ Fits(row, writes[w][row])
  /\ \A e \in Escrows : E(e) \in DOMAIN writes[w] =>
       e = request[w].escrow /\ Left(w) \subseteq {"writeMilestones", "commit"}
  /\ \A p \in Proofs : D(p) \in DOMAIN writes[w] =>
       /\ p = request[w].on /\ request[w].kind \in {"accept", "reject"}
       /\ writes[w][D(p)] = "ACCEPTED" <=> request[w].kind = "accept"
  /\ InFlight(w) /\ request[w].kind = "accept" =>
       "saveProof" \in Left(w) \/ D(request[w].on) \in DOMAIN writes[w]

WorkerOK(w) == RequestOK(w) /\ MemOK(w) /\ WritesOK(w)

DbOK == \A row \in Rows : Fits(row, db[row])
Exclusive == \A v, w \in Workers : v # w => DOMAIN writes[v] \cap DOMAIN writes[w] = {}

\* TypeOK is not inductive: that wallets stay in Nat needs to know what transactions will write.
TxInv == Shape /\ DbOK /\ Exclusive /\ \A w \in Workers : WorkerOK(w)

LEMMA WhatIsRequested ==
  ASSUME NEW r \in Requests
  PROVE  /\ r.kind \in Kinds
         /\ r.escrow \in Escrows
         /\ r.kind \in {"accept", "reject"} => r.on \in Proofs /\ r.escrow = ProofOf[r.on]
         /\ r.kind = "milestone" => r.on \in Milestones /\ r.escrow = MilestoneOf[r.on]
         /\ r.kind = "milestone" => r.to \in MilestoneStatus
         /\ r # NoRequest
BY EscrowTxAssumption DEF Requests, Request, Kinds, MilestoneStatus

LEMMA InFlightRequest ==
  ASSUME NEW w \in Workers, RequestOK(w), InFlight(w)
  PROVE  request[w] \in Offered /\ request[w] \in Requests
BY EscrowTxAssumption DEF RequestOK, InFlight

LEMMA LeftInFlight ==
  ASSUME NEW w \in Workers, RequestOK(w)
  PROVE  /\ InFlight(w) <=> Left(w) # {}
         /\ \A s : At(w, s) => s \in Left(w) /\ InFlight(w)
         /\ \A s, x : At(w, s) /\ x \in Left(w) => x = s \/ Rank(s) < Rank(x)
<1>1. Ordered(todo[w])
  BY DEF RequestOK
<1>2. CASE todo[w] = <<>>
  BY <1>2, ShortLists DEF InFlight, Left, At
<1>3. CASE todo[w] # <<>>
  BY <1>1, <1>3, AfterHead DEF InFlight, Left, At
<1> QED
  BY <1>2, <1>3

\* What rows look like to a request after it has written one.
LEMMA UpdateDoes ==
  ASSUME Shape, NEW w \in Workers, NEW row \in Rows, NEW value, Update(w, row, value)
  PROVE  /\ \A v \in Workers \ {w} : row \notin DOMAIN writes[v] /\ writes'[v] = writes[v]
         /\ DOMAIN writes' = Workers /\ DOMAIN db' = Rows
         /\ InTransaction(w) =>
              /\ db' = db
              /\ DOMAIN writes'[w] = DOMAIN writes[w] \cup {row}
              /\ writes'[w][row] = value
              /\ \A x \in DOMAIN writes[w] \ {row} : writes'[w][x] = writes[w][x]
         /\ ~InTransaction(w) =>
              /\ writes' = writes /\ db'[row] = value
              /\ \A x \in Rows \ {row} : db'[x] = db[x]
<1>1. CASE InTransaction(w)
  <2>1. writes' = [writes EXCEPT ![w] = With(@, row, value)] /\ db' = db
    BY <1>1 DEF Update
  <2>2. writes'[w] = With(writes[w], row, value)
    BY <2>1 DEF Shape
  <2>3. /\ DOMAIN writes'[w] = DOMAIN writes[w] \cup {row} /\ writes'[w][row] = value
        /\ \A x \in DOMAIN writes[w] \ {row} : writes'[w][x] = writes[w][x]
    BY <2>2 DEF With
  <2>4. DOMAIN writes' = Workers /\ \A v \in Workers \ {w} : writes'[v] = writes[v]
    BY <2>1 DEF Shape
  <2>5. \A v \in Workers \ {w} : row \notin DOMAIN writes[v]
    BY DEF Update, Unlocked
  <2> QED
    BY <1>1, <2>1, <2>3, <2>4, <2>5 DEF Shape
<1>2. CASE ~InTransaction(w)
  BY <1>2 DEF Update, Unlocked, Shape
<1> QED
  BY <1>1, <1>2

------------------------------------------------------------------------------
(* A step is one request's, and changes rows in one of three ways.         *)
Acts(w) == (\E r \in Offered : Begin(w, r)) \/ Step(w) \/ Crash(w)

Untouched(w) ==
  \A v \in Workers \ {w} : /\ todo'[v] = todo[v] /\ mem'[v] = mem[v]
                          /\ request'[v] = request[v] /\ writes'[v] = writes[v]

\* The requests that make an escrow FUNDED or DISPUTED.
MadeBy(status) == IF status = "FUNDED" THEN "fund" ELSE "dispute"

\* Only a review writes a proof; an escrow's row is written last, and only a funding makes its
\* status FUNDED and only a dispute DISPUTED.
Allowed(w, row, value) ==
  /\ Fits(row, value)
  /\ \A e : row = E(e) =>
       /\ e = request[w].escrow
       /\ At(w, "updateEscrow") \/ At(w, "markDisputed")
       /\ value.status \in {"FUNDED", "DISPUTED"} =>
            request[w].kind = MadeBy(value.status) \/ See(w, row).status = value.status
  /\ \A p : row = D(p) =>
       /\ p = request[w].on /\ request[w].kind \in {"accept", "reject"}
       /\ value = "ACCEPTED" <=> request[w].kind = "accept"
  /\ At(w, "saveProof") => row = D(request[w].on)
Stores(w) == \E row \in Rows : \E value : Allowed(w, row, value) /\ Update(w, row, value)
Ends(w) == DOMAIN writes'[w] = {} /\ db' \in {db, Over(writes[w], db)}

LEMMA NextActs == Next => \E w \in Workers : Acts(w)
BY DEF Next, Acts

LEMMA SeeFits ==
  ASSUME TxInv, NEW w \in Workers, NEW row \in Rows
  PROVE  Fits(row, See(w, row))
BY DEF TxInv, WorkerOK, WritesOK, DbOK, See

LEMMA SeeRows ==
  ASSUME TxInv, NEW w \in Workers
  PROVE  /\ \A u \in Users : W(u) \in Rows /\ See(w, W(u)) \in Nat
         /\ \A e \in Escrows : E(e) \in Rows /\ See(w, E(e)) \in EscrowRows
         /\ \A k \in PaymentIds : P(k) \in Rows
         /\ \A m \in Milestones : M(m) \in Rows /\ See(w, M(m)) \in MilestoneRows
         /\ \A p \in Proofs : D(p) \in Rows
<1>1. /\ \A u \in Users : W(u) \in Rows
      /\ \A e \in Escrows : E(e) \in Rows
      /\ \A k \in PaymentIds : P(k) \in Rows
      /\ \A m \in Milestones : M(m) \in Rows
      /\ \A p \in Proofs : D(p) \in Rows
  BY DEF Rows
<1> QED
  BY <1>1, SeeFits DEF Fits

\* What a request moves, of whom, and to which status.
LEMMA WhatRequestsDo ==
  ASSUME NEW r \in Requests
  PROVE  /\ Party(r) \in Users /\ Amount(r) \in Int
         /\ NewStatus(r) \in EscrowStatus
         /\ NewPayment(r) \in {"REFUNDED", "COMPLETED"}
         /\ NewStatus(r) = "FUNDED" <=> r.kind = "fund"
         /\ NewStatus(r) = "DISPUTED" <=> r.kind = "dispute"
         /\ r.kind \in {"accept", "release", "complete", "milestone"} => NewStatus(r) = "COMPLETED"
<1>1. r.escrow \in Escrows
  BY WhatIsRequested
<1>2. Party(r) \in Users /\ Amount(r) \in Int
  BY <1>1, EscrowTxAssumption DEF Party, Amount
<1>3. NewPayment(r) \in {"REFUNDED", "COMPLETED"}
  BY DEF NewPayment
<1>4. CASE r.kind = "fund"
  BY <1>2, <1>3, <1>4 DEF NewStatus, EscrowStatus
<1>5. CASE r.kind = "cancel"
  BY <1>2, <1>3, <1>5 DEF NewStatus, EscrowStatus
<1>6. CASE r.kind = "dispute"
  BY <1>2, <1>3, <1>6 DEF NewStatus, EscrowStatus
<1>7. CASE r.kind \notin {"fund", "cancel", "dispute"}
  BY <1>2, <1>3, <1>7 DEF NewStatus, EscrowStatus
<1> QED
  BY <1>4, <1>5, <1>6, <1>7

\* Where a statement is the next one, those of lower rank have been executed.
LEMMA AtIsFirst ==
  ASSUME NEW w \in Workers, RequestOK(w), NEW s, At(w, s)
  PROVE  /\ request[w] \in Requests /\ request[w] \in Offered /\ InFlight(w)
         /\ s \in Left(w) /\ \A x \in Left(w) : x = s \/ Rank(s) < Rank(x)
BY LeftInFlight, InFlightRequest

\* Escrows are written in transactions, if only in that of the save.
LEMMA EscrowInTransaction ==
  ASSUME TxInv, NEW w \in Workers, At(w, "updateEscrow") \/ At(w, "markDisputed")
  PROVE  /\ InTransaction(w)
         /\ At(w, "markDisputed") <=> request[w].kind = "dispute"
<1>1. CASE At(w, "updateEscrow")
  <2>1. request[w].kind # "dispute"
    <3>1. "updateEscrow" \in MayRun(request[w].kind)
      BY <1>1, AtIsFirst DEF TxInv, WorkerOK, RequestOK
    <3> QED
      BY <3>1 DEF MayRun, First
  <2> QED
    BY <1>1, <2>1 DEF InTransaction, At
<1>2. CASE At(w, "markDisputed")
  <2>1. request[w] \in Requests /\ "markDisputed" \in MayRun(request[w].kind)
    BY <1>2, AtIsFirst DEF TxInv, WorkerOK, RequestOK
  <2>2. request[w].kind = "dispute"
    BY <2>1, WhatIsRequested DEF Kinds, MayRun, First, Completing, Finishing
  <2> QED
    BY <1>2, <2>2 DEF InTransaction
<1> QED
  BY <1>1, <1>2

\* What each of the writing statements writes.
LEMMA StoresWallet ==
  ASSUME TxInv, NEW w \in Workers, SaveWallet(w)
  PROVE  Stores(w)
<1>1. At(w, "saveWallet") /\ RequestOK(w) /\ MemOK(w)
  BY DEF SaveWallet, TxInv, WorkerOK
<1>2. request[w] \in Requests /\ "saveWallet" \in Left(w) /\ "loadWallet" \notin Left(w)
  BY <1>1, AtIsFirst, RankTable
<1>3. mem[w].balance + Amount(request[w]) \in Nat
  BY <1>1, <1>2 DEF MemOK
<1> DEFINE row == W(Party(request[w]))
           value == mem[w].balance + Amount(request[w])
<1>4. row \in Rows /\ Update(w, row, value)
  BY <1>2, WhatRequestsDo, SeeRows DEF SaveWallet
<1>5. Fits(row, value)
  BY <1>3, RowsDiffer DEF Fits
<1>6. Allowed(w, row, value)
  BY <1>1, <1>5, RowsDiffer DEF Allowed, At
<1> QED
  BY <1>4, <1>6 DEF Stores

LEMMA StoresPayment ==
  ASSUME TxInv, NEW w \in Workers, InsertPayment(w) \/ UpdatePayment(w)
  PROVE  Stores(w) \/ UNCHANGED <<db, writes>>
<1>1. RequestOK(w) /\ MemOK(w)
  BY DEF TxInv, WorkerOK
<1>2. request[w] \in Requests
  BY <1>1, AtIsFirst DEF InsertPayment, UpdatePayment
<1>3. ASSUME NEW k \in PaymentIds, NEW value \in {"ESCROW", "REFUNDED", "COMPLETED"},
             Update(w, P(k), value)
      PROVE  Stores(w)
  <2>1. Fits(P(k), value) /\ ~At(w, "saveProof")
    BY RowsDiffer DEF Fits, InsertPayment, UpdatePayment, At
  <2>2. Allowed(w, P(k), value)
    BY <2>1, RowsDiffer DEF Allowed
  <2> QED
    BY <1>3, <2>2, SeeRows DEF Stores
<1>4. CASE InsertPayment(w)
  BY <1>3, <1>4 DEF InsertPayment, PaymentIds
<1>5. CASE UpdatePayment(w)
  <2>1. NewPayment(request[w]) \in {"ESCROW", "REFUNDED", "COMPLETED"}
    BY <1>2, WhatRequestsDo
  <2>2. mem[w].paymentId \in PaymentIds \cup {None}
    BY <1>1 DEF MemOK, Memories
  <2> QED
    BY <1>3, <1>5, <2>1, <2>2 DEF UpdatePayment
<1> QED
  BY <1>4, <1>5

LEMMA StoresEscrow ==
  ASSUME TxInv, NEW w \in Workers, UpdateEscrow(w)
  PROVE  Stores(w) \/ UNCHANGED <<db, writes>>
<1>1. RequestOK(w) /\ MemOK(w)
  BY DEF TxInv, WorkerOK
<1>2. request[w] \in Requests /\ request[w].escrow \in Escrows
  BY <1>1, AtIsFirst, WhatIsRequested DEF UpdateEscrow
<1> DEFINE row == See(w, E(request[w].escrow))
           new == [status |-> IF "status" \in mem[w].dirty THEN NewStatus(request[w])
                              ELSE row.status,
                   paymentId |-> IF "paymentId" \in mem[w].dirty THEN mem[w].paymentId
                                 ELSE row.paymentId]
<1>3. row \in EscrowRows /\ E(request[w].escrow) \in Rows
  BY <1>2, SeeRows
<1>4. mem[w].paymentId \in PaymentIds \cup {None}
  BY <1>1 DEF MemOK, Memories
<1>5. NewStatus(request[w]) \in EscrowStatus
  BY <1>2, WhatRequestsDo
<1>6. /\ NewStatus(request[w]) = "FUNDED" <=> request[w].kind = "fund"
      /\ NewStatus(request[w]) = "DISPUTED" <=> request[w].kind = "dispute"
  BY <1>2, WhatRequestsDo
<1> HIDE DEF row
<1>7. /\ new \in EscrowRows
      /\ new.status \in {"FUNDED", "DISPUTED"} =>
           request[w].kind = MadeBy(new.status) \/ row.status = new.status
  BY <1>3, <1>4, <1>5, <1>6 DEF EscrowRows, MadeBy
<1>8. UNCHANGED <<db, writes>> \/ Update(w, E(request[w].escrow), new)
  BY DEF UpdateEscrow, row
<1> HIDE DEF new
<1>9. Fits(E(request[w].escrow), new)
  BY <1>7, RowsDiffer DEF Fits
<1>10. At(w, "updateEscrow") /\ ~At(w, "saveProof")
  BY DEF UpdateEscrow, At
<1>11. Allowed(w, E(request[w].escrow), new)
  BY <1>7, <1>9, <1>10, RowsDiffer DEF Allowed, row
<1> QED
  BY <1>3, <1>8, <1>11 DEF Stores

LEMMA ReviewIsStored ==
  ASSUME TxInv, NEW w \in Workers, SaveProof(w)
  PROVE  Stores(w)
<1>1. RequestOK(w) /\ At(w, "saveProof")
  BY DEF TxInv, WorkerOK, SaveProof
<1>2. request[w] \in Requests /\ "saveProof" \in MayRun(request[w].kind)
  BY <1>1, AtIsFirst DEF RequestOK
<1>3. request[w].kind \in {"accept", "reject"}
  BY <1>2, WhatIsRequested DEF MayRun, First, Completing, Finishing
<1>4. D(request[w].on) \in Rows
  BY <1>2, <1>3, WhatIsRequested, SeeRows
<1> DEFINE value == IF request[w].kind = "accept" THEN "ACCEPTED" ELSE "REJECTED"
<1>5. Allowed(w, D(request[w].on), value)
  BY <1>3, RowsDiffer DEF Allowed, Fits
<1> QED
  BY <1>4, <1>5 DEF SaveProof, Stores

LEMMA StoresMilestone ==
  ASSUME TxInv, NEW w \in Workers, SaveMilestone(w)
  PROVE  Stores(w) \/ UNCHANGED <<db, writes>>
<1>1. RequestOK(w) /\ At(w, "saveMilestone") /\ ~At(w, "saveProof")
  BY DEF TxInv, WorkerOK, SaveMilestone, At
<1>2. request[w] \in Requests /\ "saveMilestone" \in MayRun(request[w].kind)
  BY <1>1, AtIsFirst DEF RequestOK
<1>3. request[w].kind = "milestone"
  BY <1>2, WhatIsRequested DEF MayRun, First, Completing, Finishing
<1>4. M(request[w].on) \in Rows
  BY <1>2, <1>3, WhatIsRequested, SeeRows
<1>5. MilestoneRow(request[w].to, w) \in MilestoneRows
  BY <1>2, <1>3, WhatIsRequested DEF MilestoneRow, MilestoneRows
<1>6. Allowed(w, M(request[w].on), MilestoneRow(request[w].to, w))
  BY <1>1, <1>5, RowsDiffer DEF Allowed, Fits
<1> QED
  BY <1>4, <1>6 DEF SaveMilestone, Stores

LEMMA StoresBack ==
  ASSUME TxInv, NEW w \in Workers, WriteMilestones(w)
  PROVE  /\ mem[w].back = {} => Continue(w) /\ UNCHANGED <<db, writes, mem>>
         /\ mem[w].back # {} => /\ Stores(w) /\ todo' = todo
                                /\ \E b \in mem[w].back :
                                     mem' = [mem EXCEPT ![w].back = mem[w].back \ {b}]
<1>1. CASE mem[w].back = {}
  BY <1>1 DEF WriteMilestones
<1>2. CASE mem[w].back # {}
  <2> DEFINE status(b) == IF b[2] = None THEN See(w, M(b[1])).status ELSE b[2]
  <2>1. PICK b \in mem[w].back :
          /\ Update(w, M(b[1]), MilestoneRow(status(b), w))
          /\ mem' = [mem EXCEPT ![w].back = mem[w].back \ {b}] /\ todo' = todo
    BY <1>2 DEF WriteMilestones
  <2>2. b[1] \in Milestones /\ b[2] \in MilestoneStatus \cup {None}
    BY DEF TxInv, WorkerOK, MemOK, Memories
  <2>3. status(b) \in MilestoneStatus
    BY <2>2, SeeRows DEF MilestoneRows
  <2>4. M(b[1]) \in Rows
    BY <2>2, SeeRows
  <2> HIDE DEF status
  <2>5. MilestoneRow(status(b), w) \in MilestoneRows
    BY <2>3 DEF MilestoneRow, MilestoneRows
  <2>6. ~At(w, "saveProof")
    BY DEF WriteMilestones, At
  <2>7. Allowed(w, M(b[1]), MilestoneRow(status(b), w))
    BY <2>5, <2>6, RowsDiffer DEF Allowed, Fits
  <2> QED
    BY <1>2, <2>1, <2>4, <2>7 DEF Stores
<1> QED
  BY <1>1, <1>2

LEMMA StoresDispute ==
  ASSUME TxInv, NEW w \in Workers, MarkDisputed(w)
  PROVE  Stores(w)
<1>1. RequestOK(w) /\ At(w, "markDisputed") /\ ~At(w, "saveProof")
  BY DEF TxInv, WorkerOK, MarkDisputed, At
<1>2. request[w] \in Requests /\ request[w].escrow \in Escrows
  BY <1>1, AtIsFirst, WhatIsRequested
<1> DEFINE row == See(w, E(request[w].escrow))
           new == [status |-> "DISPUTED", paymentId |-> row.paymentId]
<1>3. row \in EscrowRows /\ E(request[w].escrow) \in Rows
  BY <1>2, SeeRows
<1>4. Update(w, E(request[w].escrow), new)
  BY DEF MarkDisputed
<1> HIDE DEF row
<1>5. new \in EscrowRows /\ request[w].kind = MadeBy(new.status)
  BY <1>1, <1>3, EscrowInTransaction DEF EscrowRows, EscrowStatus, MadeBy
<1> HIDE DEF new
<1>6. Allowed(w, E(request[w].escrow), new)
  BY <1>1, <1>5, RowsDiffer DEF Allowed, Fits
<1> QED
  BY <1>3, <1>4, <1>6 DEF Stores

\* What a step does to the rows.
LEMMA StepForm ==
  ASSUME TxInv, NEW w \in Workers, Acts(w)
  PROVE  UNCHANGED <<db, writes>> \/ Stores(w) \/ GiveUp(w) \/ Commit(w)
<1>1. ASSUME LoadEscrow(w) \/ LoadToCancel(w) \/ LoadToDispute(w) \/ LoadWallet(w)
             \/ LoadProof(w)
      PROVE  UNCHANGED <<db, writes>> \/ GiveUp(w)
  BY <1>1 DEF LoadEscrow, LoadToCancel, LoadToDispute, LoadWallet, LoadProof
<1>2. ASSUME CompareEscrow(w) \/ CheckMilestones(w) \/ \E r \in Offered : Begin(w, r)
      PROVE  UNCHANGED <<db, writes>>
  BY <1>2 DEF CompareEscrow, CheckMilestones, Begin
<1> QED
  BY <1>1, <1>2, StoresWallet, StoresPayment, StoresEscrow, ReviewIsStored, StoresMilestone,
     StoresBack, StoresDispute
  DEF Acts, Step, Crash

LEMMA RequestsEnd ==
  ASSUME TxInv, NEW w \in Workers, GiveUp(w) \/ Commit(w)
  PROVE  Ends(w)
BY NoWrites DEF GiveUp, Commit, Ends, TxInv, Shape

LEMMA OneActs ==
  ASSUME TxInv, NEW w \in Workers, Acts(w)
  PROVE  Untouched(w) /\ Shape'
<1>1. Shape
  BY DEF TxInv
<1>2. DOMAIN writes' = Workers /\ DOMAIN db' = Rows /\ \A v \in Workers \ {w} : writes'[v] = writes[v]
  <2>1. CASE UNCHANGED <<db, writes>>
    BY <1>1, <2>1 DEF Shape
  <2>2. CASE Stores(w)
    BY <1>1, <2>2, UpdateDoes DEF Stores
  <2>3. CASE GiveUp(w)
    BY <1>1, <2>3 DEF GiveUp, Shape
  <2>4. CASE Commit(w)
    <3>1. DOMAIN writes[w] \subseteq Rows
      BY DEF TxInv, WorkerOK, WritesOK
    <3>2. DOMAIN db' = Rows
      BY <1>1, <2>4, <3>1 DEF Commit, Shape, Over
    <3> QED
      BY <1>1, <2>4, <3>2 DEF Commit, Shape
  <2> QED
    BY <2>1, <2>2, <2>3, <2>4, StepForm
<1>3. /\ DOMAIN request' = Workers /\ DOMAIN todo' = Workers /\ DOMAIN mem' = Workers
      /\ \A v \in Workers \ {w} : todo'[v] = todo[v] /\ mem'[v] = mem[v] /\ request'[v] = request[v]
  <2>1. CASE GiveUp(w) \/ \E r \in Offered : Begin(w, r)
    BY <1>1, <2>1 DEF GiveUp, Begin, Shape
  <2>2. CASE Commit(w) \/ LoadToCancel(w) \/ CheckMilestones(w)
    BY <1>1, <2>2 DEF Commit, LoadToCancel, CheckMilestones, GiveUp, Continue, Shape
  <2>3. CASE LoadEscrow(w) \/ LoadWallet(w) \/ LoadProof(w) \/ LoadToDispute(w)
             \/ CompareEscrow(w)
    BY <1>1, <2>3 DEF LoadEscrow, LoadWallet, LoadProof, LoadToDispute, CompareEscrow, GiveUp,
                      Continue, Shape
  <2>4. CASE \/ SaveWallet(w) \/ InsertPayment(w) \/ UpdatePayment(w) \/ UpdateEscrow(w)
             \/ SaveProof(w) \/ SaveMilestone(w) \/ MarkDisputed(w)
    BY <1>1, <2>4 DEF SaveWallet, InsertPayment, UpdatePayment, UpdateEscrow, SaveProof,
                      SaveMilestone, MarkDisputed, Continue, Shape
  <2>5. CASE WriteMilestones(w)
    <3>1. request' = request
      BY <2>5 DEF WriteMilestones
    <3> QED
      BY <1>1, <2>5, <3>1, StoresBack DEF Continue, Shape
  <2> QED
    BY <2>1, <2>2, <2>3, <2>4, <2>5 DEF Acts, Step, Crash
<1> QED
  BY <1>2, <1>3 DEF Shape, Untouched

\* What another request relies on stays as it is.
LEMMA WorkerStays ==
  ASSUME NEW v, WorkerOK(v), todo'[v] = todo[v], mem'[v] = mem[v], request'[v] = request[v],
         writes'[v] = writes[v]
  PROVE  WorkerOK(v)'
<1>1. Left(v)' = Left(v) /\ (InFlight(v)' <=> InFlight(v))
  BY DEF Left, InFlight
<1>2. RequestOK(v)'
  BY <1>1 DEF WorkerOK, RequestOK
<1>3. MemOK(v)'
  BY <1>1 DEF WorkerOK, MemOK
<1>4. WritesOK(v)'
  BY <1>1 DEF WorkerOK, WritesOK
<1> QED
  BY <1>2, <1>3, <1>4 DEF WorkerOK

LEMMA DbStep ==
  ASSUME TxInv, NEW w \in Workers, Acts(w)
  PROVE  DbOK' /\ Exclusive'
<1>1. DbOK /\ Exclusive /\ Shape
  BY DEF TxInv
<1>2. CASE UNCHANGED <<db, writes>>
  BY <1>1, <1>2 DEF DbOK, Exclusive
<1>3. CASE Stores(w)
  <2>1. PICK row \in Rows : \E value : Allowed(w, row, value) /\ Update(w, row, value)
    BY <1>3 DEF Stores
  <2>2. PICK value : Fits(row, value) /\ Update(w, row, value)
    BY <2>1 DEF Allowed
  <2>3. DbOK'
    BY <1>1, <2>2, UpdateDoes DEF DbOK
  <2>4. /\ DOMAIN writes'[w] \subseteq DOMAIN writes[w] \cup {row}
        /\ \A v \in Workers \ {w} : row \notin DOMAIN writes[v] /\ writes'[v] = writes[v]
    BY <1>1, <2>2, UpdateDoes
  <2>5. Exclusive'
    BY <1>1, <2>4 DEF Exclusive
  <2> QED
    BY <2>3, <2>5
<1>4. CASE Ends(w)
  <2>1. DbOK'
    <3>1. CASE db' = db
      BY <1>1, <3>1 DEF DbOK
    <3>2. CASE db' = Over(writes[w], db)
      <4>1. \A row \in DOMAIN writes[w] : row \in Rows /\ Fits(row, writes[w][row])
        BY DEF TxInv, WorkerOK, WritesOK
      <4>2. \A row \in Rows : db'[row] = IF row \in DOMAIN writes[w] THEN writes[w][row] ELSE db[row]
        BY <1>1, <3>2 DEF Over, Shape
      <4> QED
        BY <1>1, <4>1, <4>2 DEF DbOK
    <3> QED
      BY <1>4, <3>1, <3>2 DEF Ends
  <2>2. Exclusive'
    BY <1>1, <1>4, OneActs DEF Ends, Exclusive, Untouched
  <2> QED
    BY <2>1, <2>2
<1> QED
  BY <1>2, <1>3, <1>4, StepForm, RequestsEnd

------------------------------------------------------------------------------
(* The request that acts.                                                  *)
LEMMA ContinueDoes ==
  ASSUME TxInv, NEW w \in Workers, NEW s, At(w, s), Continue(w)
  PROVE  /\ Ordered(todo'[w]) /\ Left(w)' = Left(w) \ {s} /\ s \in Left(w)
         /\ \A x \in Left(w)' : Rank(s) < Rank(x)
<1>1. Ordered(todo[w]) /\ todo[w] # <<>> /\ Head(todo[w]) = s /\ todo'[w] = Tail(todo[w])
  BY DEF TxInv, WorkerOK, RequestOK, Shape, At, InFlight, Continue
<1> QED
  BY <1>1, AfterHead DEF Left

LEMMA NothingLeft ==
  ASSUME NEW s, Ordered(s)
  PROVE  s = <<>> <=> Elements(s) = {}
BY AfterHead, ShortLists

LEMMA CancelOrdered ==
  /\ Ordered(<<"compareEscrow", "updateEscrow", "commit">>)
  /\ Elements(<<"compareEscrow", "updateEscrow", "commit">>)
       = {"compareEscrow", "updateEscrow", "commit"}
  /\ Ordered(<<"loadWallet", "saveWallet", "updatePayment">>
             \o <<"compareEscrow", "updateEscrow", "commit">>)
  /\ Elements(<<"loadWallet", "saveWallet", "updatePayment">>
              \o <<"compareEscrow", "updateEscrow", "commit">>)
       = Finishing \cup {"updatePayment", "commit"}
<1>1. /\ Ordered(<<"compareEscrow", "updateEscrow", "commit">>)
      /\ Elements(<<"compareEscrow", "updateEscrow", "commit">>)
           = {"compareEscrow", "updateEscrow", "commit"}
      /\ Ordered(<<"loadWallet", "saveWallet", "updatePayment">>)
      /\ Elements(<<"loadWallet", "saveWallet", "updatePayment">>)
           = {"loadWallet", "saveWallet", "updatePayment"}
  BY RankTable DEF Ordered, Elements, Statements
<1> QED
  BY <1>1, RankTable, Behind DEF Finishing

\* A cancellation and a milestone find out on the way what else they have to do.
LEMMA BranchesDo ==
  ASSUME TxInv, NEW w \in Workers
  PROVE  /\ LoadToCancel(w) => \/ GiveUp(w)
                               \/ /\ Ordered(todo'[w]) /\ Left(w)' \subseteq MayRun("cancel")
                                  /\ \A x \in Left(w)', y \in MayRun("cancel") :
                                       Rank(x) < Rank(y) => y \in Left(w)'
                                  /\ "commit" \in Left(w)' /\ "loadToCancel" \notin Left(w)'
                                  /\ "saveWallet" \in Left(w)' => "loadWallet" \in Left(w)'
         /\ CheckMilestones(w) => /\ Ordered(todo'[w]) /\ Left(w)' \subseteq MayRun("milestone")
                                  /\ \A x \in Left(w)', y \in MayRun("milestone") :
                                       Rank(x) < Rank(y) => y \in Left(w)'
                                  /\ "commit" \in Left(w)' /\ "checkMilestones" \notin Left(w)'
                                  /\ "saveWallet" \in Left(w)' => "loadWallet" \in Left(w)'
                                  /\ Left(w)' = {"commit"} \/ Left(w)' = Completing \cup {"commit"}
<1>1. Shape
  BY DEF TxInv
<1>2. ASSUME LoadToCancel(w)
      PROVE  \/ GiveUp(w)
             \/ todo'[w] = <<"loadWallet", "saveWallet", "updatePayment">>
                           \o <<"compareEscrow", "updateEscrow", "commit">>
             \/ todo'[w] = <<"compareEscrow", "updateEscrow", "commit">>
  BY <1>1, <1>2 DEF LoadToCancel, Shape
<1>3. <<>> \o <<"commit">> = <<"commit">>
  OBVIOUS
<1>4. ASSUME CheckMilestones(w)
      PROVE  todo'[w] = Completion \o <<"commit">> \/ todo'[w] = <<"commit">>
  BY <1>1, <1>3, <1>4 DEF CheckMilestones, Shape
<1>5. /\ MayRun("cancel") = {"loadToCancel", "updatePayment", "commit"} \cup Finishing
      /\ MayRun("milestone") = {"saveMilestone", "checkMilestones", "commit"} \cup Completing
  BY DEF MayRun
<1>6. ASSUME LoadToCancel(w), ~GiveUp(w)
      PROVE  /\ Ordered(todo'[w])
             /\ \/ Left(w)' = {"compareEscrow", "updateEscrow", "commit"}
                \/ Left(w)' = Finishing \cup {"updatePayment", "commit"}
  <2>1. CASE todo'[w] = <<"compareEscrow", "updateEscrow", "commit">>
    BY <2>1, CancelOrdered DEF Left
  <2>2. CASE todo'[w] = <<"loadWallet", "saveWallet", "updatePayment">>
                        \o <<"compareEscrow", "updateEscrow", "commit">>
    BY <2>2, CancelOrdered DEF Left
  <2> QED
    BY <1>2, <1>6, <2>1, <2>2
<1>7. ASSUME CheckMilestones(w)
      PROVE  /\ Ordered(todo'[w])
             /\ Left(w)' = {"commit"} \/ Left(w)' = Completing \cup {"commit"}
  BY <1>4, <1>7, ClosingOrdered, ShortLists DEF Left
<1>8. /\ {"compareEscrow", "updateEscrow", "commit"} \subseteq MayRun("cancel")
      /\ Finishing \cup {"updatePayment", "commit"} \subseteq MayRun("cancel")
      /\ {"commit"} \cup Completing \subseteq MayRun("milestone")
      /\ "loadToCancel" \notin Finishing /\ "checkMilestones" \notin Completing
      /\ "loadWallet" \in Finishing /\ "loadWallet" \in Completing
  BY <1>5 DEF Finishing, Completing
<1>9. /\ \A S \in {{"compareEscrow", "updateEscrow", "commit"},
                   Finishing \cup {"updatePayment", "commit"}} :
           \A x \in S, y \in MayRun("cancel") : Rank(x) < Rank(y) => y \in S
      /\ \A S \in {{"commit"}, Completing \cup {"commit"}} :
           \A x \in S, y \in MayRun("milestone") : Rank(x) < Rank(y) => y \in S
  BY <1>5, RankTable DEF Finishing, Completing
<1> QED
  BY <1>6, <1>7, <1>8, <1>9

\* A request without a transaction keeps no writes open before it saves the escrow.
LEMMA NoneOpen ==
  ASSUME TxInv, NEW w \in Workers, Acts(w), request[w].kind = "complete",
         NEW s, At(w, s), Continue(w), "updateEscrow" \in Left(w)'
  PROVE  DOMAIN writes'[w] = {}
<1>1. s \notin {"updateEscrow", "writeMilestones"} /\ "updateEscrow" \in Left(w) /\ Shape
  BY ContinueDoes, RankTable DEF TxInv
<1>2. DOMAIN writes[w] = {} /\ ~InTransaction(w)
  BY <1>1 DEF TxInv, WorkerOK, RequestOK, InTransaction, At
<1>3. CASE Stores(w)
  BY <1>1, <1>2, <1>3, UpdateDoes DEF Stores
<1> QED
  BY <1>2, <1>3, StepForm, RequestsEnd DEF Ends

LEMMA RequestContinues ==
  ASSUME TxInv, NEW w \in Workers, Acts(w), NEW s, At(w, s), Continue(w), request' = request,
         s \notin {"loadToCancel", "checkMilestones"},
         s = "commit" => DOMAIN writes'[w] = {}
  PROVE  RequestOK(w)'
<1>1. RequestOK(w)
  BY DEF TxInv, WorkerOK
<1>2. Ordered(todo'[w]) /\ Left(w)' = Left(w) \ {s} /\ \A x \in Left(w)' : Rank(s) < Rank(x)
  BY ContinueDoes
<1>3. todo'[w] = <<>> <=> Left(w)' = {}
  BY <1>2, NothingLeft DEF Left
<1>4. request[w] \in Offered /\ request[w] # NoRequest /\ InFlight(w)
  BY <1>1, AtIsFirst, WhatIsRequested
<1>5. /\ Left(w)' \subseteq MayRun(request[w].kind)
      /\ \A x \in Left(w)' \ Branching, y \in MayRun(request[w].kind) :
           Rank(x) < Rank(y) => y \in Left(w)'
  <2>1. Left(w) \subseteq MayRun(request[w].kind) /\ Left(w)' \subseteq Left(w)
    BY <1>1, <1>2 DEF RequestOK
  <2>2. ASSUME NEW x \in Left(w)' \ Branching, NEW y \in MayRun(request[w].kind), Rank(x) < Rank(y)
        PROVE  y \in Left(w)'
    <3>1. y \in Left(w) /\ Rank(s) < Rank(x)
      BY <1>1, <1>2, <2>2 DEF RequestOK
    <3>2. s \in Statements /\ x \in Statements /\ y \in Statements
      <4>1. todo[w] \in Seq(Statements)
        BY <1>1 DEF RequestOK, Ordered
      <4>2. Left(w) \subseteq Statements
        BY <4>1 DEF Left, Elements
      <4> QED
        BY <1>1, <1>2, <2>2, <3>1, <4>2, AtIsFirst
    <3>3. \A z \in Statements : Rank(z) \in Nat
      BY RankTable DEF Statements
    <3>4. y # s
      BY <2>2, <3>1, <3>2, <3>3
    <3> QED
      BY <1>2, <3>1, <3>4
  <2> QED
    BY <2>1, <2>2
<1>6. CASE s = "commit"
  <2>1. Left(w)' = {}
    <3>1. \A x \in Statements : ~(16 < Rank(x))
      BY RankTable DEF Statements
    <3>2. Left(w)' \subseteq Statements
      <4>1. todo'[w] \in Seq(Statements)
        BY <1>2 DEF Ordered
      <4> QED
        BY <4>1 DEF Left, Elements
    <3> QED
      BY <1>2, <1>6, <3>1, <3>2, RankTable
  <2> QED
    BY <1>1, <1>2, <1>3, <1>4, <1>5, <1>6, <2>1 DEF RequestOK, InFlight
<1>7. CASE s # "commit"
  <2>1. Left(w)' \cap {"loadToCancel", "checkMilestones", "commit"} # {}
    BY <1>1, <1>2, <1>4, <1>7 DEF RequestOK
  <2> QED
    BY <1>1, <1>2, <1>3, <1>4, <1>5, <2>1, NoneOpen DEF RequestOK, InFlight
<1> QED
  BY <1>6, <1>7

LEMMA RequestStep ==
  ASSUME TxInv, NEW w \in Workers, Acts(w)
  PROVE  RequestOK(w)'
<1>1. RequestOK(w) /\ Shape
  BY DEF TxInv, WorkerOK
<1>2. ASSUME GiveUp(w) PROVE RequestOK(w)'
  <2>1. todo'[w] = <<>> /\ request'[w] = request[w] /\ DOMAIN writes'[w] = {}
    BY <1>1, <1>2, RequestsEnd DEF GiveUp, Ends, Shape
  <2> QED
    BY <1>1, <2>1, ShortLists DEF RequestOK, Left, InFlight
<1>3. ASSUME NEW r \in Offered, Begin(w, r) PROVE RequestOK(w)'
  <2>1. r \in Requests /\ r # NoRequest
    BY EscrowTxAssumption
  <2>2. request'[w] = r /\ todo'[w] = Program(r) /\ writes'[w] = writes[w] /\ DOMAIN writes[w] = {}
    BY <1>1, <1>3 DEF Begin, Shape, RequestOK
  <2>3. Ordered(todo'[w]) /\ Left(w)' = First(r.kind)
    BY <2>1, <2>2, ProgramsOrdered DEF Left
  <2>4. /\ First(r.kind) \cap {"loadToCancel", "checkMilestones", "commit"} # {}
        /\ First(r.kind) \subseteq MayRun(r.kind)
        /\ \A x \in First(r.kind) \ Branching, y \in MayRun(r.kind) :
             Rank(x) < Rank(y) => y \in First(r.kind)
    <3>1. r.kind \in Kinds
      BY <2>1, WhatIsRequested
    <3>2. r.kind \notin {"cancel", "milestone"} => MayRun(r.kind) = First(r.kind)
      BY DEF MayRun
    <3>3. r.kind \in {"cancel", "milestone"} => First(r.kind) \subseteq Branching
      BY DEF First, Branching
    <3> QED
      BY <3>1, <3>2, <3>3 DEF First, MayRun, Kinds
  <2> QED
    BY <2>1, <2>2, <2>3, <2>4 DEF RequestOK, InFlight
<1>4. ASSUME LoadToCancel(w) \/ CheckMilestones(w), ~GiveUp(w) PROVE RequestOK(w)'
  <2>1. /\ request[w] \in Requests /\ request[w] \in Offered /\ request[w] # NoRequest
        /\ Left(w) \subseteq MayRun(request[w].kind)
        /\ LoadToCancel(w) => "loadToCancel" \in Left(w)
        /\ CheckMilestones(w) => "checkMilestones" \in Left(w)
    BY <1>1, <1>4, AtIsFirst, WhatIsRequested DEF RequestOK, LoadToCancel, CheckMilestones
  <2>2. /\ LoadToCancel(w) => request[w].kind = "cancel"
        /\ CheckMilestones(w) => request[w].kind = "milestone"
    BY <2>1, WhatIsRequested DEF MayRun, First, Completing, Finishing
  <2>3. request' = request /\ writes' = writes
    BY <1>4 DEF LoadToCancel, CheckMilestones
  <2>4. /\ Ordered(todo'[w]) /\ Left(w)' \subseteq MayRun(request[w].kind)
        /\ \A x \in Left(w)', y \in MayRun(request[w].kind) : Rank(x) < Rank(y) => y \in Left(w)'
        /\ "commit" \in Left(w)' /\ request[w].kind # "complete"
    BY <1>4, <2>2, BranchesDo
  <2>5. todo'[w] # <<>>
    BY <2>4, ShortLists DEF Left
  <2> QED
    BY <2>1, <2>3, <2>4, <2>5 DEF RequestOK, InFlight
<1>5. ASSUME Commit(w) PROVE RequestOK(w)'
  BY <1>5, RequestContinues, RequestsEnd DEF Commit, Ends
<1>6. ASSUME LoadEscrow(w) \/ LoadWallet(w) \/ LoadProof(w) \/ LoadToDispute(w), ~GiveUp(w)
      PROVE  RequestOK(w)'
  <2>1. Continue(w) /\ request' = request
    BY <1>6 DEF LoadEscrow, LoadWallet, LoadProof, LoadToDispute
  <2> QED
    BY <1>6, <2>1, RequestContinues DEF LoadEscrow, LoadWallet, LoadProof, LoadToDispute
<1>7. ASSUME \/ SaveWallet(w) \/ InsertPayment(w) \/ UpdatePayment(w) \/ CompareEscrow(w)
             \/ UpdateEscrow(w) \/ SaveProof(w) \/ SaveMilestone(w) \/ MarkDisputed(w)
      PROVE  RequestOK(w)'
  BY <1>7, RequestContinues DEF SaveWallet, InsertPayment, UpdatePayment, CompareEscrow,
                                UpdateEscrow, SaveProof, SaveMilestone, MarkDisputed
<1>8. ASSUME WriteMilestones(w) PROVE RequestOK(w)'
  <2>1. At(w, "writeMilestones") /\ request' = request
    BY <1>8 DEF WriteMilestones
  <2>2. CASE Continue(w)
    BY <1>8, <2>1, <2>2, RequestContinues
  <2>3. CASE todo' = todo
    <3>1. "updateEscrow" \notin Left(w) /\ InFlight(w)
      BY <1>1, <2>1, AtIsFirst, RankTable
    <3> QED
      BY <1>1, <2>1, <2>3, <3>1 DEF RequestOK, Left, InFlight
  <2> QED
    BY <1>8, <2>2, <2>3, StoresBack
<1> QED
  BY <1>2, <1>3, <1>4, <1>5, <1>6, <1>7, <1>8 DEF Acts, Step, Crash

LEMMA BlankIsMemory == Blank \in Memories /\ Blank.wrote = FALSE
BY DEF Blank, Memories

\* A request that has nothing left.
LEMMA NothingToDo ==
  ASSUME TxInv, NEW w \in Workers, GiveUp(w) \/ Commit(w)
  PROVE  Left(w)' = {} /\ ~InFlight(w)' /\ mem'[w] = Blank /\ request'[w] = request[w]
<1>1. Shape
  BY DEF TxInv
<1>2. CASE GiveUp(w)
  BY <1>1, <1>2, ShortLists DEF GiveUp, Shape, Left, InFlight
<1>3. CASE Commit(w)
  <2>1. Ordered(todo'[w]) /\ \A x \in Left(w)' : 16 < Rank(x)
    BY <1>3, ContinueDoes, RankTable DEF Commit
  <2>2. Left(w)' \subseteq Statements
    <3>1. todo'[w] \in Seq(Statements)
      BY <2>1 DEF Ordered
    <3> QED
      BY <3>1 DEF Left, Elements
  <2>3. \A x \in Statements : ~(16 < Rank(x))
    BY RankTable DEF Statements
  <2>4. Left(w)' = {}
    BY <2>1, <2>2, <2>3
  <2>5. todo'[w] = <<>>
    BY <2>1, <2>4, NothingLeft DEF Left
  <2> QED
    BY <1>1, <1>3, <2>4, <2>5 DEF Commit, Shape, InFlight
<1> QED
  BY <1>2, <1>3

LEMMA MemContinues ==
  ASSUME TxInv, NEW w \in Workers, NEW s, At(w, s), Continue(w), request' = request,
         mem'[w] \in Memories,
         s = "loadWallet" => mem'[w].balance + Amount(request[w]) \in Nat,
         s # "loadWallet" => mem'[w].balance = mem[w].balance,
         s = "saveWallet" => mem'[w].wrote,
         mem[w].wrote => mem'[w].wrote,
         s = "compareEscrow" /\ request[w].kind = "accept" => "completedAt" \in mem'[w].dirty,
         s # "compareEscrow" => mem'[w].dirty = mem[w].dirty
  PROVE  MemOK(w)'
<1>1. MemOK(w) /\ RequestOK(w)
  BY DEF TxInv, WorkerOK
<1>2. Left(w)' = Left(w) \ {s} /\ InFlight(w)
  BY <1>1, ContinueDoes, AtIsFirst
<1> QED
  BY <1>1, <1>2 DEF MemOK

\* What the comparison leaves to be written back.
LEMMA ComparedMilestones ==
  ASSUME TxInv, NEW w \in Workers
  PROVE  LET changed == {x \in mem[w].milestones : See(w, M(x[1])) # x[2]}
             Stale(x) == IF See(w, M(x[1])).status = x[2].status THEN None ELSE x[2].status
         IN  {<<x[1], Stale(x)>> : x \in changed}
               \in SUBSET (Milestones \X (MilestoneStatus \cup {None}))
<1>1. mem[w].milestones \in SUBSET (Milestones \X MilestoneRows)
  BY DEF TxInv, WorkerOK, MemOK, Memories
<1>2. \A x \in mem[w].milestones : x[1] \in Milestones /\ x[2].status \in MilestoneStatus
  BY <1>1 DEF MilestoneRows
<1> QED
  BY <1>2

LEMMA MemStep ==
  ASSUME TxInv, NEW w \in Workers, Acts(w)
  PROVE  MemOK(w)'
<1>1. RequestOK(w) /\ MemOK(w) /\ Shape
  BY DEF TxInv, WorkerOK
<1>2. mem[w] \in Memories
  BY <1>1 DEF MemOK
<1>3. ASSUME GiveUp(w) \/ Commit(w) PROVE MemOK(w)'
  BY <1>3, NothingToDo, BlankIsMemory DEF MemOK
<1>4. ASSUME NEW r \in Offered, Begin(w, r) PROVE MemOK(w)'
  <2>1. r \in Requests
    BY EscrowTxAssumption
  <2>2. request'[w] = r /\ todo'[w] = Program(r) /\ mem'[w] = mem[w]
    BY <1>1, <1>4 DEF Begin, Shape
  <2>3. Left(w)' = First(r.kind)
    BY <2>1, <2>2, ProgramsOrdered DEF Left
  <2>4. /\ "saveWallet" \in First(r.kind) => "loadWallet" \in First(r.kind)
        /\ r.kind \in {"fund", "accept"} => "saveWallet" \in First(r.kind)
        /\ r.kind = "accept" => "compareEscrow" \in First(r.kind)
    <3>1. r.kind \in Kinds
      BY <2>1, WhatIsRequested
    <3> QED
      BY <3>1 DEF First, Completing, Finishing, Kinds
  <2> QED
    BY <1>2, <2>2, <2>3, <2>4 DEF MemOK
<1>5. ASSUME LoadToCancel(w) \/ CheckMilestones(w), ~GiveUp(w) PROVE MemOK(w)'
  <2>1. /\ request[w] \in Requests
        /\ Left(w) \subseteq MayRun(request[w].kind)
        /\ LoadToCancel(w) => "loadToCancel" \in Left(w)
        /\ CheckMilestones(w) => "checkMilestones" \in Left(w)
    BY <1>1, <1>5, AtIsFirst, WhatIsRequested DEF RequestOK, LoadToCancel, CheckMilestones
  <2>2. request[w].kind \in {"cancel", "milestone"}
    BY <1>5, <2>1, WhatIsRequested DEF MayRun, First, Completing, Finishing
  <2>3. request'[w] = request[w] /\ mem'[w] \in Memories
    <3>1. CASE CheckMilestones(w)
      BY <1>2, <3>1 DEF CheckMilestones
    <3>2. CASE LoadToCancel(w)
      <4>1. See(w, E(request[w].escrow)) \in EscrowRows
        BY <2>1, WhatIsRequested, SeeRows
      <4>2. /\ request' = request
            /\ mem' = [mem EXCEPT ![w].paymentId = See(w, E(request[w].escrow)).paymentId]
        BY <1>5, <3>2 DEF LoadToCancel
      <4> QED
        BY <1>1, <1>2, <4>1, <4>2 DEF Memories, EscrowRows, Shape
    <3> QED
      BY <1>5, <3>1, <3>2
  <2>4. "saveWallet" \in Left(w)' => "loadWallet" \in Left(w)'
    BY <1>5, BranchesDo
  <2> QED
    BY <2>2, <2>3, <2>4 DEF MemOK
<1>6. ASSUME LoadEscrow(w), ~GiveUp(w) PROVE MemOK(w)'
  <2>1. See(w, E(request[w].escrow)) \in EscrowRows
    BY <1>1, <1>6, AtIsFirst, WhatIsRequested, SeeRows DEF LoadEscrow
  <2> DEFINE loaded == {<<m, See(w, M(m))>> : m \in MilestonesIn(request[w].escrow)}
  <2>2. /\ At(w, "loadEscrow") /\ Continue(w) /\ request' = request
        /\ mem' = [mem EXCEPT ![w].paymentId = See(w, E(request[w].escrow)).paymentId,
                              ![w].milestones = loaded]
    BY <1>6 DEF LoadEscrow
  <2>3. loaded \in SUBSET (Milestones \X MilestoneRows)
    BY SeeRows DEF MilestonesIn
  <2> HIDE DEF loaded
  <2>4. /\ mem'[w] \in Memories /\ mem'[w].balance = mem[w].balance /\ mem'[w].wrote = mem[w].wrote
        /\ mem'[w].dirty = mem[w].dirty
    BY <1>1, <1>2, <2>1, <2>2, <2>3 DEF Memories, EscrowRows, Shape
  <2> QED
    BY <2>2, <2>4, MemContinues
<1>7. ASSUME LoadWallet(w), ~GiveUp(w) PROVE MemOK(w)'
  <2> DEFINE balance == See(w, W(Party(request[w])))
  <2>1. request[w] \in Requests /\ Party(request[w]) \in Users /\ Amount(request[w]) \in Int
    BY <1>1, <1>7, AtIsFirst, WhatRequestsDo DEF LoadWallet
  <2>2. balance \in Nat
    BY <2>1, SeeRows
  <2>3. /\ At(w, "loadWallet") /\ Continue(w) /\ request' = request
        /\ mem' = [mem EXCEPT ![w].balance = balance] /\ balance + Amount(request[w]) >= 0
    BY <1>7 DEF LoadWallet
  <2> HIDE DEF balance
  <2>4. /\ mem'[w] \in Memories /\ mem'[w].balance = balance /\ mem'[w].wrote = mem[w].wrote
        /\ mem'[w].dirty = mem[w].dirty
    BY <1>1, <1>2, <2>2, <2>3 DEF Memories, Shape
  <2>5. mem'[w].balance + Amount(request[w]) \in Nat
    BY <2>1, <2>2, <2>3, <2>4
  <2> QED
    BY <2>3, <2>4, <2>5, MemContinues
<1>8. ASSUME SaveWallet(w) PROVE MemOK(w)'
  <2>1. /\ At(w, "saveWallet") /\ Continue(w) /\ request' = request
        /\ mem' = [mem EXCEPT ![w].wrote = TRUE]
    BY <1>8 DEF SaveWallet
  <2>2. /\ mem'[w] \in Memories /\ mem'[w].balance = mem[w].balance /\ mem'[w].wrote = TRUE
        /\ mem'[w].dirty = mem[w].dirty
    BY <1>1, <1>2, <2>1 DEF Memories, Shape
  <2> QED
    BY <2>1, <2>2, MemContinues
<1>9. ASSUME InsertPayment(w) PROVE MemOK(w)'
  <2>1. /\ At(w, "insertPayment") /\ Continue(w) /\ request' = request
        /\ mem' = [mem EXCEPT ![w].paymentId = w]
    BY <1>9 DEF InsertPayment
  <2>2. /\ mem'[w] \in Memories /\ mem'[w].balance = mem[w].balance /\ mem'[w].wrote = mem[w].wrote
        /\ mem'[w].dirty = mem[w].dirty
    BY <1>1, <1>2, <2>1 DEF Memories, Shape, PaymentIds
  <2> QED
    BY <2>1, <2>2, MemContinues
<1>10. ASSUME CompareEscrow(w) PROVE MemOK(w)'
  <2>1. At(w, "compareEscrow") /\ Continue(w) /\ request' = request
    BY <1>10 DEF CompareEscrow
  <2>2. request[w].kind = "accept" => NewStatus(request[w]) = "COMPLETED"
    BY <1>1, <2>1, AtIsFirst, WhatRequestsDo
  <2> DEFINE row == See(w, E(request[w].escrow))
             changed == {x \in mem[w].milestones : See(w, M(x[1])) # x[2]}
             Stale(x) == IF See(w, M(x[1])).status = x[2].status THEN None ELSE x[2].status
             dirty == {c \in {"status", "paymentId", "completedAt"} :
                         \/ c = "status" /\ row.status # NewStatus(request[w])
                         \/ c = "paymentId" /\ row.paymentId # mem[w].paymentId
                         \/ c = "completedAt" /\ NewStatus(request[w]) = "COMPLETED"}
             back == {<<x[1], Stale(x)>> : x \in changed}
  <2>3. /\ mem' = [mem EXCEPT ![w].dirty = dirty, ![w].back = back, ![w].milestones = {}]
        /\ dirty \in SUBSET {"status", "paymentId", "completedAt"}
        /\ back \in SUBSET (Milestones \X (MilestoneStatus \cup {None}))
        /\ NewStatus(request[w]) = "COMPLETED" => "completedAt" \in dirty
    <3>1. mem' = [mem EXCEPT ![w].dirty = dirty, ![w].back = back, ![w].milestones = {}]
      BY <1>10 DEF CompareEscrow
    <3>2. back \in SUBSET (Milestones \X (MilestoneStatus \cup {None}))
      BY ComparedMilestones
    <3> QED
      BY <3>1, <3>2
  <2> HIDE DEF dirty, back
  <2>4. /\ mem'[w] \in Memories /\ mem'[w].balance = mem[w].balance /\ mem'[w].wrote = mem[w].wrote
        /\ mem'[w].dirty = dirty
    BY <1>1, <1>2, <2>3 DEF Memories, Shape
  <2> QED
    BY <2>1, <2>2, <2>3, <2>4, MemContinues
<1>11. ASSUME LoadProof(w) \/ LoadToDispute(w), ~GiveUp(w) PROVE MemOK(w)'
  <2>1. PICK s \in {"loadProof", "loadToDispute"} :
          At(w, s) /\ Continue(w) /\ request' = request /\ mem' = mem
    BY <1>11 DEF LoadProof, LoadToDispute
  <2> QED
    BY <1>2, <2>1, MemContinues
<1>12. ASSUME \/ UpdatePayment(w) \/ UpdateEscrow(w) \/ SaveProof(w) \/ SaveMilestone(w)
              \/ MarkDisputed(w)
       PROVE  MemOK(w)'
  <2>1. PICK s \in {"updatePayment", "updateEscrow", "saveProof", "saveMilestone", "markDisputed"} :
          At(w, s) /\ Continue(w) /\ request' = request /\ mem' = mem
    BY <1>12 DEF UpdatePayment, UpdateEscrow, SaveProof, SaveMilestone, MarkDisputed
  <2> QED
    BY <1>2, <2>1, MemContinues
<1>13. ASSUME WriteMilestones(w) PROVE MemOK(w)'
  <2>1. At(w, "writeMilestones") /\ request' = request
    BY <1>13 DEF WriteMilestones
  <2>2. CASE mem[w].back = {}
    BY <1>2, <1>13, <2>1, <2>2, StoresBack, MemContinues
  <2>3. CASE mem[w].back # {}
    <3>1. PICK b \in mem[w].back : mem' = [mem EXCEPT ![w].back = mem[w].back \ {b}]
      BY <1>13, <2>3, StoresBack
    <3>2. /\ mem'[w] \in Memories /\ mem'[w].balance = mem[w].balance
          /\ mem'[w].wrote = mem[w].wrote /\ mem'[w].dirty = mem[w].dirty
      BY <1>1, <1>2, <3>1 DEF Memories, Shape
    <3>3. Left(w)' = Left(w) /\ (InFlight(w)' <=> InFlight(w))
      BY <1>13, <2>3, StoresBack DEF Left, InFlight
    <3> QED
      BY <1>1, <2>1, <3>2, <3>3 DEF MemOK
  <2> QED
    BY <2>2, <2>3
<1> QED
  BY <1>3, <1>4, <1>5, <1>6, <1>7, <1>8, <1>9, <1>10, <1>11, <1>12, <1>13 DEF Acts, Step, Crash

\* A statement that writes at most one row.
LEMMA WritesContinue ==
  ASSUME TxInv, NEW w \in Workers, NEW s, At(w, s), Continue(w), request' = request,
         writes' = writes \/ Stores(w), s = "saveProof" => Stores(w)
  PROVE  WritesOK(w)'
<1>1. RequestOK(w) /\ WritesOK(w) /\ Shape
  BY DEF TxInv, WorkerOK
<1>2. /\ Left(w)' = Left(w) \ {s} /\ s \in Left(w) /\ \A x \in Left(w)' : Rank(s) < Rank(x)
      /\ InFlight(w) /\ Ordered(todo'[w])
  BY <1>1, ContinueDoes, AtIsFirst
<1>3. CASE writes' = writes /\ ~Stores(w)
  BY <1>1, <1>2, <1>3 DEF WritesOK
<1>4. CASE Stores(w)
  <2>1. PICK row \in Rows : \E value : Allowed(w, row, value) /\ Update(w, row, value)
    BY <1>4 DEF Stores
  <2>2. PICK value : Allowed(w, row, value) /\ Update(w, row, value)
    BY <2>1
  <2>3. CASE ~InTransaction(w)
    <3>1. writes' = writes /\ request[w].kind # "accept"
      BY <1>1, <2>2, <2>3, UpdateDoes DEF InTransaction
    <3> QED
      BY <1>1, <1>2, <3>1 DEF WritesOK
  <2>4. CASE InTransaction(w)
    <3>1. /\ DOMAIN writes'[w] = DOMAIN writes[w] \cup {row} /\ writes'[w][row] = value
          /\ \A x \in DOMAIN writes[w] \ {row} : writes'[w][x] = writes[w][x]
      BY <1>1, <2>2, <2>4, UpdateDoes
    <3>2. \A x \in DOMAIN writes'[w] : x \in Rows /\ Fits(x, writes'[w][x])
      BY <1>1, <2>2, <3>1 DEF WritesOK, Allowed
    <3>3. ASSUME NEW e \in Escrows, E(e) \in DOMAIN writes'[w]
          PROVE  e = request[w].escrow /\ Left(w)' \subseteq {"writeMilestones", "commit"}
      <4>1. CASE E(e) = row
        <5>1. e = request[w].escrow /\ s \in {"updateEscrow", "markDisputed"}
          BY <2>2, <4>1 DEF Allowed, At
        <5>2. \A x \in Statements : 13 < Rank(x) =>
                x \in {"writeMilestones", "commit"} \/ x = "markDisputed"
          BY RankTable DEF Statements
        <5>3. Left(w)' \subseteq Statements
          <6>1. todo'[w] \in Seq(Statements)
            BY <1>2 DEF Ordered
          <6> QED
            BY <6>1 DEF Left, Elements
        <5>4. "updateEscrow" \in Left(w) => "markDisputed" \notin Left(w)
          <6>1. request[w].kind \in Kinds /\ Left(w) \subseteq MayRun(request[w].kind)
            BY <1>1, AtIsFirst, WhatIsRequested DEF RequestOK
          <6> QED
            BY <6>1 DEF Kinds, MayRun, First, Completing, Finishing
        <5>5. \A x \in Left(w)' : 13 < Rank(x)
          BY <1>2, <5>1, <5>3, RankTable DEF Statements
        <5> QED
          BY <1>2, <5>1, <5>2, <5>3, <5>4, <5>5, RankTable
      <4>2. CASE E(e) # row
        BY <1>1, <1>2, <3>1, <3>3, <4>2 DEF WritesOK
      <4> QED
        BY <4>1, <4>2
    <3>4. ASSUME NEW p \in Proofs, D(p) \in DOMAIN writes'[w]
          PROVE  /\ p = request[w].on /\ request[w].kind \in {"accept", "reject"}
                 /\ writes'[w][D(p)] = "ACCEPTED" <=> request[w].kind = "accept"
      <4>1. CASE D(p) = row
        BY <2>2, <3>1, <4>1 DEF Allowed
      <4>2. CASE D(p) # row
        BY <1>1, <3>1, <3>4, <4>2 DEF WritesOK
      <4> QED
        BY <4>1, <4>2
    <3>5. request[w].kind = "accept" =>
            "saveProof" \in Left(w)' \/ D(request[w].on) \in DOMAIN writes'[w]
      BY <1>1, <1>2, <2>2, <3>1 DEF WritesOK, Allowed, At
    <3> QED
      BY <3>2, <3>3, <3>4, <3>5 DEF WritesOK
  <2> QED
    BY <2>3, <2>4
<1> QED
  BY <1>3, <1>4

LEMMA WritesStep ==
  ASSUME TxInv, NEW w \in Workers, Acts(w)
  PROVE  WritesOK(w)'
<1>1. RequestOK(w) /\ WritesOK(w) /\ Shape
  BY DEF TxInv, WorkerOK
<1>2. ASSUME GiveUp(w) \/ Commit(w) PROVE WritesOK(w)'
  <2>1. DOMAIN writes'[w] = {} /\ ~InFlight(w)'
    BY <1>2, RequestsEnd, NothingToDo DEF Ends
  <2> QED
    BY <2>1 DEF WritesOK
<1>3. ASSUME NEW r \in Offered, Begin(w, r) PROVE WritesOK(w)'
  <2>1. r \in Requests
    BY EscrowTxAssumption
  <2>2. request'[w] = r /\ todo'[w] = Program(r) /\ writes' = writes /\ DOMAIN writes[w] = {}
    BY <1>1, <1>3 DEF Begin, Shape, RequestOK
  <2>3. Left(w)' = First(r.kind)
    BY <2>1, <2>2, ProgramsOrdered DEF Left
  <2>4. r.kind = "accept" => "saveProof" \in First(r.kind)
    BY DEF First
  <2> QED
    BY <2>2, <2>3, <2>4 DEF WritesOK
<1>4. ASSUME LoadToCancel(w) \/ CheckMilestones(w), ~GiveUp(w) PROVE WritesOK(w)'
  <2>1. /\ request[w] \in Requests
        /\ Left(w) \subseteq MayRun(request[w].kind)
        /\ LoadToCancel(w) => "loadToCancel" \in Left(w)
        /\ CheckMilestones(w) => "checkMilestones" \in Left(w)
    BY <1>1, <1>4, AtIsFirst, WhatIsRequested DEF RequestOK, LoadToCancel, CheckMilestones
  <2>2. request[w].kind \in {"cancel", "milestone"}
    BY <1>4, <2>1, WhatIsRequested DEF MayRun, First, Completing, Finishing
  <2>3. request' = request /\ writes' = writes
    BY <1>4 DEF LoadToCancel, CheckMilestones
  <2>4. \A e \in Escrows : E(e) \notin DOMAIN writes[w]
    BY <1>1, <1>4, <2>1 DEF WritesOK
  <2> QED
    BY <1>1, <2>2, <2>3, <2>4 DEF WritesOK
<1>5. ASSUME \/ LoadEscrow(w) \/ LoadWallet(w) \/ LoadProof(w) \/ LoadToDispute(w)
             \/ CompareEscrow(w),
             ~GiveUp(w)
      PROVE  WritesOK(w)'
  <2>1. PICK s \in {"loadEscrow", "loadWallet", "loadProof", "loadToDispute", "compareEscrow"} :
          At(w, s) /\ Continue(w) /\ request' = request /\ writes' = writes
    BY <1>5 DEF LoadEscrow, LoadWallet, LoadProof, LoadToDispute, CompareEscrow
  <2> QED
    BY <2>1, WritesContinue
<1>6. ASSUME \/ SaveWallet(w) \/ InsertPayment(w) \/ UpdatePayment(w) \/ UpdateEscrow(w)
             \/ SaveMilestone(w) \/ MarkDisputed(w)
      PROVE  WritesOK(w)'
  <2>1. PICK s \in {"saveWallet", "insertPayment", "updatePayment", "updateEscrow",
                    "saveMilestone", "markDisputed"} :
          At(w, s) /\ Continue(w) /\ request' = request
    BY <1>6 DEF SaveWallet, InsertPayment, UpdatePayment, UpdateEscrow, SaveMilestone,
                MarkDisputed
  <2>2. writes' = writes \/ Stores(w)
    BY <1>6, StoresWallet, StoresPayment, StoresEscrow, StoresMilestone, StoresDispute
  <2> QED
    BY <2>1, <2>2, WritesContinue
<1>7. ASSUME SaveProof(w) PROVE WritesOK(w)'
  <2>1. At(w, "saveProof") /\ Continue(w) /\ request' = request
    BY <1>7 DEF SaveProof
  <2>2. Stores(w)
    BY <1>7, ReviewIsStored
  <2> QED
    BY <2>1, <2>2, WritesContinue
<1>8. ASSUME WriteMilestones(w) PROVE WritesOK(w)'
  <2>1. At(w, "writeMilestones") /\ request' = request
    BY <1>8 DEF WriteMilestones
  <2>2. CASE mem[w].back = {}
    BY <1>8, <2>1, <2>2, StoresBack, WritesContinue
  <2>3. CASE mem[w].back # {}
    <3>1. Left(w)' = Left(w) /\ (InFlight(w)' <=> InFlight(w)) /\ Stores(w)
      BY <1>8, <2>3, StoresBack DEF Left, InFlight
    <3>2. PICK row \in Rows : \E value : Allowed(w, row, value) /\ Update(w, row, value)
      BY <3>1 DEF Stores
    <3>3. PICK value : Allowed(w, row, value) /\ Update(w, row, value)
      BY <3>2
    <3>4. /\ InTransaction(w) /\ \A e : row # E(e)
          /\ "saveProof" \notin Left(w)
      BY <1>1, <2>1, <3>3, AtIsFirst, RankTable DEF Allowed, At, InTransaction
    <3>5. /\ DOMAIN writes'[w] = DOMAIN writes[w] \cup {row} /\ writes'[w][row] = value
          /\ \A x \in DOMAIN writes[w] \ {row} : writes'[w][x] = writes[w][x]
      BY <1>1, <3>3, <3>4, UpdateDoes
    <3>6. \A x \in DOMAIN writes'[w] : x \in Rows /\ Fits(x, writes'[w][x])
      BY <1>1, <3>3, <3>5 DEF WritesOK, Allowed
    <3>7. ASSUME NEW p \in Proofs, D(p) \in DOMAIN writes'[w]
          PROVE  /\ p = request[w].on /\ request[w].kind \in {"accept", "reject"}
                 /\ writes'[w][D(p)] = "ACCEPTED" <=> request[w].kind = "accept"
      BY <1>1, <3>3, <3>5, <3>7 DEF WritesOK, Allowed
    <3> QED
      BY <1>1, <2>1, <3>1, <3>4, <3>5, <3>6, <3>7 DEF WritesOK
  <2> QED
    BY <2>2, <2>3
<1> QED
  BY <1>2, <1>3, <1>4, <1>5, <1>6, <1>7, <1>8 DEF Acts, Step, Crash

LEMMA TxStep == TxInv /\ [Next]_vars => TxInv'
<1> SUFFICES ASSUME TxInv, [Next]_vars PROVE TxInv'
  OBVIOUS
<1>1. CASE UNCHANGED vars
  <2>1. Shape' /\ DbOK' /\ Exclusive'
    BY <1>1 DEF TxInv, Shape, DbOK, Exclusive, vars
  <2>2. \A v \in Workers : WorkerOK(v)'
    BY <1>1, WorkerStays DEF TxInv, vars
  <2> QED
    BY <2>1, <2>2 DEF TxInv
<1>2. ASSUME NEW w \in Workers, Acts(w) PROVE TxInv'
  <2>1. WorkerOK(w)'
    BY <1>2, RequestStep, MemStep, WritesStep DEF WorkerOK
  <2>2. ASSUME NEW v \in Workers \ {w} PROVE WorkerOK(v)'
    BY <1>2, OneActs, WorkerStays DEF TxInv, Untouched
  <2> QED
    BY <1>2, <2>1, <2>2, DbStep, OneActs DEF TxInv
<1> QED
  BY <1>1, <1>2, NextActs

\* The rows that the requests find.
LEMMA InitialRows ==
  ASSUME Init
  PROVE  /\ DOMAIN db = Rows
         /\ \A u \in Users : db[W(u)] = Opening(u)
         /\ \A e \in Escrows : db[E(e)] = FreshEscrow(e)
         /\ \A k \in PaymentIds : db[P(k)] = IF k \in Funded THEN "ESCROW" ELSE "ABSENT"
         /\ \A m \in Milestones : db[M(m)] = MilestoneRow("PENDING", None)
         /\ \A p \in Proofs : db[D(p)] = "PENDING"
<1> DEFINE proofs == [row \in {D(p) : p \in Proofs} |-> "PENDING"]
           milestones == [row \in {M(m) : m \in Milestones} |-> MilestoneRow("PENDING", None)]
           others == Over(milestones, proofs)
           payments == [row \in {P(k) : k \in PaymentIds} |->
                          IF row[2] \in Funded THEN "ESCROW" ELSE "ABSENT"]
           escrows == [row \in {E(e) : e \in Escrows} |-> FreshEscrow(row[2])]
           wallets == [row \in {W(u) : u \in Users} |-> Opening(row[2])]
           two == Over(payments, others)
           three == Over(escrows, two)
<1>1. db = Over(wallets, three)
  BY DEF Init
<1>2. \A x : W(x)[2] = x /\ E(x)[2] = x /\ P(x)[2] = x
  BY DEF W, E, P
<1>3. /\ DOMAIN others = {M(m) : m \in Milestones} \cup {D(p) : p \in Proofs}
      /\ \A m \in Milestones : others[M(m)] = MilestoneRow("PENDING", None)
      /\ \A p \in Proofs : others[D(p)] = "PENDING"
  <2>1. /\ DOMAIN milestones = {M(m) : m \in Milestones} /\ DOMAIN proofs = {D(p) : p \in Proofs}
        /\ \A m \in Milestones : milestones[M(m)] = MilestoneRow("PENDING", None)
        /\ \A p \in Proofs : proofs[D(p)] = "PENDING"
    OBVIOUS
  <2>2. \A p \in Proofs : D(p) \notin DOMAIN milestones
    BY <2>1, RowsDiffer
  <2> HIDE DEF milestones, proofs
  <2>3. /\ DOMAIN others = DOMAIN milestones \cup DOMAIN proofs
        /\ \A x \in DOMAIN milestones : others[x] = milestones[x]
        /\ \A x \in DOMAIN proofs \ DOMAIN milestones : others[x] = proofs[x]
    BY Merge
  <2> HIDE DEF others
  <2> QED
    BY <2>1, <2>2, <2>3
<1>4. /\ DOMAIN payments = {P(k) : k \in PaymentIds}
      /\ \A k \in PaymentIds : payments[P(k)] = IF k \in Funded THEN "ESCROW" ELSE "ABSENT"
  BY <1>2
<1>5. /\ DOMAIN escrows = {E(e) : e \in Escrows}
      /\ \A e \in Escrows : escrows[E(e)] = FreshEscrow(e)
  BY <1>2
<1>6. /\ DOMAIN wallets = {W(u) : u \in Users}
      /\ \A u \in Users : wallets[W(u)] = Opening(u)
  BY <1>2
<1> HIDE DEF others, payments, escrows, wallets
<1>7. /\ DOMAIN two = DOMAIN payments \cup DOMAIN others
      /\ \A row \in DOMAIN two : two[row] = IF row \in DOMAIN payments THEN payments[row] ELSE others[row]
  BY DEF Over
<1> HIDE DEF two
<1>8. /\ DOMAIN three = DOMAIN escrows \cup DOMAIN two
      /\ \A row \in DOMAIN three : three[row] = IF row \in DOMAIN escrows THEN escrows[row] ELSE two[row]
  BY DEF Over
<1> HIDE DEF three
<1>9. /\ DOMAIN db = DOMAIN wallets \cup DOMAIN three
      /\ \A row \in DOMAIN db : db[row] = IF row \in DOMAIN wallets THEN wallets[row] ELSE three[row]
  BY <1>1 DEF Over
<1>10. DOMAIN db = Rows
  BY <1>3, <1>4, <1>5, <1>6, <1>7, <1>8, <1>9 DEF Rows
<1>11. \A u \in Users : db[W(u)] = Opening(u)
  BY <1>6, <1>9
<1>12. \A e \in Escrows : db[E(e)] = FreshEscrow(e)
  <2> SUFFICES ASSUME NEW e \in Escrows PROVE db[E(e)] = FreshEscrow(e)
    OBVIOUS
  <2>1. E(e) \in DOMAIN escrows /\ E(e) \notin DOMAIN wallets
    BY <1>5, <1>6, RowsDiffer
  <2> QED
    BY <1>5, <1>8, <1>9, <2>1
<1>13. \A k \in PaymentIds : db[P(k)] = IF k \in Funded THEN "ESCROW" ELSE "ABSENT"
  <2> SUFFICES ASSUME NEW k \in PaymentIds PROVE db[P(k)] = payments[P(k)]
    BY <1>4
  <2>1. P(k) \in DOMAIN payments /\ P(k) \notin DOMAIN escrows /\ P(k) \notin DOMAIN wallets
    BY <1>4, <1>5, <1>6, RowsDiffer
  <2> QED
    BY <1>7, <1>8, <1>9, <2>1
<1>14. \A row \in DOMAIN others : db[row] = others[row]
  <2> SUFFICES ASSUME NEW row \in DOMAIN others PROVE db[row] = others[row]
    OBVIOUS
  <2>1. row \notin DOMAIN payments /\ row \notin DOMAIN escrows /\ row \notin DOMAIN wallets
    BY <1>3, <1>4, <1>5, <1>6, RowsDiffer
  <2> QED
    BY <1>7, <1>8, <1>9, <2>1
<1> QED
  BY <1>3, <1>10, <1>11, <1>12, <1>13, <1>14

LEMMA TxInit == Init => TxInv
<1> SUFFICES ASSUME Init PROVE TxInv
  OBVIOUS
<1>1. /\ DOMAIN writes = Workers /\ DOMAIN request = Workers /\ DOMAIN todo = Workers
      /\ DOMAIN mem = Workers
      /\ \A w \in Workers : /\ writes[w] = <<>> /\ request[w] = NoRequest /\ todo[w] = <<>>
                            /\ mem[w] = Blank
  BY DEF Init
<1>2. DbOK
  <2>1. \A u \in Users : Opening(u) \in Nat
    BY EscrowTxAssumption
  <2>2. \A e \in Escrows : FreshEscrow(e) \in EscrowRows
    BY DEF FreshEscrow, EscrowRows, EscrowStatus, PaymentIds
  <2>3. MilestoneRow("PENDING", None) \in MilestoneRows
    BY DEF MilestoneRow, MilestoneRows, MilestoneStatus
  <2> QED
    BY <2>1, <2>2, <2>3, InitialRows, RowsDiffer DEF DbOK, Fits, Rows
<1>3. Exclusive
  BY <1>1, NoWrites DEF Exclusive
<1>4. ASSUME NEW w \in Workers PROVE WorkerOK(w)
  <2>1. DOMAIN writes[w] = {} /\ Left(w) = {} /\ ~InFlight(w) /\ Ordered(todo[w])
    BY <1>1, NoWrites, ShortLists DEF Left, InFlight
  <2>2. RequestOK(w)
    BY <1>1, <2>1 DEF RequestOK
  <2>3. MemOK(w)
    BY <1>1, <2>1, BlankIsMemory DEF MemOK
  <2>4. WritesOK(w)
    BY <2>1 DEF WritesOK
  <2> QED
    BY <2>2, <2>3, <2>4 DEF WorkerOK
<1> QED
  BY <1>1, <1>2, <1>3, <1>4, InitialRows DEF TxInv, Shape

LEMMA TxInvariant == Spec => []TxInv
<1> QED
  BY TxInit, TxStep, PTL DEF Spec

\* Committed rows keep their types and no wallet goes below zero, however requests overlap and
\* whichever of them die: what fundEscrow checks of the balance it loaded holds of what it saves.
THEOREM TxTypes == Spec => []TypeOK
<1>1. TxInv => TypeOK
  <2> SUFFICES ASSUME TxInv PROVE TypeOK
    OBVIOUS
  <2>1. \A row \in Rows : Fits(row, db[row])
    BY DEF TxInv, DbOK
  <2>2. \A w \in Workers : mem[w].paymentId \in PaymentIds \cup {None}
    BY DEF TxInv, WorkerOK, MemOK, Memories
  <2>3. /\ \A u \in Users : db[W(u)] \in Nat
        /\ \A e \in Escrows : db[E(e)] \in EscrowRows
        /\ \A k \in PaymentIds : db[P(k)] \in {"ABSENT", "ESCROW", "COMPLETED", "REFUNDED"}
    BY <2>1 DEF Rows, Fits
  <2> QED
    BY <2>2, <2>3 DEF TypeOK, EscrowRows
<1> QED
  BY <1>1, TxInvariant, PTL

------------------------------------------------------------------------------
(* Accepted proofs.                                                        *)

\* Money that has moved has been moved by a request that arrived; one with a transaction has ended.
SettledOK ==
  /\ settled \subseteq Workers /\ IsFiniteSet(settled)
  /\ \A w \in settled : request[w] \in Offered /\ (InFlight(w) => request[w].kind = "complete")

\* A transaction that leaves an escrow funded or disputed either makes it so or found it so.
StatusOK ==
  \A w \in Workers, e \in Escrows, status \in {"FUNDED", "DISPUTED"} :
    E(e) \in DOMAIN writes[w] /\ writes[w][E(e)].status = status =>
      request[w].kind = MadeBy(status) \/ db[E(e)].status = status

\* An acceptance that has saved the proof and has found the escrow funded, and one that has
\* since found it completed by somebody else, whose update leaves the status as it is.
Paying(w, p) ==
  /\ InFlight(w) /\ request[w].kind = "accept" /\ request[w].on = p
  /\ "saveProof" \notin Left(w) /\ "loadEscrow" \notin Left(w)
Passing(w, p) == Paying(w, p) /\ "compareEscrow" \notin Left(w) /\ "status" \notin mem[w].dirty

AcceptedEscrow(w, p) ==
  Paying(w, p) /\ "updateEscrow" \notin Left(w) =>
    /\ E(ProofOf[p]) \in DOMAIN writes[w]
    /\ writes[w][E(ProofOf[p])].status = "COMPLETED" \/ Passing(w, p)

\* The fundings of an escrow that no acceptance of p has used up: one if it is still funded, one
\* for the acceptance in flight, and both if that one will leave it funded.
Unused(p) ==
  LET N == Cardinality(Acceptances(p))
      F == Fundings(ProofOf[p])
      funded == db[E(ProofOf[p])].status = "FUNDED"
  IN
  /\ N \in Nat /\ F \in Nat /\ N <= F
  /\ funded => N < F
  /\ \A w \in Workers : Paying(w, p) => N < F
  /\ \A w \in Workers : Passing(w, p) /\ funded => N + 1 < F

AcceptInv ==
  /\ SettledOK /\ StatusOK /\ AcceptedProofWasPaid
  /\ \A p \in Proofs : Unused(p) /\ \A w \in Workers : AcceptedEscrow(w, p)

\* The two commits that count: of an acceptance of p, and of a funding of e.
Accepts(w, p) == Commit(w) /\ mem[w].wrote /\ request[w].kind = "accept" /\ request[w].on = p
Funds(w, e) == Commit(w) /\ mem[w].wrote /\ request[w].kind = "fund" /\ request[w].escrow = e

LEMMA Settling ==
  ASSUME TxInv, NEW w \in Workers, Acts(w)
  PROVE  \/ settled' = settled
         \/ /\ settled' = settled \cup {w} /\ request' = request
            /\ \/ Commit(w) /\ mem[w].wrote
               \/ SaveWallet(w) /\ request[w].kind = "complete"
<1>1. ASSUME GiveUp(w) \/ \E r \in Offered : Begin(w, r) PROVE settled' = settled
  BY <1>1 DEF GiveUp, Begin
<1>2. ASSUME \/ LoadEscrow(w) \/ LoadToCancel(w) \/ LoadWallet(w) \/ LoadProof(w)
             \/ CompareEscrow(w) \/ CheckMilestones(w) \/ InsertPayment(w) \/ UpdatePayment(w)
             \/ UpdateEscrow(w) \/ SaveProof(w) \/ SaveMilestone(w) \/ WriteMilestones(w)
             \/ LoadToDispute(w) \/ MarkDisputed(w)
      PROVE  settled' = settled
  BY <1>2 DEF LoadEscrow, LoadToCancel, LoadWallet, LoadProof, CompareEscrow, CheckMilestones,
              InsertPayment, UpdatePayment, UpdateEscrow, SaveProof, SaveMilestone,
              WriteMilestones, LoadToDispute, MarkDisputed, GiveUp
<1>3. CASE SaveWallet(w)
  BY <1>3 DEF SaveWallet, InTransaction, Record
<1>4. CASE Commit(w)
  BY <1>4 DEF Commit, Record
<1> QED
  BY <1>1, <1>2, <1>3, <1>4 DEF Acts, Step, Crash

LEMMA CommitsOnce ==
  ASSUME TxInv, SettledOK, NEW w \in Workers, Commit(w)
  PROVE  /\ InFlight(w) /\ request[w] \in Requests
         /\ request[w].kind # "complete" => w \notin settled
<1>1. RequestOK(w) /\ At(w, "commit")
  BY DEF TxInv, WorkerOK, Commit
<1>2. InFlight(w) /\ request[w] \in Requests
  BY <1>1, AtIsFirst
<1> QED
  BY <1>2 DEF SettledOK

LEMMA SettledKeepRequests ==
  ASSUME TxInv, SettledOK, NEW w \in Workers, Acts(w)
  PROVE  \A v \in settled : request'[v] = request[v]
<1>1. ASSUME NEW r \in Offered, Begin(w, r) PROVE w \notin settled
  BY <1>1, EscrowTxAssumption DEF Begin, SettledOK
<1>2. ASSUME w \in settled PROVE request' = request
  BY <1>1, <1>2 DEF Acts, Step, Crash, LoadEscrow, LoadToCancel, LoadWallet, LoadProof,
    CompareEscrow, CheckMilestones, InsertPayment, UpdatePayment, UpdateEscrow, SaveProof,
    SaveMilestone, WriteMilestones, LoadToDispute, MarkDisputed, SaveWallet, Commit, GiveUp
<1> QED
  BY <1>2, OneActs DEF Untouched, SettledOK

LEMMA SettledStep ==
  ASSUME TxInv, SettledOK, NEW w \in Workers, Acts(w)
  PROVE  SettledOK'
<1>1. settled' \subseteq Workers /\ IsFiniteSet(settled')
  BY Settling, FS_AddElement DEF SettledOK
<1>2. \A v \in settled : request'[v] = request[v]
  BY SettledKeepRequests
<1>3. ASSUME NEW v \in settled', v # w
      PROVE  request'[v] \in Offered /\ (InFlight(v)' => request'[v].kind = "complete")
  <2>1. v \in settled /\ v \in Workers
    BY <1>3, Settling DEF SettledOK
  <2>2. todo'[v] = todo[v]
    BY <1>3, <2>1, OneActs DEF Untouched
  <2> QED
    BY <1>2, <2>1, <2>2 DEF SettledOK, InFlight
<1>4. ASSUME w \in settled'
      PROVE  request'[w] \in Offered /\ (InFlight(w)' => request'[w].kind = "complete")
  <2>1. CASE Commit(w)
    <3>1. ~InFlight(w)' /\ request'[w] = request[w] /\ request[w] \in Offered
      BY <2>1, CommitsOnce, NothingToDo, InFlightRequest DEF TxInv, WorkerOK
    <3> QED
      BY <3>1
  <2>2. CASE SaveWallet(w) /\ request[w].kind = "complete"
    <3>1. request' = request /\ request[w] \in Offered
      BY <2>2, AtIsFirst DEF TxInv, WorkerOK, SaveWallet
    <3> QED
      BY <2>2, <3>1
  <2>3. CASE settled' = settled
    <3>1. request[w] \in Offered /\ (InFlight(w) => request[w].kind = "complete")
      BY <1>4, <2>3 DEF SettledOK
    <3>2. request'[w] = request[w]
      BY <1>2, <1>4, <2>3
    <3>3. ASSUME InFlight(w)' PROVE InFlight(w)
      <4>1. CASE \E r \in Offered : Begin(w, r)
        BY <3>1, <4>1, EscrowTxAssumption DEF Begin
      <4>2. CASE ~\E r \in Offered : Begin(w, r)
        BY <3>3, <4>2 DEF Acts, Step, Crash, LoadEscrow, LoadToCancel, LoadWallet, LoadProof,
          CompareEscrow, CheckMilestones, InsertPayment, UpdatePayment, UpdateEscrow, SaveProof,
          SaveMilestone, WriteMilestones, LoadToDispute, MarkDisputed, SaveWallet, Commit, At
      <4> QED
        BY <4>1, <4>2
    <3> QED
      BY <3>1, <3>2, <3>3
  <2> QED
    BY <2>1, <2>2, <2>3, Settling
<1> QED
  BY <1>1, <1>3, <1>4 DEF SettledOK

\* What a step makes of the requests counted.
LEMMA CountsStep ==
  ASSUME TxInv, SettledOK, NEW w \in Workers, Acts(w)
  PROVE  /\ \A p : Acceptances(p)' = IF Accepts(w, p) THEN Acceptances(p) \cup {w} ELSE Acceptances(p)
         /\ \A e : Debits(e)' = IF Funds(w, e) THEN Debits(e) \cup {w} ELSE Debits(e)
         /\ \A p : Accepts(w, p) => w \notin Acceptances(p)
         /\ \A e : Funds(w, e) => w \notin Debits(e)
<1>1. \A v \in settled : request'[v] = request[v]
  BY SettledKeepRequests
<1>2. CASE settled' = settled /\ ~(Commit(w) /\ mem[w].wrote)
  <2>1. \A p : ~Accepts(w, p) /\ ~Funds(w, p)
    BY <1>2 DEF Accepts, Funds
  <2> QED
    BY <1>1, <1>2, <2>1 DEF Acceptances, Debits
<1>3. CASE Commit(w) /\ mem[w].wrote
  <2>1. /\ settled' = settled \cup {w} /\ request' = request
        /\ request[w].kind # "complete" => w \notin settled
    BY <1>3, CommitsOnce DEF Commit, Record
  <2> QED
    BY <1>3, <2>1 DEF Acceptances, Debits, Accepts, Funds
<1>4. CASE SaveWallet(w) /\ request[w].kind = "complete" /\ settled' = settled \cup {w}
  <2>1. request' = request /\ \A p : ~Accepts(w, p) /\ ~Funds(w, p)
    BY <1>4 DEF SaveWallet, Accepts, Funds
  <2> QED
    BY <1>4, <2>1 DEF Acceptances, Debits
<1> QED
  BY <1>2, <1>3, <1>4, Settling

LEMMA Counting ==
  ASSUME TxInv, SettledOK, NEW w \in Workers, Acts(w)
  PROVE  /\ \A p : /\ Cardinality(Acceptances(p)) \in Nat
                   /\ Cardinality(Acceptances(p))' =
                        Cardinality(Acceptances(p)) + (IF Accepts(w, p) THEN 1 ELSE 0)
         /\ \A e : /\ Fundings(e) \in Nat
                   /\ Fundings(e)' = Fundings(e) + (IF Funds(w, e) THEN 1 ELSE 0)
<1>1. \A p : IsFiniteSet(Acceptances(p)) /\ IsFiniteSet(Debits(p))
  BY FS_Subset DEF SettledOK, Acceptances, Debits
<1>2. \A S, x : IsFiniteSet(S) =>
        /\ Cardinality(S) \in Nat
        /\ x \notin S => Cardinality(S \cup {x}) = Cardinality(S) + 1
  BY FS_AddElement, FS_CardinalityType
<1>3. ASSUME NEW p
      PROVE  /\ Cardinality(Acceptances(p)) \in Nat
             /\ Cardinality(Acceptances(p))' =
                  Cardinality(Acceptances(p)) + (IF Accepts(w, p) THEN 1 ELSE 0)
  <2>1. /\ Acceptances(p)' = IF Accepts(w, p) THEN Acceptances(p) \cup {w} ELSE Acceptances(p)
        /\ Accepts(w, p) => w \notin Acceptances(p)
    BY CountsStep
  <2>2. Cardinality(Acceptances(p)') =
          Cardinality(Acceptances(p)) + (IF Accepts(w, p) THEN 1 ELSE 0)
    BY <1>1, <1>2, <2>1
  <2> QED
    BY <1>1, <1>2, <2>2
<1>4. ASSUME NEW e
      PROVE  /\ Cardinality(Debits(e)) \in Nat
             /\ Cardinality(Debits(e))' =
                  Cardinality(Debits(e)) + (IF Funds(w, e) THEN 1 ELSE 0)
  <2>1. /\ Debits(e)' = IF Funds(w, e) THEN Debits(e) \cup {w} ELSE Debits(e)
        /\ Funds(w, e) => w \notin Debits(e)
    BY CountsStep
  <2>2. CASE Funds(w, e)
    <3>1. Cardinality(Debits(e)') = Cardinality(Debits(e)) + 1
      BY <1>1, <1>2, <2>1, <2>2
    <3> QED
      BY <1>1, <1>2, <2>2, <3>1
  <2>3. CASE ~Funds(w, e)
    <3>1. Debits(e)' = Debits(e)
      BY <2>1, <2>3
    <3>2. Cardinality(Debits(e)') = Cardinality(Debits(e)) /\ Cardinality(Debits(e)) \in Nat
      BY <1>1, <1>2, <3>1
    <3> QED
      BY <2>3, <3>2
  <2> QED
    BY <2>2, <2>3
<1> QED
  BY <1>3, <1>4 DEF Fundings

\* Nobody else changes a row that a transaction has written.
LEMMA OthersLocked ==
  ASSUME TxInv, NEW w \in Workers, Acts(w), NEW v \in Workers \ {w}, NEW row \in DOMAIN writes[v]
  PROVE  db'[row] = db[row]
<1>1. Shape /\ row \in Rows /\ row \notin DOMAIN writes[w]
  BY DEF TxInv, WorkerOK, WritesOK, Exclusive
<1>2. CASE Stores(w)
  BY <1>1, <1>2, UpdateDoes DEF Stores
<1>3. CASE Commit(w)
  BY <1>1, <1>3 DEF Commit, Over, Shape
<1>4. CASE UNCHANGED <<db, writes>> \/ GiveUp(w)
  BY <1>4 DEF GiveUp
<1> QED
  BY <1>2, <1>3, <1>4, StepForm

LEMMA OnlyBeginRequests ==
  ASSUME NEW w \in Workers, Acts(w), ~\E r \in Offered : Begin(w, r)
  PROVE  request' = request
BY DEF Acts, Step, Crash, LoadEscrow, LoadToCancel, LoadWallet, LoadProof, CompareEscrow,
  CheckMilestones, InsertPayment, UpdatePayment, UpdateEscrow, SaveProof, SaveMilestone, SaveWallet,
  WriteMilestones, LoadToDispute, MarkDisputed, Commit, GiveUp

\* A funding that commits its escrow has taken the money for it.
LEMMA BecomesFunded ==
  ASSUME TxInv, StatusOK, NEW w \in Workers, Acts(w), NEW e \in Escrows,
         db'[E(e)].status = "FUNDED", ~Funds(w, e)
  PROVE  db[E(e)].status = "FUNDED"
<1>1. WorkerOK(w) /\ Shape /\ E(e) \in Rows
  BY DEF TxInv, Rows
<1>2. CASE Stores(w)
  <2>1. PICK row \in Rows : \E value : Allowed(w, row, value) /\ Update(w, row, value)
    BY <1>2 DEF Stores
  <2>2. PICK value : Allowed(w, row, value) /\ Update(w, row, value)
    BY <2>1
  <2>3. row = E(e) => InTransaction(w)
    BY <2>2, EscrowInTransaction DEF Allowed
  <2> QED
    BY <1>1, <2>2, <2>3, UpdateDoes
<1>3. CASE Commit(w)
  <2>1. CASE E(e) \in DOMAIN writes[w]
    <3>1. /\ writes[w][E(e)].status = "FUNDED" /\ e = request[w].escrow
          /\ Left(w) \subseteq {"writeMilestones", "commit"}
      BY <1>1, <1>3, <2>1 DEF Commit, Over, Shape, WorkerOK, WritesOK
    <3>2. InFlight(w)
      BY <1>3 DEF Commit, At
    <3>3. request[w].kind = "fund" => mem[w].wrote
      BY <1>1, <3>1, <3>2 DEF WorkerOK, MemOK
    <3> QED
      BY <1>3, <2>1, <3>1, <3>3 DEF StatusOK, MadeBy, Funds
  <2>2. CASE E(e) \notin DOMAIN writes[w]
    BY <1>1, <1>3, <2>2 DEF Commit, Over, Shape
  <2> QED
    BY <2>1, <2>2
<1>4. CASE UNCHANGED <<db, writes>> \/ GiveUp(w)
  BY <1>4 DEF GiveUp
<1> QED
  BY <1>2, <1>3, <1>4, StepForm

LEMMA StatusStep ==
  ASSUME TxInv, StatusOK, NEW w \in Workers, Acts(w)
  PROVE  StatusOK'
<1>1. WorkerOK(w) /\ Shape /\ \A e \in Escrows : E(e) \in Rows
  BY DEF TxInv, Rows
<1>2. ASSUME NEW v \in Workers \ {w}, NEW e \in Escrows, NEW status \in {"FUNDED", "DISPUTED"},
             E(e) \in DOMAIN writes'[v], writes'[v][E(e)].status = status
      PROVE  request'[v].kind = MadeBy(status) \/ db'[E(e)].status = status
  <2>1. writes'[v] = writes[v] /\ request'[v] = request[v]
    BY OneActs DEF Untouched
  <2>2. db'[E(e)] = db[E(e)]
    BY <1>2, <2>1, OthersLocked
  <2> QED
    BY <1>2, <2>1, <2>2 DEF StatusOK
<1>3. ASSUME NEW e \in Escrows, NEW status \in {"FUNDED", "DISPUTED"},
             E(e) \in DOMAIN writes'[w], writes'[w][E(e)].status = status
      PROVE  request'[w].kind = MadeBy(status) \/ db'[E(e)].status = status
  <2>1. ~\E r \in Offered : Begin(w, r)
    <3>1. ASSUME NEW r \in Offered, Begin(w, r) PROVE DOMAIN writes'[w] = {}
      BY <1>1, <3>1 DEF Begin, WorkerOK, RequestOK
    <3> QED
      BY <1>3, <3>1
  <2>2. request' = request
    BY <2>1, OnlyBeginRequests
  <2>3. CASE UNCHANGED <<db, writes>>
    BY <1>3, <2>2, <2>3 DEF StatusOK
  <2>4. CASE GiveUp(w) \/ Commit(w)
    BY <1>3, <2>4, RequestsEnd DEF Ends
  <2>5. CASE Stores(w)
    <3>1. PICK row \in Rows : \E value : Allowed(w, row, value) /\ Update(w, row, value)
      BY <2>5 DEF Stores
    <3>2. PICK value : Allowed(w, row, value) /\ Update(w, row, value)
      BY <3>1
    <3>7. CASE ~InTransaction(w)
      <4>1. row # E(e)
        BY <3>2, <3>7, EscrowInTransaction DEF Allowed
      <4>2. writes'[w] = writes[w] /\ db'[E(e)] = db[E(e)]
        BY <1>1, <3>2, <3>7, <4>1, UpdateDoes
      <4> QED
        BY <1>3, <2>2, <4>2 DEF StatusOK
    <3> SUFFICES ASSUME InTransaction(w)
                 PROVE  request'[w].kind = MadeBy(status) \/ db'[E(e)].status = status
      BY <3>7
    <3>3. InTransaction(w)
      OBVIOUS
    <3>4. /\ db' = db /\ DOMAIN writes'[w] = DOMAIN writes[w] \cup {row} /\ writes'[w][row] = value
          /\ \A x \in DOMAIN writes[w] \ {row} : writes'[w][x] = writes[w][x]
      BY <1>1, <3>2, <3>3, UpdateDoes
    <3>5. CASE row = E(e)
      <4>1. request[w].kind = MadeBy(status) \/ See(w, E(e)).status = status
        BY <1>3, <3>2, <3>4, <3>5 DEF Allowed
      <4> QED
        BY <2>2, <3>4, <4>1 DEF See, StatusOK
    <3>6. CASE row # E(e)
      BY <1>3, <2>2, <3>4, <3>6 DEF StatusOK
    <3> QED
      BY <3>5, <3>6
  <2> QED
    BY <2>3, <2>4, <2>5, StepForm
<1> QED
  BY <1>2, <1>3 DEF StatusOK

\* Only the commit of an acceptance, which then has paid, makes a proof accepted.
LEMMA BecomesAccepted ==
  ASSUME TxInv, NEW w \in Workers, Acts(w), NEW p \in Proofs, db'[D(p)] = "ACCEPTED",
         ~Accepts(w, p)
  PROVE  db[D(p)] = "ACCEPTED"
<1>1. WorkerOK(w) /\ Shape /\ D(p) \in Rows
  BY DEF TxInv, Rows
<1>2. CASE Stores(w)
  <2>1. PICK row \in Rows : \E value : Allowed(w, row, value) /\ Update(w, row, value)
    BY <1>2 DEF Stores
  <2>2. PICK value : Allowed(w, row, value) /\ Update(w, row, value)
    BY <2>1
  <2>3. InTransaction(w) \/ row # D(p)
    BY <2>2 DEF Allowed, InTransaction
  <2> QED
    BY <1>1, <2>2, <2>3, UpdateDoes
<1>3. CASE Commit(w)
  <2>1. CASE D(p) \in DOMAIN writes[w]
    <3>1. p = request[w].on /\ request[w].kind = "accept"
      BY <1>1, <1>3, <2>1 DEF Commit, Over, Shape, WorkerOK, WritesOK
    <3>2. At(w, "commit") /\ InFlight(w) /\ RequestOK(w)
      BY <1>1, <1>3 DEF Commit, At, WorkerOK
    <3>3. "saveWallet" \notin Left(w)
      BY <3>2, AtIsFirst, RankTable
    <3> QED
      BY <1>1, <1>3, <3>1, <3>2, <3>3 DEF WorkerOK, MemOK, Accepts
  <2>2. CASE D(p) \notin DOMAIN writes[w]
    BY <1>1, <1>3, <2>2 DEF Commit, Over, Shape
  <2> QED
    BY <2>1, <2>2
<1>4. CASE UNCHANGED <<db, writes>> \/ GiveUp(w)
  BY <1>4 DEF GiveUp
<1> QED
  BY <1>2, <1>3, <1>4, StepForm

\* What an acceptance that is in flight has left: everything behind the statement it is at.
LEMMA AcceptanceOrder ==
  ASSUME TxInv, NEW w \in Workers, InFlight(w), request[w].kind = "accept"
  PROVE  /\ request[w] \in Requests /\ request[w].on \in Proofs
         /\ request[w].escrow = ProofOf[request[w].on] /\ request[w].escrow \in Escrows
         /\ "commit" \in Left(w) /\ Left(w) \subseteq First("accept")
         /\ \A x \in Left(w), y \in First("accept") : Rank(x) < Rank(y) => y \in Left(w)
<1>1. RequestOK(w)
  BY DEF TxInv, WorkerOK
<1>2. request[w] \in Requests
  BY <1>1, InFlightRequest
<1>3. MayRun("accept") = First("accept")
  BY DEF MayRun
<1>4. /\ "loadToCancel" \notin First("accept") /\ "saveMilestone" \notin First("accept")
      /\ "checkMilestones" \notin First("accept")
  BY DEF First, Completing, Finishing
<1>5. Left(w) \subseteq First("accept")
  BY <1>1, <1>3 DEF RequestOK
<1>6. "commit" \in Left(w)
  BY <1>1, <1>4, <1>5 DEF RequestOK
<1>7. \A x \in Left(w), y \in First("accept") : Rank(x) < Rank(y) => y \in Left(w)
  BY <1>1, <1>3, <1>4, <1>5 DEF RequestOK, Branching
<1> QED
  BY <1>2, <1>5, <1>6, <1>7, WhatIsRequested

\* An acceptance that goes on has begun, or has executed one more statement; neither makes
\* anything durable.
Rewrites(w) == WriteMilestones(w) /\ mem[w].back # {}

LEMMA AcceptanceActs ==
  ASSUME TxInv, NEW w \in Workers, Acts(w), InFlight(w)', request'[w].kind = "accept"
  PROVE  /\ db' = db /\ settled' = settled
         /\ \A p : ~Accepts(w, p) /\ ~Funds(w, p)
         /\ \/ "saveProof" \in Left(w)'
            \/ Rewrites(w)
            \/ \E s \in First("accept") \ {"commit"} :
                 /\ At(w, s) /\ InFlight(w) /\ request' = request /\ Left(w)' = Left(w) \ {s}
                 /\ s # "compareEscrow" => mem'[w].dirty = mem[w].dirty
                 /\ s = "loadEscrow" => See(w, E(request[w].escrow)).status = "FUNDED"
                 /\ s = "compareEscrow" => CompareEscrow(w)
                 /\ s = "updateEscrow" => UpdateEscrow(w)
                 /\ s = "writeMilestones" => writes' = writes
<1>1. RequestOK(w) /\ Shape
  BY DEF TxInv, WorkerOK
<1>2. ~GiveUp(w) /\ ~Commit(w)
  BY NothingToDo
<1>3. \A p : ~Accepts(w, p) /\ ~Funds(w, p)
  BY <1>2 DEF Accepts, Funds
<1>4. ASSUME NEW r \in Offered, Begin(w, r)
      PROVE  db' = db /\ settled' = settled /\ "saveProof" \in Left(w)'
  <2>1. r \in Requests
    BY EscrowTxAssumption
  <2>2. request'[w] = r /\ todo'[w] = Program(r)
    BY <1>1, <1>4 DEF Begin, Shape
  <2>3. Left(w)' = First("accept")
    BY <2>1, <2>2, ProgramsOrdered DEF Left
  <2> QED
    BY <1>4, <2>3 DEF First, Begin
<1>5. ASSUME ~\E r \in Offered : Begin(w, r)
      PROVE  /\ db' = db /\ settled' = settled
             /\ \/ Rewrites(w)
                \/ \E s \in First("accept") \ {"commit"} :
                     /\ At(w, s) /\ InFlight(w) /\ request' = request /\ Left(w)' = Left(w) \ {s}
                     /\ s # "compareEscrow" => mem'[w].dirty = mem[w].dirty
                     /\ s = "loadEscrow" => See(w, E(request[w].escrow)).status = "FUNDED"
                     /\ s = "compareEscrow" => CompareEscrow(w)
                     /\ s = "updateEscrow" => UpdateEscrow(w)
                     /\ s = "writeMilestones" => writes' = writes
  <2>1. request' = request /\ request[w].kind = "accept"
    BY <1>5, OnlyBeginRequests
  <2>2. settled' = settled
    BY <1>2, <2>1, Settling
  <2>3. db' = db
    <3>1. CASE Stores(w)
      BY <1>1, <2>1, <3>1, UpdateDoes DEF Stores, InTransaction
    <3> QED
      BY <1>2, <3>1, StepForm
  <2>4. InFlight(w) /\ Step(w)
    BY <1>2, <1>5 DEF Acts, Crash, Step, LoadEscrow, LoadToCancel, LoadWallet, LoadProof,
      CompareEscrow, CheckMilestones, InsertPayment, UpdatePayment, UpdateEscrow, SaveProof,
      SaveMilestone, WriteMilestones, LoadToDispute, MarkDisputed, SaveWallet, At
  <2>5. Left(w) \subseteq First("accept")
    BY <2>1, <2>4, AcceptanceOrder
  <2>6. ~LoadToCancel(w) /\ ~CheckMilestones(w) /\ ~LoadToDispute(w) /\ ~MarkDisputed(w)
    <3>1. ASSUME NEW s, At(w, s) PROVE s \in First("accept")
      BY <1>1, <2>5, <3>1, AtIsFirst
    <3>2. /\ "loadToCancel" \notin First("accept") /\ "checkMilestones" \notin First("accept")
          /\ "loadToDispute" \notin First("accept") /\ "markDisputed" \notin First("accept")
      BY DEF First, Completing, Finishing
    <3> QED
      BY <3>1, <3>2 DEF LoadToCancel, CheckMilestones, LoadToDispute, MarkDisputed
  <2> SUFFICES ASSUME ~Rewrites(w)
               PROVE  \E s \in First("accept") \ {"commit"} :
                        /\ At(w, s) /\ InFlight(w) /\ request' = request /\ Left(w)' = Left(w) \ {s}
                        /\ s # "compareEscrow" => mem'[w].dirty = mem[w].dirty
                        /\ s = "loadEscrow" => See(w, E(request[w].escrow)).status = "FUNDED"
                        /\ s = "compareEscrow" => CompareEscrow(w)
                        /\ s = "updateEscrow" => UpdateEscrow(w)
                        /\ s = "writeMilestones" => writes' = writes
    BY <2>2, <2>3
  <2>7. PICK s : /\ At(w, s) /\ Continue(w) /\ s # "commit"
                 /\ s # "compareEscrow" => mem'[w].dirty = mem[w].dirty
                 /\ s = "loadEscrow" => See(w, E(request[w].escrow)).status = "FUNDED"
                 /\ s = "compareEscrow" => CompareEscrow(w)
                 /\ s = "updateEscrow" => UpdateEscrow(w)
                 /\ s = "writeMilestones" => writes' = writes
    <3>1. CASE LoadEscrow(w)
      <4>1. /\ At(w, "loadEscrow") /\ Continue(w)
            /\ See(w, E(request[w].escrow)).status = "FUNDED"
            /\ mem' = [mem EXCEPT
                 ![w].paymentId = See(w, E(request[w].escrow)).paymentId,
                 ![w].milestones = {<<m, See(w, M(m))>> : m \in MilestonesIn(request[w].escrow)}]
        BY <1>2, <2>1, <3>1 DEF LoadEscrow, Expected
      <4>2. mem'[w].dirty = mem[w].dirty
        BY <1>1, <4>1 DEF Shape, TxInv, WorkerOK, MemOK, Memories
      <4> QED
        BY <4>1, <4>2
    <3>2. CASE LoadWallet(w)
      <4>1. /\ At(w, "loadWallet") /\ Continue(w)
            /\ mem' = [mem EXCEPT ![w].balance = See(w, W(Party(request[w])))]
        BY <1>2, <3>2 DEF LoadWallet
      <4>2. mem'[w].dirty = mem[w].dirty
        BY <1>1, <4>1 DEF Shape, TxInv, WorkerOK, MemOK, Memories
      <4> QED
        BY <4>1, <4>2
    <3>3. CASE SaveWallet(w)
      <4>1. At(w, "saveWallet") /\ Continue(w) /\ mem' = [mem EXCEPT ![w].wrote = TRUE]
        BY <3>3 DEF SaveWallet
      <4>2. mem'[w].dirty = mem[w].dirty
        BY <1>1, <4>1 DEF Shape, TxInv, WorkerOK, MemOK, Memories
      <4> QED
        BY <4>1, <4>2
    <3>4. CASE InsertPayment(w)
      <4>1. At(w, "insertPayment") /\ Continue(w) /\ mem' = [mem EXCEPT ![w].paymentId = w]
        BY <3>4 DEF InsertPayment
      <4>2. mem'[w].dirty = mem[w].dirty
        BY <1>1, <4>1 DEF Shape, TxInv, WorkerOK, MemOK, Memories
      <4> QED
        BY <4>1, <4>2
    <3>5. CASE CompareEscrow(w)
      BY <3>5 DEF CompareEscrow
    <3>6. CASE UpdateEscrow(w)
      BY <3>6 DEF UpdateEscrow
    <3>7. CASE UpdatePayment(w)
      BY <3>7 DEF UpdatePayment
    <3>8. CASE LoadProof(w)
      BY <1>2, <3>8 DEF LoadProof
    <3>9. CASE SaveProof(w)
      BY <3>9 DEF SaveProof
    <3>10. CASE SaveMilestone(w)
      BY <3>10 DEF SaveMilestone
    <3>11. CASE WriteMilestones(w)
      <4>1. mem[w].back = {} /\ At(w, "writeMilestones")
        BY <3>11 DEF Rewrites, WriteMilestones
      <4> QED
        BY <3>11, <4>1, StoresBack
    <3> QED
      BY <1>2, <2>4, <2>6, <3>1, <3>2, <3>3, <3>4, <3>5, <3>6, <3>7, <3>8, <3>9, <3>10, <3>11
      DEF Step
  <2>8. Left(w)' = Left(w) \ {s} /\ s \in Left(w)
    BY <2>7, ContinueDoes
  <2> QED
    BY <2>1, <2>4, <2>5, <2>7, <2>8
<1> QED
  BY <1>3, <1>4, <1>5

\* Writing a milestone back changes nothing of this.
LEMMA PayingRewrites ==
  ASSUME TxInv, NEW w \in Workers, Acts(w), Rewrites(w), NEW p
  PROVE  /\ Paying(w, p)' <=> Paying(w, p)
         /\ Passing(w, p)' <=> Passing(w, p)
         /\ AcceptedEscrow(w, p) => AcceptedEscrow(w, p)'
<1>1. Shape /\ WorkerOK(w) /\ At(w, "writeMilestones") /\ request' = request
  BY DEF TxInv, Rewrites, WriteMilestones
<1>2. todo' = todo /\ mem'[w].dirty = mem[w].dirty
  BY <1>1, StoresBack DEF Rewrites, Shape, WorkerOK, MemOK, Memories
<1>3. Left(w)' = Left(w) /\ (InFlight(w)' <=> InFlight(w))
  BY <1>2 DEF Left, InFlight
<1>4. /\ Paying(w, p)' <=> Paying(w, p)
      /\ Passing(w, p)' <=> Passing(w, p)
  BY <1>1, <1>2, <1>3 DEF Paying, Passing
<1>5. ASSUME NEW e, E(e) \in DOMAIN writes[w]
      PROVE  E(e) \in DOMAIN writes'[w] /\ writes'[w][E(e)] = writes[w][E(e)]
  <2>1. PICK row \in Rows : \E value : Allowed(w, row, value) /\ Update(w, row, value)
    BY StoresBack DEF Stores, Rewrites
  <2>2. PICK value : Allowed(w, row, value) /\ Update(w, row, value)
    BY <2>1
  <2>3. InTransaction(w) /\ row # E(e)
    BY <1>1, <2>2 DEF Allowed, InTransaction, At
  <2> QED
    BY <1>1, <1>5, <2>2, <2>3, UpdateDoes
<1> QED
  BY <1>3, <1>4, <1>5 DEF AcceptedEscrow

\* What is said of an acceptance holds as long as it does not act.
LEMMA PayingStays ==
  ASSUME TxInv, NEW w \in Workers, Acts(w), NEW v \in Workers \ {w}, NEW p
  PROVE  /\ Paying(v, p)' <=> Paying(v, p)
         /\ Passing(v, p)' <=> Passing(v, p)
         /\ AcceptedEscrow(v, p) => AcceptedEscrow(v, p)'
<1>1. todo'[v] = todo[v] /\ mem'[v] = mem[v] /\ request'[v] = request[v] /\ writes'[v] = writes[v]
  BY OneActs DEF Untouched
<1>2. Left(v)' = Left(v) /\ (InFlight(v)' <=> InFlight(v))
  BY <1>1 DEF Left, InFlight
<1> QED
  BY <1>1, <1>2 DEF Paying, Passing, AcceptedEscrow

\* How an acceptance comes to pay: it finds the escrow funded in the committed rows.
LEMMA StartsPaying ==
  ASSUME TxInv, NEW w \in Workers, Acts(w), NEW p \in Proofs, Paying(w, p)', ~Paying(w, p)
  PROVE  db[E(ProofOf[p])].status = "FUNDED"
<1>1. "saveProof" \notin Left(w)' /\ "loadEscrow" \notin Left(w)'
  BY DEF Paying
<1>2. PICK s \in First("accept") \ {"commit"} :
        /\ At(w, s) /\ InFlight(w) /\ request' = request /\ Left(w)' = Left(w) \ {s}
        /\ s = "loadEscrow" => See(w, E(request[w].escrow)).status = "FUNDED"
  BY <1>1, AcceptanceActs, PayingRewrites DEF Paying
<1>3. request[w].kind = "accept" /\ request[w].on = p
  BY <1>2 DEF Paying
<1>4. s \in Left(w) /\ RequestOK(w) /\ WritesOK(w)
  BY <1>2, AtIsFirst DEF TxInv, WorkerOK
<1>5. "loadEscrow" \in First("accept")
  BY DEF First, Completing
<1>6. s # "saveProof"
  BY <1>1, <1>2, <1>3, <1>4, <1>5, AcceptanceOrder, RankTable
<1>7. s = "loadEscrow"
  BY <1>1, <1>2, <1>3, <1>6 DEF Paying
<1>8. request[w].escrow = ProofOf[p] /\ ProofOf[p] \in Escrows
  BY <1>2, <1>3, AcceptanceOrder
<1>9. E(ProofOf[p]) \notin DOMAIN writes[w]
  BY <1>4, <1>7, <1>8 DEF WritesOK
<1> QED
  BY <1>2, <1>7, <1>8, <1>9 DEF See

\* How it comes to pass the status on: somebody else has completed the escrow.
LEMMA StartsPassing ==
  ASSUME TxInv, NEW w \in Workers, Acts(w), NEW p \in Proofs, Passing(w, p)', ~Passing(w, p)
  PROVE  db[E(ProofOf[p])].status # "FUNDED"
<1>1. /\ "saveProof" \notin Left(w)' /\ "loadEscrow" \notin Left(w)'
      /\ "compareEscrow" \notin Left(w)' /\ "status" \notin mem'[w].dirty
  BY DEF Passing, Paying
<1>2. PICK s \in First("accept") \ {"commit"} :
        /\ At(w, s) /\ InFlight(w) /\ request' = request /\ Left(w)' = Left(w) \ {s}
        /\ s # "compareEscrow" => mem'[w].dirty = mem[w].dirty
        /\ s = "compareEscrow" => CompareEscrow(w)
  BY <1>1, AcceptanceActs, PayingRewrites DEF Passing, Paying
<1>3. request[w].kind = "accept" /\ request[w].on = p
  BY <1>2 DEF Passing, Paying
<1>4. s \in Left(w) /\ RequestOK(w) /\ WritesOK(w) /\ MemOK(w) /\ Shape
  BY <1>2, AtIsFirst DEF TxInv, WorkerOK
<1>5. "compareEscrow" \in First("accept")
  BY DEF First, Completing, Finishing
<1>6. s # "saveProof" /\ s # "loadEscrow"
  BY <1>1, <1>2, <1>3, <1>4, <1>5, AcceptanceOrder, RankTable
<1>7. s = "compareEscrow"
  BY <1>1, <1>2, <1>3, <1>6 DEF Passing, Paying
<1>8. request[w].escrow = ProofOf[p] /\ ProofOf[p] \in Escrows /\ request[w] \in Requests
  BY <1>2, <1>3, AcceptanceOrder
<1>9. E(ProofOf[p]) \notin DOMAIN writes[w]
  BY <1>4, <1>7, <1>8 DEF WritesOK
<1>10. See(w, E(request[w].escrow)).status = NewStatus(request[w])
  <2> DEFINE row == See(w, E(request[w].escrow))
             dirty == {c \in {"status", "paymentId", "completedAt"} :
                         \/ c = "status" /\ row.status # NewStatus(request[w])
                         \/ c = "paymentId" /\ row.paymentId # mem[w].paymentId
                         \/ c = "completedAt" /\ NewStatus(request[w]) = "COMPLETED"}
             changed == {x \in mem[w].milestones : See(w, M(x[1])) # x[2]}
             Stale(x) == IF See(w, M(x[1])).status = x[2].status THEN None ELSE x[2].status
             back == {<<x[1], Stale(x)>> : x \in changed}
  <2>1. mem' = [mem EXCEPT ![w].dirty = dirty, ![w].back = back, ![w].milestones = {}]
    BY <1>2, <1>7 DEF CompareEscrow
  <2> HIDE DEF back, dirty
  <2>2. mem'[w].dirty = dirty
    BY <1>4, <2>1 DEF Shape, MemOK, Memories
  <2>3. "status" \notin dirty
    BY <1>1, <2>2
  <2> QED
    BY <2>3 DEF dirty
<1>11. NewStatus(request[w]) = "COMPLETED"
  BY <1>3, <1>8, WhatRequestsDo
<1> QED
  BY <1>8, <1>9, <1>10, <1>11 DEF See

\* An acceptance has written the escrow's row when it commits.
LEMMA AcceptedEscrowStep ==
  ASSUME TxInv, NEW w \in Workers, Acts(w), NEW p \in Proofs, AcceptedEscrow(w, p)
  PROVE  AcceptedEscrow(w, p)'
<1> SUFFICES ASSUME Paying(w, p)', "updateEscrow" \notin Left(w)'
             PROVE  /\ E(ProofOf[p]) \in DOMAIN writes'[w]
                    /\ writes'[w][E(ProofOf[p])].status = "COMPLETED" \/ Passing(w, p)'
  BY DEF AcceptedEscrow
<1>14. CASE Rewrites(w)
  <2>1. AcceptedEscrow(w, p)'
    BY <1>14, PayingRewrites
  <2> QED
    BY <2>1 DEF AcceptedEscrow
<1> SUFFICES ASSUME ~Rewrites(w)
             PROVE  /\ E(ProofOf[p]) \in DOMAIN writes'[w]
                    /\ writes'[w][E(ProofOf[p])].status = "COMPLETED" \/ Passing(w, p)'
  BY <1>14
<1>1. PICK s \in First("accept") \ {"commit"} :
        /\ At(w, s) /\ InFlight(w) /\ request' = request /\ Left(w)' = Left(w) \ {s}
        /\ s # "compareEscrow" => mem'[w].dirty = mem[w].dirty
        /\ s = "updateEscrow" => UpdateEscrow(w)
        /\ s = "writeMilestones" => writes' = writes
  BY AcceptanceActs DEF Paying
<1>2. request[w].kind = "accept" /\ request[w].on = p
  BY <1>1 DEF Paying
<1>3. s \in Left(w) /\ RequestOK(w) /\ WritesOK(w) /\ MemOK(w) /\ Shape
  BY <1>1, AtIsFirst DEF TxInv, WorkerOK
<1>13. CASE s = "writeMilestones"
  <2>1. Paying(w, p) /\ "updateEscrow" \notin Left(w) /\ (Passing(w, p) => Passing(w, p)')
    BY <1>1, <1>13 DEF Paying, Passing
  <2> QED
    BY <1>1, <1>13, <2>1 DEF AcceptedEscrow
<1> SUFFICES ASSUME s # "writeMilestones"
             PROVE  /\ E(ProofOf[p]) \in DOMAIN writes'[w]
                    /\ writes'[w][E(ProofOf[p])].status = "COMPLETED" \/ Passing(w, p)'
  BY <1>13
<1>4. s = "updateEscrow"
  <2>1. \A x \in First("accept") \ {"commit"} :
          x \in {"updateEscrow", "writeMilestones"} \/ Rank(x) < Rank("updateEscrow")
    BY RankTable DEF First, Completing, Finishing
  <2>2. "updateEscrow" \in First("accept")
    BY DEF First, Completing, Finishing
  <2> QED
    BY <1>1, <1>2, <1>3, <2>1, <2>2, AcceptanceOrder
<1>5. request[w].escrow = ProofOf[p] /\ ProofOf[p] \in Escrows /\ request[w] \in Requests
  BY <1>1, <1>2, AcceptanceOrder
<1>6. "compareEscrow" \notin Left(w) /\ NewStatus(request[w]) = "COMPLETED"
  BY <1>1, <1>2, <1>3, <1>4, <1>5, AtIsFirst, RankTable, WhatRequestsDo
<1>7. mem[w].dirty # {}
  BY <1>1, <1>2, <1>3, <1>6 DEF MemOK
<1> DEFINE row == See(w, E(request[w].escrow))
           new == [status |-> IF "status" \in mem[w].dirty THEN NewStatus(request[w])
                              ELSE row.status,
                   paymentId |-> IF "paymentId" \in mem[w].dirty THEN mem[w].paymentId
                                 ELSE row.paymentId]
<1>8. Update(w, E(request[w].escrow), new)
  BY <1>1, <1>4, <1>7 DEF UpdateEscrow
<1>9. "status" \in mem[w].dirty => new.status = "COMPLETED"
  BY <1>6
<1> HIDE DEF new
<1>10. E(request[w].escrow) \in DOMAIN writes'[w] /\ writes'[w][E(request[w].escrow)] = new
  <2>1. E(request[w].escrow) \in Rows /\ InTransaction(w)
    BY <1>2, <1>5, SeeRows DEF InTransaction
  <2> QED
    BY <1>3, <1>8, <2>1, UpdateDoes
<1>11. CASE "status" \in mem[w].dirty
  BY <1>5, <1>9, <1>10, <1>11
<1>12. CASE "status" \notin mem[w].dirty
  <2>1. Passing(w, p)'
    BY <1>1, <1>4, <1>6, <1>12 DEF Passing
  <2> QED
    BY <1>5, <1>10, <2>1
<1> QED
  BY <1>11, <1>12

\* An acceptance that commits was paying, and no other acceptance of the proof was.
LEMMA AcceptsAlone ==
  ASSUME TxInv, NEW w \in Workers, NEW p \in Proofs, Accepts(w, p)
  PROVE  /\ Paying(w, p) /\ "updateEscrow" \notin Left(w) /\ request[w].escrow = ProofOf[p]
         /\ \A v \in Workers \ {w} : ~Paying(v, p)
<1>1. At(w, "commit") /\ InFlight(w) /\ RequestOK(w) /\ WritesOK(w)
  BY DEF Accepts, Commit, At, TxInv, WorkerOK
<1>2. "saveProof" \notin Left(w) /\ "loadEscrow" \notin Left(w) /\ "updateEscrow" \notin Left(w)
  BY <1>1, AtIsFirst, RankTable
<1>3. Paying(w, p)
  BY <1>1, <1>2 DEF Accepts, Paying
<1>4. \A v \in Workers : Paying(v, p) => D(p) \in DOMAIN writes[v]
  BY DEF TxInv, WorkerOK, WritesOK, Paying
<1>5. \A v \in Workers \ {w} : ~Paying(v, p)
  BY <1>3, <1>4 DEF TxInv, Exclusive
<1> QED
  BY <1>1, <1>2, <1>3, <1>5, AcceptanceOrder DEF Paying

LEMMA AcceptedStatus ==
  ASSUME TxInv, StatusOK, NEW w \in Workers, NEW p \in Proofs, Accepts(w, p), AcceptedEscrow(w, p),
         db'[E(ProofOf[p])].status = "FUNDED"
  PROVE  Passing(w, p) /\ db[E(ProofOf[p])].status = "FUNDED"
<1>1. Paying(w, p) /\ "updateEscrow" \notin Left(w)
  BY AcceptsAlone
<1>2. E(ProofOf[p]) \in DOMAIN writes[w] /\ ProofOf[p] \in Escrows
  BY <1>1, EscrowTxAssumption DEF AcceptedEscrow
<1>3. db'[E(ProofOf[p])] = writes[w][E(ProofOf[p])]
  BY <1>2 DEF Accepts, Commit, Over
<1> QED
  BY <1>1, <1>2, <1>3 DEF AcceptedEscrow, StatusOK, MadeBy, Accepts

LEMMA UnusedStep ==
  ASSUME TxInv, SettledOK, StatusOK, NEW w \in Workers, Acts(w), NEW p \in Proofs, Unused(p),
         AcceptedEscrow(w, p)
  PROVE  Unused(p)'
<1> DEFINE N == Cardinality(Acceptances(p))
           F == Fundings(ProofOf[p])
           funded == db[E(ProofOf[p])].status = "FUNDED"
<1>1. ProofOf[p] \in Escrows
  BY EscrowTxAssumption
<1>2. /\ N \in Nat /\ F \in Nat /\ N <= F
      /\ funded => N < F
      /\ \A v \in Workers : Paying(v, p) => N < F
      /\ \A v \in Workers : Passing(v, p) /\ funded => N + 1 < F
  BY DEF Unused
<1>3. /\ N' = N + (IF Accepts(w, p) THEN 1 ELSE 0)
      /\ F' = F + (IF Funds(w, ProofOf[p]) THEN 1 ELSE 0)
  BY Counting
<1>4. ~(Accepts(w, p) /\ Funds(w, ProofOf[p]))
  BY DEF Accepts, Funds
<1>5. funded' => funded \/ Funds(w, ProofOf[p])
  BY <1>1, BecomesFunded
<1>6. /\ Accepts(w, p) \/ Funds(w, ProofOf[p]) => ~Paying(w, p)' /\ ~Passing(w, p)'
      /\ Paying(w, p)' => Paying(w, p) \/ funded
      /\ Passing(w, p)' => Paying(w, p)' /\ (funded' => funded /\ Passing(w, p))
  <2>1. Accepts(w, p) \/ Funds(w, ProofOf[p]) => ~InFlight(w)'
    BY NothingToDo DEF Accepts, Funds
  <2>2. ASSUME Passing(w, p)', funded' PROVE funded /\ Passing(w, p)
    <3>1. InFlight(w)' /\ request'[w].kind = "accept"
      BY <2>2 DEF Passing, Paying
    <3>2. db' = db
      BY <3>1, AcceptanceActs
    <3> QED
      BY <2>2, <3>2, StartsPassing
  <2> QED
    BY <2>1, <2>2, StartsPaying DEF Passing, Paying
<1>7. Passing(w, p) => Paying(w, p)
  BY DEF Passing
<1>8. \A v \in Workers \ {w} : Passing(v, p) => Paying(v, p)
  BY DEF Passing
<1>9. ASSUME NEW v \in Workers
       PROVE  /\ Paying(v, p)' => (v # w /\ Paying(v, p)) \/ (v = w /\ Paying(w, p)')
              /\ Passing(v, p)' => (v # w /\ Passing(v, p)) \/ (v = w /\ Passing(w, p)')
  <2>1. CASE v = w
    <3>1. ASSUME Paying(v, p)' PROVE Paying(w, p)'
      BY <2>1, <3>1 DEF Paying
    <3>2. ASSUME Passing(v, p)' PROVE Passing(w, p)'
      BY <2>1, <3>1, <3>2 DEF Passing
    <3> QED
      BY <2>1, <3>1, <3>2
  <2>2. CASE v # w
    <3>1. v \in Workers \ {w}
      BY <2>2
    <3>2. (Paying(v, p)' => Paying(v, p)) /\ (Passing(v, p)' => Passing(v, p))
      BY <3>1, PayingStays
    <3> QED
      BY <2>2, <3>2
  <2> QED
    BY <2>1, <2>2
<1> HIDE DEF N, F, funded
<1>10. CASE Accepts(w, p)
  <2>1. Paying(w, p) /\ \A v \in Workers \ {w} : ~Paying(v, p)
    BY <1>10, AcceptsAlone
  <2>2. funded' => Passing(w, p) /\ funded
    BY <1>10, AcceptedStatus DEF funded
  <2>3. N' = N + 1 /\ F' = F /\ N < F
    BY <1>2, <1>3, <1>4, <1>10, <2>1
  <2>4. ASSUME NEW v \in Workers PROVE ~Paying(v, p)' /\ ~Passing(v, p)'
    BY <1>6, <1>8, <1>9, <1>10, <2>1
  <2>5. N' \in Nat /\ F' \in Nat /\ N' <= F' /\ (funded' => N' < F')
    BY <1>2, <2>2, <2>3
  <2> QED
    BY <2>4, <2>5 DEF Unused, N, F, funded
<1>11. CASE Funds(w, ProofOf[p])
  <2>1. N' = N /\ F' = F + 1 /\ ~Paying(w, p)' /\ ~Passing(w, p)'
    BY <1>2, <1>3, <1>4, <1>6, <1>11
  <2>2. N' \in Nat /\ F' \in Nat /\ N' <= F' /\ (funded' => N' < F')
    BY <1>2, <2>1
  <2>3. ASSUME NEW v \in Workers, Paying(v, p)' PROVE N' < F'
    BY <1>2, <2>1
  <2>4. ASSUME NEW v \in Workers, Passing(v, p)', funded' PROVE N' + 1 < F'
    <3>1. Passing(v, p) /\ v # w
      BY <1>9, <2>1, <2>4
    <3>2. N < F
      BY <1>2, <1>8, <3>1
    <3> QED
      BY <1>2, <2>1, <3>2
  <2> QED
    BY <2>2, <2>3, <2>4 DEF Unused, N, F, funded
<1>12. CASE ~Accepts(w, p) /\ ~Funds(w, ProofOf[p])
  <2>1. N' = N /\ F' = F /\ (funded' => funded)
    BY <1>2, <1>3, <1>5, <1>12
  <2>2. N' \in Nat /\ F' \in Nat /\ N' <= F' /\ (funded' => N' < F')
    BY <1>2, <2>1
  <2>3. ASSUME NEW v \in Workers, Paying(v, p)' PROVE N' < F'
    <3>1. Paying(v, p) \/ funded
      BY <1>6, <1>9, <2>3
    <3>2. N < F
      BY <1>2, <3>1
    <3> QED
      BY <2>1, <3>2
  <2>4. ASSUME NEW v \in Workers, Passing(v, p)', funded' PROVE N' + 1 < F'
    <3>1. Passing(v, p) /\ funded
      BY <1>6, <1>9, <2>1, <2>4
    <3>2. N + 1 < F
      BY <1>2, <3>1
    <3> QED
      BY <2>1, <3>2
  <2> QED
    BY <2>2, <2>3, <2>4 DEF Unused, N, F, funded
<1> QED
  BY <1>10, <1>11, <1>12

LEMMA AcceptStep == TxInv /\ AcceptInv /\ [Next]_vars => AcceptInv'
<1> SUFFICES ASSUME TxInv, AcceptInv, [Next]_vars PROVE AcceptInv'
  OBVIOUS
<1>1. CASE UNCHANGED vars
  <2>1. /\ \A w : Left(w)' = Left(w) /\ (InFlight(w)' <=> InFlight(w))
        /\ \A p : Acceptances(p)' = Acceptances(p) /\ Debits(p)' = Debits(p)
    BY <1>1 DEF Left, InFlight, Acceptances, Debits, vars
  <2>2. SettledOK' /\ StatusOK' /\ AcceptedProofWasPaid'
    BY <1>1, <2>1 DEF AcceptInv, SettledOK, StatusOK, AcceptedProofWasPaid, vars
  <2>3. \A w, p : (Paying(w, p)' <=> Paying(w, p)) /\ (Passing(w, p)' <=> Passing(w, p))
    BY <1>1, <2>1 DEF Paying, Passing, vars
  <2>4. \A w \in Workers, p \in Proofs : AcceptedEscrow(w, p)'
    BY <1>1, <2>1, <2>3 DEF AcceptInv, AcceptedEscrow, vars
  <2>5. ASSUME NEW p \in Proofs PROVE Unused(p)'
    <3>1. Cardinality(Acceptances(p))' = Cardinality(Acceptances(p))
      BY <2>1
    <3>2. Fundings(ProofOf[p])' = Fundings(ProofOf[p])
      BY <2>1 DEF Fundings
    <3>3. Unused(p) /\ db' = db
      BY <1>1 DEF AcceptInv, vars
    <3> QED
      BY <2>3, <3>1, <3>2, <3>3 DEF Unused
  <2> QED
    BY <2>2, <2>4, <2>5 DEF AcceptInv
<1>2. ASSUME NEW w \in Workers, Acts(w) PROVE AcceptInv'
  <2>1. SettledOK /\ StatusOK
    BY DEF AcceptInv
  <2>2. SettledOK' /\ StatusOK'
    BY <1>2, <2>1, SettledStep, StatusStep
  <2>3. ASSUME NEW p \in Proofs, db'[D(p)] = "ACCEPTED" PROVE Acceptances(p)' # {}
    BY <1>2, <2>1, <2>3, CountsStep, BecomesAccepted DEF AcceptInv, AcceptedProofWasPaid
  <2>4. ASSUME NEW p \in Proofs PROVE Unused(p)'
    BY <1>2, <2>1, UnusedStep DEF AcceptInv
  <2>5. ASSUME NEW p \in Proofs, NEW v \in Workers PROVE AcceptedEscrow(v, p)'
    <3>1. CASE v = w
      BY <1>2, <3>1, AcceptedEscrowStep DEF AcceptInv
    <3>2. CASE v # w
      BY <1>2, <3>2, PayingStays DEF AcceptInv
    <3> QED
      BY <3>1, <3>2
  <2> QED
    BY <2>2, <2>3, <2>4, <2>5 DEF AcceptInv, AcceptedProofWasPaid
<1> QED
  BY <1>1, <1>2, NextActs

LEMMA AcceptInit == Init => AcceptInv
<1> SUFFICES ASSUME Init PROVE AcceptInv
  OBVIOUS
<1>1. settled = {} /\ \A w \in Workers : writes[w] = <<>> /\ todo[w] = <<>>
  BY DEF Init
<1>2. SettledOK /\ StatusOK
  BY <1>1, FS_EmptySet, NoWrites DEF SettledOK, StatusOK
<1>3. AcceptedProofWasPaid
  BY InitialRows DEF AcceptedProofWasPaid
<1>4. \A w \in Workers, p \in Proofs : ~Paying(w, p) /\ ~Passing(w, p)
  BY <1>1 DEF Paying, Passing, InFlight
<1>5. ASSUME NEW p \in Proofs PROVE Unused(p)
  <2>1. Acceptances(p) = {} /\ Debits(ProofOf[p]) = {}
    BY <1>1 DEF Acceptances, Debits
  <2>2. Cardinality(Acceptances(p)) = 0 /\ Fundings(ProofOf[p]) = IF ProofOf[p] \in Funded THEN 1 ELSE 0
    BY <2>1, FS_EmptySet DEF Fundings
  <2>3. db[E(ProofOf[p])].status = "FUNDED" => ProofOf[p] \in Funded
    <3>1. db[E(ProofOf[p])] = FreshEscrow(ProofOf[p])
      BY InitialRows, EscrowTxAssumption
    <3> QED
      BY <3>1 DEF FreshEscrow
  <2> QED
    BY <1>4, <2>2, <2>3 DEF Unused
<1>6. \A p \in Proofs, w \in Workers : AcceptedEscrow(w, p)
  BY <1>4 DEF AcceptedEscrow
<1> QED
  BY <1>2, <1>3, <1>5, <1>6 DEF AcceptInv

LEMMA AcceptInvariant == Spec => [](TxInv /\ AcceptInv)
<1>1. Init => TxInv /\ AcceptInv
  BY TxInit, AcceptInit
<1>2. TxInv /\ AcceptInv /\ [Next]_vars => (TxInv /\ AcceptInv)'
  BY TxStep, AcceptStep
<1> QED
  BY <1>1, <1>2, PTL DEF Spec

\* A proof is committed as accepted only together with the payout of the request that accepts it,
\* whatever else is in flight and wherever a connection dies.
THEOREM AcceptedProofsArePaid == Spec => []AcceptedProofWasPaid
<1>1. AcceptInv => AcceptedProofWasPaid
  BY DEF AcceptInv
<1> QED
  BY <1>1, AcceptInvariant, PTL

\* Reviews of one proof, however many race each other and whatever else pays the escrow out, pay
\* at most once for each time its money was taken.
THEOREM ProofsPayOncePerFunding == Spec => []AcceptedOncePerFunding
<1>1. AcceptInv => AcceptedOncePerFunding
  BY DEF AcceptInv, Unused, AcceptedOncePerFunding
<1> QED
  BY <1>1, AcceptInvariant, PTL

------------------------------------------------------------------------------
(* Requests that overlap only if they are apart.                           *)

\* A request that has found its escrow as it wants it, and has still to save it or to commit it.
Closing(w) ==
  /\ "loadEscrow" \notin Left(w) /\ "loadToDispute" \notin Left(w)
  /\ \/ "updateEscrow" \in Left(w) \/ "markDisputed" \in Left(w)
     \/ E(request[w].escrow) \in DOMAIN writes[w]

Found(w) == db[E(request[w].escrow)]
Finds(r) == IF r.kind \in {"cancel", "dispute"} THEN {"PENDING", "FUNDED"} ELSE {Expected(r)}
MovesMoney(w) ==
  request[w].kind # "dispute" /\ (request[w].kind # "cancel" \/ Found(w).status = "FUNDED")
NewId(w) == IF request[w].kind = "dispute" THEN Found(w).paymentId ELSE mem[w].paymentId

\* What it found is there until it commits, and is what it saves.
ClosingOK(w) ==
  Closing(w) =>
    /\ Found(w).status \in Finds(request[w])
    /\ MovesMoney(w) <=> "saveWallet" \in Left(w) \/ mem[w].wrote
    /\ request[w].kind # "dispute" =>
         mem[w].paymentId = IF request[w].kind = "fund" /\ "insertPayment" \notin Left(w) THEN w
                            ELSE Found(w).paymentId
    /\ "compareEscrow" \notin Left(w) /\ "updateEscrow" \in Left(w) =>
         /\ "status" \in mem[w].dirty
         /\ "paymentId" \in mem[w].dirty \/ Found(w).paymentId = mem[w].paymentId
    /\ E(request[w].escrow) \in DOMAIN writes[w] =>
         writes[w][E(request[w].escrow)] =
           [status |-> NewStatus(request[w]), paymentId |-> NewId(w)]

\* The one wallet it writes gets what was there and the amount.
PurseOK(w) ==
  /\ mem[w].wrote => Closing(w)
  /\ "saveWallet" \in Left(w) \/ Left(w) \cap Branching # {} => ~mem[w].wrote
  /\ "saveWallet" \in Left(w) /\ "loadWallet" \notin Left(w) =>
       mem[w].balance = db[W(Party(request[w]))]
  /\ \A u \in Users : W(u) \in DOMAIN writes[w] => u = Party(request[w]) /\ mem[w].wrote
  /\ mem[w].wrote =>
       /\ W(Party(request[w])) \in DOMAIN writes[w]
       /\ writes[w][W(Party(request[w]))] = db[W(Party(request[w]))] + Amount(request[w])

\* The milestones that are completed, as committed and as w sees them.
Done == {m \in Milestones : db[M(m)].status = "COMPLETED"}
DoneFor(w) == {m \in Milestones : See(w, M(m)).status = "COMPLETED"}
Unfinished(e, done) ==
  \/ \A m \in Milestones : MilestoneOf[m] # e
  \/ \E m \in Milestones \ done : MilestoneOf[m] = e

\* An update of a milestone has completed the escrow when it commits, or has left it unfinished.
MilestoneOK(w) ==
  /\ \A m \in Milestones :
       M(m) \in DOMAIN writes[w] => request[w].kind = "milestone" /\ m = request[w].on
  /\ "saveMilestone" \in Left(w) => "checkMilestones" \in Left(w)
  /\ request[w].kind = "milestone" /\ "checkMilestones" \notin Left(w) =>
       Closing(w) \/ "loadEscrow" \in Left(w) \/ Unfinished(request[w].escrow, DoneFor(w))

\* Nobody saves a milestone that it has loaded before it has compared it, so that none is to be
\* written back.
BackOK(w) ==
  /\ mem[w].back = {}
  /\ "saveMilestone" \in Left(w) => mem[w].milestones = {}
  /\ \A x \in mem[w].milestones :
       x[1] \in MilestonesIn(request[w].escrow) /\ See(w, M(x[1])) = x[2]

\* The rows between requests.
RowsOK ==
  \A e \in Escrows :
    /\ db[E(e)].status = "PENDING" => db[E(e)].paymentId = None
    /\ db[E(e)].status = "FUNDED" => db[E(e)].paymentId # None
    /\ db[E(e)].status \in {"PENDING", "FUNDED"} => Unfinished(e, Done)

AloneOK(w) ==
  request[w].kind # "complete" /\ ClosingOK(w) /\ PurseOK(w) /\ MilestoneOK(w) /\ BackOK(w)

IsolatedInv ==
  /\ \A w \in Workers : request[w] = NoRequest => mem[w] = Blank
  /\ isolated => /\ RowsOK
                 /\ \A v, w \in Workers :
                      InFlight(v) /\ InFlight(w) /\ v # w => Apart(request[v], request[w])
                 /\ \A w \in Workers : InFlight(w) => AloneOK(w)

\* The rows of w's transaction but one are as they were.
OthersKept(w, row) ==
  \A x : x # row => /\ x \in DOMAIN writes'[w] <=> x \in DOMAIN writes[w]
                    /\ x \in DOMAIN writes[w] => writes'[w][x] = writes[w][x]

LEMMA UpdateKeepsOthers ==
  ASSUME TxInv, NEW w \in Workers, InTransaction(w), NEW row \in Rows, NEW value,
         Update(w, row, value)
  PROVE  OthersKept(w, row) /\ row \in DOMAIN writes'[w] /\ writes'[w][row] = value
BY UpdateDoes DEF TxInv, OthersKept

\* While requests that overlap are apart, whoever acts is apart from all that are in flight.
LEMMA IsolatedActs ==
  ASSUME TxInv, IsolatedInv, NEW w \in Workers, Acts(w), isolated'
  PROVE  /\ isolated
         /\ \A v \in Workers \ {w} :
              InFlight(v)' => InFlight(v) /\ Apart(request'[v], request'[w])
         /\ \/ \E r \in Offered : Begin(w, r) /\ r.kind # "complete"
            \/ InFlight(w) /\ (Step(w) \/ GiveUp(w)) /\ request' = request
<1>1. CASE \E r \in Offered : Begin(w, r)
  <2>1. PICK r \in Offered : Begin(w, r)
    BY <1>1
  <2>2. /\ isolated /\ r.kind # "complete"
        /\ \A v \in Workers : InFlight(v) => Apart(request[v], r)
    BY <2>1 DEF Begin
  <2>3. \A v \in Workers \ {w} : todo'[v] = todo[v] /\ request'[v] = request[v]
    BY OneActs DEF Untouched
  <2>4. request'[w] = r
    BY <2>1 DEF Begin, TxInv, Shape
  <2>5. ASSUME NEW v \in Workers \ {w}, InFlight(v)'
        PROVE  InFlight(v) /\ Apart(request'[v], request'[w])
    BY <2>2, <2>3, <2>4, <2>5 DEF InFlight
  <2> QED
    BY <2>1, <2>2, <2>5
<1>2. CASE ~\E r \in Offered : Begin(w, r)
  <2>1. request' = request
    BY <1>2, OnlyBeginRequests
  <2>2. Step(w) \/ GiveUp(w)
    BY <1>2 DEF Acts, Crash
  <2>3. InFlight(w)
    BY <1>2 DEF Acts, Crash, Step, LoadEscrow, LoadToCancel, LoadWallet, LoadProof, CompareEscrow,
      CheckMilestones, InsertPayment, UpdatePayment, UpdateEscrow, SaveProof, SaveMilestone,
      WriteMilestones, LoadToDispute, MarkDisputed, SaveWallet, Commit, At
  <2>4. isolated' = isolated
    BY <2>2 DEF Step, LoadEscrow, LoadToCancel, LoadWallet, LoadProof, CompareEscrow,
      CheckMilestones, InsertPayment, UpdatePayment, UpdateEscrow, SaveProof, SaveMilestone,
      WriteMilestones, LoadToDispute, MarkDisputed, SaveWallet, Commit, GiveUp
  <2>5. \A v \in Workers \ {w} : todo'[v] = todo[v]
    BY OneActs DEF Untouched
  <2>6. ASSUME NEW v \in Workers \ {w}, InFlight(v)'
        PROVE  InFlight(v) /\ Apart(request'[v], request'[w])
    <3>1. InFlight(v)
      BY <2>5, <2>6 DEF InFlight
    <3> QED
      BY <2>1, <2>3, <2>4, <3>1 DEF IsolatedInv
  <2> QED
    BY <2>1, <2>2, <2>3, <2>4, <2>6
<1> QED
  BY <1>1, <1>2

\* What a request in flight has left, whatever it is.
LEMMA FlightOrder ==
  ASSUME TxInv, NEW w \in Workers, NEW s, At(w, s)
  PROVE  /\ RequestOK(w) /\ MemOK(w) /\ WritesOK(w) /\ Shape
         /\ request[w] \in Requests /\ request[w].escrow \in Escrows
         /\ s \in Left(w) /\ Left(w) \subseteq MayRun(request[w].kind)
         /\ \A x \in Left(w) : x = s \/ Rank(s) < Rank(x)
         /\ s \notin Branching =>
              \A y \in MayRun(request[w].kind) : Rank(s) < Rank(y) => y \in Left(w)
         /\ s \notin {"writeMilestones", "commit"} =>
              \A e \in Escrows : E(e) \notin DOMAIN writes[w]
<1>1. RequestOK(w) /\ MemOK(w) /\ WritesOK(w) /\ Shape
  BY DEF TxInv, WorkerOK
<1>2. /\ request[w] \in Requests /\ request[w].escrow \in Escrows
      /\ s \in Left(w) /\ \A x \in Left(w) : x = s \/ Rank(s) < Rank(x)
  BY <1>1, AtIsFirst, WhatIsRequested
<1>3. /\ Left(w) \subseteq MayRun(request[w].kind)
      /\ s \notin Branching =>
           \A y \in MayRun(request[w].kind) : Rank(s) < Rank(y) => y \in Left(w)
  BY <1>1, <1>2 DEF RequestOK
<1>4. s \notin {"writeMilestones", "commit"} => \A e \in Escrows : E(e) \notin DOMAIN writes[w]
  BY <1>1, <1>2 DEF WritesOK
<1> QED
  BY <1>1, <1>2, <1>3, <1>4

\* The statements that only some requests execute.
LEMMA WhoRuns ==
  ASSUME NEW r \in Requests
  PROVE  /\ "loadEscrow" \in MayRun(r.kind) =>
              r.kind \in {"fund", "complete", "release", "accept", "milestone"}
         /\ "saveWallet" \in MayRun(r.kind) => r.kind \notin {"reject", "dispute"}
         /\ r.kind \notin {"reject", "dispute"} =>
              {"loadWallet", "saveWallet", "compareEscrow", "updateEscrow"} \subseteq MayRun(r.kind)
         /\ r.kind = "fund" <=> "insertPayment" \in MayRun(r.kind)
         /\ "compareEscrow" \in MayRun(r.kind) \/ "updateEscrow" \in MayRun(r.kind)
              \/ "loadWallet" \in MayRun(r.kind) => r.kind \notin {"reject", "dispute"}
         /\ "loadToCancel" \in MayRun(r.kind) => r.kind = "cancel"
         /\ "saveMilestone" \in MayRun(r.kind) \/ "checkMilestones" \in MayRun(r.kind) =>
              r.kind = "milestone"
         /\ "loadToDispute" \in MayRun(r.kind) \/ "markDisputed" \in MayRun(r.kind) =>
              r.kind = "dispute"
         /\ r.kind = "dispute" => MayRun(r.kind) = {"loadToDispute", "markDisputed", "commit"}
         /\ Expected(r) = IF r.kind = "fund" THEN "PENDING" ELSE "FUNDED"
         /\ \A status \in Finds(r) : status # NewStatus(r)
<1>1. r.kind \in Kinds
  BY WhatIsRequested
<1>2. \A status \in Finds(r) : status # NewStatus(r)
  <2>1. CASE r.kind = "fund"
    BY <2>1 DEF Finds, Expected, NewStatus
  <2>2. CASE r.kind \in {"cancel", "dispute"}
    BY <2>2 DEF Finds, NewStatus
  <2>3. CASE r.kind \notin {"fund", "cancel", "dispute"}
    BY <2>3 DEF Finds, Expected, NewStatus
  <2> QED
    BY <2>1, <2>2, <2>3
<1>3. CASE r.kind = "fund"
  BY <1>2, <1>3 DEF MayRun, First, Finishing, Expected
<1>4. CASE r.kind = "cancel"
  BY <1>2, <1>4 DEF MayRun, First, Finishing, Expected
<1>5. CASE r.kind \in {"reject", "dispute"}
  BY <1>2, <1>5 DEF MayRun, First, Expected
<1>6. CASE r.kind = "milestone"
  BY <1>2, <1>6 DEF MayRun, Completing, Finishing, Expected
<1>7. CASE r.kind \in {"complete", "release", "accept"}
  BY <1>2, <1>7 DEF MayRun, First, Completing, Finishing, Expected
<1> QED
  BY <1>1, <1>3, <1>4, <1>5, <1>6, <1>7 DEF Kinds

\* A statement that concerns neither the escrow's row nor what was loaded of it.
LEMMA ClosingStays ==
  ASSUME TxInv, NEW w \in Workers, ClosingOK(w), NEW s, At(w, s),
         s \in {"loadProof", "saveProof", "saveMilestone", "updatePayment", "loadWallet",
                "saveWallet"},
         Left(w)' = Left(w) \ {s}, request' = request, db' = db,
         mem'[w].paymentId = mem[w].paymentId, mem'[w].dirty = mem[w].dirty,
         "saveWallet" \in Left(w)' \/ mem'[w].wrote <=> "saveWallet" \in Left(w) \/ mem[w].wrote,
         NEW row, \A e \in Escrows : row # E(e), OthersKept(w, row)
  PROVE  ClosingOK(w)' /\ (Closing(w) => Closing(w)')
<1>1. /\ request[w].escrow \in Escrows
      /\ E(request[w].escrow) \notin DOMAIN writes[w] /\ E(request[w].escrow) # row
  BY FlightOrder
<1>2. E(request[w].escrow) \notin DOMAIN writes'[w]
  BY <1>1 DEF OthersKept
<1>3. Closing(w)' <=> Closing(w)
  BY <1>1, <1>2 DEF Closing
<1>4. CASE ~Closing(w)
  BY <1>3, <1>4 DEF ClosingOK
<1>5. CASE Closing(w)
  <2>1. /\ Found(w)' = Found(w) /\ (MovesMoney(w)' <=> MovesMoney(w))
    BY DEF Found, MovesMoney
  <2>2. /\ Found(w).status \in Finds(request[w])
        /\ MovesMoney(w) <=> "saveWallet" \in Left(w) \/ mem[w].wrote
        /\ request[w].kind # "dispute" =>
             mem[w].paymentId = IF request[w].kind = "fund" /\ "insertPayment" \notin Left(w)
                                THEN w ELSE Found(w).paymentId
        /\ "compareEscrow" \notin Left(w) /\ "updateEscrow" \in Left(w) =>
             /\ "status" \in mem[w].dirty
             /\ "paymentId" \in mem[w].dirty \/ Found(w).paymentId = mem[w].paymentId
    BY <1>5 DEF ClosingOK
  <2> QED
    BY <1>2, <1>3, <2>1, <2>2 DEF ClosingOK
<1> QED
  BY <1>4, <1>5

\* A statement that concerns neither the wallet's row nor what was loaded of it.
LEMMA PurseStays ==
  ASSUME TxInv, NEW w \in Workers, PurseOK(w), NEW s, At(w, s),
         s \notin {"loadWallet", "saveWallet", "loadToCancel", "checkMilestones"},
         Left(w)' = Left(w) \ {s}, request' = request, db' = db,
         mem'[w].balance = mem[w].balance, mem'[w].wrote = mem[w].wrote,
         Closing(w) => Closing(w)',
         NEW row, \A u \in Users : row # W(u), OthersKept(w, row)
  PROVE  PurseOK(w)'
<1>1. Party(request[w]) \in Users
  BY FlightOrder, WhatRequestsDo
<1>2. PurseOK(w)
  OBVIOUS
<1>3. /\ mem'[w].wrote => Closing(w)'
      /\ "saveWallet" \in Left(w)' \/ Left(w)' \cap Branching # {} => ~mem'[w].wrote
  BY <1>2 DEF PurseOK
<1>4. "saveWallet" \in Left(w)' /\ "loadWallet" \notin Left(w)' =>
        mem'[w].balance = db'[W(Party(request'[w]))]
  BY <1>2 DEF PurseOK
<1>5. ASSUME NEW u \in Users, W(u) \in DOMAIN writes'[w]
      PROVE  u = Party(request'[w]) /\ mem'[w].wrote
  <2>1. W(u) \in DOMAIN writes[w]
    BY <1>5 DEF OthersKept
  <2> QED
    BY <1>2, <2>1 DEF PurseOK
<1>6. ASSUME mem'[w].wrote
      PROVE  /\ W(Party(request'[w])) \in DOMAIN writes'[w]
             /\ writes'[w][W(Party(request'[w]))] = db'[W(Party(request'[w]))] + Amount(request'[w])
  <2>1. /\ W(Party(request[w])) \in DOMAIN writes[w]
        /\ writes[w][W(Party(request[w]))] = db[W(Party(request[w]))] + Amount(request[w])
    BY <1>2, <1>6 DEF PurseOK
  <2>2. W(Party(request[w])) \in DOMAIN writes'[w]
    BY <1>1, <2>1 DEF OthersKept
  <2>3. writes'[w][W(Party(request[w]))] = writes[w][W(Party(request[w]))]
    BY <1>1, <2>1 DEF OthersKept
  <2> QED
    BY <2>1, <2>2, <2>3
<1> QED
  BY <1>3, <1>4, <1>5, <1>6 DEF PurseOK, Party, Amount

\* A statement that concerns no milestone.
LEMMA MilestoneStays ==
  ASSUME TxInv, NEW w \in Workers, MilestoneOK(w), NEW s, At(w, s),
         s \notin {"saveMilestone", "checkMilestones", "loadToCancel"},
         Left(w)' = Left(w) \ {s}, request' = request, db' = db,
         Closing(w) \/ "loadEscrow" \in Left(w) => Closing(w)' \/ "loadEscrow" \in Left(w)',
         NEW row, \A m \in Milestones : row # M(m), OthersKept(w, row)
  PROVE  MilestoneOK(w)'
<1>1. ASSUME NEW m \in Milestones PROVE See(w, M(m))' = See(w, M(m))
  BY DEF See, OthersKept
<1>2. DoneFor(w)' = DoneFor(w)
  BY <1>1 DEF DoneFor
<1>3. ASSUME NEW m \in Milestones, M(m) \in DOMAIN writes'[w]
      PROVE  request'[w].kind = "milestone" /\ m = request'[w].on
  BY <1>3 DEF MilestoneOK, OthersKept
<1>4. "saveMilestone" \in Left(w)' => "checkMilestones" \in Left(w)'
  BY DEF MilestoneOK
<1>5. request'[w].kind = "milestone" /\ "checkMilestones" \notin Left(w)' =>
        Closing(w)' \/ "loadEscrow" \in Left(w)' \/ Unfinished(request'[w].escrow, DoneFor(w)')
  BY <1>2 DEF MilestoneOK
<1> QED
  BY <1>3, <1>4, <1>5 DEF MilestoneOK, Unfinished

LEMMA BackStays ==
  ASSUME NEW w, BackOK(w), "saveMilestone" \in Left(w)' => "saveMilestone" \in Left(w),
         request' = request, db' = db,
         mem'[w].milestones = mem[w].milestones, mem'[w].back = mem[w].back,
         NEW row, \A m \in Milestones : row # M(m), OthersKept(w, row)
  PROVE  BackOK(w)'
<1>1. ASSUME NEW m \in Milestones PROVE See(w, M(m))' = See(w, M(m))
  BY DEF See, OthersKept
<1>2. ASSUME NEW x \in mem'[w].milestones
      PROVE  x[1] \in MilestonesIn(request'[w].escrow) /\ See(w, M(x[1]))' = x[2]
  BY <1>1, <1>2 DEF BackOK, MilestonesIn
<1> QED
  BY <1>2 DEF BackOK

\* The statements one by one: proofs and payments, ...
LEMMA AloneBeside ==
  ASSUME TxInv, NEW w \in Workers, AloneOK(w),
         (LoadProof(w) /\ ~GiveUp(w)) \/ SaveProof(w) \/ UpdatePayment(w)
  PROVE  AloneOK(w)' /\ db' = db
<1>1. PICK s \in {"loadProof", "saveProof", "updatePayment"} :
        At(w, s) /\ Continue(w) /\ request' = request /\ mem' = mem
  BY DEF LoadProof, SaveProof, UpdatePayment
<1>2. InTransaction(w)
  BY DEF AloneOK, InTransaction
<1>3. Left(w)' = Left(w) \ {s} /\ MemOK(w) /\ request[w] \in Requests
  BY <1>1, ContinueDoes, FlightOrder
<1>4. \E row : /\ \A x : row # W(x) /\ row # E(x) /\ row # M(x)
               /\ OthersKept(w, row) /\ db' = db
  <2>1. CASE UNCHANGED <<db, writes>>
    <3>1. OthersKept(w, P(w)) /\ db' = db
      BY <2>1 DEF OthersKept
    <3> QED
      BY <3>1, RowsDiffer
  <2>2. CASE SaveProof(w)
    <3>1. D(request[w].on) \in Rows
      <4>1. request[w].kind \in {"accept", "reject"}
        BY <2>2, FlightOrder, WhatIsRequested DEF SaveProof, MayRun, First, Completing, Finishing
      <4> QED
        BY <1>3, <4>1, WhatIsRequested, SeeRows
    <3>2. PICK value : Update(w, D(request[w].on), value)
      BY <2>2 DEF SaveProof
    <3>3. OthersKept(w, D(request[w].on)) /\ db' = db
      BY <1>2, <3>1, <3>2, UpdateKeepsOthers DEF Update
    <3> QED
      BY <3>3, RowsDiffer
  <2>3. CASE UpdatePayment(w) /\ ~UNCHANGED <<db, writes>>
    <3>1. mem[w].paymentId # None /\ Update(w, P(mem[w].paymentId), NewPayment(request[w]))
      BY <2>3 DEF UpdatePayment
    <3>2. P(mem[w].paymentId) \in Rows
      BY <1>3, <3>1, SeeRows DEF MemOK, Memories
    <3>3. OthersKept(w, P(mem[w].paymentId)) /\ db' = db
      BY <1>2, <3>1, <3>2, UpdateKeepsOthers DEF Update
    <3> QED
      BY <3>3, RowsDiffer
  <2>4. CASE LoadProof(w) /\ ~GiveUp(w)
    BY <2>1, <2>4 DEF LoadProof
  <2> QED
    BY <2>1, <2>2, <2>3, <2>4
<1>5. PICK row : /\ \A x : row # W(x) /\ row # E(x) /\ row # M(x)
                 /\ OthersKept(w, row) /\ db' = db
  BY <1>4
<1>6. ClosingOK(w)' /\ (Closing(w) => Closing(w)')
  BY <1>1, <1>3, <1>5, ClosingStays DEF AloneOK
<1>7. PurseOK(w)'
  BY <1>1, <1>3, <1>5, <1>6, PurseStays DEF AloneOK
<1>8. MilestoneOK(w)'
  BY <1>1, <1>3, <1>5, <1>6, MilestoneStays DEF AloneOK
<1>9. BackOK(w)'
  BY <1>1, <1>3, <1>5, BackStays DEF AloneOK
<1> QED
  BY <1>1, <1>5, <1>6, <1>7, <1>8, <1>9 DEF AloneOK

\* ... the wallet, ...
LEMMA AloneLoadsWallet ==
  ASSUME TxInv, NEW w \in Workers, AloneOK(w), LoadWallet(w), ~GiveUp(w)
  PROVE  AloneOK(w)' /\ db' = db
<1> DEFINE balance == See(w, W(Party(request[w])))
<1>1. /\ At(w, "loadWallet") /\ Continue(w) /\ request' = request /\ db' = db /\ writes' = writes
      /\ mem' = [mem EXCEPT ![w].balance = balance]
  BY DEF LoadWallet
<1>2. /\ Left(w)' = Left(w) \ {"loadWallet"} /\ MemOK(w) /\ Shape /\ request[w] \in Requests
      /\ Party(request[w]) \in Users
  BY <1>1, ContinueDoes, FlightOrder, WhatRequestsDo
<1>3. /\ mem'[w].balance = balance /\ mem'[w].paymentId = mem[w].paymentId
      /\ mem'[w].dirty = mem[w].dirty /\ mem'[w].wrote = mem[w].wrote
      /\ mem'[w].milestones = mem[w].milestones /\ mem'[w].back = mem[w].back
  BY <1>1, <1>2 DEF MemOK, Memories, Shape
<1>4. OthersKept(w, P(w)) /\ \A x : P(w) # W(x) /\ P(w) # E(x) /\ P(w) # M(x)
  BY <1>1, RowsDiffer DEF OthersKept
<1>5. ClosingOK(w)' /\ (Closing(w) => Closing(w)')
  BY <1>1, <1>2, <1>3, <1>4, ClosingStays DEF AloneOK
<1>6. "saveWallet" \in Left(w)' => balance = db[W(Party(request[w]))]
  BY <1>2 DEF AloneOK, PurseOK, See
<1> HIDE DEF balance
<1>7. PurseOK(w)'
  <2>1. PurseOK(w)
    BY DEF AloneOK
  <2> QED
    BY <1>1, <1>2, <1>3, <1>5, <1>6, <2>1 DEF PurseOK, Party, Amount
<1>8. MilestoneOK(w)'
  BY <1>1, <1>2, <1>4, <1>5, MilestoneStays DEF AloneOK
<1>9. BackOK(w)'
  BY <1>1, <1>2, <1>3, <1>4, BackStays DEF AloneOK
<1> QED
  BY <1>1, <1>5, <1>7, <1>8, <1>9 DEF AloneOK

LEMMA AloneSavesWallet ==
  ASSUME TxInv, NEW w \in Workers, AloneOK(w), SaveWallet(w)
  PROVE  AloneOK(w)' /\ db' = db
<1> DEFINE row == W(Party(request[w]))
           value == mem[w].balance + Amount(request[w])
<1>1. /\ At(w, "saveWallet") /\ Continue(w) /\ request' = request /\ Update(w, row, value)
      /\ mem' = [mem EXCEPT ![w].wrote = TRUE]
  BY DEF SaveWallet
<1>2. InTransaction(w)
  BY DEF AloneOK, InTransaction
<1>3. /\ Left(w)' = Left(w) \ {"saveWallet"} /\ MemOK(w) /\ Shape /\ request[w] \in Requests
      /\ Party(request[w]) \in Users /\ "saveWallet" \in Left(w)
      /\ "loadWallet" \notin Left(w) /\ "loadEscrow" \notin Left(w)
      /\ "loadToDispute" \notin Left(w)
      /\ Left(w) \cap Branching = {} /\ "updateEscrow" \in Left(w)
  <2>1. /\ \A x \in Left(w) : x = "saveWallet" \/ Rank("saveWallet") < Rank(x)
        /\ \A y \in MayRun(request[w].kind) : Rank("saveWallet") < Rank(y) => y \in Left(w)
        /\ request[w] \in Requests /\ "saveWallet" \in MayRun(request[w].kind)
    BY <1>1, FlightOrder DEF Branching
  <2>2. /\ "loadWallet" \notin Left(w) /\ "loadEscrow" \notin Left(w)
        /\ "loadToDispute" \notin Left(w) /\ Left(w) \cap Branching = {}
    BY <2>1, RankTable DEF Branching
  <2>3. "updateEscrow" \in Left(w)
    BY <2>1, RankTable, WhoRuns
  <2> QED
    BY <1>1, <2>2, <2>3, ContinueDoes, FlightOrder, WhatRequestsDo
<1>4. row \in Rows
  BY <1>3, SeeRows
<1>5. /\ OthersKept(w, row) /\ row \in DOMAIN writes'[w] /\ writes'[w][row] = value /\ db' = db
      /\ \A x : row # E(x) /\ row # M(x) /\ (row = W(x) => x = Party(request[w]))
  BY <1>1, <1>2, <1>4, UpdateKeepsOthers, RowsDiffer DEF Update
<1>6. /\ mem'[w].balance = mem[w].balance /\ mem'[w].paymentId = mem[w].paymentId
      /\ mem'[w].dirty = mem[w].dirty /\ mem'[w].wrote
      /\ mem'[w].milestones = mem[w].milestones /\ mem'[w].back = mem[w].back
  BY <1>1, <1>3 DEF MemOK, Memories, Shape
<1>7. mem[w].balance = db[row]
  BY <1>3 DEF AloneOK, PurseOK
<1> HIDE DEF row
<1>8. ClosingOK(w)' /\ (Closing(w) => Closing(w)')
  BY <1>1, <1>3, <1>5, <1>6, ClosingStays DEF AloneOK
<1>9. PurseOK(w)'
  <2>1. Closing(w)'
    BY <1>3, <1>8 DEF Closing
  <2>2. Left(w)' \cap Branching = {} /\ "saveWallet" \notin Left(w)'
    BY <1>3
  <2>3. ASSUME NEW u \in Users, W(u) \in DOMAIN writes'[w] PROVE u = Party(request'[w])
    BY <1>1, <1>3, <1>5, <2>3 DEF AloneOK, PurseOK, OthersKept
  <2>4. row \in DOMAIN writes'[w] /\ writes'[w][row] = db'[row] + Amount(request'[w])
    BY <1>1, <1>5, <1>7
  <2>5. row = W(Party(request'[w]))
    BY <1>1 DEF row
  <2> QED
    BY <1>6, <2>1, <2>2, <2>3, <2>4, <2>5 DEF PurseOK, Party, Amount
<1>10. MilestoneOK(w)'
  BY <1>1, <1>3, <1>5, <1>8, MilestoneStays DEF AloneOK
<1>11. BackOK(w)'
  BY <1>1, <1>3, <1>5, <1>6, BackStays DEF AloneOK
<1> QED
  BY <1>1, <1>5, <1>8, <1>9, <1>10, <1>11 DEF AloneOK

\* ... the escrow, ...
LEMMA AloneLoadsEscrow ==
  ASSUME TxInv, NEW w \in Workers, AloneOK(w), LoadEscrow(w), ~GiveUp(w)
  PROVE  AloneOK(w)' /\ db' = db
<1> DEFINE row == See(w, E(request[w].escrow))
           loaded == {<<m, See(w, M(m))>> : m \in MilestonesIn(request[w].escrow)}
<1>1. /\ At(w, "loadEscrow") /\ Continue(w) /\ request' = request /\ db' = db /\ writes' = writes
      /\ row.status = Expected(request[w])
      /\ mem' = [mem EXCEPT ![w].paymentId = row.paymentId, ![w].milestones = loaded]
  BY DEF LoadEscrow
<1>2. /\ Left(w)' = Left(w) \ {"loadEscrow"} /\ MemOK(w) /\ Shape /\ request[w] \in Requests
      /\ request[w].kind \in {"fund", "release", "accept", "milestone"}
      /\ E(request[w].escrow) \notin DOMAIN writes[w]
      /\ {"loadWallet", "saveWallet", "compareEscrow", "updateEscrow"} \subseteq Left(w)
      /\ request[w].kind = "fund" => "insertPayment" \in Left(w)
      /\ "loadToDispute" \notin Left(w) /\ "saveMilestone" \notin Left(w)
  <2>1. /\ \A y \in MayRun(request[w].kind) : Rank("loadEscrow") < Rank(y) => y \in Left(w)
        /\ \A x \in Left(w) : x = "loadEscrow" \/ Rank("loadEscrow") < Rank(x)
        /\ request[w] \in Requests /\ "loadEscrow" \in MayRun(request[w].kind)
    BY <1>1, FlightOrder DEF Branching
  <2>2. request[w].kind \in {"fund", "release", "accept", "milestone"}
    BY <2>1, WhoRuns DEF AloneOK
  <2>3. /\ {"loadWallet", "saveWallet", "compareEscrow", "updateEscrow"} \subseteq Left(w)
        /\ request[w].kind = "fund" => "insertPayment" \in Left(w)
    BY <2>1, <2>2, RankTable, WhoRuns
  <2>4. "loadToDispute" \notin Left(w) /\ "saveMilestone" \notin Left(w)
    BY <2>1, RankTable
  <2> QED
    BY <1>1, <2>1, <2>2, <2>3, <2>4, ContinueDoes, FlightOrder
<1>3. row = Found(w)
  BY <1>2 DEF See, Found
<1>11. \A x \in loaded : x[1] \in MilestonesIn(request[w].escrow) /\ See(w, M(x[1])) = x[2]
  OBVIOUS
<1> HIDE DEF row, loaded
<1>4. /\ mem'[w].milestones = loaded /\ mem'[w].back = mem[w].back
      /\ mem'[w].balance = mem[w].balance /\ mem'[w].paymentId = row.paymentId
      /\ mem'[w].dirty = mem[w].dirty /\ mem'[w].wrote = mem[w].wrote
  BY <1>1, <1>2 DEF MemOK, Memories, Shape
<1>5. ~mem[w].wrote
  BY <1>2 DEF AloneOK, PurseOK
<1>6. Closing(w)' /\ Found(w)' = Found(w)
  BY <1>1, <1>2 DEF Closing, Found
<1>7. ClosingOK(w)'
  <2>1. Found(w).status \in Finds(request[w]) /\ MovesMoney(w)'
    BY <1>1, <1>2, <1>3 DEF Finds, MovesMoney
  <2>2. mem'[w].paymentId = Found(w).paymentId
    BY <1>3, <1>4
  <2>3. E(request[w].escrow) \notin DOMAIN writes'[w]
    BY <1>1, <1>2
  <2> QED
    BY <1>1, <1>2, <1>6, <2>1, <2>2, <2>3 DEF ClosingOK
<1>8. OthersKept(w, P(w)) /\ \A x : P(w) # W(x) /\ P(w) # E(x) /\ P(w) # M(x)
  BY <1>1, RowsDiffer DEF OthersKept
<1>9. PurseOK(w)'
  BY <1>1, <1>2, <1>4, <1>6, <1>8, PurseStays DEF AloneOK
<1>10. MilestoneOK(w)'
  BY <1>1, <1>2, <1>6, <1>8, MilestoneStays DEF AloneOK
<1>12. BackOK(w)'
  BY <1>1, <1>2, <1>4, <1>11 DEF AloneOK, BackOK, See
<1> QED
  BY <1>1, <1>7, <1>9, <1>10, <1>12 DEF AloneOK

LEMMA AloneInsertsPayment ==
  ASSUME TxInv, NEW w \in Workers, AloneOK(w), InsertPayment(w)
  PROVE  AloneOK(w)' /\ db' = db
<1>1. /\ At(w, "insertPayment") /\ Continue(w) /\ request' = request /\ Update(w, P(w), "ESCROW")
      /\ mem' = [mem EXCEPT ![w].paymentId = w]
  BY DEF InsertPayment
<1>2. InTransaction(w)
  BY DEF AloneOK, InTransaction
<1>3. /\ Left(w)' = Left(w) \ {"insertPayment"} /\ MemOK(w) /\ Shape /\ request[w] \in Requests
      /\ request[w].kind = "fund" /\ E(request[w].escrow) \notin DOMAIN writes[w]
      /\ {"compareEscrow", "updateEscrow"} \subseteq Left(w) /\ "loadEscrow" \notin Left(w)
      /\ "loadToDispute" \notin Left(w)
  <2>1. /\ \A y \in MayRun(request[w].kind) : Rank("insertPayment") < Rank(y) => y \in Left(w)
        /\ \A x \in Left(w) : x = "insertPayment" \/ Rank("insertPayment") < Rank(x)
        /\ request[w] \in Requests /\ "insertPayment" \in MayRun(request[w].kind)
    BY <1>1, FlightOrder DEF Branching
  <2>2. request[w].kind = "fund"
    BY <2>1, WhoRuns
  <2>3. {"compareEscrow", "updateEscrow"} \subseteq Left(w)
    BY <2>1, <2>2, RankTable, WhoRuns
  <2>4. "loadEscrow" \notin Left(w) /\ "loadToDispute" \notin Left(w)
    BY <2>1, RankTable
  <2> QED
    BY <1>1, <2>1, <2>2, <2>3, <2>4, ContinueDoes, FlightOrder
<1>4. /\ OthersKept(w, P(w)) /\ db' = db
      /\ \A x : P(w) # W(x) /\ P(w) # E(x) /\ P(w) # M(x)
  BY <1>1, <1>2, SeeRows, UpdateKeepsOthers, RowsDiffer DEF Update, PaymentIds
<1>5. /\ mem'[w].balance = mem[w].balance /\ mem'[w].paymentId = w
      /\ mem'[w].milestones = mem[w].milestones /\ mem'[w].back = mem[w].back
      /\ mem'[w].dirty = mem[w].dirty /\ mem'[w].wrote = mem[w].wrote
  BY <1>1, <1>3 DEF MemOK, Memories, Shape
<1>6. Closing(w) /\ Closing(w)' /\ Found(w)' = Found(w) /\ (MovesMoney(w)' <=> MovesMoney(w))
  BY <1>1, <1>3, <1>4 DEF Closing, Found, MovesMoney
<1>7. ClosingOK(w)'
  <2>1. /\ Found(w).status \in Finds(request[w])
        /\ MovesMoney(w) <=> "saveWallet" \in Left(w) \/ mem[w].wrote
    BY <1>6 DEF AloneOK, ClosingOK
  <2>2. E(request[w].escrow) \notin DOMAIN writes'[w]
    BY <1>3, <1>4 DEF OthersKept
  <2> QED
    BY <1>1, <1>3, <1>5, <1>6, <2>1, <2>2 DEF ClosingOK
<1>8. PurseOK(w)'
  BY <1>1, <1>3, <1>4, <1>5, <1>6, PurseStays DEF AloneOK
<1>9. MilestoneOK(w)'
  BY <1>1, <1>3, <1>4, <1>6, MilestoneStays DEF AloneOK
<1>10. BackOK(w)'
  BY <1>1, <1>3, <1>4, <1>5, BackStays DEF AloneOK
<1> QED
  BY <1>1, <1>4, <1>7, <1>8, <1>9, <1>10 DEF AloneOK

LEMMA AloneComparesEscrow ==
  ASSUME TxInv, NEW w \in Workers, AloneOK(w), CompareEscrow(w)
  PROVE  AloneOK(w)' /\ db' = db
<1> DEFINE row == See(w, E(request[w].escrow))
           dirty == {c \in {"status", "paymentId", "completedAt"} :
                       \/ c = "status" /\ row.status # NewStatus(request[w])
                       \/ c = "paymentId" /\ row.paymentId # mem[w].paymentId
                       \/ c = "completedAt" /\ NewStatus(request[w]) = "COMPLETED"}
           changed == {x \in mem[w].milestones : See(w, M(x[1])) # x[2]}
           Stale(x) == IF See(w, M(x[1])).status = x[2].status THEN None ELSE x[2].status
<1>0. changed = {}
  BY DEF AloneOK, BackOK
<1>13. {<<x[1], Stale(x)>> : x \in changed} = {}
  BY <1>0
<1>1. /\ At(w, "compareEscrow") /\ Continue(w) /\ request' = request /\ db' = db
      /\ writes' = writes
      /\ mem' = [mem EXCEPT ![w].dirty = dirty, ![w].back = {<<x[1], Stale(x)>> : x \in changed},
                            ![w].milestones = {}]
  BY DEF CompareEscrow
<1> HIDE DEF changed, Stale
<1>2. /\ Left(w)' = Left(w) \ {"compareEscrow"} /\ MemOK(w) /\ Shape /\ request[w] \in Requests
      /\ E(request[w].escrow) \notin DOMAIN writes[w] /\ "updateEscrow" \in Left(w)
      /\ "loadEscrow" \notin Left(w) /\ "loadToDispute" \notin Left(w)
  <2>1. /\ \A y \in MayRun(request[w].kind) : Rank("compareEscrow") < Rank(y) => y \in Left(w)
        /\ \A x \in Left(w) : x = "compareEscrow" \/ Rank("compareEscrow") < Rank(x)
        /\ request[w] \in Requests /\ "compareEscrow" \in MayRun(request[w].kind)
    BY <1>1, FlightOrder DEF Branching
  <2>2. "updateEscrow" \in Left(w)
    BY <2>1, RankTable, WhoRuns
  <2>3. "loadEscrow" \notin Left(w) /\ "loadToDispute" \notin Left(w)
    BY <2>1, RankTable
  <2> QED
    BY <1>1, <2>1, <2>2, <2>3, ContinueDoes, FlightOrder
<1>3. row = Found(w)
  BY <1>2 DEF See, Found
<1>4. Closing(w) /\ Closing(w)' /\ Found(w)' = Found(w) /\ (MovesMoney(w)' <=> MovesMoney(w))
  BY <1>1, <1>2 DEF Closing, Found, MovesMoney
<1>5. /\ Found(w).status \in Finds(request[w])
      /\ MovesMoney(w) <=> "saveWallet" \in Left(w) \/ mem[w].wrote
      /\ request[w].kind # "dispute" =>
           mem[w].paymentId = IF request[w].kind = "fund" /\ "insertPayment" \notin Left(w) THEN w
                              ELSE Found(w).paymentId
  BY <1>4 DEF AloneOK, ClosingOK
<1>6. Found(w).status # NewStatus(request[w])
  BY <1>2, <1>5, WhoRuns
<1>7. "status" \in dirty /\ ("paymentId" \in dirty \/ Found(w).paymentId = mem[w].paymentId)
  BY <1>3, <1>6
<1> HIDE DEF row, dirty
<1>8. /\ mem'[w].balance = mem[w].balance /\ mem'[w].paymentId = mem[w].paymentId
      /\ mem'[w].dirty = dirty /\ mem'[w].wrote = mem[w].wrote
      /\ mem'[w].milestones = {} /\ mem'[w].back = {}
  BY <1>1, <1>2, <1>13 DEF MemOK, Memories, Shape
<1>9. ClosingOK(w)'
  BY <1>1, <1>2, <1>4, <1>5, <1>7, <1>8 DEF ClosingOK
<1>10. OthersKept(w, P(w)) /\ \A x : P(w) # W(x) /\ P(w) # E(x) /\ P(w) # M(x)
  BY <1>1, RowsDiffer DEF OthersKept
<1>11. PurseOK(w)'
  BY <1>1, <1>2, <1>4, <1>8, <1>10, PurseStays DEF AloneOK
<1>12. MilestoneOK(w)'
  BY <1>1, <1>2, <1>4, <1>10, MilestoneStays DEF AloneOK
<1>14. BackOK(w)'
  BY <1>8 DEF BackOK
<1> QED
  BY <1>1, <1>9, <1>11, <1>12, <1>14 DEF AloneOK

LEMMA AloneUpdatesEscrow ==
  ASSUME TxInv, NEW w \in Workers, AloneOK(w), UpdateEscrow(w)
  PROVE  AloneOK(w)' /\ db' = db
<1> DEFINE row == See(w, E(request[w].escrow))
           new == [status |-> IF "status" \in mem[w].dirty THEN NewStatus(request[w])
                              ELSE row.status,
                   paymentId |-> IF "paymentId" \in mem[w].dirty THEN mem[w].paymentId
                                 ELSE row.paymentId]
<1>1. /\ At(w, "updateEscrow") /\ Continue(w) /\ request' = request /\ mem' = mem
      /\ mem[w].dirty # {} => Update(w, E(request[w].escrow), new)
  BY DEF UpdateEscrow
<1>2. InTransaction(w)
  BY DEF AloneOK, InTransaction
<1>3. /\ Left(w)' = Left(w) \ {"updateEscrow"} /\ request[w] \in Requests
      /\ request[w].escrow \in Escrows /\ E(request[w].escrow) \notin DOMAIN writes[w]
      /\ "updateEscrow" \in Left(w) /\ "loadEscrow" \notin Left(w) /\ "compareEscrow" \notin Left(w)
      /\ "insertPayment" \notin Left(w) /\ "loadToDispute" \notin Left(w)
      /\ request[w].kind # "dispute"
  <2>1. \A x \in Left(w) : x = "updateEscrow" \/ Rank("updateEscrow") < Rank(x)
    BY <1>1, FlightOrder
  <2>2. /\ "loadEscrow" \notin Left(w) /\ "compareEscrow" \notin Left(w)
        /\ "insertPayment" \notin Left(w) /\ "loadToDispute" \notin Left(w)
    BY <2>1, RankTable
  <2>3. request[w].kind # "dispute"
    BY <1>1, FlightOrder, WhoRuns
  <2> QED
    BY <1>1, <2>2, <2>3, ContinueDoes, FlightOrder
<1>4. row = Found(w)
  BY <1>3 DEF See, Found
<1>5. Closing(w)
  BY <1>3 DEF Closing
<1>6. /\ Found(w).status \in Finds(request[w])
      /\ MovesMoney(w) <=> "saveWallet" \in Left(w) \/ mem[w].wrote
      /\ request[w].kind # "dispute" =>
           mem[w].paymentId = IF request[w].kind = "fund" /\ "insertPayment" \notin Left(w) THEN w
                              ELSE Found(w).paymentId
      /\ "status" \in mem[w].dirty
      /\ "paymentId" \in mem[w].dirty \/ Found(w).paymentId = mem[w].paymentId
  BY <1>3, <1>5 DEF AloneOK, ClosingOK
<1>7. new = [status |-> NewStatus(request[w]), paymentId |-> mem[w].paymentId]
  BY <1>4, <1>6
<1> HIDE DEF new, row
<1>8. E(request[w].escrow) \in Rows
  BY <1>3, SeeRows
<1>9. /\ OthersKept(w, E(request[w].escrow)) /\ db' = db
      /\ E(request[w].escrow) \in DOMAIN writes'[w] /\ writes'[w][E(request[w].escrow)] = new
      /\ \A x : E(request[w].escrow) # W(x) /\ E(request[w].escrow) # M(x)
  BY <1>1, <1>2, <1>6, <1>8, UpdateKeepsOthers, RowsDiffer DEF Update
<1>10. Closing(w)' /\ Found(w)' = Found(w) /\ (MovesMoney(w)' <=> MovesMoney(w))
  BY <1>1, <1>3, <1>9 DEF Closing, Found, MovesMoney
<1>11. ClosingOK(w)'
  BY <1>1, <1>3, <1>6, <1>7, <1>9, <1>10 DEF ClosingOK, NewStatus, NewId
<1>12. PurseOK(w)'
  BY <1>1, <1>3, <1>9, <1>10, PurseStays DEF AloneOK
<1>13. MilestoneOK(w)'
  BY <1>1, <1>3, <1>9, <1>10, MilestoneStays DEF AloneOK
<1>14. BackOK(w)'
  BY <1>1, <1>3, <1>9, BackStays DEF AloneOK
<1> QED
  BY <1>1, <1>9, <1>11, <1>12, <1>13, <1>14 DEF AloneOK

LEMMA AloneWritesMilestones ==
  ASSUME TxInv, NEW w \in Workers, AloneOK(w), WriteMilestones(w)
  PROVE  AloneOK(w)' /\ db' = db
<1>1. /\ At(w, "writeMilestones") /\ Continue(w) /\ request' = request
      /\ UNCHANGED <<db, writes, mem>>
  BY StoresBack DEF AloneOK, BackOK, WriteMilestones
<1>2. Left(w)' = Left(w) \ {"writeMilestones"}
  BY <1>1, ContinueDoes
<1>3. (Closing(w)' <=> Closing(w)) /\ Found(w)' = Found(w) /\ (MovesMoney(w)' <=> MovesMoney(w))
  BY <1>1, <1>2 DEF Closing, Found, MovesMoney
<1>4. ClosingOK(w)'
  BY <1>1, <1>2, <1>3 DEF AloneOK, ClosingOK, NewId
<1>5. OthersKept(w, P(w)) /\ \A x : P(w) # W(x) /\ P(w) # E(x) /\ P(w) # M(x)
  BY <1>1, RowsDiffer DEF OthersKept
<1>6. PurseOK(w)'
  BY <1>1, <1>2, <1>3, <1>5, PurseStays DEF AloneOK
<1>7. MilestoneOK(w)'
  BY <1>1, <1>2, <1>3, <1>5, MilestoneStays DEF AloneOK
<1>8. BackOK(w)'
  BY <1>1, <1>2, <1>5, BackStays DEF AloneOK
<1> QED
  BY <1>1, <1>4, <1>6, <1>7, <1>8 DEF AloneOK

\* ... the dispute, ...
LEMMA AloneLoadsToDispute ==
  ASSUME TxInv, NEW w \in Workers, AloneOK(w), LoadToDispute(w), ~GiveUp(w)
  PROVE  AloneOK(w)' /\ db' = db
<1>1. /\ At(w, "loadToDispute") /\ Continue(w) /\ UNCHANGED <<db, writes, request, mem>>
      /\ See(w, E(request[w].escrow)).status \in {"PENDING", "FUNDED"}
  BY DEF LoadToDispute
<1>2. /\ Left(w)' = Left(w) \ {"loadToDispute"} /\ request[w].kind = "dispute"
      /\ Left(w) \subseteq {"loadToDispute", "markDisputed", "commit"} /\ "loadToDispute" \in Left(w)
      /\ E(request[w].escrow) \notin DOMAIN writes[w]
  BY <1>1, ContinueDoes, FlightOrder, WhoRuns
<1>3. ~Closing(w) /\ ~mem[w].wrote
  BY <1>2 DEF AloneOK, PurseOK, Closing
<1>4. Found(w)' = Found(w) /\ Found(w).status \in {"PENDING", "FUNDED"}
  BY <1>1, <1>2 DEF Found, See
<1>5. ClosingOK(w)'
  BY <1>1, <1>2, <1>3, <1>4 DEF ClosingOK, Finds, MovesMoney
<1>6. PurseOK(w)'
  BY <1>1, <1>2, <1>3 DEF AloneOK, PurseOK, Branching
<1>7. MilestoneOK(w)'
  BY <1>1, <1>2 DEF AloneOK, MilestoneOK
<1>8. OthersKept(w, P(w)) /\ \A x : P(w) # M(x)
  BY <1>1, RowsDiffer DEF OthersKept
<1>9. BackOK(w)'
  BY <1>1, <1>2, <1>8, BackStays DEF AloneOK
<1> QED
  BY <1>1, <1>5, <1>6, <1>7, <1>9 DEF AloneOK

LEMMA AloneMarksDisputed ==
  ASSUME TxInv, NEW w \in Workers, AloneOK(w), MarkDisputed(w)
  PROVE  AloneOK(w)' /\ db' = db
<1> DEFINE row == E(request[w].escrow)
           new == [status |-> "DISPUTED", paymentId |-> See(w, row).paymentId]
<1>1. /\ At(w, "markDisputed") /\ Continue(w) /\ request' = request /\ mem' = mem
      /\ Update(w, row, new)
  BY DEF MarkDisputed
<1>2. InTransaction(w)
  BY DEF AloneOK, InTransaction
<1>3. /\ Left(w)' = Left(w) \ {"markDisputed"} /\ request[w].kind = "dispute"
      /\ Left(w) \subseteq {"markDisputed", "commit"} /\ "markDisputed" \in Left(w)
      /\ request[w].escrow \in Escrows /\ row \notin DOMAIN writes[w]
  <2>1. /\ \A x \in Left(w) : x = "markDisputed" \/ Rank("markDisputed") < Rank(x)
        /\ Left(w) \subseteq {"loadToDispute", "markDisputed", "commit"}
        /\ request[w].kind = "dispute"
    BY <1>1, FlightOrder, WhoRuns
  <2>2. "loadToDispute" \notin Left(w)
    BY <2>1, RankTable
  <2> QED
    BY <1>1, <2>1, <2>2, ContinueDoes, FlightOrder
<1>4. Closing(w)
  BY <1>3 DEF Closing
<1>5. Found(w).status \in Finds(request[w]) /\ ~mem[w].wrote
  BY <1>3, <1>4 DEF AloneOK, ClosingOK, MovesMoney
<1>6. new = [status |-> NewStatus(request[w]), paymentId |-> Found(w).paymentId]
  BY <1>3 DEF NewStatus, Found, See
<1>7. row \in Rows /\ \A x : row # W(x) /\ row # M(x)
  BY <1>3, SeeRows, RowsDiffer
<1> HIDE DEF new
<1>8. /\ OthersKept(w, row) /\ db' = db
      /\ row \in DOMAIN writes'[w] /\ writes'[w][row] = new
  BY <1>1, <1>2, <1>7, UpdateKeepsOthers DEF Update
<1>9. Closing(w)' /\ Found(w)' = Found(w) /\ ~MovesMoney(w)'
  BY <1>1, <1>3, <1>8 DEF Closing, Found, MovesMoney
<1>10. ClosingOK(w)'
  BY <1>1, <1>3, <1>5, <1>6, <1>8, <1>9 DEF ClosingOK, NewId
<1> HIDE DEF row
<1>11. PurseOK(w)'
  BY <1>1, <1>3, <1>7, <1>8, <1>9, PurseStays DEF AloneOK
<1>12. MilestoneOK(w)'
  BY <1>1, <1>3, <1>7, <1>8, <1>9, MilestoneStays DEF AloneOK
<1>13. BackOK(w)'
  BY <1>1, <1>3, <1>7, <1>8, BackStays DEF AloneOK
<1> QED
  BY <1>1, <1>8, <1>10, <1>11, <1>12, <1>13 DEF AloneOK
\* ... and what only some requests do.
LEMMA AloneSavesMilestone ==
  ASSUME TxInv, NEW w \in Workers, AloneOK(w), SaveMilestone(w)
  PROVE  AloneOK(w)' /\ db' = db
<1>1. /\ At(w, "saveMilestone") /\ Continue(w) /\ request' = request /\ mem' = mem
      /\ \/ UNCHANGED <<db, writes>>
         \/ Update(w, M(request[w].on), MilestoneRow(request[w].to, w))
  BY DEF SaveMilestone
<1>2. InTransaction(w)
  BY DEF AloneOK, InTransaction
<1>3. /\ Left(w)' = Left(w) \ {"saveMilestone"} /\ request[w] \in Requests
      /\ request[w].kind = "milestone" /\ request[w].on \in Milestones
      /\ "checkMilestones" \in Left(w)
  <2>1. Left(w) \subseteq MayRun(request[w].kind) /\ "saveMilestone" \in Left(w)
        /\ request[w] \in Requests
    BY <1>1, FlightOrder
  <2>2. "checkMilestones" \in Left(w)
    BY <2>1 DEF AloneOK, MilestoneOK
  <2> QED
    BY <1>1, <2>1, <2>2, ContinueDoes, WhoRuns, WhatIsRequested
<1> DEFINE row == M(request[w].on)
<1>4. row \in Rows /\ \A x : row # W(x) /\ row # E(x) /\ (row = M(x) => x = request[w].on)
  BY <1>3, SeeRows, RowsDiffer
<1>5. OthersKept(w, row) /\ db' = db
  <2>1. CASE UNCHANGED <<db, writes>>
    BY <2>1 DEF OthersKept
  <2>2. CASE Update(w, row, MilestoneRow(request[w].to, w))
    BY <1>2, <1>4, <2>2, UpdateKeepsOthers DEF Update
  <2> QED
    BY <1>1, <2>1, <2>2
<1> HIDE DEF row
<1>6. ClosingOK(w)' /\ (Closing(w) => Closing(w)')
  BY <1>1, <1>3, <1>4, <1>5, ClosingStays DEF AloneOK
<1>7. PurseOK(w)'
  BY <1>1, <1>3, <1>4, <1>5, <1>6, PurseStays DEF AloneOK
<1>8. MilestoneOK(w)'
  <2>1. ASSUME NEW m \in Milestones, M(m) \in DOMAIN writes'[w] PROVE m = request'[w].on
    BY <1>1, <1>4, <1>5, <2>1 DEF AloneOK, MilestoneOK, OthersKept
  <2> QED
    BY <1>1, <1>3, <2>1 DEF MilestoneOK
<1>9. BackOK(w)'
  BY <1>1, FlightOrder DEF AloneOK, BackOK
<1> QED
  BY <1>1, <1>5, <1>6, <1>7, <1>8, <1>9 DEF AloneOK

LEMMA AloneChecksMilestones ==
  ASSUME TxInv, NEW w \in Workers, AloneOK(w), CheckMilestones(w)
  PROVE  AloneOK(w)' /\ db' = db
<1> DEFINE completed == \A m \in MilestonesIn(request[w].escrow) : See(w, M(m)).status = "COMPLETED"
<1>1. /\ At(w, "checkMilestones") /\ UNCHANGED <<db, writes, request, mem>>
      /\ todo' = [todo EXCEPT ![w] = (IF completed THEN Completion ELSE <<>>) \o <<"commit">>]
  BY DEF CheckMilestones
<1>2. /\ request[w] \in Requests /\ request[w].kind = "milestone" /\ Shape /\ MemOK(w)
      /\ E(request[w].escrow) \notin DOMAIN writes[w]
      /\ ~mem[w].wrote /\ request[w].escrow = MilestoneOf[request[w].on]
      /\ request[w].on \in Milestones
  <2>1. Left(w) \subseteq MayRun(request[w].kind) /\ "checkMilestones" \in Left(w)
        /\ request[w] \in Requests
    BY <1>1, FlightOrder
  <2>2. ~mem[w].wrote
    BY <2>1 DEF AloneOK, PurseOK, Branching
  <2> QED
    BY <1>1, <2>1, <2>2, FlightOrder, WhoRuns, WhatIsRequested
<1>3. IF completed THEN Left(w)' = Completing \cup {"commit"} ELSE Left(w)' = {"commit"}
  <2>1. todo'[w] = IF completed THEN Completion \o <<"commit">> ELSE <<"commit">>
    BY <1>1, <1>2 DEF Shape
  <2> QED
    BY <2>1, ClosingOrdered, ShortLists DEF Left
<1>4. completed \/ Unfinished(request[w].escrow, DoneFor(w))
  BY DEF Unfinished, DoneFor, MilestonesIn
<1> HIDE DEF completed
<1>5. /\ ~Closing(w)'
      /\ "saveMilestone" \notin Left(w)' /\ Left(w)' \cap Branching = {}
      /\ "saveWallet" \in Left(w)' => "loadWallet" \in Left(w)'
      /\ "loadEscrow" \in Left(w)' \/ Unfinished(request[w].escrow, DoneFor(w))
  BY <1>1, <1>2, <1>3, <1>4 DEF Closing, Completing, Finishing, Branching
<1>6. ClosingOK(w)'
  BY <1>5 DEF ClosingOK
<1>7. PurseOK(w)'
  BY <1>1, <1>2, <1>5 DEF AloneOK, PurseOK
<1>8. DoneFor(w)' = DoneFor(w)
  BY <1>1 DEF DoneFor, See
<1>9. MilestoneOK(w)'
  BY <1>1, <1>2, <1>5, <1>8 DEF AloneOK, MilestoneOK, Unfinished
<1>10. OthersKept(w, P(w)) /\ \A x : P(w) # M(x)
  BY <1>1, RowsDiffer DEF OthersKept
<1>11. BackOK(w)'
  BY <1>1, <1>5, <1>10, BackStays DEF AloneOK
<1> QED
  BY <1>1, <1>6, <1>7, <1>9, <1>11 DEF AloneOK

LEMMA AloneLoadsToCancel ==
  ASSUME TxInv, RowsOK, NEW w \in Workers, AloneOK(w), LoadToCancel(w), ~GiveUp(w)
  PROVE  AloneOK(w)' /\ db' = db
<1> DEFINE row == See(w, E(request[w].escrow))
           close == <<"compareEscrow", "updateEscrow", "commit">>
<1>1. /\ At(w, "loadToCancel") /\ UNCHANGED <<db, writes, request>>
      /\ row.status \in {"PENDING", "FUNDED"}
      /\ mem' = [mem EXCEPT ![w].paymentId = row.paymentId]
      /\ todo' = [todo EXCEPT ![w] =
                    IF row.status = "FUNDED"
                    THEN <<"loadWallet", "saveWallet", "updatePayment">> \o close ELSE close]
  BY DEF LoadToCancel
<1>2. /\ request[w] \in Requests /\ request[w].kind = "cancel" /\ Shape /\ MemOK(w)
      /\ E(request[w].escrow) \notin DOMAIN writes[w] /\ ~mem[w].wrote
  <2>1. Left(w) \subseteq MayRun(request[w].kind) /\ "loadToCancel" \in Left(w)
        /\ request[w] \in Requests
    BY <1>1, FlightOrder
  <2>2. ~mem[w].wrote
    BY <2>1 DEF AloneOK, PurseOK, Branching
  <2> QED
    BY <1>1, <2>1, <2>2, FlightOrder, WhoRuns
<1>3. row = Found(w)
  BY <1>2 DEF See, Found
<1>4. Left(w)' = IF row.status = "FUNDED" THEN Finishing \cup {"updatePayment", "commit"}
                 ELSE {"compareEscrow", "updateEscrow", "commit"}
  <2>1. todo'[w] = IF row.status = "FUNDED"
                   THEN <<"loadWallet", "saveWallet", "updatePayment">> \o close ELSE close
    BY <1>1, <1>2 DEF Shape
  <2> QED
    BY <2>1, CancelOrdered DEF Left
<1> HIDE DEF row
<1>5. /\ mem'[w].paymentId = row.paymentId /\ mem'[w].wrote = mem[w].wrote
      /\ mem'[w].milestones = mem[w].milestones /\ mem'[w].back = mem[w].back
  BY <1>1, <1>2 DEF MemOK, Memories, Shape
<1>6. /\ "loadEscrow" \notin Left(w)' /\ "updateEscrow" \in Left(w)' /\ "compareEscrow" \in Left(w)'
      /\ "loadToDispute" \notin Left(w)'
      /\ "saveWallet" \in Left(w)' <=> row.status = "FUNDED"
      /\ "saveWallet" \in Left(w)' => "loadWallet" \in Left(w)'
      /\ "saveMilestone" \notin Left(w)'
  BY <1>4 DEF Finishing
<1>7. ClosingOK(w)'
  <2>1. /\ Found(w)' = Found(w) /\ Found(w).status \in Finds(request[w])
        /\ MovesMoney(w)' <=> row.status = "FUNDED"
    BY <1>1, <1>2, <1>3 DEF Found, Finds, MovesMoney
  <2> QED
    BY <1>1, <1>2, <1>3, <1>5, <1>6, <2>1 DEF ClosingOK
<1>8. PurseOK(w)'
  BY <1>1, <1>2, <1>5, <1>6 DEF AloneOK, PurseOK
<1>9. MilestoneOK(w)'
  BY <1>1, <1>2, <1>6 DEF AloneOK, MilestoneOK
<1>10. OthersKept(w, P(w)) /\ \A x : P(w) # M(x)
  BY <1>1, RowsDiffer DEF OthersKept
<1>11. BackOK(w)'
  BY <1>1, <1>5, <1>6, <1>10, BackStays DEF AloneOK
<1> QED
  BY <1>1, <1>2, <1>7, <1>8, <1>9, <1>11 DEF AloneOK

LEMMA AloneBegins ==
  ASSUME TxInv, NEW w \in Workers, mem[w] = Blank, NEW r \in Offered, Begin(w, r),
         r.kind # "complete"
  PROVE  AloneOK(w)' /\ db' = db
<1>1. /\ request[w] = NoRequest /\ UNCHANGED <<db, writes, mem>> /\ Shape /\ MemOK(w)
      /\ request'[w] = r /\ todo'[w] = Program(r) /\ r \in Requests
  BY EscrowTxAssumption DEF Begin, TxInv, Shape, WorkerOK
<1>2. DOMAIN writes[w] = {}
  BY <1>1 DEF TxInv, WorkerOK, RequestOK
<1>3. Left(w)' = First(r.kind)
  BY <1>1, ProgramsOrdered DEF Left
<1>4. r.kind \in Kinds \ {"complete"} /\ ~mem[w].wrote /\ mem[w].back = {}
      /\ mem[w].milestones = {}
  BY <1>1, WhatIsRequested DEF Blank
<1>5. /\ \/ "loadEscrow" \in Left(w)' \/ "loadToDispute" \in Left(w)'
         \/ "updateEscrow" \notin Left(w)' /\ "markDisputed" \notin Left(w)'
      /\ "saveWallet" \in Left(w)' => "loadWallet" \in Left(w)'
      /\ "saveMilestone" \in Left(w)' => "checkMilestones" \in Left(w)'
      /\ r.kind = "milestone" => "checkMilestones" \in Left(w)'
  BY <1>3, <1>4 DEF First, Completing, Finishing, Kinds
<1>6. ~Closing(w)'
  BY <1>1, <1>2, <1>5 DEF Closing
<1>7. ClosingOK(w)'
  BY <1>6 DEF ClosingOK
<1>8. PurseOK(w)'
  BY <1>1, <1>2, <1>4, <1>5 DEF PurseOK
<1>9. MilestoneOK(w)'
  BY <1>1, <1>2, <1>5 DEF MilestoneOK
<1>10. BackOK(w)'
  BY <1>1, <1>4 DEF BackOK
<1> QED
  BY <1>1, <1>4, <1>7, <1>8, <1>9, <1>10 DEF AloneOK

\* The commit: the wallet and the escrow of the request change together or not at all, and the
\* milestones become what the request saw of them.
LEMMA AloneCommits ==
  ASSUME TxInv, NEW w \in Workers, AloneOK(w), Commit(w)
  PROVE  /\ Left(w) = {"commit"} /\ request[w] \in Requests /\ request' = request
         /\ Closing(w) <=> E(request[w].escrow) \in DOMAIN writes[w]
         /\ \A u \in Users :
              db'[W(u)] = IF u = Party(request[w]) /\ mem[w].wrote
                          THEN db[W(u)] + Amount(request[w]) ELSE db[W(u)]
         /\ \A u \in Users : db[W(u)] \in Nat /\ db'[W(u)] \in Nat
         /\ \A e \in Escrows :
              db'[E(e)] = IF e = request[w].escrow /\ Closing(w)
                          THEN [status |-> NewStatus(request[w]), paymentId |-> NewId(w)]
                          ELSE db[E(e)]
         /\ \A m \in Milestones : db'[M(m)] = See(w, M(m))
         /\ Done' = DoneFor(w)
<1>1. /\ At(w, "commit") /\ db' = Over(writes[w], db) /\ request' = request /\ Shape
      /\ DOMAIN db = Rows /\ DOMAIN writes[w] \subseteq Rows
  BY DEF Commit, TxInv, Shape, WorkerOK, WritesOK
<1>2. \A row \in Rows : db'[row] = IF row \in DOMAIN writes[w] THEN writes[w][row] ELSE db[row]
  BY <1>1 DEF Over
<1>3. Left(w) = {"commit"} /\ request[w] \in Requests
  <2>1. /\ "commit" \in Left(w) /\ request[w] \in Requests
        /\ \A x \in Left(w) : x = "commit" \/ 16 < Rank(x)
    BY <1>1, FlightOrder, RankTable
  <2>2. Left(w) \subseteq Statements
    <3>1. todo[w] \in Seq(Statements)
      BY DEF TxInv, WorkerOK, RequestOK, Ordered
    <3> QED
      BY <3>1 DEF Left, Elements
  <2>3. \A x \in Statements : ~(16 < Rank(x))
    BY RankTable DEF Statements
  <2> QED
    BY <2>1, <2>2, <2>3
<1>4. Closing(w) <=> E(request[w].escrow) \in DOMAIN writes[w]
  BY <1>3 DEF Closing
<1>5. ASSUME NEW u \in Users
      PROVE  db'[W(u)] = IF u = Party(request[w]) /\ mem[w].wrote
                         THEN db[W(u)] + Amount(request[w]) ELSE db[W(u)]
  <2>1. W(u) \in Rows
    BY SeeRows
  <2>2. /\ W(u) \in DOMAIN writes[w] => u = Party(request[w]) /\ mem[w].wrote
        /\ mem[w].wrote => /\ W(Party(request[w])) \in DOMAIN writes[w]
                           /\ writes[w][W(Party(request[w]))]
                                = db[W(Party(request[w]))] + Amount(request[w])
    BY DEF AloneOK, PurseOK
  <2> QED
    BY <1>2, <2>1, <2>2
<1>6. ASSUME NEW u \in Users PROVE db[W(u)] \in Nat /\ db'[W(u)] \in Nat
  <2>1. W(u) \in Rows /\ Fits(W(u), db[W(u)])
    BY SeeRows DEF TxInv, DbOK
  <2>2. Fits(W(u), db'[W(u)])
    BY <1>2, <2>1 DEF TxInv, WorkerOK, WritesOK
  <2> QED
    BY <2>1, <2>2 DEF Fits
<1>7. ASSUME NEW e \in Escrows
      PROVE  db'[E(e)] = IF e = request[w].escrow /\ Closing(w)
                         THEN [status |-> NewStatus(request[w]), paymentId |-> NewId(w)]
                         ELSE db[E(e)]
  <2>1. E(e) \in Rows /\ (E(e) \in DOMAIN writes[w] => e = request[w].escrow)
    BY SeeRows DEF TxInv, WorkerOK, WritesOK
  <2>2. Closing(w) => writes[w][E(request[w].escrow)] =
                        [status |-> NewStatus(request[w]), paymentId |-> NewId(w)]
    BY <1>4 DEF AloneOK, ClosingOK
  <2> QED
    BY <1>2, <1>4, <2>1, <2>2
<1>8. ASSUME NEW m \in Milestones PROVE db'[M(m)] = See(w, M(m))
  BY <1>2, SeeRows DEF See
<1>9. Done' = DoneFor(w)
  BY <1>8 DEF Done, DoneFor
<1> QED
  BY <1>1, <1>3, <1>4, <1>5, <1>6, <1>7, <1>8, <1>9

LEMMA CommitsRows ==
  ASSUME TxInv, RowsOK, NEW w \in Workers, AloneOK(w), Commit(w)
  PROVE  RowsOK'
<1>1. /\ Left(w) = {"commit"} /\ request[w] \in Requests /\ Done' = DoneFor(w)
      /\ \A e \in Escrows :
           db'[E(e)] = IF e = request[w].escrow /\ Closing(w)
                       THEN [status |-> NewStatus(request[w]), paymentId |-> NewId(w)]
                       ELSE db[E(e)]
  BY AloneCommits
<1>2. request[w].kind # "milestone" => DoneFor(w) = Done
  BY DEF AloneOK, MilestoneOK, DoneFor, Done, See
<1>3. ASSUME NEW e \in Escrows, e # request[w].escrow, Unfinished(e, Done)
      PROVE  Unfinished(e, DoneFor(w))
  <2>1. ASSUME NEW m \in Milestones, MilestoneOf[m] = e PROVE M(m) \notin DOMAIN writes[w]
    BY <1>1, <1>3, <2>1, WhatIsRequested DEF AloneOK, MilestoneOK
  <2>2. \A m \in Milestones : MilestoneOf[m] = e => (m \in DoneFor(w) <=> m \in Done)
    BY <2>1 DEF DoneFor, Done, See
  <2> QED
    BY <1>3, <2>2 DEF Unfinished
<1>4. ASSUME NEW e \in Escrows, ~(e = request[w].escrow /\ Closing(w)), Unfinished(e, Done)
      PROVE  Unfinished(e, DoneFor(w))
  <2>1. CASE e # request[w].escrow
    BY <1>3, <1>4, <2>1
  <2>2. CASE e = request[w].escrow /\ request[w].kind # "milestone"
    BY <1>2, <1>4, <2>2
  <2>3. CASE e = request[w].escrow /\ request[w].kind = "milestone"
    BY <1>1, <1>4, <2>3 DEF AloneOK, MilestoneOK
  <2> QED
    BY <2>1, <2>2, <2>3
<1>5. ASSUME NEW e \in Escrows, ~(e = request[w].escrow /\ Closing(w))
      PROVE  /\ db'[E(e)].status = "PENDING" => db'[E(e)].paymentId = None
             /\ db'[E(e)].status = "FUNDED" => db'[E(e)].paymentId # None
             /\ db'[E(e)].status \in {"PENDING", "FUNDED"} => Unfinished(e, Done')
  <2>1. db'[E(e)] = db[E(e)]
    BY <1>1, <1>5
  <2> QED
    BY <1>1, <1>4, <1>5, <2>1 DEF RowsOK
<1>6. ASSUME Closing(w), NEW e \in Escrows, e = request[w].escrow
      PROVE  /\ db'[E(e)].status = "PENDING" => db'[E(e)].paymentId = None
             /\ db'[E(e)].status = "FUNDED" => db'[E(e)].paymentId # None
             /\ db'[E(e)].status \in {"PENDING", "FUNDED"} => Unfinished(e, Done')
  <2>1. db'[E(e)].status = NewStatus(request[w]) /\ db'[E(e)].paymentId = NewId(w)
    BY <1>1, <1>6
  <2>2. /\ Found(w).status \in Finds(request[w]) /\ Found(w) = db[E(e)]
        /\ request[w].kind = "fund" => NewId(w) = w
    BY <1>1, <1>6 DEF AloneOK, ClosingOK, Found, NewId
  <2>3. CASE request[w].kind = "fund"
    <3>1. db[E(e)].status = "PENDING" /\ NewStatus(request[w]) = "FUNDED"
      BY <2>2, <2>3 DEF Finds, Expected, NewStatus
    <3>2. w # None
      BY EscrowTxAssumption DEF PaymentIds
    <3>3. Unfinished(e, Done')
      BY <1>1, <1>2, <2>3, <3>1 DEF RowsOK
    <3> QED
      BY <2>1, <2>2, <2>3, <3>1, <3>2, <3>3
  <2>4. CASE request[w].kind # "fund"
    BY <2>1, <2>4 DEF NewStatus
  <2> QED
    BY <2>3, <2>4
<1> QED
  BY <1>5, <1>6 DEF RowsOK, Unfinished

LEMMA AloneStep ==
  ASSUME TxInv, IsolatedInv, NEW w \in Workers, Acts(w), isolated'
  PROVE  RowsOK' /\ (InFlight(w)' => AloneOK(w)') /\ (db' = db \/ (Commit(w) /\ AloneOK(w)))
<1>1. /\ isolated /\ RowsOK
      /\ \/ \E r \in Offered : Begin(w, r) /\ r.kind # "complete"
         \/ InFlight(w) /\ (Step(w) \/ GiveUp(w))
  BY IsolatedActs DEF IsolatedInv
<1>2. ASSUME db' = db PROVE RowsOK'
  BY <1>1, <1>2 DEF RowsOK, Done, Unfinished
<1>3. CASE \E r \in Offered : Begin(w, r) /\ r.kind # "complete"
  <2>1. PICK r \in Offered : Begin(w, r) /\ r.kind # "complete"
    BY <1>3
  <2>2. mem[w] = Blank
    BY <2>1 DEF IsolatedInv, Begin
  <2> QED
    BY <1>2, <2>1, <2>2, AloneBegins
<1>4. CASE GiveUp(w)
  BY <1>2, <1>4, NothingToDo DEF GiveUp
<1>5. CASE InFlight(w) /\ Step(w) /\ ~GiveUp(w)
  <2>1. AloneOK(w)
    BY <1>1, <1>5 DEF IsolatedInv
  <2>2. CASE Commit(w)
    BY <1>1, <2>1, <2>2, CommitsRows, NothingToDo
  <2>3. CASE LoadEscrow(w) \/ LoadToCancel(w) \/ LoadWallet(w) \/ SaveWallet(w)
    BY <1>1, <1>2, <1>5, <2>1, <2>3, AloneLoadsEscrow, AloneLoadsToCancel, AloneLoadsWallet,
       AloneSavesWallet
  <2>4. CASE InsertPayment(w) \/ UpdatePayment(w) \/ CompareEscrow(w) \/ UpdateEscrow(w)
    BY <1>2, <2>1, <2>4, AloneInsertsPayment, AloneBeside, AloneComparesEscrow,
       AloneUpdatesEscrow
  <2>5. CASE LoadProof(w) \/ SaveProof(w) \/ SaveMilestone(w) \/ CheckMilestones(w)
    BY <1>2, <1>5, <2>1, <2>5, AloneBeside, AloneSavesMilestone, AloneChecksMilestones
  <2>6. CASE WriteMilestones(w) \/ LoadToDispute(w) \/ MarkDisputed(w)
    BY <1>2, <1>5, <2>1, <2>6, AloneWritesMilestones, AloneLoadsToDispute, AloneMarksDisputed
  <2> QED
    BY <1>5, <2>2, <2>3, <2>4, <2>5, <2>6 DEF Step
<1> QED
  BY <1>1, <1>3, <1>4, <1>5

\* The committed rows that v has found or is going to look at.
KeptFor(v) ==
  /\ Found(v)' = Found(v)
  /\ db'[W(Party(request[v]))] = db[W(Party(request[v]))]
  /\ \A m \in Milestones : MilestoneOf[m] = request[v].escrow => db'[M(m)] = db[M(m)]

\* A commit leaves them alone if it is of a request that is apart from v's.
LEMMA ApartRows ==
  ASSUME TxInv, NEW v \in Workers, NEW w \in Workers, AloneOK(w), Commit(w),
         request[v] \in Requests, Apart(request[v], request[w])
  PROVE  KeptFor(v)
<1>1. /\ request[w] \in Requests /\ request' = request
      /\ request[v].escrow \in Escrows /\ Party(request[v]) \in Users
      /\ request[v].escrow # request[w].escrow /\ Party(request[v]) # Party(request[w])
  BY AloneCommits, WhatIsRequested, WhatRequestsDo DEF Apart
<1>2. Found(v)' = Found(v)
  BY <1>1, AloneCommits DEF Found
<1>3. db'[W(Party(request[v]))] = db[W(Party(request[v]))]
  BY <1>1, AloneCommits
<1>4. ASSUME NEW m \in Milestones, MilestoneOf[m] = request[v].escrow PROVE db'[M(m)] = db[M(m)]
  <2>1. M(m) \notin DOMAIN writes[w]
    BY <1>1, <1>4, WhatIsRequested DEF AloneOK, MilestoneOK
  <2> QED
    BY <2>1, AloneCommits DEF See
<1> QED
  BY <1>2, <1>3, <1>4 DEF KeptFor

LEMMA AloneStays ==
  ASSUME NEW v, AloneOK(v), KeptFor(v), todo'[v] = todo[v], mem'[v] = mem[v],
         request'[v] = request[v], writes'[v] = writes[v]
  PROVE  AloneOK(v)'
<1>1. Left(v)' = Left(v) /\ Found(v)' = Found(v)
  BY DEF Left, KeptFor
<1>2. (Closing(v)' <=> Closing(v)) /\ (MovesMoney(v)' <=> MovesMoney(v))
  BY <1>1 DEF Closing, MovesMoney
<1>3. ClosingOK(v)'
  BY <1>1, <1>2 DEF AloneOK, ClosingOK, NewId
<1>4. PurseOK(v)'
  BY <1>1, <1>2 DEF AloneOK, PurseOK, KeptFor
<1>5. Unfinished(request[v].escrow, DoneFor(v)) => Unfinished(request[v].escrow, DoneFor(v)')
  <2>1. ASSUME NEW m \in Milestones, MilestoneOf[m] = request[v].escrow
        PROVE  m \in DoneFor(v)' <=> m \in DoneFor(v)
    BY <2>1 DEF DoneFor, See, KeptFor
  <2> QED
    BY <2>1 DEF Unfinished
<1>6. MilestoneOK(v)'
  BY <1>1, <1>2, <1>5 DEF AloneOK, MilestoneOK
<1>7. BackOK(v)'
  <2>1. ASSUME NEW x \in mem[v].milestones
        PROVE  x[1] \in MilestonesIn(request[v].escrow) /\ See(v, M(x[1]))' = x[2]
    BY <2>1 DEF AloneOK, BackOK, MilestonesIn, See, KeptFor
  <2> QED
    BY <1>1, <2>1 DEF AloneOK, BackOK
<1> QED
  BY <1>3, <1>4, <1>6, <1>7 DEF AloneOK

LEMMA IsolatedStep == TxInv /\ IsolatedInv /\ [Next]_vars => IsolatedInv'
<1> SUFFICES ASSUME TxInv, IsolatedInv, [Next]_vars PROVE IsolatedInv'
  OBVIOUS
<1>1. CASE UNCHANGED vars
  <2>1. /\ isolated' = isolated /\ db' = db /\ mem' = mem /\ request' = request
        /\ todo' = todo /\ writes' = writes
    BY <1>1 DEF vars
  <2>2. RowsOK => RowsOK'
    BY <2>1 DEF RowsOK, Done, Unfinished
  <2>3. \A v \in Workers : (InFlight(v)' <=> InFlight(v)) /\ (AloneOK(v) => AloneOK(v)')
    BY <2>1, AloneStays DEF InFlight, KeptFor, Found
  <2>4. \A v \in Workers : InFlight(v)' <=> InFlight(v)
    BY <2>1 DEF InFlight
  <2> QED
    BY <2>1, <2>2, <2>3, <2>4 DEF IsolatedInv
<1>2. ASSUME NEW w \in Workers, Acts(w) PROVE IsolatedInv'
  <2>1. Untouched(w)
    BY <1>2, OneActs
  <2>2. ASSUME NEW v \in Workers, request'[v] = NoRequest PROVE mem'[v] = Blank
    <3>1. CASE v # w
      BY <2>1, <2>2, <3>1 DEF Untouched, IsolatedInv
    <3>2. CASE v = w /\ \E r \in Offered : Begin(w, r)
      BY <2>2, <3>2, EscrowTxAssumption, WhatIsRequested DEF Begin, TxInv, Shape
    <3>3. CASE v = w /\ ~\E r \in Offered : Begin(w, r)
      <4>1. request' = request
        BY <1>2, <3>3, OnlyBeginRequests
      <4>2. InFlight(w)
        BY <1>2, <3>3 DEF Acts, Crash, Step, LoadEscrow, LoadToCancel, LoadWallet, LoadProof,
          CompareEscrow, CheckMilestones, InsertPayment, UpdatePayment, UpdateEscrow, SaveProof,
          SaveMilestone, WriteMilestones, LoadToDispute, MarkDisputed, SaveWallet, Commit, At
      <4>3. request[w] # NoRequest
        BY <4>2 DEF TxInv, WorkerOK, RequestOK, InFlight
      <4> QED
        BY <2>2, <3>3, <4>1, <4>3
    <3> QED
      BY <3>1, <3>2, <3>3
  <2>3. ASSUME isolated'
        PROVE  /\ RowsOK'
               /\ \A v \in Workers : InFlight(v)' => AloneOK(v)'
               /\ \A u, v \in Workers :
                    InFlight(u)' /\ InFlight(v)' /\ u # v => Apart(request'[u], request'[v])
    <3>1. isolated /\ RowsOK' /\ (InFlight(w)' => AloneOK(w)')
          /\ (db' = db \/ (Commit(w) /\ AloneOK(w)))
      BY <1>2, <2>3, AloneStep, IsolatedActs
    <3>2. ASSUME NEW v \in Workers \ {w}, InFlight(v)'
          PROVE  InFlight(v) /\ AloneOK(v) /\ Apart(request'[v], request'[w])
                 /\ todo'[v] = todo[v] /\ mem'[v] = mem[v]
                 /\ request'[v] = request[v] /\ writes'[v] = writes[v]
      <4>1. InFlight(v) /\ Apart(request'[v], request'[w])
        BY <1>2, <2>3, <3>2, IsolatedActs
      <4> QED
        BY <2>1, <3>1, <4>1 DEF IsolatedInv, Untouched
    <3>3. ASSUME NEW v \in Workers \ {w}, InFlight(v)' PROVE AloneOK(v)'
      <4>1. CASE db' = db
        <5>1. KeptFor(v)
          BY <3>2, <3>3, <4>1 DEF KeptFor, Found
        <5> QED
          BY <3>2, <3>3, <5>1, AloneStays
      <4>2. CASE Commit(w) /\ AloneOK(w)
        <5>1. request[v] \in Requests
          BY <3>2, <3>3, EscrowTxAssumption DEF TxInv, WorkerOK, RequestOK, InFlight
        <5>2. request' = request
          BY <4>2, AloneCommits
        <5>3. KeptFor(v)
          BY <3>2, <3>3, <4>2, <5>1, <5>2, ApartRows
        <5> QED
          BY <3>2, <3>3, <5>3, AloneStays
      <4> QED
        BY <3>1, <4>1, <4>2
    <3>4. ASSUME NEW u \in Workers, NEW v \in Workers, InFlight(u)', InFlight(v)', u # v
          PROVE  Apart(request'[u], request'[v])
      <4>1. CASE u = w \/ v = w
        BY <3>2, <3>4, <4>1 DEF Apart
      <4>2. CASE u # w /\ v # w
        BY <3>1, <3>2, <3>4, <4>2 DEF IsolatedInv
      <4> QED
        BY <4>1, <4>2
    <3> QED
      BY <3>1, <3>3, <3>4
  <2> QED
    BY <2>2, <2>3 DEF IsolatedInv
<1> QED
  BY <1>1, <1>2, NextActs
LEMMA IsolatedInit == Init => IsolatedInv
<1> SUFFICES ASSUME Init PROVE IsolatedInv
  OBVIOUS
<1>1. \A w \in Workers : ~InFlight(w) /\ mem[w] = Blank
  BY DEF Init, InFlight
<1>2. Shape /\ DOMAIN db = Rows
  BY TxInit DEF TxInv, Shape
<1>3. \A e \in Escrows : db[E(e)] = FreshEscrow(e)
  BY InitialRows
<1>4. \A m \in Milestones : db[M(m)].status = "PENDING"
  BY InitialRows DEF MilestoneRow
<1>5. Done = {}
  BY <1>4 DEF Done
<1>6. \A e \in Escrows : Unfinished(e, Done)
  BY <1>5 DEF Unfinished
<1>7. \A e \in Escrows : /\ FreshEscrow(e).status = "PENDING" => FreshEscrow(e).paymentId = None
                         /\ FreshEscrow(e).status = "FUNDED" => FreshEscrow(e).paymentId # None
  BY EscrowTxAssumption DEF FreshEscrow, PaymentIds
<1>8. RowsOK
  BY <1>3, <1>6, <1>7 DEF RowsOK
<1> QED
  BY <1>1, <1>8 DEF IsolatedInv

LEMMA IsolatedInvariant == Spec => [](TxInv /\ IsolatedInv)
<1>1. Init => TxInv /\ IsolatedInv
  BY TxInit, IsolatedInit
<1>2. TxInv /\ IsolatedInv /\ [Next]_vars => (TxInv /\ IsolatedInv)'
  BY TxStep, IsolatedStep
<1> QED
  BY <1>1, <1>2, PTL DEF Spec

\* Unless requests of one escrow or of one wallet overlap, no escrow is ever FUNDED with all of
\* its milestones completed, wherever the server dies (updateMilestone, one transaction).
THEOREM LastMilestoneCompletes == Spec => []AllMilestonesCompleteEscrow
<1>1. TxInv /\ IsolatedInv => AllMilestonesCompleteEscrow
  BY DEF IsolatedInv, RowsOK, Unfinished, Done, AllMilestonesCompleteEscrow
<1> QED
  BY <1>1, IsolatedInvariant, PTL

LEMMA Phases ==
  ASSUME NEW e
  PROVE  /\ db[E(e)].status = "PENDING" => Phase(e) = "agreed"
         /\ db[E(e)].status = "FUNDED" => Phase(e) = "held"
         /\ db'[E(e)].status = "FUNDED" => Phase(e)' = "held"
         /\ db'[E(e)].status = "DISPUTED" =>
              Phase(e)' = IF db'[E(e)].paymentId # None THEN "held" ELSE "calledOff"
         /\ db'[E(e)].status = "COMPLETED" => Phase(e)' = "paid"
         /\ db'[E(e)].status = "CANCELLED" =>
              Phase(e)' = IF db'[E(e)].paymentId # None THEN "returned" ELSE "calledOff"
BY DEF Phase

\* A step that changes the phase of at most escrow e maps to a Move of e.
LEMMA MoveOf ==
  ASSUME NEW e \in Escrows, NEW from, NEW to, Phase(e) = from, Phase(e)' = to,
         \A f \in Escrows : f # e => Phase(f)' = Phase(f)
  PROVE  Promise!Move(e, from, to)
BY DEF Promise!Move

\* The commit of a request that closes an escrow is a move of the promise, but for the dispute of
\* an escrow that stays held, ...
LEMMA ClosingKeepsPromise ==
  ASSUME TxInv, RowsOK, NEW w \in Workers, AloneOK(w), Commit(w), Closing(w)
  PROVE  Promise!PNext \/ UNCHANGED Promise!pvars
<1> DEFINE purse == [u \in Users |-> db[W(u)]]
<1>0. PICK e \in Escrows : e = request[w].escrow
  BY AloneCommits, WhatIsRequested
<1>1. /\ Left(w) = {"commit"} /\ request[w] \in Requests
      /\ \A u \in Users :
           db'[W(u)] = IF u = Party(request[w]) /\ mem[w].wrote
                       THEN db[W(u)] + Amount(request[w]) ELSE db[W(u)]
      /\ \A u \in Users : db[W(u)] \in Nat /\ db'[W(u)] \in Nat
      /\ \A f \in Escrows :
           db'[E(f)] = IF f = e /\ Closing(w)
                       THEN [status |-> NewStatus(request[w]), paymentId |-> NewId(w)]
                       ELSE db[E(f)]
  BY <1>0, AloneCommits
<1>2. /\ e \in Escrows /\ Party(request[w]) \in Users /\ Total[e] \in Nat
      /\ Buyer[e] \in Users /\ Seller[e] \in Users
  BY <1>0, <1>1, EscrowTxAssumption, WhatIsRequested, WhatRequestsDo
<1>3. /\ db[E(e)].status \in Finds(request[w])
      /\ MovesMoney(w) <=> mem[w].wrote
      /\ NewId(w) = IF request[w].kind = "fund" THEN w ELSE db[E(e)].paymentId
  BY <1>0, <1>1 DEF AloneOK, ClosingOK, Found, NewId
<1>4. MovesMoney(w) <=> /\ request[w].kind # "dispute"
                        /\ request[w].kind # "cancel" \/ db[E(e)].status = "FUNDED"
  BY <1>0 DEF MovesMoney, Found
<1>5. \A f \in Escrows : f # e => Phase(f)' = Phase(f)
  BY <1>1 DEF Phase
<1>6. db'[E(e)].status = NewStatus(request[w]) /\ db'[E(e)].paymentId = NewId(w)
  BY <1>1, <1>2
<1>7. ASSUME mem[w].wrote, NEW x, x = Party(request[w]), NEW n, n = db[W(x)] + Amount(request[w])
      PROVE  purse' = [purse EXCEPT ![x] = n]
  BY <1>1, <1>2, <1>7
<1>8. ~mem[w].wrote => purse' = purse
  BY <1>1
<1>9. CASE request[w].kind = "fund"
  <2>1. Phase(e) = "agreed" /\ Phase(e)' = "held"
    BY <1>3, <1>6, <1>9, Phases DEF Finds, Expected, NewStatus
  <2>2. Party(request[w]) = Buyer[e] /\ Amount(request[w]) = -Total[e] /\ mem[w].wrote
    BY <1>3, <1>4, <1>9, <1>0 DEF Party, Amount
  <2>3. db'[W(Buyer[e])] = db[W(Buyer[e])] + (-Total[e])
    BY <1>1, <1>2, <2>2
  <2>4. db[W(Buyer[e])] >= Total[e] /\ db[W(Buyer[e])] + (-Total[e]) = db[W(Buyer[e])] - Total[e]
    BY <1>1, <1>2, <2>3
  <2>5. purse' = [purse EXCEPT ![Buyer[e]] = db[W(Buyer[e])] - Total[e]]
    BY <1>7, <2>2, <2>4
  <2>6. Promise!Hold(e)
    BY <1>2, <1>5, MoveOf, <2>1, <2>4, <2>5 DEF Promise!Hold
  <2> QED
    BY <1>2, <2>6 DEF Promise!PNext
<1>10. CASE request[w].kind \in {"cancel", "dispute"} /\ db[E(e)].status = "PENDING"
  <2>1. db[E(e)].paymentId = None /\ ~mem[w].wrote
    BY <1>2, <1>3, <1>4, <1>10 DEF RowsOK
  <2>2. Phase(e) = "agreed" /\ Phase(e)' = "calledOff"
    BY <1>3, <1>6, <1>10, <2>1, Phases DEF NewStatus
  <2>3. Promise!CallOff(e)
    BY <1>2, <1>5, MoveOf, <1>8, <2>1, <2>2 DEF Promise!CallOff
  <2> QED
    BY <1>2, <2>3 DEF Promise!PNext
<1>11. CASE request[w].kind = "cancel" /\ db[E(e)].status = "FUNDED"
  <2>1. db[E(e)].paymentId # None /\ mem[w].wrote
    BY <1>2, <1>3, <1>4, <1>11 DEF RowsOK
  <2>2. Phase(e) = "held" /\ Phase(e)' = "returned"
    BY <1>3, <1>6, <1>11, <2>1, Phases DEF NewStatus
  <2>3. Party(request[w]) = Buyer[e] /\ Amount(request[w]) = Total[e]
    BY <1>0, <1>11 DEF Party, Amount
  <2>4. purse' = [purse EXCEPT ![Buyer[e]] = db[W(Buyer[e])] + Total[e]]
    BY <1>7, <2>1, <2>3
  <2>5. Promise!Return(e)
    BY <1>2, <1>5, MoveOf, <2>2, <2>4 DEF Promise!Return
  <2> QED
    BY <1>2, <2>5 DEF Promise!PNext
<1>14. CASE request[w].kind = "dispute" /\ db[E(e)].status = "FUNDED"
  <2>1. db[E(e)].paymentId # None /\ ~mem[w].wrote
    BY <1>2, <1>3, <1>4, <1>14 DEF RowsOK
  <2>2. Phase(e) = "held" /\ Phase(e)' = "held"
    BY <1>3, <1>6, <1>14, <2>1, Phases DEF NewStatus
  <2>3. \A f \in Escrows : Phase(f)' = Phase(f)
    BY <1>5, <2>2
  <2>4. [f \in Escrows |-> Phase(f)'] = [f \in Escrows |-> Phase(f)]
    BY <2>3
  <2> QED
    BY <1>8, <2>1, <2>4 DEF Promise!pvars
<1>12. CASE request[w].kind \notin {"fund", "cancel", "dispute"}
  <2>1. db[E(e)].status = "FUNDED" /\ mem[w].wrote
    BY <1>3, <1>4, <1>12 DEF Finds, Expected
  <2>2. Phase(e) = "held" /\ Phase(e)' = "paid"
    BY <1>6, <1>12, <2>1, Phases DEF NewStatus
  <2>3. Party(request[w]) = Seller[e] /\ Amount(request[w]) = Total[e]
    BY <1>0, <1>12 DEF Party, Amount
  <2>4. purse' = [purse EXCEPT ![Seller[e]] = db[W(Seller[e])] + Total[e]]
    BY <1>7, <2>1, <2>3
  <2>5. Promise!Pay(e)
    BY <1>2, <1>5, MoveOf, <2>2, <2>4 DEF Promise!Pay
  <2> QED
    BY <1>2, <2>5 DEF Promise!PNext
<1>13. request[w].kind \in {"cancel", "dispute"} => db[E(e)].status \in {"PENDING", "FUNDED"}
  BY <1>3 DEF Finds
<1> QED
  BY <1>9, <1>10, <1>11, <1>12, <1>13, <1>14

\* ... and any other step changes neither wallets nor phases.
LEMMA OthersKeepPromise ==
  ASSUME TxInv, NEW w \in Workers, db' = db \/ (Commit(w) /\ AloneOK(w) /\ ~Closing(w))
  PROVE  UNCHANGED Promise!pvars
<1>1. ASSUME \A u \in Users : db'[W(u)] = db[W(u)], \A e \in Escrows : db'[E(e)] = db[E(e)]
      PROVE  UNCHANGED Promise!pvars
  BY <1>1 DEF Promise!pvars, Phase
<1>2. CASE db' = db
  BY <1>1, <1>2
<1>3. CASE Commit(w) /\ AloneOK(w) /\ ~Closing(w)
  <2>1. ~mem[w].wrote
    BY <1>3 DEF AloneOK, PurseOK
  <2>2. /\ \A u \in Users : db'[W(u)] = db[W(u)]
        /\ \A e \in Escrows : db'[E(e)] = db[E(e)]
    BY <1>3, <2>1, AloneCommits
  <2> QED
    BY <1>1, <2>2
<1> QED
  BY <1>2, <1>3

\* The refinement, of requests in transactions of which only those overlap that have neither an
\* escrow nor a wallet in common: any number of them, statement by statement in any order and
\* each cut short by a crash anywhere, they take the money of an escrow once and give it to one
\* party once (EscrowService's fundEscrow, cancelEscrow and completeEscrow and who calls them).
THEOREM ApartRequestsKeepPromise == Spec => KeepsPromise
<1>1. TxInv /\ IsolatedInv /\ [Next]_vars =>
        [isolated' => Promise!PNext]_(Promise!pvars)
  <2> SUFFICES ASSUME TxInv, IsolatedInv, [Next]_vars, isolated', ~UNCHANGED Promise!pvars
               PROVE  Promise!PNext
    OBVIOUS
  <2>1. CASE UNCHANGED vars
    BY <2>1 DEF vars, Promise!pvars, Phase
  <2>2. ASSUME NEW w \in Workers, Acts(w) PROVE Promise!PNext
    <3>1. isolated /\ RowsOK /\ (db' = db \/ (Commit(w) /\ AloneOK(w)))
      BY <2>2, AloneStep, IsolatedActs DEF IsolatedInv
    <3> QED
      BY <3>1, OthersKeepPromise, ClosingKeepsPromise
  <2> QED
    BY <2>1, <2>2, NextActs
<1> QED
  BY <1>1, IsolatedInvariant, PTL DEF Spec, KeepsPromise
------------------------------------------------------------------------------
(* Disputes.                                                               *)

\* The statements that look at the status of the request's escrow, or may lead to one that does.
Looks == {"checkMilestones", "loadToCancel", "loadToDispute", "loadEscrow"}

\* A request that has still to look at its escrow, or has no business with its row.
Blocked(w) ==
  \/ Left(w) \cap Looks # {}
  \/ /\ Left(w) \cap {"updateEscrow", "markDisputed"} = {}
     /\ \A e \in Escrows : E(e) \notin DOMAIN writes[w]

DisputeInv ==
  /\ StatusOK
  /\ \A w \in Workers, e \in Escrows :
       db[E(e)].status = "DISPUTED" /\ InFlight(w) /\ request[w].escrow = e =>
         w \in overtaken \/ Blocked(w)

LEMMA LoadedHasLooked ==
  ASSUME TxInv, NEW w \in Workers
  PROVE  HasLoaded(w) <=> InFlight(w) /\ Left(w) \cap Looks = {}
<1>1. todo[w] \in Seq(Statements)
  BY DEF TxInv, WorkerOK, RequestOK, Ordered
<1>2. DOMAIN todo[w] = 1..Len(todo[w])
  BY <1>1
<1> QED
  BY <1>2 DEF HasLoaded, Left, Elements, Looks

\* A transaction that has written an escrow has looked at it before.
LEMMA WritersHaveLooked ==
  ASSUME TxInv, NEW w \in Workers, NEW e \in Escrows, E(e) \in DOMAIN writes[w]
  PROVE  e = request[w].escrow /\ Left(w) \cap Looks = {}
BY DEF TxInv, WorkerOK, WritesOK, Looks

\* An escrow's row changes when a request that has written it commits.
LEMMA EscrowCommitted ==
  ASSUME TxInv, NEW w \in Workers, Acts(w), NEW e \in Escrows, db'[E(e)] # db[E(e)]
  PROVE  /\ Commit(w) /\ InFlight(w) /\ e = request[w].escrow
         /\ E(e) \in DOMAIN writes[w] /\ db'[E(e)] = writes[w][E(e)]
<1>1. Shape /\ E(e) \in Rows
  BY DEF TxInv, Rows
<1>2. CASE Stores(w)
  <2>1. PICK row \in Rows : \E value : Allowed(w, row, value) /\ Update(w, row, value)
    BY <1>2 DEF Stores
  <2>2. PICK value : Allowed(w, row, value) /\ Update(w, row, value)
    BY <2>1
  <2>3. row = E(e) => InTransaction(w)
    BY <2>2, EscrowInTransaction DEF Allowed
  <2> QED
    BY <1>1, <2>2, <2>3, UpdateDoes
<1>3. CASE Commit(w)
  <2>1. E(e) \in DOMAIN writes[w] /\ db'[E(e)] = writes[w][E(e)]
    BY <1>1, <1>3 DEF Commit, Over, Shape
  <2> QED
    BY <1>3, <2>1, WritersHaveLooked DEF Commit, At
<1>4. CASE UNCHANGED <<db, writes>> \/ GiveUp(w)
  BY <1>4 DEF GiveUp
<1> QED
  BY <1>2, <1>3, <1>4, StepForm

LEMMA BlockedBegins ==
  ASSUME TxInv, NEW w \in Workers, NEW r \in Offered, Begin(w, r)
  PROVE  Blocked(w)'
<1>1. /\ todo'[w] = Program(r) /\ r \in Requests /\ writes'[w] = writes[w]
      /\ DOMAIN writes[w] = {}
  BY EscrowTxAssumption DEF Begin, TxInv, Shape, WorkerOK, RequestOK
<1>2. Left(w)' = First(r.kind) /\ r.kind \in Kinds
  BY <1>1, ProgramsOrdered, WhatIsRequested DEF Left
<1>3. CASE r.kind = "reject"
  BY <1>1, <1>2, <1>3 DEF First, Blocked
<1>4. CASE r.kind # "reject"
  <2>1. First(r.kind) \cap Looks # {}
    BY <1>2, <1>4 DEF First, Completing, Looks, Kinds
  <2> QED
    BY <1>2, <2>1 DEF Blocked
<1> QED
  BY <1>3, <1>4

\* A request that is blocked finds the escrow disputed and ends, or goes on without its row.
LEMMA BlockedSteps ==
  ASSUME TxInv, NEW w \in Workers, Step(w), ~GiveUp(w), ~Commit(w), Blocked(w),
         db[E(request[w].escrow)].status = "DISPUTED"
  PROVE  Blocked(w)'
<1>1. RequestOK(w) /\ WritesOK(w) /\ Shape
  BY DEF TxInv, WorkerOK
<1>2. \A e \in Escrows : E(e) \notin DOMAIN writes[w]
  BY WritersHaveLooked DEF Blocked
<1>3. \A s : At(w, s) => request[w] \in Requests /\ request[w].escrow \in Escrows /\ s \in Left(w)
  BY <1>1, AtIsFirst, WhatIsRequested
<1>4. ~LoadEscrow(w) /\ ~LoadToCancel(w) /\ ~LoadToDispute(w)
  <2>1. ASSUME NEW s, At(w, s) PROVE See(w, E(request[w].escrow)).status = "DISPUTED"
    BY <1>2, <1>3, <2>1 DEF See
  <2> QED
    BY <2>1 DEF LoadEscrow, LoadToCancel, LoadToDispute, Expected
<1>5. CASE CheckMilestones(w)
  <2>1. writes' = writes
    BY <1>5 DEF CheckMilestones
  <2>2. Left(w)' = {"commit"} \/ Left(w)' = Completing \cup {"commit"}
    BY <1>5, BranchesDo
  <2> QED
    BY <1>2, <2>1, <2>2 DEF Blocked, Completing, Looks
<1>6. CASE ~CheckMilestones(w)
  <2>1. PICK s : At(w, s) /\ s \notin Looks /\ (Continue(w) \/ todo' = todo)
    BY <1>4, <1>6 DEF Step, LoadWallet, SaveWallet, InsertPayment, UpdatePayment, CompareEscrow,
      UpdateEscrow, WriteMilestones, MarkDisputed, LoadProof, SaveProof, SaveMilestone, Looks
  <2>2. Left(w)' = Left(w) \/ Left(w)' = Left(w) \ {s}
    BY <2>1, ContinueDoes DEF Left
  <2>3. CASE Left(w) \cap Looks # {}
    BY <2>1, <2>2, <2>3 DEF Blocked
  <2>4. CASE Left(w) \cap {"updateEscrow", "markDisputed"} = {}
    <3>1. ~At(w, "updateEscrow") /\ ~At(w, "markDisputed")
      BY <1>3, <2>4
    <3>2. ASSUME NEW e \in Escrows PROVE E(e) \notin DOMAIN writes'[w]
      <4>1. CASE UNCHANGED <<db, writes>>
        BY <1>2, <4>1
      <4>2. CASE Stores(w)
        <5>1. PICK row \in Rows : \E value : Allowed(w, row, value) /\ Update(w, row, value)
          BY <4>2 DEF Stores
        <5>2. row # E(e)
          BY <3>1, <5>1 DEF Allowed
        <5> QED
          BY <1>1, <1>2, <5>1, <5>2, UpdateDoes
      <4> QED
        BY <4>1, <4>2, StepForm DEF Acts
    <3> QED
      BY <2>2, <2>4, <3>2 DEF Blocked
  <2> QED
    BY <2>3, <2>4 DEF Blocked
<1> QED
  BY <1>5, <1>6

LEMMA OvertakenStay == ASSUME NEW w \in Workers, Acts(w) PROVE overtaken \subseteq overtaken'
BY DEF Acts, Begin, Step, Crash, LoadEscrow, LoadToCancel, LoadWallet, LoadProof, CompareEscrow,
  CheckMilestones, InsertPayment, UpdatePayment, UpdateEscrow, SaveProof, SaveMilestone, SaveWallet,
  WriteMilestones, LoadToDispute, MarkDisputed, Commit, GiveUp

LEMMA DisputeStep == TxInv /\ DisputeInv /\ [Next]_vars => DisputeInv'
<1> SUFFICES ASSUME TxInv, DisputeInv, [Next]_vars PROVE DisputeInv'
  OBVIOUS
<1>1. CASE UNCHANGED vars
  BY <1>1 DEF vars, DisputeInv, StatusOK, Blocked, Left, InFlight
<1>2. ASSUME NEW w \in Workers, Acts(w) PROVE DisputeInv'
  <2>1. StatusOK'
    BY <1>2, StatusStep DEF DisputeInv
  <2>2. Untouched(w) /\ overtaken \subseteq overtaken'
    BY <1>2, OneActs, OvertakenStay
  <2>3. ASSUME NEW v \in Workers, NEW e \in Escrows, db'[E(e)].status = "DISPUTED", InFlight(v)',
               request'[v].escrow = e
        PROVE  v \in overtaken' \/ Blocked(v)'
    <3>1. v # w => /\ InFlight(v) /\ request[v].escrow = e /\ Left(v)' = Left(v)
                   /\ Blocked(v)' <=> Blocked(v)
      BY <2>2, <2>3 DEF Untouched, InFlight, Left, Blocked
    <3>2. CASE db[E(e)].status = "DISPUTED"
      <4>1. CASE v # w
        BY <2>2, <3>1, <3>2, <4>1 DEF DisputeInv
      <4>2. CASE v = w /\ \E r \in Offered : Begin(w, r)
        BY <4>2, BlockedBegins
      <4>3. CASE v = w /\ ~\E r \in Offered : Begin(w, r)
        <5>1. request' = request
          BY <1>2, <4>3, OnlyBeginRequests
        <5>2. ~GiveUp(w) /\ ~Commit(w) /\ Step(w)
          BY <1>2, <2>3, <4>3, NothingToDo DEF Acts, Crash
        <5>3. InFlight(w)
          BY <5>2 DEF Step, LoadEscrow, LoadToCancel, LoadWallet, LoadProof, CompareEscrow,
            CheckMilestones, InsertPayment, UpdatePayment, UpdateEscrow, SaveProof, SaveMilestone,
            WriteMilestones, LoadToDispute, MarkDisputed, SaveWallet, At
        <5>4. w \in overtaken \/ Blocked(w)
          BY <2>3, <3>2, <4>3, <5>1, <5>3 DEF DisputeInv
        <5> QED
          BY <2>2, <2>3, <3>2, <4>3, <5>1, <5>2, <5>4, BlockedSteps
      <4> QED
        BY <4>1, <4>2, <4>3
    <3>3. CASE db[E(e)].status # "DISPUTED"
      <4>1. /\ Commit(w) /\ e = request[w].escrow /\ E(e) \in DOMAIN writes[w]
            /\ db'[E(e)] = writes[w][E(e)]
        BY <1>2, <2>3, <3>3, EscrowCommitted
      <4>2. request[w].kind = "dispute"
        BY <2>3, <3>3, <4>1 DEF DisputeInv, StatusOK, MadeBy
      <4>3. v # w
        BY <2>3, <4>1, NothingToDo
      <4>4. CASE HasLoaded(v)
        BY <3>1, <4>1, <4>2, <4>3, <4>4 DEF Commit
      <4>5. CASE ~HasLoaded(v)
        BY <3>1, <4>3, <4>5, LoadedHasLooked DEF Blocked
      <4> QED
        BY <4>4, <4>5
    <3> QED
      BY <3>2, <3>3
  <2> QED
    BY <2>1, <2>3 DEF DisputeInv
<1> QED
  BY <1>1, <1>2, NextActs

\* Whatever is in flight when an escrow is disputed, a request that looks at it afterwards leaves
\* it disputed: only one that had loaded it before writes another status over the dispute
\* (fundEscrow, cancelEscrow and completeEscrow wait for the lock of createDispute's UPDATE, but
\* then write the status they had decided on).
THEOREM DisputesBlockLaterRequests == Spec => DisputeBlocksLaterRequests
<1>1. Init => DisputeInv
  BY NoWrites DEF Init, DisputeInv, StatusOK, InFlight
<1>2. TxInv /\ DisputeInv /\ [Next]_vars =>
        [\A w \in Workers, e \in Escrows :
           /\ db[E(e)].status = "DISPUTED" /\ db'[E(e)].status # "DISPUTED"
           /\ todo'[w] # todo[w]
           => w \in overtaken]_vars
  <2> SUFFICES ASSUME TxInv, DisputeInv, [Next]_vars, NEW w \in Workers, NEW e \in Escrows,
                      db[E(e)].status = "DISPUTED", db'[E(e)].status # "DISPUTED",
                      todo'[w] # todo[w]
               PROVE  w \in overtaken
    OBVIOUS
  <2>1. PICK u \in Workers : Acts(u)
    BY NextActs DEF vars
  <2>2. u = w
    BY <2>1, OneActs DEF Untouched
  <2>3. /\ InFlight(w) /\ e = request[w].escrow /\ E(e) \in DOMAIN writes[w]
        /\ Left(w) \cap Looks = {}
    BY <2>1, <2>2, EscrowCommitted, WritersHaveLooked
  <2>4. ~Blocked(w)
    BY <2>3 DEF Blocked
  <2> QED
    BY <2>3, <2>4 DEF DisputeInv
<1> QED
  BY <1>1, <1>2, TxInvariant, DisputeStep, PTL DEF Spec, DisputeBlocksLaterRequests

------------------------------------------------------------------------------
(* Locks.                                                                  *)

\* The rows that w's next statement may write, and the requests that hold one of them.
Wants(w, row) ==
  \/ At(w, "saveWallet") /\ row = W(Party(request[w]))
  \/ At(w, "insertPayment") /\ row = P(w)
  \/ At(w, "updatePayment") /\ row = P(mem[w].paymentId)
  \/ (At(w, "updateEscrow") \/ At(w, "markDisputed")) /\ row = E(request[w].escrow)
  \/ At(w, "saveProof") /\ row = D(request[w].on)
  \/ At(w, "saveMilestone") /\ row = M(request[w].on)
  \/ At(w, "writeMilestones") /\ \E b \in mem[w].back : row = M(b[1])

WaitsFor(w, v) == \E row \in DOMAIN writes[v] : Wants(w, row)

\* Some request in flight waits for none, or writes back milestones that others have saved.
SomeoneProceeds ==
  \/ Quiet
  \/ \E w \in Workers : InFlight(w) /\ \A v \in Workers \ {w} : ~WaitsFor(w, v)
  \/ \E w \in Workers : WritingBack(w)

\* The statement after which a request may hold a row.
Taken(row) ==
  {n \in 1..16 : \/ n = 9 /\ \E x : row = W(x)
                 \/ n = 11 /\ \E x : row = P(x)
                 \/ n = 14 /\ \E x : row = E(x)
                 \/ n = 2 /\ \E x : row = D(x)
                 \/ n = 3 /\ \E x : row = M(x)}
\* Whatever a request has locked, it has left only statements that lock rows behind it.
LocksOK(w) == \A row \in DOMAIN writes[w] : \A n \in Taken(row) : \A x \in Left(w) : n < Rank(x)
LocksInv == \A w \in Workers : LocksOK(w)

LEMMA Ranks == ASSUME TxInv, NEW w \in Workers PROVE \A x \in Left(w) : Rank(x) \in 1..16
<1>1. todo[w] \in Seq(Statements)
  BY DEF TxInv, WorkerOK, RequestOK, Ordered
<1>2. Left(w) \subseteq Statements
  BY <1>1 DEF Left, Elements
<1> QED
  BY <1>2, RankTable DEF Statements

\* The statements that lock a row, but for writeMilestones, and the last of those after which a
\* request may hold a row of the same kind.
Locking == {"saveWallet", "insertPayment", "updatePayment", "updateEscrow", "markDisputed",
            "saveProof", "saveMilestone"}
LastLocking(s) ==
  CASE s = "insertPayment" -> 11 [] s = "updateEscrow" -> 14 [] OTHER -> Rank(s)

\* The next statement of a request that wants a row is one after which it has taken it.
LEMMA WantedRank ==
  ASSUME TxInv, NEW w \in Workers, NEW row, Wants(w, row), ~WritingBack(w)
  PROVE  \E s \in Locking : At(w, s) /\ Taken(row) = {LastLocking(s)}
<1>1. PICK s \in Locking : At(w, s) /\ Wants(w, row)
  BY DEF Wants, Locking, WritingBack
<1>2. /\ s = "saveWallet" => \E x : row = W(x)
      /\ s \in {"insertPayment", "updatePayment"} => \E x : row = P(x)
      /\ s \in {"updateEscrow", "markDisputed"} => \E x : row = E(x)
      /\ s = "saveProof" => \E x : row = D(x)
      /\ s = "saveMilestone" => \E x : row = M(x)
  BY <1>1 DEF Wants, At
<1>3. CASE s = "saveWallet"
  BY <1>1, <1>2, <1>3, RankTable, RowsDiffer DEF Taken, LastLocking
<1>4. CASE s \in {"insertPayment", "updatePayment"}
  BY <1>1, <1>2, <1>4, RankTable, RowsDiffer DEF Taken, LastLocking
<1>5. CASE s \in {"updateEscrow", "markDisputed"}
  BY <1>1, <1>2, <1>5, RankTable, RowsDiffer DEF Taken, LastLocking
<1>6. CASE s = "saveProof"
  BY <1>1, <1>2, <1>6, RankTable, RowsDiffer DEF Taken, LastLocking
<1>7. CASE s = "saveMilestone"
  BY <1>1, <1>2, <1>7, RankTable, RowsDiffer DEF Taken, LastLocking
<1> QED
  BY <1>1, <1>3, <1>4, <1>5, <1>6, <1>7 DEF Locking

\* A statement writes only what it wants, ...
LEMMA WritesWanted ==
  ASSUME TxInv, NEW w \in Workers, Step(w), ~Rewrites(w), DOMAIN writes'[w] # {},
         NEW row \in DOMAIN writes'[w], row \notin DOMAIN writes[w]
  PROVE  Wants(w, row) /\ Continue(w) /\ ~WritingBack(w)
<1>1. Shape /\ ~GiveUp(w) /\ ~Commit(w)
  BY RequestsEnd DEF Ends, TxInv
<1>2. ~UNCHANGED writes
  OBVIOUS
<1>3. \/ SaveWallet(w) \/ InsertPayment(w) \/ UpdatePayment(w) \/ UpdateEscrow(w)
      \/ MarkDisputed(w) \/ SaveProof(w) \/ SaveMilestone(w)
  BY <1>1, <1>2 DEF Step, LoadEscrow, LoadToCancel, LoadToDispute, LoadWallet, LoadProof,
                    CompareEscrow, CheckMilestones, WriteMilestones, Rewrites
<1>4. ASSUME NEW x, NEW value, Update(w, x, value) PROVE row = x
  BY <1>1, <1>4 DEF Update, With, Shape
<1>5. CASE SaveWallet(w) \/ InsertPayment(w) \/ UpdatePayment(w)
  BY <1>2, <1>4, <1>5 DEF SaveWallet, InsertPayment, UpdatePayment, Wants, WritingBack, At
<1>6. CASE UpdateEscrow(w) \/ MarkDisputed(w) \/ SaveProof(w) \/ SaveMilestone(w)
  BY <1>2, <1>4, <1>6 DEF UpdateEscrow, MarkDisputed, SaveProof, SaveMilestone, Wants,
                          WritingBack, At
<1> QED
  BY <1>3, <1>5, <1>6

\* ... and goes on to statements of a higher rank.
LEMMA RankRises ==
  ASSUME TxInv, NEW w \in Workers, Step(w), ~GiveUp(w), ~Rewrites(w)
  PROVE  \E s : /\ At(w, s) /\ s \in Left(w)
                /\ \A x \in Left(w)' : Rank(s) < Rank(x)
<1>1. ASSUME NEW s, At(w, s), Continue(w)
      PROVE  s \in Left(w) /\ \A x \in Left(w)' : Rank(s) < Rank(x)
  BY <1>1, ContinueDoes
<1>2. CASE LoadToCancel(w)
  <2>1. At(w, "loadToCancel") /\ "loadToCancel" \in Left(w)
    BY <1>2, FlightOrder DEF LoadToCancel
  <2>2. Left(w)' \subseteq {"updatePayment", "commit"} \cup Finishing
    BY <1>2, BranchesDo DEF MayRun
  <2>3. \A x \in Left(w)' : Rank("loadToCancel") < Rank(x)
    BY <2>2, RankTable DEF Finishing
  <2> QED
    BY <2>1, <2>3
<1>3. CASE CheckMilestones(w)
  <2>1. At(w, "checkMilestones") /\ "checkMilestones" \in Left(w)
    BY <1>3, FlightOrder DEF CheckMilestones
  <2>2. Left(w)' \subseteq {"commit"} \cup Completing
    BY <1>3, BranchesDo
  <2>3. \A x \in Left(w)' : Rank("checkMilestones") < Rank(x)
    BY <2>2, RankTable DEF Completing, Finishing
  <2> QED
    BY <2>1, <2>3
<1>4. CASE \/ LoadEscrow(w) \/ LoadToDispute(w) \/ LoadWallet(w) \/ LoadProof(w)
           \/ CompareEscrow(w) \/ Commit(w)
  BY <1>1, <1>4 DEF LoadEscrow, LoadToDispute, LoadWallet, LoadProof, CompareEscrow, Commit
<1>5. CASE \/ SaveWallet(w) \/ InsertPayment(w) \/ UpdatePayment(w) \/ UpdateEscrow(w)
           \/ MarkDisputed(w) \/ SaveProof(w) \/ SaveMilestone(w) \/ WriteMilestones(w)
  BY <1>1, <1>5 DEF SaveWallet, InsertPayment, UpdatePayment, UpdateEscrow, MarkDisputed,
                    SaveProof, SaveMilestone, WriteMilestones, Rewrites
<1> QED
  BY <1>2, <1>3, <1>4, <1>5 DEF Step

\* What it writes back, it writes after everything else.
LEMMA LocksRewrite ==
  ASSUME TxInv, NEW w \in Workers, LocksOK(w), Rewrites(w)
  PROVE  LocksOK(w)'
<1>1. /\ At(w, "writeMilestones") /\ todo' = todo /\ Shape
      /\ \E b \in mem[w].back : \E value : Update(w, M(b[1]), value)
  BY StoresBack DEF Rewrites, WriteMilestones, TxInv
<1>2. PICK x : \E value : Update(w, M(x), value)
  BY <1>1
<1>3. PICK value : Update(w, M(x), value)
  BY <1>2
<1>4. Left(w)' = Left(w)
  BY <1>1 DEF Left
<1>5. \A y \in Left(w) : Rank(y) \in 1..16 /\ 15 <= Rank(y)
  BY <1>1, FlightOrder, Ranks, RankTable
<1>6. ASSUME NEW row \in DOMAIN writes'[w], NEW n \in Taken(row), NEW y \in Left(w)
      PROVE  n < Rank(y)
  <2>1. CASE row \in DOMAIN writes[w]
    BY <2>1 DEF LocksOK
  <2>2. CASE row \notin DOMAIN writes[w]
    <3>1. row = M(x)
      BY <1>1, <1>3, <2>2 DEF Update, With, Shape
    <3>2. n = 3
      BY <3>1, RowsDiffer DEF Taken
    <3> QED
      BY <1>5, <3>2
  <2> QED
    BY <2>1, <2>2
<1> QED
  BY <1>4, <1>6 DEF LocksOK

LEMMA LocksActs ==
  ASSUME TxInv, NEW w \in Workers, LocksOK(w), Acts(w)
  PROVE  LocksOK(w)'
<1>1. CASE DOMAIN writes'[w] = {}
  BY <1>1 DEF LocksOK
<1>2. CASE \E r \in Offered : Begin(w, r)
  <2>1. writes'[w] = writes[w] /\ DOMAIN writes[w] = {}
    BY <1>2 DEF Begin, TxInv, WorkerOK, RequestOK
  <2> QED
    BY <1>1, <2>1
<1>3. CASE GiveUp(w) \/ Commit(w)
  BY <1>1, <1>3, RequestsEnd DEF Ends
<1>5. CASE Rewrites(w)
  BY <1>5, LocksRewrite
<1>4. CASE Step(w) /\ ~GiveUp(w) /\ ~Rewrites(w) /\ DOMAIN writes'[w] # {}
  <2>1. PICK s : At(w, s) /\ s \in Left(w) /\ \A x \in Left(w)' : Rank(s) < Rank(x)
    BY <1>4, RankRises
  <2>2. Rank(s) \in 1..16 /\ \A x \in Left(w)' : Rank(x) \in 1..16 /\ x \in Statements
    <3>1. Ordered(todo'[w])
      BY RequestStep DEF RequestOK
    <3>2. todo'[w] \in Seq(Statements)
      BY <3>1 DEF Ordered
    <3>3. Left(w)' \subseteq Statements
      BY <3>2 DEF Left, Elements
    <3> QED
      BY <2>1, <3>3, Ranks, RankTable DEF Statements
  <2>3. ASSUME NEW row \in DOMAIN writes'[w], NEW n \in Taken(row), NEW x \in Left(w)'
        PROVE  n < Rank(x)
    <3>1. n \in 1..16
      BY DEF Taken
    <3>2. CASE row \in DOMAIN writes[w]
      <4>1. n < Rank(s) /\ Rank(s) < Rank(x)
        BY <2>1, <3>2 DEF LocksOK
      <4> QED
        BY <2>2, <3>1, <4>1
    <3>3. CASE row \notin DOMAIN writes[w]
      <4>1. Wants(w, row) /\ Continue(w) /\ ~WritingBack(w)
        BY <1>4, <3>3, WritesWanted
      <4>2. Taken(row) = {LastLocking(s)} /\ s \in Locking
        BY <2>1, <4>1, WantedRank DEF At
      <4>3. CASE s \notin {"insertPayment", "updateEscrow"}
        BY <2>1, <4>2, <4>3 DEF LastLocking
      <4>4. /\ Left(w)' \subseteq Left(w) /\ Left(w) \subseteq MayRun(request[w].kind)
            /\ request[w] \in Requests
        BY <2>1, <4>1, ContinueDoes, FlightOrder
      <4>5. CASE s = "insertPayment"
        <5>1. request[w].kind = "fund"
          BY <2>1, <4>4, <4>5, WhoRuns
        <5>2. x \in {"loadEscrow", "loadWallet", "saveWallet", "insertPayment", "compareEscrow",
                     "updateEscrow", "writeMilestones", "commit"}
          BY <4>4, <5>1 DEF MayRun, First, Finishing
        <5>3. 10 < Rank(x) /\ n = 11
          BY <2>1, <4>2, <4>5, RankTable DEF LastLocking
        <5> QED
          BY <5>2, <5>3, RankTable
      <4>6. CASE s = "updateEscrow"
        <5>1. x # "markDisputed" /\ x \in Statements
          BY <2>1, <2>2, <4>4, <4>6, WhoRuns
        <5>2. 13 < Rank(x) /\ n = 14
          BY <2>1, <4>2, <4>6, RankTable DEF LastLocking
        <5> QED
          BY <5>1, <5>2, RankTable DEF Statements
      <4> QED
        BY <4>3, <4>5, <4>6
    <3> QED
      BY <3>2, <3>3
  <2> QED
    BY <2>3 DEF LocksOK
<1> QED
  BY <1>1, <1>2, <1>3, <1>4, <1>5 DEF Acts, Crash

LEMMA LocksStep == TxInv /\ LocksInv /\ [Next]_vars => LocksInv'
<1> SUFFICES ASSUME TxInv, LocksInv, [Next]_vars PROVE LocksInv'
  OBVIOUS
<1>1. CASE UNCHANGED vars
  BY <1>1 DEF vars, LocksInv, LocksOK, Left
<1>2. ASSUME NEW w \in Workers, Acts(w) PROVE LocksInv'
  <2>1. \A v \in Workers \ {w} : writes'[v] = writes[v] /\ todo'[v] = todo[v]
    BY <1>2, OneActs DEF Untouched
  <2>2. \A v \in Workers \ {w} : LocksOK(v)'
    BY <2>1 DEF LocksInv, LocksOK, Left
  <2>3. LocksOK(w)'
    BY <1>2, LocksActs DEF LocksInv
  <2> QED
    BY <2>2, <2>3 DEF LocksInv
<1> QED
  BY <1>1, <1>2, NextActs

\* Requests never wait for one another in a circle, nor all of them for one that has ended, unless
\* one of them has come to write back milestones that others have saved: of those in flight,
\* however many there are, one wants no row that another has locked.  A statement has no other
\* reason to wait, so this is NoDeadlock without its ENABLED.
THEOREM SomeoneAlwaysProceeds == Spec => []SomeoneProceeds
<1>1. Init => LocksInv
  BY DEF Init, LocksInv, LocksOK
<1>2. TxInv /\ LocksInv => SomeoneProceeds
  <2> SUFFICES ASSUME TxInv, LocksInv, ~Quiet, ~SomeoneProceeds PROVE FALSE
    BY DEF SomeoneProceeds
  <2> DEFINE AtRank(w, n) == InFlight(w) /\ \E s : At(w, s) /\ Rank(s) = n
  <2>1. ASSUME NEW w \in Workers, InFlight(w)
        PROVE  \E n \in 1..16 : AtRank(w, n)
    <3>1. At(w, Head(todo[w]))
      BY <2>1 DEF At
    <3>2. Head(todo[w]) \in Left(w)
      BY <3>1, FlightOrder
    <3> QED
      BY <2>1, <3>1, <3>2, Ranks
  <2>2. ASSUME NEW n \in 1..16, NEW w \in Workers, AtRank(w, n)
        PROVE  \E v \in Workers, m \in 1..16 : n < m /\ AtRank(v, m)
    <3>1. PICK v \in Workers \ {w} : WaitsFor(w, v)
      BY <2>2 DEF SomeoneProceeds
    <3>2. PICK row \in DOMAIN writes[v] : Wants(w, row)
      BY <3>1 DEF WaitsFor
    <3>3. PICK s : At(w, s) /\ Rank(s) = n
      BY <2>2
    <3>4. Taken(row) = {LastLocking(s)}
      BY <3>2, <3>3, WantedRank DEF At, SomeoneProceeds
    <3>5. InFlight(v)
      BY <3>2 DEF TxInv, WorkerOK, RequestOK, InFlight
    <3>6. PICK m \in 1..16 : AtRank(v, m)
      BY <2>1, <3>5
    <3>7. PICK t : At(v, t) /\ Rank(t) = m
      BY <3>6
    <3>8. t \in Left(v)
      BY <3>7, FlightOrder
    <3>9. \A k \in Taken(row) : k < m
      BY <3>2, <3>7, <3>8 DEF LocksInv, LocksOK
    <3>10. n <= LastLocking(s)
      BY <3>3, RankTable DEF LastLocking
    <3>11. LastLocking(s) \in 1..16 /\ LastLocking(s) < m
      BY <3>4, <3>9 DEF Taken
    <3>12. n < m
      BY <3>10, <3>11
    <3> QED
      BY <3>6, <3>12
  <2> HIDE DEF AtRank
  <2>3. PICK w \in Workers : InFlight(w)
    BY DEF Quiet
  <2>4. PICK n \in 1..16 : AtRank(w, n)
    BY <2>1, <2>3
  <2> DEFINE Ranked == {m \in 1..16 : \E v \in Workers : AtRank(v, m)}
  <2>5. \E top \in Ranked : \A m \in Ranked : m <= top
    <3>1. Ranked \subseteq 0..16 /\ Ranked # {}
      BY <2>4
    <3> QED
      BY <3>1
  <2> QED
    BY <2>2, <2>5
<1> QED
  BY <1>1, <1>2, LocksStep, TxInvariant, PTL DEF Spec
==============================================================================
