------------------------------ MODULE EscrowTx ------------------------------
(***************************************************************************)
(* The money-moving requests of EscrowService, and the dispute that stops  *)
(* them, statement by statement, as they interleave on PostgreSQL at its   *)
(* default isolation level, READ COMMITTED.  Inside dataSource.transaction *)
(* a request sees committed rows and its own writes, holds the lock of     *)
(* every row it wrote until it ends, and loses all of its writes if it     *)
(* throws, its connection dies or PostgreSQL ends it to break a deadlock.  *)
(* The controller's completeEscrow has no transaction: every save commits. *)
(*                                                                         *)
(* Escrow ids, parties and amounts are fixed as in Escrow; callers are the *)
(* permitted ones (the checks on the caller read columns nobody changes).  *)
(***************************************************************************)
EXTENDS Integers, Sequences, FiniteSets, FiniteSetsExt

CONSTANTS Users, Escrows, Buyer, Seller, Total, Milestones, MilestoneOf, Proofs, ProofOf,
          InitialBalance,
          Funded,     \* the escrows that are funded when the requests arrive
          Workers,    \* one per request that may be in flight
          Offered,    \* the requests that may arrive
          None        \* no payment, no target

VARIABLES db,       \* the committed rows
          writes,   \* writes[w]: the rows written by w's open transaction, which it has locked
          request,  \* request[w]: what w executes
          todo,     \* todo[w]: the statements w has still to execute
          mem,      \* mem[w]: what w has loaded into memory
          settled,  \* history: the workers whose wallet write has become durable
          isolated, \* history: TRUE while all requests had transactions and those that overlapped
                    \* were apart
          overtaken \* history: the workers that had loaded their escrow when it was disputed

vars == <<db, writes, request, todo, mem, settled, isolated, overtaken>>

W(u) == <<"wallet", u>>
E(e) == <<"escrow", e>>
P(k) == <<"payment", k>>
M(m) == <<"milestone", m>>
D(p) == <<"proof", p>>

PaymentIds == Escrows \cup Workers   \* of a funding before the run, or by a worker

\* What u's wallet holds once the escrows in Funded have been funded.
FundedBy(u) == {e \in Funded : Buyer[e] = u}
Opening(u) == InitialBalance[u] - MapThenSumSet(LAMBDA e : Total[e], FundedBy(u))

\* A request names its kind, its escrow, the proof or milestone it is about, and the status
\* that the milestone is to get.
Request(kind, e, on, to) == [kind |-> kind, escrow |-> e, on |-> on, to |-> to]
NoRequest == Request(None, None, None, None)
Requests ==
  {Request(kind, e, None, None) :
     kind \in {"fund", "cancel", "complete", "release", "dispute"}, e \in Escrows}
  \cup {Request(kind, ProofOf[p], p, None) : kind \in {"accept", "reject"}, p \in Proofs}
  \cup {Request("milestone", MilestoneOf[m], m, to) :
          m \in Milestones, to \in {"PENDING", "COMPLETED", "DISPUTED"}}

ASSUME EscrowTxAssumption ==
  /\ Buyer \in [Escrows -> Users] /\ Seller \in [Escrows -> Users] /\ Total \in [Escrows -> Nat]
  /\ ProofOf \in [Proofs -> Escrows] /\ MilestoneOf \in [Milestones -> Escrows]
  /\ Funded \subseteq Escrows
  /\ \A u \in Users : Opening(u) \in Nat
  /\ Offered \subseteq Requests /\ NoRequest \notin Requests /\ None \notin PaymentIds

MilestonesIn(e) == {m \in Milestones : MilestoneOf[m] = e}

Blank == [balance |-> 0, paymentId |-> None, milestones |-> {}, dirty |-> {}, back |-> {},
          wrote |-> FALSE]

------------------------------------------------------------------------------
(* The requests as programs.                                               *)

\* completeEscrow
Completion == <<"loadEscrow", "loadWallet", "saveWallet", "updatePayment", "compareEscrow",
                "updateEscrow", "writeMilestones">>

\* Mutant: the review commits the proof and completes the escrow in a second transaction.
Program_AcceptInTwoTransactions(r) ==
  CASE r.kind = "fund" -> <<"loadEscrow", "loadWallet", "saveWallet", "insertPayment",
                            "compareEscrow", "updateEscrow", "writeMilestones", "commit">>
    [] r.kind = "cancel" -> <<"loadToCancel">>
    [] r.kind = "dispute" -> <<"loadToDispute", "markDisputed", "commit">>
    [] r.kind = "complete" -> Completion \o <<"commit">>
    [] r.kind = "release" -> Completion \o <<"commit">>
    [] r.kind = "accept" -> <<"loadProof", "saveProof", "commit">> \o Completion \o <<"commit">>
    [] r.kind = "reject" -> <<"loadProof", "saveProof", "commit">>
    [] r.kind = "milestone" -> <<"saveMilestone", "checkMilestones">>

\* Mutant: the review completes the escrow first and marks the proof last.
Program_ProofSavedLast(r) ==
  CASE r.kind = "fund" -> <<"loadEscrow", "loadWallet", "saveWallet", "insertPayment",
                            "compareEscrow", "updateEscrow", "writeMilestones", "commit">>
    [] r.kind = "cancel" -> <<"loadToCancel">>
    [] r.kind = "dispute" -> <<"loadToDispute", "markDisputed", "commit">>
    [] r.kind = "complete" -> Completion \o <<"commit">>
    [] r.kind = "release" -> Completion \o <<"commit">>
    [] r.kind = "accept" -> <<"loadProof">> \o Completion \o <<"saveProof", "commit">>
    [] r.kind = "reject" -> <<"loadProof", "saveProof", "commit">>
    [] r.kind = "milestone" -> <<"saveMilestone", "checkMilestones">>

Program(r) ==
  CASE r.kind = "fund" -> <<"loadEscrow", "loadWallet", "saveWallet", "insertPayment",
                            "compareEscrow", "updateEscrow", "writeMilestones", "commit">>
    [] r.kind = "cancel" -> <<"loadToCancel">>
    [] r.kind = "dispute" -> <<"loadToDispute", "markDisputed", "commit">>
    [] r.kind = "complete" -> Completion \o <<"commit">>   \* SecurityController.completeEscrow
    [] r.kind = "release" -> Completion \o <<"commit">>    \* one turn of the job's loop
    [] r.kind = "accept" -> <<"loadProof", "saveProof">> \o Completion \o <<"commit">>
    [] r.kind = "reject" -> <<"loadProof", "saveProof", "commit">>
    [] r.kind = "milestone" -> <<"saveMilestone", "checkMilestones">>

\* Mutant: the review forgets to hand its transaction to completeEscrow.
InTransaction_NotForReviews(w) ==
  \/ request[w].kind \notin {"complete", "accept"}
  \/ Head(todo[w]) \in {"updateEscrow", "writeMilestones"}

\* Where there is none, save() puts the statements of one save into a transaction.
InTransaction(w) ==
  \/ request[w].kind # "complete"
  \/ Head(todo[w]) \in {"updateEscrow", "writeMilestones"}

\* The status the request must find, the wallet it loads, what it adds to the balance and
\* what it makes of the escrow and of the Payment row.
Expected(r) == IF r.kind = "fund" THEN "PENDING" ELSE "FUNDED"
Party(r) == IF r.kind \in {"fund", "cancel"} THEN Buyer[r.escrow] ELSE Seller[r.escrow]
Amount(r) == IF r.kind = "fund" THEN -Total[r.escrow] ELSE Total[r.escrow]
NewStatus(r) ==
  CASE r.kind = "fund" -> "FUNDED"
    [] r.kind = "cancel" -> "CANCELLED"
    [] r.kind = "dispute" -> "DISPUTED"
    [] OTHER -> "COMPLETED"
NewPayment(r) == IF r.kind = "cancel" THEN "REFUNDED" ELSE "COMPLETED"

\* Requests about different escrows and different wallets.
Apart(q, r) == q.escrow # r.escrow /\ Party(q) # Party(r)

------------------------------------------------------------------------------
(* Rows as a request sees and writes them.                                 *)

\* f with one row changed, and g with all that f holds laid over it.
With(f, row, value) == [x \in DOMAIN f \cup {row} |-> IF x = row THEN value ELSE f[x]]
Over(f, g) == [x \in DOMAIN f \cup DOMAIN g |-> IF x \in DOMAIN f THEN f[x] ELSE g[x]]

See(w, row) == IF row \in DOMAIN writes[w] THEN writes[w][row] ELSE db[row]

Unlocked(w, row) == \A v \in Workers \ {w} : row \notin DOMAIN writes[v]

\* An UPDATE waits for the row's lock; outside a transaction it commits at once.
Update(w, row, value) ==
  /\ Unlocked(w, row)
  /\ IF InTransaction(w)
     THEN writes' = [writes EXCEPT ![w] = With(@, row, value)] /\ UNCHANGED db
     ELSE db' = [db EXCEPT ![row] = value] /\ UNCHANGED writes

InFlight(w) == todo[w] # <<>>

At(w, statement) == InFlight(w) /\ Head(todo[w]) = statement

Continue(w) == todo' = [todo EXCEPT ![w] = Tail(@)]

\* A throw or a lost connection: the transaction, if there is one, rolls back.
GiveUp(w) ==
  /\ todo' = [todo EXCEPT ![w] = <<>>]
  /\ writes' = [writes EXCEPT ![w] = <<>>]
  /\ mem' = [mem EXCEPT ![w] = Blank]
  /\ UNCHANGED <<db, request, settled, isolated, overtaken>>

\* Money moves when the request's wallet write becomes durable.
Record(w) == settled' = settled \cup {w}

------------------------------------------------------------------------------
\* A milestone's row: by is the worker that saved it last, whose time is in updatedAt.
MilestoneRow(s, w) == [status |-> s, by |-> w]

FreshEscrow(e) ==
  [status |-> IF e \in Funded THEN "FUNDED" ELSE "PENDING",
   paymentId |-> IF e \in Funded THEN e ELSE None]

\* Agreements made, those in Funded also funded, one request after the other.
Init ==
  /\ db = Over([row \in {W(u) : u \in Users} |-> Opening(row[2])],
            Over([row \in {E(e) : e \in Escrows} |-> FreshEscrow(row[2])],
            Over([row \in {P(k) : k \in PaymentIds} |->
                  IF row[2] \in Funded THEN "ESCROW" ELSE "ABSENT"],
            Over([row \in {M(m) : m \in Milestones} |-> MilestoneRow("PENDING", None)],
                 [row \in {D(p) : p \in Proofs} |-> "PENDING"]))))
  /\ writes = [w \in Workers |-> <<>>]
  /\ request = [w \in Workers |-> NoRequest]
  /\ todo = [w \in Workers |-> <<>>]
  /\ mem = [w \in Workers |-> Blank]
  /\ settled = {}
  /\ isolated = TRUE
  /\ overtaken = {}

Begin(w, r) ==
  /\ request[w] = NoRequest
  /\ request' = [request EXCEPT ![w] = r]
  /\ todo' = [todo EXCEPT ![w] = Program(r)]
  /\ isolated' = (/\ isolated
                  /\ r.kind # "complete"
                  /\ \A v \in Workers : InFlight(v) => Apart(request[v], r))
  /\ UNCHANGED <<db, writes, mem, settled, overtaken>>

------------------------------------------------------------------------------
(* The statements.                                                         *)
\* The escrow comes with its milestones.
LoadEscrow(w) ==
  LET row == See(w, E(request[w].escrow)) IN
  /\ At(w, "loadEscrow")
  /\ IF row.status = Expected(request[w])
     THEN /\ mem' = [mem EXCEPT
               ![w].paymentId = row.paymentId,
               ![w].milestones = {<<m, See(w, M(m))>> : m \in MilestonesIn(request[w].escrow)}]
          /\ Continue(w)
          /\ UNCHANGED <<db, writes, request, settled, isolated, overtaken>>
     ELSE GiveUp(w)

\* Mutant: the cancellation saves the escrow before it refunds the buyer.
LoadToCancel_EscrowFirst(w) ==
  LET row == See(w, E(request[w].escrow)) IN
  /\ At(w, "loadToCancel")
  /\ IF row.status = "FUNDED"
     THEN /\ mem' = [mem EXCEPT ![w].paymentId = row.paymentId]
          /\ todo' = [todo EXCEPT ![w] = <<"compareEscrow", "updateEscrow", "loadWallet",
                                          "saveWallet", "updatePayment", "commit">>]
          /\ UNCHANGED <<db, writes, request, settled, isolated, overtaken>>
     ELSE GiveUp(w)

\* Mutant: only what was completed or cancelled cannot be cancelled.
LoadToCancel_DisputedToo(w) ==
  LET row == See(w, E(request[w].escrow))
      close == <<"compareEscrow", "updateEscrow", "commit">>
  IN
  /\ At(w, "loadToCancel")
  /\ IF row.status \notin {"COMPLETED", "CANCELLED"}
     THEN /\ mem' = [mem EXCEPT ![w].paymentId = row.paymentId]
          /\ todo' = [todo EXCEPT ![w] =
                        IF row.status = "FUNDED"
                        THEN <<"loadWallet", "saveWallet", "updatePayment">> \o close
                        ELSE close]
          /\ UNCHANGED <<db, writes, request, settled, isolated, overtaken>>
     ELSE GiveUp(w)

\* A funded escrow is refunded on the way, a pending one is not.
LoadToCancel(w) ==
  LET row == See(w, E(request[w].escrow))
      close == <<"compareEscrow", "updateEscrow", "commit">>
  IN
  /\ At(w, "loadToCancel")
  /\ IF row.status \in {"PENDING", "FUNDED"}
     THEN /\ mem' = [mem EXCEPT ![w].paymentId = row.paymentId]
          /\ todo' = [todo EXCEPT ![w] =
                        IF row.status = "FUNDED"
                        THEN <<"loadWallet", "saveWallet", "updatePayment">> \o close
                        ELSE close]
          /\ UNCHANGED <<db, writes, request, settled, isolated, overtaken>>
     ELSE GiveUp(w)

\* Mutant: fundEscrow does not check the balance it debits.
LoadWallet_Unchecked(w) ==
  /\ At(w, "loadWallet")
  /\ mem' = [mem EXCEPT ![w].balance = See(w, W(Party(request[w])))]
  /\ Continue(w)
  /\ UNCHANGED <<db, writes, request, settled, isolated, overtaken>>

LoadWallet(w) ==
  LET balance == See(w, W(Party(request[w]))) IN
  /\ At(w, "loadWallet")
  /\ IF balance + Amount(request[w]) >= 0
     THEN /\ mem' = [mem EXCEPT ![w].balance = balance]
          /\ Continue(w)
          /\ UNCHANGED <<db, writes, request, settled, isolated, overtaken>>
     ELSE GiveUp(w)     \* fundEscrow: insufficient funds

\* The new balance is computed from the one loaded, and overwrites the row.
SaveWallet(w) ==
  /\ At(w, "saveWallet")
  /\ Update(w, W(Party(request[w])), mem[w].balance + Amount(request[w]))
  /\ mem' = [mem EXCEPT ![w].wrote = TRUE]
  /\ IF InTransaction(w) THEN UNCHANGED settled ELSE Record(w)
  /\ Continue(w)
  /\ UNCHANGED <<request, isolated, overtaken>>

InsertPayment(w) ==
  /\ At(w, "insertPayment")
  /\ Update(w, P(w), "ESCROW")
  /\ mem' = [mem EXCEPT ![w].paymentId = w]
  /\ Continue(w)
  /\ UNCHANGED <<request, settled, isolated, overtaken>>

UpdatePayment(w) ==
  /\ At(w, "updatePayment")
  /\ IF mem[w].paymentId = None
     THEN UNCHANGED <<db, writes>>
     ELSE Update(w, P(mem[w].paymentId), NewPayment(request[w]))
  /\ Continue(w)
  /\ UNCHANGED <<request, mem, settled, isolated, overtaken>>

\* manager.save(Escrow, escrow): first the SELECT that finds the columns in which the entity and
\* the milestones loaded with it, to which the relation's cascade extends the save, differ from
\* their rows, ...  Of a milestone that somebody saved meanwhile at least updatedAt differs.
CompareEscrow(w) ==
  LET row == See(w, E(request[w].escrow))
      changed == {x \in mem[w].milestones : See(w, M(x[1])) # x[2]}
      Stale(x) == IF See(w, M(x[1])).status = x[2].status THEN None ELSE x[2].status
  IN
  /\ At(w, "compareEscrow")
  /\ mem' = [mem EXCEPT ![w].dirty =
               {c \in {"status", "paymentId", "completedAt"} :
                  \/ c = "status" /\ row.status # NewStatus(request[w])
                  \/ c = "paymentId" /\ row.paymentId # mem[w].paymentId
                  \/ c = "completedAt" /\ NewStatus(request[w]) = "COMPLETED"},
                         ![w].back = {<<x[1], Stale(x)>> : x \in changed},
                         ![w].milestones = {}]
  /\ Continue(w)
  /\ UNCHANGED <<db, writes, request, settled, isolated, overtaken>>

\* ... then the UPDATE of those columns, on whatever the row holds once its lock is free.
UpdateEscrow(w) ==
  LET row == See(w, E(request[w].escrow))
      new == [status |-> IF "status" \in mem[w].dirty THEN NewStatus(request[w])
                         ELSE row.status,
              paymentId |-> IF "paymentId" \in mem[w].dirty THEN mem[w].paymentId
                            ELSE row.paymentId]
  IN
  /\ At(w, "updateEscrow")
  /\ IF mem[w].dirty = {}
     THEN UNCHANGED <<db, writes>>
     ELSE Update(w, E(request[w].escrow), new)
  /\ Continue(w)
  /\ UNCHANGED <<request, mem, settled, isolated, overtaken>>

\* ... and of each of those milestones, which get back the status they were loaded with if that
\* is one of the columns.
WriteMilestones(w) ==
  /\ At(w, "writeMilestones")
  /\ \/ /\ mem[w].back = {}
        /\ Continue(w)
        /\ UNCHANGED <<db, writes, mem>>
     \/ \E b \in mem[w].back :
          LET row == See(w, M(b[1])) IN
          /\ Update(w, M(b[1]), MilestoneRow(IF b[2] = None THEN row.status ELSE b[2], w))
          /\ mem' = [mem EXCEPT ![w].back = @ \ {b}]
          /\ UNCHANGED todo
  /\ UNCHANGED <<request, settled, isolated, overtaken>>

\* createDispute
LoadToDispute(w) ==
  /\ At(w, "loadToDispute")
  /\ IF See(w, E(request[w].escrow)).status \in {"PENDING", "FUNDED"}
     THEN Continue(w) /\ UNCHANGED <<db, writes, request, mem, settled, isolated, overtaken>>
     ELSE GiveUp(w)

\* An UPDATE of this one column.
MarkDisputed(w) ==
  LET row == See(w, E(request[w].escrow)) IN
  /\ At(w, "markDisputed")
  /\ Update(w, E(request[w].escrow), [status |-> "DISPUTED", paymentId |-> row.paymentId])
  /\ Continue(w)
  /\ UNCHANGED <<request, mem, settled, isolated, overtaken>>

LoadProof(w) ==
  /\ At(w, "loadProof")
  /\ IF See(w, D(request[w].on)) = "PENDING"
     THEN Continue(w) /\ UNCHANGED <<db, writes, request, mem, settled, isolated, overtaken>>
     ELSE GiveUp(w)     \* already reviewed

SaveProof(w) ==
  /\ At(w, "saveProof")
  /\ Update(w, D(request[w].on), IF request[w].kind = "accept" THEN "ACCEPTED" ELSE "REJECTED")
  /\ Continue(w)
  /\ UNCHANGED <<request, mem, settled, isolated, overtaken>>

\* Nothing is written if the row has the status already, but completedAt is always new.
SaveMilestone(w) ==
  LET row == M(request[w].on) IN
  /\ At(w, "saveMilestone")
  /\ IF request[w].to # "COMPLETED" /\ See(w, row).status = request[w].to
     THEN UNCHANGED <<db, writes>>
     ELSE Update(w, row, MilestoneRow(request[w].to, w))
  /\ Continue(w)
  /\ UNCHANGED <<request, mem, settled, isolated, overtaken>>

\* Mutant: the milestones are read on another connection, without the one just saved.
CheckMilestones_OutsideTransaction(w) ==
  LET completed == \A m \in MilestonesIn(request[w].escrow) : db[M(m)].status = "COMPLETED"
  IN
  /\ At(w, "checkMilestones")
  /\ todo' = [todo EXCEPT ![w] = (IF completed THEN Completion ELSE <<>>) \o <<"commit">>]
  /\ UNCHANGED <<db, writes, request, mem, settled, isolated, overtaken>>

CheckMilestones(w) ==
  LET completed == \A m \in MilestonesIn(request[w].escrow) : See(w, M(m)).status = "COMPLETED"
  IN
  /\ At(w, "checkMilestones")
  /\ todo' = [todo EXCEPT ![w] = (IF completed THEN Completion ELSE <<>>) \o <<"commit">>]
  /\ UNCHANGED <<db, writes, request, mem, settled, isolated, overtaken>>

\* A request that has loaded its escrow, if it ever will, and may be about to write it.
HasLoaded(w) ==
  /\ InFlight(w)
  /\ \A i \in DOMAIN todo[w] :
       todo[w][i] \notin {"checkMilestones", "loadToCancel", "loadToDispute", "loadEscrow"}

Commit(w) ==
  /\ At(w, "commit")
  /\ db' = Over(writes[w], db)
  /\ writes' = [writes EXCEPT ![w] = <<>>]
  /\ IF mem[w].wrote THEN Record(w) ELSE UNCHANGED settled
  /\ mem' = [mem EXCEPT ![w] = Blank]
  /\ overtaken' = overtaken \cup
       {v \in Workers : /\ request[w].kind = "dispute" /\ HasLoaded(v)
                        /\ request[v].escrow = request[w].escrow}
  /\ Continue(w)
  /\ UNCHANGED <<request, isolated>>

\* The server or the connection dies under the request.
Crash(w) == InFlight(w) /\ GiveUp(w)

Step(w) ==
  \/ LoadEscrow(w) \/ LoadToCancel(w) \/ LoadWallet(w) \/ SaveWallet(w)
  \/ InsertPayment(w) \/ UpdatePayment(w) \/ CompareEscrow(w) \/ UpdateEscrow(w)
  \/ WriteMilestones(w) \/ LoadToDispute(w) \/ MarkDisputed(w)
  \/ LoadProof(w) \/ SaveProof(w) \/ SaveMilestone(w) \/ CheckMilestones(w)
  \/ Commit(w)

Next ==
  \E w \in Workers :
    \/ \E r \in Offered : Begin(w, r)
    \/ Step(w)
    \/ Crash(w)

Spec == Init /\ [][Next]_vars

------------------------------------------------------------------------------
(* Properties *)
Quiet == \A w \in Workers : ~InFlight(w)

EscrowStatus == {"PENDING", "FUNDED", "DISPUTED", "COMPLETED", "CANCELLED"}

TypeOK ==
  /\ \A u \in Users : db[W(u)] \in Nat
  /\ \A e \in Escrows : /\ db[E(e)].status \in EscrowStatus
                        /\ db[E(e)].paymentId \in PaymentIds \cup {None}
  /\ \A k \in PaymentIds : db[P(k)] \in {"ABSENT", "ESCROW", "COMPLETED", "REFUNDED"}
  /\ \A w \in Workers : mem[w].paymentId \in PaymentIds \cup {None}

\* The requests that have taken the money of e, and those that have paid it out or back.
Debits(e) == {w \in settled : request[w].escrow = e /\ request[w].kind = "fund"}
Payouts(e) == {w \in settled : request[w].escrow = e /\ request[w].kind # "fund"}
Acceptances(p) == {w \in settled : request[w].kind = "accept" /\ request[w].on = p}

\* A proof is committed as accepted only together with the payout of the request that accepts
\* it, even if the server dies between the two saves or another request completes the escrow
\* first.
AcceptedProofWasPaid ==
  \A p \in Proofs : db[D(p)] = "ACCEPTED" => Acceptances(p) # {}

\* How often the money of e was taken.
Fundings(e) == Cardinality(Debits(e)) + (IF e \in Funded THEN 1 ELSE 0)

\* Reviews of one and the same proof that race each other pay at most once for each time the
\* escrow was funded: they meet at the lock of the proof's row before they read the escrow's
\* status, and only another funding makes that FUNDED again.
AcceptedOncePerFunding == \A p \in Proofs : Cardinality(Acceptances(p)) <= Fundings(ProofOf[p])

\* The money of an escrow leaves it no more often than it was taken.
PaidOnce == \A e \in Escrows : Cardinality(Payouts(e)) <= Fundings(e)

\* escrow.service.ts:672, "If all milestones are completed, update escrow status": true unless
\* requests of one escrow or one wallet overlap, also while others are under way and if they
\* die between the milestone and the escrow.
AllMilestonesCompleteEscrow ==
  isolated =>
    \A e \in Escrows :
      /\ db[E(e)].status = "FUNDED"
      /\ \E m \in Milestones : MilestoneOf[m] = e
      => \E m \in Milestones : MilestoneOf[m] = e /\ db[M(m)].status # "COMPLETED"

\* dispute-resolution-system-design.md:13, "Block normal escrow completion while a dispute is
\* active": a request that finds the escrow disputed leaves it so, and only one that had loaded
\* the escrow before the dispute was committed makes it funded, completed or cancelled again.
DisputeBlocksLaterRequests ==
  [][\A w \in Workers, e \in Escrows :
       /\ db[E(e)].status = "DISPUTED" /\ db'[E(e)].status # "DISPUTED"
       /\ todo'[w] # todo[w]
       => w \in overtaken]_vars

\* A funding or a completion that has written its escrow and is left to write back milestones
\* that were saved since it loaded them.
WritingBack(w) == At(w, "writeMilestones") /\ mem[w].back # {}

\* Requests take locks in one order (proof or milestone, wallet, payment, escrow), but for a
\* stale milestone that is written back last: unless one of those in flight does that, one of
\* them can always execute its next statement, however they wait for one another.
NoDeadlock == Quiet \/ (\E w \in Workers : ENABLED Step(w)) \/ (\E w \in Workers : WritingBack(w))

Phase(e) ==
  LET row == db[E(e)] IN
  CASE row.status = "PENDING" -> "agreed"
    [] row.status = "FUNDED" -> "held"
    [] row.status = "DISPUTED" /\ row.paymentId # None -> "held"
    [] row.status = "COMPLETED" -> "paid"
    [] row.status = "CANCELLED" /\ row.paymentId # None -> "returned"
    [] OTHER -> "calledOff"

Promise == INSTANCE EscrowPromise WITH
             purse <- [u \in Users |-> db[W(u)]], phase <- [e \in Escrows |-> Phase(e)]

\* Requests in transactions, each of them possibly cut short by a crash at any statement, keep
\* the promise of the escrow service, as long as those that share an escrow or a wallet run one
\* after the other; no matter how they interleave with the rest.
KeepsPromise == [][isolated' => Promise!PNext]_(Promise!pvars)
==============================================================================
