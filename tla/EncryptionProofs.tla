--------------------------- MODULE EncryptionProofs ---------------------------
(***************************************************************************)
(* The schema follows TypeORM's journal through every deployment, revert   *)
(* and repair, a boot serves only on the full schema and never with an      *)
(* empty journal, and the texts of the encrypted rows survive: for any      *)
(* number of accounts, handlers and databases.                              *)
(***************************************************************************)
EXTENDS Encryption, WellFoundedInduction, SequenceTheorems, TLAPS

-----------------------------------------------------------------------------
(* Statements, block by block *)

\* What one more block makes of a result.
Then(r, b) ==
  IF r.ok THEN [ok |-> Executed(b, r.catalog) = DOMAIN b.objects, catalog |-> After(b, r.catalog)]
  ELSE r

\* The recursive function inside Execute, as a function that satisfies its equation.
IsRun(g, blocks, c, n) ==
  g = [k \in 0 .. n |-> IF k = 0 THEN [ok |-> TRUE, catalog |-> c] ELSE Then(g[k - 1], blocks[k])]

\* That equation, argument by argument.
Runs(g, blocks, c, n) ==
  \A k \in 0 .. n :
    g[k] = IF k = 0 THEN [ok |-> TRUE, catalog |-> c] ELSE Then(g[k - 1], blocks[k])

LEMMA ExecuteDef ==
  ASSUME NEW blocks, NEW c
  PROVE  Execute(blocks, c) = (CHOOSE g : IsRun(g, blocks, c, Len(blocks)))[Len(blocks)]
BY DEF Execute, IsRun, Then

\* Induction on a set of numbers (the library's induction theorems take an operator).
LEMMA NatSet ==
  ASSUME NEW S \in SUBSET Nat, 0 \in S, \A n \in S : n + 1 \in S
  PROVE  S = Nat
<1> DEFINE B == Nat \ S
<1>1. ASSUME B # {} PROVE FALSE
  <2>1. B \subseteq Nat
    OBVIOUS
  <2> HIDE DEF B
  <2>2. PICK n \in B : \A m \in B : ~ (<<m, n>> \in OpToRel(<, Nat))
    BY <1>1, <2>1, NatLessThanWellFounded, WFMin
  <2>3. n \in Nat /\ n \notin S /\ n # 0
    BY <2>2 DEF B
  <2>4. n - 1 \in Nat /\ n - 1 < n /\ n = (n - 1) + 1
    BY <2>3
  <2>5. n - 1 \notin B
    BY <2>2, <2>3, <2>4 DEF OpToRel
  <2> QED
    BY <2>3, <2>4, <2>5 DEF B
<1> QED
  BY <1>1

LEMMA RunStep ==
  ASSUME NEW blocks, NEW c, NEW n \in Nat, NEW g, IsRun(g, blocks, c, n)
  PROVE  Runs(g, blocks, c, n)
<1> SUFFICES ASSUME NEW k \in 0 .. n
             PROVE  g[k] = IF k = 0 THEN [ok |-> TRUE, catalog |-> c] ELSE Then(g[k - 1], blocks[k])
  BY DEF Runs
<1> DEFINE h == [j \in 0 .. n |->
                    IF j = 0 THEN [ok |-> TRUE, catalog |-> c] ELSE Then(g[j - 1], blocks[j])]
<1>1. h[k] = IF k = 0 THEN [ok |-> TRUE, catalog |-> c] ELSE Then(g[k - 1], blocks[k])
  OBVIOUS
<1>2. g = h
  BY DEF IsRun
<1> QED
  BY <1>1, <1>2

\* There is a run of any length, so Execute's is one.
LEMMA RunExists ==
  ASSUME NEW blocks, NEW c, NEW n \in Nat
  PROVE  \E g : IsRun(g, blocks, c, n)
<1> DEFINE S == {k \in Nat : \E g : IsRun(g, blocks, c, k)}
<1>1. 0 \in S
  <2>1. IsRun([k \in 0 .. 0 |-> [ok |-> TRUE, catalog |-> c]], blocks, c, 0)
    BY DEF IsRun
  <2> QED
    BY <2>1
<1>2. ASSUME NEW k \in S PROVE k + 1 \in S
  <2>0. k \in Nat
    OBVIOUS
  <2>1. PICK g : IsRun(g, blocks, c, k)
    OBVIOUS
  <2> DEFINE h == [j \in 0 .. k + 1 |-> IF j = k + 1 THEN Then(g[k], blocks[j]) ELSE g[j]]
  <2>2. ASSUME NEW j \in 0 .. k + 1
        PROVE  h[j] = IF j = 0 THEN [ok |-> TRUE, catalog |-> c] ELSE Then(h[j - 1], blocks[j])
    <3>1. k \in Nat /\ j - 1 # k + 1 /\ (j # 0 => j - 1 \in 0 .. k /\ j - 1 \in 0 .. k + 1)
      OBVIOUS
    <3>2. j # 0 => h[j - 1] = g[j - 1]
      BY <3>1
    <3>3. j # k + 1 => g[j] = IF j = 0 THEN [ok |-> TRUE, catalog |-> c] ELSE Then(g[j - 1], blocks[j])
      <4>1. Runs(g, blocks, c, k)
        BY <2>0, <2>1, RunStep
      <4>2. j # k + 1 => j \in 0 .. k
        BY <3>1
      <4> QED
        BY <4>1, <4>2 DEF Runs
    <3> QED
      BY <3>1, <3>2, <3>3
  <2> HIDE DEF h
  <2>3. h = [j \in 0 .. k + 1 |-> h[j]]
    BY DEF h
  <2>4. IsRun(h, blocks, c, k + 1)
    BY <2>2, <2>3 DEF IsRun
  <2> QED
    BY <2>4
<1> HIDE DEF S
<1>3. S = Nat
  BY <1>1, <1>2, NatSet DEF S
<1> QED
  BY <1>3 DEF S

\* Execute, block by block.
LEMMA ARun ==
  ASSUME NEW blocks, NEW c, Len(blocks) \in Nat
  PROVE  \E g : /\ Execute(blocks, c) = g[Len(blocks)]
                /\ g[0] = [ok |-> TRUE, catalog |-> c]
                /\ \A n \in 1 .. Len(blocks) : g[n] = Then(g[n - 1], blocks[n])
<1> DEFINE g == CHOOSE g : IsRun(g, blocks, c, Len(blocks))
<1>1. IsRun(g, blocks, c, Len(blocks)) /\ Execute(blocks, c) = g[Len(blocks)]
  BY RunExists, ExecuteDef
<1> HIDE DEF g
<1>2. \A k \in 0 .. Len(blocks) :
        g[k] = IF k = 0 THEN [ok |-> TRUE, catalog |-> c] ELSE Then(g[k - 1], blocks[k])
  BY <1>1, RunStep DEF Runs
<1>3. 0 \in 0 .. Len(blocks) /\ \A k \in 1 .. Len(blocks) : k \in 0 .. Len(blocks) /\ k # 0
  OBVIOUS
<1> QED
  BY <1>1, <1>2, <1>3

\* The lists of blocks the migrations are made of.
LEMMA ExecuteNone == ASSUME NEW c PROVE Execute(<<>>, c) = [ok |-> TRUE, catalog |-> c]
<1>1. Len(<<>>) = 0
  OBVIOUS
<1>2. PICK g : Execute(<<>>, c) = g[Len(<<>>)] /\ g[0] = [ok |-> TRUE, catalog |-> c]
  BY <1>1, ARun
<1> QED
  BY <1>1, <1>2

LEMMA ExecuteOne ==
  ASSUME NEW b, NEW c
  PROVE  Execute(<<b>>, c) = [ok |-> Executed(b, c) = DOMAIN b.objects, catalog |-> After(b, c)]
<1>1. Len(<<b>>) = 1 /\ <<b>>[1] = b
  OBVIOUS
<1>2. PICK g : /\ Execute(<<b>>, c) = g[1]
               /\ g[0] = [ok |-> TRUE, catalog |-> c]
               /\ \A n \in 1 .. 1 : g[n] = Then(g[n - 1], <<b>>[n])
  BY <1>1, ARun
<1>3. g[1] = Then(g[0], b)
  BY <1>1, <1>2
<1> QED
  BY <1>2, <1>3 DEF Then

LEMMA ExecuteFour ==
  ASSUME NEW b1, NEW b2, NEW b3, NEW b4, NEW c
  PROVE  Execute(<<b1, b2, b3, b4>>, c)
           = Then(Then(Then(Then([ok |-> TRUE, catalog |-> c], b1), b2), b3), b4)
<1> DEFINE bs == <<b1, b2, b3, b4>>
<1>1. Len(bs) = 4 /\ bs[1] = b1 /\ bs[2] = b2 /\ bs[3] = b3 /\ bs[4] = b4
  OBVIOUS
<1> HIDE DEF bs
<1>2. PICK g : /\ Execute(bs, c) = g[Len(bs)]
               /\ g[0] = [ok |-> TRUE, catalog |-> c]
               /\ \A n \in 1 .. Len(bs) : g[n] = Then(g[n - 1], bs[n])
  <2>1. Len(bs) \in Nat
    BY <1>1
  <2> QED
    BY <2>1, ARun
<1>3. g[1] = Then(g[0], b1) /\ g[2] = Then(g[1], b2) /\ g[3] = Then(g[2], b3) /\ g[4] = Then(g[3], b4)
  BY <1>1, <1>2
<1> QED
  BY <1>2, <1>3 DEF bs

LEMMA ExecuteFive ==
  ASSUME NEW b1, NEW b2, NEW b3, NEW b4, NEW b5, NEW c
  PROVE  Execute(<<b1, b2, b3, b4, b5>>, c)
           = Then(Then(Then(Then(Then([ok |-> TRUE, catalog |-> c], b1), b2), b3), b4), b5)
<1> DEFINE bs == <<b1, b2, b3, b4, b5>>
<1>1. Len(bs) = 5 /\ bs[1] = b1 /\ bs[2] = b2 /\ bs[3] = b3 /\ bs[4] = b4 /\ bs[5] = b5
  OBVIOUS
<1> HIDE DEF bs
<1>2. PICK g : /\ Execute(bs, c) = g[Len(bs)]
               /\ g[0] = [ok |-> TRUE, catalog |-> c]
               /\ \A n \in 1 .. Len(bs) : g[n] = Then(g[n - 1], bs[n])
  <2>1. Len(bs) \in Nat
    BY <1>1
  <2> QED
    BY <2>1, ARun
<1>3. /\ g[1] = Then(g[0], b1) /\ g[2] = Then(g[1], b2) /\ g[3] = Then(g[2], b3)
      /\ g[4] = Then(g[3], b4) /\ g[5] = Then(g[4], b5)
  BY <1>1, <1>2
<1> QED
  BY <1>1, <1>2, <1>3 DEF bs

\* Up to two migrations, one after the other.
LEMMA FlattenOne == ASSUME NEW s PROVE FlattenSeq(<<s>>) = s
<1> DEFINE f == CHOOSE f : f = [i \in 1 .. 1 |-> IF i = 1 THEN <<s>>[i] ELSE f[i - 1] \o <<s>>[i]]
<1>1. FlattenSeq(<<s>>) = f[1]
  BY DEF FlattenSeq
<1>2. [i \in 1 .. 1 |-> s] = [i \in 1 .. 1 |-> IF i = 1 THEN <<s>>[i] ELSE [j \in 1 .. 1 |-> s][i - 1] \o <<s>>[i]]
  OBVIOUS
<1>3. f = [i \in 1 .. 1 |-> IF i = 1 THEN <<s>>[i] ELSE f[i - 1] \o <<s>>[i]]
  BY <1>2
<1> HIDE DEF f
<1> QED
  BY <1>1, <1>3

LEMMA FlattenTwo == ASSUME NEW s, NEW t PROVE FlattenSeq(<<s, t>>) = s \o t
<1> DEFINE f == CHOOSE f : f = [i \in 1 .. 2 |-> IF i = 1 THEN <<s, t>>[i] ELSE f[i - 1] \o <<s, t>>[i]]
           g == [i \in 1 .. 2 |-> IF i = 1 THEN s ELSE s \o t]
<1>1. FlattenSeq(<<s, t>>) = f[2]
  BY DEF FlattenSeq
<1>2. g = [i \in 1 .. 2 |-> IF i = 1 THEN <<s, t>>[i] ELSE g[i - 1] \o <<s, t>>[i]]
  OBVIOUS
<1>3. f = [i \in 1 .. 2 |-> IF i = 1 THEN <<s, t>>[i] ELSE f[i - 1] \o <<s, t>>[i]]
  <2> HIDE DEF g
  <2> QED
    BY <1>2
<1> HIDE DEF f, g
<1>4. f[2] = f[1] \o t /\ f[1] = s
  <2> DEFINE h == [i \in 1 .. 2 |-> IF i = 1 THEN <<s, t>>[i] ELSE f[i - 1] \o <<s, t>>[i]]
  <2>1. h[1] = s /\ h[2] = f[2 - 1] \o t
    OBVIOUS
  <2>2. f = h
    BY <1>3
  <2> HIDE DEF h
  <2> QED
    BY <2>1, <2>2
<1> QED
  BY <1>1, <1>4

\* No statement of a block is refused.
LEMMA BlockPasses ==
  ASSUME NEW b, NEW c, DOMAIN b.objects \subseteq Nat
  PROVE  Executed(b, c) = DOMAIN b.objects
           <=> \A i \in DOMAIN b.objects : Accepted(b.does, b.objects[i], c)
<1> DEFINE refused == {i \in DOMAIN b.objects : ~Accepted(b.does, b.objects[i], c)}
<1>1. Executed(b, c) = {i \in DOMAIN b.objects : \A j \in refused : i < j}
  BY DEF Executed
<1>2. ASSUME refused = {} PROVE Executed(b, c) = DOMAIN b.objects
  BY <1>1, <1>2
<1>3. ASSUME Executed(b, c) = DOMAIN b.objects PROVE refused = {}
  <2> SUFFICES ASSUME NEW j \in refused PROVE FALSE
    OBVIOUS
  <2>1. j \in DOMAIN b.objects
    OBVIOUS
  <2>2. j < j
    BY <1>1, <1>3, <2>1
  <2> QED
    BY <2>1, <2>2
<1>4. refused = {} <=> \A i \in DOMAIN b.objects : Accepted(b.does, b.objects[i], c)
  OBVIOUS
<1> QED
  BY <1>2, <1>3, <1>4

\* A block of CREATEs that meets no namesake and finds all it needs.
LEMMA CreateAll ==
  ASSUME NEW objects, DOMAIN objects \subseteq Nat, NEW c,
         \A o \in ToSet(objects) : Namesakes(o) \intersect c = {} /\ Needs(o) \subseteq c
  PROVE  Then([ok |-> TRUE, catalog |-> c], Create(objects))
           = [ok |-> TRUE, catalog |-> c \union ToSet(objects)]
<1> DEFINE b == Create(objects)
<1>1. b.does = "create" /\ b.objects = objects
  BY DEF Create
<1>2. \A i \in DOMAIN objects : objects[i] \in ToSet(objects)
  BY DEF ToSet
<1> HIDE DEF b
<1>3. \A i \in DOMAIN b.objects : Accepted(b.does, b.objects[i], c)
  BY <1>1, <1>2 DEF Accepted
<1>4. Executed(b, c) = DOMAIN b.objects
  BY <1>1, <1>3, BlockPasses
<1>5. After(b, c) = c \union {b.objects[i] : i \in DOMAIN b.objects}
  BY <1>1, <1>4 DEF After
<1>6. Then([ok |-> TRUE, catalog |-> c], b)
        = [ok |-> Executed(b, c) = DOMAIN b.objects, catalog |-> After(b, c)]
  BY DEF Then
<1>7. After(b, c) = c \union ToSet(objects)
  BY <1>1, <1>5 DEF ToSet
<1>8. (Executed(b, c) = DOMAIN b.objects) = TRUE
  BY <1>4
<1> QED
  BY <1>6, <1>7, <1>8 DEF b

\* A block of DROPs.
LEMMA DropAll ==
  ASSUME NEW objects, Len(objects) \in Nat, DOMAIN objects = 1 .. Len(objects), NEW c
  PROVE  LET r == Then([ok |-> TRUE, catalog |-> c], Drop(objects)) IN
         /\ r.ok <=> \A o \in ToSet(objects) : o \in c /\ Blocks[o] \intersect c = {}
         /\ r.ok => r.catalog = c \ (ToSet(objects) \union UNION {GoesWith[o] : o \in ToSet(objects)})
<1> DEFINE b == Drop(objects)
           n == Len(objects)
<1>1. b.does = "drop" /\ b.objects = [i \in 1 .. n |-> objects[(n - i) + 1]]
  BY DEF Drop, Reverse
<1>2. DOMAIN b.objects = 1 .. n /\ n \in Nat /\ DOMAIN objects = 1 .. n
  BY <1>1
<1>3. ToSet(objects) = {b.objects[i] : i \in DOMAIN b.objects}
  <2>1. \A i \in 1 .. n : (n - i) + 1 \in 1 .. n /\ objects[i] = b.objects[(n - i) + 1]
    BY <1>1, <1>2
  <2>2. \A i \in 1 .. n : b.objects[i] = objects[(n - i) + 1]
    BY <1>1, <1>2
  <2>3. \A i \in 1 .. n : (n - i) + 1 \in 1 .. n
    BY <1>2
  <2> HIDE DEF b, n
  <2>4. ToSet(objects) = {objects[i] : i \in 1 .. n}
    BY <1>2 DEF ToSet
  <2>5. ASSUME NEW o \in ToSet(objects) PROVE \E i \in 1 .. n : o = b.objects[i]
    BY <2>1, <2>4
  <2>6. ASSUME NEW i \in 1 .. n PROVE b.objects[i] \in ToSet(objects)
    BY <2>2, <2>3, <2>4
  <2> QED
    BY <1>2, <2>5, <2>6
<1> HIDE DEF b, n
<1>4. Executed(b, c) = DOMAIN b.objects <=> \A o \in ToSet(objects) : o \in c /\ Blocks[o] \intersect c = {}
  <2>1. DOMAIN b.objects \subseteq Nat
    BY <1>2
  <2>2. Executed(b, c) = DOMAIN b.objects
           <=> \A i \in DOMAIN b.objects : Accepted(b.does, b.objects[i], c)
    BY <2>1, BlockPasses
  <2> QED
    BY <1>1, <1>3, <2>2 DEF Accepted
<1>5. Executed(b, c) = DOMAIN b.objects
        => After(b, c) = c \ (ToSet(objects) \union UNION {GoesWith[o] : o \in ToSet(objects)})
  BY <1>1, <1>3 DEF After
<1>6. Then([ok |-> TRUE, catalog |-> c], b) = [ok |-> Executed(b, c) = DOMAIN b.objects, catalog |-> After(b, c)]
  BY DEF Then
<1>7. LET r == Then([ok |-> TRUE, catalog |-> c], b) IN
      r.ok = (Executed(b, c) = DOMAIN b.objects) /\ r.catalog = After(b, c)
  BY <1>6
<1> QED
  BY <1>4, <1>5, <1>7 DEF b

\* The lists of the schema, spelled out as far as the proofs need them.
LEMMA EnumsListed ==
  /\ DOMAIN EnumTypes = 1 .. 23
  /\ {"users_role", "users_status", "users_mfamethod",
    "payments_status", "payments_method", "payments_threedsstatus",
    "deposits_status", "deposits_method", "withdrawals_status", "withdrawals_method",
    "risk_assessments_risklevel", "escrows_status", "escrow_milestones_status",
    "disputes_status", "disputes_resolution", "dispute_evidence_type",
    "delivery_proofs_type", "delivery_proofs_status", "transaction_logs_type",
    "notifications_type", "notifications_channel",
    "notification_preferences_type", "notification_preferences_channel"} \subseteq ToSet(EnumTypes)
BY DEF EnumTypes, ToSet

LEMMA TablesListed ==
  /\ DOMAIN PaymentTables = 1 .. 6 /\ DOMAIN EscrowTables = 1 .. 7 /\ DOMAIN MessageTables = 1 .. 3
  /\ DOMAIN Tables = 1 .. 16
  /\ \A i \in 1 .. 16 : Tables[i] = IF i <= 6 THEN PaymentTables[i]
                                     ELSE IF i <= 13 THEN EscrowTables[i - 6] ELSE MessageTables[i - 13]
BY DEF PaymentTables, EscrowTables, MessageTables, Tables

TypeSet == ToSet(TypeObjects)
TableSet == ToSet(TableObjects)
IndexSet == ToSet(IndexObjects)
ForeignKeySet == ToSet(ForeignKeyObjects)

-----------------------------------------------------------------------------
(* The objects of the migrations *)

TableNames == {Tables[i][1] : i \in 1 .. 16}

LEMMA ObjectsListed ==
  /\ TypeSet = {TypeObject(t) : t \in ToSet(EnumTypes)}
  /\ TableSet = {TableObject(t) : t \in TableNames}
  /\ IndexSet = {IndexObject(Indexes[i]) : i \in DOMAIN Indexes}
  /\ ForeignKeySet = {ForeignKeyObject(ForeignKeys[i]) : i \in DOMAIN ForeignKeys}
<1>1. TypeSet = {TypeObject(EnumTypes[i]) : i \in DOMAIN EnumTypes}
  BY DEF TypeSet, TypeObjects, ToSet
<1>2. TableSet = {TableObject(Tables[i][1]) : i \in DOMAIN Tables}
  BY DEF TableSet, TableObjects, ToSet
<1>3. IndexSet = {IndexObject(Indexes[i]) : i \in DOMAIN Indexes}
  BY DEF IndexSet, IndexObjects, ToSet
<1>4. ForeignKeySet = {ForeignKeyObject(ForeignKeys[i]) : i \in DOMAIN ForeignKeys}
  BY DEF ForeignKeySet, ForeignKeyObjects, ToSet
<1>5. DOMAIN Tables = 1 .. 16
  BY TablesListed
<1> QED
  BY <1>1, <1>2, <1>3, <1>4, <1>5 DEF ToSet, TableNames

LEMMA NamesListed ==
  TableNames = {"users", "wallets", "payments", "deposits", "withdrawals", "risk_assessments",
                "escrows", "escrow_milestones", "disputes", "dispute_evidence", "dispute_messages",
                "delivery_proofs", "transaction_logs", "magic_links", "notifications",
                "notification_preferences"}
<1>1. {PaymentTables[i][1] : i \in 1 .. 6} =
        {"users", "wallets", "payments", "deposits", "withdrawals", "risk_assessments"}
  BY DEF PaymentTables
<1>2. {EscrowTables[i][1] : i \in 1 .. 7} =
        {"escrows", "escrow_milestones", "disputes", "dispute_evidence", "dispute_messages",
         "delivery_proofs", "transaction_logs"}
  BY DEF EscrowTables
<1>3. {MessageTables[i][1] : i \in 1 .. 3} =
        {"magic_links", "notifications", "notification_preferences"}
  BY DEF MessageTables
<1>4. /\ \A i \in 1 .. 6 : i \in 1 .. 16 /\ Tables[i] = PaymentTables[i]
      /\ \A i \in 1 .. 7 : i + 6 \in 1 .. 16 /\ Tables[i + 6] = EscrowTables[i]
      /\ \A i \in 1 .. 3 : i + 13 \in 1 .. 16 /\ Tables[i + 13] = MessageTables[i]
  BY TablesListed
<1>5. \A i \in 1 .. 16 : \/ i \in 1 .. 6 /\ Tables[i] = PaymentTables[i]
                         \/ i - 6 \in 1 .. 7 /\ Tables[i] = EscrowTables[i - 6]
                         \/ i - 13 \in 1 .. 3 /\ Tables[i] = MessageTables[i - 13]
  BY TablesListed
<1>6. TableNames = {PaymentTables[i][1] : i \in 1 .. 6} \union {EscrowTables[i][1] : i \in 1 .. 7}
                     \union {MessageTables[i][1] : i \in 1 .. 3}
  BY <1>4, <1>5 DEF TableNames
<1> QED
  BY <1>1, <1>2, <1>3, <1>6

\* Every table's enum types are created, every index's and foreign key's table is.
LEMMA TypesAreEnums == \A t : TypesUsed(t) \subseteq ToSet(EnumTypes)
<1>1. /\ \A i \in 1 .. 6 : PaymentTables[i][2] \subseteq ToSet(EnumTypes)
      /\ \A i \in 1 .. 7 : EscrowTables[i][2] \subseteq ToSet(EnumTypes)
      /\ \A i \in 1 .. 3 : MessageTables[i][2] \subseteq ToSet(EnumTypes)
  BY EnumsListed DEF PaymentTables, EscrowTables, MessageTables
<1>2. \A i \in 1 .. 16 : \/ i \in 1 .. 6 /\ Tables[i] = PaymentTables[i]
                         \/ i - 6 \in 1 .. 7 /\ Tables[i] = EscrowTables[i - 6]
                         \/ i - 13 \in 1 .. 3 /\ Tables[i] = MessageTables[i - 13]
  BY TablesListed
<1>3. \A i \in DOMAIN Tables : Tables[i][2] \subseteq ToSet(EnumTypes)
  BY <1>1, <1>2, TablesListed
<1> QED
  BY <1>3 DEF TypesUsed

LEMMA RefersToTables ==
  /\ \A i \in DOMAIN Indexes : Indexes[i][2] \in TableNames
  /\ \A i \in DOMAIN ForeignKeys : ForeignKeys[i][1] \in TableNames /\ ForeignKeys[i][3] \in TableNames
<1>1. \A i \in DOMAIN Indexes : Indexes[i][2] \in TableNames
  BY NamesListed DEF Indexes
<1>2. DOMAIN ForeignKeys = 1 .. 27
  BY DEF ForeignKeys
<1>3. \A i \in 1 .. 27 :
        ForeignKeys[i][1] \in
          {"wallets", "payments", "deposits", "withdrawals", "magic_links", "risk_assessments",
           "escrows", "escrow_milestones", "disputes", "dispute_evidence", "dispute_messages",
           "delivery_proofs", "transaction_logs", "notifications", "notification_preferences"}
  BY DEF ForeignKeys
<1>4. \A i \in 1 .. 27 : ForeignKeys[i][3] \in {"users", "payments", "escrows", "disputes"}
  BY DEF ForeignKeys
<1> QED
  BY <1>1, <1>2, <1>3, <1>4, NamesListed

\* An object's kind tells which list it is from.
LEMMA Kinds ==
  /\ \A o \in TypeSet : o[1] = "type"
  /\ \A o \in TableSet : o[1] = "table" /\ o = TableObject(o[2])
  /\ \A o \in IndexSet : o[1] = "index" /\ TableObject(o[3]) \in TableSet
  /\ \A o \in ForeignKeySet : o[1] = "fk" /\ TableObject(o[2]) \in TableSet /\ TableObject(o[4]) \in TableSet
  /\ BufferColumn[1] = "column" /\ TableObject(BufferColumn[2]) \in TableSet
<1>1. \A o \in TypeSet : o[1] = "type"
  BY ObjectsListed DEF TypeObject
<1>2. \A o \in TableSet : o[1] = "table" /\ o = TableObject(o[2])
  BY ObjectsListed DEF TableObject
<1>3. ASSUME NEW o \in IndexSet PROVE o[1] = "index" /\ TableObject(o[3]) \in TableSet
  <2>1. PICK i \in DOMAIN Indexes : o = IndexObject(Indexes[i])
    BY ObjectsListed
  <2>2. o[1] = "index" /\ o[3] = Indexes[i][2]
    BY <2>1 DEF IndexObject
  <2> QED
    BY <2>2, ObjectsListed, RefersToTables
<1>4. ASSUME NEW o \in ForeignKeySet
      PROVE  o[1] = "fk" /\ TableObject(o[2]) \in TableSet /\ TableObject(o[4]) \in TableSet
  <2>1. PICK i \in DOMAIN ForeignKeys : o = ForeignKeyObject(ForeignKeys[i])
    BY ObjectsListed
  <2>2. o[1] = "fk" /\ o[2] = ForeignKeys[i][1] /\ o[4] = ForeignKeys[i][3]
    BY <2>1 DEF ForeignKeyObject
  <2> QED
    BY <2>2, ObjectsListed, RefersToTables
<1>5. BufferColumn[1] = "column" /\ BufferColumn[2] = "wallets"
  BY DEF BufferColumn
<1>6. TableObject("wallets") \in TableSet
  BY ObjectsListed, NamesListed
<1> QED
  BY <1>1, <1>2, <1>3, <1>4, <1>5, <1>6

LEMMA AllObjects ==
  /\ InitialObjects = TypeSet \union TableSet \union IndexSet \union ForeignKeySet
  /\ Objects = InitialObjects \union {BufferColumn}
  /\ BufferColumn \notin InitialObjects
<1>1. InitialObjects = TypeSet \union TableSet \union IndexSet \union ForeignKeySet
  BY DEF InitialObjects, TypeSet, TableSet, IndexSet, ForeignKeySet
<1>2. \A o \in InitialObjects : o[1] # "column"
  BY <1>1, Kinds
<1> QED
  BY <1>1, <1>2, Kinds DEF Objects

\* Types need nothing, tables types, and the rest tables.
LEMMA WhatIsNeeded ==
  /\ \A o \in TypeSet : Requires[o] = {}
  /\ \A o \in TableSet : Requires[o] \subseteq TypeSet
  /\ \A o \in IndexSet : Requires[o] \subseteq TableSet
  /\ \A o \in ForeignKeySet : Requires[o] \subseteq TableSet
  /\ Requires[BufferColumn] = {TableObject("wallets")}
<1>1. \A o \in Objects : Requires[o] =
        CASE o[1] = "table" -> {TypeObject(t) : t \in TypesUsed(o[2])}
          [] o[1] = "index" -> {TableObject(o[3])}
          [] o[1] = "fk" -> {TableObject(o[2]), TableObject(o[4])}
          [] o[1] = "column" -> {TableObject(o[2])}
          [] OTHER -> {}
  BY DEF Requires
<1>2. \A o \in TypeSet : Requires[o] = {}
  BY <1>1, AllObjects, Kinds
<1>3. ASSUME NEW o \in TableSet PROVE Requires[o] \subseteq TypeSet
  <2>1. Requires[o] = {TypeObject(t) : t \in TypesUsed(o[2])}
    BY <1>1, AllObjects, Kinds
  <2> QED
    BY <2>1, TypesAreEnums, ObjectsListed
<1>4. ASSUME NEW o \in IndexSet PROVE Requires[o] \subseteq TableSet
  <2>1. Requires[o] = {TableObject(o[3])}
    BY <1>1, AllObjects, Kinds
  <2> QED
    BY <2>1, Kinds
<1>5. ASSUME NEW o \in ForeignKeySet PROVE Requires[o] \subseteq TableSet
  <2>1. Requires[o] = {TableObject(o[2]), TableObject(o[4])}
    BY <1>1, AllObjects, Kinds
  <2> QED
    BY <2>1, Kinds
<1>6. BufferColumn \in Objects /\ BufferColumn[1] = "column" /\ BufferColumn[2] = "wallets"
  BY AllObjects DEF BufferColumn
<1>7. Requires[BufferColumn] = {TableObject("wallets")}
  BY <1>1, <1>6
<1> QED
  BY <1>2, <1>3, <1>4, <1>5, <1>7

\* Only with a table does anything go.
LEMMA WhatGoesWith ==
  /\ \A o \in Objects \ TableSet : GoesWith[o] = {}
  /\ \A o \in TableSet : GoesWith[o] \subseteq IndexSet \union ForeignKeySet \union {BufferColumn}
<1>1. \A o \in Objects : GoesWith[o] =
        {x \in Objects : \/ x[1] = "index" /\ o = TableObject(x[3])
                         \/ x[1] \in {"fk", "column"} /\ o = TableObject(x[2])}
  BY DEF GoesWith
<1>2. \A x \in Objects : x[1] = "index" => TableObject(x[3]) \in TableSet
  BY AllObjects, Kinds
<1>3. \A x \in Objects : x[1] \in {"fk", "column"} => TableObject(x[2]) \in TableSet
  BY AllObjects, Kinds
<1>4. \A x \in Objects : x[1] \in {"index", "fk", "column"} =>
        x \in IndexSet \union ForeignKeySet \union {BufferColumn}
  BY AllObjects, Kinds
<1> QED
  BY <1>1, <1>2, <1>3, <1>4, AllObjects

\* Only tables keep types, and only foreign keys of other tables keep tables.
LEMMA WhatBlocks ==
  /\ \A o \in TypeSet : Blocks[o] \subseteq TableSet
  /\ \A o \in TableSet : Blocks[o] \subseteq ForeignKeySet
  /\ \A o \in IndexSet \union ForeignKeySet : Blocks[o] = {}
<1>1. \A o \in Objects : Blocks[o] = {x \in Objects \ GoesWith[o] : o \in Requires[x]}
  BY DEF Blocks
<1>2. /\ TypeSet \intersect TableSet = {}
      /\ (IndexSet \union ForeignKeySet) \intersect (TypeSet \union TableSet) = {}
  BY Kinds
<1>3. \A x \in Objects : Requires[x] \subseteq TypeSet \union TableSet
  BY AllObjects, WhatIsNeeded, Kinds, ObjectsListed, NamesListed
<1>4. \A x \in Objects \ TableSet : Requires[x] \subseteq TableSet
  BY AllObjects, WhatIsNeeded, ObjectsListed, NamesListed
<1>5. \A x \in TableSet : Requires[x] \subseteq TypeSet
  BY WhatIsNeeded
<1>6. ASSUME NEW o \in TableSet, NEW x \in Objects \ GoesWith[o], o \in Requires[x]
      PROVE  x \in ForeignKeySet
  <2>1. x \notin TableSet /\ x \notin TypeSet
    BY <1>2, <1>5, <1>6, WhatIsNeeded
  <2>2. x \in IndexSet \/ x = BufferColumn => x \in GoesWith[o]
    <3>1. GoesWith[o] = {y \in Objects : \/ y[1] = "index" /\ o = TableObject(y[3])
                                         \/ y[1] \in {"fk", "column"} /\ o = TableObject(y[2])}
      BY AllObjects DEF GoesWith
    <3>2. x \in IndexSet => Requires[x] = {TableObject(x[3])}
      BY AllObjects, Kinds DEF Requires
    <3>3. x = BufferColumn => o = TableObject(x[2])
      BY <1>6, WhatIsNeeded DEF BufferColumn
    <3> QED
      BY <1>6, <3>1, <3>2, <3>3, Kinds
  <2> QED
    BY <1>6, <2>1, <2>2, AllObjects
<1> QED
  BY <1>1, <1>2, <1>3, <1>4, <1>5, <1>6, AllObjects

-----------------------------------------------------------------------------
(* What the migrations do *)

\* The result of statements that were all accepted.
Done(c) == [ok |-> TRUE, catalog |-> c]

\* The initial migration's up() succeeds on an empty database and builds all of it.
LEMMA InitialBuilds == Execute(InitialUp, {}) = Done(InitialObjects)
<1>1. Then(Done({}), Create(TypeObjects)) = Done(TypeSet)
  <2>1. DOMAIN TypeObjects \subseteq Nat
    BY EnumsListed DEF TypeObjects
  <2>2. \A o \in TypeSet : Needs(o) \subseteq {}
    BY WhatIsNeeded, AllObjects DEF Needs
  <2> QED
    BY <2>1, <2>2, CreateAll DEF Done, TypeSet
<1>2. Then(Done(TypeSet), Create(TableObjects)) = Done(TypeSet \union TableSet)
  <2>1. DOMAIN TableObjects \subseteq Nat
    BY TablesListed DEF TableObjects
  <2>2. ASSUME NEW o \in TableSet
        PROVE  Namesakes(o) \intersect TypeSet = {} /\ Needs(o) \subseteq TypeSet
    <3>1. Namesakes(o) = {<<"table", o[2]>>, <<"makeshift", o[2]>>}
      BY Kinds DEF Namesakes
    <3> QED
      BY <3>1, Kinds, WhatIsNeeded, AllObjects DEF Needs
  <2> QED
    BY <2>1, <2>2, CreateAll DEF Done, TableSet
<1>3. Then(Done(TypeSet \union TableSet), Create(IndexObjects)) = Done(TypeSet \union TableSet \union IndexSet)
  <2>1. DOMAIN IndexObjects \subseteq Nat
    BY DEF IndexObjects, Indexes
  <2>2. ASSUME NEW o \in IndexSet
        PROVE  /\ Namesakes(o) \intersect (TypeSet \union TableSet) = {}
               /\ Needs(o) \subseteq TypeSet \union TableSet
    <3>1. Namesakes(o) = {o}
      BY Kinds DEF Namesakes
    <3> QED
      BY <3>1, Kinds, WhatIsNeeded, AllObjects DEF Needs
  <2> QED
    BY <2>1, <2>2, CreateAll DEF Done, IndexSet
<1>4. Then(Done(TypeSet \union TableSet \union IndexSet), Create(ForeignKeyObjects)) = Done(InitialObjects)
  <2>1. DOMAIN ForeignKeyObjects \subseteq Nat
    BY DEF ForeignKeyObjects, ForeignKeys
  <2>2. ASSUME NEW o \in ForeignKeySet
        PROVE  /\ Namesakes(o) \intersect (TypeSet \union TableSet \union IndexSet) = {}
               /\ Needs(o) \subseteq TypeSet \union TableSet \union IndexSet
    <3>1. Namesakes(o) = {o}
      BY Kinds DEF Namesakes
    <3> QED
      BY <3>1, Kinds, WhatIsNeeded, AllObjects DEF Needs
  <2>3. Then(Done(TypeSet \union TableSet \union IndexSet), Create(ForeignKeyObjects))
          = Done((TypeSet \union TableSet \union IndexSet) \union ForeignKeySet)
    BY <2>1, <2>2, CreateAll DEF Done, ForeignKeySet
  <2> QED
    BY <2>3, AllObjects
<1>5. Execute(InitialUp, {}) =
        Then(Then(Then(Then(Done({}), Create(TypeObjects)), Create(TableObjects)),
                  Create(IndexObjects)), Create(ForeignKeyObjects))
  BY ExecuteFour DEF InitialUp, Done
<1> QED
  BY <1>1, <1>2, <1>3, <1>4, <1>5

Wallets == TableObject("wallets")

\* The buffer column's statements check only that the wallets table is there.
LEMMA BufferAlone ==
  ASSUME NEW c, NEW does \in {"add", "remove"}
  PROVE  LET b == [does |-> does, objects |-> <<BufferColumn>>] IN
         /\ Wallets \in c => Executed(b, c) = DOMAIN b.objects
         /\ Wallets \notin c => Executed(b, c) = {} /\ Executed(b, c) # DOMAIN b.objects
<1> DEFINE b == [does |-> does, objects |-> <<BufferColumn>>]
<1>1. DOMAIN b.objects = {1} /\ b.objects[1] = BufferColumn /\ b.does = does
  OBVIOUS
<1> HIDE DEF b
<1>2. Accepted(b.does, b.objects[1], c) <=> Wallets \in c
  BY <1>1, WhatIsNeeded, AllObjects DEF Accepted, Needs, Wallets
<1>3. Executed(b, c) = {i \in {1} : \A j \in {k \in {1} : ~ (Wallets \in c)} : i < j}
  BY <1>1, <1>2 DEF Executed
<1> QED
  BY <1>1, <1>3 DEF b

\* The column's up().
LEMMA BufferAdded ==
  ASSUME NEW c
  PROVE  /\ Execute(ChargebackBufferUp, c).ok <=> Wallets \in c
         /\ Wallets \in c => Execute(ChargebackBufferUp, c).catalog = c \union {BufferColumn}
         /\ Wallets \notin c => Execute(ChargebackBufferUp, c).catalog = c
<1> DEFINE b == [does |-> "add", objects |-> <<BufferColumn>>]
<1>1. ChargebackBufferUp = <<b>>
  BY DEF ChargebackBufferUp, AddIfMissing
<1>2. b.does = "add" /\ DOMAIN b.objects = {1} /\ b.objects[1] = BufferColumn
  OBVIOUS
<1>3. /\ Wallets \in c => Executed(b, c) = DOMAIN b.objects
      /\ Wallets \notin c => Executed(b, c) = {} /\ Executed(b, c) # DOMAIN b.objects
  BY BufferAlone
<1> HIDE DEF b
<1>4. /\ Wallets \in c => After(b, c) = c \union {BufferColumn}
      /\ Wallets \notin c => After(b, c) = c
  BY <1>2, <1>3 DEF After
<1>5. LET r == Execute(<<b>>, c) IN
      r.ok = (Executed(b, c) = DOMAIN b.objects) /\ r.catalog = After(b, c)
  <2>1. Execute(<<b>>, c) = [ok |-> Executed(b, c) = DOMAIN b.objects, catalog |-> After(b, c)]
    BY ExecuteOne
  <2> QED
    BY <2>1
<1> QED
  BY <1>1, <1>3, <1>4, <1>5

\* The column's down().
LEMMA BufferRemoved ==
  ASSUME NEW c
  PROVE  /\ Execute(ChargebackBufferDown, c).ok <=> Wallets \in c
         /\ Wallets \in c => Execute(ChargebackBufferDown, c).catalog = c \ {BufferColumn}
<1> DEFINE b == [does |-> "remove", objects |-> <<BufferColumn>>]
<1>1. ChargebackBufferDown = <<b>>
  BY DEF ChargebackBufferDown, DropIfThere
<1>2. b.does = "remove" /\ DOMAIN b.objects = {1} /\ b.objects[1] = BufferColumn
  OBVIOUS
<1>3. /\ Wallets \in c => Executed(b, c) = DOMAIN b.objects
      /\ Wallets \notin c => Executed(b, c) = {} /\ Executed(b, c) # DOMAIN b.objects
  BY BufferAlone
<1> HIDE DEF b
<1>4. GoesWith[BufferColumn] = {}
  BY WhatGoesWith, AllObjects, Kinds
<1>5. Wallets \in c => After(b, c) = c \ {BufferColumn}
  BY <1>2, <1>3, <1>4 DEF After
<1>6. LET r == Execute(<<b>>, c) IN
      r.ok = (Executed(b, c) = DOMAIN b.objects) /\ r.catalog = After(b, c)
  <2>1. Execute(<<b>>, c) = [ok |-> Executed(b, c) = DOMAIN b.objects, catalog |-> After(b, c)]
    BY ExecuteOne
  <2> QED
    BY <2>1
<1> QED
  BY <1>1, <1>3, <1>5, <1>6

\* The initial migration and then the column's, as one list of blocks.
LEMMA FourThenOne ==
  ASSUME NEW b1, NEW b2, NEW b3, NEW b4, NEW b5, NEW c
  PROVE  Execute(<<b1, b2, b3, b4>> \o <<b5>>, c) = Then(Execute(<<b1, b2, b3, b4>>, c), b5)
<1> DEFINE B == {b1, b2, b3, b4, b5}
           s == <<b1, b2, b3, b4>>
           t == <<b5>>
           u == <<b1, b2, b3, b4, b5>>
<1>1. s \in Seq(B) /\ t \in Seq(B) /\ u \in Seq(B) /\ Len(s) = 4 /\ Len(t) = 1 /\ Len(u) = 5
  OBVIOUS
<1>2. s \o t = u
  <2>1. \A i \in 1 .. 5 : u[i] = IF i <= 4 THEN s[i] ELSE t[i - 4]
    OBVIOUS
  <2> HIDE DEF s, t, u, B
  <2>2. /\ s \o t \in Seq(B)
        /\ Len(s \o t) = Len(s) + Len(t)
        /\ \A i \in 1 .. Len(s) + Len(t) : (s \o t)[i] = IF i <= Len(s) THEN s[i] ELSE t[i - Len(s)]
    BY <1>1, ConcatProperties
  <2>3. Len(s \o t) = 5 /\ \A i \in 1 .. 5 : (s \o t)[i] = IF i <= 4 THEN s[i] ELSE t[i - 4]
    BY <1>1, <2>2
  <2>4. \A i \in 1 .. 5 : (s \o t)[i] = u[i]
    BY <2>1, <2>3
  <2> QED
    BY <1>1, <2>2, <2>3, <2>4, SeqEqual
<1>3. Execute(s, c) = Then(Then(Then(Then([ok |-> TRUE, catalog |-> c], b1), b2), b3), b4)
  BY ExecuteFour
<1>4. Execute(u, c) = Then(Then(Then(Then(Then([ok |-> TRUE, catalog |-> c], b1), b2), b3), b4), b5)
  BY ExecuteFive
<1> QED
  BY <1>2, <1>3, <1>4

\* What the migrations of each journal make of an empty database.
LEMMA BuiltRight ==
  /\ Built(<<>>) = {}
  /\ Built(<<Initial>>) = InitialObjects
  /\ Built(<<Initial, ChargebackBuffer>>) = Objects
<1>1. Built(<<>>) = {}
  <2>1. [i \in DOMAIN <<>> |-> Up(<<>>[i])] = <<>>
    OBVIOUS
  <2>2. FlattenSeq(<<>>) = <<>>
    BY DEF FlattenSeq
  <2> QED
    BY <2>1, <2>2, ExecuteNone DEF Built
<1>2. Built(<<Initial>>) = InitialObjects
  <2>1. [i \in DOMAIN <<Initial>> |-> Up(<<Initial>>[i])] = <<InitialUp>>
    BY DEF Up
  <2> QED
    BY <2>1, FlattenOne, InitialBuilds DEF Built, Done
<1>3. Built(<<Initial, ChargebackBuffer>>) = Objects
  <2>1. [i \in DOMAIN <<Initial, ChargebackBuffer>> |-> Up(<<Initial, ChargebackBuffer>>[i])]
          = <<InitialUp, ChargebackBufferUp>>
    BY DEF Up, Initial, ChargebackBuffer
  <2>3. Execute(InitialUp \o ChargebackBufferUp, {})
          = Then(Execute(InitialUp, {}), AddIfMissing(<<BufferColumn>>))
    BY FourThenOne DEF InitialUp, ChargebackBufferUp
  <2>4. Then(Done(InitialObjects), AddIfMissing(<<BufferColumn>>)) = Execute(ChargebackBufferUp, InitialObjects)
    BY ExecuteOne DEF ChargebackBufferUp, Then, Done
  <2>5. Wallets \in InitialObjects
    BY ObjectsListed, NamesListed, AllObjects DEF Wallets
  <2>6. Built(<<Initial, ChargebackBuffer>>) = Execute(ChargebackBufferUp, InitialObjects).catalog
    BY <2>1, <2>3, <2>4, FlattenTwo, InitialBuilds DEF Built
  <2> QED
    BY <2>5, <2>6, BufferAdded, AllObjects
<1> QED
  BY <1>1, <1>2, <1>3

LEMMA LenOfDomain == ASSUME NEW s, NEW n \in Nat, DOMAIN s = 1 .. n PROVE Len(s) = n
OBVIOUS

\* Objects nothing goes with.
LEMMA DropApart ==
  ASSUME NEW objects, Len(objects) \in Nat, DOMAIN objects = 1 .. Len(objects), NEW c,
         \A o \in ToSet(objects) : GoesWith[o] = {}
  PROVE  LET r == Then(Done(c), Drop(objects)) IN
         /\ r.ok <=> \A o \in ToSet(objects) : o \in c /\ Blocks[o] \intersect c = {}
         /\ r.ok => r.catalog = c \ ToSet(objects)
<1>1. UNION {GoesWith[o] : o \in ToSet(objects)} = {}
  OBVIOUS
<1> QED
  BY <1>1, DropAll DEF Done

\* The initial migration's down() succeeds where all its objects are, and when it succeeds
\* none of them is left, whatever else the database holds.
LEMMA InitialUndone ==
  ASSUME NEW c
  PROVE  /\ InitialObjects \subseteq c => Execute(InitialDown, c).ok
         /\ Execute(InitialDown, c).ok => Execute(InitialDown, c).catalog \intersect InitialObjects = {}
<1> DEFINE r1 == Then(Done(c), DropForeignKeys)
           r2 == Then(r1, DropIndexes)
           r3 == Then(r2, DropTables)
           r4 == Then(r3, DropTypes)
<1>1. Execute(InitialDown, c) = r4
  BY ExecuteFour DEF InitialDown, Done
<1>2. /\ Len(ForeignKeyObjects) \in Nat /\ DOMAIN ForeignKeyObjects = 1 .. Len(ForeignKeyObjects)
      /\ Len(IndexObjects) \in Nat /\ DOMAIN IndexObjects = 1 .. Len(IndexObjects)
      /\ Len(TableObjects) \in Nat /\ DOMAIN TableObjects = 1 .. Len(TableObjects)
      /\ Len(TypeObjects) \in Nat /\ DOMAIN TypeObjects = 1 .. Len(TypeObjects)
  <2>1. DOMAIN ForeignKeyObjects = 1 .. 27
    BY DEF ForeignKeyObjects, ForeignKeys
  <2>2. DOMAIN IndexObjects = 1 .. 16
    BY DEF IndexObjects, Indexes
  <2>3. DOMAIN TableObjects = 1 .. 16 /\ DOMAIN TypeObjects = 1 .. 23
    BY TablesListed, EnumsListed DEF TableObjects, TypeObjects
  <2>4. Len(ForeignKeyObjects) = 27 /\ Len(IndexObjects) = 16
    BY <2>1, <2>2, LenOfDomain
  <2>5. Len(TableObjects) = 16 /\ Len(TypeObjects) = 23
    BY <2>3, LenOfDomain
  <2> QED
    BY <2>1, <2>2, <2>3, <2>4, <2>5
<1>3. \A s, d : Then(s, d) = IF s.ok THEN Then(Done(s.catalog), d) ELSE s
  BY DEF Then, Done
<1>4. /\ r1.ok <=> ForeignKeySet \subseteq c
      /\ r1.ok => r1.catalog = c \ ForeignKeySet
  <2>1. \A o \in ForeignKeySet : Blocks[o] = {} /\ GoesWith[o] = {}
    BY WhatBlocks, WhatGoesWith, AllObjects, Kinds
  <2> QED
    BY <1>2, <2>1, DropApart DEF DropForeignKeys, ForeignKeySet
<1>5. /\ r2.ok <=> r1.ok /\ IndexSet \subseteq r1.catalog
      /\ r2.ok => r2.catalog = r1.catalog \ IndexSet
  <2>1. \A o \in IndexSet : Blocks[o] = {} /\ GoesWith[o] = {}
    BY WhatBlocks, WhatGoesWith, AllObjects, Kinds
  <2> HIDE DEF r1
  <2>2. LET r == Then(Done(r1.catalog), DropIndexes) IN
        /\ r.ok <=> \A o \in IndexSet : o \in r1.catalog /\ Blocks[o] \intersect r1.catalog = {}
        /\ r.ok => r.catalog = r1.catalog \ IndexSet
    BY <1>2, <2>1, DropApart DEF DropIndexes, IndexSet
  <2> QED
    BY <1>3, <2>1, <2>2
<1>6. /\ r3.ok <=> r2.ok /\ \A o \in TableSet : o \in r2.catalog /\ Blocks[o] \intersect r2.catalog = {}
      /\ r3.ok => r3.catalog = r2.catalog \ (TableSet \union UNION {GoesWith[o] : o \in TableSet})
  <2> HIDE DEF r2
  <2>1. LET r == Then(Done(r2.catalog), DropTables) IN
        /\ r.ok <=> \A o \in TableSet : o \in r2.catalog /\ Blocks[o] \intersect r2.catalog = {}
        /\ r.ok => r.catalog = r2.catalog \ (TableSet \union UNION {GoesWith[o] : o \in TableSet})
    BY <1>2, DropAll DEF Done, DropTables, TableSet
  <2> QED
    BY <1>3, <2>1
<1>7. /\ r4.ok <=> r3.ok /\ \A o \in TypeSet : o \in r3.catalog /\ Blocks[o] \intersect r3.catalog = {}
      /\ r4.ok => r4.catalog = r3.catalog \ TypeSet
  <2>1. \A o \in TypeSet : GoesWith[o] = {}
    BY WhatGoesWith, AllObjects, Kinds
  <2> HIDE DEF r3
  <2>2. LET r == Then(Done(r3.catalog), DropTypes) IN
        /\ r.ok <=> \A o \in TypeSet : o \in r3.catalog /\ Blocks[o] \intersect r3.catalog = {}
        /\ r.ok => r.catalog = r3.catalog \ TypeSet
    BY <1>2, <2>1, DropApart DEF DropTypes, TypeSet
  <2> QED
    BY <1>3, <2>2
<1> HIDE DEF r1, r2, r3, r4
<1>8. ASSUME InitialObjects \subseteq c PROVE r4.ok
  <2>1. r1.ok /\ r1.catalog = c \ ForeignKeySet
    BY <1>4, <1>8, AllObjects
  <2>2. r2.ok /\ r2.catalog = (c \ ForeignKeySet) \ IndexSet
    BY <1>5, <1>8, <2>1, AllObjects, Kinds
  <2>3. r3.ok /\ r3.catalog = r2.catalog \ (TableSet \union UNION {GoesWith[o] : o \in TableSet})
    BY <1>6, <1>8, <2>2, AllObjects, Kinds, WhatBlocks
  <2>4. \A o \in TypeSet : o \in r3.catalog
    BY <1>8, <2>2, <2>3, AllObjects, Kinds, WhatGoesWith
  <2>5. r3.catalog \intersect TableSet = {}
    BY <2>3
  <2> QED
    BY <1>7, <2>3, <2>4, <2>5, WhatBlocks
<1>9. ASSUME r4.ok PROVE r4.catalog \intersect InitialObjects = {}
  <2>1. r1.ok /\ r2.ok /\ r3.ok
    BY <1>5, <1>6, <1>7, <1>9
  <2>2. r3.catalog \subseteq r2.catalog \ TableSet /\ r2.catalog = (c \ ForeignKeySet) \ IndexSet
    BY <1>4, <1>5, <1>6, <2>1
  <2> QED
    BY <1>7, <1>9, <2>2, AllObjects
<1> QED
  BY <1>1, <1>8, <1>9

-----------------------------------------------------------------------------
(* The journal and what is pending *)

\* The journal with both migrations, in the order in which they can have been run.
Both == <<Initial, ChargebackBuffer>>

\* The inductive invariant.  The journal is one of three; unless tables were dropped behind
\* it, what it records is there; and, dropped or not, a journal without the initial migration
\* means that none of its objects is there, so the column's migration, which comes first, finds
\* no wallets table.
Journaled == journal \in {<<>>, <<Initial>>, Both}
InitialThere == ~lost /\ journal # <<>> => InitialObjects \subseteq catalog
ColumnThere == ~lost /\ journal = Both => BufferColumn \in catalog
NothingInitial == journal = <<>> => InitialObjects \intersect catalog = {}

DeployInv == Journaled /\ InitialThere /\ ColumnThere /\ NothingInitial

\* Short sequences.
LEMMA Joined ==
  ASSUME NEW a, NEW b
  PROVE  /\ <<a>> \o <<b>> = <<a, b>>
         /\ <<a>> \o <<>> = <<a>> /\ <<>> \o <<a>> = <<a>>
         /\ <<a, b>> \o <<>> = <<a, b>> /\ <<>> \o <<>> = <<>>
<1> DEFINE S == {a, b}
           s == <<a>>
           t == <<b>>
           u == <<a, b>>
           e == <<>>
<1>1. s \in Seq(S) /\ t \in Seq(S) /\ u \in Seq(S) /\ e \in Seq(S) /\ Len(s) = 1 /\ Len(t) = 1 /\ Len(u) = 2
  OBVIOUS
<1>2. u[1] = s[1] /\ u[2] = t[1]
  OBVIOUS
<1>3. s \o e = s /\ e \o s = s /\ u \o e = u /\ e \o e = e
  BY <1>1, ConcatEmptySeq
<1>4. s \o t = u
  <2> HIDE DEF s, t, u, S
  <2>2. /\ s \o t \in Seq(S)
        /\ Len(s \o t) = Len(s) + Len(t)
        /\ \A i \in 1 .. Len(s) + Len(t) : (s \o t)[i] = IF i <= Len(s) THEN s[i] ELSE t[i - Len(s)]
    BY <1>1, ConcatProperties
  <2>3. Len(s \o t) = 2 /\ (s \o t)[1] = s[1] /\ (s \o t)[2] = t[1]
    BY <1>1, <2>2
  <2>4. \A i \in 1 .. 2 : (s \o t)[i] = u[i]
    BY <1>2, <2>3
  <2> QED
    BY <1>1, <2>2, <2>3, <2>4, SeqEqual
<1> QED
  BY <1>3, <1>4

LEMMA Fronts ==
  ASSUME NEW a, NEW b
  PROVE  Front(<<a>>) = <<>> /\ Front(<<a, b>>) = <<a>>
<1> DEFINE S == {a, b}
           s == <<a>>
           u == <<a, b>>
<1>1. s \in Seq(S) /\ u \in Seq(S) /\ Len(s) = 1 /\ Len(u) = 2 /\ u[1] = s[1]
  OBVIOUS
<1> HIDE DEF s, u, S
<1>2. Front(s) = SubSeq(s, 1, 0) /\ Front(u) = SubSeq(u, 1, 1)
  BY <1>1 DEF Front
<1>3. SubSeq(s, 1, 0) \in Seq(S) /\ Len(SubSeq(s, 1, 0)) = 0
  BY <1>1, SubSeqProperties
<1>4. SubSeq(u, 1, 1) \in Seq(S) /\ Len(SubSeq(u, 1, 1)) = 1 /\ SubSeq(u, 1, 1)[1] = u[1]
  BY <1>1, SubSeqProperties
<1>5. SubSeq(u, 1, 1) = s
  BY <1>1, <1>4, SeqEqual
<1>6. SubSeq(s, 1, 0) = <<>>
  BY <1>3, EmptySeq
<1> QED
  BY <1>2, <1>5, <1>6 DEF s, u

\* The three journals.
LEMMA TheJournals ==
  /\ Initial # ChargebackBuffer
  /\ <<>> # <<Initial>> /\ <<>> # Both /\ <<Initial>> # Both
  /\ ToSet(<<>>) = {} /\ ToSet(<<Initial>>) = {Initial} /\ ToSet(Both) = {Initial, ChargebackBuffer}
  /\ Front(<<Initial>>) = <<>> /\ Front(Both) = <<Initial>>
  /\ Last(<<Initial>>) = Initial /\ Last(Both) = ChargebackBuffer
  /\ <<Initial>> \o <<ChargebackBuffer>> = Both /\ <<Initial>> \o <<>> = <<Initial>> /\ Both \o <<>> = Both
<1>1. Initial # ChargebackBuffer
  BY DEF Initial, ChargebackBuffer
<1>2. Len(<<>>) = 0 /\ Len(<<Initial>>) = 1 /\ Len(Both) = 2 /\ Both[1] = Initial /\ Both[2] = ChargebackBuffer
  BY DEF Both
<1>3. <<>> # <<Initial>> /\ <<>> # Both /\ <<Initial>> # Both
  BY <1>2
<1>4. ToSet(<<>>) = {} /\ ToSet(<<Initial>>) = {Initial} /\ ToSet(Both) = {Initial, ChargebackBuffer}
  BY DEF ToSet, Both
<1>5. Front(<<Initial>>) = <<>> /\ Front(Both) = <<Initial>>
  BY Fronts DEF Both
<1>6. Last(<<Initial>>) = Initial /\ Last(Both) = ChargebackBuffer
  BY <1>2 DEF Last
<1>7. <<Initial>> \o <<ChargebackBuffer>> = Both /\ <<Initial>> \o <<>> = <<Initial>> /\ Both \o <<>> = Both
  BY Joined DEF Both
<1> QED
  BY <1>1, <1>3, <1>4, <1>5, <1>6, <1>7

\* TypeORM's pending migrations, for each journal.
LEMMA PendingIs ==
  /\ journal = <<>> => Pending = <<ChargebackBuffer, Initial>>
  /\ journal = <<Initial>> => Pending = <<ChargebackBuffer>>
  /\ journal = Both => Pending = <<>>
<1>1. ByTimestamp[1] = ChargebackBuffer /\ ByTimestamp[2] = Initial
  BY DEF ByTimestamp
<1>2. Pending = (IF ChargebackBuffer \in ToSet(journal) THEN <<>> ELSE <<ChargebackBuffer>>)
                \o (IF Initial \in ToSet(journal) THEN <<>> ELSE <<Initial>>)
  BY <1>1 DEF Pending
<1>3. /\ <<ChargebackBuffer>> \o <<Initial>> = <<ChargebackBuffer, Initial>>
      /\ <<ChargebackBuffer>> \o <<>> = <<ChargebackBuffer>>
      /\ <<>> \o <<>> = <<>> /\ <<>> \o <<Initial>> = <<Initial>>
  BY Joined
<1>4. ASSUME journal = <<>> PROVE Pending = <<ChargebackBuffer, Initial>>
  BY <1>2, <1>3, <1>4, TheJournals
<1>5. ASSUME journal = <<Initial>> PROVE Pending = <<ChargebackBuffer>>
  BY <1>2, <1>3, <1>5, TheJournals
<1>6. ASSUME journal = Both PROVE Pending = <<>>
  BY <1>2, <1>3, <1>6, TheJournals
<1> QED
  BY <1>4, <1>5, <1>6

\* The column's migration and then the initial one: refused in the first, refused in all.
LEMMA OneThenFour ==
  ASSUME NEW b1, NEW b2, NEW b3, NEW b4, NEW b5, NEW c, ~Execute(<<b1>>, c).ok
  PROVE  ~Execute(<<b1>> \o <<b2, b3, b4, b5>>, c).ok
<1> DEFINE B == {b1, b2, b3, b4, b5}
           s == <<b1>>
           t == <<b2, b3, b4, b5>>
           u == <<b1, b2, b3, b4, b5>>
<1>1. s \in Seq(B) /\ t \in Seq(B) /\ u \in Seq(B) /\ Len(s) = 1 /\ Len(t) = 4 /\ Len(u) = 5
  OBVIOUS
<1>2. s \o t = u
  <2>1. \A i \in 1 .. 5 : u[i] = IF i <= 1 THEN s[i] ELSE t[i - 1]
    OBVIOUS
  <2> HIDE DEF s, t, u, B
  <2>2. /\ s \o t \in Seq(B)
        /\ Len(s \o t) = Len(s) + Len(t)
        /\ \A i \in 1 .. Len(s) + Len(t) : (s \o t)[i] = IF i <= Len(s) THEN s[i] ELSE t[i - Len(s)]
    BY <1>1, ConcatProperties
  <2>3. Len(s \o t) = 5 /\ \A i \in 1 .. 5 : (s \o t)[i] = IF i <= 1 THEN s[i] ELSE t[i - 1]
    BY <1>1, <2>2
  <2>4. \A i \in 1 .. 5 : (s \o t)[i] = u[i]
    BY <2>1, <2>3
  <2> QED
    BY <1>1, <2>2, <2>3, <2>4, SeqEqual
<1> DEFINE r == Then([ok |-> TRUE, catalog |-> c], b1)
<1>3. Execute(s, c) = r
  <2>1. r = [ok |-> Executed(b1, c) = DOMAIN b1.objects, catalog |-> After(b1, c)]
    BY DEF Then
  <2> QED
    BY <2>1, ExecuteOne
<1>4. Execute(u, c) = Then(Then(Then(Then(r, b2), b3), b4), b5)
  BY ExecuteFive
<1>5. ~r.ok
  BY <1>3
<1> HIDE DEF r, s, t, u
<1>6. Then(r, b2) = r /\ Then(r, b3) = r /\ Then(r, b4) = r /\ Then(r, b5) = r
  BY <1>5 DEF Then
<1>7. Execute(u, c) = r
  BY <1>4, <1>6
<1> QED
  BY <1>2, <1>5, <1>7 DEF s, t

\* What TypeORM's run of the pending migrations does, for each journal.
LEMMA NothingRecorded ==
  ASSUME journal = <<>>, NothingInitial PROVE ~Applicable
<1>1. [i \in DOMAIN Pending |-> Up(Pending[i])] = <<ChargebackBufferUp, InitialUp>>
  BY PendingIs, TheJournals DEF Up
<1>2. PendingUp = ChargebackBufferUp \o InitialUp
  BY <1>1, FlattenTwo DEF PendingUp
<1>3. Wallets \notin catalog
  BY ObjectsListed, NamesListed, AllObjects DEF Wallets, NothingInitial
<1>4. ~Execute(ChargebackBufferUp, catalog).ok
  BY <1>3, BufferAdded
<1>5. ~Execute(<<AddIfMissing(<<BufferColumn>>)>> \o InitialUp, catalog).ok
  BY <1>4, OneThenFour DEF ChargebackBufferUp, InitialUp
<1> QED
  BY <1>2, <1>5 DEF Applicable, ChargebackBufferUp

LEMMA InitialRecorded ==
  ASSUME journal = <<Initial>>
  PROVE  /\ Applicable <=> Wallets \in catalog
         /\ Applicable /\ RunMigrations => journal' = Both /\ catalog' = catalog \union {BufferColumn}
<1>1. [i \in DOMAIN Pending |-> Up(Pending[i])] = <<ChargebackBufferUp>>
  BY PendingIs, TheJournals DEF Up
<1>2. PendingUp = ChargebackBufferUp
  BY <1>1, FlattenOne DEF PendingUp
<1>3. Applicable <=> Wallets \in catalog
  BY <1>2, BufferAdded DEF Applicable
<1>4. RunMigrations => journal' = Both
  BY PendingIs, TheJournals DEF RunMigrations
<1> QED
  BY <1>2, <1>3, <1>4, BufferAdded DEF RunMigrations

LEMMA AllRecorded ==
  ASSUME journal = Both
  PROVE  RunMigrations => journal' = Both /\ catalog' = catalog
<1>1. Pending = <<>>
  BY PendingIs
<1>2. [i \in DOMAIN <<>> |-> Up(<<>>[i])] = <<>> /\ FlattenSeq(<<>>) = <<>>
  BY DEF FlattenSeq
<1>3. PendingUp = <<>>
  BY <1>1, <1>2 DEF PendingUp
<1>4. Execute(PendingUp, catalog).catalog = catalog
  BY <1>3, ExecuteNone
<1> QED
  BY <1>1, <1>4, TheJournals DEF RunMigrations

\* The tables of the fallback are none of the migrations'.
LEMMA FallBackCreates ==
  ASSUME NEW c
  PROVE  /\ c \subseteq Execute(ManualUp, c).catalog
         /\ InitialObjects \intersect Execute(ManualUp, c).catalog = InitialObjects \intersect c
<1> DEFINE names == <<"users", "magic_links", "creators", "fans">>
           made == [i \in 1 .. 4 |-> <<"makeshift", names[i]>>]
           b == Create(made)
<1>1. ManualUp = <<b>>
  BY DEF ManualUp
<1>2. b.does = "create" /\ b.objects = made /\ DOMAIN made = 1 .. 4 /\ \A i \in 1 .. 4 : made[i][1] = "makeshift"
  BY DEF Create
<1> HIDE DEF b, made
<1>3. Executed(b, c) \subseteq 1 .. 4
  BY <1>2 DEF Executed
<1>4. After(b, c) = c \union {made[i] : i \in Executed(b, c)}
  BY <1>2 DEF After
<1>5. \A i \in 1 .. 4 : made[i] \notin InitialObjects
  BY <1>2, AllObjects, Kinds
<1>6. Execute(<<b>>, c).catalog = After(b, c)
  <2>1. Execute(<<b>>, c) = [ok |-> Executed(b, c) = DOMAIN b.objects, catalog |-> After(b, c)]
    BY ExecuteOne
  <2> QED
    BY <2>1
<1> QED
  BY <1>1, <1>3, <1>4, <1>5, <1>6

-----------------------------------------------------------------------------
(* The invariant and its steps *)

\* It holds of every database a service is brought up on, and every step keeps it.
LEMMA DeployStarts == Init => DeployInv
<1> SUFFICES ASSUME Init PROVE DeployInv
  OBVIOUS
<1>1. PICK d \in Databases : journal = JournalOf(d) /\ catalog = Built(JournalOf(d))
  BY DEF Init
<1>2. JournalOf(d) \in {<<>>, <<Initial>>, Both}
  BY <1>1, DatabasesAssumption DEF JournalOf, Both
<1>3. CASE journal = <<>>
  <2>1. catalog = {}
    BY <1>1, <1>3, BuiltRight
  <2> QED
    BY <1>3, <2>1, TheJournals DEF DeployInv, Journaled, InitialThere, ColumnThere, NothingInitial
<1>4. CASE journal = <<Initial>>
  <2>1. catalog = InitialObjects
    BY <1>1, <1>4, BuiltRight
  <2> QED
    BY <1>4, <2>1, TheJournals DEF DeployInv, Journaled, InitialThere, ColumnThere, NothingInitial
<1>5. CASE journal = Both
  <2>1. catalog = Objects
    BY <1>1, <1>5, BuiltRight DEF Both
  <2> QED
    BY <1>5, <2>1, TheJournals, AllObjects
    DEF DeployInv, Journaled, InitialThere, ColumnThere, NothingInitial
<1> QED
  BY <1>1, <1>2, <1>3, <1>4, <1>5

\* The tables the scripts look for are the initial migration's.
LEMMA WalletsThere == Wallets \in InitialObjects /\ TableObject("users") \in InitialObjects
BY ObjectsListed, NamesListed, AllObjects DEF Wallets

\* TypeORM's run of the pending migrations, by the script or by hand.
LEMMA MigrationsKeep ==
  ASSUME DeployInv, Applicable, RunMigrations, lost' = lost
  PROVE  DeployInv' /\ journal # <<>> /\ journal' = Both /\ (~lost => Objects \subseteq catalog')
<1> USE DEF DeployInv, Journaled, InitialThere, ColumnThere, NothingInitial
<1>1. journal # <<>>
  BY NothingRecorded
<1>2. CASE journal = <<Initial>>
  <2>1. journal' = Both /\ catalog' = catalog \union {BufferColumn}
    BY <1>2, InitialRecorded
  <2>2. journal' # <<>>
    BY <2>1, TheJournals
  <2> QED
    BY <1>1, <2>1, <2>2, AllObjects
<1>3. CASE journal = Both
  <2>1. journal' = Both /\ catalog' = catalog
    BY <1>3, AllRecorded
  <2>2. journal' # <<>>
    BY <2>1, TheJournals
  <2> QED
    BY <1>1, <1>3, <2>1, <2>2, AllObjects
<1> QED
  BY <1>1, <1>2, <1>3

\* Steps that keep the journal and every object of the initial migration.
LEMMA CatalogGrows ==
  ASSUME DeployInv, journal' = journal, lost' = lost, catalog \subseteq catalog',
         InitialObjects \intersect catalog' = InitialObjects \intersect catalog
  PROVE  DeployInv'
BY DEF DeployInv, Journaled, InitialThere, ColumnThere, NothingInitial

LEMMA SameCatalog ==
  ASSUME DeployInv, UNCHANGED <<catalog, journal, lost>> PROVE DeployInv'
BY DEF DeployInv, Journaled, InitialThere, ColumnThere, NothingInitial

\* The script forces the migrations only on a database that has lost its tables.
LEMMA ForcingIsLate ==
  ASSUME DeployInv, Forcing PROVE lost /\ journal = Both
<1>1. journal = Both
  <2>1. <<ChargebackBuffer>> # <<>> /\ <<ChargebackBuffer, Initial>> # <<>>
    <3>1. Len(<<ChargebackBuffer>>) = 1 /\ Len(<<ChargebackBuffer, Initial>>) = 2 /\ Len(<<>>) = 0
      OBVIOUS
    <3> QED
      BY <3>1
  <2> QED
    BY <2>1, PendingIs DEF DeployInv, Journaled, Forcing
<1>2. TableObject("users") \in Namesakes(TableObject("users"))
  BY DEF TableObject, Namesakes
<1>3. TableObject("users") \notin catalog
  BY <1>2 DEF Forcing, UsersTableExists
<1> QED
  BY <1>1, <1>3, WalletsThere, TheJournals DEF DeployInv, InitialThere

\* What is forced then is promised nothing.
LEMMA LostKeeps ==
  ASSUME lost, journal = Both, journal' = journal, lost' = lost PROVE DeployInv'
BY TheJournals DEF DeployInv, Journaled, InitialThere, ColumnThere, NothingInitial

LEMMA DeployStep == DeployInv /\ [Next]_vars => DeployInv'
<1> SUFFICES ASSUME DeployInv, [Next]_vars PROVE DeployInv'
  OBVIOUS
<1>1. CASE Deploy
  BY <1>1, SameCatalog DEF Deploy
<1>2. CASE ScriptMigrates
  BY <1>2, MigrationsKeep DEF ScriptMigrates
<1>3. CASE ScriptGivesUp
  BY <1>3, SameCatalog DEF ScriptGivesUp
<1>4. CASE ScriptForces
  BY <1>4, ForcingIsLate, LostKeeps DEF ScriptForces
<1>5. CASE ScriptKilled
  <2>1. CASE catalog' = catalog
    BY <1>5, <2>1, SameCatalog DEF ScriptKilled
  <2>2. CASE Forcing
    BY <1>5, <2>2, ForcingIsLate, LostKeeps DEF ScriptKilled
  <2> QED
    BY <1>5, <2>1, <2>2 DEF ScriptKilled
<1>6. CASE FallBack
  <2>1. catalog' = catalog \/ catalog' = Execute(ManualUp, catalog).catalog
    BY <1>6 DEF FallBack
  <2>2. catalog \subseteq catalog' /\ InitialObjects \intersect catalog' = InitialObjects \intersect catalog
    BY <2>1, FallBackCreates
  <2> QED
    BY <1>6, <2>2, CatalogGrows DEF FallBack
<1>7. CASE FixWallets
  <2>1. catalog' = catalog \/ catalog' = Execute(ChargebackBufferUp, catalog).catalog
    BY <1>7 DEF FixWallets
  <2>2. catalog' = catalog \/ catalog' = catalog \union {BufferColumn}
    BY <2>1, BufferAdded
  <2>3. catalog \subseteq catalog' /\ InitialObjects \intersect catalog' = InitialObjects \intersect catalog
    BY <2>2, AllObjects
  <2> QED
    BY <1>7, <2>3, CatalogGrows DEF FixWallets
<1>8. CASE BootServes
  BY <1>8, SameCatalog DEF BootServes
<1>9. CASE BootFails
  BY <1>9, SameCatalog DEF BootFails
<1>10. CASE Stop
  BY <1>10, SameCatalog DEF Stop
<1>11. CASE MigrationRun
  BY <1>11, MigrationsKeep DEF MigrationRun
<1>12. CASE MigrationRevert
  <2>1. lost' = lost /\ journal' = Front(journal) /\ Undo.ok /\ catalog' = Undo.catalog /\ journal # <<>>
    BY <1>12 DEF MigrationRevert
  <2>2. CASE journal = <<Initial>>
    <3>1. journal' = <<>>
      BY <2>1, <2>2, TheJournals
    <3>2. Undo = Execute(InitialDown, catalog)
      BY <2>2, TheJournals DEF Undo, Down
    <3>3. catalog' \intersect InitialObjects = {}
      BY <2>1, <3>2, InitialUndone
    <3> QED
      BY <3>1, <3>3, TheJournals DEF DeployInv, Journaled, InitialThere, ColumnThere, NothingInitial
  <2>3. CASE journal = Both
    <3>1. journal' = <<Initial>>
      BY <2>1, <2>3, TheJournals
    <3>2. Undo = Execute(ChargebackBufferDown, catalog)
      BY <2>3, TheJournals DEF Undo, Down
    <3>3. catalog' = catalog \ {BufferColumn}
      BY <2>1, <3>2, BufferRemoved
    <3> QED
      BY <2>1, <2>3, <3>1, <3>3, TheJournals, AllObjects
      DEF DeployInv, Journaled, InitialThere, ColumnThere, NothingInitial
  <2> QED
    BY <2>1, <2>2, <2>3 DEF DeployInv, Journaled
<1>13. CASE LoseTables
  BY <1>13 DEF LoseTables, DeployInv, Journaled, InitialThere, ColumnThere, NothingInitial
<1>14. CASE UNCHANGED vars
  BY <1>14, SameCatalog DEF vars
<1> QED
  BY <1>1, <1>2, <1>3, <1>4, <1>5, <1>6, <1>7, <1>8, <1>9, <1>10, <1>11, <1>12, <1>13, <1>14 DEF Next

\* The steps around the encrypted rows are a deployment's or leave the schema alone.
LEMMA SchemaSteps ==
  ASSUME [EncryptionNext]_<<vars, rowVars>> PROVE [Next]_vars
<1>1. ASSUME NEW a \in Accounts, Register(a) PROVE UNCHANGED vars
  BY <1>1 DEF Register
<1>2. ASSUME NEW a \in Accounts, SeedAccount(a) PROVE UNCHANGED vars
  BY <1>2 DEF SeedAccount
<1>3. ASSUME NEW a \in Accounts, RepairRow(a) PROVE UNCHANGED vars
  BY <1>3 DEF RepairRow
<1>4. ASSUME NEW a \in Accounts, RepairFails(a) PROVE UNCHANGED vars
  BY <1>4 DEF RepairFails
<1>5. ASSUME NEW h \in Handlers, SaveRow(h) PROVE UNCHANGED vars
  BY <1>5 DEF SaveRow
<1>6. ASSUME NEW h \in Handlers, NEW a \in Accounts, LoadRow(h, a) PROVE UNCHANGED vars
  BY <1>6 DEF LoadRow
<1>7. ASSUME StartRepair PROVE UNCHANGED vars
  BY <1>7 DEF StartRepair
<1>8. ASSUME RepairKilled PROVE UNCHANGED vars
  BY <1>8 DEF RepairKilled
<1>9. ASSUME SchemaStep PROVE Next
  BY <1>9 DEF SchemaStep
<1> QED
  BY <1>1, <1>2, <1>3, <1>4, <1>5, <1>6, <1>7, <1>8, <1>9 DEF EncryptionNext

\* So it always holds.
LEMMA DeployInvHolds == EncryptionSpec => []DeployInv
<1>1. EncryptionInit => DeployInv
  BY DeployStarts DEF EncryptionInit
<1>2. DeployInv /\ [EncryptionNext]_<<vars, rowVars>> => DeployInv'
  BY SchemaSteps, DeployStep
<1> QED
  BY <1>1, <1>2, PTL DEF EncryptionSpec

\* Unless tables were dropped behind it, the journal is right both ways, whatever the scripts
\* did, failed to do or were killed in.
THEOREM SchemaFollowsJournal == EncryptionSpec => []SchemaMatchesJournal
<1>1. DeployInv => SchemaMatchesJournal
  <2> SUFFICES ASSUME DeployInv, ~lost
               PROVE  /\ \A m \in ToSet(journal) : ObjectsOf(m) \subseteq catalog
                      /\ Initial \in ToSet(journal) \/ ObjectsOf(Initial) \intersect catalog = {}
    BY DEF SchemaMatchesJournal
  <2>1. ObjectsOf(Initial) = InitialObjects /\ ObjectsOf(ChargebackBuffer) = {BufferColumn}
    BY TheJournals DEF ObjectsOf
  <2> QED
    BY <2>1, TheJournals DEF DeployInv, Journaled, InitialThere, ColumnThere, NothingInitial
<1> QED
  BY <1>1, DeployInvHolds, PTL

\* And its youngest migration can be reverted.
THEOREM RevertIsPossible == EncryptionSpec => []RevertPossible
<1>1. DeployInv => RevertPossible
  <2> SUFFICES ASSUME DeployInv, ~lost, journal # <<>> PROVE Undo.ok
    BY DEF RevertPossible
  <2>1. InitialObjects \subseteq catalog
    BY DEF DeployInv, InitialThere
  <2>2. CASE journal = <<Initial>>
    BY <2>1, <2>2, TheJournals, InitialUndone DEF Undo, Down
  <2>3. CASE journal = Both
    BY <2>1, <2>3, TheJournals, WalletsThere, BufferRemoved DEF Undo, Down
  <2> QED
    BY <2>2, <2>3 DEF DeployInv, Journaled
<1> QED
  BY <1>1, DeployInvHolds, PTL

\* An empty journal stays empty, whatever is deployed, killed halfway or typed by an operator:
\* only a run of the migrations adds to a journal, and that one is refused.
THEOREM EmptyJournalStaysEmpty == EncryptionSpec => NeverMigratedFromScratch
<1>1. ASSUME DeployInv, [EncryptionNext]_<<vars, rowVars>>
      PROVE  [journal = <<>> => journal' = <<>>]_vars
  <2> SUFFICES ASSUME journal = <<>> PROVE journal' = <<>>
    OBVIOUS
  <2>1. ~Applicable
    BY <1>1, NothingRecorded DEF DeployInv
  <2>2. [Next]_vars
    BY <1>1, SchemaSteps
  <2> QED
    BY <2>1, <2>2
    DEF Next, vars, Deploy, ScriptMigrates, ScriptGivesUp, ScriptForces, ScriptKilled, FallBack,
        FixWallets, BootServes, BootFails, Stop, MigrationRun, MigrationRevert, LoseTables
<1> QED
  BY <1>1, DeployInvHolds, PTL DEF EncryptionSpec, NeverMigratedFromScratch

-----------------------------------------------------------------------------
(* The encrypted rows *)

Values == [text : {"own", "[DECRYPTION_ERROR]", "none"}, layers : Nat]

\* How many layers an account's text may be under.
Bound(a) == IF a \in repaired THEN 2 ELSE 1

\* What a handler or the script holds of an account, saved, keeps TextSurvives.
Savable(a, v) ==
  /\ v \in Values
  /\ a \in seeded \/ v.text = "own"
  /\ v.layers + 1 <= Bound(a)
  /\ HasRow(a)

StoredRight ==
  /\ stored \in [Accounts -> Values]
  /\ TextSurvives

LoadedRight ==
  \A h \in Handlers :
    loaded[h] = NoAccount
      \/ (loaded[h].account \in Accounts /\ Savable(loaded[h].account, loaded[h].value))

LoadedShape ==
  /\ DOMAIN loaded = Handlers
  /\ loaded = [h \in Handlers |-> loaded[h]]

RepairRight ==
  /\ DOMAIN repair \subseteq Accounts
  /\ \A a \in DOMAIN repair : Savable(a, repair[a])

TextInv == StoredRight /\ LoadedShape /\ LoadedRight /\ RepairRight

\* What the transformer makes of a value on its way out.
LEMMA FromSavable ==
  ASSUME TextInv, NEW a \in Accounts, HasRow(a)
  PROVE  Savable(a, From(stored[a]))
<1> DEFINE v == stored[a]
<1>1. v \in Values /\ v.layers <= Bound(a) /\ (a \in seeded \/ (v.text = "own" /\ v.layers >= 1))
  BY DEF TextInv, StoredRight, TextSurvives, Bound
<1>2. CASE v.layers = 0
  BY <1>1, <1>2 DEF From, Placeholder, Savable, Values, Bound
<1>3. CASE v.layers # 0
  <2>1. From(v) = [v EXCEPT !.layers = @ - 1]
    BY <1>3 DEF From
  <2> QED
    BY <1>1, <1>3, <2>1 DEF Savable, Values, Bound
<1> QED
  BY <1>2, <1>3

\* A value that is saved.
LEMMA ToSurvives ==
  ASSUME NEW v \in Values
  PROVE  /\ To(v) \in Values
         /\ To(v).text = v.text /\ To(v).layers = v.layers + 1
         /\ To(v) # NoRow
BY DEF To, Values, NoRow

\* As long as a row is there, more seeds and more repairs keep its values savable.
LEMMA StaysSavable ==
  ASSUME NEW a, NEW v, Savable(a, v), HasRow(a)', seeded \subseteq seeded',
         repaired \subseteq repaired'
  PROVE  Savable(a, v)'
<1>1. v \in Values /\ v.layers \in Nat
  BY DEF Savable, Values
<1>2. v.layers + 1 <= Bound(a)'
  BY <1>1 DEF Savable, Bound
<1> QED
  BY <1>1, <1>2 DEF Savable

LEMMA TextInit == EncryptionInit => TextInv
BY DEF EncryptionInit, TextInv, StoredRight, LoadedShape, LoadedRight, RepairRight, TextSurvives,
       HasRow, NoRow, NoRows, Values, Savable

LEMMA TextStep == TextInv /\ [EncryptionNext]_<<vars, rowVars>> => TextInv'
<1> SUFFICES ASSUME TextInv, [EncryptionNext]_<<vars, rowVars>> PROVE TextInv'
  OBVIOUS
<1> USE DEF TextInv
<1>1. ASSUME NEW a \in Accounts, Register(a) PROVE TextInv'
  <2>1. To(Own(0)) = [text |-> "own", layers |-> 1]
    BY DEF To, Own
  <2>2. /\ stored' = [stored EXCEPT ![a] = To(Own(0))] /\ ~HasRow(a)
        /\ UNCHANGED <<loaded, repair, seeded, repaired>>
    BY <1>1 DEF Register
  <2>3. StoredRight'
    BY <2>1, <2>2 DEF StoredRight, TextSurvives, HasRow, Values
  <2>4. \A b \in Accounts : HasRow(b) => HasRow(b)'
    BY <2>1, <2>2 DEF HasRow, NoRow, StoredRight
  <2> QED
    BY <2>2, <2>3, <2>4 DEF LoadedShape, LoadedRight, RepairRight, Savable, Bound
<1>2. ASSUME NEW a \in Accounts, SeedAccount(a) PROVE TextInv'
  <2>1. Own(0) \in Values /\ Own(0).layers = 0 /\ Own(0) # NoRow
    BY DEF Own, Values, NoRow
  <2>2. /\ stored' = [stored EXCEPT ![a] = Own(0)] /\ ~HasRow(a)
        /\ seeded' = seeded \union {a}
        /\ UNCHANGED <<loaded, repair, repaired>>
    BY <1>2 DEF SeedAccount
  <2>3. StoredRight'
    BY <2>1, <2>2 DEF StoredRight, TextSurvives, HasRow
  <2>4. \A b \in Accounts : HasRow(b) => HasRow(b)'
    BY <2>1, <2>2 DEF HasRow, StoredRight
  <2> QED
    BY <2>2, <2>3, <2>4 DEF LoadedShape, LoadedRight, RepairRight, Savable, Bound
<1>3. ASSUME NEW h \in Handlers, NEW a \in Accounts, LoadRow(h, a) PROVE TextInv'
  <2>1. Savable(a, From(stored[a]))
    BY <1>3, FromSavable DEF LoadRow
  <2> QED
    BY <1>3, <2>1
    DEF LoadRow, StoredRight, TextSurvives, LoadedShape, LoadedRight, RepairRight, Savable, Bound,
        HasRow
<1>4. ASSUME NEW h \in Handlers, SaveRow(h) PROVE TextInv'
  <2> DEFINE a == loaded[h].account  v == loaded[h].value
  <2>1. a \in Accounts /\ Savable(a, v)
    BY <1>4 DEF SaveRow, LoadedRight
  <2>2. UNCHANGED <<repair, seeded, repaired>> /\ loaded' = [loaded EXCEPT ![h] = NoAccount]
    BY <1>4 DEF SaveRow
  <2>3. StoredRight' /\ \A b \in Accounts : HasRow(b) => HasRow(b)'
    <3>1. CASE UNCHANGED stored
      BY <3>1, <2>2 DEF StoredRight, TextSurvives, HasRow
    <3>2. CASE stored' = [stored EXCEPT ![a] = To(v)]
      <4>1. /\ To(v) \in Values /\ To(v) # NoRow
            /\ a \in seeded \/ (To(v).text = "own" /\ To(v).layers >= 1)
            /\ To(v).layers <= IF a \in repaired THEN 2 ELSE 1
        <5>1. v \in Values /\ v.layers \in Nat
          BY <2>1 DEF Savable, Values
        <5>2. /\ To(v) \in Values /\ To(v) # NoRow
              /\ To(v).text = v.text /\ To(v).layers = v.layers + 1
          BY <5>1, ToSurvives
        <5> HIDE DEF v
        <5> QED
          BY <5>1, <5>2, <2>1 DEF Savable, Bound
      <4> HIDE DEF a, v
      <4> QED
        BY <3>2, <4>1, <2>1, <2>2 DEF StoredRight, TextSurvives, HasRow
    <3> QED
      BY <1>4, <3>1, <3>2 DEF SaveRow
  <2>4. LoadedShape' /\ LoadedRight'
    BY <2>2, <2>3 DEF LoadedShape, LoadedRight, Savable, Bound
  <2>5. RepairRight'
    BY <2>2, <2>3 DEF RepairRight, Savable, Bound
  <2> QED
    BY <2>3, <2>4, <2>5
<1>5. ASSUME StartRepair PROVE TextInv'
  <2>1. \A a \in Accounts : HasRow(a) => Savable(a, From(stored[a]))
    BY FromSavable
  <2>2. /\ repair' = [a \in {b \in Accounts : HasRow(b)} |-> From(stored[a])]
        /\ UNCHANGED <<stored, loaded, seeded, repaired>>
    BY <1>5 DEF StartRepair
  <2>3. RepairRight'
    BY <2>1, <2>2 DEF RepairRight, Savable, Bound, HasRow
  <2> QED
    BY <2>2, <2>3
    DEF StoredRight, TextSurvives, LoadedShape, LoadedRight, Savable, Bound, HasRow
<1>6. ASSUME NEW a \in Accounts, RepairRow(a) PROVE TextInv'
  <2>1. Savable(a, repair[a]) /\ a \in DOMAIN repair
    BY <1>6 DEF RepairRow, RepairRight
  <2>2. UNCHANGED <<loaded, seeded>> /\ repair' = [b \in DOMAIN repair \ {a} |-> repair[b]]
    BY <1>6 DEF RepairRow, Treated
  <2>3. /\ StoredRight' /\ repaired \subseteq repaired'
        /\ \A b \in Accounts : HasRow(b) => HasRow(b)'
    <3>1. CASE IsText(repair[a])
      <4> DEFINE w == To(To(repair[a]))
      <4>1. w \in Values /\ w.text = repair[a].text /\ w.layers = 2 /\ w # NoRow
        <5>1. repair[a] \in Values /\ repair[a].layers = 0
          BY <2>1, <3>1 DEF Savable, IsText
        <5>2. To(repair[a]) \in Values /\ To(repair[a]).text = repair[a].text
                /\ To(repair[a]).layers = 1
          BY <5>1, ToSurvives
        <5> QED
          BY <5>2, ToSurvives
      <4>2. stored' = [stored EXCEPT ![a] = w] /\ repaired' = repaired \union {a}
        BY <1>6, <3>1 DEF RepairRow
      <4> QED
        BY <4>1, <4>2, <2>1, <2>2 DEF StoredRight, TextSurvives, HasRow, Savable
    <3>2. CASE ~IsText(repair[a])
      BY <1>6, <3>2, <2>2 DEF RepairRow, StoredRight, TextSurvives, HasRow
    <3> QED
      BY <3>1, <3>2
  <2>4. \A b \in Accounts, v \in Values : Savable(b, v) => Savable(b, v)'
    BY <2>2, <2>3, StaysSavable DEF Savable
  <2>5. LoadedShape' /\ LoadedRight'
    BY <2>2, <2>4 DEF LoadedShape, LoadedRight, Savable
  <2>6. RepairRight'
    BY <2>2, <2>4 DEF RepairRight, Savable
  <2> QED
    BY <2>3, <2>5, <2>6
<1>7. ASSUME NEW a \in Accounts, RepairFails(a) PROVE TextInv'
  BY <1>7
  DEF RepairFails, Treated, StoredRight, TextSurvives, LoadedShape, LoadedRight, RepairRight,
      Savable, Bound, HasRow
<1>8. ASSUME RepairKilled PROVE TextInv'
  BY <1>8
  DEF RepairKilled, NoRows, StoredRight, TextSurvives, LoadedShape, LoadedRight, RepairRight,
      Savable, Bound, HasRow
<1>9. ASSUME SchemaStep PROVE TextInv'
  <2>1. CASE TableObject("users") \in catalog'
    <3>1. /\ loaded' = loaded \/ loaded' = [h \in Handlers |-> NoAccount]
          /\ UNCHANGED <<stored, repair, seeded, repaired>>
      BY <1>9, <2>1 DEF SchemaStep
    <3> QED
      BY <3>1 DEF StoredRight, TextSurvives, LoadedShape, LoadedRight, RepairRight, Savable,
                  Bound, HasRow
  <2>2. CASE TableObject("users") \notin catalog'
    <3>1. /\ stored' = [a \in Accounts |-> NoRow]
          /\ loaded' = [h \in Handlers |-> NoAccount] /\ repair' = NoRows
      BY <1>9, <2>2 DEF SchemaStep
    <3> QED
      BY <3>1 DEF StoredRight, TextSurvives, LoadedShape, LoadedRight, RepairRight, HasRow,
                  NoRow, NoRows, Values
  <2> QED
    BY <2>1, <2>2
<1>10. ASSUME UNCHANGED <<vars, rowVars>> PROVE TextInv'
  BY <1>10 DEF rowVars, StoredRight, TextSurvives, LoadedShape, LoadedRight, RepairRight,
               Savable, Bound, HasRow
<1> QED
  BY <1>1, <1>2, <1>3, <1>4, <1>5, <1>6, <1>7, <1>8, <1>9, <1>10 DEF EncryptionNext

\* A registered account's text survives every deployment, every save and every repair, for
\* any number of accounts and handlers.
THEOREM TextIsSafe == EncryptionSpec => []TextSurvives
<1>1. TextInv => TextSurvives
  BY DEF TextInv, StoredRight
<1> QED
  BY <1>1, TextInit, TextStep, PTL DEF EncryptionSpec
===============================================================================
