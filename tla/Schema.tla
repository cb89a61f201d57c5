------------------------------- MODULE Schema -------------------------------
(***************************************************************************)
(* The database schema as PostgreSQL's catalogue sees it, and the          *)
(* statements with which the migrations change it.  An object of the       *)
(* catalogue is a tuple <<kind, name...>>:                                 *)
(*   <<"type", t>>, <<"table", t>>, <<"index", i, table>>,                 *)
(*   <<"fk", table, column, referenced table>>, <<"column", table, c>>,    *)
(*   <<"makeshift", t>> for a table that goes by the name t but has not    *)
(*   the columns of the migration's.                                       *)
(* Columns are listed only where a statement adds or drops one by itself.  *)
(***************************************************************************)
EXTENDS Naturals, SequencesExt

(* The enum types, in the order of their CREATE TYPE. *)
EnumTypes ==
  <<"users_role", "users_status", "users_mfamethod",
    "payments_status", "payments_method", "payments_threedsstatus",
    "deposits_status", "deposits_method", "withdrawals_status", "withdrawals_method",
    "risk_assessments_risklevel", "escrows_status", "escrow_milestones_status",
    "disputes_status", "disputes_resolution", "dispute_evidence_type",
    "delivery_proofs_type", "delivery_proofs_status", "transaction_logs_type",
    "notifications_type", "notifications_channel",
    "notification_preferences_type", "notification_preferences_channel">>

(* The tables, in the order of their CREATE TABLE, each with the enum types *)
(* of its columns.                                                          *)
PaymentTables ==
  <<<<"users", {"users_role", "users_status", "users_mfamethod"}>>,
    <<"wallets", {}>>,
    <<"payments", {"payments_status", "payments_method", "payments_threedsstatus"}>>,
    <<"deposits", {"deposits_status", "deposits_method"}>>,
    <<"withdrawals", {"withdrawals_status", "withdrawals_method"}>>,
    <<"risk_assessments", {"risk_assessments_risklevel"}>>>>

EscrowTables ==
  <<<<"escrows", {"escrows_status"}>>,
    <<"escrow_milestones", {"escrow_milestones_status"}>>,
    <<"disputes", {"disputes_status", "disputes_resolution"}>>,
    <<"dispute_evidence", {"dispute_evidence_type"}>>,
    <<"dispute_messages", {}>>,
    <<"delivery_proofs", {"delivery_proofs_type", "delivery_proofs_status"}>>,
    <<"transaction_logs", {"transaction_logs_type"}>>>>

MessageTables ==
  <<<<"magic_links", {}>>,
    <<"notifications", {"notifications_type", "notifications_channel"}>>,
    <<"notification_preferences",
      {"notification_preferences_type", "notification_preferences_channel"}>>>>

Tables == PaymentTables \o EscrowTables \o MessageTables

Indexes ==
  <<<<"users_alias", "users">>, <<"escrows_buyer", "escrows">>,
    <<"escrows_seller", "escrows">>, <<"escrows_status", "escrows">>,
    <<"escrow_milestones_escrow", "escrow_milestones">>,
    <<"disputes_escrow_id", "disputes">>, <<"disputes_created_by", "disputes">>,
    <<"disputes_status", "disputes">>,
    <<"dispute_evidence_dispute_id", "dispute_evidence">>,
    <<"dispute_messages_dispute_id", "dispute_messages">>,
    <<"delivery_proofs_escrow", "delivery_proofs">>,
    <<"transaction_logs_user", "transaction_logs">>,
    <<"transaction_logs_entity", "transaction_logs">>,
    <<"transaction_logs_type", "transaction_logs">>,
    <<"notifications_userId", "notifications">>,
    <<"notification_preferences_userId", "notification_preferences">>>>

ForeignKeys ==
  <<<<"wallets", "userId", "users">>,
    <<"payments", "fromUserId", "users">>, <<"payments", "toUserId", "users">>,
    <<"deposits", "userId", "users">>, <<"withdrawals", "userId", "users">>,
    <<"magic_links", "userId", "users">>,
    <<"risk_assessments", "paymentId", "payments">>,
    <<"risk_assessments", "userId", "users">>,
    <<"risk_assessments", "reviewedByUserId", "users">>,
    <<"escrows", "buyerId", "users">>, <<"escrows", "sellerId", "users">>,
    <<"escrows", "paymentId", "payments">>,
    <<"escrow_milestones", "escrowId", "escrows">>,
    <<"disputes", "escrowId", "escrows">>, <<"disputes", "createdById", "users">>,
    <<"disputes", "reviewedById", "users">>, <<"disputes", "paymentId", "payments">>,
    <<"dispute_evidence", "disputeId", "disputes">>,
    <<"dispute_evidence", "submittedById", "users">>,
    <<"dispute_messages", "disputeId", "disputes">>,
    <<"dispute_messages", "senderId", "users">>,
    <<"delivery_proofs", "escrowId", "escrows">>,
    <<"delivery_proofs", "submittedById", "users">>,
    <<"delivery_proofs", "reviewedById", "users">>,
    <<"transaction_logs", "userId", "users">>,
    <<"notifications", "userId", "users">>,
    <<"notification_preferences", "userId", "users">>>>

TypeObject(t) == <<"type", t>>
TableObject(t) == <<"table", t>>
IndexObject(i) == <<"index", i[1], i[2]>>
ForeignKeyObject(f) == <<"fk", f[1], f[2], f[3]>>
BufferColumn == <<"column", "wallets", "chargebackBuffer">>

TypeObjects == [i \in DOMAIN EnumTypes |-> TypeObject(EnumTypes[i])]
TableObjects == [i \in DOMAIN Tables |-> TableObject(Tables[i][1])]
IndexObjects == [i \in DOMAIN Indexes |-> IndexObject(Indexes[i])]
ForeignKeyObjects == [i \in DOMAIN ForeignKeys |-> ForeignKeyObject(ForeignKeys[i])]

InitialObjects ==
  ToSet(TypeObjects) \union ToSet(TableObjects) \union ToSet(IndexObjects)
    \union ToSet(ForeignKeyObjects)

Objects == InitialObjects \union {BufferColumn}

-----------------------------------------------------------------------------
(* What PostgreSQL requires of a statement.                                 *)

(* The enum types of a table's columns. *)
TypesUsed(t) == UNION {Tables[i][2] : i \in {j \in DOMAIN Tables : Tables[j][1] = t}}

(* What must exist before an object can be created. *)
Requires ==
  [o \in Objects |->
    CASE o[1] = "table" -> {TypeObject(t) : t \in TypesUsed(o[2])}
      [] o[1] = "index" -> {TableObject(o[3])}
      [] o[1] = "fk" -> {TableObject(o[2]), TableObject(o[4])}
      [] o[1] = "column" -> {TableObject(o[2])}
      [] OTHER -> {}]

(* What goes with a table that is dropped: its indexes, columns and its own *)
(* foreign keys.                                                            *)
GoesWith ==
  [o \in Objects |->
    {x \in Objects : \/ x[1] = "index" /\ o = TableObject(x[3])
                     \/ x[1] \in {"fk", "column"} /\ o = TableObject(x[2])}]

(* What keeps an object from being dropped: another table's foreign key to  *)
(* it, a table with a column of the type.                                   *)
Blocks == [o \in Objects |-> {x \in Objects \ GoesWith[o] : o \in Requires[x]}]

(* The objects whose name an object takes. *)
Namesakes(o) ==
  IF o[1] \in {"table", "makeshift"} THEN {<<"table", o[2]>>, <<"makeshift", o[2]>>} ELSE {o}

Needs(o) == IF o \in Objects THEN Requires[o] ELSE {}

(* A block of statements that do the same with one object after the other;  *)
(* no object of a block depends on another.                                 *)
Create(objects) == [does |-> "create", objects |-> objects]
Drop(objects) == [does |-> "drop", objects |-> Reverse(objects)]
AddIfMissing(objects) == [does |-> "add", objects |-> objects]
DropIfThere(objects) == [does |-> "remove", objects |-> objects]

Accepted(does, o, catalog) ==
  CASE does = "create" -> Namesakes(o) \intersect catalog = {} /\ Needs(o) \subseteq catalog
    [] does = "drop" -> o \in catalog /\ Blocks[o] \intersect catalog = {}
    [] OTHER -> Needs(o) \subseteq catalog

(* The statements of a block that are executed: those before the first one  *)
(* refused.                                                                 *)
Executed(b, catalog) ==
  LET refused == {i \in DOMAIN b.objects : ~Accepted(b.does, b.objects[i], catalog)}
  IN {i \in DOMAIN b.objects : \A j \in refused : i < j}

After(b, catalog) ==
  LET done == {b.objects[i] : i \in Executed(b, catalog)}
  IN IF b.does \in {"create", "add"}
       THEN catalog \union done
       ELSE catalog \ (done \union UNION {GoesWith[o] : o \in done})

(* Blocks on one connection: they end at the first statement refused. *)
Execute(blocks, catalog) ==
  LET run[n \in 0 .. Len(blocks)] ==
        IF n = 0 THEN [ok |-> TRUE, catalog |-> catalog]
        ELSE IF run[n - 1].ok
          THEN [ok |-> Executed(blocks[n], run[n - 1].catalog) = DOMAIN blocks[n].objects,
                catalog |-> After(blocks[n], run[n - 1].catalog)]
          ELSE run[n - 1]
  IN run[Len(blocks)]

-----------------------------------------------------------------------------
(* The migrations in src/migrations.                                        *)

Initial == "InitialMigration1743008348720"
ChargebackBuffer == "AddChargebackBufferColumn1712575608000"

InitialUp ==
  <<Create(TypeObjects), Create(TableObjects), Create(IndexObjects), Create(ForeignKeyObjects)>>

DropForeignKeys == Drop(ForeignKeyObjects)
DropIndexes == Drop(IndexObjects)
DropTables == Drop(TableObjects)
(* Mutant: the first type is forgotten. *)
DropTypes_ForgetsOne == Drop(Tail(TypeObjects))
DropTypes == Drop(TypeObjects)

(* Mutant: in the order in which up() creates them. *)
InitialDown_TypesFirst == <<DropTypes, DropForeignKeys, DropIndexes, DropTables>>
InitialDown == <<DropForeignKeys, DropIndexes, DropTables, DropTypes>>

ChargebackBufferUp == <<AddIfMissing(<<BufferColumn>>)>>
ChargebackBufferDown == <<DropIfThere(<<BufferColumn>>)>>

(* Mutant: in the order that would work. *)
ByTimestamp_InitialFirst == <<Initial, ChargebackBuffer>>
(* TypeORM runs pending migrations in the order of their timestamps. *)
ByTimestamp == <<ChargebackBuffer, Initial>>

Up(m) == IF m = Initial THEN InitialUp ELSE ChargebackBufferUp
Down(m) == IF m = Initial THEN InitialDown ELSE ChargebackBufferDown

ObjectsOf(m) == IF m = Initial THEN InitialObjects ELSE {BufferColumn}

(* The tables manual-schema-creation.js creates: other columns, and no types. *)
ManualUp ==
  <<Create([i \in 1 .. 4 |->
             <<"makeshift", <<"users", "magic_links", "creators", "fans">>[i]>>])>>
=============================================================================
