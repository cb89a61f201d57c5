----------------------------- MODULE Encryption -----------------------------
(***************************************************************************)
(* The encrypted columns of the users table, on a database that is         *)
(* deployed to, migrated and reverted meanwhile: the column transformer,   *)
(* the handlers that save a row as they loaded it, the SQL that inserts    *)
(* accounts past the transformer, and scripts/fix-encrypted-data.ts.       *)
(* The columns of a row are treated alike, so a row has one value: a text  *)
(* under some layers of encryption.                                        *)
(***************************************************************************)
EXTENDS Deployment

CONSTANTS
  Accounts,      \* rows of the users table
  Handlers       \* requests that load a row and save it

VARIABLES
  stored,        \* the rows' values in the database
  loaded,        \* the row each handler has loaded
  repair,        \* the values the repair script has loaded and not yet treated
  seeded,        \* accounts inserted past the transformer (history)
  repaired       \* accounts the repair script has updated (history)

rowVars == <<stored, loaded, repair, seeded, repaired>>

Own(layers) == [text |-> "own", layers |-> layers]
Placeholder == [text |-> "[DECRYPTION_ERROR]", layers |-> 0]
NoRow == [text |-> "none", layers |-> 0]
NoAccount == [account |-> "none"]
NoRows == [a \in {} |-> NoRow]

HasRow(a) == stored[a] # NoRow
UsersTable == TableObject("users") \in catalog

EncryptionInit ==
  /\ Init
  /\ stored = [a \in Accounts |-> NoRow]
  /\ loaded = [h \in Handlers |-> NoAccount]
  /\ repair = NoRows
  /\ seeded = {} /\ repaired = {}

-----------------------------------------------------------------------------
(* The transformer.  What is no ciphertext comes out as a placeholder; what  *)
(* is one twice comes out as an object, the inner one parsed, and going back  *)
(* it is turned into text first.  Every encryption draws a new nonce, so a    *)
(* saved row's columns always differ from the database's and are written.     *)

From(value) == IF value.layers = 0 THEN Placeholder ELSE [value EXCEPT !.layers = @ - 1]
To(value) == [value EXCEPT !.layers = @ + 1]
IsText(value) == value.layers = 0

-----------------------------------------------------------------------------
(* Accounts *)

Register(a) ==
  /\ phase = "serving" /\ UsersTable
  /\ ~HasRow(a)
  /\ stored' = [stored EXCEPT ![a] = To(Own(0))]
  /\ UNCHANGED <<loaded, repair, seeded, repaired, vars>>

(* setup-dev-accounts.js, insert-test-user.sql *)
SeedAccount(a) ==
  /\ UsersTable
  /\ ~HasRow(a)
  /\ stored' = [stored EXCEPT ![a] = Own(0)]
  /\ seeded' = seeded \union {a}
  /\ UNCHANGED <<loaded, repair, repaired, vars>>

LoadRow(h, a) ==
  /\ phase = "serving" /\ UsersTable
  /\ loaded[h] = NoAccount
  /\ HasRow(a)
  /\ loaded' = [loaded EXCEPT ![h] = [account |-> a, value |-> From(stored[a])]]
  /\ UNCHANGED <<stored, repair, seeded, repaired, vars>>

(* Or the save fails. *)
SaveRow(h) ==
  /\ loaded[h] # NoAccount
  /\ \/ stored' = [stored EXCEPT ![loaded[h].account] = To(loaded[h].value)]
     \/ UNCHANGED stored
  /\ loaded' = [loaded EXCEPT ![h] = NoAccount]
  /\ UNCHANGED <<repair, seeded, repaired, vars>>

-----------------------------------------------------------------------------
(* fix-encrypted-data.ts boots the application's modules, which migrates     *)
(* nothing, loads all rows through the transformer and tries to decrypt what  *)
(* came out of it.  That fails for a text, which is encrypted and goes        *)
(* through the transformer once more; an object can be neither decrypted nor  *)
(* encrypted, and is skipped.                                                 *)

StartRepair ==
  /\ repair = NoRows
  /\ UsersTable
  /\ repair' = [a \in {b \in Accounts : HasRow(b)} |-> From(stored[a])]
  /\ UNCHANGED <<stored, loaded, seeded, repaired, vars>>

Treated(a) == repair' = [b \in DOMAIN repair \ {a} |-> repair[b]]

(* Mutant: an object is turned into text and encrypted like one. *)
RepairRow_Objects(a) ==
  /\ a \in DOMAIN repair
  /\ Treated(a)
  /\ stored' = [stored EXCEPT ![a] = To(To(repair[a]))]
  /\ repaired' = repaired \union {a}
  /\ UNCHANGED <<loaded, seeded, vars>>

RepairRow(a) ==
  /\ a \in DOMAIN repair
  /\ Treated(a)
  /\ IF IsText(repair[a])
       THEN /\ stored' = [stored EXCEPT ![a] = To(To(repair[a]))]
            /\ repaired' = repaired \union {a}
       ELSE UNCHANGED <<stored, repaired>>
  /\ UNCHANGED <<loaded, seeded, vars>>

(* An update fails, and its error is caught. *)
RepairFails(a) ==
  /\ a \in DOMAIN repair
  /\ Treated(a)
  /\ UNCHANGED <<stored, loaded, seeded, repaired, vars>>

RepairKilled ==
  /\ repair # NoRows
  /\ repair' = NoRows
  /\ UNCHANGED <<stored, loaded, seeded, repaired, vars>>

-----------------------------------------------------------------------------
(* A deployment's or an operator's step.  The rows go with their table, and  *)
(* a row that was loaded from it is not found again; requests end with the    *)
(* application.                                                               *)
SchemaStep ==
  /\ Next
  /\ IF TableObject("users") \in catalog'
       THEN /\ loaded' = IF phase' = "serving" THEN loaded ELSE [h \in Handlers |-> NoAccount]
            /\ UNCHANGED <<stored, repair, seeded, repaired>>
       ELSE /\ stored' = [a \in Accounts |-> NoRow]
            /\ loaded' = [h \in Handlers |-> NoAccount]
            /\ repair' = NoRows
            /\ seeded' = {} /\ repaired' = {}

EncryptionNext ==
  \/ \E a \in Accounts :
       Register(a) \/ SeedAccount(a) \/ RepairRow(a) \/ RepairFails(a)
  \/ \E h \in Handlers : SaveRow(h) \/ \E a \in Accounts : LoadRow(h, a)
  \/ StartRepair \/ RepairKilled
  \/ SchemaStep

EncryptionSpec == EncryptionInit /\ [][EncryptionNext]_<<vars, rowVars>>

-----------------------------------------------------------------------------
(* A registered account's text survives: whatever handlers save over whatever *)
(* the repair script has written, and however often it is run and killed, the  *)
(* text is neither in the clear nor under more than two layers, and under two  *)
(* only after a repair.  Only a seeded account may show its text, or lose it    *)
(* to the placeholder.                                                          *)
TextSurvives ==
  \A a \in Accounts :
    HasRow(a) =>
      /\ a \in seeded \/ (stored[a].text = "own" /\ stored[a].layers >= 1)
      /\ stored[a].layers <= IF a \in repaired THEN 2 ELSE 1
=============================================================================
