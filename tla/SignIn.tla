-------------------------------- MODULE SignIn --------------------------------
(***************************************************************************)
(* Accounts and the handlers that save their rows: AuthService with its    *)
(* controller and MagicLinkService, AliasService, and the user management  *)
(* of AdminService.  Each step is what happens between two awaits.         *)
(*                                                                         *)
(* Every login creates an account: the address is compared as ciphertext   *)
(* under a fresh nonce (EncryptionService.encrypt), so findOne finds none. *)
(* An account has therefore one link, and the earlier links sendMagicLink  *)
(* deletes do not exist.  Deleting a row and its expiry have one effect on *)
(* a link: it is "gone".                                                   *)
(*                                                                         *)
(* Left out: roles and profiles, which no operation here reads, the debug  *)
(* endpoints that look a user up by address, and the log rows of           *)
(* AdminService, whose failure does not undo the update before it.         *)
(***************************************************************************)
EXTENDS Integers

CONSTANTS Accounts,   \* rows of users that may come to exist
          Aliases,    \* names generateUniqueAlias may draw
          Balances,   \* bound: what a wallet may hold
          Workers,    \* handlers that may run at the same time
          None        \* no wallet, alias, account

ASSUME SignInAssumption ==
  /\ Balances \subseteq Nat /\ 0 \in Balances
  /\ None \notin Accounts /\ None \notin Aliases /\ None \notin Balances

VARIABLES user,      \* user[u]: status, emailVerified and alias of the row
          wallet,    \* wallet[u]: the balance, or None
          link,      \* link[u]: the magic link of u
          recent,    \* verificationAttempts of the last DEBOUNCE_TIME
          handler,   \* handler[w]: where w is, and what it has loaded
          consumed,  \* history: the accounts whose link has been marked used
          reused,    \* history: those whose link was marked used a second time
          outlived   \* history: those with a verification that outlived its attempt's record

vars == <<user, wallet, link, recent, handler, consumed, reused, outlived>>
links == <<link, recent, consumed, reused, outlived>>

UserStatus == {"PENDING", "ACTIVE", "SUSPENDED", "DELETED"}
Absent == [status |-> "ABSENT", verified |-> FALSE, alias |-> None]
NewUser == [Absent EXCEPT !.status = "PENDING"]
Exists(row) == row.status # "ABSENT"

Holding(place, u, row, balance, alias) ==
  [at |-> place, on |-> u, row |-> row, balance |-> balance, alias |-> alias]
At(place, u) == Holding(place, u, Absent, None, None)
Idle == At("idle", None)

IdleWorker(w) == handler[w] = Idle
Becomes(w, h) == handler' = [handler EXCEPT ![w] = h]

\* The unique index on users.alias.
Free(alias, u) == alias = None \/ \A v \in Accounts \ {u} : user[v].alias # alias

Init ==
  /\ user = [u \in Accounts |-> Absent]
  /\ wallet = [u \in Accounts |-> None]
  /\ link = [u \in Accounts |-> "none"]
  /\ recent = {}
  /\ handler = [w \in Workers |-> Idle]
  /\ consumed = {} /\ reused = {} /\ outlived = {}

------------------------------------------------------------------------------
(* Requesting a link: login saves the user, the wallet and the link.       *)

\* Mutant: the wallet is left to whoever needs one.
Login_NoWallet(w, u) ==
  /\ IdleWorker(w)
  /\ ~Exists(user[u])
  /\ user' = [user EXCEPT ![u] = NewUser]
  /\ Becomes(w, At("insertLink", u))
  /\ UNCHANGED <<wallet, links>>

Login(w, u) ==
  /\ IdleWorker(w)
  /\ ~Exists(user[u])
  /\ user' = [user EXCEPT ![u] = NewUser]
  /\ Becomes(w, At("saveWallet", u))
  /\ UNCHANGED <<wallet, links>>

SaveWallet(w) ==
  LET u == handler[w].on IN
  /\ handler[w].at = "saveWallet"
  /\ wallet' = [wallet EXCEPT ![u] = 0]
  /\ Becomes(w, At("insertLink", u))
  /\ UNCHANGED <<user, links>>

\* The mail, sent or not, changes no row.
InsertLink(w) ==
  LET u == handler[w].on IN
  /\ handler[w].at = "insertLink"
  /\ link' = [link EXCEPT ![u] = "unused"]
  /\ Becomes(w, Idle)
  /\ UNCHANGED <<user, wallet, recent, consumed, reused, outlived>>

------------------------------------------------------------------------------
(* Verifying a link.                                                       *)

\* Mutant: the attempt is not recorded.
Verify_NotRecorded(w, u) ==
  /\ IdleWorker(w)
  /\ link[u] # "none"
  /\ u \notin recent
  /\ Becomes(w, At("loadLink", u))
  /\ UNCHANGED <<user, wallet, links>>

\* The controller turns away a second attempt within DEBOUNCE_TIME.
Verify(w, u) ==
  /\ IdleWorker(w)
  /\ link[u] # "none"
  /\ u \notin recent
  /\ recent' = recent \cup {u}
  /\ Becomes(w, At("loadLink", u))
  /\ UNCHANGED <<user, wallet, link, consumed, reused, outlived>>

\* verifyToken's SELECT takes no lock.
LoadLink(w) ==
  LET u == handler[w].on IN
  /\ handler[w].at = "loadLink"
  /\ Becomes(w, IF link[u] = "unused" THEN At("markUsed", u) ELSE Idle)
  /\ UNCHANGED <<user, wallet, links>>

\* UPDATE and COMMIT; the UPDATE does not ask again whether the link is unused, or there.
MarkUsed(w) ==
  LET u == handler[w].on IN
  /\ handler[w].at = "markUsed"
  /\ link' = [link EXCEPT ![u] = IF @ = "unused" THEN "used" ELSE @]
  /\ consumed' = consumed \cup {u}
  /\ reused' = IF u \in consumed THEN reused \cup {u} ELSE reused
  /\ Becomes(w, At("loadUser", u))
  /\ UNCHANGED <<user, wallet, recent, outlived>>

LoadUser(w) ==
  LET u == handler[w].on IN
  /\ handler[w].at = "loadUser"
  /\ Becomes(w, Holding("saveUser", u, user[u], wallet[u], None))
  /\ UNCHANGED <<user, wallet, links>>

\* Mutant: whatever the status was, the account becomes active.
Verified_AnyStatus(row) == [row EXCEPT !.status = "ACTIVE", !.verified = TRUE]

Verified(row) ==
  [row EXCEPT !.status = IF @ = "PENDING" THEN "ACTIVE" ELSE @, !.verified = TRUE]

\* save() writes every column that differs from what was loaded, those of the wallet too
\* (cascade); then the controller forgets the attempt.
SaveUser(w) ==
  LET u == handler[w].on IN
  /\ handler[w].at = "saveUser"
  /\ Free(handler[w].row.alias, u)
  /\ user' = [user EXCEPT ![u] = Verified(handler[w].row)]
  /\ wallet' = [wallet EXCEPT ![u] = handler[w].balance]
  /\ recent' = recent \ {u}
  /\ Becomes(w, Idle)
  /\ UNCHANGED <<link, consumed, reused, outlived>>

Verifying == {"loadLink", "markUsed", "loadUser", "saveUser"}
InFlight(w, u) == handler[w].on = u /\ handler[w].at \in Verifying

\* DEBOUNCE_TIME has passed since the attempt.
Forget(u) ==
  /\ u \in recent
  /\ recent' = recent \ {u}
  /\ outlived' = IF \E w \in Workers : InFlight(w, u) THEN outlived \cup {u} ELSE outlived
  /\ UNCHANGED <<user, wallet, link, handler, consumed, reused>>

------------------------------------------------------------------------------
(* What else happens to links.                                             *)
Discard(those) ==
  /\ link' = [u \in Accounts |-> IF u \in those THEN "gone" ELSE link[u]]
  /\ UNCHANGED <<user, wallet, recent, handler, consumed, reused, outlived>>

Expire(u) == link[u] \in {"unused", "used"} /\ Discard({u})
CleanupTokens == Discard({u \in Accounts : link[u] = "used"})
ResetAllTokens == Discard({u \in Accounts : link[u] # "none"})

\* Whoever resets a link's use wants it to work once more.
ResetTokenUsage(u) ==
  /\ link[u] = "used"
  /\ link' = [link EXCEPT ![u] = "unused"]
  /\ consumed' = consumed \ {u}
  /\ UNCHANGED <<user, wallet, recent, handler, reused, outlived>>

------------------------------------------------------------------------------
(* The other savers of user and wallet rows.                               *)

\* generateUniqueAlias: a name that is free when it is looked up.
LoadToAlias(w, u, alias) ==
  /\ IdleWorker(w)
  /\ Exists(user[u]) /\ user[u].alias = None
  /\ Free(alias, u)
  /\ Becomes(w, Holding("saveAlias", u, user[u], None, alias))
  /\ UNCHANGED <<user, wallet, links>>

SaveAlias(w) ==
  LET u == handler[w].on IN
  /\ handler[w].at = "saveAlias"
  /\ Free(handler[w].alias, u)
  /\ user' = [user EXCEPT ![u] = [handler[w].row EXCEPT !.alias = handler[w].alias]]
  /\ Becomes(w, Idle)
  /\ UNCHANGED <<wallet, links>>

UpdateUserStatus(u, status) ==
  /\ Exists(user[u])
  /\ user' = [user EXCEPT ![u].status = status]
  /\ UNCHANGED <<wallet, handler, links>>

\* Mutant: nobody looks whether the account exists.
LoadToFlag_NoCheck(w, u) ==
  /\ IdleWorker(w)
  /\ Becomes(w, Holding("saveFlag", u, user[u], None, None))
  /\ UNCHANGED <<user, wallet, links>>

LoadToFlag(w, u) ==
  /\ IdleWorker(w)
  /\ Exists(user[u])
  /\ Becomes(w, Holding("saveFlag", u, user[u], None, None))
  /\ UNCHANGED <<user, wallet, links>>

\* flagUser lifts the flag it found, or else suspends.
SaveFlag(w) ==
  /\ handler[w].at = "saveFlag"
  /\ user' = [user EXCEPT ![handler[w].on].status =
                IF handler[w].row.status = "SUSPENDED" THEN "ACTIVE" ELSE "SUSPENDED"]
  /\ Becomes(w, Idle)
  /\ UNCHANGED <<wallet, links>>

\* A payment, an escrow: another service has saved the balance.
MoveMoney(u, balance) ==
  /\ wallet[u] \notin {None, balance}
  /\ wallet' = [wallet EXCEPT ![u] = balance]
  /\ UNCHANGED <<user, handler, links>>

\* A rejected statement, a lost connection: the handler ends where it is.
Fail(w) ==
  /\ ~IdleWorker(w)
  /\ Becomes(w, Idle)
  /\ UNCHANGED <<user, wallet, links>>

Restart ==
  /\ handler' = [w \in Workers |-> Idle]
  /\ recent' = {}
  /\ UNCHANGED <<user, wallet, link, consumed, reused, outlived>>

------------------------------------------------------------------------------
Handle(w) ==
  \/ \E u \in Accounts : Login(w, u) \/ Verify(w, u) \/ LoadToFlag(w, u)
  \/ \E u \in Accounts, alias \in Aliases : LoadToAlias(w, u, alias)
  \/ SaveWallet(w) \/ InsertLink(w)
  \/ LoadLink(w) \/ MarkUsed(w) \/ LoadUser(w) \/ SaveUser(w)
  \/ SaveAlias(w) \/ SaveFlag(w)
  \/ Fail(w)

Others ==
  \/ \E u \in Accounts : Forget(u) \/ Expire(u) \/ ResetTokenUsage(u)
  \/ \E u \in Accounts, status \in UserStatus : UpdateUserStatus(u, status)
  \/ \E u \in Accounts, balance \in Balances : MoveMoney(u, balance)
  \/ CleanupTokens \/ ResetAllTokens \/ Restart

Next == (\E w \in Workers : Handle(w)) \/ Others

Spec == Init /\ [][Next]_vars

------------------------------------------------------------------------------
(* Properties.                                                             *)
UserRows == [status : UserStatus \cup {"ABSENT"}, verified : BOOLEAN, alias : Aliases \cup {None}]

Handlers ==
  [at : {"idle", "saveWallet", "insertLink", "saveAlias", "saveFlag"} \cup Verifying,
   on : Accounts \cup {None}, row : UserRows, balance : Balances \cup {None},
   alias : Aliases \cup {None}]

HandlerOK(h) ==
  /\ h.at = "idle" => h = Idle
  /\ h.at # "idle" => h.on \in Accounts
  /\ h.at \in {"saveUser", "saveAlias", "saveFlag"} => Exists(h.row)

\* Rows are well formed, handlers save rows of existing accounts, and no two accounts share an
\* alias, although names are looked up in one statement, saved in another, and written back by
\* handlers that loaded them earlier.
TypeOK ==
  /\ user \in [Accounts -> UserRows]
  /\ \A u, v \in Accounts : user[u].alias = user[v].alias => u = v \/ user[u].alias = None
  /\ wallet \in [Accounts -> Balances \cup {None}]
  /\ link \in [Accounts -> {"none", "unused", "used", "gone"}]
  /\ handler \in [Workers -> Handlers]
  /\ \A w \in Workers : HandlerOK(handler[w])
  /\ recent \subseteq Accounts /\ consumed \subseteq Accounts
  /\ reused \subseteq Accounts /\ outlived \subseteq Accounts

\* A link signs in once, although verifyToken reads it without a lock: the controller's memory
\* of attempts keeps two verifications of it apart, unless one takes longer than that memory
\* (auth.controller.ts:70) or somebody resets the link's use.
LinkSignsInOnce == reused \subseteq outlived

\* Whoever can follow a link has a wallet, although login saves user, wallet and link one by
\* one and may be cut short anywhere.
LinkedAccountsHaveWallets ==
  \A u \in Accounts : link[u] # "none" => Exists(user[u]) /\ wallet[u] # None

\* A suspended or deleted account is let in again by an administrator only, or by a handler
\* that loaded its row before: signing in after the suspension does not lift it.
Blocked == {"SUSPENDED", "DELETED"}
UnblockedOnlyByStaleRow ==
  [][\A u \in Accounts :
       user[u].status \in Blocked /\ user'[u].status \notin Blocked =>
         \/ UpdateUserStatus(u, user'[u].status)
         \/ \E w \in Workers : SaveFlag(w)
         \/ \E w \in Workers : /\ handler[w].on = u /\ handler'[w] = Idle
                               /\ handler[w].row.status \notin Blocked]_vars
=============================================================================
