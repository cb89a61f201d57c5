----------------------------- MODULE SignInProofs -----------------------------
(***************************************************************************)
(* What holds of SignIn for any number of accounts, workers and names.     *)
(***************************************************************************)
EXTENDS SignIn, TLAPS

\* The conjuncts of TypeOK that an action can disturb one by one.
HandlersOK ==
  /\ handler \in [Workers -> Handlers]
  /\ \A w \in Workers : HandlerOK(handler[w])
UsersOK ==
  /\ user \in [Accounts -> UserRows]
  /\ \A u, v \in Accounts : user[u].alias = user[v].alias => u = v \/ user[u].alias = None
WalletsOK == wallet \in [Accounts -> Balances \cup {None}]
LinksOK ==
  /\ link \in [Accounts -> {"none", "unused", "used", "gone"}]
  /\ recent \subseteq Accounts /\ consumed \subseteq Accounts
  /\ reused \subseteq Accounts /\ outlived \subseteq Accounts

\* What a handler relies on: the account it is about, its wallet once that has been saved, and
\* its link once that has been sent.
Founded(h) ==
  /\ h.at # "idle" => Exists(user[h.on])
  /\ h.at \in Verifying \cup {"insertLink"} => wallet[h.on] # None
  /\ h.at \in Verifying => link[h.on] # "none"
  /\ h.at = "saveUser" => h.balance # None

HandlersFounded == \A w \in Workers : Founded(handler[w])

\* TypeOK is not inductive: that handlers save rows of existing accounts needs the rest.
RowInv == TypeOK /\ LinkedAccountsHaveWallets /\ HandlersFounded

LEMMA TypeParts == TypeOK <=> HandlersOK /\ UsersOK /\ WalletsOK /\ LinksOK
BY DEF TypeOK, HandlersOK, UsersOK, WalletsOK, LinksOK

------------------------------------------------------------------------------
(* Types.                                                                  *)
LEMMA AbsentIsRow == Absent \in UserRows /\ Idle \in Handlers /\ HandlerOK(Idle)
BY DEF Absent, UserRows, Idle, At, Holding, Handlers, HandlerOK, Exists, Verifying

\* A handler that has loaded nothing yet.
LEMMA AtIsHandler ==
  ASSUME NEW u \in Accounts,
         NEW place \in {"saveWallet", "insertLink", "loadLink", "markUsed", "loadUser"}
  PROVE  At(place, u) \in Handlers /\ HandlerOK(At(place, u))
BY AbsentIsRow DEF At, Holding, Handlers, HandlerOK, Verifying

\* A handler that has loaded the row of an account.
LEMMA LoadedIsHandler ==
  ASSUME NEW u \in Accounts, NEW place \in {"saveUser", "saveAlias", "saveFlag"},
         NEW row \in UserRows, Exists(row), NEW balance \in Balances \cup {None},
         NEW alias \in Aliases \cup {None}
  PROVE  /\ Holding(place, u, row, balance, alias) \in Handlers
         /\ HandlerOK(Holding(place, u, row, balance, alias))
BY DEF Holding, Handlers, HandlerOK, Verifying

LEMMA HandlerChange ==
  ASSUME HandlersOK, NEW w \in Workers, NEW h \in Handlers, HandlerOK(h), Becomes(w, h)
  PROVE  HandlersOK'
<1>1. \A v \in Workers : handler'[v] = IF v = w THEN h ELSE handler[v]
  BY DEF HandlersOK, Becomes
<1>2. handler' \in [Workers -> Handlers]
  BY DEF HandlersOK, Becomes
<1> QED
  BY <1>1, <1>2 DEF HandlersOK, HandlerOK

\* Saving a row whose alias the index admits.
LEMMA SavedRow ==
  ASSUME UsersOK, NEW u \in Accounts, NEW row \in UserRows, Free(row.alias, u),
         user' = [user EXCEPT ![u] = row]
  PROVE  UsersOK'
BY DEF UsersOK, Free

LEMMA TypeInit == Init => TypeOK
<1> SUFFICES ASSUME Init PROVE HandlersOK /\ UsersOK /\ WalletsOK /\ LinksOK
  BY TypeParts
<1>1. HandlersOK
  BY AbsentIsRow DEF Init, HandlersOK
<1>2. UsersOK
  BY AbsentIsRow DEF Init, UsersOK, Absent
<1> QED
  BY <1>1, <1>2 DEF Init, WalletsOK, LinksOK

LEMMA HandlersStep == RowInv /\ [Next]_vars => HandlersOK'
<1> SUFFICES ASSUME RowInv, [Next]_vars PROVE HandlersOK'
  OBVIOUS
<1>1. HandlersOK /\ UsersOK /\ WalletsOK /\ HandlersFounded
  BY TypeParts DEF RowInv
<1>2. CASE UNCHANGED vars
  BY <1>1, <1>2 DEF vars, HandlersOK
<1>3. CASE Others
  <2>1. CASE UNCHANGED handler
    BY <1>1, <2>1 DEF HandlersOK
  <2>2. CASE Restart
    BY <2>2, AbsentIsRow DEF Restart, HandlersOK
  <2> QED
    BY <1>3, <2>1, <2>2 DEF Others, Forget, Expire, ResetTokenUsage, UpdateUserStatus, MoveMoney,
                            CleanupTokens, ResetAllTokens, Discard, links
<1>4. ASSUME NEW w \in Workers, Handle(w) PROVE HandlersOK'
  <2>1. handler[w] \in Handlers /\ HandlerOK(handler[w]) /\ Founded(handler[w])
    BY <1>1 DEF HandlersOK, HandlersFounded
  <2>2. handler[w].at # "idle" => handler[w].on \in Accounts
    BY <2>1 DEF HandlerOK
  <2>3. ASSUME Becomes(w, Idle) PROVE HandlersOK'
    BY <1>1, <2>3, HandlerChange, AbsentIsRow
  <2>4. ASSUME NEW u \in Accounts, Login(w, u) \/ Verify(w, u) PROVE HandlersOK'
    BY <1>1, <2>4, HandlerChange, AtIsHandler DEF Login, Verify
  <2>5. ASSUME NEW u \in Accounts, LoadToFlag(w, u) PROVE HandlersOK'
    <3>1. user[u] \in UserRows /\ Exists(user[u])
      BY <1>1, <2>5 DEF LoadToFlag, UsersOK
    <3> QED
      BY <1>1, <2>5, <3>1, HandlerChange, LoadedIsHandler DEF LoadToFlag
  <2>6. ASSUME NEW u \in Accounts, NEW alias \in Aliases, LoadToAlias(w, u, alias)
        PROVE  HandlersOK'
    <3>1. user[u] \in UserRows /\ Exists(user[u])
      BY <1>1, <2>6 DEF LoadToAlias, UsersOK
    <3> QED
      BY <1>1, <2>6, <3>1, HandlerChange, LoadedIsHandler DEF LoadToAlias
  <2>7. CASE SaveWallet(w) \/ MarkUsed(w)
    BY <1>1, <2>2, <2>7, HandlerChange, AtIsHandler DEF SaveWallet, MarkUsed
  <2>8. CASE LoadLink(w)
    BY <1>1, <2>2, <2>3, <2>8, HandlerChange, AtIsHandler DEF LoadLink
  <2>9. CASE LoadUser(w)
    <3> DEFINE u == handler[w].on
    <3>1. u \in Accounts /\ user[u] \in UserRows /\ Exists(user[u]) /\ wallet[u] \in Balances \cup {None}
      BY <1>1, <2>1, <2>2, <2>9 DEF LoadUser, Founded, UsersOK, WalletsOK
    <3> HIDE DEF u
    <3> QED
      BY <1>1, <2>9, <3>1, HandlerChange, LoadedIsHandler DEF LoadUser, u
  <2>10. CASE InsertLink(w) \/ SaveUser(w) \/ SaveAlias(w) \/ SaveFlag(w) \/ Fail(w)
    BY <2>3, <2>10 DEF InsertLink, SaveUser, SaveAlias, SaveFlag, Fail
  <2> QED
    BY <1>4, <2>4, <2>5, <2>6, <2>7, <2>8, <2>9, <2>10 DEF Handle
<1> QED
  BY <1>2, <1>3, <1>4 DEF Next

\* What the saving handlers write is a row whose alias the index admits.
LEMMA UsersStep == RowInv /\ [Next]_vars => UsersOK'
<1> SUFFICES ASSUME RowInv, [Next]_vars PROVE UsersOK'
  OBVIOUS
<1>1. HandlersOK /\ UsersOK
  BY TypeParts DEF RowInv
<1>2. ASSUME UNCHANGED user PROVE UsersOK'
  BY <1>1, <1>2 DEF UsersOK
<1>3. ASSUME NEW u \in Accounts, NEW row, Free(row.alias, u), row \in UserRows,
             user' = [user EXCEPT ![u] = row]
      PROVE  UsersOK'
  BY <1>1, <1>3, SavedRow
<1>4. ASSUME NEW u \in Accounts, NEW status \in UserStatus, Exists(user[u]),
             user' = [user EXCEPT ![u].status = status]
      PROVE  UsersOK'
  <2>1. \A v \in Accounts : user'[v].alias = user[v].alias
    BY <1>1, <1>4 DEF UsersOK, UserRows
  <2>2. user' \in [Accounts -> UserRows]
    BY <1>1, <1>4 DEF UsersOK, UserRows
  <2> QED
    BY <1>1, <2>1, <2>2 DEF UsersOK
<1>5. ASSUME NEW w \in Workers, Handle(w) PROVE UsersOK'
  <2>1. handler[w] \in Handlers /\ HandlerOK(handler[w])
    BY <1>1 DEF HandlersOK
  <2>2. handler[w].at # "idle" => handler[w].on \in Accounts
    BY <2>1 DEF HandlerOK
  <2>3. handler[w].row \in UserRows /\ handler[w].alias \in Aliases \cup {None}
    BY <2>1 DEF Handlers
  <2>4. ASSUME NEW u \in Accounts, Login(w, u) PROVE UsersOK'
    <3>1. NewUser \in UserRows /\ Free(NewUser.alias, u)
      BY DEF NewUser, Absent, UserRows, UserStatus, Free
    <3> QED
      BY <1>3, <2>4, <3>1 DEF Login
  <2>5. CASE SaveUser(w)
    <3> DEFINE row == Verified(handler[w].row)
    <3>1. row \in UserRows /\ row.alias = handler[w].row.alias
      BY <2>3 DEF Verified, UserRows, UserStatus
    <3> HIDE DEF row
    <3>2. handler[w].on \in Accounts /\ Free(row.alias, handler[w].on)
      BY <2>2, <2>5, <3>1 DEF SaveUser
    <3>3. user' = [user EXCEPT ![handler[w].on] = row]
      BY <2>5 DEF SaveUser, row
    <3> QED
      BY <1>3, <3>1, <3>2, <3>3
  <2>6. CASE SaveAlias(w)
    <3> DEFINE row == [handler[w].row EXCEPT !.alias = handler[w].alias]
    <3>1. row \in UserRows /\ row.alias = handler[w].alias
      BY <2>3 DEF UserRows
    <3>2. handler[w].on \in Accounts /\ Free(handler[w].alias, handler[w].on)
      BY <2>2, <2>6 DEF SaveAlias
    <3>3. user' = [user EXCEPT ![handler[w].on] = row]
      BY <2>6 DEF SaveAlias
    <3> HIDE DEF row
    <3> QED
      BY <1>3, <3>1, <3>2, <3>3
  <2>7. CASE SaveFlag(w)
    <3>1. handler[w].on \in Accounts /\ Exists(user[handler[w].on])
      BY <2>2, <2>7 DEF SaveFlag, RowInv, HandlersFounded, Founded
    <3> QED
      BY <1>4, <2>7, <3>1 DEF SaveFlag, UserStatus
  <2> QED
    BY <1>2, <1>5, <2>4, <2>5, <2>6, <2>7
    DEF Handle, Verify, LoadToFlag, LoadToAlias, SaveWallet, InsertLink, LoadLink, MarkUsed,
        LoadUser, Fail
<1>6. ASSUME NEW u \in Accounts, NEW status \in UserStatus, UpdateUserStatus(u, status)
      PROVE  UsersOK'
  BY <1>4, <1>6 DEF UpdateUserStatus
<1> QED
  BY <1>2, <1>5, <1>6 DEF Next, vars, Others, Forget, Expire, ResetTokenUsage, MoveMoney,
                          CleanupTokens, ResetAllTokens, Discard, Restart

LEMMA WalletsStep == RowInv /\ [Next]_vars => WalletsOK'
<1> SUFFICES ASSUME RowInv, [Next]_vars PROVE WalletsOK'
  OBVIOUS
<1>1. HandlersOK /\ WalletsOK
  BY TypeParts DEF RowInv
<1>2. ASSUME UNCHANGED wallet PROVE WalletsOK'
  BY <1>1, <1>2 DEF WalletsOK
<1>3. ASSUME NEW u, NEW balance \in Balances \cup {None},
             wallet' = [wallet EXCEPT ![u] = balance]
      PROVE  WalletsOK'
  BY <1>1, <1>3 DEF WalletsOK
<1>4. ASSUME NEW w \in Workers, SaveWallet(w) \/ SaveUser(w) PROVE WalletsOK'
  <2>1. handler[w].balance \in Balances \cup {None} /\ 0 \in Balances
    BY <1>1, SignInAssumption DEF HandlersOK, Handlers
  <2> QED
    BY <1>3, <1>4, <2>1 DEF SaveWallet, SaveUser
<1>5. ASSUME NEW u \in Accounts, NEW balance \in Balances, MoveMoney(u, balance)
      PROVE  WalletsOK'
  BY <1>3, <1>5 DEF MoveMoney
<1> QED
  BY <1>2, <1>4, <1>5
  DEF Next, vars, links, Handle, Login, Verify, LoadToFlag, LoadToAlias, InsertLink, LoadLink,
      MarkUsed, LoadUser, SaveAlias, SaveFlag, Fail, Others, Forget, Expire, ResetTokenUsage,
      UpdateUserStatus, CleanupTokens, ResetAllTokens, Discard, Restart

LEMMA LinksStep == RowInv /\ [Next]_vars => LinksOK'
<1> SUFFICES ASSUME RowInv, [Next]_vars PROVE LinksOK'
  OBVIOUS
<1>1. HandlersOK /\ LinksOK
  BY TypeParts DEF RowInv
<1>2. ASSUME UNCHANGED links PROVE LinksOK'
  BY <1>1, <1>2 DEF LinksOK, links
<1>3. ASSUME NEW those \in SUBSET Accounts, Discard(those) PROVE LinksOK'
  BY <1>1, <1>3 DEF LinksOK, Discard
<1>4. CASE Others
  <2>1. ASSUME NEW u \in Accounts, Forget(u) \/ ResetTokenUsage(u) PROVE LinksOK'
    BY <1>1, <2>1 DEF Forget, ResetTokenUsage, LinksOK
  <2>2. CASE CleanupTokens
    BY <1>3, <2>2 DEF CleanupTokens
  <2>3. CASE ResetAllTokens
    BY <1>3, <2>3 DEF ResetAllTokens
  <2>4. CASE Restart
    BY <1>1, <2>4 DEF Restart, LinksOK
  <2>5. ASSUME NEW u \in Accounts, Expire(u) PROVE LinksOK'
    BY <1>3, <2>5 DEF Expire
  <2> QED
    BY <1>2, <1>4, <2>1, <2>2, <2>3, <2>4, <2>5 DEF Others, UpdateUserStatus, MoveMoney
<1>5. ASSUME NEW w \in Workers, Handle(w) PROVE LinksOK'
  <2>1. handler[w].at # "idle" => handler[w].on \in Accounts
    BY <1>1 DEF HandlersOK, HandlerOK
  <2>2. CASE InsertLink(w) \/ MarkUsed(w) \/ SaveUser(w)
    BY <1>1, <2>1, <2>2 DEF InsertLink, MarkUsed, SaveUser, LinksOK
  <2>3. ASSUME NEW u \in Accounts, Verify(w, u) PROVE LinksOK'
    BY <1>1, <2>3 DEF Verify, LinksOK
  <2> QED
    BY <1>2, <1>5, <2>2, <2>3 DEF Handle, Login, LoadToFlag, LoadToAlias, SaveWallet, LoadLink,
                                  LoadUser, SaveAlias, SaveFlag, Fail
<1> QED
  BY <1>2, <1>4, <1>5 DEF Next, vars, links

------------------------------------------------------------------------------
(* Accounts, wallets and links stay, and handlers rely on nothing else.    *)
Stays ==
  \A u \in Accounts : /\ Exists(user[u]) => Exists(user'[u])
                      /\ wallet[u] # None => wallet'[u] # None
                      /\ link[u] # "none" => link'[u] # "none"

LEMMA NothingVanishes == RowInv /\ [Next]_vars => Stays
<1> SUFFICES ASSUME RowInv, [Next]_vars, NEW u \in Accounts
             PROVE  /\ Exists(user[u]) => Exists(user'[u])
                    /\ wallet[u] # None => wallet'[u] # None
                    /\ link[u] # "none" => link'[u] # "none"
  BY DEF Stays
<1>1. HandlersOK /\ UsersOK /\ WalletsOK /\ LinksOK /\ HandlersFounded
  BY TypeParts DEF RowInv
<1>2. Exists(user[u]) => Exists(user'[u])
  <2>1. ASSUME NEW w \in Workers, SaveUser(w) \/ SaveAlias(w) \/ SaveFlag(w) \/ Login(w, u)
        PROVE  Exists(user'[u]) \/ user'[u] = user[u]
    <3>1. handler[w] \in Handlers
      BY <1>1 DEF HandlersOK
    <3>2. CASE SaveUser(w)
      <4>1. handler[w].row \in UserRows /\ Exists(handler[w].row)
        BY <1>1, <3>1, <3>2 DEF SaveUser, HandlersOK, HandlerOK, Handlers
      <4>2. Exists(Verified(handler[w].row))
        BY <4>1 DEF Exists, Verified, UserRows
      <4> QED
        BY <1>1, <3>2, <4>2 DEF SaveUser, UsersOK
    <3>3. CASE SaveAlias(w)
      <4>1. handler[w].row \in UserRows /\ Exists(handler[w].row)
        BY <1>1, <3>1, <3>3 DEF SaveAlias, HandlersOK, HandlerOK, Handlers
      <4>2. Exists([handler[w].row EXCEPT !.alias = handler[w].alias])
        BY <4>1 DEF Exists, UserRows
      <4> QED
        BY <1>1, <3>3, <4>2 DEF SaveAlias, UsersOK
    <3>4. CASE SaveFlag(w)
      BY <1>1, <3>4 DEF SaveFlag, Exists, UsersOK, UserRows
    <3>5. CASE Login(w, u)
      BY <1>1, <3>5 DEF Login, NewUser, Absent, Exists, UsersOK
    <3> QED
      BY <2>1, <3>2, <3>3, <3>4, <3>5
  <2>2. ASSUME NEW v \in Accounts, NEW status \in UserStatus, UpdateUserStatus(v, status)
        PROVE  Exists(user'[u]) \/ user'[u] = user[u]
    BY <1>1, <2>2 DEF UpdateUserStatus, Exists, UsersOK, UserRows, UserStatus
  <2>3. ASSUME NEW w \in Workers, NEW v \in Accounts, v # u, Login(w, v)
        PROVE  user'[u] = user[u]
    BY <1>1, <2>3 DEF Login, UsersOK
  <2> QED
    BY <2>1, <2>2, <2>3
    DEF Next, vars, Handle, Verify, LoadToFlag, LoadToAlias, SaveWallet, InsertLink, LoadLink,
        MarkUsed, LoadUser, Fail, Others, Forget, Expire, ResetTokenUsage, MoveMoney,
        CleanupTokens, ResetAllTokens, Discard, Restart
<1>3. wallet[u] # None => wallet'[u] # None
  <2>1. None \notin Balances /\ 0 \in Balances
    BY SignInAssumption
  <2>2. ASSUME NEW w \in Workers, SaveUser(w) \/ SaveWallet(w), wallet[u] # None
        PROVE  wallet'[u] # None
    BY <1>1, <2>1, <2>2 DEF SaveUser, SaveWallet, WalletsOK, HandlersFounded, Founded
  <2>3. ASSUME NEW v \in Accounts, NEW balance \in Balances, MoveMoney(v, balance)
        PROVE  wallet'[u] # None \/ wallet'[u] = wallet[u]
    BY <1>1, <2>1, <2>3 DEF MoveMoney, WalletsOK
  <2> QED
    BY <2>2, <2>3
    DEF Next, vars, links, Handle, Login, Verify, LoadToFlag, LoadToAlias, InsertLink, LoadLink,
        MarkUsed, LoadUser, SaveAlias, SaveFlag, Fail, Others, Forget, Expire, ResetTokenUsage,
        UpdateUserStatus, CleanupTokens, ResetAllTokens, Discard, Restart
<1>4. link[u] # "none" => link'[u] # "none"
  <2>1. ASSUME NEW w \in Workers, InsertLink(w) \/ MarkUsed(w) PROVE link[u] # "none" => link'[u] # "none"
    BY <1>1, <2>1 DEF InsertLink, MarkUsed, LinksOK
  <2>2. ASSUME NEW those \in SUBSET Accounts, Discard(those) PROVE link[u] # "none" => link'[u] # "none"
    BY <2>2 DEF Discard
  <2>3. ASSUME NEW v \in Accounts, ResetTokenUsage(v) PROVE link[u] # "none" => link'[u] # "none"
    BY <1>1, <2>3 DEF ResetTokenUsage, LinksOK
  <2>4. CASE Others
    <3>1. CleanupTokens \/ ResetAllTokens \/ (\E v \in Accounts : Expire(v))
            => \E those \in SUBSET Accounts : Discard(those)
      BY DEF CleanupTokens, ResetAllTokens, Expire
    <3> QED
      BY <2>2, <2>3, <2>4, <3>1 DEF Others, Forget, UpdateUserStatus, MoveMoney, Restart, links
  <2> QED
    BY <2>1, <2>4
    DEF Next, vars, links, Handle, Login, Verify, LoadToFlag, LoadToAlias, SaveWallet, LoadLink,
        LoadUser, SaveUser, SaveAlias, SaveFlag, Fail
<1> QED
  BY <1>2, <1>3, <1>4

\* A handler that is still where it was relies on what it relied on.
LEMMA FoundedStays ==
  ASSUME RowInv, Stays, NEW v \in Workers, handler'[v] = handler[v]
  PROVE  Founded(handler[v])'
<1>1. HandlerOK(handler[v]) /\ Founded(handler[v])
  BY TypeParts DEF RowInv, HandlersOK, HandlersFounded
<1>2. handler[v].at \in Verifying \cup {"insertLink"} => handler[v].at # "idle"
  BY DEF Verifying
<1> QED
  BY <1>1, <1>2 DEF HandlerOK, Founded, Stays

LEMMA FoundedStep == RowInv /\ [Next]_vars => HandlersFounded'
<1> SUFFICES ASSUME RowInv, [Next]_vars, NEW v \in Workers
             PROVE  Founded(handler[v])'
  BY DEF HandlersFounded
<1>1. HandlersOK /\ UsersOK /\ WalletsOK /\ LinksOK /\ HandlersFounded
  BY TypeParts DEF RowInv
<1>2. Stays
  BY NothingVanishes
<1>3. CASE handler'[v] = handler[v]
  BY <1>2, <1>3, FoundedStays
<1>4. ASSUME handler'[v] = Idle PROVE Founded(handler[v])'
  BY <1>4 DEF Founded, Idle, At, Holding, Verifying
<1>5. CASE Handle(v)
  <2> DEFINE u == handler[v].on
  <2>1. /\ HandlerOK(handler[v]) /\ Founded(handler[v])
        /\ \A h : Becomes(v, h) => handler'[v] = h
    BY <1>1 DEF HandlersOK, HandlersFounded, Becomes
  <2>2. handler[v].at # "idle" => u \in Accounts
    BY <2>1 DEF HandlerOK
  <2>3. ASSUME NEW a \in Accounts, Login(v, a) PROVE Founded(handler[v])'
    <3>1. handler'[v] = At("saveWallet", a) /\ user'[a] = NewUser
      BY <1>1, <2>1, <2>3 DEF Login, UsersOK
    <3> QED
      BY <3>1 DEF Founded, At, Holding, Verifying, NewUser, Absent, Exists
  <2>4. ASSUME NEW a \in Accounts, Verify(v, a) PROVE Founded(handler[v])'
    <3>1. handler'[v] = At("loadLink", a) /\ link[a] # "none" /\ UNCHANGED <<user, wallet, link>>
      BY <2>1, <2>4 DEF Verify
    <3>2. Exists(user[a]) /\ wallet[a] # None
      BY <3>1 DEF RowInv, LinkedAccountsHaveWallets
    <3> QED
      BY <3>1, <3>2 DEF Founded, At, Holding
  <2>5. ASSUME NEW a \in Accounts, LoadToFlag(v, a) PROVE Founded(handler[v])'
    <3>1. handler'[v] = Holding("saveFlag", a, user[a], None, None) /\ Exists(user'[a])
      BY <2>1, <2>5 DEF LoadToFlag
    <3> QED
      BY <3>1 DEF Founded, Holding, Verifying
  <2>6. ASSUME NEW a \in Accounts, NEW alias, LoadToAlias(v, a, alias)
        PROVE  Founded(handler[v])'
    <3>1. handler'[v] = Holding("saveAlias", a, user[a], None, alias) /\ Exists(user'[a])
      BY <2>1, <2>6 DEF LoadToAlias
    <3> QED
      BY <3>1 DEF Founded, Holding, Verifying
  <2>7. CASE SaveWallet(v)
    <3>1. /\ handler'[v] = At("insertLink", u) /\ user' = user /\ wallet'[u] = 0
          /\ u \in Accounts /\ Exists(user[u])
      BY <1>1, <2>1, <2>2, <2>7 DEF SaveWallet, WalletsOK, Founded
    <3>2. None # 0
      BY SignInAssumption
    <3> HIDE DEF u
    <3> QED
      BY <3>1, <3>2 DEF Founded, At, Holding, Verifying
  <2>8. CASE LoadLink(v) \/ MarkUsed(v) \/ LoadUser(v)
    <3>1. u \in Accounts /\ Exists(user'[u]) /\ wallet'[u] # None /\ link'[u] # "none"
      BY <1>2, <2>1, <2>2, <2>8 DEF LoadLink, MarkUsed, LoadUser, Founded, Verifying, Stays
    <3>2. /\ wallet[u] # None
          /\ \/ handler'[v] \in {Idle, At("markUsed", u), At("loadUser", u)}
             \/ handler'[v] = Holding("saveUser", u, user[u], wallet[u], None)
      BY <2>1, <2>8 DEF LoadLink, MarkUsed, LoadUser, Founded, Verifying
    <3> HIDE DEF u
    <3> QED
      BY <1>4, <3>1, <3>2 DEF Founded, At, Holding
  <2>9. CASE InsertLink(v) \/ SaveUser(v) \/ SaveAlias(v) \/ SaveFlag(v) \/ Fail(v)
    BY <1>4, <2>1, <2>9 DEF InsertLink, SaveUser, SaveAlias, SaveFlag, Fail
  <2> QED
    BY <1>5, <2>3, <2>4, <2>5, <2>6, <2>7, <2>8, <2>9 DEF Handle
<1>6. ASSUME NEW w \in Workers, Handle(w), v # w PROVE handler'[v] = handler[v]
  <2>1. \A h : Becomes(w, h) => handler'[v] = handler[v]
    BY <1>1, <1>6 DEF HandlersOK, Becomes
  <2> QED
    BY <1>6, <2>1 DEF Handle, Login, Verify, LoadToFlag, LoadToAlias, SaveWallet, InsertLink,
                      LoadLink, MarkUsed, LoadUser, SaveUser, SaveAlias, SaveFlag, Fail
<1>7. CASE Others
  BY <1>3, <1>4, <1>7 DEF Others, Forget, Expire, ResetTokenUsage, UpdateUserStatus, MoveMoney,
                          CleanupTokens, ResetAllTokens, Discard, Restart
<1> QED
  BY <1>3, <1>5, <1>6, <1>7 DEF Next, vars

LEMMA WalletsOfLinked == RowInv /\ [Next]_vars => LinkedAccountsHaveWallets'
<1> SUFFICES ASSUME RowInv, [Next]_vars, NEW u \in Accounts, link'[u] # "none"
             PROVE  Exists(user'[u]) /\ wallet'[u] # None
  BY DEF LinkedAccountsHaveWallets
<1>1. HandlersOK /\ LinksOK /\ HandlersFounded
  BY TypeParts DEF RowInv
<1>2. Stays
  BY NothingVanishes
<1>3. CASE link[u] # "none"
  BY <1>2, <1>3 DEF RowInv, LinkedAccountsHaveWallets, Stays
<1>4. ASSUME link[u] = "none" PROVE \E w \in Workers : InsertLink(w) /\ handler[w].on = u
  <2>1. ASSUME NEW w \in Workers, MarkUsed(w) PROVE FALSE
    BY <1>1, <1>4, <2>1 DEF MarkUsed, LinksOK
  <2>2. CASE Others
    BY <1>1, <1>4, <2>2 DEF Others, Forget, Expire, ResetTokenUsage, UpdateUserStatus, MoveMoney,
                            CleanupTokens, ResetAllTokens, Discard, Restart, links, LinksOK
  <2>3. ASSUME NEW w \in Workers, InsertLink(w) PROVE handler[w].on = u
    BY <1>1, <1>4, <2>3 DEF InsertLink, LinksOK
  <2> QED
    BY <1>4, <2>1, <2>2, <2>3
    DEF Next, vars, links, Handle, Login, Verify, LoadToFlag, LoadToAlias, SaveWallet, LoadLink,
        LoadUser, SaveUser, SaveAlias, SaveFlag, Fail
<1>5. CASE link[u] = "none"
  BY <1>1, <1>2, <1>4, <1>5 DEF InsertLink, HandlersFounded, Founded, Stays
<1> QED
  BY <1>3, <1>5

LEMMA RowInvariant == Spec => []RowInv
<1>1. Init => RowInv
  BY TypeInit DEF Init, RowInv, LinkedAccountsHaveWallets, HandlersFounded, Founded, Idle, At,
                  Holding, Verifying
<1>2. RowInv /\ [Next]_vars => RowInv'
  <2>1. TypeOK' <=> HandlersOK' /\ UsersOK' /\ WalletsOK' /\ LinksOK'
    BY TypeParts, PTL
  <2> QED
    BY <2>1, HandlersStep, UsersStep, WalletsStep, LinksStep, FoundedStep, WalletsOfLinked
    DEF RowInv
<1> QED
  BY <1>1, <1>2, PTL DEF Spec

\* Rows are well formed, no two accounts share an alias, and nobody saves a row of an account
\* that does not exist, for any number of overlapping handlers (alias.service.ts, auth.service.ts).
THEOREM SignInTypes == Spec => []TypeOK
BY RowInvariant, PTL DEF RowInv

\* Whoever can follow a magic link has a wallet, wherever logins are cut short.
THEOREM LinkedHaveWallets == Spec => []LinkedAccountsHaveWallets
BY RowInvariant, PTL DEF RowInv

------------------------------------------------------------------------------
(* A link signs in once.                                                   *)

\* Each account is created by one login, whose link is still to come.
LoggingIn(w, u) == handler[w].on = u /\ handler[w].at \in {"saveWallet", "insertLink"}
NewLinks ==
  \A w \in Workers, u \in Accounts :
    LoggingIn(w, u) => link[u] = "none" /\ \A v \in Workers : LoggingIn(v, u) => v = w

\* What the controller's memory of attempts achieves as long as nobody outlives it.
Alone ==
  \A w \in Workers, u \in Accounts \ outlived :
    InFlight(w, u) => u \in recent /\ \A v \in Workers : InFlight(v, u) => v = w

Fresh == \A u \in Accounts : link[u] \in {"none", "unused"} => u \notin consumed

MarkingFirst ==
  \A w \in Workers, u \in Accounts \ outlived :
    handler[w].on = u /\ handler[w].at = "markUsed" => u \notin consumed

OnceInv == NewLinks /\ Alone /\ Fresh /\ MarkingFirst /\ LinkSignsInOnce

LEMMA OtherHandlersStay ==
  ASSUME HandlersOK, NEW w \in Workers, NEW h, Becomes(w, h)
  PROVE  handler'[w] = h /\ \A v \in Workers \ {w} : handler'[v] = handler[v]
BY DEF HandlersOK, Becomes

\* Where the handlers are after a step, and where they were.
LEMMA WhereHandlersAre ==
  ASSUME RowInv, [Next]_vars, NEW v \in Workers
  PROVE  \/ handler'[v] = handler[v]
         \/ handler'[v] = Idle
         \/ \E u \in Accounts : \/ Login(v, u) /\ handler'[v] = At("saveWallet", u)
                                \/ Verify(v, u) /\ handler'[v] = At("loadLink", u)
         \/ SaveWallet(v) /\ handler'[v] = At("insertLink", handler[v].on)
         \/ /\ LoadLink(v) /\ handler'[v] = At("markUsed", handler[v].on)
            /\ link[handler[v].on] = "unused"
         \/ MarkUsed(v) /\ handler'[v] = At("loadUser", handler[v].on)
         \/ LoadUser(v) /\ handler'[v].at = "saveUser" /\ handler'[v].on = handler[v].on
         \/ handler'[v].at \in {"saveAlias", "saveFlag"}
<1>1. HandlersOK
  BY TypeParts DEF RowInv
<1>2. CASE Handle(v)
  <2>1. \A h : Becomes(v, h) => handler'[v] = h
    BY <1>1, OtherHandlersStay
  <2>2. ASSUME NEW u \in Accounts, LoadToFlag(v, u) \/ \E alias \in Aliases : LoadToAlias(v, u, alias)
        PROVE  handler'[v].at \in {"saveAlias", "saveFlag"}
    <3>1. \/ handler'[v] = Holding("saveFlag", u, user[u], None, None)
          \/ \E alias : handler'[v] = Holding("saveAlias", u, user[u], None, alias)
      BY <2>1, <2>2 DEF LoadToFlag, LoadToAlias
    <3>2. \A place, a, row, balance, alias : Holding(place, a, row, balance, alias).at = place
      BY DEF Holding
    <3> QED
      BY <3>1, <3>2
  <2>3. CASE LoadUser(v)
    BY <2>1, <2>3 DEF LoadUser, Holding
  <2>4. ASSUME NEW u \in Accounts, Login(v, u) \/ Verify(v, u)
        PROVE  \/ Login(v, u) /\ handler'[v] = At("saveWallet", u)
               \/ Verify(v, u) /\ handler'[v] = At("loadLink", u)
    BY <2>1, <2>4 DEF Login, Verify
  <2>5. CASE SaveWallet(v) \/ MarkUsed(v)
    BY <2>1, <2>5 DEF SaveWallet, MarkUsed
  <2>6. CASE LoadLink(v)
    BY <2>1, <2>6 DEF LoadLink
  <2>7. CASE InsertLink(v) \/ SaveUser(v) \/ SaveAlias(v) \/ SaveFlag(v) \/ Fail(v)
    BY <2>1, <2>7 DEF InsertLink, SaveUser, SaveAlias, SaveFlag, Fail
  <2> QED
    BY <1>2, <2>2, <2>3, <2>4, <2>5, <2>6, <2>7 DEF Handle
<1>3. ASSUME NEW w \in Workers, Handle(w), v # w PROVE handler'[v] = handler[v]
  <2>1. \A h : Becomes(w, h) => handler'[v] = handler[v]
    BY <1>1, <1>3, OtherHandlersStay
  <2> QED
    BY <1>3, <2>1 DEF Handle, Login, Verify, LoadToFlag, LoadToAlias, SaveWallet, InsertLink,
                      LoadLink, MarkUsed, LoadUser, SaveUser, SaveAlias, SaveFlag, Fail
<1>4. CASE Others
  BY <1>4 DEF Others, Forget, Expire, ResetTokenUsage, UpdateUserStatus, MoveMoney,
              CleanupTokens, ResetAllTokens, Discard, Restart
<1> QED
  BY <1>2, <1>3, <1>4 DEF Next, vars

\* A login or a verification in flight was so before, unless it has just begun.
Begun(v, u) ==
  /\ LoggingIn(v, u)' => LoggingIn(v, u) \/ Login(v, u)
  /\ InFlight(v, u)' => InFlight(v, u) \/ Verify(v, u)
  /\ handler'[v].on = u /\ handler'[v].at = "markUsed" =>
       \/ handler[v].on = u /\ handler[v].at = "markUsed" /\ handler'[v] = handler[v]
       \/ LoadLink(v) /\ link[u] = "unused"

LEMMA HandlersBegin ==
  ASSUME RowInv, [Next]_vars, NEW v \in Workers, NEW u \in Accounts
  PROVE  Begun(v, u)
<1>1. \A place, a : At(place, a).at = place /\ At(place, a).on = a
  BY DEF At, Holding
<1>2. Idle.at = "idle"
  BY DEF Idle, At, Holding
<1>3. ASSUME handler'[v] = handler[v] \/ handler'[v] = Idle \/ handler'[v].at \in {"saveAlias", "saveFlag"}
      PROVE  Begun(v, u)
  BY <1>2, <1>3 DEF Begun, LoggingIn, InFlight, Verifying
<1>4. ASSUME NEW a \in Accounts, Login(v, a), handler'[v] = At("saveWallet", a)
      PROVE  Begun(v, u)
  <2>1. handler'[v].at = "saveWallet" /\ (handler'[v].on = u => Login(v, u))
    BY <1>1, <1>4
  <2> QED
    BY <2>1 DEF Begun, LoggingIn, InFlight, Verifying
<1>5. ASSUME NEW a \in Accounts, Verify(v, a), handler'[v] = At("loadLink", a)
      PROVE  Begun(v, u)
  <2>1. handler'[v].at = "loadLink" /\ (handler'[v].on = u => Verify(v, u))
    BY <1>1, <1>5
  <2> QED
    BY <2>1 DEF Begun, LoggingIn, InFlight, Verifying
<1>6. ASSUME SaveWallet(v), handler'[v] = At("insertLink", handler[v].on) PROVE Begun(v, u)
  BY <1>1, <1>6 DEF Begun, SaveWallet, LoggingIn, InFlight, Verifying
<1>7. ASSUME LoadLink(v), handler'[v] = At("markUsed", handler[v].on), link[handler[v].on] = "unused"
      PROVE  Begun(v, u)
  BY <1>1, <1>7 DEF Begun, LoadLink, LoggingIn, InFlight, Verifying
<1>8. ASSUME MarkUsed(v), handler'[v] = At("loadUser", handler[v].on) PROVE Begun(v, u)
  BY <1>1, <1>8 DEF Begun, MarkUsed, LoggingIn, InFlight, Verifying
<1>9. ASSUME LoadUser(v), handler'[v].at = "saveUser", handler'[v].on = handler[v].on
      PROVE  Begun(v, u)
  BY <1>9 DEF Begun, LoadUser, LoggingIn, InFlight, Verifying
<1> QED
  BY <1>3, <1>4, <1>5, <1>6, <1>7, <1>8, <1>9, WhereHandlersAre

\* What a step does to links and to the memory of attempts.
LEMMA WhatLinksBecome ==
  ASSUME RowInv, [Next]_vars, NEW u \in Accounts
  PROVE  /\ \/ link'[u] = link[u]
            \/ \E w \in Workers : InsertLink(w) /\ handler[w].on = u /\ link'[u] = "unused"
            \/ \E w \in Workers : MarkUsed(w) /\ handler[w].on = u /\ link'[u] = "used"
            \/ ResetTokenUsage(u) /\ link[u] = "used"
            \/ link[u] # "none" /\ link'[u] = "gone"
         /\ \/ u \in consumed' <=> u \in consumed
            \/ \E w \in Workers : MarkUsed(w) /\ handler[w].on = u
            \/ ResetTokenUsage(u) /\ u \notin consumed'
         /\ u \in outlived => u \in outlived'
         /\ u \in recent /\ u \notin recent' =>
              \/ \E w \in Workers : SaveUser(w) /\ handler[w].on = u
              \/ Forget(u)
              \/ Restart
         /\ u \in reused' => \/ u \in reused
                            \/ \E w \in Workers : /\ MarkUsed(w) /\ handler[w].on = u
                                                   /\ u \in consumed
<1>1. HandlersOK /\ LinksOK
  BY TypeParts DEF RowInv
<1>2. CASE Others
  <2>2. ASSUME NEW v \in Accounts, Forget(v)
        PROVE  /\ UNCHANGED <<link, consumed, reused>> /\ (u \in outlived => u \in outlived')
               /\ (u \in recent /\ u \notin recent' => Forget(u))
    BY <2>2 DEF Forget
  <2>3. ASSUME NEW v \in Accounts, ResetTokenUsage(v)
        PROVE  /\ UNCHANGED <<recent, outlived, reused>>
               /\ IF v = u THEN u \notin consumed' /\ link[u] = "used"
                  ELSE link'[u] = link[u] /\ (u \in consumed' <=> u \in consumed)
    BY <1>1, <2>3 DEF ResetTokenUsage, LinksOK
  <2>4. ASSUME NEW those \in SUBSET {v \in Accounts : link[v] # "none"}, Discard(those)
        PROVE  /\ UNCHANGED <<recent, outlived, reused, consumed>>
               /\ link'[u] = link[u] \/ (link[u] # "none" /\ link'[u] = "gone")
    BY <2>4 DEF Discard
  <2>5. ASSUME CleanupTokens \/ ResetAllTokens \/ \E v \in Accounts : Expire(v)
        PROVE  \E those \in SUBSET {v \in Accounts : link[v] # "none"} : Discard(those)
    BY <2>5 DEF CleanupTokens, ResetAllTokens, Expire
  <2>6. CASE UNCHANGED links \/ Restart
    BY <2>6 DEF links, Restart
  <2>7. /\ \A v \in Accounts, status \in UserStatus : UpdateUserStatus(v, status) => UNCHANGED links
        /\ \A v \in Accounts, balance \in Balances : MoveMoney(v, balance) => UNCHANGED links
    BY DEF UpdateUserStatus, MoveMoney
  <2>8. CASE \E v \in Accounts : Forget(v)
    BY <2>2, <2>8
  <2>9. CASE \E v \in Accounts : ResetTokenUsage(v)
    BY <2>3, <2>9
  <2>10. CASE CleanupTokens \/ ResetAllTokens \/ \E v \in Accounts : Expire(v)
    BY <2>4, <2>5, <2>10
  <2>11. \/ UNCHANGED links \/ Restart
         \/ \E v \in Accounts : Forget(v) \/ ResetTokenUsage(v)
         \/ CleanupTokens \/ ResetAllTokens \/ \E v \in Accounts : Expire(v)
    BY <1>2, <2>7 DEF Others
  <2> QED
    BY <2>6, <2>8, <2>9, <2>10, <2>11
<1>3. ASSUME NEW w \in Workers, Handle(w)
      PROVE  \/ UNCHANGED links
             \/ InsertLink(w) \/ MarkUsed(w) \/ SaveUser(w)
             \/ \E v \in Accounts : Verify(w, v)
  BY <1>3 DEF Handle, Login, LoadToFlag, LoadToAlias, SaveWallet, LoadLink, LoadUser, SaveAlias,
              SaveFlag, Fail
<1>4. CASE UNCHANGED links
  BY <1>4 DEF links
<1>5. ASSUME NEW w \in Workers, InsertLink(w)
      PROVE  /\ UNCHANGED <<recent, consumed, reused, outlived>>
             /\ link'[u] = link[u] \/ (handler[w].on = u /\ link'[u] = "unused")
  BY <1>1, <1>5 DEF InsertLink, LinksOK
<1>6. ASSUME NEW w \in Workers, MarkUsed(w)
      PROVE  /\ UNCHANGED <<recent, outlived>>
             /\ link'[u] = link[u] \/ (handler[w].on = u /\ link'[u] = "used")
             /\ (u \in consumed' <=> u \in consumed) \/ handler[w].on = u
             /\ u \in reused' => u \in reused \/ (handler[w].on = u /\ u \in consumed)
  BY <1>1, <1>6 DEF MarkUsed, LinksOK
<1>7. ASSUME NEW w \in Workers, SaveUser(w)
      PROVE  /\ UNCHANGED <<link, consumed, reused, outlived>>
             /\ u \in recent /\ u \notin recent' => handler[w].on = u
  BY <1>7 DEF SaveUser
<1>8. ASSUME NEW w \in Workers, NEW v \in Accounts, Verify(w, v)
      PROVE  UNCHANGED <<link, consumed, reused, outlived>> /\ (u \in recent => u \in recent')
  BY <1>8 DEF Verify
<1>9. CASE \E w \in Workers : Handle(w)
  BY <1>3, <1>4, <1>5, <1>6, <1>7, <1>8, <1>9
<1> QED
  BY <1>2, <1>4, <1>9 DEF Next, vars, links

\* A handler that has just begun, and one that has just ended.
LEMMA BeginsOrEnds ==
  ASSUME RowInv, NEW w \in Workers, NEW u \in Accounts
  PROVE  /\ Login(w, u) \/ Verify(w, u) => \A v \in Workers \ {w} : handler'[v] = handler[v]
         /\ InsertLink(w) \/ SaveUser(w) \/ Restart => handler'[w].at = "idle"
         /\ MarkUsed(w) => handler'[w].at = "loadUser"
<1>1. HandlersOK
  BY TypeParts DEF RowInv
<1>2. \A h : Becomes(w, h) => handler'[w] = h /\ \A v \in Workers \ {w} : handler'[v] = handler[v]
  BY <1>1, OtherHandlersStay
<1>3. Idle.at = "idle" /\ At("loadUser", handler[w].on).at = "loadUser"
  BY DEF Idle, At, Holding
<1>4. Restart => handler'[w] = Idle
  BY DEF Restart
<1> QED
  BY <1>2, <1>3, <1>4 DEF Login, Verify, InsertLink, SaveUser, MarkUsed

LEMMA NewLinksStep == RowInv /\ OnceInv /\ [Next]_vars => NewLinks'
<1> SUFFICES ASSUME RowInv, OnceInv, [Next]_vars, NEW w \in Workers, NEW u \in Accounts,
                    LoggingIn(w, u)'
             PROVE  link'[u] = "none" /\ \A v \in Workers : LoggingIn(v, u)' => v = w
  BY DEF NewLinks
<1>1. HandlersOK /\ HandlersFounded
  BY TypeParts DEF RowInv
<1>2. ASSUME NEW v \in Workers, Login(v, u)
      PROVE  link[u] = "none" /\ \A x \in Workers : ~LoggingIn(x, u)
  <2>1. ~Exists(user[u])
    BY <1>2 DEF Login
  <2> QED
    BY <1>1, <2>1 DEF RowInv, LinkedAccountsHaveWallets, LoggingIn, HandlersFounded, Founded
<1>3. LoggingIn(w, u) \/ Login(w, u)
  BY HandlersBegin DEF Begun
<1>4. link[u] = "none" /\ \A v \in Workers : LoggingIn(v, u) => v = w
  BY <1>2, <1>3 DEF OnceInv, NewLinks
<1>5. link'[u] = "none"
  <2>1. ASSUME NEW x \in Workers, InsertLink(x), handler[x].on = u PROVE FALSE
    <3>1. x = w
      BY <1>4, <2>1 DEF InsertLink, LoggingIn
    <3> QED
      BY <2>1, <3>1, BeginsOrEnds DEF LoggingIn
  <2>2. ASSUME NEW x \in Workers, MarkUsed(x), handler[x].on = u PROVE FALSE
    BY <1>1, <1>4, <2>2 DEF MarkUsed, HandlersFounded, Founded, Verifying
  <2> QED
    BY <1>4, <2>1, <2>2, WhatLinksBecome
<1>6. ASSUME NEW v \in Workers, LoggingIn(v, u)' PROVE v = w
  <2>1. LoggingIn(v, u) \/ Login(v, u)
    BY <1>6, HandlersBegin DEF Begun
  <2>2. CASE LoggingIn(v, u)
    BY <1>4, <2>2
  <2>3. ASSUME Login(v, u), v # w PROVE FALSE
    <3>1. handler'[w] = handler[w]
      BY <2>3, BeginsOrEnds
    <3>2. LoggingIn(w, u)
      BY <3>1 DEF LoggingIn
    <3> QED
      BY <1>2, <2>3, <3>2
  <2> QED
    BY <2>1, <2>2, <2>3
<1> QED
  BY <1>5, <1>6

LEMMA AloneStep == RowInv /\ OnceInv /\ [Next]_vars => Alone'
<1> SUFFICES ASSUME RowInv, OnceInv, [Next]_vars, NEW w \in Workers, NEW u \in Accounts,
                    u \notin outlived', InFlight(w, u)'
             PROVE  u \in recent' /\ \A v \in Workers : InFlight(v, u)' => v = w
  BY DEF Alone
<1>1. u \notin outlived
  BY WhatLinksBecome
<1>2. \A v \in Workers : InFlight(v, u) =>
         u \in recent /\ \A x \in Workers : InFlight(x, u) => x = v
  BY <1>1 DEF OnceInv, Alone
<1>3. \A v \in Workers : InFlight(v, u)' => InFlight(v, u) \/ Verify(v, u)
  BY HandlersBegin DEF Begun
<1>4. u \in recent'
  <2>1. CASE Verify(w, u)
    BY <2>1 DEF Verify
  <2>2. ASSUME InFlight(w, u), u \notin recent' PROVE FALSE
    <3>1. ASSUME NEW x \in Workers, SaveUser(x), handler[x].on = u PROVE FALSE
      <4>1. x = w
        BY <1>2, <2>2, <3>1 DEF SaveUser, InFlight, Verifying
      <4> QED
        BY <3>1, <4>1, BeginsOrEnds DEF InFlight, Verifying
    <3>2. CASE Forget(u)
      BY <2>2, <3>2 DEF Forget
    <3>3. CASE Restart
      BY <3>3, BeginsOrEnds DEF InFlight, Verifying
    <3> QED
      BY <1>2, <2>2, <3>1, <3>2, <3>3, WhatLinksBecome
  <2> QED
    BY <1>3, <2>1, <2>2
<1>5. ASSUME NEW v \in Workers, NEW x \in Workers, v # x, Verify(v, u), InFlight(x, u)'
      PROVE  FALSE
  <2>1. InFlight(x, u)
    BY <1>5, BeginsOrEnds DEF InFlight
  <2> QED
    BY <1>2, <1>5, <2>1 DEF Verify
<1>6. ASSUME NEW v \in Workers, InFlight(v, u)' PROVE v = w
  BY <1>2, <1>3, <1>5, <1>6
<1> QED
  BY <1>4, <1>6

LEMMA FreshStep == RowInv /\ OnceInv /\ [Next]_vars => Fresh'
<1> SUFFICES ASSUME RowInv, OnceInv, [Next]_vars, NEW u \in Accounts,
                    link'[u] \in {"none", "unused"}, u \in consumed'
             PROVE  FALSE
  BY DEF Fresh
<1>1. HandlersOK /\ LinksOK /\ HandlersFounded
  BY TypeParts DEF RowInv
<1>2. ASSUME NEW w \in Workers, MarkUsed(w), handler[w].on = u PROVE FALSE
  <2>1. link[u] # "none" /\ link'[u] = IF link[u] = "unused" THEN "used" ELSE link[u]
    BY <1>1, <1>2 DEF MarkUsed, HandlersFounded, Founded, Verifying, LinksOK
  <2> QED
    BY <1>1, <2>1 DEF LinksOK
<1>3. u \in consumed
  BY <1>2, WhatLinksBecome
<1>4. ASSUME NEW w \in Workers, InsertLink(w), handler[w].on = u PROVE FALSE
  BY <1>3, <1>4 DEF InsertLink, LoggingIn, OnceInv, NewLinks, Fresh
<1>5. CASE ResetTokenUsage(u)
  BY <1>5 DEF ResetTokenUsage
<1> QED
  BY <1>2, <1>3, <1>4, <1>5, WhatLinksBecome DEF OnceInv, Fresh

LEMMA MarkingFirstStep == RowInv /\ OnceInv /\ [Next]_vars => MarkingFirst'
<1> SUFFICES ASSUME RowInv, OnceInv, [Next]_vars, NEW w \in Workers, NEW u \in Accounts,
                    u \notin outlived', handler'[w].on = u, handler'[w].at = "markUsed"
             PROVE  u \notin consumed'
  BY DEF MarkingFirst
<1>1. u \notin outlived
  BY WhatLinksBecome
<1>2. \/ handler[w].on = u /\ handler[w].at = "markUsed" /\ handler'[w] = handler[w]
      \/ LoadLink(w) /\ link[u] = "unused"
  BY HandlersBegin DEF Begun
<1>3. u \notin consumed
  BY <1>1, <1>2 DEF OnceInv, Fresh, MarkingFirst
<1>4. CASE LoadLink(w)
  BY <1>3, <1>4 DEF LoadLink, links
<1>5. ASSUME handler[w].on = u, handler[w].at = "markUsed",
             NEW x \in Workers, MarkUsed(x), handler[x].on = u
      PROVE  FALSE
  <2>1. InFlight(w, u) /\ InFlight(x, u)
    BY <1>5 DEF InFlight, MarkUsed, Verifying
  <2>2. x = w
    BY <1>1, <2>1 DEF OnceInv, Alone
  <2> QED
    BY <1>5, <2>2, BeginsOrEnds
<1> QED
  BY <1>2, <1>3, <1>4, <1>5, WhatLinksBecome

LEMMA OnceStep == RowInv /\ OnceInv /\ [Next]_vars => LinkSignsInOnce'
<1> SUFFICES ASSUME RowInv, OnceInv, [Next]_vars, NEW u \in reused'
             PROVE  u \in outlived'
  BY DEF LinkSignsInOnce
<1>1. u \in Accounts
  BY LinksStep DEF LinksOK
<1>2. ASSUME NEW w \in Workers, MarkUsed(w), handler[w].on = u, u \in consumed
      PROVE  u \in outlived
  BY <1>1, <1>2 DEF MarkUsed, OnceInv, MarkingFirst
<1>3. u \in outlived
  BY <1>1, <1>2, WhatLinksBecome DEF OnceInv, LinkSignsInOnce
<1> QED
  BY <1>1, <1>3, WhatLinksBecome

\* A magic link signs in once, for any number of overlapping verifications of it, unless one of
\* them takes longer than the controller remembers it (auth.controller.ts:70).
THEOREM LinkSingleUse == Spec => []LinkSignsInOnce
<1>1. Init => OnceInv
  BY DEF Init, OnceInv, NewLinks, Alone, Fresh, MarkingFirst, LinkSignsInOnce, LoggingIn, InFlight,
         Verifying, Idle, At, Holding
<1>2. RowInv /\ OnceInv /\ [Next]_vars => OnceInv'
  BY NewLinksStep, AloneStep, FreshStep, MarkingFirstStep, OnceStep DEF OnceInv
<1>3. OnceInv => LinkSignsInOnce
  BY DEF OnceInv
<1> QED
  BY <1>1, <1>2, <1>3, RowInvariant, PTL DEF Spec

------------------------------------------------------------------------------
(* Who lets a blocked account in again.                                    *)

\* Whoever saves a row he has loaded leaves its status, unless that is PENDING.
LEMMA SavedStatus ==
  ASSUME HandlersOK, UsersOK, NEW w \in Workers, NEW u \in Accounts,
         SaveUser(w) \/ SaveAlias(w), user'[u] # user[u]
  PROVE  /\ handler[w].on = u /\ handler'[w] = Idle
         /\ user'[u].status \in {handler[w].row.status, "ACTIVE"}
         /\ user'[u].status # handler[w].row.status => handler[w].row.status = "PENDING"
<1>1. handler[w] \in Handlers /\ handler'[w] = Idle
  BY OtherHandlersStay DEF HandlersOK, SaveUser, SaveAlias
<1>2. handler[w].row \in UserRows
  BY <1>1 DEF Handlers
<1>3. CASE SaveUser(w)
  <2>1. handler[w].on = u /\ user'[u] = Verified(handler[w].row)
    BY <1>3 DEF SaveUser, UsersOK
  <2>2. Verified(handler[w].row).status =
          IF handler[w].row.status = "PENDING" THEN "ACTIVE" ELSE handler[w].row.status
    BY <1>2 DEF Verified, UserRows
  <2> QED
    BY <1>1, <2>1, <2>2
<1>4. CASE SaveAlias(w)
  <2>1. handler[w].on = u /\ user'[u] = [handler[w].row EXCEPT !.alias = handler[w].alias]
    BY <1>4 DEF SaveAlias, UsersOK
  <2>2. user'[u].status = handler[w].row.status
    BY <1>2, <2>1 DEF UserRows
  <2> QED
    BY <1>1, <2>1, <2>2
<1> QED
  BY <1>3, <1>4

\* Whatever the interleaving, signing in after a suspension or a deletion does not lift it: an
\* account is let in again by an administrator, or by a handler that loaded its row before.
THEOREM BlockedStayOut == Spec => UnblockedOnlyByStaleRow
<1> DEFINE Unblocks(u) ==
             user[u].status \in Blocked /\ user'[u].status \notin Blocked =>
               \/ UpdateUserStatus(u, user'[u].status)
               \/ \E w \in Workers : SaveFlag(w)
               \/ \E w \in Workers : /\ handler[w].on = u /\ handler'[w] = Idle
                                     /\ handler[w].row.status \notin Blocked
<1>1. RowInv /\ [Next]_vars => [\A u \in Accounts : Unblocks(u)]_vars
  <2> SUFFICES ASSUME RowInv, Next, NEW u \in Accounts,
                      user[u].status \in Blocked, user'[u].status \notin Blocked
               PROVE  Unblocks(u)
    OBVIOUS
  <2>1. HandlersOK /\ UsersOK
    BY TypeParts DEF RowInv
  <2>2. user'[u] # user[u]
    OBVIOUS
  <2>3. ASSUME NEW w \in Workers, SaveUser(w) \/ SaveAlias(w) PROVE Unblocks(u)
    <3>1. /\ handler[w].on = u /\ handler'[w] = Idle
          /\ user'[u].status # handler[w].row.status => handler[w].row.status = "PENDING"
      BY <2>1, <2>2, <2>3, SavedStatus
    <3>2. handler[w].row.status \notin Blocked
      BY <3>1 DEF Blocked
    <3> QED
      BY <3>1, <3>2
  <2>4. ASSUME NEW w \in Workers, NEW v \in Accounts, Login(w, v) PROVE FALSE
    <3>1. v = u
      BY <2>1, <2>2, <2>4 DEF Login, UsersOK
    <3> QED
      BY <2>4, <3>1 DEF Login, Exists, Blocked
  <2>5. ASSUME NEW v \in Accounts, NEW status \in UserStatus, UpdateUserStatus(v, status)
        PROVE  UpdateUserStatus(u, user'[u].status)
    <3>1. v = u
      BY <2>1, <2>2, <2>5 DEF UpdateUserStatus, UsersOK
    <3>2. user'[u].status = status
      BY <2>1, <2>5, <3>1 DEF UpdateUserStatus, UsersOK, UserRows
    <3> QED
      BY <2>5, <3>1, <3>2
  <2>6. \/ UNCHANGED user
        \/ \E w \in Workers : \/ SaveUser(w) \/ SaveAlias(w) \/ SaveFlag(w)
                            \/ \E v \in Accounts : Login(w, v)
        \/ \E v \in Accounts, status \in UserStatus : UpdateUserStatus(v, status)
    BY DEF Next, Handle, Verify, LoadToFlag, LoadToAlias, SaveWallet, InsertLink, LoadLink,
           MarkUsed, LoadUser, Fail, Others, Forget, Expire, ResetTokenUsage, MoveMoney,
           CleanupTokens, ResetAllTokens, Discard, Restart
  <2> QED
    BY <2>2, <2>3, <2>4, <2>5, <2>6
<1> QED
  BY <1>1, RowInvariant, PTL DEF Spec, UnblockedOnlyByStaleRow
==============================================================================
