------------------------- MODULE NotificationProofs -------------------------
(***************************************************************************)
(* Theorems about Notifications, for any users, notifications, sockets and *)
(* any number of concurrent handlers.                                      *)
(***************************************************************************)
EXTENDS Notifications, TLAPS, FiniteSetTheorems

\* w will push u's count, and it will be, or already is, the true one.
Promises(h, u, n) ==
  /\ u \in h.left
  /\ \/ h.at = "count"
     \/ h.at = "push" /\ (h.on = u => h.count = n)

\* Every open socket has been sent the true count since it last changed, or will be; or a
\* handler failed, or markAllAsRead passed over a row.
Reported ==
  \A s \in connected :
    \/ UserOf[s] \in silent \cup missed
    \/ UnreadCount(UserOf[s]) \in told[s]
    \/ \E w \in Workers : Promises(handler[w], UserOf[s], UnreadCount(UserOf[s]))

\* A row about to be removed exists or existed, and is reported if it is still unread.
LoadedRows ==
  \A w \in Workers :
    handler[w].at = "remove" =>
      LET n == handler[w].on IN row[n] # "NEW" /\ (row[n] = "UNREAD" => handler[w].wasUnread)

NotificationInv == TypeOK /\ LoadedRows /\ Reported

------------------------------------------------------------------------------
(* Types.                                                                  *)
LEMMA CountsAreCounts ==
  ASSUME NEW rows, NEW u PROVE Cardinality(UnreadIn(rows, u)) \in Counts
<1>1. UnreadIn(rows, u) \subseteq Notifications
  BY DEF UnreadIn
<1>2. /\ Cardinality(Notifications) \in Nat
      /\ Cardinality(UnreadIn(rows, u)) \in Nat
      /\ Cardinality(UnreadIn(rows, u)) <= Cardinality(Notifications)
  BY <1>1, NotificationAssumption, FS_Subset, FS_CardinalityType
<1> QED
  BY <1>2 DEF Counts

LEMMA ZeroIsACount == 0 \in Counts
BY NotificationAssumption, FS_CardinalityType DEF Counts

\* Replacing a handler by a well-typed one.
LEMMA BecomesTyped ==
  ASSUME handler \in [Workers -> Handlers], \A v \in Workers : HandlerOK(handler[v]),
         NEW w \in Workers, NEW h \in Handlers, HandlerOK(h), Becomes(w, h)
  PROVE  /\ handler' \in [Workers -> Handlers]
         /\ \A v \in Workers : HandlerOK(handler'[v])
         /\ \A v \in Workers : handler'[v] = IF v = w THEN h ELSE handler[v]
BY DEF Becomes

LEMMA RewriteTyped ==
  ASSUME TypeOK, NEW rows \in [Notifications -> RowStatus],
         NEW passed \in SUBSET Users, Rewrite(rows, passed)
  PROVE  /\ row' \in [Notifications -> RowStatus]
         /\ told' \in [Sockets -> SUBSET Counts]
         /\ silent' \subseteq Users /\ missed' \subseteq Users
BY DEF TypeOK, Rewrite

LEMMA LeaveTyped ==
  ASSUME TypeOK, NEW gone, Leave(gone)
  PROVE  /\ connected' \subseteq Sockets
         /\ told' \in [Sockets -> SUBSET Counts]
BY DEF TypeOK, Leave

LEMMA IdleTyped == Idle \in Handlers /\ HandlerOK(Idle)
BY ZeroIsACount, NotificationAssumption DEF Idle, Handlers, HandlerOK

LEMMA TellingTyped ==
  ASSUME NEW left \in SUBSET Users, left # {}
  PROVE  Telling(left) \in Handlers /\ HandlerOK(Telling(left))
BY ZeroIsACount DEF Telling, Idle, Handlers, HandlerOK

LEMMA TypeInit == Init => TypeOK
BY IdleTyped, NotificationAssumption DEF Init, TypeOK, RowStatus

LEMMA TypeStep == TypeOK /\ [Next]_vars => TypeOK'
<1> SUFFICES ASSUME TypeOK, [Next]_vars PROVE TypeOK'
  OBVIOUS
<1> USE NotificationAssumption
<1>1. ASSUME NEW rows \in [Notifications -> RowStatus],
             NEW passed \in SUBSET Users, Rewrite(rows, passed),
             NEW w \in Workers, NEW h \in Handlers, HandlerOK(h), Becomes(w, h),
             UNCHANGED connected
      PROVE  TypeOK'
  BY <1>1, RewriteTyped, BecomesTyped DEF TypeOK
<1>2. ASSUME NEW w \in Workers, NEW h \in Handlers, HandlerOK(h), Becomes(w, h),
             UNCHANGED <<row, connected, told, silent>>, missed' \subseteq Users
      PROVE  TypeOK'
  BY <1>2, BecomesTyped DEF TypeOK
<1>3. ASSUME NEW w \in Workers, NEW batch \in SUBSET Notifications, Create(w, batch)
      PROVE  TypeOK'
  <2>1. [n \in Notifications |-> IF n \in batch THEN "UNREAD" ELSE row[n]]
          \in [Notifications -> RowStatus]
    BY DEF TypeOK, RowStatus
  <2>2. {Recipient[n] : n \in batch} \in SUBSET Users /\ {Recipient[n] : n \in batch} # {}
    BY <1>3 DEF Create
  <2> QED
    BY <1>1, <1>3, <2>1, <2>2, TellingTyped DEF Create
<1>4. ASSUME NEW w \in Workers, NEW n \in Notifications, LoadToRead(w, n) PROVE TypeOK'
  <2> DEFINE h == [Idle EXCEPT !.at = "saveRead", !.on = n]
  <2>1. h \in Handlers /\ HandlerOK(h)
    BY ZeroIsACount DEF Idle, Handlers, HandlerOK
  <2> QED
    BY <1>2, <1>4, <2>1 DEF LoadToRead, TypeOK
<1>5. ASSUME NEW w \in Workers, NEW n \in Notifications, LoadToDelete(w, n) PROVE TypeOK'
  <2> DEFINE h == [Idle EXCEPT !.at = "remove", !.on = n, !.wasUnread = (row[n] = "UNREAD")]
  <2>1. h \in Handlers /\ HandlerOK(h)
    BY ZeroIsACount DEF Idle, Handlers, HandlerOK
  <2> QED
    BY <1>2, <1>5, <2>1 DEF LoadToDelete, TypeOK
<1>6. ASSUME NEW w \in Workers, NEW u \in Users, MarkAllAsRead(w, u) PROVE TypeOK'
  <2> DEFINE h == [Idle EXCEPT !.at = "markAll", !.on = u, !.seen = UnreadIn(row, u)]
  <2>1. h \in Handlers /\ HandlerOK(h)
    BY ZeroIsACount DEF Idle, Handlers, HandlerOK, UnreadIn
  <2> QED
    BY <1>2, <1>6, <2>1 DEF MarkAllAsRead, TypeOK
<1>16. ASSUME NEW w \in Workers, CommitReads(w) PROVE TypeOK'
  <2> DEFINE u == handler[w].on
             marked == handler[w].seen \cap UnreadIn(row, u)
             h == [Telling({u}) EXCEPT !.at = "push", !.on = u]
             rows == [n \in Notifications |-> IF n \in marked THEN "READ" ELSE row[n]]
             passed == {v \in {u} : marked # {} /\ marked # UnreadIn(row, u)}
  <2>1. u \in Users
    BY <1>16 DEF CommitReads, TypeOK, HandlerOK
  <2>2. h \in Handlers /\ HandlerOK(h)
    BY <2>1, ZeroIsACount DEF Telling, Idle, Handlers, HandlerOK
  <2>3. rows \in [Notifications -> RowStatus] /\ passed \in SUBSET Users
    BY <2>1 DEF TypeOK, RowStatus
  <2>4. Rewrite(rows, passed) /\ Becomes(w, h) /\ UNCHANGED connected
    BY <1>16 DEF CommitReads
  <2> HIDE DEF h, rows, passed
  <2> QED
    BY <1>1, <2>2, <2>3, <2>4
<1>7. ASSUME NEW w \in Workers, NEW s \in Sockets, Connect(w, s) PROVE TypeOK'
  <2> DEFINE h == [Telling({UserOf[s]}) EXCEPT !.socket = s]
  <2>1. h \in Handlers /\ HandlerOK(h)
    BY ZeroIsACount DEF Telling, Idle, Handlers, HandlerOK
  <2> QED
    BY <1>7, <2>1, BecomesTyped DEF Connect, TypeOK
<1>8. ASSUME NEW w \in Workers, SaveRead(w) PROVE TypeOK'
  <2> DEFINE n == handler[w].on
  <2>1. n \in Notifications
    BY <1>8 DEF SaveRead, TypeOK, HandlerOK
  <2>2. Telling({Recipient[n]}) \in Handlers /\ HandlerOK(Telling({Recipient[n]}))
    BY <2>1, TellingTyped
  <2>3. [row EXCEPT ![n] = "READ"] \in [Notifications -> RowStatus]
    BY DEF TypeOK, RowStatus
  <2>4. {} \in SUBSET Users /\ missed \subseteq Users
    BY DEF TypeOK
  <2>5. CASE Rewrite([row EXCEPT ![n] = "READ"], {})
    BY <1>1, <1>8, <2>2, <2>3, <2>4, <2>5 DEF SaveRead
  <2>6. CASE UNCHANGED <<row, told, silent, missed>>
    BY <1>2, <1>8, <2>2, <2>4, <2>6 DEF SaveRead
  <2> QED
    BY <1>8, <2>5, <2>6 DEF SaveRead
<1>9. ASSUME NEW w \in Workers, Remove(w) PROVE TypeOK'
  <2> DEFINE n == handler[w].on
             h == IF handler[w].wasUnread THEN Telling({Recipient[n]}) ELSE Idle
  <2>1. n \in Notifications
    BY <1>9 DEF Remove, TypeOK, HandlerOK
  <2>2. h \in Handlers /\ HandlerOK(h)
    BY <2>1, TellingTyped, IdleTyped
  <2>3. [row EXCEPT ![n] = "DELETED"] \in [Notifications -> RowStatus]
    BY DEF TypeOK, RowStatus
  <2>4. {} \in SUBSET Users
    OBVIOUS
  <2>5. Rewrite([row EXCEPT ![n] = "DELETED"], {}) /\ Becomes(w, h) /\ UNCHANGED connected
    BY <1>9 DEF Remove
  <2> HIDE DEF h
  <2> QED
    BY <1>1, <2>2, <2>3, <2>4, <2>5
<1>10. ASSUME NEW w \in Workers, Count(w) PROVE TypeOK'
  <2>1. PICK u \in Owed(w) : Becomes(w, [handler[w] EXCEPT !.at = "push", !.on = u,
                                                           !.count = UnreadCount(u)])
    BY <1>10 DEF Count
  <2> DEFINE h == [handler[w] EXCEPT !.at = "push", !.on = u, !.count = UnreadCount(u)]
  <2>2. UnreadCount(u) \in Counts
    BY CountsAreCounts DEF UnreadCount
  <2>3. u \in Users
    BY <2>1 DEF Owed, TypeOK, Handlers
  <2>4. handler[w] \in Handlers
    BY DEF TypeOK
  <2>5. h \in Handlers /\ h.at = "push" /\ h.on = u /\ h.left = Owed(w)
    BY <2>2, <2>3, <2>4 DEF Handlers, Owed
  <2>6. HandlerOK(h)
    BY <2>1, <2>5 DEF HandlerOK
  <2> QED
    BY <1>2, <1>10, <2>1, <2>5, <2>6 DEF Count, TypeOK
<1>11. ASSUME NEW w \in Workers, Push(w) PROVE TypeOK'
  <2> DEFINE u == handler[w].on
             h == After(w, u)
  <2>1. h \in Handlers /\ HandlerOK(h)
    <3> DEFINE rest == [handler[w] EXCEPT !.at = "count", !.on = None, !.count = 0,
                                          !.left = @ \ {u}]
    <3>1. u \in Owed(w) /\ handler[w] \in Handlers
      BY <1>11 DEF Push, TypeOK, HandlerOK, Owed
    <3>2. rest \in Handlers
      BY <3>1, ZeroIsACount DEF Handlers
    <3>3. rest.at = "count" /\ rest.left = Owed(w) \ {u}
      BY <3>1 DEF Handlers, Owed
    <3>4. ASSUME Owed(w) # {u} PROVE HandlerOK(rest)
      BY <3>1, <3>3, <3>4 DEF HandlerOK
    <3> QED
      BY <3>2, <3>4, IdleTyped DEF After
  <2>2. handler[w].count \in Counts
    BY DEF TypeOK, Handlers
  <2>3. told' \in [Sockets -> SUBSET Counts]
    BY <1>11, <2>2 DEF Push, TypeOK
  <2>4. Becomes(w, h) /\ UNCHANGED <<row, connected, silent, missed>>
    BY <1>11 DEF Push
  <2> QED
    BY <2>1, <2>3, <2>4, BecomesTyped DEF TypeOK
<1>12. ASSUME NEW w \in Workers, Fail(w) PROVE TypeOK'
  <2>1. Becomes(w, Idle) /\ UNCHANGED <<row, missed>> /\ silent' \subseteq Users
    BY <1>12 DEF Fail, Owed, TypeOK, Handlers
  <2> QED
    BY <1>12, <2>1, IdleTyped, BecomesTyped, LeaveTyped DEF Fail, TypeOK
<1>13. ASSUME NEW s \in Sockets, Disconnect(s) PROVE TypeOK'
  BY <1>13, LeaveTyped DEF Disconnect, TypeOK
<1>14. CASE Restart
  <2>1. handler' \in [Workers -> Handlers] /\ \A w \in Workers : HandlerOK(handler'[w])
    BY <1>14, IdleTyped DEF Restart
  <2> QED
    BY <1>14, <2>1, LeaveTyped DEF Restart, TypeOK
<1>15. CASE UNCHANGED vars
  BY <1>15 DEF vars, TypeOK
<1> QED
  BY <1>3, <1>4, <1>5, <1>6, <1>7, <1>8, <1>9, <1>10, <1>11, <1>12, <1>13, <1>14, <1>15, <1>16
  DEF Next, Handle

\* TypeOK holds in every reachable state: in particular every handler that owes its users a
\* count is on its way to push it.
THEOREM NotificationTypes == Spec => []TypeOK
BY TypeInit, TypeStep, PTL DEF Spec

------------------------------------------------------------------------------
(* Every change is reported.                                               *)

\* A handler that begins, or goes on, without owing anything before: what it leaves
\* unchanged stays reported, what it changes it promises to report.
LEMMA ChangeReported ==
  ASSUME TypeOK, Reported,
         NEW rows \in [Notifications -> RowStatus], NEW passed, Rewrite(rows, passed),
         NEW w \in Workers, NEW h, Becomes(w, h), Owed(w) = {}, connected' = connected,
         \A u \in Users : UnreadIn(rows, u) # UnreadIn(row, u)
                            => \/ u \in passed
                               \/ Promises(h, u, Cardinality(UnreadIn(rows, u)))
  PROVE  Reported'
<1> SUFFICES ASSUME NEW s \in connected
             PROVE  \/ UserOf[s] \in silent' \cup missed'
                    \/ UnreadCount(UserOf[s])' \in told'[s]
                    \/ \E v \in Workers :
                         Promises(handler'[v], UserOf[s], UnreadCount(UserOf[s])')
  BY DEF Reported, Promises
<1> DEFINE u == UserOf[s]
<1>1. s \in Sockets /\ u \in Users
  BY NotificationAssumption DEF TypeOK
<1>2. UnreadCount(u)' = Cardinality(UnreadIn(rows, u))
  BY DEF Rewrite, UnreadCount, UnreadIn
<1>3. handler'[w] = h /\ \A v \in Workers \ {w} : handler'[v] = handler[v]
  BY DEF Becomes, TypeOK
<1>4. CASE UnreadIn(rows, u) = UnreadIn(row, u)
  <2>1. told'[s] = told[s] /\ (u \in silent => u \in silent') /\ (u \in missed => u \in missed')
    BY <1>1, <1>4 DEF Rewrite
  <2>2. UnreadCount(u)' = UnreadCount(u)
    BY <1>2, <1>4 DEF UnreadCount
  <2>3. ASSUME NEW v \in Workers, Promises(handler[v], u, UnreadCount(u))
        PROVE  Promises(handler'[v], u, UnreadCount(u))
    BY <1>3, <2>3 DEF Promises, Owed
  <2> QED
    BY <2>1, <2>2, <2>3 DEF Reported
<1>5. CASE UnreadIn(rows, u) # UnreadIn(row, u)
  BY <1>1, <1>2, <1>3, <1>5 DEF Rewrite
<1> QED
  BY <1>4, <1>5

\* Steps that change no row, and after which every promise is kept, were it by another
\* handler or by having been pushed.
LEMMA PromisesKept ==
  ASSUME Reported, row' = row, silent \subseteq silent', connected' \subseteq connected,
         \A s \in connected' : told[s] \subseteq told'[s],
         NEW w \in Workers, \A v \in Workers \ {w} : handler'[v] = handler[v],
         \A s \in connected' :
           UserOf[s] \in missed \/ Promises(handler[w], UserOf[s], UnreadCount(UserOf[s]))
             => \/ UserOf[s] \in missed'
                \/ Promises(handler'[w], UserOf[s], UnreadCount(UserOf[s]))
                \/ UnreadCount(UserOf[s]) \in told'[s]
                \/ UserOf[s] \in silent'
  PROVE  Reported'
<1> SUFFICES ASSUME NEW s \in connected'
             PROVE  \/ UserOf[s] \in silent' \cup missed'
                    \/ UnreadCount(UserOf[s])' \in told'[s]
                    \/ \E v \in Workers :
                         Promises(handler'[v], UserOf[s], UnreadCount(UserOf[s])')
  BY DEF Reported, Promises
<1>1. UnreadCount(UserOf[s])' = UnreadCount(UserOf[s])
  BY DEF UnreadCount, UnreadIn
<1>2. \/ UserOf[s] \in silent \cup missed
      \/ UnreadCount(UserOf[s]) \in told[s]
      \/ \E v \in Workers : Promises(handler[v], UserOf[s], UnreadCount(UserOf[s]))
  BY DEF Reported
<1>3. ASSUME NEW v \in Workers, v # w, Promises(handler[v], UserOf[s], UnreadCount(UserOf[s]))
      PROVE  Promises(handler'[v], UserOf[s], UnreadCount(UserOf[s]))
  BY <1>3
<1> QED
  BY <1>1, <1>2, <1>3

LEMMA TellingPromises ==
  ASSUME NEW left, NEW u \in left, NEW n PROVE Promises(Telling(left), u, n)
BY DEF Promises, Telling, Idle

(* Rows become unread when they are created and at no other time.          *)
RowSteps ==
  \A n \in Notifications : /\ row'[n] = "UNREAD" => row[n] \in {"NEW", "UNREAD"}
                           /\ row'[n] = "NEW" => row[n] = "NEW"

LEMMA RowsMoveOn == TypeOK /\ [Next]_vars => RowSteps
<1> SUFFICES ASSUME TypeOK, [Next]_vars PROVE RowSteps
  OBVIOUS
<1> USE DEF RowSteps, TypeOK
<1>1. ASSUME NEW w \in Workers, NEW batch \in SUBSET Notifications, Create(w, batch)
      PROVE  RowSteps
  BY <1>1 DEF Create, Rewrite
<1>2. ASSUME NEW w \in Workers, CommitReads(w) PROVE RowSteps
  BY <1>2 DEF CommitReads, Rewrite
<1>3. ASSUME NEW w \in Workers, SaveRead(w) PROVE RowSteps
  BY <1>3 DEF SaveRead, Rewrite
<1>4. ASSUME NEW w \in Workers, Remove(w) PROVE RowSteps
  BY <1>4 DEF Remove, Rewrite
<1>5. ASSUME row' = row PROVE RowSteps
  BY <1>5
<1> QED
  BY <1>1, <1>2, <1>3, <1>4, <1>5
  DEF Next, Handle, LoadToRead, LoadToDelete, MarkAllAsRead, Connect, Count, Push, Fail, Disconnect, Restart,
      vars

\* A notification that was read or deleted does not count as unread again.
THEOREM ReadForGood == Spec => OnceReadNeverUnread
<1>1. TypeOK /\ [Next]_vars
        => [\A n \in Notifications : row'[n] = "UNREAD" => row[n] \in {"NEW", "UNREAD"}]_vars
  BY RowsMoveOn DEF RowSteps
<1> QED
  BY <1>1, NotificationTypes, PTL DEF Spec, OnceReadNeverUnread

LEMMA LoadedRowsStep == TypeOK /\ LoadedRows /\ [Next]_vars => LoadedRows'
<1> SUFFICES ASSUME TypeOK, LoadedRows, [Next]_vars, NEW v \in Workers, handler'[v].at = "remove"
             PROVE  LET n == handler'[v].on
                    IN  row'[n] # "NEW" /\ (row'[n] = "UNREAD" => handler'[v].wasUnread)
  BY DEF LoadedRows
<1>1. CASE handler'[v] = handler[v]
  <2>1. handler[v].on \in Notifications
    BY <1>1 DEF TypeOK, HandlerOK
  <2> QED
    BY <1>1, <2>1, RowsMoveOn DEF RowSteps, LoadedRows
<1>2. ASSUME NEW w \in Workers, NEW n \in Notifications, LoadToDelete(w, n),
             handler'[v] # handler[v]
      PROVE  handler'[v].on = n /\ row'[n] # "NEW" /\ (row'[n] = "UNREAD" => handler'[v].wasUnread)
  <2>1. w = v /\ handler'[v] = [Idle EXCEPT !.at = "remove", !.on = n,
                                           !.wasUnread = (row[n] = "UNREAD")]
    BY <1>2 DEF LoadToDelete, Becomes, TypeOK
  <2> QED
    BY <1>2, <2>1 DEF LoadToDelete, Idle
<1>3. ASSUME NEW w \in Workers, NEW h, h.at # "remove", Becomes(w, h)
      PROVE  handler'[v] = handler[v]
  BY <1>3 DEF Becomes, TypeOK
<1>4. Idle.at # "remove" /\ \A left : Telling(left).at # "remove"
  BY DEF Idle, Telling
<1>5. ASSUME NEW w \in Workers, NEW n \in Notifications, LoadToRead(w, n)
      PROVE  handler'[v] = handler[v]
  <2>1. [Idle EXCEPT !.at = "saveRead", !.on = n].at # "remove"
    BY DEF Idle
  <2> QED
    BY <1>3, <1>5, <2>1 DEF LoadToRead
<1>6. ASSUME NEW w \in Workers, NEW u \in Users, MarkAllAsRead(w, u)
      PROVE  handler'[v] = handler[v]
  <2>1. [Idle EXCEPT !.at = "markAll", !.on = u, !.seen = UnreadIn(row, u)].at # "remove"
    BY DEF Idle
  <2> QED
    BY <1>3, <1>6, <2>1 DEF MarkAllAsRead
<1>15. ASSUME NEW w \in Workers, CommitReads(w) PROVE handler'[v] = handler[v]
  <2>1. \A u : [Telling({u}) EXCEPT !.at = "push", !.on = u].at # "remove"
    BY DEF Idle, Telling
  <2> QED
    BY <1>3, <1>15, <2>1 DEF CommitReads
<1>7. ASSUME NEW w \in Workers, NEW s \in Sockets, Connect(w, s)
      PROVE  handler'[v] = handler[v]
  <2>1. [Telling({UserOf[s]}) EXCEPT !.socket = s].at # "remove"
    BY DEF Idle, Telling
  <2> QED
    BY <1>3, <1>7, <2>1 DEF Connect
<1>8. ASSUME NEW w \in Workers, Count(w) PROVE handler'[v] = handler[v]
  <2>1. PICK u \in Owed(w) : Becomes(w, [handler[w] EXCEPT !.at = "push", !.on = u,
                                                           !.count = UnreadCount(u)])
    BY <1>8 DEF Count
  <2>2. [handler[w] EXCEPT !.at = "push", !.on = u, !.count = UnreadCount(u)].at # "remove"
    BY DEF TypeOK, Handlers
  <2> QED
    BY <1>3, <2>1, <2>2
<1>9. ASSUME NEW w \in Workers, Push(w) PROVE handler'[v] = handler[v]
  <2> DEFINE u == handler[w].on
  <2>1. [handler[w] EXCEPT !.at = "count", !.on = None, !.count = 0, !.left = @ \ {u}].at
          # "remove"
    BY DEF TypeOK, Handlers
  <2>2. After(w, u).at # "remove"
    BY <1>4, <2>1 DEF After
  <2> QED
    BY <1>3, <1>9, <2>2 DEF Push
<1>10. ASSUME NEW w \in Workers, NEW batch, Create(w, batch) PROVE handler'[v] = handler[v]
  BY <1>3, <1>4, <1>10 DEF Create
<1>11. ASSUME NEW w \in Workers, SaveRead(w) PROVE handler'[v] = handler[v]
  BY <1>3, <1>4, <1>11 DEF SaveRead
<1>12. ASSUME NEW w \in Workers, Remove(w) PROVE handler'[v] = handler[v]
  <2>1. (IF handler[w].wasUnread THEN Telling({Recipient[handler[w].on]}) ELSE Idle).at
          # "remove"
    BY <1>4
  <2> QED
    BY <1>3, <1>12, <2>1 DEF Remove
<1>13. ASSUME NEW w \in Workers, Fail(w) PROVE handler'[v] = handler[v]
  BY <1>3, <1>4, <1>13 DEF Fail
<1>14. ~ Restart
  BY <1>4 DEF Restart
<1> QED
  BY <1>1, <1>2, <1>5, <1>6, <1>7, <1>8, <1>9, <1>10, <1>11, <1>12, <1>13, <1>14, <1>15
  DEF Next, Handle, Disconnect, vars

LEMMA ReportedStep == TypeOK /\ LoadedRows /\ Reported /\ [Next]_vars => Reported'
<1> SUFFICES ASSUME TypeOK, LoadedRows, Reported, [Next]_vars PROVE Reported'
  OBVIOUS
<1> USE NotificationAssumption
<1>1. ASSUME NEW w \in Workers, handler[w].at \in {"idle", "saveRead", "markAll", "remove"}
      PROVE  Owed(w) = {}
  BY <1>1 DEF TypeOK, HandlerOK, Owed
<1>2. ASSUME NEW w \in Workers, NEW h, Becomes(w, h), Owed(w) = {},
             UNCHANGED <<row, connected, told, silent, missed>>
      PROVE  Reported'
  <2>1. \A v \in Workers \ {w} : handler'[v] = handler[v]
    BY <1>2 DEF Becomes, TypeOK
  <2>2. \A u, n : ~ Promises(handler[w], u, n)
    BY <1>2 DEF Promises, Owed
  <2> QED
    BY <1>2, <2>1, <2>2, PromisesKept
<1>3. ASSUME NEW w \in Workers, NEW batch \in SUBSET Notifications, Create(w, batch)
      PROVE  Reported'
  <2> DEFINE rows == [n \in Notifications |-> IF n \in batch THEN "UNREAD" ELSE row[n]]
             left == {Recipient[n] : n \in batch}
  <2>1. rows \in [Notifications -> RowStatus]
    BY DEF TypeOK, RowStatus
  <2>2. Owed(w) = {}
    BY <1>1, <1>3 DEF Create, IdleWorker
  <2>3. ASSUME NEW u \in Users, UnreadIn(rows, u) # UnreadIn(row, u)
        PROVE  Promises(Telling(left), u, Cardinality(UnreadIn(rows, u)))
    <3>1. u \in left
      BY <2>3 DEF UnreadIn
    <3> QED
      BY <3>1, TellingPromises
  <2> QED
    BY <1>3, <2>1, <2>2, <2>3, ChangeReported DEF Create
<1>4. ASSUME NEW w \in Workers, NEW n \in Notifications, LoadToRead(w, n) PROVE Reported'
  BY <1>1, <1>2, <1>4 DEF LoadToRead, IdleWorker
<1>5. ASSUME NEW w \in Workers, NEW n \in Notifications, LoadToDelete(w, n) PROVE Reported'
  BY <1>1, <1>2, <1>5 DEF LoadToDelete, IdleWorker
<1>6. ASSUME NEW w \in Workers, NEW u \in Users, MarkAllAsRead(w, u) PROVE Reported'
  BY <1>1, <1>2, <1>6 DEF MarkAllAsRead, IdleWorker
<1>16. ASSUME NEW w \in Workers, CommitReads(w) PROVE Reported'
  <2> DEFINE u == handler[w].on
             marked == handler[w].seen \cap UnreadIn(row, u)
             rows == [n \in Notifications |-> IF n \in marked THEN "READ" ELSE row[n]]
             passed == {v \in {u} : marked # {} /\ marked # UnreadIn(row, u)}
             h == [Telling({u}) EXCEPT !.at = "push", !.on = u]
  <2>1. rows \in [Notifications -> RowStatus]
    BY DEF TypeOK, RowStatus
  <2>2. Owed(w) = {}
    BY <1>1, <1>16 DEF CommitReads
  <2>3. ASSUME NEW v \in Users, UnreadIn(rows, v) # UnreadIn(row, v), v \notin passed
        PROVE  Promises(h, v, Cardinality(UnreadIn(rows, v)))
    <3>1. UnreadIn(rows, v) = UnreadIn(row, v) \ marked
      BY DEF UnreadIn
    <3>2. v = u /\ marked # {}
      BY <2>3, <3>1 DEF UnreadIn
    <3>3. UnreadIn(rows, v) = {}
      BY <2>3, <3>1, <3>2
    <3>4. Cardinality(UnreadIn(rows, v)) = 0
      BY <3>3, FS_EmptySet
    <3>5. h.left = {u} /\ h.at = "push" /\ h.on = u /\ h.count = 0
      BY DEF Telling, Idle
    <3> QED
      BY <3>2, <3>4, <3>5 DEF Promises
  <2>4. Rewrite(rows, passed) /\ Becomes(w, h) /\ connected' = connected
    BY <1>16 DEF CommitReads
  <2> HIDE DEF rows, passed, h
  <2> QED
    BY <2>1, <2>2, <2>3, <2>4, ChangeReported
<1>7. ASSUME NEW w \in Workers, NEW s \in Sockets, Connect(w, s) PROVE Reported'
  <2>1. /\ handler'[w] = [Telling({UserOf[s]}) EXCEPT !.socket = s]
        /\ \A v \in Workers \ {w} : handler'[v] = handler[v]
    BY <1>7 DEF Connect, Becomes, TypeOK
  <2>2. Owed(w) = {}
    BY <1>1, <1>7 DEF Connect, IdleWorker
  <2>3. \A n : Promises(handler'[w], UserOf[s], n)
    BY <2>1 DEF Promises, Telling, Idle
  <2>4. \A u : UnreadCount(u)' = UnreadCount(u)
    BY <1>7 DEF Connect, UnreadCount, UnreadIn
  <2>5. connected' = connected \cup {s} /\ UNCHANGED <<told, silent, missed>>
    BY <1>7 DEF Connect
  <2>6. ASSUME NEW v \in Workers, NEW u, NEW n, Promises(handler[v], u, n)
        PROVE  Promises(handler'[v], u, n)
    BY <2>1, <2>2, <2>6 DEF Promises, Owed
  <2>7. ASSUME NEW t \in connected'
        PROVE  \/ UserOf[t] \in silent' \cup missed'
               \/ UnreadCount(UserOf[t])' \in told'[t]
               \/ \E v \in Workers : Promises(handler'[v], UserOf[t], UnreadCount(UserOf[t])')
    <3>1. CASE t = s
      BY <2>3, <3>1
    <3>2. CASE t # s
      BY <2>4, <2>5, <2>6, <3>2 DEF Reported
    <3> QED
      BY <3>1, <3>2
  <2> QED
    BY <2>7 DEF Reported, Promises
<1>8. ASSUME NEW w \in Workers, SaveRead(w) PROVE Reported'
  <2> DEFINE n == handler[w].on
             rows == [row EXCEPT ![n] = "READ"]
  <2>1. Owed(w) = {}
    BY <1>1, <1>8 DEF SaveRead
  <2>2. n \in Notifications /\ rows \in [Notifications -> RowStatus]
    BY <1>8 DEF SaveRead, TypeOK, HandlerOK, RowStatus
  <2>3. ASSUME NEW u \in Users, UnreadIn(rows, u) # UnreadIn(row, u)
        PROVE  Promises(Telling({Recipient[n]}), u, Cardinality(UnreadIn(rows, u)))
    <3>1. u = Recipient[n]
      BY <2>2, <2>3 DEF UnreadIn, TypeOK
    <3> QED
      BY <3>1, TellingPromises
  <2>4. CASE Rewrite(rows, {})
    BY <1>8, <2>1, <2>2, <2>3, <2>4, ChangeReported DEF SaveRead
  <2>5. CASE UNCHANGED <<row, told, silent, missed>>
    BY <1>2, <1>8, <2>1, <2>5 DEF SaveRead
  <2> QED
    BY <1>8, <2>4, <2>5 DEF SaveRead
<1>9. ASSUME NEW w \in Workers, Remove(w) PROVE Reported'
  <2> DEFINE n == handler[w].on
             rows == [row EXCEPT ![n] = "DELETED"]
             h == IF handler[w].wasUnread THEN Telling({Recipient[n]}) ELSE Idle
  <2>1. Owed(w) = {}
    BY <1>1, <1>9 DEF Remove
  <2>2. n \in Notifications /\ rows \in [Notifications -> RowStatus]
    BY <1>9 DEF Remove, TypeOK, HandlerOK, RowStatus
  <2>3. ASSUME NEW u \in Users, UnreadIn(rows, u) # UnreadIn(row, u)
        PROVE  Promises(h, u, Cardinality(UnreadIn(rows, u)))
    <3>1. u = Recipient[n] /\ row[n] = "UNREAD"
      BY <2>2, <2>3 DEF UnreadIn, TypeOK
    <3>2. handler[w].wasUnread
      BY <1>9, <3>1 DEF Remove, LoadedRows
    <3> QED
      BY <3>1, <3>2, TellingPromises
  <2> QED
    BY <1>9, <2>1, <2>2, <2>3, ChangeReported DEF Remove
<1>10. ASSUME NEW w \in Workers, Count(w) PROVE Reported'
  <2>1. PICK u \in Owed(w) : /\ Becomes(w, [handler[w] EXCEPT !.at = "push", !.on = u,
                                                              !.count = UnreadCount(u)])
                             /\ missed' = missed \ {u}
    BY <1>10 DEF Count
  <2>2. /\ handler'[w] = [handler[w] EXCEPT !.at = "push", !.on = u, !.count = UnreadCount(u)]
        /\ \A v \in Workers \ {w} : handler'[v] = handler[v]
    BY <2>1 DEF Becomes, TypeOK
  <2>3. /\ handler'[w].at = "push" /\ handler'[w].on = u
        /\ handler'[w].left = Owed(w) /\ handler'[w].count = UnreadCount(u)
    BY <2>2 DEF Owed, TypeOK, Handlers
  <2>4. ASSUME NEW v, Promises(handler[w], v, UnreadCount(v)) \/ v = u
        PROVE  Promises(handler'[w], v, UnreadCount(v))
    BY <2>1, <2>3, <2>4 DEF Promises, Owed
  <2> QED
    BY <1>10, <2>1, <2>2, <2>4, PromisesKept DEF Count
<1>11. ASSUME NEW w \in Workers, Push(w) PROVE Reported'
  <2> DEFINE u == handler[w].on
             rest == [handler[w] EXCEPT !.at = "count", !.on = None, !.count = 0,
                                        !.left = @ \ {u}]
  <2>1. /\ handler'[w] = After(w, u)
        /\ \A v \in Workers \ {w} : handler'[v] = handler[v]
    BY <1>11 DEF Push, Becomes, TypeOK
  <2>2. rest.at = "count" /\ rest.left = Owed(w) \ {u}
    BY DEF Owed, TypeOK, Handlers
  <2>3. ASSUME NEW s \in connected, Promises(handler[w], UserOf[s], UnreadCount(UserOf[s]))
        PROVE  \/ Promises(handler'[w], UserOf[s], UnreadCount(UserOf[s]))
               \/ UnreadCount(UserOf[s]) \in told'[s]
    <3>1. CASE UserOf[s] = u
      BY <1>11, <2>3, <3>1 DEF Push, Promises, TypeOK
    <3>2. CASE UserOf[s] # u
      <4>1. UserOf[s] \in Owed(w) \ {u} /\ Owed(w) # {u}
        BY <2>3, <3>2 DEF Promises, Owed
      <4> QED
        BY <2>1, <2>2, <4>1 DEF After, Promises
    <3> QED
      BY <3>1, <3>2
  <2>4. /\ UNCHANGED <<row, silent, missed, connected>>
        /\ \A s \in connected : told[s] \subseteq told'[s]
    BY <1>11 DEF Push, TypeOK
  <2> QED
    BY <2>1, <2>3, <2>4, PromisesKept
<1>12. ASSUME NEW w \in Workers, Fail(w) PROVE Reported'
  <2>1. /\ UNCHANGED <<row, missed>> /\ silent' = silent \cup Owed(w)
        /\ connected' \subseteq connected
        /\ \A s \in connected' : told'[s] = told[s]
    BY <1>12 DEF Fail, Leave, TypeOK
  <2>2. \A v \in Workers \ {w} : handler'[v] = handler[v]
    BY <1>12 DEF Fail, Becomes, TypeOK
  <2>3. ASSUME NEW v, NEW n, Promises(handler[w], v, n) PROVE v \in silent'
    BY <2>1, <2>3 DEF Promises, Owed
  <2> QED
    BY <2>1, <2>2, <2>3, PromisesKept
<1>13. ASSUME NEW s \in Sockets, Disconnect(s) PROVE Reported'
  <2>1. /\ UNCHANGED <<row, handler, silent, missed>> /\ connected' \subseteq connected
        /\ \A t \in connected' : told'[t] = told[t]
    BY <1>13 DEF Disconnect, Leave, TypeOK
  <2>2. \A u : UnreadCount(u)' = UnreadCount(u)
    BY <2>1 DEF UnreadCount, UnreadIn
  <2> QED
    BY <2>1, <2>2 DEF Reported, Promises
<1>14. CASE Restart
  <2>1. connected' = {}
    BY <1>14 DEF Restart, Leave, TypeOK
  <2> QED
    BY <2>1 DEF Reported
<1>15. CASE UNCHANGED vars
  BY <1>15 DEF vars, Reported, Promises, UnreadCount, UnreadIn
<1> QED
  BY <1>3, <1>4, <1>5, <1>6, <1>7, <1>8, <1>9, <1>10, <1>11, <1>12, <1>13, <1>14, <1>15, <1>16
  DEF Next, Handle

LEMMA ReportedMeansArrived == NotificationInv => FreshCountArrives
BY DEF NotificationInv, Reported, FreshCountArrives, Promises, Owed

\* Once no handler owes a user a count, every socket the user has open has been sent the
\* true one, unless a handler failed after the change, or it is markAllAsRead's that passed
\* over a row and nobody has counted since.
THEOREM ChangesAreReported == Spec => []FreshCountArrives
<1>1. Init => NotificationInv
  <2>1. Init => LoadedRows /\ Reported
    BY DEF Init, LoadedRows, Reported, Idle
  <2> QED
    BY <2>1, TypeInit DEF NotificationInv
<1>2. NotificationInv /\ [Next]_vars => NotificationInv'
  BY TypeStep, LoadedRowsStep, ReportedStep DEF NotificationInv
<1> QED
  BY <1>1, <1>2, ReportedMeansArrived, PTL DEF Spec
==============================================================================
