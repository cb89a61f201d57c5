---------------------------- MODULE Notifications ----------------------------
(***************************************************************************)
(* NotificationService and NotificationGateway: notifications are created, *)
(* read and deleted by concurrent handlers, each of which writes, then     *)
(* counts the user's unread rows, then pushes that number to every socket  *)
(* the user has open.  Between any two awaits the other handlers run.      *)
(*                                                                         *)
(* Left out: the event that carries the notification itself, preferences   *)
(* and mails (processNotificationChannels reads and catches its errors).   *)
(***************************************************************************)
EXTENDS Integers, FiniteSets

CONSTANTS Users,
          Notifications, Recipient,   \* Recipient[n]: the userId of notification n
          Sockets, UserOf,            \* UserOf[s]: the sub of the token s connects with
          Workers,                    \* handlers that may run at the same time
          None                        \* no notification, no socket

ASSUME NotificationAssumption ==
  /\ IsFiniteSet(Notifications)
  /\ Recipient \in [Notifications -> Users]
  /\ UserOf \in [Sockets -> Users]
  /\ None \notin Notifications /\ None \notin Sockets

VARIABLES row,        \* row[n]: the notification's row
          connected,  \* the gateway's connectedClients, each in its user's room
          handler,    \* handler[w]: what the handler that w runs has to do
          told,       \* history: the counts pushed to s since its user's unread rows changed
          silent,     \* history: the users whose change was reported by nobody, for an error
          missed      \* history: the users with a row that markAllAsRead passed over, and
                      \* whose rows nobody has counted since

vars == <<row, connected, handler, told, silent, missed>>

RowStatus == {"NEW", "UNREAD", "READ", "DELETED"}

Idle == [at |-> "idle", on |-> None, wasUnread |-> FALSE, seen |-> {}, left |-> {},
         count |-> 0, socket |-> None]

\* A handler that has still to count and push for the users in left.
Telling(left) == [Idle EXCEPT !.at = "count", !.left = left]

UnreadIn(rows, u) == {n \in Notifications : Recipient[n] = u /\ rows[n] = "UNREAD"}
UnreadCount(u) == Cardinality(UnreadIn(row, u))

\* The users w has still to push a count to.
Owed(w) == handler[w].left

IdleWorker(w) == handler[w].at = "idle"
Becomes(w, h) == handler' = [handler EXCEPT ![w] = h]

\* Bookkeeping of the histories when the rows become rows, and the users in passed keep
\* unread ones that were passed over.
Rewrite(rows, passed) ==
  LET same(u) == UnreadIn(rows, u) = UnreadIn(row, u) IN
  /\ row' = rows
  /\ missed' = {u \in missed : same(u)} \cup passed
  /\ told' = [s \in Sockets |-> IF same(UserOf[s]) THEN told[s] ELSE {}]
  /\ silent' = {u \in silent : same(u)}

Init ==
  /\ row = [n \in Notifications |-> "NEW"]
  /\ connected = {}
  /\ handler = [w \in Workers |-> Idle]
  /\ told = [s \in Sockets |-> {}]
  /\ silent = {}
  /\ missed = {}

------------------------------------------------------------------------------
(* The handlers up to the point at which they tell their users.            *)

\* createNotification and createBulkNotifications, one notification for each of the users
\* they find: one transaction inserts the rows of a batch.
Create(w, batch) ==
  /\ IdleWorker(w)
  /\ batch # {} /\ \A n \in batch : row[n] = "NEW"
  /\ \A m, n \in batch : Recipient[m] = Recipient[n] => m = n
  /\ Rewrite([n \in Notifications |-> IF n \in batch THEN "UNREAD" ELSE row[n]], {})
  /\ Becomes(w, Telling({Recipient[n] : n \in batch}))
  /\ UNCHANGED connected

\* markAsRead loads the row, and has nothing to do if it is read already.
LoadToRead(w, n) ==
  /\ IdleWorker(w)
  /\ row[n] = "UNREAD"
  /\ Becomes(w, [Idle EXCEPT !.at = "saveRead", !.on = n])
  /\ UNCHANGED <<row, connected, told, silent, missed>>

\* Mutant: a row that is gone is inserted anew with the column's default.
SaveRead_DefaultsOnInsert(w) ==
  LET n == handler[w].on IN
  /\ handler[w].at = "saveRead"
  /\ Rewrite([row EXCEPT ![n] = IF @ = "DELETED" THEN "UNREAD" ELSE "READ"], {})
  /\ Becomes(w, Telling({Recipient[n]}))
  /\ UNCHANGED connected

\* Mutant: the unread rows are counted before the row is saved.
SaveRead_CountsFirst(w) ==
  LET n == handler[w].on IN
  /\ handler[w].at = "saveRead"
  /\ Rewrite([row EXCEPT ![n] = "READ"], {})
  /\ Becomes(w, [Telling({Recipient[n]}) EXCEPT !.at = "push", !.on = Recipient[n],
                                                !.count = UnreadCount(Recipient[n])])
  /\ UNCHANGED connected

\* save() inserts the row again if it finds it deleted; its UPDATE does nothing if the row
\* goes after save() has found it.
SaveRead(w) ==
  LET n == handler[w].on IN
  /\ handler[w].at = "saveRead"
  /\ \/ Rewrite([row EXCEPT ![n] = "READ"], {})
     \/ row[n] = "DELETED" /\ UNCHANGED <<row, told, silent, missed>>
  /\ Becomes(w, Telling({Recipient[n]}))
  /\ UNCHANGED connected

\* markAllAsRead: one UPDATE, which finds the rows of its snapshot and may then have to wait
\* for one that is locked.
MarkAllAsRead(w, u) ==
  /\ IdleWorker(w)
  /\ Becomes(w, [Idle EXCEPT !.at = "markAll", !.on = u, !.seen = UnreadIn(row, u)])
  /\ UNCHANGED <<row, connected, told, silent, missed>>

\* It marks those of them that are still unread, none that was inserted since, and pushes 0
\* without counting.
CommitReads(w) ==
  LET u == handler[w].on
      marked == handler[w].seen \cap UnreadIn(row, u)
  IN
  /\ handler[w].at = "markAll"
  /\ Rewrite([n \in Notifications |-> IF n \in marked THEN "READ" ELSE row[n]],
             {v \in {u} : marked # {} /\ marked # UnreadIn(row, u)})
  /\ Becomes(w, [Telling({u}) EXCEPT !.at = "push", !.on = u])
  /\ UNCHANGED connected

LoadToDelete(w, n) ==
  /\ IdleWorker(w)
  /\ row[n] \in {"UNREAD", "READ"}
  /\ Becomes(w, [Idle EXCEPT !.at = "remove", !.on = n, !.wasUnread = (row[n] = "UNREAD")])
  /\ UNCHANGED <<row, connected, told, silent, missed>>

\* deleteNotification reports a row that was unread when it was loaded.
Remove(w) ==
  LET n == handler[w].on IN
  /\ handler[w].at = "remove"
  /\ Rewrite([row EXCEPT ![n] = "DELETED"], {})
  /\ Becomes(w, IF handler[w].wasUnread THEN Telling({Recipient[n]}) ELSE Idle)
  /\ UNCHANGED connected

------------------------------------------------------------------------------
(* Telling: getUnreadCount and sendUnreadCount, user by user.              *)
Count(w) ==
  /\ handler[w].at = "count"
  /\ \E u \in Owed(w) :
       /\ Becomes(w, [handler[w] EXCEPT !.at = "push", !.on = u, !.count = UnreadCount(u)])
       /\ missed' = missed \ {u}
  /\ UNCHANGED <<row, connected, told, silent>>

After(w, u) ==
  IF Owed(w) = {u} THEN Idle
  ELSE [handler[w] EXCEPT !.at = "count", !.on = None, !.count = 0, !.left = @ \ {u}]

Push(w) ==
  LET u == handler[w].on
      room == {s \in connected : UserOf[s] = u}
  IN
  /\ handler[w].at = "push"
  /\ told' = [s \in Sockets |-> IF s \in room THEN told[s] \cup {handler[w].count} ELSE told[s]]
  /\ Becomes(w, After(w, u))
  /\ UNCHANGED <<row, connected, silent, missed>>

------------------------------------------------------------------------------
(* Sockets and failures.                                                   *)

\* A client that has gone was told nothing.
Leave(gone) ==
  /\ connected' = connected \ gone
  /\ told' = [s \in Sockets |-> IF s \in gone THEN {} ELSE told[s]]

\* handleConnection: join the user's room, then tell the user.
Connect(w, s) ==
  /\ IdleWorker(w)
  /\ s \notin connected
  /\ connected' = connected \cup {s}
  /\ Becomes(w, [Telling({UserOf[s]}) EXCEPT !.socket = s])
  /\ UNCHANGED <<row, told, silent, missed>>

Disconnect(s) ==
  /\ s \in connected
  /\ Leave({s})
  /\ UNCHANGED <<row, handler, silent, missed>>

\* A rejected statement, or the loss of its answer, ends the handler; handleConnection then
\* disconnects its client.
Fail(w) ==
  /\ ~IdleWorker(w)
  /\ silent' = silent \cup Owed(w)
  /\ Leave({handler[w].socket})
  /\ Becomes(w, Idle)
  /\ UNCHANGED <<row, missed>>

Restart ==
  /\ Leave(Sockets)
  /\ handler' = [w \in Workers |-> Idle]
  /\ silent' = {}
  /\ missed' = {}
  /\ UNCHANGED row

Handle(w) ==
  \/ \E batch \in SUBSET Notifications : Create(w, batch)
  \/ \E n \in Notifications : LoadToRead(w, n) \/ LoadToDelete(w, n)
  \/ \E u \in Users : MarkAllAsRead(w, u)
  \/ \E s \in Sockets : Connect(w, s)
  \/ SaveRead(w)
  \/ CommitReads(w)
  \/ Remove(w)
  \/ Count(w)
  \/ Push(w)
  \/ Fail(w)

Next ==
  \/ \E w \in Workers : Handle(w)
  \/ \E s \in Sockets : Disconnect(s)
  \/ Restart

Spec == Init /\ [][Next]_vars

------------------------------------------------------------------------------
(* Properties.                                                             *)
Counts == 0..Cardinality(Notifications)

Handlers == [at : {"idle", "saveRead", "markAll", "remove", "count", "push"},
             on : Notifications \cup Users \cup {None}, wasUnread : BOOLEAN,
             seen : SUBSET Notifications, left : SUBSET Users, count : Counts, socket : Sockets \cup {None}]

\* A handler owes counts exactly while it counts or pushes: none ends with a recipient of a
\* bulk notification left over (the loops of createBulkNotifications).
HandlerOK(h) ==
  /\ h.at \in {"saveRead", "remove"} => h.on \in Notifications
  /\ h.at = "markAll" => h.on \in Users
  /\ h.at = "push" => h.on \in h.left
  /\ (h.left # {}) <=> (h.at \in {"count", "push"})

TypeOK ==
  /\ row \in [Notifications -> RowStatus]
  /\ connected \subseteq Sockets
  /\ handler \in [Workers -> Handlers]
  /\ \A w \in Workers : HandlerOK(handler[w])
  /\ told \in [Sockets -> SUBSET Counts]
  /\ silent \subseteq Users
  /\ missed \subseteq Users

\* Whatever handlers overlap, once none of them owes a user a count, every socket the user
\* has open has been sent the true one since the user's unread rows last changed, but for two
\* cases: a handler failed after a change, or markAllAsRead passed over a row inserted after
\* its snapshot, pushed 0, and nobody has counted since.  So the order save, count, push in
\* each handler, and the count on connection, leave no other change unreported.
FreshCountArrives ==
  \A s \in connected :
    (/\ UserOf[s] \notin silent \cup missed
     /\ \A w \in Workers : UserOf[s] \notin Owed(w))
      => UnreadCount(UserOf[s]) \in told[s]

\* A notification that was read or deleted does not count as unread again, although
\* markAsRead saves a row it loaded before the row was deleted.
OnceReadNeverUnread ==
  [][\A n \in Notifications : row'[n] = "UNREAD" => row[n] \in {"NEW", "UNREAD"}]_vars
==============================================================================
