----------------------------- MODULE CendServer -----------------------------
(***************************************************************************)
(* The C-end server: accepting WebSocket connections up to a maximum, the  *)
(* read and the write loop of each, authentication and the presence entry  *)
(* of the user, Close (called by either loop, by the heartbeat checker and *)
(* by the shutdown), the heartbeat checker, and Stop.                      *)
(*                                                                         *)
(* Each step is one statement on shared state or one Redis call.  Time is  *)
(* left out: a read, a write or a heartbeat may fail or be overdue at any  *)
(* moment.  Messages then change nothing here, but for AUTH; commands are  *)
(* the subject of ChargeFlow.                                              *)
(***************************************************************************)
EXTENDS Integers, FiniteSets

CONSTANTS
  Conn,            \* the connections clients will ask for
  User,            \* users
  Owner,           \* Owner[c]: the user of the token c presents, None = it has none
  MaxConnections,  \* cend.max_connections
  Modes,           \* the values redis may have: TRUE and FALSE, or one of them
  None             \* no connection, no user

ASSUME CendAssumption ==
  /\ IsFiniteSet(Conn)
  /\ Owner \in [Conn -> User \cup {None}]
  /\ MaxConnections \in Nat \ {0}
  /\ Modes \subseteq BOOLEAN
  /\ None \notin Conn \cup User

VARIABLES
  redis,     \* Redis answered at start; if not, local maps are used from then on
  accept,    \* accept[c]: how far handleWebSocket has come with c
  reader,    \* reader[c]: the read loop
  writer,    \* writer[c]: the write loop
  status,    \* status[c]: Connection.Status
  user,      \* user[c]: Connection.UserID, None = ""
  closing,   \* closing[c]: Connection.closeOnce
  table,     \* Server.Connections
  count,     \* Server.ConnCount
  online,    \* online[u]: the connection in the hash online_users
  checker,   \* heartbeatChecker
  stop,      \* Stop and waitForShutdown
  sweep      \* the Range of waitForShutdown

vars == <<redis, accept, reader, writer, status, user, closing,
          table, count, online, checker, stop, sweep>>
connVars  == <<redis, reader, writer, status, user, closing, online>>
tableVars == <<table, count, checker, sweep>>

Accepting == {"none", "checked", "admitted", "stored", "open", "refused"}
Loop      == {"off", "running", "register", "close"}

TypeOK ==
  /\ redis \in BOOLEAN
  /\ accept \in [Conn -> Accepting]
  /\ reader \in [Conn -> Loop]
  /\ writer \in [Conn -> Loop \ {"register"}]
  /\ status \in [Conn -> {"connecting", "authed", "closed"}]
  /\ user \in [Conn -> User \cup {None}]
  /\ closing \in [Conn -> {"no", "begun", "done"}]
  /\ table \subseteq Conn
  /\ count \in Int
  /\ online \in [User -> Conn \cup {None}]
  /\ checker \in [pc   : {"idle", "close", "subtract", "ended"},
                  conn : Conn \cup {None}]
  /\ stop \in {"no", "cancelled", "sweeping", "swept", "returned"}
  /\ sweep \in [todo : SUBSET Conn, conn : Conn \cup {None}]

Init ==
  /\ redis \in Modes
  /\ accept  = [c \in Conn |-> "none"]
  /\ reader  = [c \in Conn |-> "off"]
  /\ writer  = [c \in Conn |-> "off"]
  /\ status  = [c \in Conn |-> "connecting"]
  /\ user    = [c \in Conn |-> None]
  /\ closing = [c \in Conn |-> "no"]
  /\ table = {}
  /\ count = 0
  /\ online  = [u \in User |-> None]
  /\ checker = [pc |-> "idle", conn |-> None]
  /\ stop = "no"
  /\ sweep = [todo |-> {}, conn |-> None]

-----------------------------------------------------------------------------
(* handleWebSocket *)

Full == count >= MaxConnections

\* Rate limit and first check.  The listener is closed when the shutdown of
\* the HTTP server begins.
Accept(c) ==
  /\ accept[c] = "none"
  /\ stop \in {"no", "cancelled"}
  /\ \/ accept' = [accept EXCEPT ![c] = "refused"]
     \/ ~Full /\ accept' = [accept EXCEPT ![c] = "checked"]
  /\ UNCHANGED <<connVars, tableVars, stop>>

\* The upgrade, which may fail, and the second check.
Upgrade(c) ==
  /\ accept[c] = "checked"
  /\ \/ accept' = [accept EXCEPT ![c] = "refused"]
     \/ ~Full /\ accept' = [accept EXCEPT ![c] = "admitted"]
  /\ UNCHANGED <<connVars, tableVars, stop>>

\* Connections.Store.
StoreConn(c) ==
  /\ accept[c] = "admitted"
  /\ accept' = [accept EXCEPT ![c] = "stored"]
  /\ table' = table \cup {c}
  /\ UNCHANGED <<connVars, count, checker, stop, sweep>>

\* ConnCount.Add(1), then the two loops start.
CountConn(c) ==
  /\ accept[c] = "stored"
  /\ accept' = [accept EXCEPT ![c] = "open"]
  /\ count' = count + 1
  /\ reader' = [reader EXCEPT ![c] = "running"]
  /\ writer' = [writer EXCEPT ![c] = "running"]
  /\ UNCHANGED <<redis, status, user, closing, online, table,
                 checker, stop, sweep>>

-----------------------------------------------------------------------------
(* The loops of a connection *)

\* AUTH with a valid token, unless the connection is authenticated.  What the
\* WebSocket layer has buffered is read even after Close, and the status is
\* no longer "closed" then.
ReceiveAuth(c) ==
  /\ reader[c] = "running"
  /\ status[c] # "authed" /\ Owner[c] # None
  /\ user' = [user EXCEPT ![c] = Owner[c]]
  /\ status' = [status EXCEPT ![c] = "authed"]
  /\ reader' = [reader EXCEPT ![c] = "register"]
  /\ UNCHANGED <<redis, accept, writer, closing, online, tableVars, stop>>

\* Mutant: the entry names the user instead of the connection.
AddOnlineUserSwapped(u, c) == online' = [online EXCEPT ![u] = u]

\* One entry per user, the last connection wins.  A Redis call may fail.
AddOnlineUser(u, c) ==
  \/ online' = [online EXCEPT ![u] = c]
  \/ redis /\ UNCHANGED online

\* The entry goes, whichever connection it names.
RemoveOnlineUser(u) ==
  \/ online' = [online EXCEPT ![u] = None]
  \/ redis /\ UNCHANGED online

\* The end of handleAuth.  When registering fails the client gets a 500 and
\* stays authenticated.
AuthRegister(c) ==
  /\ reader[c] = "register"
  /\ AddOnlineUser(Owner[c], c)
  /\ reader' = [reader EXCEPT ![c] = "running"]
  /\ UNCHANGED <<redis, accept, writer, status, user, closing, tableVars, stop>>

\* ReadMessage fails: the peer is gone or silent, or the socket is closed.
ReadFails(c) ==
  /\ reader[c] = "running"
  /\ reader' = [reader EXCEPT ![c] = "close"]
  /\ UNCHANGED <<redis, accept, writer, status, user, closing, online,
                 tableVars, stop>>

\* A write fails, or CloseChan is closed.
WriteEnds(c) ==
  /\ writer[c] = "running"
  /\ writer' = [writer EXCEPT ![c] = "close"]
  /\ UNCHANGED <<redis, accept, reader, status, user, closing, online,
                 tableVars, stop>>

-----------------------------------------------------------------------------
(* Close *)

CalledClose(c) ==
  \/ reader[c] = "close"
  \/ writer[c] = "close"
  \/ checker.pc = "close" /\ checker.conn = c
  \/ sweep.conn = c

\* The first caller enters closeOnce: status, CloseChan, context, socket.  The
\* others wait in closeOnce until it is through.
CloseBegin(c) ==
  /\ CalledClose(c)
  /\ closing[c] = "no"
  /\ closing' = [closing EXCEPT ![c] = "begun"]
  /\ status' = [status EXCEPT ![c] = "closed"]
  /\ UNCHANGED <<redis, accept, reader, writer, user, online,
                 tableVars, stop>>

\* The rest of Close; an error of RemoveOnlineUser is ignored.
CloseEnd(c) ==
  /\ closing[c] = "begun"
  /\ closing' = [closing EXCEPT ![c] = "done"]
  /\ IF user[c] # None THEN RemoveOnlineUser(user[c]) ELSE UNCHANGED online
  /\ UNCHANGED <<redis, accept, reader, writer, status, user, tableVars, stop>>

-----------------------------------------------------------------------------
(* heartbeatChecker.  A Range visits every connection once, in any order, and *)
(* visits to those that have not timed out change nothing: what is left is    *)
(* that the checker takes up one connection after the other.                  *)

\* Mutant: connections that are closed already are passed over.
TimedOutIfOpen(c) == c \in table /\ status[c] # "closed"

\* LastActive of a connection in the table may be too old at any time.
TimedOut(c) == c \in table

CheckTimeout(c) ==
  /\ checker.pc = "idle"
  /\ TimedOut(c)
  /\ checker' = [pc |-> "close", conn |-> c]
  /\ UNCHANGED <<accept, connVars, table, count, stop, sweep>>

\* Close has returned: Connections.Delete.
CheckDelete ==
  /\ checker.pc = "close" /\ closing[checker.conn] = "done"
  /\ table' = table \ {checker.conn}
  /\ checker' = [checker EXCEPT !.pc = "subtract"]
  /\ UNCHANGED <<accept, connVars, count, stop, sweep>>

\* Mutant: a connection that its own loop has closed is not counted down.
CheckSubtractIfRunning ==
  /\ checker.pc = "subtract"
  /\ count' = IF reader[checker.conn] = "close" THEN count ELSE count - 1
  /\ checker' = [checker EXCEPT !.pc = "idle", !.conn = None]
  /\ UNCHANGED <<accept, connVars, table, stop, sweep>>

\* ConnCount.Add(-1).
CheckSubtract ==
  /\ checker.pc = "subtract"
  /\ count' = count - 1
  /\ checker' = [checker EXCEPT !.pc = "idle", !.conn = None]
  /\ UNCHANGED <<accept, connVars, table, stop, sweep>>

\* Mutant: the checker does not look at the context.
CheckNeverEnds == FALSE /\ UNCHANGED vars

\* When a tick and the end of the context are both there, select takes either.
CheckEnds ==
  /\ checker.pc = "idle" /\ stop # "no"
  /\ checker' = [checker EXCEPT !.pc = "ended"]
  /\ UNCHANGED <<accept, connVars, table, count, stop, sweep>>

-----------------------------------------------------------------------------
(* Stop and waitForShutdown *)

\* Stop cancels the context and waits for the wait group.
Stop ==
  /\ stop = "no"
  /\ stop' = "cancelled"
  /\ UNCHANGED <<accept, connVars, tableVars>>

\* httpServer.Shutdown returns when the requests are answered or its 10 s
\* are over.  It does not wait for connections that have been upgraded.
HttpShutdown ==
  /\ stop = "cancelled"
  /\ stop' = "sweeping"
  /\ sweep' = [sweep EXCEPT !.todo = table]
  /\ UNCHANGED <<accept, connVars, table, count, checker>>

\* Range visits what was there at its start, and may visit what comes later.
SweepVisit(c) ==
  /\ stop = "sweeping" /\ sweep.conn = None
  /\ c \in table
  /\ sweep' = [sweep EXCEPT !.conn = c]
  /\ UNCHANGED <<accept, connVars, table, count, checker, stop>>

\* Close has returned: Connections.Delete.  The count is left as it is.
SweepDelete ==
  /\ sweep.conn # None
  /\ closing[sweep.conn] = "done"
  /\ table' = table \ {sweep.conn}
  /\ sweep' = [todo |-> sweep.todo \ {sweep.conn}, conn |-> None]
  /\ UNCHANGED <<accept, connVars, count, checker, stop>>

SweepEnds ==
  /\ stop = "sweeping" /\ sweep.conn = None
  /\ sweep.todo \cap table = {}
  /\ stop' = "swept"
  /\ sweep' = [todo |-> {}, conn |-> None]
  /\ UNCHANGED <<accept, connVars, table, count, checker>>

\* A loop ends when its deferred Close returns.
LoopsEnded(c) ==
  \/ accept[c] # "open"
  \/ reader[c] = "close" /\ writer[c] = "close" /\ closing[c] = "done"

\* SubscribeMessage returns at once without Redis.  With Redis it never does:
\* nothing closes the subscription.
SubscriptionEnds == ~redis

\* wg.Wait returns: the sweep, the checker, shadowEventLoop and the loops of
\* all connections have ended.
StopReturns ==
  /\ stop = "swept"
  /\ SubscriptionEnds
  /\ checker.pc = "ended"
  /\ \A c \in Conn : LoopsEnded(c)
  /\ stop' = "returned"
  /\ UNCHANGED <<accept, connVars, tableVars>>

-----------------------------------------------------------------------------
Handler(c) == Upgrade(c) \/ StoreConn(c) \/ CountConn(c) \/ AuthRegister(c)
Close(c)   == CloseBegin(c) \/ CloseEnd(c)
Removal    == CheckDelete \/ CheckSubtract
Sweeper    == \/ HttpShutdown \/ SweepDelete \/ SweepEnds
              \/ \E c \in Conn : SweepVisit(c)

Next ==
  \/ \E c \in Conn :
       \/ Accept(c) \/ Handler(c)
       \/ ReceiveAuth(c) \/ ReadFails(c) \/ WriteEnds(c)
       \/ Close(c)
       \/ CheckTimeout(c)
  \/ Removal \/ CheckEnds
  \/ Stop \/ Sweeper \/ StopReturns

Spec == Init /\ [][Next]_vars

\* Goroutines that have something to do go on, time passes, and a closed
\* socket fails its loops.  Each tick visits all connections, so that one that
\* is closed and stays silent is taken up whatever the others do; and of two
\* ready cases select does not always take the same.  Clients owe nothing.
Fairness ==
  /\ \A c \in Conn :
       /\ WF_vars(Handler(c))
       /\ WF_vars(Close(c))
       /\ WF_vars(closing[c] # "no" /\ ReadFails(c))
       /\ WF_vars(closing[c] # "no" /\ WriteEnds(c))
       /\ SF_vars(closing[c] # "no" /\ CheckTimeout(c))
  /\ WF_vars(Removal) /\ SF_vars(CheckEnds)
  /\ WF_vars(Sweeper) /\ WF_vars(StopReturns)

FairSpec == Spec /\ Fairness

-----------------------------------------------------------------------------
(* Properties *)

\* Handlers between Connections.Store and ConnCount.Add(1).
Uncounted == {c \in Conn : accept[c] = "stored"}

\* The checker between Connections.Delete and ConnCount.Add(-1).
Subtracting == {c \in Conn : checker.pc = "subtract" /\ checker.conn = c}

\* The count against which handleWebSocket checks the maximum is the size of
\* the table, but for handlers and a checker between their two statements.
\* Table and count are changed by separate atomic operations of concurrent
\* goroutines, and any of four callers may close a connection.  (The sweep
\* of waitForShutdown empties the table and leaves the count.)
CountAccounts ==
  stop \in {"no", "cancelled"} =>
    count + Cardinality(Uncounted)
      = Cardinality(table) + Cardinality(Subtracting)

\* A closed connection does not use up a place for ever: whoever closed it,
\* the heartbeat checker, the only one to do so, at last deletes it and
\* counts it down (heartbeatChecker), unless the server is stopped.
ClosedIsForgotten ==
  \A c \in Conn :
    closing[c] = "done" /\ c \in table ~> c \notin table \/ stop # "no"

\* What Stop may be left waiting for: the subscription of shadowEventLoop, or
\* a connection that was upgraded too late for the sweep.  Everything else
\* has ended.
OnlyHungUp ==
  /\ stop = "swept" /\ checker.pc = "ended"
  /\ ~SubscriptionEnds \/ \E c \in table : ~LoopsEnded(c)
  /\ \A c \in Conn : LoopsEnded(c) \/ (c \in table /\ closing[c] = "no")

\* Stop returns, or every goroutine it waits for has ended but those: no loop,
\* checker or sweep blocks another one although all of them call Close on the
\* same connections (Stop, waitForShutdown, heartbeatChecker, Close).
StopGetsThrough == stop = "cancelled" ~> stop = "returned" \/ OnlyHungUp

\* Pushes find the user: as long as a user has an authenticated, registered
\* and open connection, PushToUser finds an entry for them.  The code does
\* not guarantee this: Close removes the entry of the user, though it may be
\* of a newer connection.
OnlineWhileConnected ==
  \A c \in Conn :
    /\ reader[c] = "running" /\ status[c] = "authed" /\ closing[c] = "no"
    => online[user[c]] # None
=============================================================================
