------------------------------- MODULE SyncDb -------------------------------
(***************************************************************************)
(* The synchronous database bridge: the main thread (mysqlDatabase.js) runs *)
(* handler code and blocks on one worker operation at a time; the worker    *)
(* (mysqlWorker.mjs) keeps a connection pool, the transaction connection,   *)
(* its own nesting depth and a stack of savepoints; the server keeps one    *)
(* transaction per connection.                                              *)
(*                                                                          *)
(* Handler code is arbitrary: it may open nested transactions, write,       *)
(* return, throw, and catch what an inner transaction threw.  A write is an *)
(* identifier, used once.  Faults lists what the environment may do:        *)
(*   "error"    a statement fails (constraint, bind mismatch, ...)          *)
(*   "crash"    the API process dies                                        *)
(*   "lost"     the transaction connection drops                            *)
(*   "timeout"  synckit gives up on a txBegin that the worker still runs    *)
(*   "deadlock" InnoDB picks the transaction as a deadlock victim           *)
(* and "ddl", that handler code runs CREATE or ALTER inside a transaction.  *)
(***************************************************************************)
EXTENDS Naturals, Sequences, FiniteSets

CONSTANTS
    Conns,          \* slots of the mysql2 pool
    NoConn,         \* txConn = null
    MaxWrites,      \* bound: writes issued in a behaviour
    MaxDepth,       \* bound: nesting of db.transaction
    MaxSavepoints,  \* bound: savepoints created by one worker
    Faults

ASSUME ConnsAssumption == NoConn \notin Conns
ASSUME BoundsAssumption == /\ MaxWrites \in Nat
                           /\ MaxDepth \in Nat
                           /\ MaxSavepoints \in Nat

VARIABLES
    frames,    \* main: open callbacks, innermost last, each its set of writes
    throwing,  \* main: an exception is propagating
    wk,        \* worker: [depth, conn, sps, seq, held]
    late,      \* worker: connections of txBegin calls that main gave up on
    srv,       \* server: per connection [tx, dead, log]
    store,     \* server: durable writes
    issued,    \* number of writes issued so far
    acked,     \* history: writes reported to the caller as committed
    failed,    \* history: writes of transactions that threw
    unsure     \* history: groups of writes whose COMMIT got no answer

vars == <<frames, throwing, wk, late, srv, store, issued, acked, failed, unsure>>

Writes == 1..MaxWrites
IdleConn == [tx |-> FALSE, dead |-> FALSE, log |-> <<>>]
\* A level of the server's undo log: the savepoint that opened it (0: START
\* TRANSACTION) and the writes made since.
Level(sp) == [sp |-> sp, ws |-> {}]

\* Variant: the connection is handed out and START TRANSACTION forgotten.
OpenConnAutocommit == IdleConn

\* A connection on which START TRANSACTION has run.
OpenConn == [tx |-> TRUE, dead |-> FALSE, log |-> <<Level(0)>>]

\* The worker's module state when its thread starts.
NewWorker == [depth |-> 0, conn |-> NoConn, sps |-> <<>>, seq |-> 0, held |-> {}]

Front(s) == SubSeq(s, 1, Len(s) - 1)
Last(s)  == s[Len(s)]
FrameWrites == UNION {frames[i] : i \in 1..Len(frames)}
LogWrites(c) == UNION {srv[c].log[i].ws : i \in 1..Len(srv[c].log)}

Init == /\ frames = <<>>
        /\ throwing = FALSE
        /\ wk = NewWorker
        /\ late = {}
        /\ srv = [c \in Conns |-> IdleConn]
        /\ store = {}
        /\ issued = 0
        /\ acked = {}
        /\ failed = {}
        /\ unsure = {}

-----------------------------------------------------------------------------
(* Worker operations, as functions of the worker and server state.          *)

InTx == wk.depth > 0 /\ wk.conn # NoConn                 \* execTarget()
HasLevel(log, sp) == \E i \in 1..Len(log) : log[i].sp = sp
HasSavepoint(c, sp) == HasLevel(srv[c].log, sp)

\* Variant: the release counts the level once more, after the decrement of its
\* caller.
ReleasedTwice(w) == [w EXCEPT !.depth = @ - 2, !.conn = NoConn, !.sps = <<>>,
                              !.held = @ \ {w.conn}]

\* Variant: txConn is forgotten without release().
ReleasedWithoutPool(w) == [w EXCEPT !.depth = 0, !.conn = NoConn, !.sps = <<>>]

\* The connection goes back to the pool and the worker forgets it.
Released(w) == [w EXCEPT !.depth = 0, !.conn = NoConn, !.sps = <<>>,
                         !.held = @ \ {w.conn}]

\* RELEASE SAVEPOINT: the newest level joins the one below it.
Merge(log) == [Front(log) EXCEPT ![Len(log) - 1].ws = @ \cup Last(log).ws]

\* ROLLBACK TO SAVEPOINT: sp's level and the later ones go.  (MySQL keeps sp
\* itself; the worker never reuses a name, so nothing can refer to it again.)
CutTo(log, sp) ==
    SubSeq(log, 1, (CHOOSE i \in 1..Len(log) : log[i].sp = sp) - 1)

\* op 'txRollback' from worker state w: its effect, also when it throws.
RollbackWorker(w) ==
    IF w.depth = 0 THEN w
    ELSE IF w.depth > 1 /\ w.sps # <<>>
         THEN [w EXCEPT !.depth = @ - 1, !.sps = Front(@)]
    ELSE IF srv[w.conn].dead THEN [w EXCEPT !.depth = @ - 1]
    ELSE Released(w)

\* Variants: an inner rollback pops the savepoint without ROLLBACK TO, or sends
\* ROLLBACK, which undoes the enclosing levels too.
RollbackServerPopOnly(w) ==
    IF w.depth # 1 \/ srv[w.conn].dead THEN srv ELSE [srv EXCEPT ![w.conn] = IdleConn]
RollbackServerAll(w) ==
    IF w.depth = 0 \/ srv[w.conn].dead THEN srv
    ELSE IF w.depth > 1 THEN [srv EXCEPT ![w.conn].log = <<Level(0)>>]
    ELSE [srv EXCEPT ![w.conn] = IdleConn]

\* Variant: the branch for an empty stack gives the connection back without ROLLBACK.
RollbackServerForgets(w) ==
    IF w.depth = 0 \/ (w.conn # NoConn /\ srv[w.conn].dead) THEN srv
    ELSE IF w.depth > 1 THEN srv
    ELSE [srv EXCEPT ![w.conn] = IdleConn]

RollbackServer(w) ==
    IF w.depth = 0 \/ (w.conn # NoConn /\ srv[w.conn].dead) THEN srv
    ELSE IF w.depth > 1 /\ w.sps # <<>>
         THEN IF srv[w.conn].tx /\ HasSavepoint(w.conn, Last(w.sps))
              THEN [srv EXCEPT ![w.conn].log = CutTo(@, Last(w.sps))]
              ELSE srv
    ELSE [srv EXCEPT ![w.conn] = IdleConn]

-----------------------------------------------------------------------------
(* The handler's code, one action per bridge call or control transfer.       *)

Running == ~throwing

\* pool.getConnection() hands out a slot nobody holds.
FreeConns == Conns \ (wk.held \cup late)

\* op 'txBegin' at depth 0: START TRANSACTION on a fresh pool connection.
BeginOuter ==
    /\ Running /\ Len(frames) < MaxDepth
    /\ wk.depth = 0
    /\ \E c \in FreeConns :
         /\ wk' = [wk EXCEPT !.depth = 1, !.conn = c, !.sps = <<>>,
                             !.held = @ \cup {c}]
         /\ srv' = [srv EXCEPT ![c] = OpenConn]
    /\ frames' = Append(frames, {})
    /\ UNCHANGED <<throwing, late, store, issued, acked, failed, unsure>>

\* op 'txBegin' at depth > 0: SAVEPOINT.  Outside a server transaction MySQL
\* accepts the statement and it has no effect; on a dead connection it throws
\* before either depth is incremented.
BeginNested ==
    /\ Running /\ Len(frames) < MaxDepth
    /\ wk.depth > 0 /\ wk.seq < MaxSavepoints
    /\ IF srv[wk.conn].dead
       THEN /\ wk' = [wk EXCEPT !.seq = @ + 1]
            /\ throwing' = TRUE
            /\ UNCHANGED <<frames, srv>>
       ELSE /\ wk' = [wk EXCEPT !.depth = @ + 1, !.seq = @ + 1,
                                !.sps = Append(@, wk.seq + 1)]
            /\ srv' = IF srv[wk.conn].tx
                      THEN [srv EXCEPT ![wk.conn].log = Append(@, Level(wk.seq + 1))]
                      ELSE srv
            /\ frames' = Append(frames, {})
            /\ UNCHANGED throwing
    /\ UNCHANGED <<late, store, issued, acked, failed, unsure>>

\* main records a statement that returned normally.
Acknowledge(w) ==
    IF frames = <<>>
    THEN acked' = acked \cup {w} /\ UNCHANGED frames
    ELSE /\ frames' = [frames EXCEPT ![Len(frames)] = @ \cup {w}]
         /\ UNCHANGED acked

\* op 'run' while the worker is in a transaction: it goes to txConn.
WriteInTx ==
    LET c == wk.conn
        w == issued + 1
    IN  /\ Running /\ issued < MaxWrites
        /\ InTx /\ ~srv[c].dead
        /\ issued' = w
        /\ IF srv[c].tx
           THEN /\ srv' = [srv EXCEPT ![c].log[Len(srv[c].log)].ws = @ \cup {w}]
                /\ UNCHANGED store
           ELSE /\ store' = store \cup {w}
                /\ UNCHANGED srv
        /\ Acknowledge(w)
        /\ UNCHANGED <<throwing, wk, late, failed, unsure>>

\* Variant: some statements of a callback go to the pool as well.
WriteOnPoolAnyway ==
    /\ Running /\ issued < MaxWrites
    /\ FreeConns # {}
    /\ issued' = issued + 1
    /\ store' = store \cup {issued'}
    /\ Acknowledge(issued')
    /\ UNCHANGED <<throwing, wk, late, srv, failed, unsure>>

\* op 'run' otherwise: autocommit on a pool connection.
WriteOnPool ==
    /\ Running /\ issued < MaxWrites
    /\ ~InTx /\ FreeConns # {}
    /\ issued' = issued + 1
    /\ store' = store \cup {issued'}
    /\ Acknowledge(issued')
    /\ UNCHANGED <<throwing, wk, late, srv, failed, unsure>>

\* A statement throws and leaves no trace: the server rejects it, or its
\* connection is dead.
StatementError ==
    /\ Running
    /\ "error" \in Faults \/ (InTx /\ srv[wk.conn].dead)
    /\ throwing' = TRUE
    /\ UNCHANGED <<frames, wk, late, srv, store, issued, acked, failed, unsure>>

\* InnoDB rolls the whole transaction back; withDeadlockRetry runs the
\* statement again on the same connection, now outside any transaction.
WriteDeadlocks ==
    LET c == wk.conn
        w == issued + 1
    IN  /\ "deadlock" \in Faults
        /\ Running /\ issued < MaxWrites
        /\ InTx /\ ~srv[c].dead /\ srv[c].tx
        /\ issued' = w
        /\ srv' = [srv EXCEPT ![c] = IdleConn]
        /\ store' = store \cup {w}
        /\ Acknowledge(w)
        /\ UNCHANGED <<throwing, wk, late, failed, unsure>>

\* op 'exec' with DDL (an ensure...Table that creates lazily): MySQL commits
\* before it runs the statement and forgets every savepoint; neither thread
\* notices.
ExecDdl ==
    /\ "ddl" \in Faults
    /\ Running
    /\ InTx /\ ~srv[wk.conn].dead /\ srv[wk.conn].tx
    /\ store' = store \cup LogWrites(wk.conn)
    /\ srv' = [srv EXCEPT ![wk.conn] = IdleConn]
    /\ UNCHANGED <<frames, throwing, wk, late, issued, acked, failed, unsure>>

\* The callback at the top of the stack throws.
Throw ==
    /\ Running /\ frames # <<>>
    /\ throwing' = TRUE
    /\ UNCHANGED <<frames, wk, late, srv, store, issued, acked, failed, unsure>>

\* The enclosing code catches it (the route's error answer when no callback is
\* open, a try/catch around an inner call otherwise).
Catch ==
    /\ throwing
    /\ throwing' = FALSE
    /\ UNCHANGED <<frames, wk, late, srv, store, issued, acked, failed, unsure>>

\* db.transaction(fn)() returns to its caller: an inner unit of work becomes
\* part of the enclosing one, the outermost is reported as committed.
Returns ==
    IF Len(frames) = 1
    THEN /\ frames' = <<>>
         /\ acked' = acked \cup Last(frames)
    ELSE /\ frames' = [Front(frames) EXCEPT ![Len(frames) - 1] = @ \cup Last(frames)]
         /\ UNCHANGED acked

\* The callback returned: txCommit.
CommitOuter ==
    /\ Running /\ frames # <<>>
    /\ wk.depth = 1 /\ ~srv[wk.conn].dead
    /\ store' = store \cup LogWrites(wk.conn)
    /\ srv' = [srv EXCEPT ![wk.conn] = IdleConn]
    /\ wk' = Released(wk)
    /\ Returns
    /\ UNCHANGED <<throwing, late, issued, failed, unsure>>

\* Variant: the inner level is published when it is released.
ReleaseNestedPublishes ==
    LET sp == Last(wk.sps)
    IN  /\ Running /\ frames # <<>>
        /\ wk.depth > 1 /\ wk.sps # <<>>
        /\ ~srv[wk.conn].dead /\ srv[wk.conn].tx /\ HasSavepoint(wk.conn, sp)
        /\ store' = store \cup Last(srv[wk.conn].log).ws
        /\ srv' = [srv EXCEPT ![wk.conn].log = Merge(@)]
        /\ wk' = [wk EXCEPT !.depth = @ - 1, !.sps = Front(@)]
        /\ Returns
        /\ UNCHANGED <<throwing, late, issued, failed, unsure>>

ReleaseNested ==
    LET sp == Last(wk.sps)
    IN  /\ Running /\ frames # <<>>
        /\ wk.depth > 1 /\ wk.sps # <<>>
        /\ ~srv[wk.conn].dead /\ srv[wk.conn].tx /\ HasSavepoint(wk.conn, sp)
        /\ srv' = [srv EXCEPT ![wk.conn].log = Merge(@)]
        /\ wk' = [wk EXCEPT !.depth = @ - 1, !.sps = Front(@)]
        /\ Returns
        /\ UNCHANGED <<throwing, late, store, issued, failed, unsure>>

\* txCommit throws after it has already decremented the worker's depth (and
\* popped a savepoint); the wrapper's catch then runs txRollback as well.
CommitThrows ==
    LET popped == IF wk.depth > 1 /\ wk.sps # <<>> THEN Front(wk.sps) ELSE wk.sps
        w == IF wk.depth = 0 THEN wk
             ELSE [wk EXCEPT !.depth = @ - 1, !.sps = popped]
        released == /\ wk.depth > 1 /\ wk.sps # <<>>
                    /\ srv[wk.conn].tx /\ HasSavepoint(wk.conn, Last(wk.sps))
    IN  /\ Running /\ frames # <<>>
        /\ \/ wk.depth = 0
           \/ wk.depth > 0 /\ srv[wk.conn].dead
           \/ wk.depth > 1 /\ ~released
        /\ wk' = RollbackWorker(w)
        /\ srv' = RollbackServer(w)
        /\ failed' = failed \cup Last(frames)
        /\ frames' = Front(frames)
        /\ throwing' = TRUE
        /\ UNCHANGED <<late, store, issued, acked, unsure>>

\* Variant: the wrapper's catch does not call txRollback.
UnwindWithoutRollback ==
    /\ throwing /\ frames # <<>>
    /\ failed' = failed \cup Last(frames)
    /\ frames' = Front(frames)
    /\ UNCHANGED <<throwing, wk, late, srv, store, issued, acked, unsure>>

\* An exception leaves the callback at the top of the stack: txRollback, whose
\* own failure the wrapper ignores.
Unwind ==
    /\ throwing /\ frames # <<>>
    /\ wk' = RollbackWorker(wk)
    /\ srv' = RollbackServer(wk)
    /\ failed' = failed \cup Last(frames)
    /\ frames' = Front(frames)
    /\ UNCHANGED <<throwing, late, store, issued, acked, unsure>>

-----------------------------------------------------------------------------
(* The environment.                                                          *)

\* The transaction connection drops: the server rolls its work back and the
\* pool forgets the connection; the worker still refers to it.
LoseConn ==
    /\ "lost" \in Faults
    /\ InTx /\ ~srv[wk.conn].dead
    /\ srv' = [srv EXCEPT ![wk.conn] = [IdleConn EXCEPT !.dead = TRUE]]
    /\ wk' = [wk EXCEPT !.held = @ \ {wk.conn}]
    /\ UNCHANGED <<frames, throwing, late, store, issued, acked, failed, unsure>>

\* The connection drops during COMMIT: the server did or did not commit, the
\* wrapper sees an exception either way.  Where the server has no transaction
\* any more (a deadlock or DDL ended it) there is nothing left in doubt.
LoseConnInCommit ==
    LET c == wk.conn
    IN  /\ "lost" \in Faults
        /\ Running /\ frames # <<>>
        /\ wk.depth = 1 /\ ~srv[c].dead
        /\ store' \in {store, store \cup LogWrites(c)}
        /\ srv' = [srv EXCEPT ![c] = [IdleConn EXCEPT !.dead = TRUE]]
        /\ wk' = [wk EXCEPT !.depth = 0, !.held = @ \ {c}]
        /\ IF srv[c].tx THEN unsure' = unsure \cup {Last(frames)} /\ UNCHANGED failed
                        ELSE failed' = failed \cup Last(frames) /\ UNCHANGED unsure
        /\ frames' = Front(frames)
        /\ throwing' = TRUE
        /\ UNCHANGED <<late, issued, acked>>

\* synckit times out a txBegin: the wrapper throws before its try block, the
\* worker's handler keeps waiting for its connection.
BeginTimesOut ==
    /\ "timeout" \in Faults
    /\ Running /\ Len(frames) < MaxDepth
    /\ wk.depth = 0
    /\ \E c \in FreeConns : late' = late \cup {c}
    /\ throwing' = TRUE
    /\ UNCHANGED <<frames, wk, srv, store, issued, acked, failed, unsure>>

\* The abandoned handler gets its connection and completes.
LateBegin ==
    /\ \E c \in late :
         /\ late' = late \ {c}
         /\ wk' = [wk EXCEPT !.depth = @ + 1, !.conn = c, !.sps = <<>>,
                             !.held = @ \cup {c}]
         /\ srv' = [srv EXCEPT ![c] = OpenConn]
    /\ UNCHANGED <<frames, throwing, store, issued, acked, failed, unsure>>

\* The process dies and is started again: the server rolls everything back.
Crash ==
    /\ "crash" \in Faults
    /\ frames' = <<>>
    /\ throwing' = FALSE
    /\ wk' = NewWorker
    /\ late' = {}
    /\ srv' = [c \in Conns |-> IdleConn]
    /\ failed' = failed \cup FrameWrites
    /\ UNCHANGED <<store, issued, acked, unsure>>

Next == \/ BeginOuter \/ BeginNested
        \/ WriteInTx \/ WriteOnPool \/ StatementError \/ WriteDeadlocks \/ ExecDdl
        \/ Throw \/ Catch \/ CommitOuter \/ ReleaseNested \/ CommitThrows \/ Unwind
        \/ LoseConn \/ LoseConnInCommit \/ BeginTimesOut \/ LateBegin \/ Crash

Spec == Init /\ [][Next]_vars

-----------------------------------------------------------------------------
(* Properties.                                                               *)

LevelType == [sp : 0..MaxSavepoints, ws : SUBSET Writes]
ConnType == [tx : BOOLEAN, dead : BOOLEAN, log : Seq(LevelType)]
WorkerType == [depth : Nat, conn : Conns \cup {NoConn}, sps : Seq(1..MaxSavepoints),
               seq : 0..MaxSavepoints, held : SUBSET Conns]

(* The state of the bridge and of the server has the shape the worker's
   variables and the server's undo logs have. *)
TypeOK ==
    /\ frames \in Seq(SUBSET Writes)
    /\ throwing \in BOOLEAN
    /\ wk \in WorkerType
    /\ late \subseteq Conns
    /\ srv \in [Conns -> ConnType]
    /\ store \subseteq Writes
    /\ issued \in 0..MaxWrites
    /\ acked \subseteq Writes
    /\ failed \subseteq Writes
    /\ unsure \subseteq SUBSET Writes

(* What a transaction that threw wrote, at any depth, is not durable: the
   wrapper's catch undoes it. *)
FailedLeavesNothing == failed \cap store = {}

(* What the caller was told is committed is durable. *)
AckedIsDurable == acked \subseteq store

(* Work still inside a callback is invisible to other connections. *)
OpenIsInvisible == FrameWrites \cap store = {}

(* A COMMIT whose answer was lost happened entirely or not at all. *)
UnsureIsAtomic == \A g \in unsure : g \subseteq store \/ g \cap store = {}

(* The two depth counters, one per thread, agree whenever the main thread is
   not waiting, and so a statement joins a transaction exactly when its caller
   is inside db.transaction (inTransaction in mysqlDatabase.js). *)
DepthsAgree == wk.depth = Len(frames)

(* A connection that the pool may hand out carries no open transaction: the next
   statement of anybody would join it and vanish with it.  Late answers replace
   the connection under the worker's savepoints, deadlocks and DDL end its
   transaction, and rollbacks fail; the release must still be clean. *)
PooledIsClean == \A c \in Conns : srv[c].tx => c \in wk.held

(* When the outermost callback has ended, however the inner ones did, the worker
   is outside any transaction, no connection is left open or kept from the pool,
   and so the next request starts clean.  (Not so after a txBegin that its caller
   gave up on.) *)
IdleIsClean == frames = <<>> => /\ wk.depth = 0
                                /\ wk.held = {}
                                /\ \A c \in Conns : ~srv[c].tx

(* The bridge implements nested all-or-nothing transactions. *)
Abstract == INSTANCE NestedTx WITH
    Writes <- Writes, store <- store, frames <- frames, acked <- acked, failed <- failed
Implements == Abstract!Spec
=============================================================================
