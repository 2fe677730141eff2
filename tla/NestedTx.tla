------------------------------ MODULE NestedTx ------------------------------
(***************************************************************************)
(* What callers of db.transaction(fn) in src/server/mysqlDatabase.js rely   *)
(* on: nested all-or-nothing units of work over one durable store.  A write *)
(* is an identifier; `frames' is the stack of open transaction callbacks,   *)
(* each with the writes it has issued; `store' is what another connection   *)
(* would read.  SyncDb.tla is the bridge that is meant to implement this.   *)
(***************************************************************************)
EXTENDS Naturals, Sequences

CONSTANT Writes

VARIABLES
    store,     \* durable writes
    frames,    \* open callbacks, innermost last, each the set of its writes
    acked,     \* writes whose caller was told they are committed
    failed     \* writes whose transaction ended with an exception

vars == <<store, frames, acked, failed>>

Top == frames[Len(frames)]
Pop == SubSeq(frames, 1, Len(frames) - 1)

Init == /\ store = {}
        /\ frames = <<>>
        /\ acked = {}
        /\ failed = {}

(* db.transaction(fn)() opens a unit of work. *)
Begin == /\ frames' = Append(frames, {})
         /\ UNCHANGED <<store, acked, failed>>

(* A statement inside a callback joins the innermost unit of work. *)
WriteInside(w) == /\ frames # <<>>
                  /\ frames' = [frames EXCEPT ![Len(frames)] = @ \cup {w}]
                  /\ UNCHANGED <<store, acked, failed>>

(* A statement outside any callback is its own unit of work. *)
WriteAlone(w) == /\ frames = <<>>
                 /\ store' = store \cup {w}
                 /\ acked' = acked \cup {w}
                 /\ UNCHANGED <<frames, failed>>

(* An inner callback that returns hands its writes to the enclosing one. *)
CommitInner == /\ Len(frames) > 1
               /\ frames' = [Pop EXCEPT ![Len(frames) - 1] = @ \cup Top]
               /\ UNCHANGED <<store, acked, failed>>

(* The outermost callback that returns publishes everything at once. *)
CommitOuter == /\ Len(frames) = 1
               /\ store' = store \cup Top
               /\ acked' = acked \cup Top
               /\ frames' = <<>>
               /\ UNCHANGED failed

(* A callback that throws discards its writes, at whatever depth it is. *)
Abort == /\ frames # <<>>
         /\ failed' = failed \cup Top
         /\ frames' = Pop
         /\ UNCHANGED <<store, acked>>

(* The process dies: every open unit of work is discarded. *)
AbortAll == /\ frames # <<>>
            /\ failed' = failed \cup UNION {frames[i] : i \in 1..Len(frames)}
            /\ frames' = <<>>
            /\ UNCHANGED <<store, acked>>

Next == \/ Begin
        \/ \E w \in Writes : WriteInside(w) \/ WriteAlone(w)
        \/ CommitInner \/ CommitOuter
        \/ Abort \/ AbortAll

Spec == Init /\ [][Next]_vars
=============================================================================
