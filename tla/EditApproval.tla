---------------------------- MODULE EditApproval ----------------------------
(***************************************************************************)
(* Second-party approval of edits (src/server/editApproval.js): a user who  *)
(* is not exempt asks for a six-digit code, an approver grants or rejects   *)
(* it, the code expires, and handleWriteWithEditApproval /                  *)
(* handlePatchWithEditApproval let one write on the named record through.   *)
(*                                                                          *)
(* Procs are the API processes: normally one, two while a restart overlaps. *)
(* A handler of one process runs to its end before the next, but handlers   *)
(* of two processes interleave between statements.  So each handler is the  *)
(* statements that read or write the table, one action each; nothing holds  *)
(* a lock between them.  That includes the write itself: the transaction    *)
(* the guard opens is committed at once by the CREATE TABLE and CREATE      *)
(* INDEX that consumeEditApprovalInTransaction runs first                   *)
(* (ensureEditApprovalTable; MySQL commits implicitly before DDL), so every *)
(* statement that follows is durable when it is run, whatever happens next. *)
(*                                                                          *)
(* A request is for one branch.  The wording of the requested change, which *)
(* a repeated request refreshes, decides nothing and is left out.           *)
(***************************************************************************)
EXTENDS Naturals, FiniteSets

CONSTANTS
    Tokens,         \* codes newApprovalId can draw
    Records,        \* pairs of entity kind and entity id
    Users,          \* people whose edits need a code
    Approvers,      \* those who pass userCanApproveEditMutations
    Procs,          \* API processes on the database
    NoUser, NoRecord, NoToken,
    MaxStatements   \* bound: writing statements of one executeWrite

ASSUME PeopleAssumption == Approvers \subseteq Users /\ NoUser \notin Users
ASSUME NothingAssumption == NoRecord \notin Records /\ NoToken \notin Tokens
ASSUME BoundAssumption == MaxStatements \in Nat \ {0}

VARIABLES
    tok,      \* edit_approval_tokens: [status, rec, by, approver, expires]
    call,     \* per process, the handler under way: [step, user, tok, rec, left]
    uses,     \* history: writes let through per code
    changed   \* history: per record, codes under which it was changed

vars == <<tok, call, uses, changed>>

NoRow == [status |-> "none", rec |-> NoRecord, by |-> NoUser, approver |-> NoUser,
          expires |-> "null"]
Idle == [step |-> "idle", user |-> NoUser, tok |-> NoToken, rec |-> NoRecord, left |-> 0]

Init == /\ tok = [t \in Tokens |-> NoRow]
        /\ call = [p \in Procs |-> Idle]
        /\ uses = [t \in Tokens |-> 0]
        /\ changed = [r \in Records |-> {}]

Free(p) == call[p].step = "idle"
Ends(p) == call' = [call EXCEPT ![p] = Idle]

-----------------------------------------------------------------------------
(* createEditApprovalRequest.                                                *)

\* The same person already waits for this record: the answer names that code.
AlreadyPending(u, r) ==
    \E t \in Tokens : tok[t].status = "pending" /\ tok[t].rec = r /\ tok[t].by = u

\* It reads that nothing is pending and draws a number no row has.
AskRead(p, u, r) ==
    /\ Free(p) /\ ~AlreadyPending(u, r)
    /\ \E t \in Tokens :
         /\ tok[t] = NoRow
         /\ call' = [call EXCEPT ![p] =
                       [step |-> "ask", user |-> u, tok |-> t, rec |-> r, left |-> 0]]
    /\ UNCHANGED <<tok, uses, changed>>

\* It inserts the row; the primary key refuses a number drawn twice.
AskInsert(p) ==
    LET t == call[p].tok
    IN  /\ call[p].step = "ask"
        /\ tok' = IF tok[t] = NoRow
                  THEN [tok EXCEPT ![t] =
                          [status |-> "pending", rec |-> call[p].rec, by |-> call[p].user,
                           approver |-> NoUser, expires |-> "null"]]
                  ELSE tok
        /\ Ends(p)
        /\ UNCHANGED <<uses, changed>>

-----------------------------------------------------------------------------
(* approveEditApproval, rejectEditApproval.                                  *)

Verdicts == {"approved", "rejected"}

\* It reads the row and applies its checks to what it read.
DecideRead(p, a, t, verdict) ==
    /\ Free(p)
    /\ tok[t].status = "pending" /\ tok[t].by # a
    /\ call' = [call EXCEPT ![p] =
                  [step |-> verdict, user |-> a, tok |-> t, rec |-> NoRecord, left |-> 0]]
    /\ UNCHANGED <<tok, uses, changed>>

\* The columns the UPDATE writes: an approval also sets its expiry.
Signed(row, verdict, a) ==
    [status |-> verdict, rec |-> row.rec, by |-> row.by, approver |-> a,
     expires |-> IF verdict = "approved" THEN "ahead" ELSE "null"]

\* Variant: the UPDATE relies on the status read before.
DecideUpdateByIdOnly(p) ==
    /\ call[p].step \in Verdicts
    /\ tok' = [tok EXCEPT ![call[p].tok] = Signed(@, call[p].step, call[p].user)]
    /\ Ends(p)
    /\ UNCHANGED <<uses, changed>>

\* Variant: the decision is stored without the name of who took it.
DecideUpdateUnsigned(p) ==
    LET t == call[p].tok
    IN  /\ call[p].step \in Verdicts
        /\ tok' = IF tok[t].status = "pending"
                  THEN [tok EXCEPT ![t] = Signed(@, call[p].step, NoUser)]
                  ELSE tok
        /\ Ends(p)
        /\ UNCHANGED <<uses, changed>>

\* It updates the row if it is still pending.  Nothing tells the caller when it
\* was not: the answer is the verdict either way.
DecideUpdate(p) ==
    LET t == call[p].tok
    IN  /\ call[p].step \in Verdicts
        /\ tok' = IF tok[t].status = "pending"
                  THEN [tok EXCEPT ![t] = Signed(@, call[p].step, call[p].user)]
                  ELSE tok
        /\ Ends(p)
        /\ UNCHANGED <<uses, changed>>

\* expires_at_iso passes.
Lapse(t) ==
    /\ tok[t].status = "approved" /\ tok[t].expires = "ahead"
    /\ tok' = [tok EXCEPT ![t].expires = "past"]
    /\ UNCHANGED <<call, uses, changed>>

-----------------------------------------------------------------------------
(* The guarded write.                                                        *)

\* Variant: a code that is spent is taken again.
ConsumeAgain(p, t, r) ==
    /\ Free(p)
    /\ tok[t].status \in {"approved", "used"} /\ tok[t].rec = r /\ tok[t].expires # "past"
    /\ tok' = [tok EXCEPT ![t].status = "used"]
    /\ uses' = [uses EXCEPT ![t] = @ + 1]
    /\ call' = [call EXCEPT ![p] = [step |-> "write", user |-> NoUser, tok |-> t,
                                    rec |-> r, left |-> MaxStatements]]
    /\ UNCHANGED changed

\* Variant: the expiry is not asked for.
ConsumeLate(p, t, r) ==
    /\ Free(p)
    /\ tok[t].status = "approved" /\ tok[t].rec = r
    /\ tok' = [tok EXCEPT ![t].status = "used", ![t].expires = "ahead"]
    /\ uses' = [uses EXCEPT ![t] = @ + 1]
    /\ call' = [call EXCEPT ![p] = [step |-> "write", user |-> NoUser, tok |-> t,
                                    rec |-> r, left |-> MaxStatements]]
    /\ UNCHANGED changed

\* consumeEditApprovalInTransaction: one UPDATE, which must touch one row; the
\* guard throws otherwise and nothing has happened.  Who sent the code, and what
\* change it was asked for, is not looked at.
Consume(p, t, r) ==
    /\ Free(p)
    /\ tok[t].status = "approved" /\ tok[t].rec = r /\ tok[t].expires # "past"
    /\ tok' = [tok EXCEPT ![t].status = "used"]
    /\ uses' = [uses EXCEPT ![t] = @ + 1]
    /\ call' = [call EXCEPT ![p] = [step |-> "write", user |-> NoUser, tok |-> t,
                                    rec |-> r, left |-> MaxStatements]]
    /\ UNCHANGED changed

\* A statement of executeWrite on the record.
Statement(p) ==
    /\ call[p].step = "write" /\ call[p].left > 0
    /\ changed' = [changed EXCEPT ![call[p].rec] = @ \cup {call[p].tok}]
    /\ call' = [call EXCEPT ![p].left = @ - 1]
    /\ UNCHANGED <<tok, uses>>

\* The guard answers: executeWrite returned, refused (ok: false) or threw.  The
\* ROLLBACK of the wrapper finds no transaction to undo.
Answer(p) ==
    /\ call[p].step = "write"
    /\ Ends(p)
    /\ UNCHANGED <<tok, uses, changed>>

\* The process dies in the middle of a handler and is started again.
Crash(p) ==
    /\ ~Free(p)
    /\ Ends(p)
    /\ UNCHANGED <<tok, uses, changed>>

Handler(p) ==
    \/ \E u \in Users, r \in Records : AskRead(p, u, r)
    \/ AskInsert(p)
    \/ \E a \in Approvers, t \in Tokens, v \in Verdicts : DecideRead(p, a, t, v)
    \/ DecideUpdate(p)
    \/ \E t \in Tokens, r \in Records : Consume(p, t, r)
    \/ Statement(p)
    \/ Answer(p)
    \/ Crash(p)

Next == \/ \E p \in Procs : Handler(p)
        \/ \E t \in Tokens : Lapse(t)

Spec == Init /\ [][Next]_vars

-----------------------------------------------------------------------------
(* Properties.                                                               *)

Rows == {NoRow}
        \cup [status : {"pending"}, rec : Records, by : Users, approver : {NoUser},
              expires : {"null"}]
        \cup [status : {"rejected"}, rec : Records, by : Users, approver : Approvers,
              expires : {"null"}]
        \cup [status : {"approved"}, rec : Records, by : Users, approver : Approvers,
              expires : {"ahead", "past"}]
        \cup [status : {"used"}, rec : Records, by : Users, approver : Approvers,
              expires : {"ahead"}]
Calls == {Idle}
         \cup [step : {"ask"}, user : Users, tok : Tokens, rec : Records, left : {0}]
         \cup [step : Verdicts, user : Approvers, tok : Tokens, rec : {NoRecord}, left : {0}]
         \cup [step : {"write"}, user : {NoUser}, tok : Tokens, rec : Records,
               left : 0..MaxStatements]

(* A row is blank, asked by somebody, or decided by a named approver; a process
   is between handlers or inside one of the four. *)
TypeOK == /\ tok \in [Tokens -> Rows]
          /\ call \in [Procs -> Calls]
          /\ uses \in [Tokens -> Nat]
          /\ changed \in [Records -> SUBSET Tokens]

(* A code lets at most one write through, even when two processes are handed
   the same code at once, when the write fails and when its process dies: the
   conditional UPDATE of consumeEditApprovalInTransaction decides alone. *)
SingleUse ==
    \A t \in Tokens :
        /\ uses[t] = IF tok[t].status = "used" THEN 1 ELSE 0
        /\ \A p, q \in Procs :
              (call[p].step = "write" /\ call[q].step = "write"
                 /\ call[p].tok = t /\ call[q].tok = t) => p = q

(* Whatever was changed behind the guard was changed under a code that stands
   as used, for that very record, granted by somebody other than its
   requester: no late decision of another process rewrites the record of who
   allowed it (two-person control in approveEditApproval). *)
ChangesAreApproved ==
    \A r \in Records : \A t \in changed[r] :
        /\ tok[t].status = "used" /\ tok[t].rec = r
        /\ tok[t].approver \in Approvers /\ tok[t].approver # tok[t].by

\* The stages of EditTicket as the columns tell them.
LifeOf(row) ==
    CASE row.status = "none" -> "blank"
      [] row.status = "pending" -> "asked"
      [] row.status = "rejected" -> "refused"
      [] row.status = "used" -> "spent"
      [] OTHER -> IF row.expires = "past" THEN "lapsed" ELSE "granted"

TicketOf(row) == [life |-> LifeOf(row), rec |-> row.rec, by |-> row.by,
                  approver |-> row.approver]
Tickets == [t \in Tokens |-> TicketOf(tok[t])]
OpenCodes == {t \in Tokens : \E p \in Procs : call[p].step = "write" /\ call[p].tok = t}

Ticket == INSTANCE EditTicket WITH
    ticket <- Tickets, uses <- uses, open <- OpenCodes, changed <- changed

(* The statements of the handlers, interleaved over processes and cut off by
   crashes, keep the promise of a ticket. *)
Implements == Ticket!Spec
=============================================================================
