-------------------------- MODULE EditApprovalProofs -------------------------
(***************************************************************************)
(* Second-party approval, for any number of codes, records, people,         *)
(* processes and statements: a code lets one write through, what is changed *)
(* behind the guard was approved by somebody else, and the handlers         *)
(* implement EditTicket.                                                    *)
(*                                                                          *)
(* The properties are not inductive.  A late decision must be known to come *)
(* from somebody other than the requester although it was checked on an     *)
(* earlier state (Deciders); a write under way must be known to hold its    *)
(* code although the code was looked at once (Writers).                     *)
(***************************************************************************)
EXTENDS EditApproval, TLAPS

Decided == {"approved", "rejected", "used"}

Deciders == \A p \in Procs : call[p].step \in Verdicts =>
                /\ tok[call[p].tok].status # "none"
                /\ tok[call[p].tok].by # call[p].user
Writers == \A p \in Procs : call[p].step = "write" =>
                /\ tok[call[p].tok].status = "used"
                /\ tok[call[p].tok].rec = call[p].rec
TwoPeople == \A t \in Tokens : tok[t].status \in Decided => tok[t].approver # tok[t].by

IInv == /\ TypeOK /\ SingleUse /\ ChangesAreApproved
        /\ Deciders /\ Writers /\ TwoPeople

USE PeopleAssumption, NothingAssumption, BoundAssumption

-----------------------------------------------------------------------------
(* What a row and a call look like.                                          *)

LEMMA RowFacts ==
    ASSUME NEW row \in Rows
    PROVE  /\ row.status \in {"none", "pending", "rejected", "used", "approved"}
           /\ row.status = "none" <=> row = NoRow
           /\ row.status # "none" => row.rec \in Records /\ row.by \in Users
           /\ row.status \in Decided => row.approver \in Approvers
           /\ row.status = "pending" => row.approver = NoUser /\ row.expires = "null"
           /\ row.status = "approved" => row.expires \in {"ahead", "past"}
<1>1. CASE row = NoRow
  BY <1>1 DEF NoRow, Decided
<1>2. CASE row # NoRow
  BY <1>2 DEF Rows, NoRow, Decided
<1>3. QED
  BY <1>1, <1>2

LEMMA CallFacts ==
    ASSUME NEW c \in Calls
    PROVE  /\ c.step \in {"idle", "ask", "approved", "rejected", "write"}
           /\ c.step = "ask" => c.user \in Users /\ c.tok \in Tokens /\ c.rec \in Records
           /\ c.step \in Verdicts => c.user \in Approvers /\ c.tok \in Tokens
           /\ c.step = "write" => c.tok \in Tokens /\ c.rec \in Records
                                    /\ c.left \in 0..MaxStatements
BY DEF Calls, Idle, Verdicts

LEMMA AskedRow ==
    ASSUME NEW r \in Records, NEW u \in Users
    PROVE  [status |-> "pending", rec |-> r, by |-> u, approver |-> NoUser,
            expires |-> "null"] \in Rows
BY DEF Rows

LEMMA DecidedRow ==
    ASSUME NEW row \in Rows, row.status # "none",
           NEW v \in Verdicts, NEW a \in Approvers
    PROVE  Signed(row, v, a) \in Rows
<1>1. row.rec \in Records /\ row.by \in Users
  BY RowFacts
<1>2. CASE v = "approved"
  BY <1>1, <1>2 DEF Rows, Signed
<1>3. CASE v = "rejected"
  BY <1>1, <1>3 DEF Rows, Signed
<1>4. QED
  BY <1>2, <1>3 DEF Verdicts

LEMMA LapsedRow ==
    ASSUME NEW row \in Rows, row.status = "approved"
    PROVE  /\ [row EXCEPT !.expires = "past"] \in Rows
           /\ [row EXCEPT !.expires = "past"]
                = [status |-> "approved", rec |-> row.rec, by |-> row.by,
                   approver |-> row.approver, expires |-> "past"]
BY DEF Rows, NoRow

LEMMA UsedRow ==
    ASSUME NEW row \in Rows, row.status = "approved", row.expires # "past"
    PROVE  /\ [row EXCEPT !.status = "used"] \in Rows
           /\ [row EXCEPT !.status = "used"]
                = [status |-> "used", rec |-> row.rec, by |-> row.by,
                   approver |-> row.approver, expires |-> "ahead"]
BY DEF Rows, NoRow

-----------------------------------------------------------------------------
(* The initial state and the steps.                                          *)

LEMMA InitHolds == Init => IInv
<1>1. SUFFICES ASSUME Init PROVE IInv
  OBVIOUS
<1>2. TypeOK
  BY <1>1 DEF Init, TypeOK, Rows, Calls
<1>3. SingleUse
  BY <1>1 DEF Init, SingleUse, NoRow, Idle
<1>4. QED
  BY <1>1, <1>2, <1>3
  DEF Init, IInv, ChangesAreApproved, Deciders, Writers, TwoPeople, NoRow, Idle,
      Verdicts, Decided

\* A process that goes back to idle, or begins a handler that has no code yet,
\* disturbs nothing.
LEMMA CallStep ==
    ASSUME IInv, NEW p \in Procs, NEW c \in Calls,
           UNCHANGED <<tok, uses, changed>>,
           call' = [call EXCEPT ![p] = c],
           c.step # "write",
           c.step \in Verdicts => /\ tok[c.tok].status # "none"
                                  /\ tok[c.tok].by # c.user
    PROVE  IInv'
<1>1. TypeOK'
  BY DEF IInv, TypeOK
<1>2. \A q \in Procs : call'[q] = IF q = p THEN c ELSE call[q]
  BY DEF IInv, TypeOK
<1>3. SingleUse'
  BY <1>2 DEF IInv, SingleUse
<1>4. ChangesAreApproved' /\ TwoPeople'
  BY DEF IInv, ChangesAreApproved, TwoPeople
<1>5. Deciders'
  BY <1>2 DEF IInv, Deciders
<1>6. Writers'
  BY <1>2 DEF IInv, Writers
<1>7. QED
  BY <1>1, <1>3, <1>4, <1>5, <1>6 DEF IInv

LEMMA IdleCall == Idle \in Calls /\ Idle.step = "idle" /\ "idle" \notin Verdicts
BY DEF Calls, Idle, Verdicts

LEMMA AskReadStep ==
    ASSUME IInv, NEW p \in Procs, NEW u \in Users, NEW r \in Records, AskRead(p, u, r)
    PROVE  IInv'
<1>1. PICK t \in Tokens :
        call' = [call EXCEPT ![p] =
                   [step |-> "ask", user |-> u, tok |-> t, rec |-> r, left |-> 0]]
  BY DEF AskRead
<1>2. [step |-> "ask", user |-> u, tok |-> t, rec |-> r, left |-> 0] \in Calls
  BY DEF Calls
<1>3. UNCHANGED <<tok, uses, changed>>
  BY DEF AskRead
<1>4. QED
  BY <1>1, <1>2, <1>3, CallStep DEF Verdicts

LEMMA DecideReadStep ==
    ASSUME IInv, NEW p \in Procs, NEW a \in Approvers, NEW t \in Tokens,
           NEW v \in Verdicts, DecideRead(p, a, t, v)
    PROVE  IInv'
<1> DEFINE c == [step |-> v, user |-> a, tok |-> t, rec |-> NoRecord, left |-> 0]
<1>1. c \in Calls
  BY DEF Calls
<1>2. UNCHANGED <<tok, uses, changed>> /\ call' = [call EXCEPT ![p] = c]
  BY DEF DecideRead
<1>3. tok[c.tok].status # "none" /\ tok[c.tok].by # c.user /\ c.step # "write"
  BY DEF DecideRead, Verdicts
<1>4. QED
  BY <1>1, <1>2, <1>3, CallStep

LEMMA EndStep ==
    ASSUME IInv, NEW p \in Procs, Answer(p) \/ Crash(p)
    PROVE  IInv'
BY IdleCall, CallStep DEF Answer, Crash, Ends

LEMMA StatementStep ==
    ASSUME IInv, NEW p \in Procs, Statement(p)
    PROVE  IInv'
<1> DEFINE c == call[p]
           d == [c EXCEPT !.left = @ - 1]
<1>1. c \in Calls /\ c.step = "write"
  BY DEF IInv, TypeOK, Statement
<1>2. c.tok \in Tokens /\ c.rec \in Records /\ c.left \in 0..MaxStatements
  BY <1>1, CallFacts
<1>3. c = [step |-> "write", user |-> NoUser, tok |-> c.tok, rec |-> c.rec,
           left |-> c.left]
  BY <1>1 DEF Calls, Idle, Verdicts
<1>4. d = [step |-> "write", user |-> NoUser, tok |-> c.tok, rec |-> c.rec,
           left |-> c.left - 1]
  BY <1>3
<1>5. c.left - 1 \in 0..MaxStatements
  BY <1>2 DEF Statement
<1>6. d \in Calls
  BY <1>2, <1>4, <1>5 DEF Calls
<1>7. /\ UNCHANGED <<tok, uses>>
      /\ call' = [call EXCEPT ![p] = d]
      /\ changed' = [changed EXCEPT ![c.rec] = @ \cup {c.tok}]
  BY DEF Statement
<1>8. \A q \in Procs : /\ call'[q].step = call[q].step
                       /\ call'[q].tok = call[q].tok
                       /\ call'[q].rec = call[q].rec
                       /\ call'[q].user = call[q].user
  BY <1>3, <1>4, <1>7 DEF IInv, TypeOK
<1>9. TypeOK'
  BY <1>2, <1>6, <1>7 DEF IInv, TypeOK
<1>10. SingleUse' /\ Deciders' /\ Writers'
  BY <1>7, <1>8 DEF IInv, SingleUse, Deciders, Writers
<1>11. TwoPeople'
  BY <1>7 DEF IInv, TwoPeople
<1>12. ChangesAreApproved'
  <2>1. tok[c.tok] \in Rows /\ tok[c.tok].status = "used" /\ tok[c.tok].rec = c.rec
    BY <1>1, <1>2 DEF IInv, TypeOK, Writers
  <2>2. tok[c.tok].approver \in Approvers /\ tok[c.tok].approver # tok[c.tok].by
    BY <1>2, <2>1, RowFacts DEF IInv, TwoPeople, Decided
  <2>3. \A r \in Records : \A t \in changed'[r] :
          t \in changed[r] \/ (t = c.tok /\ r = c.rec)
    BY <1>7 DEF IInv, TypeOK
  <2>4. QED
    BY <1>7, <2>1, <2>2, <2>3 DEF IInv, ChangesAreApproved
<1>13. QED
  BY <1>9, <1>10, <1>11, <1>12 DEF IInv

\* A row that is not spent, and does not become so, changes or appears; the
\* process that changed it goes back to idle.
LEMMA RowStep ==
    ASSUME IInv, NEW t \in Tokens, NEW row \in Rows,
           tok' = [tok EXCEPT ![t] = row],
           UNCHANGED <<uses, changed>>,
           call' \in [Procs -> Calls],
           \A q \in Procs : call'[q] = call[q] \/ call'[q] = Idle,
           tok[t].status # "used", row.status \notin {"used", "none"},
           tok[t].status # "none" => row.by = tok[t].by,
           row.status \in Decided => row.approver # row.by
    PROVE  IInv'
<1>1. TypeOK'
  BY DEF IInv, TypeOK
<1>2. \A s \in Tokens : tok'[s] = IF s = t THEN row ELSE tok[s]
  BY DEF IInv, TypeOK
<1>3. \A q \in Procs : call'[q].step # "idle" => call'[q] = call[q]
  BY IdleCall
<1>4. SingleUse'
  BY <1>2, <1>3 DEF IInv, SingleUse
<1>5. ChangesAreApproved'
  <2>1. \A r \in Records : t \notin changed[r]
    BY DEF IInv, ChangesAreApproved
  <2>2. \A r \in Records : changed[r] \subseteq Tokens
    BY DEF IInv, TypeOK
  <2>3. QED
    BY <1>2, <2>1, <2>2 DEF IInv, ChangesAreApproved
<1>6. TwoPeople'
  BY <1>2 DEF IInv, TwoPeople
<1>7. Deciders'
  <2>1. SUFFICES ASSUME NEW q \in Procs, call'[q].step \in Verdicts
                 PROVE  /\ tok'[call'[q].tok].status # "none"
                        /\ tok'[call'[q].tok].by # call'[q].user
    BY DEF Deciders
  <2>2. call'[q] = call[q] /\ call[q].tok \in Tokens
    BY <1>3, <2>1, IdleCall, CallFacts DEF IInv, TypeOK
  <2>3. tok[call[q].tok].status # "none" /\ tok[call[q].tok].by # call[q].user
    BY <2>1, <2>2 DEF IInv, Deciders
  <2>4. QED
    BY <1>2, <2>2, <2>3
<1>8. Writers'
  <2>1. SUFFICES ASSUME NEW q \in Procs, call'[q].step = "write"
                 PROVE  /\ tok'[call'[q].tok].status = "used"
                        /\ tok'[call'[q].tok].rec = call'[q].rec
    BY DEF Writers
  <2>2. call'[q] = call[q] /\ call[q].tok \in Tokens
    BY <1>3, <2>1, CallFacts DEF IInv, TypeOK
  <2>3. tok[call[q].tok].status = "used" /\ tok[call[q].tok].rec = call[q].rec
    BY <2>1, <2>2 DEF IInv, Writers
  <2>4. QED
    BY <1>2, <2>2, <2>3
<1>9. QED
  BY <1>1, <1>4, <1>5, <1>6, <1>7, <1>8 DEF IInv

LEMMA EndsFacts ==
    ASSUME TypeOK, NEW p \in Procs, Ends(p)
    PROVE  /\ call' \in [Procs -> Calls]
           /\ \A q \in Procs : call'[q] = IF q = p THEN Idle ELSE call[q]
BY IdleCall DEF Ends, TypeOK

LEMMA AskInsertStep ==
    ASSUME IInv, NEW p \in Procs, AskInsert(p)
    PROVE  IInv'
<1> DEFINE t == call[p].tok
           row == [status |-> "pending", rec |-> call[p].rec, by |-> call[p].user,
                   approver |-> NoUser, expires |-> "null"]
<1>1. t \in Tokens /\ call[p].user \in Users /\ call[p].rec \in Records
  BY CallFacts DEF IInv, TypeOK, AskInsert
<1>2. CASE tok[t] = NoRow
  <2>1. tok' = [tok EXCEPT ![t] = row]
    BY <1>2 DEF AskInsert
  <2>2. row \in Rows
    BY <1>1, AskedRow
  <2>3. UNCHANGED <<uses, changed>> /\ Ends(p)
    BY DEF AskInsert
  <2>4. row.status = "pending" /\ "pending" \notin Decided /\ tok[t].status = "none"
    BY <1>2 DEF NoRow, Decided
  <2>. HIDE DEF row, t
  <2>5. QED
    BY <1>1, <2>1, <2>2, <2>3, <2>4, RowStep, EndsFacts DEF IInv
<1>3. CASE tok[t] # NoRow
  BY <1>3, CallStep, IdleCall DEF AskInsert, Ends
<1>4. QED
  BY <1>2, <1>3

LEMMA DecideUpdateStep ==
    ASSUME IInv, NEW p \in Procs, DecideUpdate(p)
    PROVE  IInv'
<1> DEFINE t == call[p].tok
           v == call[p].step
           a == call[p].user
           row == Signed(tok[t], v, a)
<1>1. t \in Tokens /\ a \in Approvers /\ v \in Verdicts /\ tok[t] \in Rows
  BY CallFacts DEF IInv, TypeOK, DecideUpdate
<1>2. CASE tok[t].status = "pending"
  <2>1. tok' = [tok EXCEPT ![t] = row]
    BY <1>1, <1>2 DEF DecideUpdate, IInv, TypeOK
  <2>2. row \in Rows
    BY <1>1, <1>2, DecidedRow
  <2>3. row.status = v /\ row.by = tok[t].by /\ row.approver = a
    BY DEF Signed
  <2>4. tok[t].by # a
    BY <1>1 DEF IInv, Deciders
  <2>5. UNCHANGED <<uses, changed>> /\ Ends(p)
    BY DEF DecideUpdate
  <2>6. v \notin {"used", "none"}
    BY <1>1 DEF Verdicts
  <2>. HIDE DEF row, t, v, a
  <2>7. QED
    BY <1>1, <1>2, <2>1, <2>2, <2>3, <2>4, <2>5, <2>6, RowStep, EndsFacts DEF IInv
<1>3. CASE tok[t].status # "pending"
  BY <1>3, CallStep, IdleCall DEF DecideUpdate, Ends
<1>4. QED
  BY <1>2, <1>3

LEMMA LapseStep ==
    ASSUME IInv, NEW t \in Tokens, Lapse(t)
    PROVE  IInv'
<1> DEFINE row == [tok[t] EXCEPT !.expires = "past"]
<1>1. tok[t] \in Rows /\ tok[t].status = "approved"
  BY DEF IInv, TypeOK, Lapse
<1>2. tok' = [tok EXCEPT ![t] = row] /\ UNCHANGED <<call, uses, changed>>
  BY DEF Lapse, IInv, TypeOK
<1>3. /\ row \in Rows
      /\ row = [status |-> "approved", rec |-> tok[t].rec, by |-> tok[t].by,
                approver |-> tok[t].approver, expires |-> "past"]
  BY <1>1, LapsedRow
<1>4. row.status = "approved" /\ row.by = tok[t].by /\ row.approver = tok[t].approver
  BY <1>3
<1>5. tok[t].approver # tok[t].by
  BY <1>1 DEF IInv, TwoPeople, Decided
<1>6. call' \in [Procs -> Calls] /\ \A q \in Procs : call'[q] = call[q]
  BY <1>2 DEF IInv, TypeOK
<1>. HIDE DEF row
<1>7. QED
  BY <1>1, <1>2, <1>3, <1>4, <1>5, <1>6, RowStep

LEMMA ConsumeStep ==
    ASSUME IInv, NEW p \in Procs, NEW t \in Tokens, NEW r \in Records, Consume(p, t, r)
    PROVE  IInv'
<1> DEFINE row == [tok[t] EXCEPT !.status = "used"]
           c == [step |-> "write", user |-> NoUser, tok |-> t, rec |-> r,
                 left |-> MaxStatements]
<1>1. tok[t] \in Rows /\ tok[t].status = "approved" /\ tok[t].expires # "past"
      /\ tok[t].rec = r
  BY DEF IInv, TypeOK, Consume
<1>2. /\ row \in Rows
      /\ row = [status |-> "used", rec |-> tok[t].rec, by |-> tok[t].by,
                approver |-> tok[t].approver, expires |-> "ahead"]
  BY <1>1, UsedRow
<1>3. c \in Calls /\ c.step = "write" /\ c.tok = t /\ c.rec = r /\ "write" \notin Verdicts
  BY DEF Calls, Verdicts
<1>4. /\ row.status = "used" /\ row.rec = r /\ row.by = tok[t].by
      /\ row.approver = tok[t].approver /\ row.approver # row.by
  BY <1>1, <1>2 DEF IInv, TwoPeople, Decided
<1>5. /\ tok' = [tok EXCEPT ![t] = row] /\ call' = [call EXCEPT ![p] = c]
      /\ uses' = [uses EXCEPT ![t] = @ + 1] /\ changed' = changed
  BY DEF Consume, IInv, TypeOK
<1>. HIDE DEF row, c
<1>6. TypeOK'
  BY <1>2, <1>3, <1>5 DEF IInv, TypeOK
<1>7. /\ \A s \in Tokens : tok'[s] = IF s = t THEN row ELSE tok[s]
      /\ \A q \in Procs : call'[q] = IF q = p THEN c ELSE call[q]
  BY <1>5 DEF IInv, TypeOK
<1>8. \A q \in Procs : call[q].step = "write" => call[q].tok # t
  BY <1>1 DEF IInv, Writers
<1>9. SingleUse'
  <2>1. uses[t] = 0 /\ uses'[t] = 1 /\ \A s \in Tokens : s # t => uses'[s] = uses[s]
    BY <1>1, <1>5 DEF IInv, TypeOK, SingleUse
  <2>2. \A s \in Tokens : uses'[s] = IF tok'[s].status = "used" THEN 1 ELSE 0
    BY <1>4, <1>7, <2>1 DEF IInv, SingleUse
  <2>3. \A s \in Tokens : \A q1, q2 \in Procs :
          (call'[q1].step = "write" /\ call'[q2].step = "write"
             /\ call'[q1].tok = s /\ call'[q2].tok = s) => q1 = q2
    BY <1>3, <1>7, <1>8 DEF IInv, SingleUse
  <2>4. QED
    BY <2>2, <2>3 DEF SingleUse
<1>10. ChangesAreApproved'
  <2>1. \A s \in Records : t \notin changed[s] /\ changed[s] \subseteq Tokens
    BY <1>1 DEF IInv, ChangesAreApproved, TypeOK
  <2>2. QED
    BY <1>5, <1>7, <2>1 DEF IInv, ChangesAreApproved
<1>11. TwoPeople'
  BY <1>4, <1>7 DEF IInv, TwoPeople
<1>12. Deciders'
  <2>1. SUFFICES ASSUME NEW q \in Procs, call'[q].step \in Verdicts
                 PROVE  /\ tok'[call'[q].tok].status # "none"
                        /\ tok'[call'[q].tok].by # call'[q].user
    BY DEF Deciders
  <2>2. call'[q] = call[q] /\ call[q].tok \in Tokens
    BY <1>3, <1>7, <2>1, CallFacts DEF IInv, TypeOK
  <2>3. tok[call[q].tok].status # "none" /\ tok[call[q].tok].by # call[q].user
    BY <2>1, <2>2 DEF IInv, Deciders
  <2>4. QED
    BY <1>4, <1>7, <2>2, <2>3
<1>13. Writers'
  <2>1. SUFFICES ASSUME NEW q \in Procs, call'[q].step = "write"
                 PROVE  /\ tok'[call'[q].tok].status = "used"
                        /\ tok'[call'[q].tok].rec = call'[q].rec
    BY DEF Writers
  <2>2. CASE q = p
    BY <1>3, <1>4, <1>7, <2>2
  <2>3. CASE q # p
    <3>1. call'[q] = call[q] /\ call[q].tok \in Tokens
      BY <1>7, <2>1, <2>3, CallFacts DEF IInv, TypeOK
    <3>2. tok[call[q].tok].status = "used" /\ tok[call[q].tok].rec = call[q].rec
      BY <2>1, <3>1 DEF IInv, Writers
    <3>3. QED
      BY <1>8, <1>7, <2>1, <3>1, <3>2
  <2>4. QED
    BY <2>2, <2>3
<1>14. QED
  BY <1>6, <1>9, <1>10, <1>11, <1>12, <1>13 DEF IInv

LEMMA NextStep == IInv /\ [Next]_vars => IInv'
<1>1. SUFFICES ASSUME IInv, [Next]_vars PROVE IInv'
  OBVIOUS
<1>2. CASE UNCHANGED vars
  BY <1>1, <1>2 DEF vars, IInv, TypeOK, SingleUse, ChangesAreApproved, Deciders, Writers,
                    TwoPeople
<1>3. CASE \E t \in Tokens : Lapse(t)
  BY <1>1, <1>3, LapseStep
<1>4. ASSUME NEW p \in Procs, Handler(p) PROVE IInv'
  <2>1. CASE \E u \in Users, r \in Records : AskRead(p, u, r)
    BY <1>1, <2>1, AskReadStep
  <2>2. CASE AskInsert(p)
    BY <1>1, <2>2, AskInsertStep
  <2>3. CASE \E a \in Approvers, t \in Tokens, v \in Verdicts : DecideRead(p, a, t, v)
    BY <1>1, <2>3, DecideReadStep
  <2>4. CASE DecideUpdate(p)
    BY <1>1, <2>4, DecideUpdateStep
  <2>5. CASE \E t \in Tokens, r \in Records : Consume(p, t, r)
    BY <1>1, <2>5, ConsumeStep
  <2>6. CASE Statement(p)
    BY <1>1, <2>6, StatementStep
  <2>7. CASE Answer(p) \/ Crash(p)
    BY <1>1, <2>7, EndStep
  <2>8. QED
    BY <1>4, <2>1, <2>2, <2>3, <2>4, <2>5, <2>6, <2>7 DEF Handler
<1>5. QED
  BY <1>1, <1>2, <1>3, <1>4 DEF Next

-----------------------------------------------------------------------------
(* The properties.                                                           *)

(* The inductive invariant holds in every behaviour. *)
THEOREM ApprovalInvariant == Spec => []IInv
BY InitHolds, NextStep, PTL DEF Spec

(* Rows of edit_approval_tokens and handlers under way keep their shape. *)
THEOREM CodesTyped == Spec => []TypeOK
BY ApprovalInvariant, PTL DEF IInv

(* A code lets at most one write through, whatever the processes do
   (consumeEditApprovalInTransaction). *)
THEOREM CodesUsedOnce == Spec => []SingleUse
BY ApprovalInvariant, PTL DEF IInv

(* Every change behind the guard stands under a used code for that record that
   somebody other than its requester granted (approveEditApproval). *)
THEOREM ChangesApproved == Spec => []ChangesAreApproved
BY ApprovalInvariant, PTL DEF IInv

-----------------------------------------------------------------------------
(* The refinement: each step of a handler is a step of the ticket or none.   *)

\* A row that changes is a ticket that changes.
LEMMA TicketsUpdate ==
    ASSUME TypeOK, NEW t \in Tokens, NEW row, tok' = [tok EXCEPT ![t] = row]
    PROVE  Tickets' = [Tickets EXCEPT ![t] = TicketOf(row)]
<1>1. \A s \in Tokens : tok'[s] = IF s = t THEN row ELSE tok[s]
  BY DEF TypeOK
<1>2. Tickets' = [s \in Tokens |-> IF s = t THEN TicketOf(row) ELSE Tickets[s]]
  BY <1>1 DEF Tickets
<1>3. QED
  BY <1>2 DEF Tickets

\* Calls that change without a write under way before or after leave the codes
\* with a write under way alone.
LEMMA OpenSame ==
    ASSUME TypeOK, NEW p \in Procs, NEW c, call' = [call EXCEPT ![p] = c],
           call[p].step # "write", c.step # "write"
    PROVE  OpenCodes' = OpenCodes
<1>1. \A q \in Procs : call'[q] = IF q = p THEN c ELSE call[q]
  BY DEF TypeOK
<1>2. QED
  BY <1>1 DEF OpenCodes

LEMMA EndSame ==
    ASSUME TypeOK, NEW p \in Procs, Ends(p), call[p].step # "write"
    PROVE  OpenCodes' = OpenCodes
BY OpenSame, IdleCall DEF Ends

LEMMA ReadRefines ==
    ASSUME IInv, NEW p \in Procs, Free(p), NEW c, c.step # "write",
           call' = [call EXCEPT ![p] = c], UNCHANGED <<tok, uses, changed>>
    PROVE  UNCHANGED Ticket!vars
<1>1. OpenCodes' = OpenCodes
  BY OpenSame DEF IInv, Free
<1>2. Tickets' = Tickets
  BY DEF Tickets
<1>3. QED
  BY <1>1, <1>2 DEF Ticket!vars

LEMMA AskRefines ==
    ASSUME IInv, NEW p \in Procs, AskInsert(p)
    PROVE  [Ticket!Next]_Ticket!vars
<1> DEFINE t == call[p].tok
           u == call[p].user
           r == call[p].rec
           row == [status |-> "pending", rec |-> r, by |-> u, approver |-> NoUser,
                   expires |-> "null"]
<1>1. t \in Tokens /\ u \in Users /\ r \in Records
  BY CallFacts DEF IInv, TypeOK, AskInsert
<1>2. OpenCodes' = OpenCodes /\ UNCHANGED <<uses, changed>>
  BY EndSame DEF AskInsert, IInv
<1>3. CASE tok[t] = NoRow
  <2>1. tok' = [tok EXCEPT ![t] = row]
    BY <1>3 DEF AskInsert
  <2>2. Tickets' = [Tickets EXCEPT ![t] = TicketOf(row)]
    BY <1>1, <2>1, TicketsUpdate DEF IInv
  <2>3. TicketOf(row) = [life |-> "asked", rec |-> r, by |-> u, approver |-> NoUser]
    BY DEF TicketOf, LifeOf
  <2>4. Tickets[t] = Ticket!Blank
    BY <1>1, <1>3 DEF Tickets, TicketOf, LifeOf, NoRow, Ticket!Blank
  <2>5. Ticket!Ask(t, u, r)
    BY <1>2, <2>2, <2>3, <2>4 DEF Ticket!Ask
  <2>6. QED
    BY <1>1, <2>5 DEF Ticket!Next
<1>4. CASE tok[t] # NoRow
  BY <1>2, <1>4 DEF AskInsert, Tickets, Ticket!vars
<1>5. QED
  BY <1>3, <1>4

LEMMA DecideRefines ==
    ASSUME IInv, NEW p \in Procs, DecideUpdate(p)
    PROVE  [Ticket!Next]_Ticket!vars
<1> DEFINE t == call[p].tok
           v == call[p].step
           a == call[p].user
           row == Signed(tok[t], v, a)
           verdict == IF v = "approved" THEN "granted" ELSE "refused"
<1>1. t \in Tokens /\ a \in Approvers /\ v \in Verdicts
  BY CallFacts DEF IInv, TypeOK, DecideUpdate
<1>2. OpenCodes' = OpenCodes /\ UNCHANGED <<uses, changed>>
  BY <1>1, EndSame DEF DecideUpdate, IInv, Verdicts
<1>3. CASE tok[t].status = "pending"
  <2>1. Tickets' = [Tickets EXCEPT ![t] = TicketOf(row)]
    BY <1>1, <1>3, TicketsUpdate DEF DecideUpdate, IInv
  <2>2. Tickets[t] = [life |-> "asked", rec |-> tok[t].rec, by |-> tok[t].by,
                      approver |-> tok[t].approver]
    BY <1>1, <1>3 DEF Tickets, TicketOf, LifeOf
  <2>3. TicketOf(row) = [life |-> verdict, rec |-> tok[t].rec, by |-> tok[t].by,
                         approver |-> a]
    <3>1. LifeOf(row) = verdict
      BY <1>1 DEF LifeOf, Signed, Verdicts
    <3>2. row.rec = tok[t].rec /\ row.by = tok[t].by /\ row.approver = a
      BY DEF Signed
    <3>. HIDE DEF row, verdict
    <3>3. QED
      BY <3>1, <3>2 DEF TicketOf
  <2>4. TicketOf(row) = [life |-> verdict, rec |-> Tickets[t].rec, by |-> Tickets[t].by,
                         approver |-> a]
    BY <2>2, <2>3
  <2>5. a # Tickets[t].by /\ Tickets[t].life = "asked"
    BY <1>1, <2>2 DEF IInv, Deciders
  <2>6. Ticket!Decide(t, a, verdict)
    BY <1>1, <1>2, <2>1, <2>4, <2>5 DEF Ticket!Decide, Tickets
  <2>7. QED
    BY <1>1, <2>6 DEF Ticket!Next
<1>4. CASE tok[t].status # "pending"
  BY <1>2, <1>4 DEF DecideUpdate, Tickets, Ticket!vars
<1>5. QED
  BY <1>3, <1>4

LEMMA LapseRefines ==
    ASSUME IInv, NEW t \in Tokens, Lapse(t)
    PROVE  Ticket!Lapse(t)
<1> DEFINE row == [tok[t] EXCEPT !.expires = "past"]
<1>1. tok[t] \in Rows /\ tok[t].status = "approved" /\ tok[t].expires = "ahead"
  BY DEF IInv, TypeOK, Lapse
<1>2. row = [status |-> "approved", rec |-> tok[t].rec, by |-> tok[t].by,
             approver |-> tok[t].approver, expires |-> "past"]
  BY <1>1, LapsedRow
<1>3. tok' = [tok EXCEPT ![t] = row] /\ UNCHANGED <<call, uses, changed>>
  BY DEF Lapse, IInv, TypeOK
<1>4. TicketOf(row) = [life |-> "lapsed", rec |-> tok[t].rec, by |-> tok[t].by,
                       approver |-> tok[t].approver]
  BY <1>2 DEF TicketOf, LifeOf
<1>5. Tickets[t] = [life |-> "granted", rec |-> tok[t].rec, by |-> tok[t].by,
                    approver |-> tok[t].approver]
  BY <1>1 DEF Tickets, TicketOf, LifeOf
<1>6. Tickets' = [Tickets EXCEPT ![t] = TicketOf(row)]
  BY <1>3, TicketsUpdate DEF IInv
<1>7. TicketOf(row) = [Tickets[t] EXCEPT !.life = "lapsed"] /\ Tickets[t].life = "granted"
  BY <1>4, <1>5
<1>8. OpenCodes' = OpenCodes
  BY <1>3 DEF OpenCodes
<1>. HIDE DEF row
<1>9. QED
  BY <1>3, <1>6, <1>7, <1>8 DEF Ticket!Lapse, Tickets

LEMMA ConsumeRefines ==
    ASSUME IInv, NEW p \in Procs, NEW t \in Tokens, NEW r \in Records, Consume(p, t, r)
    PROVE  Ticket!Spend(t)
<1> DEFINE row == [tok[t] EXCEPT !.status = "used"]
           c == [step |-> "write", user |-> NoUser, tok |-> t, rec |-> r,
                 left |-> MaxStatements]
<1>1. tok[t] \in Rows /\ tok[t].status = "approved" /\ tok[t].expires # "past"
  BY DEF IInv, TypeOK, Consume
<1>2. row = [status |-> "used", rec |-> tok[t].rec, by |-> tok[t].by,
             approver |-> tok[t].approver, expires |-> "ahead"]
  BY <1>1, UsedRow
<1>3. /\ tok' = [tok EXCEPT ![t] = row] /\ call' = [call EXCEPT ![p] = c]
      /\ uses' = [uses EXCEPT ![t] = @ + 1] /\ changed' = changed
      /\ call[p].step = "idle"
  BY DEF Consume, Free, IInv, TypeOK
<1>4. TicketOf(row) = [life |-> "spent", rec |-> tok[t].rec, by |-> tok[t].by,
                       approver |-> tok[t].approver]
  BY <1>2 DEF TicketOf, LifeOf
<1>5. Tickets[t] = [life |-> "granted", rec |-> tok[t].rec, by |-> tok[t].by,
                    approver |-> tok[t].approver]
  BY <1>1 DEF Tickets, TicketOf, LifeOf
<1>6. Tickets' = [Tickets EXCEPT ![t] = TicketOf(row)]
  BY <1>3, TicketsUpdate DEF IInv
<1>7. TicketOf(row) = [Tickets[t] EXCEPT !.life = "spent"] /\ Tickets[t].life = "granted"
  BY <1>4, <1>5
<1>8. uses[t] = 0 /\ uses' = [uses EXCEPT ![t] = 1]
  <2>1. uses[t] = 0
    BY <1>1 DEF IInv, SingleUse
  <2>2. uses' = [uses EXCEPT ![t] = uses[t] + 1]
    BY <1>3
  <2>3. QED
    BY <2>1, <2>2
<1>9. OpenCodes' = OpenCodes \cup {t}
  <2>1. c.step = "write" /\ c.tok = t
    OBVIOUS
  <2>. HIDE DEF c
  <2>2. \A q \in Procs : call'[q] = IF q = p THEN c ELSE call[q]
    BY <1>3 DEF IInv, TypeOK
  <2>3. QED
    BY <1>3, <2>1, <2>2 DEF OpenCodes
<1>. HIDE DEF row, c
<1>10. QED
  BY <1>3, <1>6, <1>7, <1>8, <1>9 DEF Ticket!Spend, Tickets

LEMMA StatementRefines ==
    ASSUME IInv, NEW p \in Procs, Statement(p)
    PROVE  \E t \in Tokens : Ticket!Change(t)
<1> DEFINE t == call[p].tok
<1>1. t \in Tokens /\ call[p].step = "write"
  BY CallFacts DEF IInv, TypeOK, Statement
<1>2. Tickets[t].rec = call[p].rec
  BY <1>1 DEF IInv, Writers, Tickets, TicketOf
<1>3. t \in OpenCodes
  BY <1>1 DEF OpenCodes
<1>4. call' = [call EXCEPT ![p] = [call[p] EXCEPT !.left = @ - 1]]
  BY DEF Statement
<1>5. \A q \in Procs : call'[q].step = call[q].step /\ call'[q].tok = call[q].tok
  <2>1. call[p] = [step |-> "write", user |-> NoUser, tok |-> t, rec |-> call[p].rec,
                   left |-> call[p].left]
    BY <1>1 DEF IInv, TypeOK, Calls, Idle, Verdicts
  <2>2. [call[p] EXCEPT !.left = @ - 1]
          = [step |-> "write", user |-> NoUser, tok |-> t, rec |-> call[p].rec,
             left |-> call[p].left - 1]
    BY <2>1
  <2>3. \A q \in Procs : call'[q] = IF q = p THEN [call[p] EXCEPT !.left = @ - 1]
                                             ELSE call[q]
    BY <1>4 DEF IInv, TypeOK
  <2>4. QED
    BY <1>1, <2>2, <2>3
<1>6. OpenCodes' = OpenCodes
  BY <1>5 DEF OpenCodes
<1>7. Tickets' = Tickets /\ UNCHANGED uses
  BY DEF Statement, Tickets
<1>8. changed' = [changed EXCEPT ![Tickets[t].rec] = @ \cup {t}]
  BY <1>2 DEF Statement
<1>9. Ticket!Change(t)
  BY <1>3, <1>6, <1>7, <1>8 DEF Ticket!Change
<1>10. QED
  BY <1>1, <1>9

LEMMA CloseRefines ==
    ASSUME IInv, NEW p \in Procs, Ends(p), call[p].step = "write",
           UNCHANGED <<tok, uses, changed>>
    PROVE  \E t \in Tokens : Ticket!Close(t)
<1> DEFINE t == call[p].tok
<1>1. t \in Tokens
  BY CallFacts DEF IInv, TypeOK
<1>2. t \in OpenCodes
  BY <1>1 DEF OpenCodes
<1>3. \A q \in Procs : call'[q] = IF q = p THEN Idle ELSE call[q]
  BY EndsFacts DEF IInv
<1>4. \A q \in Procs : (call[q].step = "write" /\ call[q].tok = t) => q = p
  BY <1>1 DEF IInv, SingleUse
<1>5. OpenCodes' = OpenCodes \ {t}
  BY <1>3, <1>4, IdleCall DEF OpenCodes
<1>6. Tickets' = Tickets
  BY DEF Tickets
<1>7. Ticket!Close(t)
  BY <1>2, <1>5, <1>6 DEF Ticket!Close
<1>8. QED
  BY <1>1, <1>7

LEMMA InitRefines == Init => Ticket!Init
<1>1. SUFFICES ASSUME Init PROVE Ticket!Init
  OBVIOUS
<1>2. Tickets = [t \in Tokens |-> Ticket!Blank]
  BY <1>1 DEF Init, Tickets, TicketOf, LifeOf, NoRow, Ticket!Blank
<1>3. OpenCodes = {}
  BY <1>1 DEF Init, OpenCodes, Idle
<1>4. QED
  BY <1>1, <1>2, <1>3 DEF Init, Ticket!Init

LEMMA NextRefines == IInv /\ [Next]_vars => [Ticket!Next]_Ticket!vars
<1>1. SUFFICES ASSUME IInv, [Next]_vars PROVE [Ticket!Next]_Ticket!vars
  OBVIOUS
<1>2. CASE UNCHANGED vars
  BY <1>2 DEF vars, Ticket!vars, Tickets, OpenCodes
<1>3. CASE \E t \in Tokens : Lapse(t)
  BY <1>1, <1>3, LapseRefines DEF Ticket!Next
<1>4. ASSUME NEW p \in Procs, Handler(p) PROVE [Ticket!Next]_Ticket!vars
  <2>1. ASSUME NEW u \in Users, NEW r \in Records, AskRead(p, u, r)
        PROVE  UNCHANGED Ticket!vars
    <3>1. PICK t \in Tokens :
            call' = [call EXCEPT ![p] =
                       [step |-> "ask", user |-> u, tok |-> t, rec |-> r, left |-> 0]]
      BY <2>1 DEF AskRead
    <3>2. Free(p) /\ UNCHANGED <<tok, uses, changed>>
      BY <2>1 DEF AskRead
    <3>3. QED
      BY <1>1, <3>1, <3>2, ReadRefines
  <2>2. CASE AskInsert(p)
    BY <1>1, <2>2, AskRefines
  <2>3. ASSUME NEW a \in Approvers, NEW t \in Tokens, NEW v \in Verdicts,
               DecideRead(p, a, t, v)
        PROVE  UNCHANGED Ticket!vars
    BY <1>1, <2>3, ReadRefines DEF DecideRead, Verdicts
  <2>4. CASE DecideUpdate(p)
    BY <1>1, <2>4, DecideRefines
  <2>5. CASE \E t \in Tokens, r \in Records : Consume(p, t, r)
    BY <1>1, <2>5, ConsumeRefines DEF Ticket!Next
  <2>6. CASE Statement(p)
    BY <1>1, <2>6, StatementRefines DEF Ticket!Next
  <2>7. CASE Answer(p)
    BY <1>1, <2>7, CloseRefines DEF Answer, Ticket!Next
  <2>8. CASE Crash(p)
    <3>1. CASE call[p].step = "write"
      BY <1>1, <2>8, <3>1, CloseRefines DEF Crash, Ticket!Next
    <3>2. CASE call[p].step # "write"
      <4>1. OpenCodes' = OpenCodes
        BY <1>1, <2>8, <3>2, EndSame DEF Crash, IInv
      <4>2. UNCHANGED Ticket!vars
        BY <2>8, <4>1 DEF Crash, Tickets, Ticket!vars
      <4>3. QED
        BY <4>2
    <3>3. QED
      BY <3>1, <3>2
  <2>9. QED
    BY <1>4, <2>1, <2>2, <2>3, <2>4, <2>5, <2>6, <2>7, <2>8 DEF Handler
<1>5. QED
  BY <1>1, <1>2, <1>3, <1>4 DEF Next

(* The handlers, interleaved statement by statement and cut off by crashes,
   implement the ticket of EditTicket. *)
THEOREM ApprovalImplementsTicket == Spec => Implements
BY InitRefines, NextRefines, ApprovalInvariant, PTL DEF Spec, Implements, Ticket!Spec
=============================================================================
