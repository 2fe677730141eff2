----------------------------- MODULE EditTicket -----------------------------
(***************************************************************************)
(* What a second-party edit code of src/server/editApproval.js promises the *)
(* people who rely on it: somebody else granted it, for one record, it runs *)
(* out, and it lets one write through, once.  EditApproval.tla is the code  *)
(* that is meant to keep the promise.                                       *)
(***************************************************************************)
EXTENDS Naturals

CONSTANTS
    Tokens,     \* codes
    Records,    \* records a code can be about
    Users,      \* people
    Approvers,  \* those who may grant
    NoUser,     \* nobody has decided yet
    NoRecord    \* the code is about nothing yet

VARIABLES
    ticket,     \* per code [life, rec, by, approver]
    uses,       \* per code, the writes it has let through
    open,       \* codes with a write under way
    changed     \* per record, the codes under which it was changed

vars == <<ticket, uses, open, changed>>

Blank == [life |-> "blank", rec |-> NoRecord, by |-> NoUser, approver |-> NoUser]

Init == /\ ticket = [t \in Tokens |-> Blank]
        /\ uses = [t \in Tokens |-> 0]
        /\ open = {}
        /\ changed = [r \in Records |-> {}]

(* Somebody asks for a code to change a record. *)
Ask(t, u, r) ==
    /\ ticket[t] = Blank
    /\ ticket' = [ticket EXCEPT ![t] =
                    [life |-> "asked", rec |-> r, by |-> u, approver |-> NoUser]]
    /\ UNCHANGED <<uses, open, changed>>

(* Somebody else, who may, decides, once. *)
Decide(t, a, verdict) ==
    /\ ticket[t].life = "asked"
    /\ a # ticket[t].by
    /\ ticket' = [ticket EXCEPT ![t] =
                    [life |-> verdict, rec |-> @.rec, by |-> @.by, approver |-> a]]
    /\ UNCHANGED <<uses, open, changed>>

(* A granted code runs out. *)
Lapse(t) ==
    /\ ticket[t].life = "granted"
    /\ ticket' = [ticket EXCEPT ![t].life = "lapsed"]
    /\ UNCHANGED <<uses, open, changed>>

(* A granted code lets its first and only write through. *)
Spend(t) ==
    /\ ticket[t].life = "granted"
    /\ uses[t] = 0
    /\ ticket' = [ticket EXCEPT ![t].life = "spent"]
    /\ uses' = [uses EXCEPT ![t] = 1]
    /\ open' = open \cup {t}
    /\ UNCHANGED changed

(* The write changes the record the code is about ... *)
Change(t) ==
    /\ t \in open
    /\ changed' = [changed EXCEPT ![ticket[t].rec] = @ \cup {t}]
    /\ UNCHANGED <<ticket, uses, open>>

(* ... until it returns, throws or dies. *)
Close(t) ==
    /\ t \in open
    /\ open' = open \ {t}
    /\ UNCHANGED <<ticket, uses, changed>>

Next == \/ \E t \in Tokens, u \in Users, r \in Records : Ask(t, u, r)
        \/ \E t \in Tokens, a \in Approvers, v \in {"granted", "refused"} : Decide(t, a, v)
        \/ \E t \in Tokens : Lapse(t) \/ Spend(t) \/ Change(t) \/ Close(t)

Spec == Init /\ [][Next]_vars
=============================================================================
