------------------------------ MODULE Accounts ------------------------------
(***************************************************************************)
(* What the console promises about the table of accounts, without handlers, *)
(* tokens, roles or the audit trail.  A request to change it                *)
(*   - is drafted from the table as it is at one instant: a new account, the*)
(*     profile of an account, or its password, never the two together,      *)
(*   - takes effect at one later instant, whole, or never; drafts are not   *)
(*     drafted again, so one may overwrite what came in between,            *)
(*   - is acknowledged only if it took effect, and refused only if it never *)
(*     does; an author who is told neither cannot know.                     *)
(* ConsoleRefinement shows that the handlers of internal/api keep this.     *)
(***************************************************************************)
EXTENDS UserStore

CONSTANTS
    Author,         \* those who change accounts; each of them asks once
    InitUsers

VARIABLES
    users,          \* the table
    phase,          \* how far the author's request has come
    draft           \* what it is about to write

accountVars == <<users, phase, draft>>

Phase == {"open", "drafted", "applied", "acknowledged", "refused", "doubtful"}

NoDraft == [id |-> Absent, row |-> Absent, mode |-> "none"]

Draft == [id : User, row : Row, mode : {"insert", "update"}]

Unanswered == {"open", "drafted", "applied"}

Init ==
    /\ users = InitUsers
    /\ phase = [a \in Author |-> "open"]
    /\ draft = [a \in Author |-> NoDraft]

Enter(a, new, d) ==
    /\ phase' = [phase EXCEPT ![a] = new]
    /\ draft' = [draft EXCEPT ![a] = d]

\* d is a new account, or a profile without its password, or the other way round.
IsDraft(table, d) ==
    /\ d \in Draft
    /\ d.mode = "update" =>
         /\ Holds(table, d.id)
         /\ \/ d.row.hash = table[d.id].hash
            \/ d.row = [table[d.id] EXCEPT !.hash = d.row.hash]

\* Any draft will do that fits the table.
Prepare(a) ==
    /\ phase[a] = "open"
    /\ IsDraft(users, draft'[a])
    /\ Enter(a, "drafted", draft'[a])
    /\ UNCHANGED users

Appliable(d) ==
    /\ Holds(users, d.id) <=> d.mode = "update"
    /\ ~EmailTaken(users, d.id, d.row.email)

\* The author may learn of it, or be left in doubt.
Apply(a) ==
    /\ phase[a] = "drafted"
    /\ Appliable(draft[a])
    /\ users' = PutRow(users, draft[a].id, draft[a].row)
    /\ \E new \in {"applied", "doubtful"} : Enter(a, new, NoDraft)

Acknowledge(a) ==
    /\ phase[a] = "applied"
    /\ Enter(a, "acknowledged", NoDraft)
    /\ UNCHANGED users

Refuse(a) ==
    /\ phase[a] \in {"open", "drafted"}
    /\ Enter(a, "refused", NoDraft)
    /\ UNCHANGED users

\* Any of them may be left without an answer, all at once when the console dies.
Abandon(S) ==
    /\ \A a \in S : phase[a] \in Unanswered
    /\ phase' = [a \in Author |-> IF a \in S THEN "doubtful" ELSE phase[a]]
    /\ draft' = [a \in Author |-> IF a \in S THEN NoDraft ELSE draft[a]]
    /\ UNCHANGED users

Next ==
    \/ \E a \in Author : Prepare(a) \/ Apply(a) \/ Acknowledge(a) \/ Refuse(a)
    \/ \E S \in SUBSET Author : Abandon(S)

Spec == Init /\ [][Next]_accountVars
=============================================================================
