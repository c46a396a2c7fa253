------------------------------ MODULE UserStore ------------------------------
(***************************************************************************)
(* The table "users" of internal/store/postgres and the domain types its    *)
(* rows are made of.  A table maps every user id to its row, or to Absent.  *)
(* Rows are never deleted: the store has no DELETE.                         *)
(*                                                                         *)
(* Texts (names, e-mail addresses, passwords) are opaque; all the code asks *)
(* of them is strings.TrimSpace and equality.  An argon2id hash is          *)
(* represented by the one password that auth.CheckPassword accepts for it.  *)
(* "name" stands for first_name and last_name, which are treated alike, and *)
(* a role for any text that is that role once it is trimmed.                *)
(*                                                                         *)
(* An operator marked "Fault" is no part of the specification: it is the    *)
(* definition below it with a plausible bug, and each property of a run is  *)
(* known to fail when one of them takes its place.                          *)
(***************************************************************************)
CONSTANTS
    User,       \* user ids (UUIDs)
    Text,       \* every text a client may send or the table may hold
    Empty,      \* the empty string
    Trim,       \* strings.TrimSpace, a function on Text
    Absent      \* the row of an id that the table does not hold

ASSUME TrimAssumption ==
    /\ Empty \in Text
    /\ Trim \in [Text -> Text]
    /\ \A t \in Text : Trim[Trim[t]] = Trim[t]
    /\ Trim[Empty] = Empty

Role == {"Administrator", "Operator", "Auditor", "Guest"}

\* What validation leaves behind: texts that TrimSpace does not change, not empty.
Filled == {t \in Text : Trim[t] = t /\ t # Empty}

Row == [name : Filled, email : Filled, role : Role, enabled : BOOLEAN,
        hash : Text \ {Empty}]

ASSUME AbsentAssumption == Absent \notin Row

Table == [User -> Row \union {Absent}]

Holds(table, id) == table[id] # Absent

\* email TEXT NOT NULL UNIQUE: would writing e into row id break the constraint?
EmailTaken(table, id, e) ==
    \E other \in User \ {id} : Holds(table, other) /\ table[other].email = e

UniqueEmails(table) ==
    \A u, v \in User :
        Holds(table, u) /\ Holds(table, v) /\ table[u].email = table[v].email => u = v

\* SELECT ... WHERE email = $1, as the set of matching ids (at most one).
ByEmail(table, e) == {u \in User : Holds(table, u) /\ table[u].email = e}

\* INSERT and UPDATE both write every column of the row.
PutRow(table, id, row) == [table EXCEPT ![id] = row]

\* auth.CheckPassword: the hash accepts exactly the password it was made from.
CheckPassword(hash, password) == hash = password
=============================================================================
