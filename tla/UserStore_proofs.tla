-------------------------- MODULE UserStore_proofs --------------------------
(* Lemmas about the table of accounts, for every set of users and texts.     *)
EXTENDS UserStore, TLAPS

\* A text whose trimmed form is not empty is stored as a filled text.
LEMMA TrimFills ==
    ASSUME NEW t \in Text, Trim[t] # Empty
    PROVE  Trim[t] \in Filled
BY TrimAssumption DEF Filled

\* What the table holds under an id is a row.
LEMMA HeldRow ==
    ASSUME NEW table \in Table, NEW u \in User, Holds(table, u)
    PROVE  table[u] \in Row
BY DEF Table, Holds

\* Writing a row whose e-mail is free keeps the e-mails unique.
LEMMA PutKeepsUnique ==
    ASSUME NEW table \in Table, NEW id \in User, NEW row \in Row,
           UniqueEmails(table), ~EmailTaken(table, id, row.email)
    PROVE  UniqueEmails(PutRow(table, id, row))
<1> DEFINE new == PutRow(table, id, row)
<1>1. new[id] = row /\ \A v \in User \ {id} : new[v] = table[v]
  BY DEF PutRow, Table
<1>2. \A v \in User \ {id} : Holds(new, v) => new[v].email # row.email
  BY <1>1 DEF EmailTaken, Holds
<1> SUFFICES ASSUME NEW u \in User, NEW v \in User, Holds(new, u), Holds(new, v),
                    new[u].email = new[v].email
             PROVE  u = v
  BY DEF UniqueEmails
<1>3. CASE u = id \/ v = id
  BY <1>1, <1>2, <1>3
<1>4. CASE u # id /\ v # id
  BY <1>1, <1>4 DEF UniqueEmails, Holds
<1> QED
  BY <1>3, <1>4
=============================================================================
