---------------------------- MODULE MCConsoleAPI ----------------------------
(* Small instances of ConsoleAPI: two administrators, a padded and a blank  *)
(* text, a token of an account that the table does not hold.                *)
EXTENDS ConsoleRefinement, TLC

MCText == {"", " ", "Ann", "Bob", "a@x", "b@x", " b@x ", "c@x", "p", " p ", "q", " q "}
MCTrim == [t \in MCText |-> CASE t = " "     -> ""
                              [] t = " b@x " -> "b@x"
                              [] t = " p "   -> "p"
                              [] t = " q "   -> "q"
                              [] OTHER       -> t]

MCUser == {"ua", "ub", "n1", "n2", "n3"}
MCInitUsers == [u \in MCUser |->
    CASE u = "ua" -> [name |-> "Ann", email |-> "a@x", role |-> "Administrator",
                      enabled |-> TRUE, hash |-> "p"]
      [] u = "ub" -> [name |-> "Bob", email |-> "b@x", role |-> "Administrator",
                      enabled |-> TRUE, hash |-> "p"]
      [] OTHER -> Absent]

TokenA     == [sub |-> "ua", role |-> "Administrator"]
TokenB     == [sub |-> "ub", role |-> "Administrator"]
TokenGhost == [sub |-> "n3", role |-> "Administrator"]
AdminTokens == {TokenA, TokenB}
AllTokens   == {TokenA, TokenB, TokenGhost}

CONSTANTS r1, r2, r3
TwoReq   == {r1, r2}
ThreeReq == {r1, r2, r3}
MCNewId == [r \in Req |-> CASE r = r1 -> "n1" [] r = r2 -> "n2" [] OTHER -> "n3"]

NoBody == [op |-> "me", id |-> BadId, name |-> Nil, email |-> Nil, role |-> Nil,
           enabled |-> Nil, password |-> Nil]
Simple(op)  == [NoBody EXCEPT !.op = op]
Get(u)      == [Simple("users.get") EXCEPT !.id = u]
Patch(u)    == [Simple("users.update") EXCEPT !.id = u]
Password(u, p) == [Simple("users.password.update") EXCEPT !.id = u, !.password = p]
Login(e, p) == [Simple("login") EXCEPT !.email = e, !.password = p]
Create(n, e, ro, en, p) == [Simple("users.create") EXCEPT !.name = n, !.email = e,
                               !.role = ro, !.enabled = en, !.password = p]

Disable(u) == [Patch(u) EXCEPT !.enabled = FALSE]
Rename(u, n) == [Patch(u) EXCEPT !.name = n]
Demote(u) == [Patch(u) EXCEPT !.role = "Auditor"]

ReadRequests == {Simple("me"), Simple("audit"), Get("ub"), Get("n3")}

CreateRequests == {Create("Ann", "c@x", "Operator", TRUE, " p "),
                   Create("Bob", " b@x ", "Administrator", TRUE, "p"),
                   Create(" ", "c@x", "Operator", TRUE, "p"),
                   Create("Ann", "c@x", "no such role", TRUE, "p"),
                   Create("Ann", "c@x", "Operator", Nil, "p")}

UpdateRequests == {Disable("ua"), Disable("ub"), Rename("ub", "Ann"), Demote("ub"),
                   [Patch("ua") EXCEPT !.email = "c@x"],
                   [Patch("ua") EXCEPT !.email = " b@x "],
                   [Patch("ub") EXCEPT !.email = " "],
                   [Patch("ub") EXCEPT !.role = "no such role"],
                   Patch("ub"), Patch("n3"),
                   Password("ub", " q "), Password("ub", " "), Password(BadId, "q")}

LoginRequests == {Login("b@x", "p"), Login("b@x", "q"), Login(" b@x ", " q "),
                  Login("c@x", "p"), Login(" ", "p"), Login("b@x", Nil)}

\* Everything, for two requests.
AllRequests == ReadRequests \union CreateRequests \union UpdateRequests \union LoginRequests

\* Updates that overtake each other, for three requests.
RaceRequests == {Disable("ua"), Disable("ub"), Rename("ub", "Ann"), Password("ub", "q")}

\* None of them creates an account, so no step depends on NewId, the only thing
\* that tells the slots apart.
RaceSymmetry == Permutations(ThreeReq)

\* Requests for every way through the handlers when the store does not fail, to check
\* that nothing is missing in the trail.
TrailRequests == {Simple("ops"), Simple("users.list"), Get("n3"), Get(BadId),
                 Patch("ub"), Disable("ub"), Password("ua", " q "), Create("Bob", " b@x ", "Operator", TRUE, "p"),
                 Create("Ann", "c@x", "Operator", TRUE, " p "),
                 Create(" ", "c@x", "Operator", TRUE, "p"),
                 Login("b@x", "p"), Login("b@x", "q"), Login("c@x", "p"), Login(" ", "p")}

SelfPatchRequests == {Disable("ub"), Rename("ub", "Ann")}
=============================================================================
