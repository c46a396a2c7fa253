-------------------------- MODULE ConsoleRefinement --------------------------
(* The request handlers of ConsoleAPI implement Accounts: reads, logins and  *)
(* tokens are steps that leave it alone, and a change of an account has come  *)
(* as far as its handler tells.                                               *)
EXTENDS ConsoleAPI

\* Logins and reads change nothing, and what is not yet here has not begun.
Changes(h) == h.pc # "idle" /\ h.input.op \in Mutation

PhaseOf(h) ==
    CASE ~Changes(h) -> "open"
      [] Changes(h) /\ h.pc = "auth" -> "open"
      [] Changes(h) /\ h.pc = "load" -> "open"
      [] Changes(h) /\ h.pc = "store" -> "drafted"
      [] Changes(h) /\ h.pc \in {"audit", "reply"} -> "applied"
      [] Changes(h) /\ h.pc = "done" /\ h.status \in Success -> "acknowledged"
      [] Changes(h) /\ h.pc = "done" /\ h.status \in Refusal -> "refused"
      [] OTHER -> "doubtful"

ModeOf(h) == IF h.input.op = "users.create" THEN "insert" ELSE "update"

DraftOf(r, h) ==
    IF Changes(h) /\ h.pc = "store"
    THEN [id |-> TargetOf(r, h), row |-> h.row, mode |-> ModeOf(h)]
    ELSE [id |-> Absent, row |-> Absent, mode |-> "none"]

phase == [r \in Req |-> PhaseOf(req[r])]
draft == [r \in Req |-> DraftOf(r, req[r])]

Promise == INSTANCE Accounts WITH Author <- Req, users <- users,
                                  phase <- phase, draft <- draft

\* Whatever handlers overlap, whatever store calls fail and whenever the process
\* dies, the table changes as Accounts says: by whole drafts of single requests,
\* and a client that is told something about its own is told the truth.
KeepsPromise == Promise!Spec
=============================================================================
