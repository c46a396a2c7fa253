---------------------------- MODULE MCGFireProxy ----------------------------
(* A small instance of GFireProxy: two requests of one user.                 *)
EXTENDS GFireProxy

CONSTANTS r1, r2, u1

\* Who may do all, who may only read, and who is disabled.
MCRow == {[enabled |-> TRUE, role |-> "Operator"], [enabled |-> TRUE, role |-> "Auditor"],
          [enabled |-> FALSE, role |-> "Operator"]}

\* A mutation with or without a body, or what is not supported; and a mutation that
\* never has a body, or a read.
MCMethod == [r \in {r1, r2} |-> IF r = r1 THEN {"POST", "OPTIONS"} ELSE {"DELETE", "HEAD"}]
=============================================================================
