----------------------------- MODULE MCSqlxExec -----------------------------
(* Instances of SqlxExec for TLC.  Delays are in half milliseconds.        *)
EXTENDS SqlxExec, TLC

CONSTANTS q, t, b, z

\* A query, a batch, a transaction and an empty one, which is allowed.  What
\* can become of an execute can become of a query: it meets no row limit.
MCKindOf == [r \in Requests |-> CASE r = q -> "query"
                                  [] r = b -> "batch"
                                  [] r \in {t, z} -> "transaction"]
MCStatementsOf == [r \in Requests |-> CASE r = t -> 2 [] r = z -> 0
                                         [] OTHER -> 1]
=============================================================================
