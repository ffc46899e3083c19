--------------------------- MODULE MCPullRequests ---------------------------
(* Instances of PullRequests for TLC: the statements of the diff, and the  *)
(* calls to GitHub that may fail.                                          *)
EXTENDS PullRequests

CONSTANTS t1, t2

OneDiff == <<<<t1>>>>

(* One statement; after a commit one, two or none.                         *)
OneTwoNone == <<<<t1>>, <<t1, t2>>, <<>>>>

(* Those after which the next tick starts from where it stopped.           *)
Repeatable == {"label detected", "ask", "label queued", "remove queued", "unlabel"}

(* And the comment between forgetting migrations and submitting them.      *)
RepeatableAndComment == Repeatable \cup {"comment"}
=============================================================================
