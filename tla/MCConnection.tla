---------------------------- MODULE MCConnection ----------------------------
(* Connection for TLC; the .cfg files give the bounds.                      *)
EXTENDS Connection

\* Sizes read off words that are no header: none, and more words than
\* will ever be sent (the high half of a time_point).
MCMisreadLens == {0, 100}

\* For a client that is eager and pipelines, how much its own loop has read
\* decides nothing: states that differ in that alone count as one.
EagerView == <<socket, linkVars, tasks, outq, ioVars, sent, recv,
               handled["server"], validated>>
=============================================================================
