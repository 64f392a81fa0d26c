-------------------------------- MODULE Inbox --------------------------------
(***************************************************************************)
(* Package inbox: Once(messageID, fn) inserts a marker row and runs fn in  *)
(* one database transaction, by workers of several consumer replicas.      *)
(* A marker of an open transaction makes a concurrent INSERT of the same   *)
(* id wait for that transaction's end (the unique index).  fn works only   *)
(* through the transaction, as its contract asks, so its effect appears    *)
(* with the commit.                                                        *)
(***************************************************************************)
EXTENDS Integers

CONSTANTS
    Workers,    \* consumer goroutines
    Messages,   \* message ids
    None        \* no message

VARIABLES
    marker,   \* marker[m]: the inbox row of m: none, of an open tx, committed
    wpc,      \* wpc[w]: idle, about to INSERT, running fn
    msg,      \* msg[w]: the message w works on
    effects   \* effects[m]: committed runs of fn for m (2 = twice or more)

inboxVars == <<marker, wpc, msg, effects>>

TypeOK ==
    /\ marker \in [Messages -> {"none", "tx", "done"}]
    /\ wpc \in [Workers -> {"idle", "insert", "fn"}]
    /\ msg \in [Workers -> Messages \cup {None}]
    /\ effects \in [Messages -> 0..2]

Init ==
    /\ marker = [m \in Messages |-> "none"]
    /\ wpc = [w \in Workers |-> "idle"]
    /\ msg = [w \in Workers |-> None]
    /\ effects = [m \in Messages |-> 0]

\* Once is called; RunInTx begins the transaction.
Begin(w, m) ==
    /\ wpc[w] = "idle"
    /\ wpc' = [wpc EXCEPT ![w] = "insert"]
    /\ msg' = [msg EXCEPT ![w] = m]
    /\ UNCHANGED <<marker, effects>>

Over(w) ==
    /\ wpc' = [wpc EXCEPT ![w] = "idle"]
    /\ msg' = [msg EXCEPT ![w] = None]

InsertAnyway(w) ==   \* mutant: the number of rows affected is not looked at
    /\ wpc[w] = "insert"
    /\ marker[msg[w]] # "tx"
    /\ marker' = [marker EXCEPT ![msg[w]] = "tx"]
    /\ wpc' = [wpc EXCEPT ![w] = "fn"]
    /\ UNCHANGED <<msg, effects>>

\* The INSERT adds the marker (one row affected): fn runs.
Insert(w) ==
    /\ wpc[w] = "insert"
    /\ marker[msg[w]] = "none"
    /\ marker' = [marker EXCEPT ![msg[w]] = "tx"]
    /\ wpc' = [wpc EXCEPT ![w] = "fn"]
    /\ UNCHANGED <<msg, effects>>

\* The INSERT conflicts with a committed marker: fn is skipped, Once returns nil.
Skip(w) ==
    /\ wpc[w] = "insert"
    /\ marker[msg[w]] = "done"
    /\ Over(w)
    /\ UNCHANGED <<marker, effects>>

\* fn returns nil and the transaction commits marker and effect together.  (The
\* caller may still see an error, when only the reply to COMMIT is lost.)
Commit(w) ==
    /\ wpc[w] = "fn"
    /\ marker' = [marker EXCEPT ![msg[w]] = "done"]
    /\ effects' = [effects EXCEPT ![msg[w]] = IF @ = 2 THEN 2 ELSE @ + 1]
    /\ Over(w)

RollbackKeepsMarker(w) ==  \* mutant: fn's error does not roll the marker back
    /\ wpc[w] # "idle"
    /\ marker' = IF wpc[w] = "fn" THEN [marker EXCEPT ![msg[w]] = "done"] ELSE marker
    /\ Over(w)
    /\ UNCHANGED effects

\* A statement, fn or the commit fails, fn panics, or the consumer dies: the
\* transaction rolls back, its marker included, and Once does not return nil.
Rollback(w) ==
    /\ wpc[w] # "idle"
    /\ marker' = IF wpc[w] = "fn" THEN [marker EXCEPT ![msg[w]] = "none"] ELSE marker
    /\ Over(w)
    /\ UNCHANGED effects
=============================================================================
