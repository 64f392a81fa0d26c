------------------------------- MODULE Keyset -------------------------------
(***************************************************************************)
(* Packages parser and pagination: a client walks a table page by page,    *)
(* with the cursors of NewCursorPage as the parameters of the next Keyset  *)
(* query, while rows are inserted and deleted.  Two ordering columns, the  *)
(* second the primary key; a query is one statement and so one step.       *)
(***************************************************************************)
EXTENDS Integers, Sequences, FiniteSets, SequencesExt

CONSTANTS
    Values,     \* values of the first column
    Ids,        \* primary keys
    Limits,     \* values of KeysetQuery.Limit
    MaxExact,   \* the largest integer a float64 holds with its neighbours, 2^53
    MaxWalk     \* bound: rows of a walk, more than an exact one can have

ASSUME LimitAssumption == Limits \subseteq Nat \ {0} /\ MaxExact \in Nat /\ MaxWalk \in Nat
ASSUME ColumnAssumption == /\ Values \subseteq Nat /\ IsFiniteSet(Values)
                           /\ Ids \subseteq Nat /\ IsFiniteSet(Ids)

Row == [a : Values, id : Ids]
Columns == <<"a", "id">>

VARIABLES
    table,     \* the rows
    desc,      \* desc[k]: KeysetColumn.Desc of column k
    limit,
    page,      \* the CursorPage the client holds
    walked,    \* ghost: the rows of the pages since the first, going forward
    stable,    \* ghost: the rows that were in the table all that time
    fresh,     \* ghost: the table is as it was when page was fetched
    came       \* ghost: the page before this one, if nothing changed since

config == <<desc, limit>>
keysetVars == <<table, config, page, walked, stable, fresh, came>>

-----------------------------------------------------------------------------
(* Cursors. *)

\* JSON turns a number into a float64: above MaxExact only even ones survive,
\* and the odd ones become the neighbour that is a multiple of four.
Float(n) == IF n <= MaxExact \/ n % 2 = 0 THEN n
            ELSE IF (n + 1) % 4 = 0 THEN n + 1 ELSE n - 1

None == << >>
Malformed == <<"malformed">>
EncodeCursor(r) == <<r.a, r.id>>
DecodeCursor(c) == [k \in DOMAIN c |-> Float(c[k])]

-----------------------------------------------------------------------------
(* The query. *)

\* The comparison of column k in the effective direction, Desc XOR before.
Beyond(x, y, k, before) == IF desc[k] # before THEN x < y ELSE x > y

buildSeekFirst(r, vals, before) ==     \* mutant: the tiebreaker is left out
    Beyond(r[Columns[1]], vals[1], 1, before)

\* One group per column: the columns before it equal, this one beyond.
buildSeek(r, vals, before) ==
    \E k \in DOMAIN Columns :
        /\ \A j \in 1..(k - 1) : r[Columns[j]] = vals[j]
        /\ Beyond(r[Columns[k]], vals[k], k, before)

\* ORDER BY: the first column, ties by the primary key, in the effective directions.
Earlier(r, s, before) ==
    IF r.a # s.a THEN Beyond(s.a, r.a, 1, before) ELSE Beyond(s.id, r.id, 2, before)

\* The nth row is the one with n rows up to it.
Sorted(S, before) ==
    LET place(r) == Cardinality({s \in S : s = r \/ Earlier(s, r, before)})
    IN [n \in 1..Cardinality(S) |-> CHOOSE r \in S : place(r) = n]

\* WHERE the seek predicate (none for an empty or malformed cursor), ORDER BY,
\* LIMIT limit+1.
Keyset(cursor, before) ==
    LET sought == cursor # None /\ cursor # Malformed
        hits == {r \in table : sought => buildSeek(r, DecodeCursor(cursor), before)}
        rows == Sorted(hits, before)
    IN SubSeq(rows, 1, IF Len(rows) <= limit THEN Len(rows) ELSE limit + 1)

\* mutant: the cursors of a backward page are taken before it is turned round
NewCursorPageUnturned(rows, cursor, before) ==
    LET extra == Len(rows) > limit
        kept == IF extra THEN SubSeq(rows, 1, limit) ELSE rows
        data == IF before THEN Reverse(kept) ELSE kept
    IN [data |-> data,
        next |-> IF data # << >> /\ (before \/ extra) THEN EncodeCursor(Last(kept)) ELSE None,
        prev |-> IF data # << >> /\ (IF before THEN extra ELSE cursor # None)
                   THEN EncodeCursor(Head(kept)) ELSE None]

\* The extra row is trimmed, a backward page is turned round, and the edge rows
\* become the cursors: backward, a next page always exists; forward, a previous
\* one does if the client came with a cursor.
NewCursorPage(rows, cursor, before) ==
    LET extra == Len(rows) > limit
        kept == IF extra THEN SubSeq(rows, 1, limit) ELSE rows
        data == IF before THEN Reverse(kept) ELSE kept
    IN [data |-> data,
        next |-> IF data # << >> /\ (before \/ extra) THEN EncodeCursor(Last(data)) ELSE None,
        prev |-> IF data # << >> /\ (IF before THEN extra ELSE cursor # None)
                   THEN EncodeCursor(Head(data)) ELSE None]

Fetch(cursor, before) ==
    /\ page' = NewCursorPage(Keyset(cursor, before), cursor, before)
    /\ fresh' = TRUE

-----------------------------------------------------------------------------

NoPage == [data |-> << >>, next |-> None, prev |-> None]

KeysetInit ==
    /\ table \in {S \in SUBSET Row : \A r, s \in S : r.id = s.id => r = s}
    /\ desc \in [DOMAIN Columns -> BOOLEAN]
    /\ limit \in Limits
    /\ page = NoPage
    /\ walked = << >> /\ stable = {} /\ fresh = FALSE /\ came = NoPage

\* The client asks for the first page, without a cursor or with a broken one.
First(cursor) ==
    /\ Fetch(cursor, FALSE)
    /\ walked' = page'.data
    /\ stable' = table
    /\ came' = NoPage
    /\ UNCHANGED <<table, config>>

\* rel="next" of LinkHeader: the cursor, without before.
NextPage ==
    /\ page.next # None /\ Len(walked) < MaxWalk
    /\ Fetch(page.next, FALSE)
    /\ walked' = walked \o page'.data
    /\ came' = IF fresh THEN page ELSE NoPage
    /\ UNCHANGED <<table, config, stable>>

\* rel="prev": the cursor with before=true. A forward walk ends here.
PrevPage ==
    /\ page.prev # None
    /\ Fetch(page.prev, TRUE)
    /\ walked' = << >> /\ stable' = {}
    /\ came' = NoPage
    /\ UNCHANGED <<table, config>>

Insert(r) ==
    /\ \A s \in table : s.id # r.id
    /\ table' = table \cup {r}
    /\ fresh' = FALSE /\ came' = NoPage
    /\ UNCHANGED <<config, page, walked, stable>>

Delete(r) ==
    /\ r \in table
    /\ table' = table \ {r}
    /\ stable' = stable \ {r}
    /\ fresh' = FALSE /\ came' = NoPage
    /\ UNCHANGED <<config, page, walked>>

KeysetNext ==
    \/ \E cursor \in {None, Malformed} : First(cursor)
    \/ NextPage \/ PrevPage
    \/ \E r \in Row : Insert(r) \/ Delete(r)

KeysetSpec == KeysetInit /\ [][KeysetNext]_keysetVars

-----------------------------------------------------------------------------
(* Properties. *)

KeysetTypeOK ==
    /\ table \subseteq Row
    /\ Len(page.data) <= limit
    /\ stable \subseteq table

Precise == \A r \in table \cup ToSet(walked) : r.a <= MaxExact /\ r.id <= MaxExact

\* A walk forward, from the first page to one without a next cursor, returns
\* every row that was in the table throughout exactly once, in order, whatever
\* is inserted and deleted between the pages, also with equal values in the
\* first column and mixed directions. Values must fit a float64: beyond 2^53 the
\* cursor a client gets back is not the one it was given (DecodeCursor).
WalkComplete ==
    Precise /\ walked # << >> =>
        /\ \A m, n \in DOMAIN walked : m < n => walked[m] # walked[n]
        /\ walked = Sorted(ToSet(walked), FALSE)
        /\ page.next = None => stable \subseteq ToSet(walked)

\* Back from the page a client has just gone to is the page it came from, rows
\* and next cursor, as long as the table did not change (NewCursorPage).
BackReturns ==
    [][Precise /\ came # NoPage /\ page.prev # None /\ page' # page /\ walked' = << >> =>
          page'.data = came.data /\ page'.next = came.next]_keysetVars
=============================================================================
