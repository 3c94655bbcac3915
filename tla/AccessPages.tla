---------------------------- MODULE AccessPages ----------------------------
(***************************************************************************)
(* listAccess: a reader pages through the access log newest first while    *)
(* break-glass calls write to it.  Rows are ordered by (created_at, id)    *)
(* and the next page starts strictly after the last row of this one.  A    *)
(* row's created_at is its transaction's start, in microseconds; the       *)
(* cursor carries a JavaScript Date, in milliseconds.  The endpoint logs   *)
(* each page as a content_read in the same transaction.                    *)
(*                                                                         *)
(* listFacts (packages/db/src/retrieval.ts) pages in the same way.         *)
(***************************************************************************)
EXTENDS BreakGlass, FiniteSets

CONSTANTS PageSize, MaxPages,   \* MaxPages bounds the calls of the reader
          Precision,            \* clock ticks to a millisecond
          ReadIds               \* the id of the row that the nth page logs

ASSUME PagesAssumption ==
  /\ PageSize \in Nat \ {0} /\ MaxPages \in Nat /\ Precision \in Nat \ {0}
  /\ ReadIds \in [0..MaxPages -> Nat]

VARIABLES reads,   \* content_read rows of the log
          reader

vars == <<grantVars, reads, reader>>

Key(r) == [id |-> r.id, at |-> r.at]

Init ==
  /\ GrantInit
  /\ reads = {}
  /\ reader = [pages |-> 0, cursor |-> <<>>, open |-> TRUE, rows |-> {}, returned |-> 0,
               promised |-> {}]


Newer(r, s) == r.at > s.at \/ (r.at = s.at /\ r.id > s.id)

(* encodeCursor(Date): what is finer than a millisecond is lost. *)
Cursor(r) == [at |-> Precision * (r.at \div Precision), id |-> r.id]

MutInclusiveCursor(r) ==
  \/ reader.cursor = <<>>
  \/ LET c == reader.cursor[1] IN r.at < c.at \/ (r.at = c.at /\ r.id <= c.id)
PastCursor(r) ==
  \/ reader.cursor = <<>>
  \/ LET c == reader.cursor[1] IN r.at < c.at \/ (r.at = c.at /\ r.id < c.id)

(* One GET of the audit endpoint. *)
ReadPage ==
  LET reads1 == reads \cup {[id |-> ReadIds[reader.pages], at |-> clock]}
      table == {Key(r) : r \in log} \cup reads1
      found == {r \in table : PastCursor(r)}
      page  == {r \in found : Cardinality({s \in found : Newer(s, r)}) < PageSize}
      last  == CHOOSE r \in page : \A s \in page : s = r \/ Newer(s, r)
      more  == Cardinality(found) > PageSize
  IN
  /\ reader.open /\ reader.pages < MaxPages
  /\ reads' = reads1
  /\ reader' = [pages |-> reader.pages + 1,
                cursor |-> IF more THEN <<Cursor(last)>> ELSE <<>>,
                open |-> more,
                rows |-> reader.rows \cup page,
                returned |-> reader.returned + Cardinality(page),
                promised |-> IF reader.pages = 0 THEN table ELSE reader.promised]
  /\ UNCHANGED grantVars

Next == (GrantNext /\ UNCHANGED <<reads, reader>>) \/ ReadPage

Spec == Init /\ [][Next]_vars

-----------------------------------------------------------------------------
(* However the log grows under the reader, a page never repeats a row, and the
   pages up to the one without a next cursor hold every row that was there when
   the first was read, but for what the cursor's rounding costs: a row between
   some row that was shown and that row's cursor, so in its millisecond. *)
NoRowTwice == reader.returned = Cardinality(reader.rows)
MissedOnlyByRounding ==
  ~reader.open => \A r \in reader.promised \ reader.rows :
    \E s \in reader.rows : Newer(s, r) /\ ~Newer(Cursor(s), r)
PagesLoseOnlyTies == NoRowTwice /\ MissedOnlyByRounding

(* What is expected of the pages: the integration test reads nine rows in three
   pages and expects nine ids.  The rounding refutes it. *)
NoRowMissed == ~reader.open => reader.promised \subseteq reader.rows
EachRowOnce == NoRowTwice /\ NoRowMissed
=============================================================================
