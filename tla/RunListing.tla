------------------------------ MODULE RunListing ------------------------------
(***************************************************************************)
(* The listing of runs, GET /runs, and a reader who turns its pages while  *)
(* workers create and change runs.                                         *)
(*                                                                         *)
(* Both stores list the runs last updated first and cut a window at an     *)
(* offset; nothing ties the windows of one reader together.  SQLite runs   *)
(* one query, ordered by the text of the instants (see LeaseTime).         *)
(* DynamoDB is scanned, page by page and without a consistent read, and    *)
(* sorted by the instants; a row of the scan is one that the table had at  *)
(* some time before the scan ended.                                        *)
(***************************************************************************)
EXTENDS LeaseTime, FiniteSets, Sequences

CONSTANTS
  RunIds,      \* numbers, for the order of their texts
  Limit,       \* ListOptions.Limit, 25 for the console
  MaxOffset,   \* MaxListOffset
  MaxTime,     \* bound on the instants
  MaxWrites,   \* bound on the changes while the reader is reading
  Nil

ASSUME RunListingAssumption ==
  /\ RunIds \subseteq Nat /\ IsFiniteSet(RunIds)
  /\ Limit \in Nat \ {0}
  /\ {MaxOffset, MaxTime, MaxWrites} \subseteq Nat

Times == 0 .. MaxTime

Row == [updated : Times, state : {"QUEUED", "CLAIMED"}]

ASSUME NilIsNoListedRow == Nil \notin Row

VARIABLES
  store,    \* the store in use, "sqlite" or "dynamodb"
  rows,     \* run -> when it was updated last and its state, or Nil
  lagging,  \* run -> the earlier rows a scan may still return
  reader,   \* what the reader asks for and what it has been shown
  writes    \* the changes since the reader began: their runs, whether each gave
            \* its run a later text than before, and how many there were

vars == <<store, rows, lagging, reader, writes>>

Existing == {r \in RunIds : rows[r] # Nil}

-----------------------------------------------------------------------------
(* ListRuns *)

(* Mutant: ascending, as no DESC means. *)
OldestFirst(view, q, r) ==
  LET a == view[q].updated
      b == view[r].updated IN
  \/ IF store = "sqlite" THEN ~TextLeq(b, a) ELSE a < b
  \/ a = b /\ q < r

(* updated_at DESC, run_id DESC; the text of updated_at for SQLite. *)
Before(view, q, r) ==
  LET a == view[q].updated
      b == view[r].updated IN
  \/ IF store = "sqlite" THEN ~TextLeq(a, b) ELSE a > b
  \/ a = b /\ q > r

Matches(row) == row # Nil /\ reader.state \in {Nil, row.state}

Listed(view) == {r \in RunIds : Matches(view[r])}

Ahead(view, r) == {q \in Listed(view) : Before(view, q, r)}

(* The rows of the query or the scan, in order: the i-th has i - 1 ahead of it. *)
Sorted(view) ==
  [i \in 1 .. Cardinality(Listed(view)) |->
     CHOOSE r \in Listed(view) : Cardinality(Ahead(view, r)) = i - 1]

Lesser(a, b) == IF a < b THEN a ELSE b

NormalizedOffset == Lesser(reader.offset, MaxOffset)

(* At most n elements of a sequence, after the first o of them. *)
Window(s, o, n) == SubSeq(s, o + 1, Lesser(o + n, Len(s)))

(* Mutant: LIMIT ? without the one row more. *)
ExactWindow(view) ==
  LET found == Window(Sorted(view), NormalizedOffset, Limit)
  IN [runs |-> found, more |-> Len(found) > Limit]

(* LIMIT Limit + 1 OFFSET ?; the row too many tells that there are more. *)
QueryWindow(view) ==
  LET found == Window(Sorted(view), NormalizedOffset, Limit + 1)
  IN [runs |-> Window(found, 0, Limit), more |-> Len(found) > Limit]

(* items[start:end] *)
ScanWindow(view) ==
  LET items == Sorted(view)
      start == Lesser(NormalizedOffset, Len(items))
      end   == Lesser(start + Limit, Len(items))
  IN [runs |-> SubSeq(items, start + 1, end), more |-> end < Len(items)]

(* What a scan may find. *)
ScanViews == {view \in [RunIds -> Row \cup {Nil}] :
                \A r \in RunIds : view[r] \in {rows[r]} \cup lagging[r]}

ListRuns == IF store = "sqlite" THEN {QueryWindow(rows)}
            ELSE {ScanWindow(view) : view \in ScanViews}

-----------------------------------------------------------------------------
(* The reader: the console's Next button, until there is no next page. *)

TurnPage ==
  /\ reader.more /\ reader.offset <= MaxOffset + Limit
  /\ \E page \in ListRuns :
       reader' = [reader EXCEPT !.offset = @ + Limit, !.more = page.more,
                    !.shown = @ \o page.runs]
  /\ UNCHANGED <<store, rows, lagging, writes>>

-----------------------------------------------------------------------------
(* The workers *)

Written(r, row) ==
  /\ writes.count < MaxWrites
  /\ rows' = [rows EXCEPT ![r] = row]
  /\ lagging' = IF store = "sqlite" THEN lagging
                ELSE [lagging EXCEPT ![r] = @ \cup {rows[r]}]
  /\ writes' = [runs  |-> writes.runs \cup {r},
                later |-> writes.later /\ (rows[r] = Nil \/ TextLeq(rows[r].updated, row.updated)),
                count |-> writes.count + 1]
  /\ UNCHANGED <<store, reader>>

CreateRun(r, now) == rows[r] = Nil /\ Written(r, [updated |-> now, state |-> "QUEUED"])

(* Any of the statements of the lifecycle, by the clock of whoever runs it. *)
ChangeRun(r, now) == rows[r] # Nil /\ Written(r, [updated |-> now, state |-> "CLAIMED"])

(* DynamoDB's replicas catch up. *)
Replicate(r) ==
  /\ lagging[r] # {}
  /\ lagging' = [lagging EXCEPT ![r] = {}]
  /\ UNCHANGED <<store, rows, reader, writes>>

Init ==
  /\ store \in {"sqlite", "dynamodb"}
  /\ rows \in [RunIds -> Row \cup {Nil}]
  /\ lagging = [r \in RunIds |-> {}]
  /\ reader \in {[state |-> s, offset |-> 0, more |-> TRUE, shown |-> <<>>, begun |-> Existing] :
                   s \in {Nil, "QUEUED"}}
  /\ writes = [runs |-> {}, later |-> TRUE, count |-> 0]

Next ==
  \/ TurnPage
  \/ \E r \in RunIds :
       \/ \E now \in Times : CreateRun(r, now) \/ ChangeRun(r, now)
       \/ Replicate(r)

Spec == Init /\ [][Next]_vars

-----------------------------------------------------------------------------
(* Properties.  They are about listings that fit: past MaxOffset the windows stand
   still, and the reader who goes on is shown the last one over and over. *)

Fits(runs) == Cardinality(runs) <= MaxOffset + Limit

(* No page but those that begin up to MaxOffset: the one that is cut down to it
   begins within the page before, and shows some runs again, unless Limit divides
   MaxOffset (as 25 does 10000). *)
FitsUncut(runs) == Cardinality(runs) <= Limit * (MaxOffset \div Limit + 1)

Shown == {reader.shown[i] : i \in DOMAIN reader.shown}

(* A run that was there when a reader of the SQLite listing began, and that
   nobody touches, is on one of its pages, however many runs are created and
   changed between two pages, as long as every change gives its run a later
   updated_at: the rows on earlier pages can only push it to a later one.  A
   clock that is behind, or two changes in one second, can break that, and so can
   a state that is asked for, whose runs leave the listing. *)
UntouchedRunsAreListed ==
  store = "sqlite" /\ reader.state = Nil /\ ~reader.more /\ writes.later /\ Fits(Existing)
  => reader.begun \ writes.runs \subseteq Shown

(* While nothing changes the pages of both stores are a partition: each run that
   matches is on one page, once, and runs updated in a later second come first. *)
QuietPagesPartition ==
  LET matching == Listed(rows) IN
  ~reader.more /\ writes.count = 0 /\ FitsUncut(matching) =>
    /\ Shown = matching /\ Len(reader.shown) = Cardinality(matching)
    /\ \A i, j \in DOMAIN reader.shown :
         i < j => WholeSeconds(rows[reader.shown[i]].updated)
                  >= WholeSeconds(rows[reader.shown[j]].updated)

=============================================================================
