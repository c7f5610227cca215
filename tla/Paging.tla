------------------------------- MODULE Paging -------------------------------
(***************************************************************************)
(* The hook lib/usePagination.ts behind every list of the console, as      *)
(* functions of its record, and the listing of the server it talks to.     *)
(* Rows are numbers and a page is cut by row number, highest first; the    *)
(* token of the next page is the last row of this one, 0 the empty token.  *)
(***************************************************************************)
EXTENDS Integers, Sequences, SequencesExt, FiniteSets, FiniteSetsExt

CONSTANT PageSize

ASSUME PageSizeAssumption == PageSize \in Nat \ {0}

(***************************************************************************)
(* The page after `token` of the rows a listing ranges over, the highest   *)
(* of them first: Place(n, rows) is the n-th of them.                      *)
(***************************************************************************)
Place(n, rows) == CHOOSE r \in rows : Cardinality({s \in rows : s > r}) = n - 1

Listing(rows, token) ==
  LET left == {r \in rows : token = 0 \/ r < token}
      size == Cardinality(left)
  IN  [items |-> [n \in 1 .. IF size < PageSize THEN size ELSE PageSize |-> Place(n, left)],
       next  |-> IF size > PageSize THEN Place(PageSize, left) ELSE 0]

(***************************************************************************)
(* The hook: items shown, the token of the next page, the flags, and the   *)
(* ref `currentPageToken`.                                                 *)
(***************************************************************************)
NewList ==
  [items |-> <<>>, next |-> 0, loading |-> FALSE, error |-> FALSE,
   loaded |-> FALSE, current |-> 0]

Reset(list) ==
  [list EXCEPT !.items = <<>>, !.next = 0, !.error = FALSE, !.loaded = FALSE,
               !.current = 0]

(***************************************************************************)
(* fetchPage up to its await; the call it makes carries list.current.      *)
(***************************************************************************)
FetchPage(list) == [list EXCEPT !.loading = TRUE, !.error = FALSE]

Refresh(list) == FetchPage([Reset(list) EXCEPT !.current = 0])

(***************************************************************************)
(* loadMore returns at once without a token or while a page is loading.    *)
(***************************************************************************)
MayLoadMore(list) == list.next # 0 /\ ~list.loading

LoadMore(list) == FetchPage([list EXCEPT !.current = list.next])

\* Wrong variant: a page replaces the pages before it.
PageArrivedReplaces(list, token, page) ==
  [list EXCEPT !.items = page.items, !.next = page.next, !.loaded = TRUE,
               !.loading = FALSE]

(***************************************************************************)
(* The answer to a page asked with `token`: appended, unless it was the    *)
(* first page.  Nothing tells which refresh the call belonged to.          *)
(***************************************************************************)
PageArrived(list, token, page) ==
  [list EXCEPT !.items = IF token = 0 THEN page.items ELSE @ \o page.items,
               !.next = page.next, !.loaded = TRUE, !.loading = FALSE]

\* Wrong variant: the flag is lowered with the data, not in the finally.
PageFailedLoading(list) == [list EXCEPT !.error = TRUE, !.loaded = TRUE]

PageFailed(list) ==
  [list EXCEPT !.error = TRUE, !.loaded = TRUE, !.loading = FALSE]

(***************************************************************************)
(* What a list page shows of the hook, the same in all of them: skeleton,  *)
(* error line, empty state, or the rows.                                   *)
(***************************************************************************)
Shows(list) ==
  IF list.loading /\ ~list.loaded THEN "skeleton"
  ELSE IF list.error THEN "error"
  ELSE IF list.items = <<>> THEN "empty" ELSE "rows"

(***************************************************************************)
(* LoadMoreButton: absent without a next page, disabled while one loads.   *)
(***************************************************************************)
OffersMore(list) == list.next # 0 /\ ~list.loading

ShownRows(list) == IF Shows(list) = "rows" THEN ToSet(list.items) ELSE {}
=============================================================================
