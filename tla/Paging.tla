------------------------------- MODULE Paging -------------------------------
(***************************************************************************)
(* Reading a list by offset while it grows: the case list                  *)
(* (CaseService.List, store ListCasesFiltered), ordered by case number,    *)
(* and the audit log (AuditService.List, ListAuditLogEntriesFiltered),     *)
(* ordered by created_at, both newest first.                               *)
(*                                                                         *)
(* A reader walks a list page by page until a page is empty, going on by   *)
(* the limit that each response reports. Items that match a filter of the       *)
(* reader are all there is here: but for the status, the columns that can  *)
(* be filtered by never change, and rows are never deleted. What a row     *)
(* shows is module CaseReads' matter.                                      *)
(***************************************************************************)
EXTENDS Naturals, FiniteSets, SequencesExt

CONSTANTS Feeds,      \* lists that are read: "cases" and "audit"
          MaxItems,   \* bound on the items of a list
          Limits,     \* limits that readers ask for
          MaxLimit    \* the most a page holds; 100 in the code

ASSUME PagingAssumption ==
    /\ Feeds \subseteq {"cases", "audit"}
    /\ MaxItems \in Nat
    /\ Limits \subseteq Nat \ {0}
    /\ MaxLimit \in Nat \ {0}

VARIABLES
    feed,     \* the list that is read
    stamps,   \* the key of each committed item; items are numbered by commit
    walk,     \* where the reader is: "idle", "count", "page" or "over"
    askedLimit,    \* the limit it asks for
    offset,
    total,    \* the total the last response reported
    seen,     \* items on the pages so far
    atStart   \* ghost: items there when the walk began

pagingVars == <<feed, stamps, walk, askedLimit, offset, total, seen, atStart>>

ItemsThere == DOMAIN stamps

\* pagination and auditPagination: the limit is capped, and the response
\* reports the limit that was used.
UsedLimit(requested) == IF requested > MaxLimit THEN MaxLimit ELSE requested
AskedLimit(requested) == requested
ReportedLimit(requested) == UsedLimit(requested)

PagingTypeOK ==
    /\ feed \in Feeds
    /\ stamps \in UNION {[1 .. n -> 1 .. MaxItems] : n \in 0 .. MaxItems}
    /\ walk \in {"idle", "count", "page", "over"}
    /\ askedLimit \in Limits
    /\ offset \in Nat /\ offset % UsedLimit(askedLimit) = 0 /\ total \in 0 .. MaxItems
    /\ seen \subseteq ItemsThere /\ atStart \subseteq ItemsThere

PagingInit ==
    /\ feed \in Feeds
    /\ stamps = <<>>
    /\ walk = "idle"
    /\ askedLimit \in Limits
    /\ offset = 0
    /\ total = 0
    /\ seen = {}
    /\ atStart = {}
-----------------------------------------------------------------------------
(* The lists                                                               *)

\* A case gets the next number of its guild under the guild's lock.
AddCase ==
    /\ feed = "cases"
    /\ Len(stamps) < MaxItems
    /\ stamps' = Append(stamps, Len(stamps) + 1)
    /\ UNCHANGED <<feed, walk, askedLimit, offset, total, seen, atStart>>

\* An audit entry takes its time before its transaction commits: it may be
\* older than one that is there, or as old.
AddEntry ==
    /\ feed = "audit"
    /\ Len(stamps) < MaxItems
    /\ \E time \in 1 .. MaxItems : stamps' = Append(stamps, time)
    /\ UNCHANGED <<feed, walk, askedLimit, offset, total, seen, atStart>>
-----------------------------------------------------------------------------
(* Reading                                                                 *)

BeginWalk ==
    /\ walk = "idle"
    /\ walk' = "count"
    /\ atStart' = ItemsThere
    /\ UNCHANGED <<feed, stamps, askedLimit, offset, total, seen>>

\* The first query of a request counts.
CountItems ==
    /\ walk = "count"
    /\ total' = Cardinality(ItemsThere)
    /\ walk' = "page"
    /\ UNCHANGED <<feed, stamps, askedLimit, offset, seen, atStart>>

\* The orders of ORDER BY key DESC: items with the same key come in any order.
InOrder(order) == \A i, j \in DOMAIN order : i < j => stamps[order[i]] >= stamps[order[j]]
NewestFirst == {order \in SetToSeqs(ItemsThere) : InOrder(order)}

\* LIMIT and OFFSET.
PageOf(order, limit) ==
    {order[i] : i \in {k \in DOMAIN order : k > offset /\ k <= offset + limit}}

\* The second query reads the page; the reader goes on behind it, or stops.
ReadPage ==
    /\ walk = "page"
    /\ \E order \in NewestFirst :
          LET page == PageOf(order, UsedLimit(askedLimit)) IN
          /\ seen' = seen \cup page
          /\ walk' = IF page = {} THEN "over" ELSE "count"
          /\ offset' = IF page = {} THEN offset ELSE offset + ReportedLimit(askedLimit)
    /\ UNCHANGED <<feed, stamps, askedLimit, total, atStart>>

PagingNext == AddCase \/ AddEntry \/ BeginWalk \/ CountItems \/ ReadPage

PagingSpec == PagingInit /\ [][PagingNext]_pagingVars
-----------------------------------------------------------------------------
(* Properties                                                              *)

Tied(i) == \E j \in ItemsThere \ {i} : stamps[j] = stamps[i]

\* A walk misses nothing that was there when it began, however the list grows
\* meanwhile: new rows push old ones to later pages, never to earlier ones.
\* Only audit entries of the same millisecond may hide behind each other,
\* because their order differs between one page's query and the next.
WalkMissesNothing ==
    walk = "over" => \A i \in atStart : Tied(i) \/ i \in seen
=============================================================================
