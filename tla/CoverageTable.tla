---------------------------- MODULE CoverageTable ----------------------------
(***************************************************************************)
(* jacoco-resources/sort.js: the sortable tables of the coverage report,   *)
(* over the pages that a reader visits.  ping's and pong's reports have    *)
(* the same script.                                                        *)
(*                                                                         *)
(* A page's table is delivered sorted by one column, whose header is       *)
(* marked "down".  A click sorts it by another one.  The sort is also put  *)
(* behind the "#" of the page's address and of its links, from which       *)
(* initialSort of the next page takes it up.  That is its onload: the      *)
(* table can be clicked before, as soon as it is shown, and what           *)
(* initialSort prepares for setHash is missing then.  A page without       *)
(* columns has no table, and no sort.js.                                   *)
(***************************************************************************)
EXTENDS Integers, Sequences, FiniteSets

CONSTANTS Page,      \* pages of the report
          Column,    \* ids of headers, one character each
          Header,    \* [Page -> Seq(Column)], the header cells from left to right
          Row,       \* [Page -> set of rows], the table's body
          Cell,      \* [Page -> [row -> Seq(Nat)]], numbers in the ids of its cells
          Delivered, \* [Page -> Column], the column a page is delivered sorted by
          Link,      \* [Page -> set of links]
          Target,    \* [link -> Page]
          Tagged,    \* links inside the elements that initialSort is given
          NoSort,    \* no hash, or one that is not a sort (the anchor of a line)
          MaxBack    \* bound of the model: addresses the browser keeps

Dir == {"down", "up"}

Sort == [dir : Dir, col : Column]

Width(p) == Len(Header[p])
Height(p) == Cardinality(Row[p])
Links == UNION {Link[p] : p \in Page}

(* As the report generator writes the pages: the cells of a column number  *)
(* the rows from 0, no two headers have the same id, and no link leads to  *)
(* its own page.                                                           *)
ASSUME TableAssumption ==
  /\ Header \in [Page -> Seq(Column)]
  /\ \A p \in Page :
       /\ IsFiniteSet(Row[p])
       /\ \A i, k \in 1 .. Width(p) : Header[p][i] = Header[p][k] => i = k
       /\ Width(p) > 0 => \E i \in 1 .. Width(p) : Header[p][i] = Delivered[p]
       /\ \A i \in 1 .. Width(p) :
            \A n \in 0 .. Height(p) - 1 :
              \E r \in Row[p] : /\ Cell[p][r][i] = n
                                /\ \A s \in Row[p] : Cell[p][s][i] = n => s = r
  /\ Target \in [Links -> Page]
  /\ \A p \in Page : \A l \in Link[p] : Target[l] # p
  /\ NoSort \notin Sort
  /\ MaxBack \in Nat

VARIABLES page,    \* the page that is open
          hash,    \* what its address has behind the "#"
          rows,    \* the rows of its table from top to bottom
          style,   \* the marks in front of each header's class name
          links,   \* [link -> Sort \cup {NoSort}], the hashes of its links
          loaded,  \* window.linkelementids is set: its onload was run
          back,    \* the addresses the browser can go back to
          wanted   \* history: the sort the reader asked for last, or NoSort

tableVars == <<page, hash, rows, style, links, loaded, back, wanted>>

-----------------------------------------------------------------------------
(* getNodePosition *)
Position(p, c) == CHOOSE i \in 1 .. Width(p) : Header[p][i] = c

(* document.getElementById finds a header of this page. *)
HasColumn(p, c) == \E i \in 1 .. Width(p) : Header[p][i] = c

(* Mutant: only one of the two marks is looked for. *)
StripDown(marks) == IF marks # <<>> /\ Head(marks) = "down"
                    THEN Tail(marks) ELSE marks

(* A class name without a leading "down ", and then without an "up ". *)
Strip(marks) ==
  LET once == IF marks # <<>> /\ Head(marks) = "down" THEN Tail(marks) ELSE marks
  IN  IF once # <<>> /\ Head(once) = "up" THEN Tail(once) ELSE once

(* resetSortedStyle, and the mark on the header that was clicked *)
Marked(p, marks, s) ==
  [i \in 1 .. Width(p) |-> IF i = Position(p, s.col)
                           THEN <<s.dir>> \o Strip(marks[i])
                           ELSE Strip(marks[i])]

(* sortedrows: each row at the number in the id of its cell *)
Ascending(p, c) ==
  [n \in 1 .. Height(p) |->
     CHOOSE r \in Row[p] : Cell[p][r][Position(p, c)] = n - 1]

(* Mutant: the rows are appended in the same order both times. *)
AlwaysAscending(p, s) == Ascending(p, s.col)

(* Its rows are appended to the body from the first or from the last.      *)
(* Every row of the body is among them, so that it holds no others.        *)
Sorted(p, s) ==
  IF s.dir = "up"
  THEN [n \in 1 .. Height(p) |-> Ascending(p, s.col)[Height(p) + 1 - n]]
  ELSE Ascending(p, s.col)

(* Mutant: links that have a hash already keep it. *)
FirstHash(p, ls, s) == [l \in Link[p] |-> IF l \in Tagged /\ ls[l] = NoSort
                                          THEN s ELSE ls[l]]

(* setHash and setHashOnAllLinks *)
Hashed(p, ls, s) == [l \in Link[p] |-> IF l \in Tagged THEN s ELSE ls[l]]

(* What the browser shows of p before its onload. *)
InitialStyle(p) == [i \in 1 .. Width(p) |-> IF Header[p][i] = Delivered[p]
                                            THEN <<"down">> ELSE <<>>]
InitialRows(p) == IF Width(p) > 0 THEN Ascending(p, Delivered[p]) ELSE <<>>
InitialLinks(p) == [l \in Link[p] |-> NoSort]

(* Mutant: a hash that matches up-. is taken for a descending sort. *)
AppliesDown(p, h) == /\ h # NoSort /\ HasColumn(p, h.col)
                     /\ h.dir = "down"

(* initialSort: the hash names a sort and this page has its column. *)
Applies(p, h) == h # NoSort /\ HasColumn(p, h.col)

(* The page p takes the place of the last one, with the hash h. *)
Load(p, h) == /\ page' = p
              /\ hash' = h
              /\ rows' = InitialRows(p)
              /\ style' = InitialStyle(p)
              /\ links' = InitialLinks(p)
              /\ loaded' = FALSE

(* onload: initialSort sorts by the hash, which may be that of a click.    *)
InitialSort ==
  /\ Width(page) > 0 /\ ~loaded
  /\ loaded' = TRUE
  /\ IF Applies(page, hash)
     THEN /\ rows' = Sorted(page, hash)
          /\ style' = Marked(page, style, hash)
          /\ links' = Hashed(page, links, hash)
     ELSE UNCHANGED <<rows, style, links>>
  /\ UNCHANGED <<page, hash, back, wanted>>

-----------------------------------------------------------------------------
(* toggleSort: up if the header is marked "down", else down *)
Toggled(i) == [dir |-> IF style[i] # <<>> /\ Head(style[i]) = "down"
                       THEN "up" ELSE "down",
               col |-> Header[page][i]]

Here == [at |-> page, hash |-> hash]

(* The page has the column of the sort that is wanted. *)
Wanted == wanted # NoSort /\ HasColumn(page, wanted.col)

(* A click on the header i: toggleSort, sortColumn.  The new hash is a new *)
(* entry of the browser's history.  Before onload setHash throws at        *)
(* ids.length when all but the links is done.                              *)
Click(i) == LET s == Toggled(i)
            IN  /\ i \in 1 .. Width(page)
                /\ Len(back) < MaxBack
                /\ rows' = Sorted(page, s)
                /\ style' = Marked(page, style, s)
                /\ links' = IF loaded THEN Hashed(page, links, s) ELSE links
                /\ hash' = s
                /\ back' = IF hash = s THEN back ELSE Append(back, Here)
                /\ wanted' = s
                /\ UNCHANGED <<page, loaded>>

(* A link of the page is followed.  Those of a table that was sorted by    *)
(* the reader's wish should take it along.                                 *)
Follow(l) == /\ l \in Link[page]
             /\ Len(back) < MaxBack
             /\ Load(Target[l], links[l])
             /\ back' = Append(back, Here)
             /\ wanted' = IF l \in Tagged /\ loaded /\ Wanted THEN wanted ELSE NoSort

Reload == Load(page, hash) /\ wanted' = hash /\ UNCHANGED back

(* External: back within the page changes its hash, of which no handler    *)
(* of sort.js is told, but initialSort sees it if it has not run; else the *)
(* last page is loaded again.                                              *)
GoBack == LET last == back[Len(back)]
          IN  /\ back # <<>>
              /\ back' = SubSeq(back, 1, Len(back) - 1)
              /\ IF last.at = page
                 THEN /\ hash' = last.hash
                      /\ wanted' = IF loaded THEN wanted ELSE last.hash
                      /\ UNCHANGED <<page, rows, style, links, loaded>>
                 ELSE Load(last.at, last.hash) /\ wanted' = last.hash

(* The report is opened with any hash, as from a bookmark. *)
TableInit ==
  \E p \in Page, h \in Sort \cup {NoSort} :
    /\ page = p /\ hash = h /\ wanted = h /\ back = <<>>
    /\ rows = InitialRows(p) /\ style = InitialStyle(p)
    /\ links = InitialLinks(p) /\ loaded = FALSE

TableNext == \/ InitialSort
             \/ \E i \in 1 .. Width(page) : Click(i)
             \/ \E l \in Link[page] : Follow(l)
             \/ Reload
             \/ GoBack

TableSpec == TableInit /\ [][TableNext]_tableVars

-----------------------------------------------------------------------------
(* Each variable has its type. *)
TableTypeOK == /\ page \in Page
               /\ hash \in Sort \cup {NoSort}
               /\ rows \in [1 .. (IF Width(page) > 0 THEN Height(page) ELSE 0)
                              -> Row[page]]
               /\ style \in [1 .. Width(page) -> {<<>>, <<"down">>, <<"up">>}]
               /\ links \in [Link[page] -> Sort \cup {NoSort}]
               /\ loaded \in BOOLEAN
               /\ back \in Seq([at : Page, hash : Sort \cup {NoSort}])
               /\ wanted \in Sort \cup {NoSort}

(* The table shows the sort s: its header has the one mark, and every row  *)
(* stands where s puts it.                                                 *)
Shows(s) ==
  /\ \A i \in 1 .. Width(page) :
       style[i] = IF Header[page][i] = s.col THEN <<s.dir>> ELSE <<>>
  /\ \A i \in 1 .. Width(page), n \in 1 .. Height(page) :
       Header[page][i] = s.col =>
         Cell[page][rows[n]][i] = IF s.dir = "up" THEN Height(page) - n ELSE n - 1

(* sortColumn, resetSortedStyle: after any clicks, links, reloads and ways *)
(* back, before onload and after it, exactly one header is marked, and the *)
(* rows, all of them, are in the order it shows.                           *)
SortShown == Width(page) > 0 =>
  \E s \in Sort : HasColumn(page, s.col) /\ Shows(s)

(* Every link that initialSort is given carries s. *)
Carried(s) == \A l \in Link[page] \cap Tagged : links[l] = s

(* setHash: the links to other pages carry the sort that the table shows,  *)
(* whatever the address bar says, or none at all; and they do carry it     *)
(* when the reader asked for a sort that the page has and its onload was   *)
(* run, though a click before that did not get to the links.               *)
LinksCarrySort == Width(page) > 0 =>
  \/ \E s \in Sort : Shows(s) /\ Carried(s)
  \/ links = InitialLinks(page) /\ ~(loaded /\ Wanted)

(* initialSort, setHash: the sort that was asked for last, by a click here *)
(* or on a page from which links led here, by the address or before        *)
(* onload, is what the table shows, if it has the column.                  *)
SortTravels == loaded /\ Wanted => Shows(wanted)

=============================================================================
