-------------------------- MODULE ReportSite_proofs --------------------------
(***************************************************************************)
(* For reports of any pages, columns and rows: the table always shows a    *)
(* sort; the sort asked for last, though before onload, is the one it      *)
(* shows and its links carry.                                              *)
(* For any listings, nested in any way: prettyPrint() decorates each once, *)
(* and when it says that it is done it has left none out.                  *)
(***************************************************************************)
EXTENDS ReportSite, FiniteSetTheorems, SequenceTheorems, WellFoundedInduction, TLAPS

Mark == {<<>>, <<"down">>, <<"up">>}

(* A table of the page p with the rows r and the marks st shows the sort s. *)
Displays(p, r, st, s) ==
  /\ \A i \in 1 .. Width(p) :
       st[i] = IF Header[p][i] = s.col THEN <<s.dir>> ELSE <<>>
  /\ \A i \in 1 .. Width(p), n \in 1 .. Height(p) :
       Header[p][i] = s.col =>
         Cell[p][r[n]][i] = IF s.dir = "up" THEN Height(p) - n ELSE n - 1

ByDelivery(p) == [dir |-> "down", col |-> Delivered[p]]

Typed(p, r, st, ls) ==
  /\ r \in [1 .. (IF Width(p) > 0 THEN Height(p) ELSE 0) -> Row[p]]
  /\ st \in [1 .. Width(p) -> Mark]
  /\ ls \in [Link[p] -> Sort \cup {NoSort}]

(* SortShown, of a sort by a column of the page. *)
OneSort(p, r, st) == Width(p) > 0 =>
  \E s \in Sort : HasColumn(p, s.col) /\ Displays(p, r, st, s)

(* Once onload was run, a sort that was asked for and that the page has is *)
(* on show and on the links that initialSort is given; else all links are  *)
(* as they were delivered.                                                 *)
Answered(p, r, st, ls, ld, w) ==
  IF ld /\ w # NoSort /\ HasColumn(p, w.col)
  THEN /\ Displays(p, r, st, w)
       /\ \A l \in Link[p] : ls[l] = IF l \in Tagged THEN w ELSE NoSort
  ELSE ls = InitialLinks(p)

Address == [at : Page, hash : Sort \cup {NoSort}]

(* The inductive invariant: before onload what is wanted is in the address. *)
TableIInv == /\ page \in Page
             /\ hash \in Sort \cup {NoSort}
             /\ back \in Seq(Address)
             /\ loaded \in BOOLEAN
             /\ wanted \in Sort \cup {NoSort}
             /\ ~loaded => wanted = hash
             /\ Typed(page, rows, style, links)
             /\ OneSort(page, rows, style)
             /\ Answered(page, rows, style, links, loaded, wanted)

-----------------------------------------------------------------------------
(* A header is found at its own position, and there only. *)
LEMMA PositionOf ==
  ASSUME NEW p \in Page, NEW c, HasColumn(p, c)
  PROVE  /\ Position(p, c) \in 1 .. Width(p)
         /\ Header[p][Position(p, c)] = c
         /\ \A i \in 1 .. Width(p) : (Header[p][i] = c) <=> (i = Position(p, c))
<1>1. PICK i \in 1 .. Width(p) : Header[p][i] = c
  BY DEF HasColumn
<1>2. /\ Position(p, c) \in 1 .. Width(p)
      /\ Header[p][Position(p, c)] = c
  BY <1>1 DEF Position
<1>3. \A j, n \in 1 .. Width(p) : Header[p][j] = Header[p][n] => j = n
  BY TableAssumption DEF TableAssumption
<1> QED BY <1>2, <1>3

(* Page heights are numbers. *)
LEMMA Heights == ASSUME NEW p \in Page PROVE Height(p) \in Nat
<1>1. IsFiniteSet(Row[p])
  BY TableAssumption DEF TableAssumption
<1> QED BY <1>1, FS_CardinalityType DEF Height

(* sortedrows: the n-th row is the one whose cell has the number n - 1. *)
LEMMA AscendingOrder ==
  ASSUME NEW p \in Page, NEW c, HasColumn(p, c)
  PROVE  \A n \in 1 .. Height(p) :
           /\ Ascending(p, c)[n] \in Row[p]
           /\ Cell[p][Ascending(p, c)[n]][Position(p, c)] = n - 1
<1> SUFFICES ASSUME NEW n \in 1 .. Height(p)
             PROVE  /\ Ascending(p, c)[n] \in Row[p]
                    /\ Cell[p][Ascending(p, c)[n]][Position(p, c)] = n - 1
  OBVIOUS
<1>1. Position(p, c) \in 1 .. Width(p)
  BY PositionOf
<1>2. n - 1 \in 0 .. Height(p) - 1
  BY Heights
<1>3. \E r \in Row[p] : Cell[p][r][Position(p, c)] = n - 1
  BY <1>1, <1>2, TableAssumption DEF TableAssumption
<1>4. Ascending(p, c)[n] = CHOOSE r \in Row[p] : Cell[p][r][Position(p, c)] = n - 1
  BY DEF Ascending
<1> QED BY <1>3, <1>4

(* The rows of a sorted table are where the sort puts them. *)
LEMMA SortedOrder ==
  ASSUME NEW p \in Page, NEW s \in Sort, HasColumn(p, s.col)
  PROVE  /\ Sorted(p, s) \in [1 .. Height(p) -> Row[p]]
         /\ \A n \in 1 .. Height(p) :
              Cell[p][Sorted(p, s)[n]][Position(p, s.col)] =
                IF s.dir = "up" THEN Height(p) - n ELSE n - 1
<1>0. Height(p) \in Nat
  BY Heights
<1>1. \A n \in 1 .. Height(p) :
        /\ Ascending(p, s.col)[n] \in Row[p]
        /\ Cell[p][Ascending(p, s.col)[n]][Position(p, s.col)] = n - 1
  BY AscendingOrder
<1>2. CASE s.dir = "up"
  <2>1. Sorted(p, s) = [n \in 1 .. Height(p) |-> Ascending(p, s.col)[Height(p) + 1 - n]]
    BY <1>2 DEF Sorted
  <2>2. \A n \in 1 .. Height(p) : Height(p) + 1 - n \in 1 .. Height(p)
    BY <1>0
  <2>3. \A n \in 1 .. Height(p) : (Height(p) + 1 - n) - 1 = Height(p) - n
    BY <1>0
  <2> QED BY <1>1, <1>2, <2>1, <2>2, <2>3
<1>3. CASE s.dir # "up"
  <2>1. Sorted(p, s) = Ascending(p, s.col)
    BY <1>3 DEF Sorted
  <2>2. Ascending(p, s.col) \in [1 .. Height(p) -> Row[p]]
    BY <1>1 DEF Ascending
  <2> QED BY <1>1, <1>3, <2>1, <2>2
<1> QED BY <1>2, <1>3

(* resetSortedStyle takes off every mark that a header can have. *)
LEMMA StripsAll == \A marks \in Mark : Strip(marks) = <<>>
<1>1. Strip(<<>>) = <<>>
  BY DEF Strip
<1>2. Strip(<<"down">>) = <<>>
  BY DEF Strip
<1>3. Strip(<<"up">>) = <<>>
  BY DEF Strip
<1> QED BY <1>1, <1>2, <1>3 DEF Mark

(* After a sort the header of its column has the one mark of the table. *)
LEMMA MarkedOnce ==
  ASSUME NEW p \in Page, NEW s \in Sort, HasColumn(p, s.col),
         NEW st \in [1 .. Width(p) -> Mark]
  PROVE  /\ Marked(p, st, s) \in [1 .. Width(p) -> Mark]
         /\ \A i \in 1 .. Width(p) :
              Marked(p, st, s)[i] = IF Header[p][i] = s.col THEN <<s.dir>> ELSE <<>>
<1>1. \A i \in 1 .. Width(p) : Strip(st[i]) = <<>>
  BY StripsAll
<1>2. <<s.dir>> \o <<>> = <<s.dir>>
  OBVIOUS
<1>3. <<s.dir>> \in Mark
  BY DEF Sort, Dir, Mark
<1>4. \A i \in 1 .. Width(p) : (Header[p][i] = s.col) <=> (i = Position(p, s.col))
  BY PositionOf
<1>5. \A i \in 1 .. Width(p) :
        Marked(p, st, s)[i] = IF i = Position(p, s.col) THEN <<s.dir>> ELSE <<>>
  BY <1>1, <1>2 DEF Marked
<1>6. <<>> \in Mark
  BY DEF Mark
<1>7. Marked(p, st, s) = [i \in 1 .. Width(p) |-> Marked(p, st, s)[i]]
  BY DEF Marked
<1>8. \A i \in 1 .. Width(p) : Marked(p, st, s)[i] \in Mark
  BY <1>3, <1>5, <1>6
<1> QED BY <1>4, <1>5, <1>7, <1>8

-----------------------------------------------------------------------------
(* sortColumn shows its sort, whatever the rows were before, and setHash   *)
(* puts it on the links.                                                   *)
LEMMA SortingShows ==
  ASSUME NEW p \in Page, NEW s \in Sort, HasColumn(p, s.col),
         NEW st \in [1 .. Width(p) -> Mark],
         NEW ls \in [Link[p] -> Sort \cup {NoSort}]
  PROVE  /\ Typed(p, Sorted(p, s), Marked(p, st, s), Hashed(p, ls, s))
         /\ Typed(p, Sorted(p, s), Marked(p, st, s), ls)
         /\ Displays(p, Sorted(p, s), Marked(p, st, s), s)
         /\ OneSort(p, Sorted(p, s), Marked(p, st, s))
         /\ \A l \in Link[p] : Hashed(p, ls, s)[l] = IF l \in Tagged THEN s ELSE ls[l]
<1>1. Width(p) > 0
  BY TableAssumption DEF TableAssumption, HasColumn, Width
<1>2. Hashed(p, ls, s) \in [Link[p] -> Sort \cup {NoSort}]
  BY DEF Hashed
<1>3. \A l \in Link[p] : Hashed(p, ls, s)[l] = IF l \in Tagged THEN s ELSE ls[l]
  BY DEF Hashed
<1>4. /\ Typed(p, Sorted(p, s), Marked(p, st, s), Hashed(p, ls, s))
      /\ Typed(p, Sorted(p, s), Marked(p, st, s), ls)
  BY <1>1, <1>2, SortedOrder, MarkedOnce DEF Typed
<1>5. Displays(p, Sorted(p, s), Marked(p, st, s), s)
  <2>1. \A i \in 1 .. Width(p) : (Header[p][i] = s.col) <=> (i = Position(p, s.col))
    BY PositionOf
  <2> QED BY <2>1, SortedOrder, MarkedOnce DEF Displays
<1> QED BY <1>3, <1>4, <1>5 DEF OneSort

(* The page is delivered with a sorted table, if it has one. *)
LEMMA DeliveredShows ==
  ASSUME NEW p \in Page
  PROVE  /\ Typed(p, InitialRows(p), InitialStyle(p), InitialLinks(p))
         /\ OneSort(p, InitialRows(p), InitialStyle(p))
<1>1. InitialStyle(p) \in [1 .. Width(p) -> Mark]
  <2>1. <<"down">> \in Mark /\ <<>> \in Mark
    BY DEF Mark
  <2> QED BY <2>1 DEF InitialStyle
<1>2. InitialLinks(p) \in [Link[p] -> Sort \cup {NoSort}]
  BY DEF InitialLinks
<1>3. CASE ~(Width(p) > 0)
  <2>1. InitialRows(p) = <<>>
    BY <1>3 DEF InitialRows
  <2>2. <<>> \in [1 .. 0 -> Row[p]]
    OBVIOUS
  <2> QED BY <1>1, <1>2, <1>3, <2>1, <2>2 DEF Typed, OneSort
<1>4. CASE Width(p) > 0
  <2>1. HasColumn(p, Delivered[p])
    BY <1>4, TableAssumption DEF TableAssumption, HasColumn
  <2>2. Delivered[p] \in Column
    BY <2>1, TableAssumption DEF TableAssumption, HasColumn, Width
  <2>3. ByDelivery(p) \in Sort /\ ByDelivery(p).col = Delivered[p]
        /\ ByDelivery(p).dir = "down"
    BY <2>2 DEF ByDelivery, Sort, Dir
  <2>4. Sorted(p, ByDelivery(p)) = InitialRows(p)
    BY <1>4, <2>3 DEF Sorted, InitialRows
  <2>5. /\ InitialRows(p) \in [1 .. Height(p) -> Row[p]]
        /\ \A n \in 1 .. Height(p) :
             Cell[p][InitialRows(p)[n]][Position(p, Delivered[p])] = n - 1
    BY <2>1, <2>3, <2>4, SortedOrder
  <2>6. \A i \in 1 .. Width(p) :
          (Header[p][i] = Delivered[p]) <=> (i = Position(p, Delivered[p]))
    BY <2>1, PositionOf
  <2>7. Displays(p, InitialRows(p), InitialStyle(p), ByDelivery(p))
    BY <2>3, <2>5, <2>6 DEF Displays, InitialStyle
  <2> QED BY <1>1, <1>2, <1>4, <2>1, <2>3, <2>5, <2>7 DEF Typed, OneSort
<1> QED BY <1>3, <1>4

(* A page that is loaded is as it was delivered. *)
LEMMA LoadShows ==
  ASSUME NEW p \in Page, NEW h \in Sort \cup {NoSort}, Load(p, h),
         back' \in Seq(Address), wanted' = h
  PROVE  TableIInv'
<1>1. /\ page' = p /\ hash' = h /\ loaded' = FALSE
      /\ rows' = InitialRows(p) /\ style' = InitialStyle(p) /\ links' = InitialLinks(p)
  BY DEF Load
<1>2. Typed(page', rows', style', links') /\ OneSort(page', rows', style')
  BY <1>1, DeliveredShows
<1>3. Answered(page', rows', style', links', loaded', wanted')
  BY <1>1 DEF Answered
<1> QED BY <1>1, <1>2, <1>3 DEF TableIInv

(* The address of the page that is open can be put into the history. *)
LEMMA HereTyped ==
  ASSUME page \in Page, hash \in Sort \cup {NoSort}, back \in Seq(Address)
  PROVE  Append(back, Here) \in Seq(Address)
BY DEF Here, Address

(* What the history holds after a step back is part of what it held. *)
LEMMA LastTyped ==
  ASSUME back \in Seq(Address), back # <<>>
  PROVE  /\ back[Len(back)] \in Address
         /\ SubSeq(back, 1, Len(back) - 1) \in Seq(Address)
<1>1. Len(back) \in Nat /\ Len(back) > 0
  BY EmptySeq DEF Address
<1> QED BY <1>1

-----------------------------------------------------------------------------
(* Each step keeps the table sorted, and its links by what was asked for. *)
LEMMA TableInitial == TableInit => TableIInv
<1> SUFFICES ASSUME TableInit PROVE TableIInv
  OBVIOUS
<1>1. PICK p \in Page, h \in Sort \cup {NoSort} :
        /\ page = p /\ hash = h /\ wanted = h /\ back = <<>>
        /\ rows = InitialRows(p) /\ style = InitialStyle(p)
        /\ links = InitialLinks(p) /\ loaded = FALSE
  BY DEF TableInit
<1>2. <<>> \in Seq(Address)
  OBVIOUS
<1>3. Typed(page, rows, style, links) /\ OneSort(page, rows, style)
  BY <1>1, DeliveredShows
<1>4. Answered(page, rows, style, links, loaded, wanted)
  BY <1>1 DEF Answered
<1> QED BY <1>1, <1>2, <1>3, <1>4 DEF TableIInv

(* onload: the sort of the address is the one that is wanted. *)
LEMMA InitialSortKeeps == TableIInv /\ InitialSort => TableIInv'
<1> SUFFICES ASSUME TableIInv, InitialSort PROVE TableIInv'
  OBVIOUS
<1> USE DEF TableIInv
<1>1. /\ ~loaded /\ loaded' = TRUE /\ UNCHANGED <<page, hash, back, wanted>>
      /\ wanted = hash /\ links = InitialLinks(page)
  BY DEF InitialSort, Answered
<1>2. /\ style \in [1 .. Width(page) -> Mark]
      /\ links \in [Link[page] -> Sort \cup {NoSort}]
      /\ \A l \in Link[page] : links[l] = NoSort
  BY <1>1 DEF Typed, InitialLinks
<1>3. CASE Applies(page, hash)
  <2>1. hash \in Sort /\ HasColumn(page, hash.col)
    BY <1>3 DEF Applies
  <2>2. /\ rows' = Sorted(page, hash)
        /\ style' = Marked(page, style, hash)
        /\ links' = Hashed(page, links, hash)
    BY <1>3 DEF InitialSort
  <2>3. /\ Typed(page, rows', style', links')
        /\ Displays(page, rows', style', hash)
        /\ OneSort(page, rows', style')
        /\ \A l \in Link[page] : links'[l] = IF l \in Tagged THEN hash ELSE NoSort
    BY <1>2, <2>1, <2>2, SortingShows
  <2>4. Answered(page', rows', style', links', loaded', wanted')
    BY <1>1, <1>3, <2>3 DEF Answered, Applies
  <2> QED BY <1>1, <2>3, <2>4
<1>4. CASE ~Applies(page, hash)
  <2>1. UNCHANGED <<rows, style, links>>
    BY <1>4 DEF InitialSort
  <2>2. Answered(page', rows', style', links', loaded', wanted')
    BY <1>1, <1>4, <2>1 DEF Answered, Applies
  <2> QED BY <1>1, <2>1, <2>2 DEF Typed, OneSort, Displays
<1> QED BY <1>3, <1>4

(* toggleSort: before onload the links stay as they were delivered. *)
LEMMA ClickKeeps ==
  ASSUME TableIInv, NEW i \in 1 .. Width(page), Click(i)
  PROVE  TableIInv'
<1> USE DEF TableIInv
<1> DEFINE s == Toggled(i)
<1>1. s \in Sort /\ HasColumn(page, s.col)
  <2>1. Header[page][i] \in Column
    BY TableAssumption DEF TableAssumption, Width
  <2> QED BY <2>1 DEF Toggled, Sort, Dir, HasColumn
<1>2. /\ page' = page /\ hash' = s /\ wanted' = s /\ loaded' = loaded
      /\ rows' = Sorted(page, s)
      /\ style' = Marked(page, style, s)
      /\ links' = IF loaded THEN Hashed(page, links, s) ELSE links
  BY DEF Click
<1>3. back' \in Seq(Address)
  BY HereTyped DEF Click
<1>4. /\ style \in [1 .. Width(page) -> Mark]
      /\ links \in [Link[page] -> Sort \cup {NoSort}]
      /\ ~loaded => links = InitialLinks(page)
      /\ \A l \in Link[page] : l \notin Tagged => links[l] = NoSort
  BY DEF Typed, Answered, InitialLinks
<1> HIDE DEF s
<1>5. /\ Typed(page, Sorted(page, s), Marked(page, style, s), Hashed(page, links, s))
      /\ Typed(page, Sorted(page, s), Marked(page, style, s), links)
      /\ Displays(page, Sorted(page, s), Marked(page, style, s), s)
      /\ OneSort(page, Sorted(page, s), Marked(page, style, s))
      /\ \A l \in Link[page] : Hashed(page, links, s)[l] = IF l \in Tagged THEN s ELSE links[l]
  BY <1>1, <1>4, SortingShows
<1>6. Typed(page', rows', style', links') /\ OneSort(page', rows', style')
  BY <1>2, <1>5
<1>7. Answered(page', rows', style', links', loaded', wanted')
  <2>1. CASE loaded
    <3>1. links' = Hashed(page, links, s)
      BY <1>2, <2>1
    <3>2. \A l \in Link[page] : links'[l] = IF l \in Tagged THEN s ELSE NoSort
      BY <1>4, <1>5, <3>1
    <3>3. s # NoSort
      BY <1>1, TableAssumption DEF TableAssumption
    <3> QED BY <1>1, <1>2, <1>5, <2>1, <3>2, <3>3 DEF Answered
  <2>2. CASE ~loaded
    BY <1>2, <1>4, <2>2 DEF Answered
  <2> QED BY <2>1, <2>2
<1> QED BY <1>1, <1>2, <1>3, <1>6, <1>7

(* A link of a table that was sorted on request has that sort behind it,   *)
(* and every other has none.                                               *)
LEMMA FollowKeeps ==
  ASSUME TableIInv, NEW l \in Link[page], Follow(l)
  PROVE  TableIInv'
<1> USE DEF TableIInv
<1>1. Target[l] \in Page /\ links[l] \in Sort \cup {NoSort}
  BY TableAssumption DEF TableAssumption, Links, Typed
<1>2. Load(Target[l], links[l]) /\ back' \in Seq(Address)
  BY HereTyped DEF Follow
<1>3. wanted' = IF l \in Tagged /\ loaded /\ Wanted THEN wanted ELSE NoSort
  BY DEF Follow
<1>4. CASE loaded /\ Wanted
  <2>1. links[l] = IF l \in Tagged THEN wanted ELSE NoSort
    BY <1>4 DEF Answered, Wanted
  <2>2. wanted' = links[l]
    BY <1>3, <1>4, <2>1
  <2> QED BY <1>1, <1>2, <2>2, LoadShows
<1>5. CASE ~(loaded /\ Wanted)
  <2>1. links[l] = NoSort
    BY <1>5 DEF Answered, Wanted, InitialLinks
  <2>2. wanted' = links[l]
    BY <1>3, <1>5, <2>1
  <2> QED BY <1>1, <1>2, <2>2, LoadShows
<1> QED BY <1>4, <1>5

LEMMA GoBackKeeps == TableIInv /\ GoBack => TableIInv'
<1> SUFFICES ASSUME TableIInv, GoBack PROVE TableIInv'
  OBVIOUS
<1> USE DEF TableIInv
<1> DEFINE last == back[Len(back)]
<1>1. back # <<>> /\ back' = SubSeq(back, 1, Len(back) - 1)
  BY DEF GoBack
<1>2. last \in Address /\ back' \in Seq(Address)
  BY <1>1, LastTyped
<1>3. last.at \in Page /\ last.hash \in Sort \cup {NoSort}
  BY <1>2 DEF Address
<1>4. CASE last.at = page
  <2>1. /\ hash' = last.hash
        /\ wanted' = IF loaded THEN wanted ELSE last.hash
        /\ UNCHANGED <<page, rows, style, links, loaded>>
    BY <1>4 DEF GoBack
  <2>2. Typed(page', rows', style', links') /\ OneSort(page', rows', style')
    BY <2>1 DEF Typed, OneSort, Displays
  <2>3. Answered(page', rows', style', links', loaded', wanted')
    BY <2>1 DEF Answered, Displays
  <2>4. wanted' \in Sort \cup {NoSort} /\ (~loaded' => wanted' = hash')
    BY <1>3, <2>1
  <2> QED BY <1>2, <1>3, <2>1, <2>2, <2>3, <2>4
<1>5. CASE last.at # page
  <2>1. Load(last.at, last.hash) /\ wanted' = last.hash
    BY <1>5 DEF GoBack
  <2> QED BY <1>2, <1>3, <2>1, LoadShows
<1> QED BY <1>4, <1>5

LEMMA TableInductive == TableIInv /\ [TableNext]_tableVars => TableIInv'
<1> SUFFICES ASSUME TableIInv, [TableNext]_tableVars PROVE TableIInv'
  OBVIOUS
<1>1. CASE Reload
  <2>1. Load(page, hash) /\ wanted' = hash /\ back' = back
    BY <1>1 DEF Reload
  <2> QED BY <2>1, LoadShows DEF TableIInv
<1>2. CASE UNCHANGED tableVars
  BY <1>2 DEF TableIInv, tableVars, Typed, OneSort, Answered, Displays
<1> QED
  BY <1>1, <1>2, InitialSortKeeps, ClickKeeps, FollowKeeps, GoBackKeeps DEF TableNext

THEOREM TableInvariant == TableSpec => []TableIInv
<1> QED BY TableInitial, TableInductive, PTL DEF TableSpec

(* The variables of every table keep their types. *)
THEOREM TableTypes == TableSpec => []TableTypeOK
<1>1. TableIInv => TableTypeOK
  BY DEF TableIInv, TableTypeOK, Typed, Mark, Address
<1> QED BY <1>1, TableInvariant, PTL

(* A table of any size shows one sort, and all of its rows in that order,  *)
(* after any clicks, before onload and after it, links, reloads and ways   *)
(* back.                                                                   *)
THEOREM TableShowsSort == TableSpec => []SortShown
<1>1. TableIInv => SortShown
  BY DEF TableIInv, OneSort, Displays, SortShown, Shows
<1> QED BY <1>1, TableInvariant, PTL

(* setHash: the links that initialSort was given carry the sort on show or *)
(* none, and do carry it when the reader asked for it and onload was run.  *)
THEOREM LinksFollowTable == TableSpec => []LinksCarrySort
<1>1. TableIInv => LinksCarrySort
  <2> SUFFICES ASSUME TableIInv
               PROVE  \/ \E s \in Sort : Shows(s) /\ Carried(s)
                      \/ links = InitialLinks(page) /\ ~(loaded /\ Wanted)
    BY DEF LinksCarrySort
  <2>1. CASE loaded /\ Wanted
    <3>1. wanted \in Sort /\ Shows(wanted) /\ Carried(wanted)
      BY <2>1 DEF TableIInv, Answered, Wanted, Displays, Shows, Carried
    <3> QED BY <3>1
  <2>2. CASE ~(loaded /\ Wanted)
    BY <2>2 DEF TableIInv, Answered, Wanted
  <2> QED BY <2>1, <2>2
<1> QED BY <1>1, TableInvariant, PTL

(* initialSort, setHash: the sort that was asked for last, before onload   *)
(* or on a page from which links led here, is shown.                       *)
THEOREM SortFollowsLink == TableSpec => []SortTravels
<1>1. TableIInv => SortTravels
  BY DEF TableIInv, Answered, Wanted, Displays, Shows, SortTravels
<1> QED BY <1>1, TableInvariant, PTL

-----------------------------------------------------------------------------
(* A step of the site is a step of the table, or leaves it alone. *)
LEMMA SiteStepIsTableStep == [SiteNext]_siteVars => [TableNext]_tableVars
BY DEF SiteNext, siteVars, OnLoad, Prettify, TableNext

(* prettify.js shares no element with sort.js: what was proved of the      *)
(* tables holds on the pages of the site.                                  *)
THEOREM SiteImplementsTable == SiteSpec => TableSpec
<1>1. SiteInit => TableInit
  BY DEF SiteInit
<1> QED
  BY <1>1, SiteStepIsTableStep, PTL DEF SiteSpec, TableSpec

-----------------------------------------------------------------------------
(* The tree of the elements. *)

(* Some numbers, if there are any, have a least one. *)
LEMMA LeastNumber ==
  ASSUME NEW T, T \subseteq Nat, T # {}
  PROVE  \E d \in T : \A e \in T : ~(e < d)
<1> DEFINE less == OpToRel(<, Nat)
<1>1. IsWellFoundedOn(less, Nat)
  BY NatLessThanWellFounded
<1>2. \A e, d \in Nat : e < d => <<e, d>> \in less
  BY DEF OpToRel
<1> HIDE DEF less
<1>3. \E d \in T : \A e \in T : ~(<<e, d>> \in less)
  BY <1>1, WFMin, Zenon
<1> QED
  BY <1>2, <1>3

(* Elements are nested finitely: of some that are around n, or n itself,   *)
(* one has none of the others around it.                                   *)
LEMMA OneIsOutermost ==
  ASSUME NEW n \in Node, NEW S \in SUBSET ({n} \cup Outer[n]), S # {}
  PROVE  \E x \in S : S \cap Outer[x] = {}
<1> DEFINE depth == {Cardinality(Outer[x]) : x \in S}
<1> USE PrintAssumption
<1>1. \A x \in S : x \in Node /\ IsFiniteSet(Outer[x]) /\ Cardinality(Outer[x]) \in Nat
  BY FS_CardinalityType
<1>2. depth \subseteq Nat /\ depth # {}
  BY <1>1
<1> HIDE DEF depth
<1>3. PICK d \in depth : \A e \in depth : ~(e < d)
  BY <1>2, LeastNumber
<1>4. PICK x \in S : Cardinality(Outer[x]) = d
  BY DEF depth
<1>5. ASSUME NEW y \in S \cap Outer[x] PROVE FALSE
  <2>1. Outer[y] \subseteq Outer[x] /\ y \in Outer[x] /\ y \notin Outer[y]
    BY <1>1
  <2>2. Cardinality(Outer[y]) <= d /\ Cardinality(Outer[y]) # d
    BY <1>1, <1>4, <2>1, FS_Subset
  <2>3. Cardinality(Outer[y]) \in depth /\ d \in Nat /\ Cardinality(Outer[y]) \in Nat
    BY <1>1, <1>2 DEF depth
  <2> QED
    BY <1>3, <2>2, <2>3
<1> QED
  BY <1>4, <1>5

(* The way from n down to an element inside begins with a child of n. *)
LEMMA ChildOnTheWay ==
  ASSUME NEW n \in Node, NEW m \in Inside(n)
  PROVE  \E c \in {m} \cup Outer[m] : c \in Children(n)
<1> DEFINE S == {x \in {m} \cup Outer[m] : n \in Outer[x]}
<1> USE PrintAssumption DEF Inside
<1>1. m \in Node /\ S \in SUBSET ({m} \cup Outer[m]) /\ S # {}
  OBVIOUS
<1> HIDE DEF S
<1>2. PICK c \in S : S \cap Outer[c] = {}
  BY <1>1, OneIsOutermost
<1>3. c \in {m} \cup Outer[m] /\ c \in Node /\ n \in Outer[c]
  BY DEF S
<1>4. \A q \in Outer[c] : q = n \/ q \in Outer[n]
  <2> SUFFICES ASSUME NEW q \in Outer[c], n \in Outer[q] PROVE FALSE
    BY <1>3
  <2>1. q \in {m} \cup Outer[m]
    BY <1>3
  <2> QED
    BY <1>2, <2>1 DEF S
<1>5. Outer[n] \cup {n} \subseteq Outer[c]
  BY <1>3
<1> QED
  BY <1>3, <1>4, <1>5 DEF Children

-----------------------------------------------------------------------------
PrintTyped ==
  /\ phase \in {"loading", "running", "waiting", "done", "failed"}
  /\ elements \in Seq(Node)
  /\ k \in 0 .. Len(elements)
  /\ orphan \in SUBSET Node
  /\ times \in [Node -> Nat]

(* prettyPrint: the list has each element of the page once, and those      *)
(* around it.                                                              *)
ListSound ==
  /\ \A i, j \in 1 .. Len(elements) : elements[i] = elements[j] => i = j
  /\ \A i \in 1 .. Len(elements) : Outer[elements[i]] \subseteq Listed

(* replaceWithPrettyPrintedHtml: a node is cut off by the listing around   *)
(* it, or when it is itself a listing that was an xmp.                     *)
OrphanCause ==
  \A o \in orphan : \E i \in 1 .. k :
    /\ elements[i] \in Source
    /\ o \in Children(elements[i]) \/ (o = elements[i] /\ Raw(o))

(* A listing that is not inside another. *)
Outermost(n) == n \in Source /\ Outer[n] \cap Source = {}

(* doWork: an outermost listing is decorated at its turn, with all that is *)
(* inside.                                                                 *)
OutermostDealt ==
  \A i \in 1 .. k : Outermost(elements[i]) =>
    \/ elements[i] \in Empty \cup Faulty
    \/ \A m \in {elements[i]} \cup Inside(elements[i]) : times[m] > 0

(* doWork: what was decorated was so by a listing that cut off everything  *)
(* inside, and that in XHTML is an outermost one.                          *)
CutOff(n) == /\ n \in Source
             /\ \A m \in Inside(n) : ~Shown(m)
             /\ n \in Xhtml => Outer[n] \cap Source = {}

DecoratedBy ==
  \A m \in Node : times[m] > 0 =>
    \E i \in 1 .. k : CutOff(elements[i]) /\ m \in {elements[i]} \cup Inside(elements[i])

(* prettyPrint: what is true at its start and its end. *)
Ends == /\ phase = "loading" => k = 0 /\ orphan = {} /\ \A n \in Node : times[n] = 0
        /\ phase = "done" => k = Len(elements)
        /\ phase = "failed" =>
             \E n \in Source \cap Listed : Raw(n) /\ Outer[n] \cap Source # {}

(* The inductive invariant. *)
PrintIInv == /\ PrintTyped /\ ListSound /\ OrphanCause
             /\ OutermostDealt /\ DecoratedBy /\ Ends
             /\ PrettyOnce

-----------------------------------------------------------------------------
(* prettyPrint: what byTagName finds, one name after the other, is a sound *)
(* list of elements.                                                       *)
LEMMA PageListed ==
  ASSUME NEW p \in Page, PrettyPrint(ByTagName[p])
  PROVE  elements' \in Seq(Node) /\ ListSound'
<1> DEFINE pre == ByTagName[p]["pre"]
           code == ByTagName[p]["code"]
           xmp == ByTagName[p]["xmp"]
           list == pre \o code \o xmp
           here == UNION {{ByTagName[p][tag][i] : i \in DOMAIN ByTagName[p][tag]} :
                            tag \in {"pre", "code", "xmp"}}
           OfTag(tag) == {n \in Node : Tag[n] = tag}
<1>1. /\ pre \in Seq(OfTag("pre")) /\ code \in Seq(OfTag("code"))
      /\ xmp \in Seq(OfTag("xmp"))
  BY SiteAssumption
<1>2. /\ \A i, j \in 1 .. Len(pre) : pre[i] = pre[j] => i = j
      /\ \A i, j \in 1 .. Len(code) : code[i] = code[j] => i = j
      /\ \A i, j \in 1 .. Len(xmp) : xmp[i] = xmp[j] => i = j
  <2>1. \A tag \in {"pre", "code", "xmp"} : \A i, j \in DOMAIN ByTagName[p][tag] :
          ByTagName[p][tag][i] = ByTagName[p][tag][j] => i = j
    BY SiteAssumption
  <2>2. /\ DOMAIN pre = 1 .. Len(pre) /\ DOMAIN code = 1 .. Len(code)
        /\ DOMAIN xmp = 1 .. Len(xmp)
    BY <1>1
  <2> QED
    BY <2>1, <2>2
<1>3. \A n \in Node : n \in here => Outer[n] \subseteq here
  BY SiteAssumption
<1>4. \A m : m \in here <=> \/ \E i \in 1 .. Len(pre) : m = pre[i]
                            \/ \E i \in 1 .. Len(code) : m = code[i]
                            \/ \E i \in 1 .. Len(xmp) : m = xmp[i]
  BY <1>1
<1> HIDE DEF pre, code, xmp, here
<1>5. pre \in Seq(Node) /\ code \in Seq(Node) /\ xmp \in Seq(Node)
  BY <1>1
<1>6. /\ list \in Seq(Node)
      /\ Len(list) = Len(pre) + Len(code) + Len(xmp)
      /\ \A i \in 1 .. Len(list) :
           list[i] = IF i <= Len(pre) THEN pre[i]
                     ELSE IF i <= Len(pre) + Len(code) THEN code[i - Len(pre)]
                     ELSE xmp[i - (Len(pre) + Len(code))]
  <2>1. /\ pre \o code \in Seq(Node)
        /\ Len(pre \o code) = Len(pre) + Len(code)
        /\ \A i \in 1 .. Len(pre) + Len(code) :
             (pre \o code)[i] = IF i <= Len(pre) THEN pre[i] ELSE code[i - Len(pre)]
    BY <1>5, ConcatProperties
  <2>2. /\ list \in Seq(Node)
        /\ Len(list) = Len(pre \o code) + Len(xmp)
        /\ \A i \in 1 .. Len(pre \o code) + Len(xmp) :
             list[i] = IF i <= Len(pre \o code) THEN (pre \o code)[i]
                       ELSE xmp[i - Len(pre \o code)]
    BY <1>5, <2>1, ConcatProperties
  <2>3. Len(pre) \in Nat /\ Len(code) \in Nat /\ Len(xmp) \in Nat
    BY <1>5
  <2> QED
    BY <2>1, <2>2, <2>3
<1> HIDE DEF list
<1>7. Len(pre) \in Nat /\ Len(code) \in Nat /\ Len(xmp) \in Nat
  BY <1>5
<1>8. /\ \A i \in 1 .. Len(pre) : Tag[pre[i]] = "pre"
      /\ \A i \in 1 .. Len(code) : Tag[code[i]] = "code"
      /\ \A i \in 1 .. Len(xmp) : Tag[xmp[i]] = "xmp"
  BY <1>1
<1>9. \A i, j \in 1 .. Len(list) : list[i] = list[j] => i = j
  <2> SUFFICES ASSUME NEW i \in 1 .. Len(list), NEW j \in 1 .. Len(list),
                      list[i] = list[j]
               PROVE  i = j
    OBVIOUS
  <2> DEFINE c == Len(pre)
             x == Len(pre) + Len(code)
  <2>1. \A n \in 1 .. Len(list) :
          \/ n \in 1 .. Len(pre) /\ list[n] = pre[n] /\ Tag[list[n]] = "pre"
          \/ n - c \in 1 .. Len(code) /\ list[n] = code[n - c] /\ Tag[list[n]] = "code"
          \/ n - x \in 1 .. Len(xmp) /\ list[n] = xmp[n - x] /\ Tag[list[n]] = "xmp"
    <3> SUFFICES ASSUME NEW n \in 1 .. Len(list)
                 PROVE  \/ n \in 1 .. Len(pre) /\ list[n] = pre[n] /\ Tag[list[n]] = "pre"
                        \/ /\ n - c \in 1 .. Len(code) /\ list[n] = code[n - c]
                           /\ Tag[list[n]] = "code"
                        \/ /\ n - x \in 1 .. Len(xmp) /\ list[n] = xmp[n - x]
                           /\ Tag[list[n]] = "xmp"
      OBVIOUS
    <3>1. CASE n <= Len(pre)
      <4>1. n \in 1 .. Len(pre) /\ list[n] = pre[n]
        BY <1>6, <1>7, <3>1
      <4> QED
        BY <1>8, <4>1
    <3>2. CASE ~(n <= Len(pre)) /\ n <= x
      <4>1. n - c \in 1 .. Len(code) /\ list[n] = code[n - c]
        BY <1>6, <1>7, <3>2
      <4> QED
        BY <1>8, <4>1
    <3>3. CASE ~(n <= Len(pre)) /\ ~(n <= x)
      <4>1. n - x \in 1 .. Len(xmp) /\ list[n] = xmp[n - x]
        BY <1>6, <1>7, <3>3
      <4> QED
        BY <1>8, <4>1
    <3> QED
      BY <3>1, <3>2, <3>3
  <2>2. c \in Nat /\ x \in Nat /\ i \in Nat /\ j \in Nat
    BY <1>6, <1>7
  <2> HIDE DEF c, x
  <2>3. CASE i \in 1 .. Len(pre) /\ list[i] = pre[i] /\ Tag[list[i]] = "pre"
    <3>1. j \in 1 .. Len(pre) /\ list[j] = pre[j]
      BY <2>1, <2>3
    <3> QED
      BY <1>2, <2>3, <3>1
  <2>4. CASE i - c \in 1 .. Len(code) /\ list[i] = code[i - c] /\ Tag[list[i]] = "code"
    <3>1. j - c \in 1 .. Len(code) /\ list[j] = code[j - c]
      BY <2>1, <2>4
    <3>2. i - c = j - c
      BY <1>2, <2>4, <3>1
    <3> QED
      BY <2>2, <3>2
  <2>5. CASE i - x \in 1 .. Len(xmp) /\ list[i] = xmp[i - x] /\ Tag[list[i]] = "xmp"
    <3>1. j - x \in 1 .. Len(xmp) /\ list[j] = xmp[j - x]
      BY <2>1, <2>5
    <3>2. i - x = j - x
      BY <1>2, <2>5, <3>1
    <3> QED
      BY <2>2, <3>2
  <2> QED
    BY <2>1, <2>3, <2>4, <2>5
<1>10. \A m : m \in here <=> \E i \in 1 .. Len(list) : m = list[i]
  <2>1. ASSUME NEW i \in 1 .. Len(list) PROVE list[i] \in here
    BY <1>4, <1>6, <1>7
  <2>2. ASSUME NEW i \in 1 .. Len(pre) PROVE \E j \in 1 .. Len(list) : pre[i] = list[j]
    <3>1. i \in 1 .. Len(list) /\ list[i] = pre[i]
      BY <1>6, <1>7
    <3> QED
      BY <3>1
  <2>3. ASSUME NEW i \in 1 .. Len(code) PROVE \E j \in 1 .. Len(list) : code[i] = list[j]
    <3>1. /\ i + Len(pre) \in 1 .. Len(list)
          /\ list[i + Len(pre)] = code[i + Len(pre) - Len(pre)]
      BY <1>6, <1>7
    <3>2. i + Len(pre) - Len(pre) = i
      BY <1>7
    <3> QED
      BY <3>1, <3>2
  <2>4. ASSUME NEW i \in 1 .. Len(xmp) PROVE \E j \in 1 .. Len(list) : xmp[i] = list[j]
    <3> DEFINE before == Len(pre) + Len(code)
    <3>1. before \in Nat /\ before >= Len(pre) /\ Len(list) = before + Len(xmp)
      BY <1>6, <1>7
    <3>2. /\ i + before \in 1 .. Len(list) /\ i + before > before
          /\ i + before - before = i
      <4> HIDE DEF before
      <4> QED
        BY <1>7, <3>1
    <3>3. list[i + before] = xmp[i + before - before]
      BY <1>6, <1>7, <3>1, <3>2
    <3> QED
      BY <3>2, <3>3
  <2> QED
    BY <1>4, <2>1, <2>2, <2>3, <2>4
<1>11. elements' = list
  BY DEF PrettyPrint, list, pre, code, xmp
<1>12. Listed' = here
  <2>1. DOMAIN elements' = 1 .. Len(list)
    BY <1>6, <1>11
  <2> QED
    BY <1>10, <1>11, <2>1 DEF Listed
<1>13. \A i \in 1 .. Len(list) : Outer[list[i]] \subseteq here
  BY <1>3, <1>6, <1>10
<1> QED
  BY <1>6, <1>9, <1>11, <1>12, <1>13 DEF ListSound

(* A page that was just loaded, or whose prettyPrint() has just begun, has *)
(* nothing cut off and nothing decorated.                                  *)
LEMMA FreshIInv ==
  (Fresh => PrintIInv) /\ (Renew => PrintIInv')
<1> USE DEF PrintIInv, PrintTyped, ListSound, OrphanCause, OutermostDealt,
            DecoratedBy, Ends, PrettyOnce
<1>1. Fresh => PrintIInv
  BY DEF Fresh
<1>2. Renew => PrintIInv'
  BY DEF Renew
<1> QED
  BY <1>1, <1>2

-----------------------------------------------------------------------------
(* The element whose turn it is. *)

(* doWork: an outermost listing is still part of the page at its turn, for *)
(* only the listing around it and its own decoration could cut it off.     *)
LEMMA OutermostShown ==
  ASSUME PrintTyped, ListSound, OrphanCause, k < Len(elements), Outermost(Current)
  PROVE  Shown(Current) /\ Current \notin orphan
<1> DEFINE x == Current
<1> USE PrintAssumption DEF PrintTyped
<1>1. x \in Node /\ x = elements[k + 1] /\ k + 1 \in 1 .. Len(elements)
  BY DEF Current
<1> HIDE DEF x
<1>2. ASSUME NEW o \in orphan \cap ({x} \cup Outer[x]) PROVE FALSE
  <2>1. PICK i \in 1 .. k :
          /\ elements[i] \in Source
          /\ o \in Children(elements[i]) \/ (o = elements[i] /\ Raw(o))
    BY <1>2 DEF OrphanCause
  <2>2. i \in 1 .. Len(elements) /\ i # k + 1 /\ elements[i] # x
    BY <1>1 DEF ListSound
  <2>3. o \in Node /\ Outer[o] \subseteq Outer[x]
    BY <1>1, <1>2
  <2>4. Source \cap Outer[x] = {}
    BY DEF Outermost, x
  <2>5. CASE o \in Children(elements[i])
    BY <2>1, <2>3, <2>4, <2>5 DEF Children
  <2>6. CASE o = elements[i]
    BY <1>2, <2>1, <2>2, <2>4, <2>6
  <2> QED
    BY <2>1, <2>5, <2>6
<1> QED
  BY <1>2 DEF Shown, x

(* doWork, nested: in XHTML a listing that is part of the page and is not  *)
(* found to be nested is an outermost one.                                 *)
LEMMA NotNested ==
  ASSUME NEW n \in Node, Shown(n), ~Nested(n), n \in Xhtml
  PROVE  Outer[n] \cap Source = {}
BY DEF Nested, Around, Shown

(* The orphans grow, and with them what is not shown. *)
LEMMA StaysCutOff ==
  ASSUME NEW n, CutOff(n), orphan \subseteq orphan'
  PROVE  CutOff(n)'
BY DEF CutOff, Shown, Inside

(* replaceWithPrettyPrintedHtml cuts off everything inside the listing. *)
LEMMA ReplaceCutsOff ==
  ASSUME NEW n \in Node, n \in Source, ~Nested(n), Shown(n),
         \/ ~Raw(n) /\ orphan' = orphan \cup Children(n)
         \/ Raw(n) /\ orphan' = orphan \cup {n}
  PROVE  CutOff(n)'
<1> USE PrintAssumption
<1>1. n \in Xhtml => Outer[n] \cap Source = {}
  BY NotNested
<1>2. ASSUME NEW m \in Inside(n) PROVE ~Shown(m)'
  <2>1. m \in Node /\ n \in Outer[m]
    BY DEF Inside
  <2>2. ~Raw(n)
    BY <2>1 DEF Raw
  <2>3. PICK c \in {m} \cup Outer[m] : c \in Children(n)
    BY <1>2, ChildOnTheWay
  <2> QED
    BY <2>2, <2>3 DEF Shown
<1> QED
  BY <1>1, <1>2 DEF CutOff, Inside

(* What decorating the current element does to one that was decorated      *)
(* before: the listing that did it is inside the current one, and this is  *)
(* an HTML page.                                                           *)
LEMMA DecoratedTwice ==
  ASSUME PrintTyped, ListSound, DecoratedBy, k < Len(elements),
         Current \in Source, Shown(Current),
         NEW m \in {Current} \cup Inside(Current), m \in Node, times[m] > 0
  PROVE  m \notin Xhtml /\ OuterLater(m)
<1> DEFINE x == Current
<1> USE PrintAssumption DEF PrintTyped
<1>1. x \in Node /\ x = elements[k + 1] /\ k + 1 \in 1 .. Len(elements)
  BY DEF Current
<1>2. PICK i \in 1 .. k :
        CutOff(elements[i]) /\ m \in {elements[i]} \cup Inside(elements[i])
  BY DEF DecoratedBy
<1> DEFINE y == elements[i]
<1>3. /\ i \in 1 .. Len(elements) /\ i < k + 1 /\ y \in Node
      /\ y # x
  BY <1>1 DEF ListSound
<1> HIDE DEF x, y
<1>4. x \in {m} \cup Outer[m] /\ y \in {m} \cup Outer[m]
  BY <1>2 DEF Inside, x, y
<1>5. x \notin Inside(y)
  BY <1>2 DEF CutOff, x, y
<1>6. x \in Outer[y]
  BY <1>1, <1>3, <1>4, <1>5 DEF Inside
<1>7. x \in Source
  BY DEF x
<1>8. m \notin Xhtml
  <2>1. y \in Xhtml => Outer[y] \cap Source = {}
    BY <1>2 DEF CutOff, y
  <2>2. m \in Xhtml => y \in Xhtml
    BY <1>4
  <2> QED
    BY <1>6, <1>7, <2>1, <2>2
<1>9. OuterLater(m)
  <2>1. DOMAIN elements = 1 .. Len(elements)
    OBVIOUS
  <2>2. elements[k + 1] \in Source \cap Outer[elements[i]]
    BY <1>1, <1>6, <1>7 DEF y
  <2>3. m \in {elements[i]} \cup Inside(elements[i])
    BY <1>2
  <2> QED
    BY <1>1, <1>3, <2>1, <2>2, <2>3 DEF OuterLater
<1> QED
  BY <1>8, <1>9

-----------------------------------------------------------------------------
(* doWork: an element that is not decorated is not an outermost listing. *)
LEMMA SkipKeeps == ASSUME PrintIInv, Skip PROVE PrintIInv'
<1> USE DEF PrintIInv, PrintTyped
<1>1. /\ phase = "running" /\ k < Len(elements) /\ k' = k + 1
      /\ UNCHANGED <<phase, elements, orphan, times>>
      /\ ~Outermost(Current)
  <2>1. Outer[Current] \cap Source = {} => ~Nested(Current)
    BY DEF Nested, Around
  <2> QED
    BY <2>1 DEF Skip, Busy, Advance, Outermost
<1>2. PrintTyped'
  BY <1>1
<1>3. OutermostDealt'
  <2> SUFFICES ASSUME NEW i \in 1 .. k + 1, Outermost(elements[i])
               PROVE  \/ elements[i] \in Empty \cup Faulty
                      \/ \A m \in {elements[i]} \cup Inside(elements[i]) : times[m] > 0
    BY <1>1 DEF OutermostDealt, Outermost, Inside
  <2>1. i \in 1 .. k
    BY <1>1 DEF Current
  <2> QED
    BY <2>1 DEF OutermostDealt
<1>4. OrphanCause' /\ DecoratedBy'
  <2>1. \A i \in 1 .. k : i \in 1 .. k'
    BY <1>1
  <2> QED
    BY <1>1, <2>1 DEF OrphanCause, DecoratedBy, Children, Raw, CutOff, Inside, Shown
<1>5. ListSound' /\ Ends' /\ PrettyOnce'
  BY <1>1 DEF ListSound, Ends, PrettyOnce, OuterLater, Inside, Listed, Raw
<1> QED
  BY <1>2, <1>3, <1>4, <1>5

(* doWork: an element that is decorated, is empty, or ends prettyPrint().  *)
LEMMA RewriteKeeps == ASSUME PrintIInv, Rewrite PROVE PrintIInv'
<1> DEFINE x == Current
<1> USE PrintAssumption DEF PrintIInv, PrintTyped
<1>1. /\ phase = "running" /\ k < Len(elements) /\ k' = k + 1
      /\ elements' = elements
      /\ x \in Source /\ ~Nested(x)
      /\ Replace(x)
  BY DEF Rewrite, Busy, Advance
<1>2. x \in Node /\ x = elements[k + 1] /\ k + 1 \in 1 .. Len(elements)
  BY <1>1 DEF Current
<1> HIDE DEF x
<1>3. Current = x
  BY DEF x
<1>4. \/ x \in Empty /\ UNCHANGED <<orphan, times, phase>>
      \/ /\ x \notin Empty
         /\ \/ ~Raw(x) /\ orphan' = orphan \cup Children(x)
            \/ Raw(x) /\ orphan' = orphan \cup {x}
         /\ Decorated(x) /\ phase' = phase
      \/ /\ Raw(x) /\ x \in orphan
         /\ phase' = "failed" /\ UNCHANGED <<orphan, times>>
  BY <1>1 DEF Replace
<1>5. orphan \subseteq orphan' /\ orphan' \in SUBSET Node
  BY <1>2, <1>4 DEF Children
<1>6. /\ times' \in [Node -> Nat]
      /\ \A m \in Node : \/ times'[m] = times[m]
                         \/ /\ times'[m] = times[m] + 1 /\ Shown(x)
                            /\ m \in {x} \cup Inside(x)
                            /\ \/ ~Raw(x) /\ orphan' = orphan \cup Children(x)
                               \/ Raw(x) /\ orphan' = orphan \cup {x}
  BY <1>2, <1>4 DEF Decorated
<1>7. PrintTyped'
  <2>1. phase' \in {"running", "failed"}
    BY <1>1, <1>4
  <2> QED
    BY <1>1, <1>2, <1>5, <1>6, <2>1
<1>8. \A i \in 1 .. k : i \in 1 .. k'
  BY <1>1
<1>9. k + 1 \in 1 .. k'
  BY <1>1
<1>10. OrphanCause'
  <2> SUFFICES ASSUME NEW o \in orphan'
               PROVE  \E i \in 1 .. k' :
                        /\ elements[i] \in Source
                        /\ o \in Children(elements[i]) \/ (o = elements[i] /\ Raw(o))
    BY <1>1 DEF OrphanCause, Children, Raw
  <2>1. CASE o \in orphan
    BY <1>8, <2>1 DEF OrphanCause
  <2>2. CASE o \notin orphan
    <3>1. o \in Children(x) \/ (o = x /\ Raw(o))
      BY <1>4, <2>2
    <3> QED
      BY <1>1, <1>2, <1>9, <3>1
  <2> QED
    BY <2>1, <2>2
<1>11. OutermostDealt'
  <2> SUFFICES ASSUME NEW i \in 1 .. k', Outermost(elements[i])
               PROVE  \/ elements[i] \in Empty \cup Faulty
                      \/ \A m \in {elements[i]} \cup Inside(elements[i]) : times'[m] > 0
    BY <1>1 DEF OutermostDealt, Outermost, Inside
  <2>1. CASE i \in 1 .. k
    <3>1. ASSUME NEW m \in Node, times[m] > 0 PROVE times'[m] > 0
      <4>1. times[m] \in Nat /\ (times'[m] = times[m] \/ times'[m] = times[m] + 1)
        BY <1>6
      <4> QED
        BY <3>1, <4>1
    <3>2. elements[i] \in Node
      BY <2>1
    <3> QED
      BY <2>1, <3>1, <3>2 DEF OutermostDealt, Inside
  <2>2. CASE i = k + 1
    <3>1. Shown(x) /\ x \notin orphan
      BY <1>1, <1>2, <1>3, <2>2, OutermostShown
    <3>2. x \in Empty \/ Decorated(x)
      BY <1>4, <3>1
    <3>3. ASSUME Decorated(x), x \notin Faulty, NEW m \in {x} \cup Inside(x)
          PROVE  times'[m] > 0
      <4>1. m \in Node /\ (m = x \/ m \in Inside(x))
        BY <1>2, <3>3 DEF Inside
      <4>2. times'[m] = times[m] + 1
        BY <3>1, <3>3, <4>1 DEF Decorated
      <4> QED
        BY <4>1, <4>2
    <3> QED
      BY <1>2, <2>2, <3>2, <3>3
  <2>3. i \in 1 .. k \/ i = k + 1
    BY <1>1
  <2> QED
    BY <2>1, <2>2, <2>3
<1>12. DecoratedBy'
  <2> SUFFICES ASSUME NEW m \in Node, times'[m] > 0
               PROVE  \E i \in 1 .. k' : /\ CutOff(elements[i])'
                                         /\ m \in {elements[i]} \cup Inside(elements[i])
    BY <1>1 DEF DecoratedBy, Inside, CutOff, Shown
  <2>1. CASE times[m] > 0
    <3>1. PICK i \in 1 .. k :
            CutOff(elements[i]) /\ m \in {elements[i]} \cup Inside(elements[i])
      BY <2>1 DEF DecoratedBy
    <3>2. CutOff(elements[i])'
      BY <1>1, <1>5, <3>1 DEF CutOff, Shown, Inside
    <3> QED
      BY <1>8, <3>1, <3>2
  <2>2. CASE ~(times[m] > 0)
    <3>1. /\ Shown(x) /\ m \in {x} \cup Inside(x)
          /\ \/ ~Raw(x) /\ orphan' = orphan \cup Children(x)
             \/ Raw(x) /\ orphan' = orphan \cup {x}
      BY <1>6, <2>2
    <3>2. PICK n \in Node : n = x
      BY <1>2
    <3>3. PICK j \in 1 .. k' : j = k + 1
      BY <1>9
    <3>4. CutOff(n)'
      BY <1>1, <3>1, <3>2, ReplaceCutsOff
    <3>5. elements[j] = n /\ elements'[j] = n
      BY <1>1, <1>2, <3>2, <3>3
    <3>6. CutOff(elements[j])'
      BY <3>4, <3>5
    <3> QED
      BY <3>1, <3>2, <3>5, <3>6
  <2> QED
    BY <2>1, <2>2
<1>13. Ends'
  <2>1. phase' \notin {"loading", "done"}
    BY <1>1, <1>4
  <2>2. ASSUME phase' = "failed"
        PROVE  \E n \in Source \cap Listed : Raw(n) /\ Outer[n] \cap Source # {}
    <3>1. Raw(x) /\ x \in orphan
      BY <1>1, <1>4, <2>2
    <3>2. Outer[x] \cap Source # {}
      BY <1>1, <1>3, <3>1, OutermostShown DEF Outermost
    <3>3. x \in Listed
      BY <1>2 DEF Listed
    <3> QED
      BY <1>1, <3>1, <3>2, <3>3
  <2>3. Listed' = Listed
    BY <1>1 DEF Listed
  <2> HIDE PrintAssumption DEF PrintIInv, PrintTyped
  <2> QED
    BY <2>1, <2>2, <2>3 DEF Ends, Raw
<1>14. PrettyOnce'
  <2> SUFFICES ASSUME NEW m \in Node
               PROVE  times'[m] <= 1 \/ (m \notin Xhtml /\ OuterLater(m))
    BY <1>1 DEF PrettyOnce, OuterLater, Inside
  <2>1. CASE times'[m] = times[m]
    BY <2>1 DEF PrettyOnce
  <2>2. CASE times[m] = 0 /\ times'[m] = times[m] + 1
    BY <2>2
  <2>3. CASE times[m] > 0 /\ Shown(x) /\ m \in {x} \cup Inside(x)
    BY <1>1, <1>3, <2>3, DecoratedTwice
  <2> QED
    BY <1>6, <2>1, <2>2, <2>3
<1>15. ListSound'
  BY <1>1 DEF ListSound, Listed
<1> QED
  BY <1>7, <1>10, <1>11, <1>12, <1>13, <1>14, <1>15

(* What does not touch the list and the page keeps what was found of them. *)
LEMMA PrintFrame ==
  ASSUME PrintIInv, UNCHANGED <<elements, k, orphan, times>>
  PROVE  /\ ListSound' /\ OrphanCause' /\ OutermostDealt' /\ DecoratedBy'
         /\ PrettyOnce' /\ Listed' = Listed
<1>0. /\ ListSound /\ OrphanCause /\ OutermostDealt /\ DecoratedBy /\ PrettyOnce
      /\ elements' = elements /\ k' = k /\ orphan' = orphan /\ times' = times
  BY DEF PrintIInv
<1>1. Listed' = Listed
  BY <1>0 DEF Listed
<1>2. ListSound'
  BY <1>0, <1>1, Zenon DEF ListSound
<1>3. OrphanCause'
  BY <1>0, Zenon DEF OrphanCause, Children, Raw
<1>4. OutermostDealt'
  BY <1>0, Zenon DEF OutermostDealt, Outermost, Inside
<1>5. DecoratedBy'
  BY <1>0, Zenon DEF DecoratedBy, CutOff, Shown, Inside
<1>6. PrettyOnce'
  BY <1>0, Zenon DEF PrettyOnce, OuterLater, Inside
<1> QED
  BY <1>1, <1>2, <1>3, <1>4, <1>5, <1>6

(* Every step of doWork keeps the inductive invariant. *)
LEMMA PrintKeeps == ASSUME PrintIInv, PrintStep PROVE PrintIInv'
<1>1. CASE Pause \/ Resume \/ WhenDone
  <2>1. UNCHANGED <<elements, k, orphan, times>>
    BY <1>1 DEF Pause, Resume, WhenDone
  <2>2. phase' \in {"running", "waiting", "done"} /\ (phase' = "done" => k = Len(elements))
    BY <1>1 DEF Pause, Resume, WhenDone
  <2>3. PrintTyped' /\ Ends'
    BY <2>1, <2>2 DEF PrintIInv, PrintTyped, Ends
  <2> QED
    BY <2>1, <2>3, PrintFrame DEF PrintIInv
<1> QED
  BY <1>1, SkipKeeps, RewriteKeeps DEF PrintStep

LEMMA PrintUnchanged == ASSUME PrintIInv, UNCHANGED printVars PROVE PrintIInv'
<1>1. UNCHANGED <<phase, elements, k, orphan, times>>
  BY DEF printVars
<1>2. PrintTyped' /\ Ends'
  BY <1>1, PrintFrame DEF PrintIInv, PrintTyped, Ends, Raw
<1> QED
  BY <1>1, <1>2, PrintFrame DEF PrintIInv

(* prettyPrint() starts on a page that nothing was done to. *)
LEMMA OnLoadKeeps == ASSUME page \in Page, PrintIInv, OnLoad PROVE PrintIInv'
<1>1. PrettyPrint(ByTagName[page])
  BY DEF OnLoad
<1>2. elements' \in Seq(Node) /\ ListSound'
  BY <1>1, PageListed
<1>3. /\ phase' = "running" /\ k' = 0 /\ orphan' = {}
      /\ \A n \in Node : times'[n] = 0
      /\ times' = times
  BY <1>1 DEF PrettyPrint, PrintIInv, Ends
<1>4. PrintTyped'
  BY <1>2, <1>3 DEF PrintIInv, PrintTyped
<1>5. OrphanCause' /\ OutermostDealt' /\ DecoratedBy' /\ PrettyOnce' /\ Ends'
  BY <1>3 DEF OrphanCause, OutermostDealt, DecoratedBy, PrettyOnce, Ends
<1> QED
  BY <1>2, <1>4, <1>5 DEF PrintIInv

(* Every step of the site keeps the inductive invariant. *)
LEMMA SiteKeeps ==
  ASSUME page \in Page, PrintIInv, [SiteNext]_siteVars
  PROVE  PrintIInv'
<1>1. CASE OnLoad
  BY <1>1, OnLoadKeeps
<1>2. CASE Prettify
  BY <1>2, PrintKeeps DEF Prettify
<1>3. CASE Renew
  BY <1>3, FreshIInv
<1>4. CASE UNCHANGED printVars
  BY <1>4, PrintUnchanged
<1>5. OnLoad \/ Prettify \/ Renew \/ UNCHANGED printVars
  BY DEF SiteNext, siteVars, InTable, Leave
<1> QED
  BY <1>1, <1>2, <1>3, <1>4, <1>5

(* prettyPrint: through all slices and on all pages, what is cut off was   *)
(* cut off by a listing, every outermost listing is dealt with at its      *)
(* turn, and nothing inside a listing is decorated after it.               *)
THEOREM PrintInvariant == SiteSpec => []PrintIInv
<1>1. SiteInit => PrintIInv
  BY FreshIInv DEF SiteInit
<1>2. TableIInv /\ PrintIInv /\ [SiteNext]_siteVars => PrintIInv'
  BY SiteKeeps DEF TableIInv
<1>3. SiteSpec => []TableIInv
  BY SiteImplementsTable, TableInvariant
<1> QED
  BY <1>1, <1>2, <1>3, PTL DEF SiteSpec

(* doWork: however listings are nested and wherever prettyPrint() pauses,  *)
(* no text is decorated twice, but in HTML that of a listing which comes   *)
(* in the list before one around it.                                       *)
THEOREM DecoratedOnce == SiteSpec => []PrettyOnce
BY PrintInvariant, PTL DEF PrintIInv

(* When prettyPrint() is done, the outermost of the listings around n, n   *)
(* included, had its turn.                                                 *)
LEMMA DoneDecorates ==
  ASSUME PrintIInv, phase = "done", NEW n \in Source \cap Listed
  PROVE  times[n] > 0 \/ n \in Empty \/ Faulty \cap ({n} \cup Outer[n]) # {}
<1> DEFINE S == Source \cap ({n} \cup Outer[n])
<1>0. S \in SUBSET ({n} \cup Outer[n]) /\ S # {}
  <2>1. n \in S
    OBVIOUS
  <2> QED
    BY <2>1
<1> USE PrintAssumption DEF PrintIInv, PrintTyped
<1>1. n \in Node
  BY DEF Listed
<1>2. PICK x \in S : S \cap Outer[x] = {}
  <2> HIDE DEF S
  <2> QED
    BY <1>0, <1>1, OneIsOutermost
<1>3. /\ x \in Source /\ x \in Node /\ (x = n \/ x \in Outer[n])
      /\ Outer[x] \subseteq Outer[n]
  BY <1>1
<1>4. Outermost(x)
  BY <1>2, <1>3 DEF Outermost
<1>5. PICK i \in 1 .. k : elements[i] = x
  <2>1. x \in Listed /\ k = Len(elements)
    BY <1>3 DEF Ends, ListSound, Listed
  <2> QED
    BY <2>1 DEF Listed
<1>6. n \in {x} \cup Inside(x)
  BY <1>1, <1>3 DEF Inside
<1>7. \/ x \in Empty \cup Faulty
      \/ times[n] > 0
  BY <1>4, <1>5, <1>6 DEF OutermostDealt
<1>8. x \in Empty => x = n
  BY <1>1, <1>3
<1> QED
  BY <1>3, <1>7, <1>8

(* prettyPrint: opt_whenDone is called only when no listing of the page    *)
(* was left out, and is left out only when the page has an xmp inside a    *)
(* listing.                                                                *)
THEOREM DoneMeansDecorated == SiteSpec => []WhenDoneLast
<1>1. PrintIInv => WhenDoneLast
  <2> SUFFICES ASSUME PrintIInv PROVE WhenDoneLast
    OBVIOUS
  <2>1. phase = "done" => \A n \in Source \cap Listed :
          times[n] > 0 \/ n \in Empty \/ Faulty \cap ({n} \cup Outer[n]) # {}
    BY DoneDecorates
  <2>2. Ends
    BY DEF PrintIInv
  <2> QED
    BY <2>1, <2>2 DEF Ends, WhenDoneLast
<1> QED
  BY <1>1, PrintInvariant, PTL

-----------------------------------------------------------------------------
(* What was proved of the tables alone holds of the site. *)

(* sort.js, on the pages of the site: the variables have their types. *)
THEOREM SiteTypes == SiteSpec => []TableTypeOK
BY SiteImplementsTable, TableTypes

(* sort.js, on the pages of the site: one sort is shown, with all rows in  *)
(* its order, whatever prettyPrint() does in between.                      *)
THEOREM SiteShowsSort == SiteSpec => []SortShown
BY SiteImplementsTable, TableShowsSort

(* sort.js, on the pages of the site: links carry the sort on show, when   *)
(* it was asked for and onload was run, or none.                           *)
THEOREM SiteLinksFollow == SiteSpec => []LinksCarrySort
BY SiteImplementsTable, LinksFollowTable

(* sort.js, on the pages of the site: the sort asked for last is shown,    *)
(* and travels with the links.                                             *)
THEOREM SiteSortTravels == SiteSpec => []SortTravels
BY SiteImplementsTable, SortFollowsLink

=============================================================================
