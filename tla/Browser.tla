------------------------------ MODULE Browser ------------------------------
(***************************************************************************)
(* The list of one archive in the window                                   *)
(* (crates/gui-egui/src/browser.rs): the folders made from the entries'    *)
(* names, the rows shown, the selection and its totals, the focus and the  *)
(* folder tree.                                                            *)
(*                                                                         *)
(* A Browser is a record.  Like the struct it keeps copies of what could   *)
(* be derived (the rows shown, the bytes selected, the number of selected  *)
(* rows a search hides, the folders of the tree), so that drawing a frame  *)
(* needs no work; each operation must leave the copies true.  A path is    *)
(* the sequence of its names, <<>> the archive itself.                     *)
(***************************************************************************)
EXTENDS Naturals, Integers, Sequences, FiniteSets, FiniteSetsExt, SequencesExt

CONSTANTS
  Names,       \* the names in entries, as sort_unstable_by(search) orders them
  Finds        \* what a user types: each text as the set of names it finds

ASSUME SearchAssumption ==
  /\ Names \in Seq(Range(Names))
  /\ \A f \in Finds : f \subseteq Range(Names)

NoRow  == <<>>          \* Option::None of focus and anchor: the root has no row
NoFind == Range(Names)  \* the empty search finds every name

(***************************************************************************)
(* A listing is a set of entries [path, dir, size].  Browser::new gives    *)
(* every name on the way to an entry a row: folders may have no entry of   *)
(* their own, and a path may be both an entry and a folder.                *)
(***************************************************************************)
IsListing(L) ==
  /\ IsFiniteSet(L)
  /\ \A e \in L : e.path \in Seq(Range(Names)) \ {<<>>} /\ e.dir \in BOOLEAN /\ e.size \in Nat

RowsOf(L) == UNION {{SubSeq(e.path, 1, n) : n \in 1 .. Len(e.path)} : e \in L}
IsFolder(L, p) ==
  \/ p = <<>>
  \/ \E e \in L : IsStrictPrefix(p, e.path) \/ (e.path = p /\ e.dir)
FoldersOf(L) == {<<>>} \cup {p \in RowsOf(L) : IsFolder(L, p)}
HasEntry(L, p) == \E e \in L : e.path = p /\ ~e.dir

\* A sum of natural numbers, counted unit by unit.
Units(f) == UNION {{x} \X (1 .. f[x]) : x \in DOMAIN f}
Total(f) == Cardinality(Units(f))

FilesUnder(L, p) == {e \in L : ~e.dir /\ IsPrefix(p, e.path)}
BytesOf(L, p) == Total([e \in FilesUnder(L, p) |-> e.size])
Children(L, d) == {p \in RowsOf(L) : Front(p) = d}

Rank(p) == CHOOSE n \in DOMAIN Names : Names[n] = Last(p)

\* Folders first; then the column's value; then the name.
Before(L, column, p, q) ==
  \/ IsFolder(L, p) /\ ~IsFolder(L, q)
  \/ /\ IsFolder(L, p) = IsFolder(L, q)
     /\ \/ column = "size" /\ BytesOf(L, p) < BytesOf(L, q)
        \/ /\ column = "size" => BytesOf(L, p) = BytesOf(L, q)
           /\ Rank(p) < Rank(q)

(***************************************************************************)
(* The copies.                                                             *)
(***************************************************************************)
Found(L, b) == {p \in Children(L, b.dir) : Last(p) \in b.find}

\* A row's place in the sorted list: behind those before it.
Place(L, b, p) == 1 + Cardinality({q \in Found(L, b) : Before(L, b.column, q, p)})
Sorted(L, b) ==
  [k \in 1 .. Cardinality(Found(L, b)) |-> CHOOSE p \in Found(L, b) : Place(L, b, p) = k]

\* Descending, the folders and the files are each turned round.
Shown(L, b) ==
  LET rows  == Sorted(L, b)
      split == Cardinality({p \in Found(L, b) : IsFolder(L, p)})
  IN  IF b.descending
      THEN Reverse(SubSeq(rows, 1, split)) \o Reverse(SubSeq(rows, split + 1, Len(rows)))
      ELSE rows

BytesSelected(L, b) == Total([p \in b.sel \cap RowsOf(L) |-> BytesOf(L, p)])
HiddenSelected(L, b) ==
  IF b.find = NoFind THEN 0
  ELSE Cardinality({p \in b.sel \cap RowsOf(L) : Last(p) \notin b.find})

\* The pending stack of rebuild_tree descends into the expanded folders only.
TreeOf(L, expanded) ==
  {d \in FoldersOf(L) : \A n \in 0 .. Len(d) - 1 : SubSeq(d, 1, n) \in expanded}

SelectionChanged(L, b) ==
  [b EXCEPT !.bytes = BytesSelected(L, b), !.hidden = HiddenSelected(L, b)]

\* Faulty variant: the focus stays on a row that is not shown any more.
RefreshKeepsFocus(L, b) == SelectionChanged(L, [b EXCEPT !.visible = Shown(L, b)])

\* Every order, filter and folder comes through here.
Refresh(L, b) ==
  LET rows == Shown(L, b)
  IN  SelectionChanged(L, [b EXCEPT !.visible = rows,
                             !.focus = IF @ \in Range(rows) THEN @ ELSE NoRow])

(***************************************************************************)
(* The operations.                                                         *)
(***************************************************************************)
NewBrowser(L) ==
  Refresh(L, [dir |-> <<>>, find |-> NoFind, visible |-> <<>>, column |-> "name",
              descending |-> FALSE, sel |-> {}, bytes |-> 0, hidden |-> 0,
              focus |-> NoRow, anchor |-> NoRow, back |-> <<>>, forward |-> <<>>,
              expanded |-> {<<>>}, tree |-> TreeOf(L, {<<>>})])

SortBy(L, b, column) ==
  Refresh(L, [b EXCEPT
    !.descending = IF b.column = column THEN ~@ ELSE column = "size",
    !.column = column])

Search(L, b, find) == Refresh(L, [b EXCEPT !.find = find])

ClearSelection(L, b) == SelectionChanged(L, [b EXCEPT !.sel = {}, !.anchor = NoRow])

RevealDirectory(L, b) ==
  LET expanded == b.expanded \cup {SubSeq(b.dir, 1, n) : n \in 0 .. Len(b.dir)}
  IN  [b EXCEPT !.expanded = expanded, !.tree = TreeOf(L, expanded)]

Enter(L, b, d) ==
  LET cleared == ClearSelection(L, [b EXCEPT !.dir = d, !.find = NoFind])
  IN  RevealDirectory(L, Refresh(L, [cleared EXCEPT !.focus = NoRow]))

Navigate(L, b, d) ==
  IF d # b.dir /\ d \in FoldersOf(L)
  THEN Enter(L, [b EXCEPT !.back = Append(@, b.dir), !.forward = <<>>], d)
  ELSE b

Back(L, b) ==
  IF b.back = <<>> THEN b
  ELSE Enter(L, [b EXCEPT !.back = Front(@), !.forward = Append(@, b.dir)], Last(b.back))

Forward(L, b) ==
  IF b.forward = <<>> THEN b
  ELSE Enter(L, [b EXCEPT !.forward = Front(@), !.back = Append(@, b.dir)], Last(b.forward))

\* Up one folder, and the focus on the folder just left.
Parent(L, b) ==
  LET up == Navigate(L, b, IF b.dir = <<>> THEN <<>> ELSE Front(b.dir))
  IN  IF b.dir \in Range(up.visible) THEN [up EXCEPT !.focus = b.dir] ELSE up

ToggleFolder(L, b, d) ==
  LET expanded == IF d \in b.expanded THEN b.expanded \ {d} ELSE b.expanded \cup {d}
  IN  [b EXCEPT !.expanded = expanded, !.tree = TreeOf(L, expanded)]

SetSelection(L, b, sel) ==
  IF b.sel = sel THEN b
  ELSE SelectionChanged(L, [b EXCEPT !.sel = sel, !.anchor = NoRow])

Flip(sel, p) == IF p \in sel THEN sel \ {p} ELSE sel \cup {p}
Toggle(L, b, p) == SelectionChanged(L, [b EXCEPT !.sel = Flip(@, p)])

SelectAll(L, b) == SelectionChanged(L, [b EXCEPT !.sel = @ \cup Range(b.visible)])

IndexOf(rows, p, default) ==
  IF p \in Range(rows) THEN CHOOSE i \in DOMAIN rows : rows[i] = p ELSE default

\* A click on row i: alone, with Shift (extend), with Ctrl (toggle).
Select(L, b, i, extend, toggle) ==
  LET p      == b.visible[i]
      anchor == IndexOf(b.visible, b.anchor, i)
      range  == {b.visible[k] : k \in (i .. anchor) \cup (anchor .. i)}
  IN  SelectionChanged(L, [b EXCEPT
        !.sel    = CASE extend -> range \cup (IF toggle THEN @ ELSE {})
                     [] ~extend /\ toggle -> Flip(@, p)
                     [] OTHER -> {p},
        !.anchor = IF extend /\ @ # NoRow THEN @ ELSE p,
        !.focus  = p])

\* An arrow, page or end key; with Ctrl only the focus moves.
MoveFocus(L, b, offset, extend, focusOnly) ==
  LET last == Len(b.visible)
      from == IndexOf(b.visible, b.focus, 0)
      i    == CASE from = 0 -> IF offset < 0 THEN last ELSE 1
                [] OTHER -> IF from + offset < 1 THEN 1
                            ELSE IF from + offset > last THEN last ELSE from + offset
  IN  IF last = 0 THEN b
      ELSE IF focusOnly THEN [b EXCEPT !.focus = b.visible[i]]
      ELSE Select(L, b, i, extend, FALSE)

\* The next row, cyclically after the focus, whose name starts as typed.
JumpTo(L, b, starts) ==
  LET last == Len(b.visible)
      from == IndexOf(b.visible, b.focus, 0)
      hits == {k \in 1 .. last : Last(b.visible[((from + k - 1) % last) + 1]) \in starts}
  IN  IF hits = {} THEN b
      ELSE Select(L, b, ((from + Min(hits) - 1) % last) + 1, FALSE, FALSE)

(***************************************************************************)
(* What a selection takes (browser::selected): the entries it names and    *)
(* everything under them; an empty selection stands for the whole archive. *)
(***************************************************************************)
Takes(L, sel) == {e \in L : sel = {} \/ \E p \in sel : IsPrefix(p, e.path)}
=============================================================================
