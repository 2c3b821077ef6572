------------------------------- MODULE Table -------------------------------
(***************************************************************************)
(* libfort (lib/fort.c), as far as client.c uses it: a table is built cell *)
(* by cell and row by row, and then laid out and printed into a buffer     *)
(* whose size was computed beforehand.                                     *)
(*                                                                         *)
(* Rows and columns are counted from 1.  A text is [of, w]: what it stands *)
(* for and the bytes it takes; no text of the client has a line break in   *)
(* it.  Allocation never fails here.                                       *)
(***************************************************************************)
EXTENDS Naturals, Sequences, SequencesExt, FiniteSetsExt, Functions, TLC

AnyPlace == 0     \* FT_ANY_ROW, FT_ANY_COLUMN

Text(of, w) == [of |-> of, w |-> w]
EmptyText   == Text("", 0)

\* s with as many copies of x behind it as n elements need.
Padded(s, n, x) == s \o [i \in 1..(IF n > Len(s) THEN n - Len(s) ELSE 0) |-> x]
-----------------------------------------------------------------------------
(* Building a table.                                                       *)

CreateCell == [text |-> EmptyText, type |-> "common"]

CreateTable ==
  [rows |-> <<>>, props |-> <<>>, style |-> "basic", cur_row |-> 1, cur_col |-> 1]

\* get_row_and_create_if_not_exists, get_cell_and_create_if_not_exists
RowsUpTo(rows, r) == Padded(rows, r, <<>>)
CellsUpTo(row, c) == Padded(row, c, CreateCell)

SetBorderStyle(t, style) == [t EXCEPT !.style = style]

SetCellProp(t, r, c, prop, value) ==
  [t EXCEPT !.props = (<<r, c, prop>> :> value) @@ @]

DefaultCellProp ==
  [min_width |-> 0, top |-> 0, bottom |-> 0, left |-> 1, right |-> 1,
   empty_height |-> 1, row_type |-> "common", align |-> "left"]

\* get_cell_property_value_hierarcial: the cell's own value, or that of its
\* column, of its row, of the whole table.
CellProp(t, r, c, prop) ==
  LET places == << <<r, c, prop>>, <<AnyPlace, c, prop>>, <<r, AnyPlace, prop>>,
                   <<AnyPlace, AnyPlace, prop>> >>
      set    == SelectSeq(places, LAMBDA p : p \in DOMAIN t.props)
  IN  IF set = <<>> THEN DefaultCellProp[prop] ELSE t.props[Head(set)]

RowSetCellSpan(row, c, span) ==
  [i \in 1..Len(CellsUpTo(row, c + span - 1)) |->
     LET cell == CellsUpTo(row, c + span - 1)[i]
     IN  CASE i = c                        -> [cell EXCEPT !.type = "master"]
           [] i > c /\ i < c + span        -> [cell EXCEPT !.type = "slave"]
           [] OTHER                        -> cell]

SetCellSpan(t, r, c, span) ==
  IF span < 2 THEN t
  ELSE [t EXCEPT !.rows =
          [RowsUpTo(@, r) EXCEPT ![r] = RowSetCellSpan(@, c, span)]]

Ln(t) == [t EXCEPT !.cur_row = @ + 1, !.cur_col = 1]

Write(t, text) ==
  [t EXCEPT
     !.rows = [RowsUpTo(@, t.cur_row) EXCEPT
                 ![t.cur_row] = [CellsUpTo(@, t.cur_col) EXCEPT
                                   ![t.cur_col].text = text]],
     !.cur_col = @ + 1]

WriteLn(t, texts) == Ln(FoldLeft(Write, t, texts))
-----------------------------------------------------------------------------
(* A formatted row.  Its fields are printed with '|' between them and the  *)
(* outcome is split at every '|', those inside of a field included: a      *)
(* field is given as the sequence of pieces between its own separators.    *)

\* The piece that results when a field is left in one.
Joined(field) ==
  Text([i \in DOMAIN field |-> field[i].of],
       FoldLeft(LAMBDA n, piece : n + piece.w, Len(field) - 1, field))

CellOf(text) == [CreateCell EXCEPT !.text = text]

CreateRowFromString(pieces) == [i \in DOMAIN pieces |-> CellOf(pieces[i])]

\* create_row_from_fmt_string: <<>> stands for NULL, a row has a cell.
CreateRowFromFormat(fields) ==
  LET pieces == FlattenSeq(fields)
  IN  CASE Len(pieces) = Len(fields) -> CreateRowFromString(pieces)
        [] Len(pieces) # Len(fields) /\ Len(fields) = 1 ->
             <<CellOf(Joined(fields[1]))>>
        [] OTHER -> <<>>

\* vector_swap, for a position within the row or right behind it.
SwapRow(row, new, c) ==
  [i \in 1..Max({Len(row), c + Len(new) - 1}) |->
     IF i >= c /\ i < c + Len(new) THEN new[i - c + 1] ELSE row[i]]

\* ft_printf_ln: without a row nothing changes, not even the line.
InsertLn(t, new) ==
  IF new = <<>> THEN t
  ELSE Ln([t EXCEPT !.rows = [RowsUpTo(@, t.cur_row) EXCEPT
                                ![t.cur_row] = SwapRow(@, new, t.cur_col)]])
PrintfLn(t, fields) == InsertLn(t, CreateRowFromFormat(fields))
-----------------------------------------------------------------------------
(* Its layout.                                                             *)

RowCount(t) == Len(t.rows)
Cols(t)     == Max({0} \cup { Len(t.rows[r]) : r \in DOMAIN t.rows })

HasCell(t, r, c) == c \in DOMAIN t.rows[r]

HintWidth(t, r, c) ==
  Max({ CellProp(t, r, c, "left") + CellProp(t, r, c, "right")
          + t.rows[r][c].text.w,
        CellProp(t, r, c, "min_width") })

\* A cell that is not there is as high as an empty one.
HintHeight(t, r, c) ==
  CellProp(t, r, c, "top") + CellProp(t, r, c, "bottom")
    + IF HasCell(t, r, c) /\ t.rows[r][c].text.w > 0
      THEN 1 ELSE CellProp(t, r, c, "empty_height")

GroupCellNumber(row, c) ==
  IF row[c].type # "master" THEN 1
  ELSE Max({ n \in 1..(Len(row) - c + 1) :
               \A k \in (c + 1)..(c + n - 1) : row[k].type = "slave" })

\* The columns of a group are widened one after the other, round and round,
\* until its text fits.
Widened(widths, first, last, hint) ==
  LET n     == last - first + 1
      group == SumFunctionOnSet(widths, first..last) + (n - 1)   \* as GroupWidth
      more  == IF hint > group THEN hint - group ELSE 0
  IN  [c \in DOMAIN widths |->
         IF c \notin first..last THEN widths[c]
         ELSE widths[c] + more \div n + IF c - first < more % n THEN 1 ELSE 0]

CommonWidths(t) ==
  [c \in 1..Cols(t) |->
     Max({0} \cup { HintWidth(t, r, c) :
                      r \in { q \in DOMAIN t.rows :
                                /\ HasCell(t, q, c)
                                /\ t.rows[q][c].type = "common" } })]

\* table_rows_and_cols_geometry
ColumnWidths(t) ==
  LET column(c) == SelectSeq([r \in 1..RowCount(t) |-> <<r, c>>],
                             LAMBDA p : /\ HasCell(t, p[1], c)
                                        /\ t.rows[p[1]][c].type = "master")
      masters   == FlattenSeq([c \in 1..Cols(t) |-> column(c)])
      widen(widths, p) ==
        Widened(widths, p[2], p[2] + GroupCellNumber(t.rows[p[1]], p[2]) - 1,
                HintWidth(t, p[1], p[2]))
  IN  FoldLeft(widen, CommonWidths(t), masters)

RowHeight(t, r) == Max({0} \cup { HintHeight(t, r, c) : c \in 1..Cols(t) })

\* The longest border element, in bytes.
BorderBytes(style) == IF style = "double2" THEN 3 ELSE 1

\* Mutant of Capacity: every border element counted as one byte.
Capacity_OneByte(t) ==
  (1 + RowCount(t) + SumFunction([r \in 1..RowCount(t) |-> RowHeight(t, r)]))
    * (2 + Cols(t) + SumFunction(ColumnWidths(t))) + 1

\* table_geometry, and what ft_to_string allocates from it.
Capacity(t) ==
  LET width  == 1 + Max({1, Cols(t)}) + 1 + SumFunction(ColumnWidths(t))
      height == 1 + Max({1, RowCount(t)})
                  + SumFunction([r \in 1..RowCount(t) |-> RowHeight(t, r)])
  IN  height * (width * BorderBytes(t.style)) + 1
-----------------------------------------------------------------------------
(* Its lines: [kind, width, bytes, header, up, down, cells, fits], width in*)
(* characters.  up and down are the columns before which the line meets a  *)
(* boundary above and below it, cells the texts by the column they start   *)
(* in.                                                                     *)

\* get_row_cell_types, with the regions above and below the table.
CellType(t, r, c) ==
  IF r \notin DOMAIN t.rows THEN "slave"
  ELSE IF HasCell(t, r, c) THEN t.rows[r][c].type ELSE "common"

IsHeader(t, r) == CellProp(t, r, AnyPlace, "row_type") = "header"

\* print_row_separator between the rows r - 1 and r.  The last one is printed
\* while context.row is still that of the last row, so that the row before it
\* decides which border is taken.
SeparatorLine(t, widths, r) ==
  LET width == 1 + Cols(t) + SumFunction(widths)
      above == IF r > RowCount(t) THEN r - 2 ELSE r - 1
  IN  [kind   |-> "separator",
       width  |-> width,
       bytes  |-> width * BorderBytes(t.style) + 1,
       header |-> \/ r > 1 /\ IsHeader(t, above)
                  \/ r <= RowCount(t) /\ IsHeader(t, r),
       up     |-> { c \in 2..Cols(t) : CellType(t, r - 1, c) # "slave" },
       down   |-> { c \in 2..Cols(t) : CellType(t, r, c) # "slave" },
       cells  |-> <<>>,
       fits   |-> TRUE]

\* A cell that the one to its left is printed over.
Covered(row, c) ==
  \E m \in 1..(c - 1) : m + GroupCellNumber(row, m) > c

\* Mutant of GroupWidth: without the boundaries that the cells give up.
GroupWidth_NoBoundaries(widths, c, size) == SumFunctionOnSet(widths, c..(c + size - 1))

\* The width of a cell that stands for size columns.
GroupWidth(widths, c, size) ==
  SumFunctionOnSet(widths, c..(c + size - 1)) + (size - 1)

\* snprintf_row: every cell, or group of cells, or place without a cell.
RowLine(t, widths, r) ==
  LET row       == t.rows[r]
      starts    == { c \in 1..Cols(t) : c > Len(row) \/ ~Covered(row, c) }
      size(c)   == IF c > Len(row) THEN 1 ELSE GroupCellNumber(row, c)
      cell_w(c) == GroupWidth(widths, c, size(c))
      inside    == MapThenSumSet(cell_w, starts)
      borders   == Cardinality(starts) + 1
  IN  [kind   |-> "row",
       width  |-> borders + inside,
       bytes  |-> borders * BorderBytes(t.style) + inside + 1,
       header |-> IsHeader(t, r),
       up     |-> starts \ {1},
       down   |-> starts \ {1},
       cells  |-> [c \in starts |->
                     IF c > Len(row) THEN EmptyText ELSE row[c].text],
       fits   |-> \A c \in starts : c <= Len(row) => HintWidth(t, r, c) <= cell_w(c)]

Lines(t, widths) ==
  LET height(r) == [i \in 1..RowHeight(t, r) |-> RowLine(t, widths, r)]
      block(r)  == <<SeparatorLine(t, widths, r)>> \o height(r)
  IN  FlattenSeq([r \in 1..RowCount(t) |-> block(r)])
        \o <<SeparatorLine(t, widths, RowCount(t) + 1)>>

\* What is printed must leave room for the character after it.
FitsInto(lines, capacity) ==
  /\ \A i \in DOMAIN lines : lines[i].fits
  /\ FoldLeft(LAMBDA n, line : n + line.bytes, 0, lines) < capacity

\* ft_to_string; without ok, NULL.
TableToString(t) ==
  IF t.rows = <<>> THEN [ok |-> TRUE, lines |-> <<>>]
  ELSE LET lines == Lines(t, ColumnWidths(t))
       IN  IF FitsInto(lines, Capacity(t)) THEN [ok |-> TRUE, lines |-> lines]
           ELSE [ok |-> FALSE, lines |-> <<>>]
=============================================================================
