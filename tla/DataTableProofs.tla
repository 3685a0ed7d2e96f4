-------------------------- MODULE DataTableProofs --------------------------
(***************************************************************************)
(* What is in the file of a table, for any columns and number of rows, any *)
(* sizes of the buffers, any way in which the system and zstd split what   *)
(* they take, and any older file.                                          *)
(***************************************************************************)
EXTENDS DataTable, SequenceTheorems, TLAPS

-----------------------------------------------------------------------------
(* The inductive invariant.  Cells are counted from 1 and never move: each *)
(* has, from when it is given to the sink, its place in the file.          *)

(* What a table is made of, but for its header, before anything is         *)
(* compressed: the place of the header or the heading, and then the rows.   *)
(* The first Start cells pass by the compressor.                            *)
Lead  == IF Binary THEN HeaderSize ELSE Columns
Start == IF Binary THEN HeaderSize ELSE 0
Given == Lead + (row * Columns + column)
Ended == Compress /\ pc \in {"draining", "seeking", "flushing", "closing", "closed"}

CellAt(k) == Cell("cell", 1 + ((k - 1) \div Columns), 1 + ((k - 1) % Columns))
Plain     == [i \in Nat \ {0} |-> IF i > Lead THEN CellAt(i - Lead)
                                  ELSE IF Binary THEN Zero ELSE Cell("name", 0, i)]

(* What comes out, and is to be in the file. *)
Wrapped(c) == IF Compress THEN [c EXCEPT !.packed = TRUE] ELSE c
Stream     == [i \in Nat \ {0} |-> IF i <= Start THEN Plain[i]
                                   ELSE IF i <= Given THEN Wrapped(Plain[i])
                                   ELSE FrameEnd]
StreamLen  == Given + (IF Ended THEN 1 ELSE 0)

(* What is being written over what: first the stream over the file that was *)
(* there, and then, in a binary table, the header over both.                *)
Rewriting == Binary /\ pc \in {"flushing", "closing", "closed"}
Base      == IF Truncate THEN <<>> ELSE OldFile
Target    == IF Rewriting THEN Header(row, column_types) ELSE Stream
TargetLen == IF Rewriting THEN HeaderSize ELSE StreamLen
Larger(m, n) == IF m > n THEN m ELSE n
Ground    == IF Rewriting THEN [i \in Nat \ {0} |-> IF i <= StreamLen THEN Stream[i] ELSE Base[i]]
             ELSE Base
GroundLen == IF Rewriting THEN Larger(StreamLen, Len(Base)) ELSE Len(Base)

(* s is what f has after the k-th place. *)
InPlace(f, s, k) == \A i \in 1..Len(s) : s[i] = f[k + i]

AtBuffer == offset + Len(pending)
AtOut    == AtBuffer + Len(buffer)
AtHeld   == AtOut + Len(out)
AtInput  == AtHeld + Len(held)
AtTodo   == AtInput + Len(input)

(* Every cell of the stream is in the file or in one of the buffers, in     *)
(* order and once; beyond the position the file is as it was.               *)
Flow ==
  /\ InPlace(Target, pending, offset)
  /\ InPlace(Target, buffer, AtBuffer)
  /\ InPlace(Target, out, AtOut)
  /\ InPlace(Plain, held, AtHeld)
  /\ InPlace(Plain, input, AtInput)
  /\ InPlace(Plain, todo, AtTodo)
  /\ AtTodo + Len(todo) = TargetLen

Filed ==
  /\ Len(file) = Larger(offset, GroundLen)
  /\ \A i \in 1..Len(file) : file[i] = IF i <= offset THEN Target[i] ELSE Ground[i]

(* Where the life of the table and the stages of its writing stand.         *)
Staged ==
  /\ ~Compress => held = <<>> /\ input = <<>> /\ todo = <<>> /\ ~packing
  /\ packing => input # <<>>
  /\ pc \in {"placing", "ready"} \/ (todo = <<>> /\ column = 0 /\ (~packing => input = <<>>))
  /\ pc = "placing" => /\ Binary /\ row = 0 /\ column = 0
                       /\ held = <<>> /\ input = <<>> /\ todo = <<>>
  /\ pc \notin {"placing", "ready", "ending"} => held = <<>> /\ input = <<>> /\ ~packing
  /\ pc \in {"seeking", "closing", "closed"} => out = <<>> /\ buffer = <<>>
  /\ pc = "closed" => pending = <<>>
  /\ pc \in {"draining", "seeking"} => Binary
  /\ pc \in {"ending"} => Compress

(* The place of the header is in the file, or next to be written, before    *)
(* anything else is.                                                        *)
Kept ==
  Binary /\ pc \in {"ready", "ending", "draining", "seeking"} =>
    /\ AtBuffer >= HeaderSize
    /\ offset >= HeaderSize \/ (row = 0 /\ column = 0 /\ buffer = <<>> /\ out = <<>>)

Measured ==
  /\ column_types \in [1..Columns -> Nat]
  /\ \A c \in 1..Columns : row > 0 \/ c <= column => column_types[c] = StoredSize(ColumnTypes[c])

Stages == {"new", "placing", "ready", "ending", "draining", "seeking", "flushing", "closing",
           "closed", "crashed"}

Unopened ==
  /\ file = OldFile /\ offset = 0 /\ row = 0 /\ column = 0 /\ ~packing
  /\ \A s \in {pending, out, todo, buffer, input, held} : s = <<>>

Options == [binary : BOOLEAN, compress : BOOLEAN, truncate : BOOLEAN, older : Nat]

DInv ==
  /\ TypeOK /\ packing \in BOOLEAN /\ pc \in Stages
  /\ options \in Options
  /\ Measured
  /\ pc = "new" => Unopened
  /\ pc \notin {"new", "crashed"} => Flow /\ Filed /\ Staged /\ Kept

-----------------------------------------------------------------------------
(* Places in sequences. *)

LEMMA Division ==
  ASSUME NEW d \in Nat \ {0}, NEW r \in Nat, NEW c \in 0..(d - 1)
  PROVE  (r * d + c) \div d = r /\ (r * d + c) % d = c
  BY SMT

LEMMA Quotient ==
  ASSUME NEW d \in Nat \ {0}, NEW k \in Nat
  PROVE  k \div d \in Nat /\ k % d \in 0..(d - 1)
  BY SMT

LEMMA InPlaceConcat ==
  ASSUME NEW S, NEW s \in Seq(S), NEW t \in Seq(S), NEW f, NEW k \in Int,
         InPlace(f, s, k), InPlace(f, t, k + Len(s))
  PROVE  InPlace(f, s \o t, k) /\ s \o t \in Seq(S) /\ Len(s \o t) = Len(s) + Len(t)
  BY ConcatProperties DEF InPlace

LEMMA InPlaceSplit ==
  ASSUME NEW S, NEW s \in Seq(S), NEW f, NEW k \in Int, InPlace(f, s, k), NEW n \in 0..Len(s)
  PROVE  /\ InPlace(f, SubSeq(s, 1, n), k) /\ InPlace(f, SubSeq(s, n + 1, Len(s)), k + n)
         /\ SubSeq(s, 1, n) \in Seq(S) /\ SubSeq(s, n + 1, Len(s)) \in Seq(S)
         /\ Len(SubSeq(s, 1, n)) = n /\ Len(SubSeq(s, n + 1, Len(s))) = Len(s) - n
  BY DEF InPlace

LEMMA CellsConcat ==
  ASSUME NEW s \in Seq(Cells), NEW t \in Seq(Cells), NEW f, NEW k \in Nat,
         InPlace(f, s, k), InPlace(f, t, k + Len(s))
  PROVE  InPlace(f, s \o t, k) /\ s \o t \in Seq(Cells) /\ Len(s \o t) = Len(s) + Len(t)
  BY InPlaceConcat

LEMMA CellsSplit ==
  ASSUME NEW s \in Seq(Cells), NEW f, NEW k \in Nat, InPlace(f, s, k), NEW n \in 0..Len(s)
  PROVE  /\ InPlace(f, SubSeq(s, 1, n), k) /\ InPlace(f, SubSeq(s, n + 1, Len(s)), k + n)
         /\ SubSeq(s, 1, n) \in Seq(Cells) /\ SubSeq(s, n + 1, Len(s)) \in Seq(Cells)
         /\ Len(SubSeq(s, 1, n)) = n /\ Len(SubSeq(s, n + 1, Len(s))) = Len(s) - n
  BY InPlaceSplit

LEMMA InPlaceEmpty == \A f, k : InPlace(f, <<>>, k)
  BY DEF InPlace

LEMMA InPlaceOne ==
  ASSUME NEW f, NEW k \in Nat, NEW c, c = f[k + 1]
  PROVE  InPlace(f, <<c>>, k)
  BY DEF InPlace

LEMMA InPlaceAppend ==
  ASSUME NEW s \in Seq(Cells), NEW c \in Cells, NEW f, NEW k \in Nat,
         InPlace(f, s, k), c = f[k + Len(s) + 1]
  PROVE  InPlace(f, Append(s, c), k) /\ Append(s, c) \in Seq(Cells) /\ Len(Append(s, c)) = Len(s) + 1
<1>1. /\ Append(s, c) \in Seq(Cells) /\ Len(Append(s, c)) = Len(s) + 1
      /\ \A i \in 1..Len(s) : Append(s, c)[i] = s[i]
      /\ Append(s, c)[Len(s) + 1] = c
  BY AppendProperties
<1>2. ASSUME NEW i \in 1..Len(Append(s, c)) PROVE Append(s, c)[i] = f[k + i]
  <2>1. Len(s) \in Nat /\ (i \in 1..Len(s) \/ (i = Len(s) + 1 /\ k + i = k + Len(s) + 1))
    BY <1>1, LenProperties
  <2> QED
    BY <1>1, <2>1 DEF InPlace
<1> QED
  BY <1>1, <1>2 DEF InPlace

(* A place depends on what is up to it alone. *)
LEMMA InPlaceUpTo ==
  ASSUME NEW s \in Seq(Cells), NEW f, NEW g, NEW k \in Nat, NEW m \in Nat,
         InPlace(f, s, k), k + Len(s) <= m, \A i \in 1..m : g[i] = f[i]
  PROVE  InPlace(g, s, k)
<1>1. ASSUME NEW i \in 1..Len(s) PROVE s[i] = g[k + i]
  <2>1. k + i \in 1..m
    BY LenProperties
  <2> QED
    BY <2>1 DEF InPlace
<1> QED
  BY <1>1 DEF InPlace

LEMMA SeqOfFunction ==
  ASSUME NEW S, NEW n \in Nat, NEW f \in [1..n -> S]
  PROVE  f \in Seq(S) /\ Len(f) = n
  BY SeqDef

-----------------------------------------------------------------------------
(* The cells of a table. *)

LEMMA ColumnsTyped ==
  /\ Columns \in Nat \ {0} /\ ColumnTypes \in [1..Columns -> Types] /\ HeaderSize = 1 + Columns
  /\ Capacity \in Nat \ {0} /\ InputSize \in Nat \ {0}
  BY TypesAssumption, SizesAssumption DEF Columns, HeaderSize

LEMMA CellTyped ==
  ASSUME NEW kind \in Kinds, NEW r \in Nat, NEW c \in 0..Columns
  PROVE  Cell(kind, r, c) \in Cells
  BY DEF Cell, Cells

LEMMA OneCell ==
  ASSUME NEW c \in Cells
  PROVE  <<c>> \in Seq(Cells) /\ Len(<<c>>) = 1 /\ <<c>>[1] = c
  OBVIOUS

LEMMA JoinLeft ==
  ASSUME NEW S, NEW s \in Seq(S), NEW t \in Seq(S), NEW i \in 1..Len(s)
  PROVE  (s \o t)[i] = s[i]
  BY ConcatProperties

LEMMA JoinRight ==
  ASSUME NEW S, NEW s \in Seq(S), NEW t \in Seq(S), NEW i \in 1..Len(t)
  PROVE  (s \o t)[Len(s) + i] = t[i]
  BY ConcatProperties

(* A cell is compressed or not. *)
LEMMA WrappedTyped ==
  ASSUME NEW c \in Cells
  PROVE  Wrapped(c) \in Cells /\ [c EXCEPT !.packed = TRUE] \in Cells
  BY DEF Wrapped, Cells

LEMMA CellAtTyped ==
  ASSUME NEW kind \in Kinds, NEW k \in Nat
  PROVE  Cell(kind, 1 + (k \div Columns), 1 + (k % Columns)) \in Cells
<1>1. k \div Columns \in Nat /\ k % Columns \in 0..(Columns - 1)
  BY Quotient, ColumnsTyped
<1>2. 1 + (k \div Columns) \in Nat /\ 1 + (k % Columns) \in 0..Columns
  BY <1>1, ColumnsTyped
<1> QED
  BY <1>2, CellTyped

LEMMA PackedTyped ==
  ASSUME NEW s \in Seq(Cells)
  PROVE  /\ Packed(s) \in Seq(Cells) /\ Len(Packed(s)) = Len(s)
         /\ \A i \in 1..Len(s) : Packed(s)[i] = [s[i] EXCEPT !.packed = TRUE]
<1>2. Packed(s) \in [1..Len(s) -> Cells]
  BY WrappedTyped DEF Packed
<1> QED
  BY <1>2, SeqOfFunction DEF Packed

LEMMA RowsTyped ==
  ASSUME NEW kind \in Kinds, NEW n \in Nat
  PROVE  /\ Rows(kind, n) \in Seq(Cells) /\ Len(Rows(kind, n)) = n * Columns
         /\ \A i \in 1..(n * Columns) :
              Rows(kind, n)[i] = Cell(kind, 1 + ((i - 1) \div Columns), 1 + ((i - 1) % Columns))
<1>1. n * Columns \in Nat
  BY ColumnsTyped
<1>2. Rows(kind, n) \in [1..(n * Columns) -> Cells]
  BY <1>1, CellAtTyped DEF Rows
<1> QED
  BY <1>1, <1>2, SeqOfFunction DEF Rows

LEMMA AllRowsTyped ==
  ASSUME NEW kind \in Kinds, NEW n \in Nat, Compress \in BOOLEAN
  PROVE  /\ AllRows(kind, n) \in Seq(Cells) /\ Len(AllRows(kind, n)) = n * Columns
         /\ \A i \in 1..(n * Columns) : AllRows(kind, n)[i] =
              Wrapped(Cell(kind, 1 + ((i - 1) \div Columns), 1 + ((i - 1) % Columns)))
<1>1. /\ Rows(kind, n) \in Seq(Cells) /\ Len(Rows(kind, n)) = n * Columns
      /\ \A i \in 1..(n * Columns) :
           Rows(kind, n)[i] = Cell(kind, 1 + ((i - 1) \div Columns), 1 + ((i - 1) % Columns))
  BY RowsTyped
<1> DEFINE cell(i) == Cell(kind, 1 + ((i - 1) \div Columns), 1 + ((i - 1) % Columns))
<1> HIDE DEF cell
<1>2. CASE Compress
  BY <1>1, <1>2, PackedTyped DEF AllRows, Wrapped, cell
<1>3. CASE ~Compress
  BY <1>1, <1>3 DEF AllRows, Wrapped, cell
<1> QED
  BY <1>2, <1>3

LEMMA PrefixOf ==
  ASSUME NEW s \in Seq(Cells), NEW t \in Seq(Cells), Len(s) <= Len(t),
         \A i \in 1..Len(s) : s[i] = t[i]
  PROVE  IsPrefix(s, t)
  BY DEF IsPrefix

(* The count in a header is of some of the rows, from the first on. *)
LEMMA StatedTyped ==
  ASSUME NEW n \in Nat
  PROVE  Stated(n) \in Nat /\ Stated(n) <= n
<1>1. CountLimit \in Nat \ {0}
  BY CountAssumption
<1> QED
  BY <1>1 DEF Stated

LEMMA FewerRows ==
  ASSUME NEW kind \in Kinds, NEW n \in Nat, NEW m \in Nat, m <= n, Compress \in BOOLEAN,
         NEW s \in Seq(Cells), IsPrefix(AllRows(kind, n), s)
  PROVE  IsPrefix(AllRows(kind, m), s)
<1> DEFINE few == AllRows(kind, m)
           all == AllRows(kind, n)
           p   == m * Columns
           q   == n * Columns
           cell(i) == Wrapped(Cell(kind, 1 + ((i - 1) \div Columns), 1 + ((i - 1) % Columns)))
<1>1. /\ few \in Seq(Cells) /\ Len(few) = p /\ \A i \in 1..p : few[i] = cell(i)
      /\ all \in Seq(Cells) /\ Len(all) = q /\ \A i \in 1..q : all[i] = cell(i)
  BY AllRowsTyped
<1>2. p \in Nat /\ q \in Nat /\ p <= q
  <2>1. Columns \in Nat /\ p \in Nat /\ q \in Nat
    BY ColumnsTyped
  <2>2. PICK d \in Nat : n = m + d
    <3>1. n - m \in Nat /\ n = m + (n - m)
      OBVIOUS
    <3> QED
      BY <3>1
  <2>3. q = p + d * Columns /\ d * Columns \in Nat
    BY <2>1, <2>2
  <2> QED
    BY <2>1, <2>3
<1> HIDE DEF few, all, p, q, cell
<1>3. Len(all) <= Len(s) /\ SubSeq(all, 1, Len(all)) = SubSeq(s, 1, Len(all))
  BY DEF IsPrefix, all
<1>4. Len(s) \in Nat /\ q <= Len(s)
  BY <1>1, <1>3
<1>5. ASSUME NEW i \in 1..q PROVE s[i] = cell(i)
  <2>1. SubSeq(all, 1, q)[i] = all[i]
    BY <1>1, <1>2
  <2>2. SubSeq(s, 1, q)[i] = s[i]
    BY <1>2, <1>4
  <2> QED
    BY <1>1, <1>3, <2>1, <2>2
<1>6. \A i \in 1..Len(few) : few[i] = s[i]
  BY <1>1, <1>2, <1>5
<1> QED
  BY <1>1, <1>2, <1>4, <1>6, PrefixOf DEF few

LEMMA HeaderTyped ==
  ASSUME NEW n \in Nat, NEW sizes \in [1..Columns -> Nat]
  PROVE  /\ Header(n, sizes) \in Seq(Cells) /\ Len(Header(n, sizes)) = HeaderSize
         /\ Header(n, sizes)[1] = Cell("rows", Stated(n), 0)
         /\ \A c \in 1..Columns : Header(n, sizes)[1 + c] = Cell("column", sizes[c], c)
<1> DEFINE first == <<Cell("rows", Stated(n), 0)>>
           rest  == [c \in 1..Columns |-> Cell("column", sizes[c], c)]
<1>1. first \in Seq(Cells) /\ Len(first) = 1 /\ first[1] = Cell("rows", Stated(n), 0)
  BY StatedTyped, CellTyped, OneCell, ColumnsTyped DEF Kinds
<1>2. rest \in [1..Columns -> Cells]
  BY CellTyped DEF Kinds
<1>3. rest \in Seq(Cells) /\ Len(rest) = Columns
  BY <1>2, SeqOfFunction, ColumnsTyped
<1>4. Header(n, sizes) = first \o rest
  BY DEF Header
<1>5. \A c \in 1..Columns : rest[c] = Cell("column", sizes[c], c)
  OBVIOUS
<1> HIDE DEF first, rest
<1>6. first \o rest \in Seq(Cells) /\ Len(first \o rest) = 1 + Columns
  <2>1. first \o rest \in Seq(Cells) /\ Len(first \o rest) = Len(first) + Len(rest)
    <3>1. first \in Seq(Cells) /\ rest \in Seq(Cells)
      BY <1>1, <1>3
    <3> QED
      BY <3>1, ConcatProperties
  <2> QED
    BY <1>1, <1>3, <2>1
<1>7. (first \o rest)[1] = first[1]
  <2>1. 1 \in 1..Len(first)
    BY <1>1
  <2> QED
    BY <1>1, <1>3, <2>1, JoinLeft
<1>8. ASSUME NEW c \in 1..Columns PROVE (first \o rest)[1 + c] = rest[c]
  <2>1. (first \o rest)[Len(first) + c] = rest[c]
    <3>1. first \in Seq(Cells) /\ rest \in Seq(Cells) /\ c \in 1..Len(rest)
      BY <1>1, <1>3
    <3> QED
      BY <3>1, JoinRight
  <2> QED
    BY <1>1, <2>1
<1> QED
  BY <1>1, <1>4, <1>5, <1>6, <1>7, <1>8, ColumnsTyped

LEMMA PlaceholderTyped ==
  /\ Placeholder \in Seq(Cells) /\ Len(Placeholder) = HeaderSize
  /\ \A i \in 1..HeaderSize : Placeholder[i] = Zero
<1>1. Placeholder \in [1..HeaderSize -> Cells]
  BY CellTyped, ColumnsTyped DEF Placeholder, Zero, Kinds
<1> QED
  BY <1>1, SeqOfFunction, ColumnsTyped DEF Placeholder

LEMMA HeadingTyped ==
  /\ Heading \in Seq(Cells) /\ Len(Heading) = Columns
  /\ \A i \in 1..Columns : Heading[i] = Cell("name", 0, i)
<1>1. Heading \in [1..Columns -> Cells]
  BY CellTyped, ColumnsTyped DEF Heading, Kinds
<1> QED
  BY <1>1, SeqOfFunction, ColumnsTyped DEF Heading

LEMMA StoredSizeTyped == \A type \in Types : StoredSize(type) \in Nat
  BY DEF Types, StoredSize

LEMMA OldFileTyped ==
  ASSUME options \in Options
  PROVE  /\ OldFile \in Seq(Cells)
         /\ Older = 0 => OldFile = <<>>
         /\ RowCount(OldFile) \in Nat
         /\ RowCount(OldFile) # 0 => IsPrefix(AllRows("old", RowCount(OldFile)), Body(OldFile))
<1> DEFINE hdr == Header(Older, [c \in 1..Columns |-> StoredSize(ColumnTypes[c])])
           all == AllRows("old", Older)
<1>1. Older \in Nat /\ Binary \in BOOLEAN /\ Compress \in BOOLEAN
  BY DEF Options, Older, Binary, Compress
<1>2. all \in Seq(Cells)
  BY <1>1, AllRowsTyped DEF Kinds
<1>6. [c \in 1..Columns |-> StoredSize(ColumnTypes[c])] \in [1..Columns -> Nat]
  BY StoredSizeTyped, ColumnsTyped
<1>7. hdr \in Seq(Cells) /\ Len(hdr) = HeaderSize /\ hdr[1] = Cell("rows", Stated(Older), 0)
  BY <1>1, <1>6, HeaderTyped
<1>8. Older # 0 /\ Binary => OldFile = hdr \o all
  BY DEF OldFile, AllRows
<1> HIDE DEF hdr, all
<1>3. CASE Older = 0
  BY <1>3, EmptySeq DEF OldFile, RowCount
<1>4. CASE Older # 0 /\ Binary
  <2>4. OldFile \in Seq(Cells) /\ OldFile[1] = hdr[1] /\ Len(OldFile) = HeaderSize + Len(all)
    <3>1. 1 \in 1..Len(hdr)
      BY <1>7, ColumnsTyped
    <3>2. hdr \o all \in Seq(Cells) /\ Len(hdr \o all) = Len(hdr) + Len(all)
      BY <1>2, <1>7, ConcatProperties
    <3>3. (hdr \o all)[1] = hdr[1]
      BY <1>2, <1>7, <3>1, JoinLeft
    <3> QED
      BY <1>4, <1>7, <1>8, <3>2, <3>3
  <2>5. RowCount(OldFile) = Stated(Older)
    BY <1>4, <1>7, <2>4, ColumnsTyped DEF RowCount, Cell
  <2>6. Body(OldFile) = all
    <3>1. ASSUME NEW i \in 1..Len(all) PROVE OldFile[HeaderSize + i] = all[i]
      BY <1>2, <1>4, <1>7, <1>8, JoinRight
    <3>2. Body(OldFile) \in Seq(Cells) /\ Len(Body(OldFile)) = Len(all)
      BY <1>2, <2>4, ColumnsTyped DEF Body
    <3>3. \A i \in 1..Len(all) : Body(OldFile)[i] = OldFile[HeaderSize + i]
      BY <1>2, <2>4, ColumnsTyped DEF Body
    <3> QED
      BY <1>2, <3>1, <3>2, <3>3, SeqEqual
  <2>7. IsPrefix(all, all)
    BY <1>2 DEF IsPrefix
  <2>8. Stated(Older) \in Nat /\ Stated(Older) <= Older
    BY <1>1, StatedTyped
  <2>9. IsPrefix(AllRows("old", Stated(Older)), all)
    BY <1>1, <1>2, <2>7, <2>8, FewerRows DEF all, Kinds
  <2> QED
    BY <1>4, <2>4, <2>5, <2>6, <2>8, <2>9
<1>5. CASE Older # 0 /\ ~Binary
  BY <1>1, <1>5, RowsTyped DEF OldFile, RowCount, Kinds
<1> QED
  BY <1>1, <1>3, <1>4, <1>5

-----------------------------------------------------------------------------
(* The stream. *)

LEMMA Typed ==
  ASSUME DInv
  PROVE  /\ row \in Nat /\ column \in Nat /\ offset \in Nat /\ offset <= Len(file)
         /\ file \in Seq(Cells) /\ pending \in Seq(Cells) /\ out \in Seq(Cells)
         /\ todo \in Seq(Cells) /\ buffer \in Seq(Cells) /\ input \in Seq(Cells)
         /\ held \in Seq(Cells)
         /\ Binary \in BOOLEAN /\ Compress \in BOOLEAN /\ Truncate \in BOOLEAN /\ Older \in Nat
<1>1. row \in Nat /\ column \in Nat
  BY BoundsAssumption, ColumnsTyped DEF DInv, TypeOK
<1>2. /\ file \in Seq(Cells) /\ pending \in Seq(Cells) /\ out \in Seq(Cells)
      /\ todo \in Seq(Cells) /\ buffer \in Seq(Cells) /\ input \in Seq(Cells)
      /\ held \in Seq(Cells)
  BY DEF DInv, TypeOK
<1>3. Binary \in BOOLEAN /\ Compress \in BOOLEAN /\ Truncate \in BOOLEAN /\ Older \in Nat
  BY DEF DInv, Options, Binary, Compress, Truncate, Older
<1>4. offset \in Nat /\ offset <= Len(file)
  BY <1>2 DEF DInv, TypeOK
<1> QED
  BY <1>1, <1>2, <1>3, <1>4

LEMMA Counted ==
  ASSUME DInv
  PROVE  /\ Start \in Nat /\ Lead \in Nat /\ Given \in Nat
         /\ StreamLen \in Nat /\ TargetLen \in Nat
         /\ Base \in Seq(Cells) /\ Len(Base) \in Nat /\ GroundLen \in Nat
<1>1. Start \in Nat /\ Lead \in Nat
  BY ColumnsTyped DEF Start, Lead
<1>2. Given \in Nat
  <2>1. row * Columns \in Nat
    BY Typed, ColumnsTyped
  <2> QED
    BY <1>1, <2>1, Typed DEF Given
<1>3. StreamLen \in Nat
  BY <1>2 DEF StreamLen
<1>4. TargetLen \in Nat
  BY <1>3, ColumnsTyped DEF TargetLen
<1>5. Base \in Seq(Cells) /\ Len(Base) \in Nat
  <2>1. OldFile \in Seq(Cells)
    BY OldFileTyped DEF DInv
  <2>2. Base \in Seq(Cells)
    BY <2>1, EmptySeq DEF Base
  <2> QED
    BY <2>2, LenProperties
<1>6. GroundLen \in Nat
  BY <1>3, <1>5 DEF GroundLen, Larger
<1> QED
  BY <1>1, <1>2, <1>3, <1>4, <1>5, <1>6

LEMMA Lengths ==
  ASSUME DInv
  PROVE  /\ Len(pending) \in Nat /\ Len(buffer) \in Nat /\ Len(out) \in Nat
         /\ Len(held) \in Nat /\ Len(input) \in Nat /\ Len(todo) \in Nat
  BY Typed, LenProperties

LEMMA Places ==
  ASSUME DInv
  PROVE  AtBuffer \in Nat /\ AtOut \in Nat /\ AtHeld \in Nat /\ AtInput \in Nat /\ AtTodo \in Nat
<1>1. AtBuffer \in Nat
  BY Typed, Lengths DEF AtBuffer
<1>2. AtOut \in Nat
  BY <1>1, Lengths DEF AtOut
<1>3. AtHeld \in Nat
  BY <1>2, Lengths DEF AtHeld
<1>4. AtInput \in Nat
  BY <1>3, Lengths DEF AtInput
<1>5. AtTodo \in Nat
  BY <1>4, Lengths DEF AtTodo
<1> QED
  BY <1>1, <1>2, <1>3, <1>4, <1>5

LEMMA StreamStarts ==
  ASSUME DInv
  PROVE  1 <= StreamLen /\ Start <= Given /\ Given <= StreamLen
<1> DEFINE q == row * Columns + column
<1>1. q \in Nat
  <2>1. row * Columns \in Nat
    BY Typed, ColumnsTyped
  <2> QED
    BY <2>1, Typed
<1>2. Given = Lead + q
  BY DEF Given
<1> HIDE DEF q
<1>3. Lead \in Nat /\ 1 <= Lead /\ Start <= Lead /\ Start \in Nat
  BY ColumnsTyped DEF Lead, Start
<1>4. Given \in Nat /\ Lead <= Given
  BY <1>1, <1>2, <1>3
<1> QED
  BY <1>3, <1>4 DEF StreamLen

(* What is to be written changes only with the table and with its stage. *)
LEMMA TableUnmoved ==
  ASSUME UNCHANGED table
  PROVE  /\ row' = row /\ column' = column /\ column_types' = column_types /\ options' = options
         /\ Binary' = Binary /\ Compress' = Compress
         /\ Lead' = Lead /\ Start' = Start /\ Given' = Given /\ Base' = Base
         /\ Plain' = Plain /\ Stream' = Stream
<1>1. UNCHANGED <<row, column, column_types, options>>
  BY DEF table
<1>2. UNCHANGED <<Binary, Compress, Truncate, Older>>
  BY <1>1 DEF Binary, Compress, Truncate, Older
<1>3. UNCHANGED <<Lead, Start, OldFile>>
  BY <1>2 DEF Lead, Start, OldFile
<1>4. UNCHANGED <<Base, Plain, Given>>
  BY <1>1, <1>2, <1>3 DEF Base, Plain, Given
<1>5. Stream' = Stream
  BY <1>2, <1>3, <1>4 DEF Stream, Wrapped
<1> QED
  BY <1>1, <1>2, <1>3, <1>4, <1>5

LEMMA Unmoved ==
  ASSUME UNCHANGED table, Rewriting' <=> Rewriting, Ended' <=> Ended
  PROVE  /\ Start' = Start /\ Plain' = Plain /\ Stream' = Stream /\ StreamLen' = StreamLen
         /\ Target' = Target /\ TargetLen' = TargetLen
         /\ Ground' = Ground /\ GroundLen' = GroundLen /\ Binary' = Binary
         /\ Compress' = Compress
         /\ row' = row /\ column' = column /\ column_types' = column_types /\ options' = options
<1>1. /\ row' = row /\ column' = column /\ column_types' = column_types /\ options' = options
      /\ Binary' = Binary /\ Compress' = Compress
      /\ Start' = Start /\ Given' = Given /\ Base' = Base /\ Plain' = Plain /\ Stream' = Stream
  BY TableUnmoved
<1>2. StreamLen' = StreamLen
  BY <1>1 DEF StreamLen
<1>3. UNCHANGED <<Target, TargetLen, Ground, GroundLen>>
  BY <1>1, <1>2 DEF Target, TargetLen, Ground, GroundLen
<1> QED
  BY <1>1, <1>2, <1>3

-----------------------------------------------------------------------------
(* The steps. *)

(* What the steps of the loops, which leave the table and its stage, do not *)
(* change.                                                                  *)
LEMMA LoopUnmoved ==
  ASSUME UNCHANGED <<table, pc>>
  PROVE  /\ Start' = Start /\ Plain' = Plain /\ Stream' = Stream /\ StreamLen' = StreamLen
         /\ Target' = Target /\ TargetLen' = TargetLen
         /\ Ground' = Ground /\ GroundLen' = GroundLen /\ Binary' = Binary
         /\ Compress' = Compress
         /\ row' = row /\ column' = column /\ column_types' = column_types
         /\ options' = options /\ pc' = pc
<1>1. UNCHANGED <<row, column, column_types, options, pc>>
  BY DEF table
<1>2. (Rewriting' <=> Rewriting) /\ (Ended' <=> Ended)
  BY <1>1 DEF Rewriting, Ended, Binary, Compress
<1> QED
  BY <1>1, <1>2, Unmoved

LEMMA KernelWriteStep ==
  ASSUME DInv, NEW n \in 1..Len(pending), KernelWrite(n), pc \notin {"new", "crashed"}
  PROVE  DInv'
<1> DEFINE L == IF Len(file) < offset + n THEN offset + n ELSE Len(file)
           new == [i \in 1..L |-> IF i \in (offset + 1)..(offset + n) THEN pending[i - offset] ELSE file[i]]
<1>1. /\ file' = new /\ offset' = offset + n
      /\ pending' = SubSeq(pending, n + 1, Len(pending))
      /\ out' = out /\ todo' = todo /\ buffer' = buffer /\ input' = input
      /\ packing' = packing /\ held' = held
      /\ UNCHANGED <<table, pc>>
  BY DEF KernelWrite
<1>2. Flow /\ Filed /\ Staged /\ Kept
  BY DEF DInv
<1>13. /\ Start' = Start /\ Plain' = Plain /\ Target' = Target /\ TargetLen' = TargetLen
       /\ Ground' = Ground /\ GroundLen' = GroundLen /\ Binary' = Binary /\ Compress' = Compress
       /\ row' = row /\ column' = column /\ column_types' = column_types
       /\ options' = options /\ pc' = pc
  BY <1>1, LoopUnmoved
<1>3. /\ InPlace(Target, pending', offset + n) /\ pending' \in Seq(Cells)
      /\ Len(pending') = Len(pending) - n /\ Len(pending) \in Nat /\ n \in Nat
  BY <1>1, <1>2, Typed, InPlaceSplit DEF Flow
<1>16. offset \in Nat /\ Len(file) \in Nat /\ offset <= Len(file) /\ n <= Len(pending)
  BY Typed, LenProperties
<1>4. /\ AtBuffer' = AtBuffer /\ AtOut' = AtOut /\ AtHeld' = AtHeld
      /\ AtInput' = AtInput /\ AtTodo' = AtTodo
  <2>1. (offset + n) + (Len(pending) - n) = offset + Len(pending)
    BY <1>3, <1>16
  <2>2. AtBuffer' = AtBuffer
    BY <1>1, <1>3, <2>1 DEF AtBuffer
  <2> QED
    BY <1>1, <2>2 DEF AtOut, AtHeld, AtInput, AtTodo
<1>5. Flow'
  BY <1>1, <1>2, <1>3, <1>4, <1>13 DEF Flow
<1>6. L \in Nat /\ Len(file) \in Nat /\ L >= Len(file) /\ L >= offset + n
      /\ \A i \in 1..L : i \in 1..Len(file) \/ i - offset \in 1..n
  BY <1>3, <1>16
<1>11. \A i \in 1..L : new[i] = IF i \in (offset + 1)..(offset + n) THEN pending[i - offset] ELSE file[i]
  OBVIOUS
<1>12. new \in [1..L -> Cells]
  <2>1. ASSUME NEW i \in 1..L
        PROVE  (IF i \in (offset + 1)..(offset + n) THEN pending[i - offset] ELSE file[i]) \in Cells
    <3>1. i \in (offset + 1)..(offset + n) => i - offset \in 1..Len(pending)
      BY <1>3, <1>16
    <3>2. i \notin (offset + 1)..(offset + n) => i \in 1..Len(file)
      BY <1>3, <1>6, <1>16
    <3> QED
      BY <3>1, <3>2, Typed, ElementOfSeq
  <2> QED
    BY <2>1
<1> HIDE DEF new, L
<1>7. file' \in Seq(Cells) /\ Len(file') = L
  BY <1>1, <1>6, <1>12, SeqOfFunction
<1>8. Filed'
  <2>1. Len(file') = Larger(offset', GroundLen')
    <3>1. Len(file) = Larger(offset, GroundLen) /\ GroundLen \in Nat
      BY <1>2, Counted DEF Filed
    <3>2. L = Larger(offset + n, GroundLen)
      BY <1>3, <1>6, <3>1, Typed DEF L, Larger
    <3> QED
      BY <1>1, <1>7, <1>13, <3>2
  <2>2. ASSUME NEW i \in 1..L
        PROVE  new[i] = IF i <= offset + n THEN Target[i] ELSE Ground[i]
    <3>1. CASE i \in (offset + 1)..(offset + n)
      <4>1. i - offset \in 1..Len(pending) /\ offset + (i - offset) = i
        BY <1>3, <1>16, <3>1
      <4>2. pending[i - offset] = Target[i]
        BY <1>2, <4>1 DEF Flow, InPlace
      <4>3. i <= offset + n
        BY <1>3, <1>16, <3>1
      <4> QED
        BY <1>11, <3>1, <4>2, <4>3
    <3>2. CASE i \notin (offset + 1)..(offset + n)
      <4>1. i \in 1..Len(file) /\ (i <= offset <=> i <= offset + n)
        BY <1>3, <1>6, <1>16, <3>2
      <4>2. file[i] = IF i <= offset THEN Target[i] ELSE Ground[i]
        BY <1>2, <4>1 DEF Filed
      <4> QED
        BY <1>11, <3>2, <4>1, <4>2
    <3> QED
      BY <3>1, <3>2
  <2> QED
    BY <1>1, <1>7, <2>1, <2>2, <1>13 DEF Filed
<1>14. pending # <<>>
  BY <1>3
<1>9. Staged'
  BY <1>1, <1>2, <1>13, <1>14 DEF Staged
<1>15. Kept'
  BY <1>1, <1>2, <1>3, <1>4, <1>13, Typed, ColumnsTyped DEF Kept
<1>10. offset' \in 0..Len(file')
  <2>1. offset + n \in 0..L
    BY <1>3, <1>6, <1>16
  <2> QED
    BY <1>1, <1>7, <2>1
<1> QED
  BY <1>1, <1>3, <1>5, <1>7, <1>8, <1>9, <1>10, <1>13, <1>15 DEF DInv, TypeOK, Measured

(* A step that leaves the file and its position. *)
LEMMA FiledSame ==
  ASSUME Filed, file' = file, offset' = offset,
         Target' = Target, Ground' = Ground, GroundLen' = GroundLen
  PROVE  Filed'
  BY DEF Filed, Larger

LEMMA Rebuilt ==
  ASSUME DInv, file' = file, offset' = offset, options' = options,
         Measured', row' \in 0..MaxRows, column' \in 0..(Columns - 1),
         pending' \in Seq(Cells), out' \in Seq(Cells), todo' \in Seq(Cells),
         buffer' \in Seq(Cells), input' \in Seq(Cells), held' \in Seq(Cells),
         Len(buffer') < Capacity, Len(input') <= InputSize, packing' \in BOOLEAN,
         pc' \in Stages \ {"new", "crashed"}, Flow', Filed', Staged', Kept'
  PROVE  DInv'
  BY DEF DInv, TypeOK

LEMMA LoopRebuilt ==
  ASSUME DInv, pc \notin {"new", "crashed"}, UNCHANGED <<file, offset, table, pc>>,
         pending' \in Seq(Cells), out' \in Seq(Cells), todo' \in Seq(Cells),
         buffer' \in Seq(Cells), input' \in Seq(Cells), held' \in Seq(Cells),
         Len(buffer') < Capacity, Len(input') <= InputSize, packing' \in BOOLEAN,
         Flow', Staged', Kept'
  PROVE  DInv'
<1>1. /\ Target' = Target /\ Ground' = Ground /\ GroundLen' = GroundLen
      /\ row' = row /\ column' = column /\ column_types' = column_types
      /\ options' = options /\ pc' = pc /\ file' = file /\ offset' = offset
  BY LoopUnmoved
<1>2. Filed'
  BY <1>1, FiledSame DEF DInv
<1>3. Measured' /\ row' \in 0..MaxRows /\ column' \in 0..(Columns - 1) /\ pc' \in Stages
  BY <1>1 DEF DInv, TypeOK, Measured
<1> QED
  BY <1>1, <1>2, <1>3, Rebuilt

LEMMA BufferCopyStep ==
  ASSUME DInv, BufferCopy, pc \notin {"new", "crashed"}
  PROVE  DInv'
<1> DEFINE room == Capacity - Len(buffer)
           n == IF Len(out) < room THEN Len(out) ELSE room
           first == SubSeq(out, 1, n)
           rest  == SubSeq(out, n + 1, Len(out))
           filled == buffer \o first
<1>1. /\ pending = <<>> /\ out # <<>> /\ out' = rest
      /\ IF Full(filled) THEN pending' = filled /\ buffer' = <<>>
                         ELSE pending' = pending /\ buffer' = filled
      /\ file' = file /\ offset' = offset
      /\ todo' = todo /\ input' = input /\ packing' = packing /\ held' = held
      /\ UNCHANGED <<table, pc>>
  BY DEF BufferCopy
<1>2. Flow /\ Staged /\ Kept
  BY DEF DInv
<1>3. /\ Start' = Start /\ Plain' = Plain /\ Target' = Target /\ TargetLen' = TargetLen
      /\ Binary' = Binary /\ Compress' = Compress /\ row' = row /\ column' = column /\ pc' = pc
  BY <1>1, LoopUnmoved
<1>4. /\ Len(buffer) \in Nat /\ Len(buffer) < Capacity /\ Len(out) \in Nat
      /\ room \in Nat /\ n \in 0..Len(out) /\ n <= room
  BY Typed, ColumnsTyped DEF DInv, TypeOK
<1> HIDE DEF n
<1>5. AtBuffer = offset /\ AtOut = offset + Len(buffer) /\ AtBuffer \in Nat /\ AtOut \in Nat
  BY <1>1, <1>4, Typed, EmptySeq DEF AtBuffer, AtOut
<1>6. /\ InPlace(Target, first, AtOut) /\ InPlace(Target, rest, AtOut + n)
      /\ first \in Seq(Cells) /\ rest \in Seq(Cells) /\ Len(first) = n /\ Len(rest) = Len(out) - n
  BY <1>2, <1>4, <1>5, Typed, CellsSplit DEF Flow
<1> HIDE DEF first, rest
<1>7. InPlace(Target, filled, AtBuffer) /\ filled \in Seq(Cells) /\ Len(filled) = Len(buffer) + n
  <2>1. InPlace(Target, buffer, AtBuffer) /\ InPlace(Target, first, AtBuffer + Len(buffer))
    BY <1>2, <1>5, <1>6 DEF Flow
  <2> QED
    BY <1>5, <1>6, <2>1, Typed, CellsConcat
<1> HIDE DEF filled
<1>8. /\ pending' \in Seq(Cells) /\ buffer' \in Seq(Cells) /\ Len(buffer') < Capacity
      /\ InPlace(Target, pending', offset) /\ InPlace(Target, buffer', AtBuffer')
      /\ AtOut' = AtOut + n
  <2>1. CASE Full(filled)
    <3>1. pending' = filled /\ buffer' = <<>>
      BY <1>1, <2>1
    <3>2. AtOut' = offset + Len(filled) + 0
      BY <1>1, <1>4, <1>7, <3>1, Typed, EmptySeq DEF AtOut, AtBuffer
    <3>3. AtOut' = AtOut + n
      BY <1>4, <1>5, <1>7, <3>2, Typed
    <3>4. Len(buffer') = 0 /\ buffer' \in Seq(Cells) /\ InPlace(Target, buffer', AtBuffer')
      BY <3>1, EmptySeq, InPlaceEmpty
    <3> QED
      BY <1>5, <1>7, <3>1, <3>3, <3>4, ColumnsTyped
  <2>2. CASE ~Full(filled)
    <3>1. pending' = <<>> /\ buffer' = filled
      BY <1>1, <2>2
    <3>6. AtBuffer' = offset
      <4>1. Len(pending') = 0
        BY <3>1, EmptySeq
      <4> QED
        BY <1>1, <4>1, Typed DEF AtBuffer
    <3>2. AtBuffer' = offset /\ AtOut' = offset + Len(filled)
      BY <3>1, <3>6 DEF AtOut
    <3>3. AtOut' = AtOut + n
      BY <1>4, <1>5, <1>7, <3>2, Typed
    <3>4. Len(filled) < Capacity
      BY <1>4, <1>7, <2>2, ColumnsTyped DEF Full
    <3>5. pending' \in Seq(Cells) /\ InPlace(Target, pending', offset)
      BY <3>1, EmptySeq, InPlaceEmpty
    <3> QED
      BY <1>5, <1>7, <3>1, <3>2, <3>3, <3>4, <3>5
  <2> QED
    BY <2>1, <2>2
<1>9. AtHeld' = AtHeld /\ AtInput' = AtInput /\ AtTodo' = AtTodo
  BY <1>1, <1>4, <1>5, <1>6, <1>8, Typed DEF AtHeld, AtInput, AtTodo
<1>10. Flow'
  BY <1>1, <1>2, <1>3, <1>6, <1>8, <1>9 DEF Flow
<1>11. Staged'
  BY <1>1, <1>2, <1>3 DEF Staged
<1>12. AtBuffer' \in Nat /\ AtBuffer' >= offset
  <2>1. Len(pending') \in Nat /\ offset \in Nat
    BY <1>8, Typed, LenProperties
  <2> QED
    BY <1>1, <2>1 DEF AtBuffer
<1>13. Kept'
  <2>1. Binary /\ pc \in {"ready", "ending", "draining", "seeking"} => offset >= HeaderSize
    BY <1>2, <1>5 DEF Kept
  <2> QED
    BY <1>1, <1>3, <1>12, <2>1, Typed, ColumnsTyped DEF Kept
<1>14. out' \in Seq(Cells) /\ todo' \in Seq(Cells) /\ input' \in Seq(Cells) /\ held' \in Seq(Cells)
  BY <1>1, <1>6, Typed
<1>15. Len(input') <= InputSize /\ packing' \in BOOLEAN
  BY <1>1 DEF DInv, TypeOK
<1> QED
  BY <1>1, <1>8, <1>10, <1>11, <1>13, <1>14, <1>15, LoopRebuilt

LEMMA ZstdCopyStep ==
  ASSUME DInv, ZstdCopy, pc \notin {"new", "crashed"}
  PROVE  DInv'
<1> DEFINE room == InputSize - Len(input)
           n == IF Len(todo) < room THEN Len(todo) ELSE room
           first == SubSeq(todo, 1, n)
           rest  == SubSeq(todo, n + 1, Len(todo))
<1>1. /\ pending = <<>> /\ out = <<>> /\ ~packing /\ todo # <<>>
      /\ todo' = rest /\ input' = input \o first /\ packing' = (Len(input') = InputSize)
      /\ file' = file /\ offset' = offset
      /\ pending' = pending /\ out' = out /\ buffer' = buffer /\ held' = held
      /\ UNCHANGED <<table, pc>>
  BY DEF ZstdCopy
<1>2. Flow /\ Staged /\ Kept
  BY DEF DInv
<1>3. /\ Start' = Start /\ Plain' = Plain /\ Target' = Target /\ TargetLen' = TargetLen
      /\ Binary' = Binary /\ Compress' = Compress /\ row' = row /\ column' = column /\ pc' = pc
  BY <1>1, LoopUnmoved
<1>4. /\ Len(input) \in Nat /\ Len(input) <= InputSize /\ Len(todo) \in Nat
      /\ n \in 0..Len(todo) /\ Len(input) + n <= InputSize
  BY Typed, ColumnsTyped DEF DInv, TypeOK
<1> HIDE DEF n
<1>6. /\ InPlace(Plain, first, AtTodo) /\ InPlace(Plain, rest, AtTodo + n)
      /\ first \in Seq(Cells) /\ rest \in Seq(Cells) /\ Len(first) = n /\ Len(rest) = Len(todo) - n
  BY <1>2, <1>4, Places, Typed, CellsSplit DEF Flow
<1> HIDE DEF first, rest
<1>7. InPlace(Plain, input', AtInput) /\ input' \in Seq(Cells) /\ Len(input') = Len(input) + n
  <2>1. AtInput + Len(input) = AtTodo
    BY DEF AtTodo
  <2>2. InPlace(Plain, input, AtInput)
    BY <1>2 DEF Flow
  <2> QED
    BY <1>1, <1>6, <2>1, <2>2, Places, Typed, CellsConcat
<1>8. AtBuffer' = AtBuffer /\ AtOut' = AtOut /\ AtHeld' = AtHeld /\ AtInput' = AtInput
  BY <1>1 DEF AtBuffer, AtOut, AtHeld, AtInput
<1>5. AtTodo' = AtTodo + n
  BY <1>4, <1>7, <1>8, Places DEF AtTodo
<1>9. AtTodo' + Len(todo') = AtTodo + Len(todo)
  BY <1>1, <1>4, <1>5, <1>6, Places
<1>10. Flow'
  BY <1>1, <1>2, <1>3, <1>5, <1>6, <1>7, <1>8, <1>9 DEF Flow
<1>11. pc = "ready" /\ Compress
  BY <1>1, <1>2 DEF Staged, DInv, Stages
<1>12. packing' => input' # <<>>
  BY <1>1, <1>7, ColumnsTyped, EmptySeq
<1>13. Staged'
  BY <1>3, <1>11, <1>12 DEF Staged
<1>14. Kept'
  BY <1>1, <1>2, <1>3, <1>8 DEF Kept
<1>15. Len(input') <= InputSize /\ packing' \in BOOLEAN /\ Len(buffer') < Capacity
  BY <1>1, <1>4, <1>7 DEF DInv, TypeOK
<1> QED
  BY <1>1, <1>6, <1>7, <1>10, <1>13, <1>14, <1>15, Typed, LoopRebuilt

(* What is compressed has its place in the stream. *)
LEMMA PackedInPlace ==
  ASSUME DInv, Compress, NEW k \in Nat, k >= Start,
         NEW s \in Seq(Cells), InPlace(Plain, s, k), k + Len(s) <= Given
  PROVE  InPlace(Stream, Packed(s), k) /\ Packed(s) \in Seq(Cells) /\ Len(Packed(s)) = Len(s)
<1>1. Packed(s) \in Seq(Cells) /\ Len(Packed(s)) = Len(s) /\ Len(s) \in Nat
  BY PackedTyped, LenProperties
<1>2. ASSUME NEW i \in 1..Len(s)
      PROVE  Packed(s)[i] = Stream[k + i]
  <2>1. k + i \in Nat \ {0} /\ ~(k + i <= Start) /\ k + i <= Given
    BY <1>1, Counted
  <2>2. Packed(s)[i] = [s[i] EXCEPT !.packed = TRUE]
    BY PackedTyped
  <2>3. s[i] = Plain[k + i]
    BY DEF InPlace
  <2>4. Stream[k + i] = Wrapped(Plain[k + i])
    BY <2>1 DEF Stream
  <2> QED
    BY <2>2, <2>3, <2>4 DEF Wrapped
<1> QED
  BY <1>1, <1>2 DEF InPlace

LEMMA ZstdCompressStep ==
  ASSUME DInv, NEW n \in Nat, NEW m \in Nat, ZstdCompress(n, m), pc \notin {"new", "crashed"}
  PROVE  DInv'
<1> DEFINE taken == SubSeq(input, 1, n)
           rest  == SubSeq(input, n + 1, Len(input))
           given == held \o taken
           first == SubSeq(given, 1, m)
<1>1. /\ pending = <<>> /\ out = <<>> /\ packing
      /\ n \in 0..Len(input) /\ m \in 0..Len(given)
      /\ out' = Packed(first) /\ held' = SubSeq(given, m + 1, Len(given))
      /\ input' = rest /\ packing' = (input' # <<>>)
      /\ file' = file /\ offset' = offset
      /\ pending' = pending /\ todo' = todo /\ buffer' = buffer
      /\ UNCHANGED <<table, pc>>
  BY DEF ZstdCompress
<1>2. Flow /\ Staged /\ Kept
  BY DEF DInv
<1>3. /\ Plain' = Plain /\ Target' = Target /\ TargetLen' = TargetLen
      /\ Binary' = Binary /\ Compress' = Compress /\ row' = row /\ column' = column /\ pc' = pc
  BY <1>1, LoopUnmoved
<1>4. Len(pending) = 0 /\ Len(out) = 0
  BY <1>1, EmptySeq
<1>5. AtBuffer = offset /\ AtHeld = AtOut
  BY <1>4, Typed, Places DEF AtBuffer, AtHeld
<1>6. pc \in {"ready", "ending"} /\ Compress
  BY <1>1, <1>2, EmptySeq DEF Staged, DInv, Stages
<1>7. Target = Stream /\ TargetLen = Given
  BY <1>6, Counted DEF Target, TargetLen, Rewriting, StreamLen, Ended
<1>8. AtHeld >= Start
  <2>1. Binary => AtBuffer >= HeaderSize
    BY <1>2, <1>6 DEF Kept
  <2>2. AtOut >= AtBuffer
    BY Places, Lengths DEF AtOut
  <2> QED
    BY <1>5, <2>1, <2>2, Places, ColumnsTyped DEF Start
<1>9. /\ taken \in Seq(Cells) /\ rest \in Seq(Cells) /\ Len(taken) = n /\ Len(rest) = Len(input) - n
      /\ InPlace(Plain, taken, AtInput) /\ InPlace(Plain, rest, AtInput + n)
  <2>1. InPlace(Plain, input, AtInput)
    BY <1>2 DEF Flow
  <2> QED
    BY <1>1, <2>1, Places, Typed, CellsSplit
<1> HIDE DEF taken, rest
<1>10. given \in Seq(Cells) /\ Len(given) = Len(held) + n /\ InPlace(Plain, given, AtHeld)
  <2>1. InPlace(Plain, held, AtHeld) /\ InPlace(Plain, taken, AtHeld + Len(held))
    BY <1>2, <1>9 DEF Flow, AtInput
  <2> QED
    BY <1>9, <2>1, Places, Typed, CellsConcat
<1> HIDE DEF given
<1>11. /\ first \in Seq(Cells) /\ Len(first) = m /\ InPlace(Plain, first, AtHeld)
       /\ held' \in Seq(Cells) /\ Len(held') = Len(given) - m
       /\ InPlace(Plain, held', AtHeld + m)
  <2>1. AtHeld \in Nat /\ m \in 0..Len(given)
    BY <1>1, Places
  <2>2. held' = SubSeq(given, m + 1, Len(given))
    BY <1>1
  <2> QED
    BY <1>10, <2>1, <2>2, CellsSplit
<1> HIDE DEF first
<1>12. out' \in Seq(Cells) /\ Len(out') = m /\ InPlace(Target, out', AtOut)
  <2>1. AtTodo + Len(todo) = Given
    BY <1>2, <1>7 DEF Flow
  <2>2. AtHeld + Len(first) <= Given
    <3>1. n <= Len(input) /\ m <= Len(held) + n
      BY <1>1, <1>10, Lengths
    <3>7. /\ AtHeld \in Nat /\ Len(held) \in Nat
          /\ AtInput \in Nat /\ Len(input) \in Nat /\ Given \in Nat
      BY Places, Lengths, Counted
    <3>2. AtTodo <= Given
      BY <2>1, Places, Lengths
    <3>3. AtInput + Len(input) <= Given
      BY <3>2 DEF AtTodo
    <3>4. AtInput + n <= Given
      BY <3>1, <3>3, <3>7
    <3>5. (AtHeld + Len(held)) + n <= Given
      BY <3>4 DEF AtInput
    <3>6. AtHeld + m <= Given
      BY <3>1, <3>5, <3>7
    <3> QED
      BY <1>11, <3>6
  <2>3. InPlace(Target, Packed(first), AtHeld) /\ Packed(first) \in Seq(Cells) /\ Len(Packed(first)) = Len(first)
    BY <1>6, <1>7, <1>8, <1>11, <2>2, Places, PackedInPlace
  <2> QED
    BY <1>1, <1>5, <1>11, <2>3
<1>13. AtBuffer' = AtBuffer /\ AtOut' = AtOut
  BY <1>1 DEF AtBuffer, AtOut
<1>14. AtHeld' = AtHeld + m
  BY <1>5, <1>12, <1>13 DEF AtHeld
<1>15. AtInput' = AtInput + n
  <2>1. AtInput' = (AtHeld + m) + ((Len(held) + n) - m)
    BY <1>10, <1>11, <1>14 DEF AtInput
  <2>2. (AtHeld + m) + ((Len(held) + n) - m) = (AtHeld + Len(held)) + n
    BY Places, Lengths
  <2> QED
    BY <2>1, <2>2 DEF AtInput
<1>16. AtTodo' = AtTodo
  <2>1. AtTodo' = (AtInput + n) + (Len(input) - n)
    BY <1>1, <1>9, <1>15 DEF AtTodo
  <2>2. (AtInput + n) + (Len(input) - n) = AtInput + Len(input)
    BY Places, Lengths
  <2> QED
    BY <2>1, <2>2 DEF AtTodo
<1>17. Flow'
  BY <1>1, <1>2, <1>3, <1>9, <1>11, <1>12, <1>13, <1>14, <1>15, <1>16 DEF Flow
<1>18. Staged'
  BY <1>1, <1>2, <1>3, <1>6 DEF Staged
<1>19. Kept'
  <2>1. Binary => offset >= HeaderSize
    BY <1>2, <1>5, <1>6 DEF Kept
  <2> QED
    BY <1>1, <1>3, <1>5, <1>13, <2>1 DEF Kept
<1>20. Len(input') <= InputSize /\ packing' \in BOOLEAN /\ Len(buffer') < Capacity
  <2>1. Len(input) - n <= InputSize
    BY Lengths, ColumnsTyped DEF DInv, TypeOK
  <2> QED
    BY <1>1, <1>9, <2>1 DEF DInv, TypeOK
<1>21. input' \in Seq(Cells)
  BY <1>1, <1>9
<1> QED
  BY <1>1, <1>11, <1>12, <1>17, <1>18, <1>19, <1>20, <1>21, Typed, LoopRebuilt

(* A step of the table from one stage to the next. *)
LEMMA StageRebuilt ==
  ASSUME DInv, pc \notin {"new", "crashed"}, UNCHANGED <<file, offset, table>>,
         Rewriting' <=> Rewriting, Ended' <=> Ended, pc' \in Stages \ {"new", "crashed"},
         pending' \in Seq(Cells), out' \in Seq(Cells), todo' \in Seq(Cells),
         buffer' \in Seq(Cells), input' \in Seq(Cells), held' \in Seq(Cells),
         Len(buffer') < Capacity, Len(input') <= InputSize, packing' \in BOOLEAN,
         Flow', Staged', Kept'
  PROVE  DInv'
<1>1. /\ Target' = Target /\ Ground' = Ground /\ GroundLen' = GroundLen
      /\ row' = row /\ column' = column /\ column_types' = column_types
      /\ options' = options /\ file' = file /\ offset' = offset
  BY Unmoved
<1>2. Filed'
  BY <1>1, FiledSame DEF DInv
<1>3. Measured' /\ row' \in 0..MaxRows /\ column' \in 0..(Columns - 1)
  BY <1>1 DEF DInv, TypeOK, Measured
<1> QED
  BY <1>1, <1>2, <1>3, Rebuilt

LEMMA Sizes ==
  ASSUME DInv
  PROVE  Len(buffer) < Capacity /\ Len(input) <= InputSize /\ packing \in BOOLEAN
  BY DEF DInv, TypeOK

(* BufferStream::flush, between two writes. *)
LEMMA FlushFlow ==
  ASSUME DInv, pc \notin {"new", "crashed"}, Idle, FlushBuffer,
         offset' = offset, out' = out, todo' = todo, input' = input, held' = held,
         Plain' = Plain, Target' = Target, TargetLen' = TargetLen
  PROVE  /\ Flow' /\ AtBuffer' = AtOut /\ AtOut' = AtOut /\ AtBuffer = offset
         /\ pending' \in Seq(Cells) /\ buffer' \in Seq(Cells) /\ buffer' = <<>> /\ Len(buffer') < Capacity
<1>1. pending = <<>> /\ pending' = buffer /\ buffer' = <<>>
  BY DEF Idle, FlushBuffer
<1>2. AtBuffer = offset
  BY <1>1, Typed, EmptySeq DEF AtBuffer
<1>3. AtBuffer' = AtOut
  BY <1>1, <1>2 DEF AtBuffer, AtOut
<1>4. AtOut' = AtOut
  BY <1>1, <1>3, Places, EmptySeq DEF AtOut
<1>5. AtHeld' = AtHeld /\ AtInput' = AtInput /\ AtTodo' = AtTodo
  BY <1>4 DEF AtHeld, AtInput, AtTodo
<1>6. Flow
  BY DEF DInv
<1>7. InPlace(Target, pending', offset) /\ InPlace(Target, buffer', AtBuffer')
  BY <1>1, <1>2, <1>6, InPlaceEmpty DEF Flow
<1>8. Flow'
  BY <1>4, <1>5, <1>6, <1>7 DEF Flow
<1>9. Len(buffer') < Capacity
  BY <1>1, EmptySeq, ColumnsTyped
<1> QED
  BY <1>1, <1>2, <1>3, <1>4, <1>8, <1>9, Typed, EmptySeq

LEMMA PlacedStep ==
  ASSUME DInv, Placed
  PROVE  DInv'
<1>1. /\ pc = "placing" /\ pc' = "ready" /\ Idle /\ FlushBuffer
      /\ file' = file /\ offset' = offset /\ out' = out /\ todo' = todo
      /\ input' = input /\ packing' = packing /\ held' = held /\ UNCHANGED table
  BY DEF Placed
<1>2. (Rewriting' <=> Rewriting) /\ (Ended' <=> Ended)
  BY <1>1 DEF Rewriting, Ended
<1>3. /\ Plain' = Plain /\ Target' = Target /\ TargetLen' = TargetLen
      /\ Binary' = Binary /\ Compress' = Compress /\ row' = row /\ column' = column
  BY <1>1, <1>2, Unmoved
<1>4. Flow /\ Staged
  BY <1>1 DEF DInv
<1>5. /\ Flow' /\ AtBuffer' = AtOut
      /\ pending' \in Seq(Cells) /\ buffer' \in Seq(Cells) /\ buffer' = <<>> /\ Len(buffer') < Capacity
  BY <1>1, <1>3, FlushFlow
<1>6. Staged'
  BY <1>1, <1>3, <1>4 DEF Staged
<1>7. /\ out = <<>> /\ held = <<>> /\ input = <<>> /\ todo = <<>>
      /\ Binary /\ row = 0 /\ column = 0
  BY <1>1, <1>4 DEF Staged, Idle
<1>8. AtOut = HeaderSize
  <2>1. AtTodo + Len(todo) = AtOut
    BY <1>7, Places, EmptySeq DEF AtHeld, AtInput, AtTodo
  <2>2. TargetLen = HeaderSize
    BY <1>1, <1>7, ColumnsTyped DEF TargetLen, Rewriting, StreamLen, Given, Lead, Ended
  <2> QED
    BY <1>4, <2>1, <2>2 DEF Flow
<1>9. Kept'
  BY <1>1, <1>3, <1>5, <1>7, <1>8, ColumnsTyped DEF Kept
<1> QED
  BY <1>1, <1>2, <1>5, <1>6, <1>9, Typed, Sizes, StageRebuilt DEF Stages

LEMMA DrainStep ==
  ASSUME DInv, Drain
  PROVE  DInv'
<1>1. /\ pc = "draining" /\ pc' = "seeking" /\ Idle /\ FlushBuffer
      /\ file' = file /\ offset' = offset /\ out' = out /\ todo' = todo
      /\ input' = input /\ packing' = packing /\ held' = held /\ UNCHANGED table
  BY DEF Drain
<1>2. (Rewriting' <=> Rewriting) /\ (Ended' <=> Ended)
  <2>1. Compress' <=> Compress
    BY <1>1 DEF table, Compress
  <2> QED
    BY <1>1, <2>1 DEF Rewriting, Ended
<1>3. /\ Plain' = Plain /\ Target' = Target /\ TargetLen' = TargetLen
      /\ Binary' = Binary /\ Compress' = Compress /\ row' = row /\ column' = column
  BY <1>1, <1>2, Unmoved
<1>4. Staged /\ Kept
  BY <1>1 DEF DInv
<1>5. /\ Flow' /\ AtBuffer' = AtOut /\ AtBuffer = offset
      /\ pending' \in Seq(Cells) /\ buffer' \in Seq(Cells) /\ buffer' = <<>> /\ Len(buffer') < Capacity
  BY <1>1, <1>3, FlushFlow
<1>6. Staged'
  BY <1>1, <1>3, <1>4, <1>5 DEF Staged, Idle
<1>7. Kept'
  <2>1. AtOut >= AtBuffer
    BY Places, Lengths DEF AtOut
  <2>2. Binary => offset >= HeaderSize
    BY <1>1, <1>4, <1>5 DEF Kept
  <2> QED
    BY <1>1, <1>3, <1>5, <2>1, <2>2, Places, ColumnsTyped DEF Kept
<1> QED
  BY <1>1, <1>2, <1>5, <1>6, <1>7, Typed, Sizes, StageRebuilt DEF Stages

LEMMA LastFlushStep ==
  ASSUME DInv, LastFlush
  PROVE  DInv'
<1>1. /\ pc = "flushing" /\ pc' = "closing" /\ Idle /\ FlushBuffer
      /\ file' = file /\ offset' = offset /\ out' = out /\ todo' = todo
      /\ input' = input /\ packing' = packing /\ held' = held /\ UNCHANGED table
  BY DEF LastFlush
<1>2. (Rewriting' <=> Rewriting) /\ (Ended' <=> Ended)
  <2>1. (Compress' <=> Compress) /\ (Binary' <=> Binary)
    BY <1>1 DEF table, Compress, Binary
  <2> QED
    BY <1>1, <2>1 DEF Rewriting, Ended
<1>3. /\ Plain' = Plain /\ Target' = Target /\ TargetLen' = TargetLen
      /\ Binary' = Binary /\ Compress' = Compress /\ row' = row /\ column' = column
  BY <1>1, <1>2, Unmoved
<1>4. Staged
  BY <1>1 DEF DInv
<1>5. /\ Flow'
      /\ pending' \in Seq(Cells) /\ buffer' \in Seq(Cells) /\ buffer' = <<>> /\ Len(buffer') < Capacity
  BY <1>1, <1>3, FlushFlow
<1>6. Staged'
  BY <1>1, <1>3, <1>4, <1>5 DEF Staged, Idle
<1>7. Kept'
  BY <1>1 DEF Kept
<1> QED
  BY <1>1, <1>2, <1>5, <1>6, <1>7, Typed, Sizes, StageRebuilt DEF Stages

(* A step that changes the stage alone, or what is being compressed. *)
LEMMA FlowSame ==
  ASSUME Flow, offset' = offset, pending' = pending, buffer' = buffer, out' = out, held' = held,
         input' = input, todo' = todo, Plain' = Plain, Target' = Target, TargetLen' = TargetLen
  PROVE  Flow' /\ AtBuffer' = AtBuffer
<1>1. /\ AtBuffer' = AtBuffer /\ AtOut' = AtOut /\ AtHeld' = AtHeld
      /\ AtInput' = AtInput /\ AtTodo' = AtTodo
  BY DEF AtBuffer, AtOut, AtHeld, AtInput, AtTodo
<1> QED
  BY <1>1 DEF Flow

LEMMA ClosedStep ==
  ASSUME DInv, Closed
  PROVE  DInv'
<1>1. /\ pc = "closing" /\ pc' = "closed" /\ Idle
      /\ file' = file /\ offset' = offset /\ pending' = pending /\ out' = out /\ todo' = todo
      /\ buffer' = buffer /\ input' = input /\ packing' = packing /\ held' = held /\ UNCHANGED table
  BY DEF Closed, layers
<1>2. (Rewriting' <=> Rewriting) /\ (Ended' <=> Ended)
  <2>1. (Compress' <=> Compress) /\ (Binary' <=> Binary)
    BY <1>1 DEF table, Compress, Binary
  <2> QED
    BY <1>1, <2>1 DEF Rewriting, Ended
<1>3. /\ Plain' = Plain /\ Target' = Target /\ TargetLen' = TargetLen
      /\ Binary' = Binary /\ Compress' = Compress /\ row' = row /\ column' = column
  BY <1>1, <1>2, Unmoved
<1>4. Flow /\ Staged
  BY <1>1 DEF DInv
<1>5. Flow'
  BY <1>1, <1>3, <1>4, FlowSame
<1>6. Staged'
  BY <1>1, <1>3, <1>4 DEF Staged, Idle
<1>7. Kept'
  BY <1>1 DEF Kept
<1> QED
  BY <1>1, <1>2, <1>5, <1>6, <1>7, Typed, Sizes, StageRebuilt DEF Stages

LEMMA CloseStep ==
  ASSUME DInv, Close
  PROVE  DInv'
<1>1. /\ pc = "ready" /\ Idle /\ column = 0
      /\ pc' = IF Compress THEN "ending" ELSE Unpacked
      /\ packing' = (Compress /\ input # <<>>)
      /\ file' = file /\ offset' = offset /\ pending' = pending /\ out' = out /\ todo' = todo
      /\ buffer' = buffer /\ input' = input /\ held' = held /\ UNCHANGED table
  BY DEF Close
<1>2. /\ Compress => pc' = "ending"
      /\ ~Compress /\ Binary => pc' = "draining"
      /\ ~Compress /\ ~Binary => pc' = "flushing"
  BY <1>1 DEF Unpacked
<1>3. (Rewriting' <=> Rewriting) /\ (Ended' <=> Ended)
  <2>1. (Compress' <=> Compress) /\ (Binary' <=> Binary)
    BY <1>1 DEF table, Compress, Binary
  <2> QED
    BY <1>1, <1>2, <2>1 DEF Rewriting, Ended
<1>4. /\ Plain' = Plain /\ Target' = Target /\ TargetLen' = TargetLen
      /\ Binary' = Binary /\ Compress' = Compress /\ row' = row /\ column' = column
  BY <1>1, <1>3, Unmoved
<1>5. Flow /\ Staged /\ Kept
  BY <1>1 DEF DInv
<1>6. Flow' /\ AtBuffer' = AtBuffer
  BY <1>1, <1>4, <1>5, FlowSame
<1>7. Staged'
  BY <1>1, <1>2, <1>4, <1>5 DEF Staged, Idle
<1>8. Kept'
  BY <1>1, <1>4, <1>5, <1>6 DEF Kept
<1>9. pc' \in Stages \ {"new", "crashed"}
  BY <1>2 DEF Stages
<1> QED
  BY <1>1, <1>3, <1>6, <1>7, <1>8, <1>9, Typed, Sizes, StageRebuilt

LEMMA EndFrameStep ==
  ASSUME DInv, EndFrame
  PROVE  DInv'
<1>1. /\ pc = "ending" /\ pc' = Unpacked /\ Idle
      /\ out' = Append(Packed(held), FrameEnd) /\ held' = <<>>
      /\ file' = file /\ offset' = offset /\ pending' = pending /\ todo' = todo
      /\ buffer' = buffer /\ input' = input /\ packing' = packing /\ UNCHANGED table
  BY DEF EndFrame
<1>2. /\ row' = row /\ column' = column /\ column_types' = column_types /\ options' = options
      /\ Binary' = Binary /\ Compress' = Compress
      /\ Given' = Given /\ Base' = Base /\ Plain' = Plain /\ Stream' = Stream
  BY <1>1, TableUnmoved
<1>3. (Binary => pc' = "draining") /\ (~Binary => pc' = "flushing")
  BY <1>1 DEF Unpacked
<1>4. Flow /\ Filed /\ Staged /\ Kept
  BY <1>1 DEF DInv
<1>5. /\ Compress /\ pending = <<>> /\ out = <<>> /\ todo = <<>> /\ input = <<>>
      /\ ~packing /\ column = 0
  BY <1>1, <1>4 DEF Staged, Idle
<1>6. ~Rewriting /\ ~Rewriting' /\ ~Ended /\ Ended'
  BY <1>1, <1>2, <1>3, <1>5 DEF Rewriting, Ended
<1>7. /\ Target = Stream /\ Target' = Stream /\ TargetLen = Given /\ TargetLen' = Given + 1
      /\ Ground' = Ground /\ GroundLen' = GroundLen
  BY <1>2, <1>6, Counted DEF Target, TargetLen, StreamLen, Ground, GroundLen
<1>8. AtBuffer = offset /\ AtBuffer' = AtBuffer /\ AtOut' = AtOut /\ AtHeld = AtOut
  BY <1>1, <1>5, Typed, Places, EmptySeq DEF AtBuffer, AtOut, AtHeld
<1>9. AtOut + Len(held) = Given
  <2>1. AtTodo = AtInput /\ AtTodo + Len(todo) = AtInput
    BY <1>5, Places, EmptySeq DEF AtTodo
  <2> QED
    BY <1>4, <1>7, <1>8, <2>1 DEF Flow, AtInput
<1>10. AtOut >= Start
  <2>1. Binary => AtBuffer >= HeaderSize
    BY <1>1, <1>4 DEF Kept
  <2>2. AtOut >= AtBuffer
    BY Places, Lengths DEF AtOut
  <2> QED
    BY <2>1, <2>2, Places, ColumnsTyped DEF Start
<1>11. /\ InPlace(Target, Packed(held), AtOut) /\ Packed(held) \in Seq(Cells)
       /\ Len(Packed(held)) = Len(held)
  <2>1. InPlace(Plain, held, AtOut)
    BY <1>4, <1>8 DEF Flow
  <2>2. AtOut + Len(held) <= Given
    BY <1>9, Counted
  <2> QED
    BY <1>5, <1>7, <1>10, <2>1, <2>2, Typed, Places, PackedInPlace
<1>12. Stream[Given + 1] = FrameEnd
  <2>1. Given + 1 \in Nat \ {0} /\ ~(Given + 1 <= Given)
    BY Counted
  <2>2. ~(Given + 1 <= Start)
    <3>1. Start <= Given /\ Start \in Nat /\ Given \in Nat
      BY StreamStarts, Counted
    <3> QED
      BY <3>1
  <2> QED
    BY <2>1, <2>2 DEF Stream
<1>13. /\ InPlace(Target', out', AtOut) /\ out' \in Seq(Cells) /\ Len(out') = Len(held) + 1
  <2>1. FrameEnd \in Cells
    BY CellTyped, ColumnsTyped DEF FrameEnd, Kinds
  <2>2. FrameEnd = Stream[AtOut + Len(Packed(held)) + 1]
    BY <1>9, <1>11, <1>12
  <2> QED
    BY <1>1, <1>7, <1>11, <2>1, <2>2, Places, InPlaceAppend
<1>14. AtHeld' = Given + 1
  BY <1>8, <1>9, <1>13, Places, Lengths DEF AtHeld
<1>15. AtInput' = Given + 1 /\ AtTodo' = Given + 1 /\ AtTodo' + Len(todo') = Given + 1
  BY <1>1, <1>5, <1>14, Counted, EmptySeq DEF AtInput, AtTodo
<1>16. Flow'
  <2>1. InPlace(Target', pending', offset') /\ InPlace(Target', buffer', AtBuffer')
    BY <1>1, <1>4, <1>7, <1>8 DEF Flow
  <2>2. /\ InPlace(Plain', held', AtHeld') /\ InPlace(Plain', input', AtInput')
        /\ InPlace(Plain', todo', AtTodo')
    BY <1>1, <1>5, InPlaceEmpty
  <2> QED
    BY <1>7, <1>8, <1>13, <1>15, <2>1, <2>2 DEF Flow
<1>17. Filed'
  BY <1>1, <1>4, <1>7, FiledSame
<1>18. Staged'
  BY <1>1, <1>2, <1>3, <1>5 DEF Staged
<1>19. Kept'
  BY <1>1, <1>2, <1>4, <1>8 DEF Kept
<1>20. Measured' /\ row' \in 0..MaxRows /\ column' \in 0..(Columns - 1)
  BY <1>2 DEF DInv, TypeOK, Measured
<1>21. pc' \in Stages \ {"new", "crashed"}
  BY <1>3 DEF Stages
<1>22. held' \in Seq(Cells)
  BY <1>1, EmptySeq
<1>23. Len(buffer') < Capacity /\ Len(input') <= InputSize /\ packing' \in BOOLEAN
  BY <1>1, Sizes
<1> QED
  BY <1>1, <1>2, <1>13, <1>16, <1>17, <1>18, <1>19, <1>20, <1>21, <1>22, <1>23, Typed, Rebuilt

(* The header is written over what is there: all that was given. *)
LEMMA WriteHeaderStep ==
  ASSUME DInv, WriteHeader
  PROVE  DInv'
<1>1. /\ pc = "seeking" /\ pc' = "flushing" /\ Idle
      /\ offset' = 0 /\ out' = Header(row, column_types)
      /\ file' = file /\ pending' = pending /\ todo' = todo /\ buffer' = buffer
      /\ input' = input /\ packing' = packing /\ held' = held /\ UNCHANGED table
  BY DEF WriteHeader
<1>2. /\ row' = row /\ column' = column /\ column_types' = column_types /\ options' = options
      /\ Binary' = Binary /\ Compress' = Compress
      /\ Given' = Given /\ Base' = Base /\ Plain' = Plain /\ Stream' = Stream
  BY <1>1, TableUnmoved
<1>3. Flow /\ Filed /\ Staged /\ Measured
  BY <1>1 DEF DInv
<1>4. /\ pending = <<>> /\ out = <<>> /\ todo = <<>> /\ buffer = <<>> /\ held = <<>> /\ input = <<>>
      /\ ~packing /\ column = 0 /\ Binary
  BY <1>1, <1>3 DEF Staged, Idle
<1>5. ~Rewriting /\ Rewriting' /\ (Ended' <=> Ended)
  BY <1>1, <1>2, <1>4 DEF Rewriting, Ended
<1>6. StreamLen' = StreamLen
  BY <1>2, <1>5 DEF StreamLen
<1>7. /\ Target = Stream /\ TargetLen = StreamLen /\ Ground = Base /\ GroundLen = Len(Base)
  BY <1>5 DEF Target, TargetLen, Ground, GroundLen
<1>8. /\ Target' = Header(row, column_types) /\ TargetLen' = HeaderSize
      /\ Ground' = [i \in Nat \ {0} |-> IF i <= StreamLen THEN Stream[i] ELSE Base[i]]
      /\ GroundLen' = Larger(StreamLen, Len(Base))
  BY <1>2, <1>5, <1>6 DEF Target, TargetLen, Ground, GroundLen, Larger
<1>9. offset = StreamLen
  <2>1. AtBuffer = offset
    BY <1>4, Typed, EmptySeq DEF AtBuffer
  <2>2. AtOut = offset
    BY <1>4, <2>1, Typed, EmptySeq DEF AtOut
  <2>3. AtHeld = offset
    BY <1>4, <2>2, Typed, EmptySeq DEF AtHeld
  <2>4. AtInput = offset
    BY <1>4, <2>3, Typed, EmptySeq DEF AtInput
  <2>5. AtTodo = offset /\ AtTodo + Len(todo) = offset
    BY <1>4, <2>4, Typed, EmptySeq DEF AtTodo
  <2> QED
    BY <1>3, <1>7, <2>5 DEF Flow
<1>10. /\ out' \in Seq(Cells) /\ Len(out') = HeaderSize
  BY <1>1, <1>3, Typed, HeaderTyped DEF Measured
<1>11. InPlace(Target', out', 0)
  <2>1. \A i \in 1..Len(out') : out'[i] = Target'[0 + i]
    BY <1>1, <1>8, <1>10
  <2> QED
    BY <2>1 DEF InPlace
<1>12. AtBuffer' = 0 /\ AtOut' = 0 /\ AtHeld' = HeaderSize
  <2>1. AtBuffer' = 0
    BY <1>1, <1>4, EmptySeq DEF AtBuffer
  <2>2. AtOut' = 0
    BY <1>1, <1>4, <2>1, EmptySeq DEF AtOut
  <2> QED
    BY <1>10, <2>1, <2>2, ColumnsTyped DEF AtHeld
<1>13. AtInput' = HeaderSize /\ AtTodo' = HeaderSize /\ AtTodo' + Len(todo') = HeaderSize
  <2>1. AtInput' = HeaderSize
    BY <1>1, <1>4, <1>12, ColumnsTyped, EmptySeq DEF AtInput
  <2>2. AtTodo' = HeaderSize
    BY <1>1, <1>4, <2>1, ColumnsTyped, EmptySeq DEF AtTodo
  <2> QED
    BY <1>1, <1>4, <2>1, <2>2, ColumnsTyped, EmptySeq
<1>14. Flow'
  <2>1. /\ InPlace(Target', pending', offset') /\ InPlace(Target', buffer', AtBuffer')
        /\ InPlace(Plain', held', AtHeld') /\ InPlace(Plain', input', AtInput')
        /\ InPlace(Plain', todo', AtTodo')
    BY <1>1, <1>4, InPlaceEmpty
  <2> QED
    BY <1>8, <1>11, <1>12, <1>13, <2>1 DEF Flow
<1>15. Filed'
  <2>1. Len(file) = Larger(StreamLen, Len(Base))
    BY <1>3, <1>7, <1>9 DEF Filed
  <2>2. Larger(StreamLen, Len(Base)) = Larger(0, Larger(StreamLen, Len(Base)))
    BY Counted DEF Larger
  <2>3. ASSUME NEW i \in 1..Len(file)
        PROVE  file[i] = IF i <= 0 THEN Target'[i] ELSE (Ground')[i]
    <3>1. file[i] = IF i <= StreamLen THEN Stream[i] ELSE Base[i]
      BY <1>3, <1>7, <1>9 DEF Filed
    <3>2. i \in Nat \ {0} /\ ~(i <= 0)
      BY Typed, LenProperties
    <3> QED
      BY <1>8, <3>1, <3>2
  <2>4. Larger(offset', GroundLen') = Larger(0, GroundLen')
    BY <1>1
  <2> QED
    BY <1>1, <1>8, <2>1, <2>2, <2>3, <2>4 DEF Filed, Larger
<1>16. Staged'
  BY <1>1, <1>2, <1>4 DEF Staged
<1>17. Kept'
  BY <1>1 DEF Kept
<1>18. Measured' /\ row' \in 0..MaxRows /\ column' \in 0..(Columns - 1)
  BY <1>2 DEF DInv, TypeOK, Measured
<1>19. offset' \in 0..Len(file')
  BY <1>1, Typed, LenProperties
<1>20. Len(buffer') < Capacity /\ Len(input') <= InputSize /\ packing' \in BOOLEAN
  BY <1>1, Sizes
<1>21. /\ file' \in Seq(Cells) /\ pending' \in Seq(Cells) /\ todo' \in Seq(Cells)
       /\ buffer' \in Seq(Cells) /\ input' \in Seq(Cells) /\ held' \in Seq(Cells)
  BY <1>1, Typed
<1>22. options' \in Options /\ pc' \in Stages /\ pc' \notin {"new", "crashed"}
  BY <1>1, <1>2 DEF DInv, Stages
<1> QED
  BY <1>10, <1>14, <1>15, <1>16, <1>17, <1>18, <1>19, <1>20, <1>21, <1>22 DEF DInv, TypeOK

(* The count of the cells goes up by one when a cell is written, also when  *)
(* the row is full.                                                         *)
LEMMA NextCell ==
  ASSUME NEW d \in Nat \ {0}, NEW r \in Nat, NEW c \in 0..(d - 1)
  PROVE  IF c + 1 = d THEN (c + 1) % d = 0 /\ (r + 1) * d + 0 = r * d + c + 1
                      ELSE (c + 1) % d = c + 1 /\ c + 1 \in 0..(d - 1)
  BY SMT

LEMMA WriteColumnStep ==
  ASSUME DInv, WriteColumn
  PROVE  DInv'
<1> DEFINE cell == Cell("cell", row + 1, column + 1)
<1>1. /\ pc = "ready" /\ pc' = "ready" /\ Idle /\ row < MaxRows
      /\ column' = (column + 1) % Columns
      /\ row' = IF column + 1 = Columns THEN row + 1 ELSE row
      /\ column_types' = IF row = 0
           THEN [column_types EXCEPT ![column + 1] = StoredSize(ColumnTypes[column + 1])]
           ELSE column_types
      /\ options' = options /\ file' = file /\ offset' = offset /\ pending' = pending
      /\ buffer' = buffer /\ input' = input /\ packing' = packing /\ held' = held
  BY DEF WriteColumn
<1>2. IF Compress THEN todo' = <<cell>> /\ out' = out ELSE out' = <<cell>> /\ todo' = todo
  BY DEF WriteColumn, WriteToSink
<1>3. Flow /\ Filed /\ Staged /\ Kept /\ Measured
  BY <1>1 DEF DInv
<1>4. pending = <<>> /\ out = <<>> /\ todo = <<>> /\ ~packing
  BY <1>1 DEF Idle
<1>5. /\ Columns \in Nat \ {0} /\ row \in Nat /\ column \in 0..(Columns - 1) /\ column \in Nat
      /\ row * Columns \in Nat
  BY Typed, ColumnsTyped DEF DInv, TypeOK
<1>6. /\ row' \in 0..MaxRows /\ column' \in 0..(Columns - 1)
      /\ row' * Columns + column' = row * Columns + column + 1
  <2>1. CASE column + 1 = Columns
    <3>1. row' = row + 1 /\ column' = 0 /\ (row + 1) * Columns + 0 = row * Columns + column + 1
      BY <1>1, <1>5, <2>1, NextCell
    <3>2. row + 1 \in 0..MaxRows /\ 0 \in 0..(Columns - 1)
      BY <1>1, <1>5, BoundsAssumption
    <3> QED
      BY <3>1, <3>2
  <2>2. CASE column + 1 # Columns
    <3>1. row' = row /\ column' = column + 1 /\ column + 1 \in 0..(Columns - 1)
      BY <1>1, <1>5, <2>2, NextCell
    <3>2. row \in 0..MaxRows
      BY DEF DInv, TypeOK
    <3>3. row * Columns + (column + 1) = row * Columns + column + 1
      BY <1>5
    <3> QED
      BY <3>1, <3>2, <3>3
  <2> QED
    BY <2>1, <2>2
<1>7. /\ Binary' = Binary /\ Compress' = Compress /\ Truncate' = Truncate /\ Older' = Older
      /\ Lead' = Lead /\ Start' = Start /\ Base' = Base /\ Plain' = Plain
  <2>1. UNCHANGED <<Binary, Compress, Truncate, Older>>
    BY <1>1 DEF Binary, Compress, Truncate, Older
  <2>2. UNCHANGED <<Lead, Start, OldFile>>
    BY <2>1 DEF Lead, Start, OldFile
  <2> QED
    BY <2>1, <2>2 DEF Base, Plain
<1>8. Given' = Given + 1
  <2>1. Given' = Lead + (row' * Columns + column')
    BY <1>7 DEF Given
  <2>2. Given' = Lead + (row * Columns + column + 1)
    BY <1>6, <2>1
  <2>3. Lead + (row * Columns + column + 1) = (Lead + (row * Columns + column)) + 1
    BY <1>5, Counted
  <2> QED
    BY <2>2, <2>3 DEF Given
<1>9. ~Rewriting /\ ~Rewriting' /\ ~Ended /\ ~Ended'
  BY <1>1 DEF Rewriting, Ended
<1>10. /\ Target = Stream /\ Target' = Stream' /\ TargetLen = Given /\ TargetLen' = Given + 1
       /\ Ground = Base /\ Ground' = Base /\ GroundLen = Len(Base) /\ GroundLen' = Len(Base)
  <2>1. StreamLen = Given + 0 /\ StreamLen' = Given + 1 + 0
    BY <1>8, <1>9 DEF StreamLen
  <2>2. StreamLen = Given /\ StreamLen' = Given + 1
    BY <2>1, Counted
  <2> QED
    BY <1>7, <1>9, <2>2 DEF Target, TargetLen, Ground, GroundLen
<1>11. \A i \in 1..Given : (Target')[i] = Target[i]
  <2>1. ASSUME NEW i \in 1..Given
        PROVE  (Stream')[i] = Stream[i]
    <3>1. i \in Nat \ {0} /\ i <= Given /\ i <= Given + 1
      BY Counted
    <3>2. Stream[i] = IF i <= Start THEN Plain[i] ELSE Wrapped(Plain[i])
      BY <3>1 DEF Stream
    <3>3. (Stream')[i] = IF i <= Start THEN Plain[i] ELSE Wrapped(Plain[i])
      BY <1>7, <1>8, <3>1 DEF Stream, Wrapped
    <3> QED
      BY <3>2, <3>3
  <2> QED
    BY <1>10, <2>1
<1>12. /\ cell \in Cells
       /\ Plain[Given + 1] = cell
  <2>1. /\ (row * Columns + column) \div Columns = row
        /\ (row * Columns + column) % Columns = column
    BY <1>5, Division
  <2>2. cell \in Cells
    BY <1>5, CellTyped DEF Kinds
  <2> DEFINE q == row * Columns + column
             g == Given + 1
  <2>3. q \in Nat /\ Given = Lead + q
    BY <1>5 DEF Given
  <2> HIDE DEF q
  <2>4. g \in Nat \ {0} /\ g > Lead /\ (g - Lead) - 1 = q
    BY <2>3, Counted
  <2> HIDE DEF g
  <2>5. Plain[g] = CellAt(g - Lead)
    BY <2>4 DEF Plain
  <2>7. q \div Columns = row /\ q % Columns = column
    BY <2>1 DEF q
  <2>8. CellAt(g - Lead) = Cell("cell", 1 + row, 1 + column)
    BY <2>4, <2>7 DEF CellAt
  <2>6. 1 + row = row + 1 /\ 1 + column = column + 1
    BY <1>5
  <2> QED
    BY <2>2, <2>5, <2>6, <2>8 DEF g
<1> HIDE DEF cell
<1>13. ~Compress => (Stream')[Given + 1] = cell
  <2>1. Given + 1 \in Nat \ {0} /\ Given + 1 <= Given + 1
    BY Counted
  <2>2. ~Compress => (Stream')[Given + 1] = Plain[Given + 1]
    BY <1>7, <1>8, <2>1 DEF Stream, Wrapped
  <2> QED
    BY <1>12, <2>2
<1>14. AtBuffer = offset /\ AtBuffer' = AtBuffer /\ AtOut' = AtOut /\ AtHeld = AtOut
  BY <1>1, <1>4, Typed, Places, EmptySeq DEF AtBuffer, AtOut, AtHeld
<1>15. AtTodo = Given
  <2>1. AtTodo + Len(todo) = AtTodo
    BY <1>4, Places, EmptySeq
  <2> QED
    BY <1>3, <1>10, <2>1 DEF Flow
<1>16. /\ AtOut = AtBuffer + Len(buffer) /\ AtHeld = AtOut
       /\ AtInput = AtHeld + Len(held) /\ AtInput + Len(input) = Given
  BY <1>14, <1>15 DEF AtOut, AtInput, AtTodo
<1>17. offset <= Given /\ AtBuffer + Len(buffer) <= Given
  <2>1. offset \in Nat /\ AtBuffer \in Nat /\ AtOut \in Nat /\ AtHeld \in Nat /\ AtInput \in Nat
    BY Typed, Places
  <2>2. Len(buffer) \in Nat /\ Len(held) \in Nat /\ Len(input) \in Nat /\ Given \in Nat
    BY Lengths, Counted
  <2>3. AtHeld <= AtInput /\ AtInput <= Given
    BY <1>16, <2>1, <2>2
  <2>4. AtBuffer <= AtOut /\ AtOut = AtHeld
    BY <1>16, <2>1, <2>2
  <2> QED
    BY <1>14, <1>16, <2>1, <2>2, <2>3, <2>4
<1>18. InPlace(Target', pending', offset') /\ InPlace(Target', buffer', AtBuffer')
  <2>1. InPlace(Target, buffer, AtBuffer)
    BY <1>3 DEF Flow
  <2>2. InPlace(Target', buffer, AtBuffer)
    BY <1>11, <1>17, <2>1, Typed, Places, Counted, InPlaceUpTo
  <2> QED
    BY <1>1, <1>4, <1>14, <2>2, InPlaceEmpty
<1>19. out' \in Seq(Cells) /\ todo' \in Seq(Cells)
  BY <1>2, <1>12, Typed, OneCell
<1>20. Flow'
  <2>1. CASE Compress
    <3>1. /\ todo' = <<cell>> /\ out' = <<>> /\ Len(todo') = 1
      BY <1>2, <1>4, <1>12, <2>1, OneCell
    <3>2. AtHeld' = AtHeld /\ AtInput' = AtInput /\ AtTodo' = AtTodo
      <4>1. Len(out') = Len(out)
        BY <1>4, <3>1
      <4> QED
        BY <1>1, <1>14, <4>1 DEF AtHeld, AtInput, AtTodo
    <3>3. InPlace(Plain', todo', AtTodo')
      BY <1>7, <1>12, <1>15, <3>1, <3>2, Places, InPlaceOne
    <3>4. InPlace(Plain', held', AtHeld') /\ InPlace(Plain', input', AtInput')
      BY <1>1, <1>3, <1>7, <3>2 DEF Flow
    <3>5. InPlace(Target', out', AtOut') /\ AtTodo' + Len(todo') = TargetLen'
      BY <1>10, <1>15, <3>1, <3>2, InPlaceEmpty
    <3> QED
      BY <1>18, <3>3, <3>4, <3>5 DEF Flow
  <2>2. CASE ~Compress
    <3>1. /\ out' = <<cell>> /\ todo' = <<>> /\ Len(out') = 1
          /\ held = <<>> /\ input = <<>>
      BY <1>2, <1>3, <1>4, <1>12, <2>2, OneCell DEF Staged
    <3>2. AtOut = Given
      <4>1. AtInput = AtOut
        BY <1>16, <3>1, Places, EmptySeq
      <4> QED
        BY <1>16, <3>1, <4>1, Places, EmptySeq
    <3>3. AtHeld' = Given + 1
      BY <1>14, <3>1, <3>2 DEF AtHeld
    <3>4. AtInput' = Given + 1 /\ AtTodo' = Given + 1 /\ AtTodo' + Len(todo') = Given + 1
      BY <1>1, <3>1, <3>3, Counted, EmptySeq DEF AtInput, AtTodo
    <3>5. InPlace(Target', out', AtOut')
      BY <1>10, <1>13, <1>14, <2>2, <3>1, <3>2, Places, InPlaceOne
    <3>6. /\ InPlace(Plain', held', AtHeld') /\ InPlace(Plain', input', AtInput')
          /\ InPlace(Plain', todo', AtTodo')
      BY <1>1, <3>1, InPlaceEmpty
    <3> QED
      BY <1>10, <1>18, <3>4, <3>5, <3>6 DEF Flow
  <2> QED
    BY <2>1, <2>2
<1>21. Filed'
  <2>1. ASSUME NEW i \in 1..Len(file)
        PROVE  file[i] = IF i <= offset THEN (Target')[i] ELSE Base[i]
    <3>1. file[i] = IF i <= offset THEN Target[i] ELSE Base[i]
      BY <1>3, <1>10 DEF Filed
    <3>2. i <= offset => i \in 1..Given
      <4>1. Given \in Nat /\ offset \in Nat /\ offset <= Given /\ Len(file) \in Nat
        BY <1>17, Typed, LenProperties, Counted
      <4> QED
        BY <4>1
    <3> QED
      BY <1>11, <3>1, <3>2
  <2>2. Len(file) = Larger(offset, Len(Base))
    BY <1>3, <1>10 DEF Filed
  <2> QED
    BY <1>1, <1>10, <2>1, <2>2 DEF Filed, Larger
<1>22. Staged'
  <2>1. ~Compress => todo' = <<>>
    BY <1>2, <1>4
  <2> QED
    BY <1>1, <1>3, <1>7, <2>1 DEF Staged
<1>23. Kept'
  <2>1. Binary => AtBuffer >= HeaderSize
    BY <1>1, <1>3 DEF Kept
  <2> QED
    BY <1>1, <1>7, <1>14, <2>1 DEF Kept
<1>24. Measured'
  <2>1. StoredSize(ColumnTypes[column + 1]) \in Nat /\ column + 1 \in 1..Columns
    BY <1>5, ColumnsTyped, StoredSizeTyped
  <2>2. column_types' \in [1..Columns -> Nat]
    BY <1>1, <1>3, <2>1 DEF Measured
  <2>3. ASSUME NEW c \in 1..Columns, row' > 0 \/ c <= column'
        PROVE  column_types'[c] = StoredSize(ColumnTypes[c])
    <3>1. CASE row > 0
      BY <1>1, <1>3, <1>5, <3>1 DEF Measured
    <3>2. CASE row = 0 /\ c = column + 1
      BY <1>1, <1>3, <3>2 DEF Measured
    <3>3. CASE row = 0 /\ c # column + 1
      <4>1. c <= column
        <5>1. CASE column + 1 = Columns
          BY <1>5, <3>3, <5>1
        <5>2. CASE column + 1 # Columns
          <6>1. row' = 0 /\ column' = column + 1
            BY <1>1, <1>5, <3>3, <5>2, NextCell
          <6> QED
            BY <1>5, <2>3, <3>3, <6>1
        <5> QED
          BY <5>1, <5>2
      <4> QED
        BY <1>1, <1>3, <3>3, <4>1 DEF Measured
    <3> QED
      BY <1>5, <3>1, <3>2, <3>3
  <2> QED
    BY <2>2, <2>3 DEF Measured
<1>25. Len(buffer') < Capacity /\ Len(input') <= InputSize /\ packing' \in BOOLEAN
  BY <1>1, Sizes
<1>26. pending' \in Seq(Cells) /\ buffer' \in Seq(Cells) /\ input' \in Seq(Cells) /\ held' \in Seq(Cells)
  BY <1>1, Typed
<1>27. pc' \in Stages \ {"new", "crashed"}
  BY <1>1 DEF Stages
<1> QED
  BY <1>1, <1>6, <1>19, <1>20, <1>21, <1>22, <1>23, <1>24, <1>25, <1>26, <1>27, Rebuilt

LEMMA OpenStep ==
  ASSUME DInv, Open
  PROVE  DInv'
<1>1. /\ pc = "new" /\ file' = IF Truncate THEN <<>> ELSE file
      /\ offset' = offset /\ pending' = pending /\ buffer' = buffer /\ input' = input
      /\ packing' = packing /\ held' = held /\ UNCHANGED table
  BY DEF Open
<1>2. /\ Binary => out' = Placeholder /\ todo' = todo /\ pc' = "placing"
      /\ ~Binary /\ Compress => todo' = Heading /\ out' = out /\ pc' = "ready"
      /\ ~Binary /\ ~Compress => out' = Heading /\ todo' = todo /\ pc' = "ready"
  BY DEF Open, WriteToSink
<1>3. /\ file = OldFile /\ offset = 0 /\ row = 0 /\ column = 0 /\ ~packing
      /\ pending = <<>> /\ out = <<>> /\ todo = <<>> /\ buffer = <<>> /\ input = <<>> /\ held = <<>>
  BY <1>1 DEF DInv, Unopened
<1>4. /\ row' = row /\ column' = column /\ column_types' = column_types /\ options' = options
      /\ Binary' = Binary /\ Compress' = Compress /\ Base' = Base /\ Given' = Given
      /\ Plain' = Plain /\ Stream' = Stream
  BY <1>1, TableUnmoved
<1>5. pc' \in {"placing", "ready"} /\ Binary \in BOOLEAN /\ Compress \in BOOLEAN
  BY <1>2, Typed
<1>6. ~Rewriting' /\ ~Ended'
  BY <1>5 DEF Rewriting, Ended
<1>7. Given = Lead
  BY <1>3, Counted, ColumnsTyped DEF Given
<1>8. /\ Target' = Stream /\ TargetLen' = Lead
      /\ Ground' = Base /\ GroundLen' = Len(Base)
  <2>1. StreamLen' = Lead + 0
    BY <1>4, <1>6, <1>7 DEF StreamLen
  <2> QED
    BY <1>4, <1>6, <2>1, Counted DEF Target, TargetLen, Ground, GroundLen
<1>9. file' = Base
  BY <1>1, <1>3 DEF Base
<1>10. /\ offset' = 0 /\ pending' = <<>> /\ buffer' = <<>> /\ input' = <<>> /\ held' = <<>>
       /\ ~packing' /\ row' = 0 /\ column' = 0
  BY <1>1, <1>3, <1>4
<1>11. AtBuffer' = 0 /\ AtOut' = 0 /\ AtHeld' = Len(out')
  <2>1. AtBuffer' = 0
    BY <1>10, EmptySeq DEF AtBuffer
  <2>2. AtOut' = 0
    BY <1>10, <2>1, EmptySeq DEF AtOut
  <2>3. Len(out') \in Nat
    BY <1>2, <1>3, <1>5, PlaceholderTyped, HeadingTyped, EmptySeq, LenProperties
  <2> QED
    BY <2>1, <2>2, <2>3 DEF AtHeld
<1>12. ASSUME Len(out') \in Nat
       PROVE  AtInput' = Len(out') /\ AtTodo' = Len(out')
  <2>1. AtInput' = Len(out')
    BY <1>10, <1>11, <1>12, EmptySeq DEF AtInput
  <2> QED
    BY <1>10, <1>12, <2>1, EmptySeq DEF AtTodo
<1>13. /\ InPlace(Target', pending', offset') /\ InPlace(Target', buffer', AtBuffer')
       /\ InPlace(Plain', held', AtHeld') /\ InPlace(Plain', input', AtInput')
  BY <1>10, InPlaceEmpty
<1>14. /\ out' \in Seq(Cells) /\ todo' \in Seq(Cells)
       /\ Flow'
  <2>1. CASE Binary
    <3>1. out' = Placeholder /\ todo' = <<>> /\ Lead = HeaderSize /\ Start = HeaderSize
      BY <1>2, <1>3, <2>1 DEF Lead, Start
    <3>2. /\ out' \in Seq(Cells) /\ Len(out') = HeaderSize /\ HeaderSize \in Nat
          /\ \A i \in 1..HeaderSize : (out')[i] = Zero
      BY <3>1, PlaceholderTyped, ColumnsTyped
    <3>3. ASSUME NEW i \in 1..HeaderSize PROVE (out')[i] = Stream[0 + i]
      <4>1. i \in Nat \ {0} /\ ~(i > Lead) /\ i <= Start /\ 0 + i = i
        BY <3>1, <3>2
      <4> QED
        BY <2>1, <3>2, <4>1 DEF Stream, Plain
    <3>4. InPlace(Target', out', AtOut')
      BY <1>8, <1>11, <3>2, <3>3 DEF InPlace
    <3>5. AtTodo' + Len(todo') = TargetLen' /\ InPlace(Plain', todo', AtTodo')
      BY <1>8, <1>12, <3>1, <3>2, EmptySeq, InPlaceEmpty
    <3> QED
      BY <1>13, <3>1, <3>2, <3>4, <3>5, EmptySeq DEF Flow
  <2>2. CASE ~Binary
    <3>1. Lead = Columns /\ Start = 0 /\ Columns \in Nat
      BY <2>2, ColumnsTyped DEF Lead, Start
    <3>2. ASSUME NEW i \in 1..Columns
          PROVE  Heading[i] = Plain[0 + i] /\ (~Compress => Heading[i] = Stream[0 + i])
      <4>1. i \in Nat \ {0} /\ ~(i > Lead) /\ ~(i <= Start) /\ i <= Given /\ 0 + i = i
        BY <1>7, <3>1
      <4>2. Heading[i] = Plain[i]
        BY <2>2, <4>1, HeadingTyped DEF Plain
      <4>3. ~Compress => Stream[i] = Plain[i]
        BY <4>1 DEF Stream, Wrapped
      <4> QED
        BY <4>1, <4>2, <4>3
    <3>3. InPlace(Plain, Heading, 0) /\ (~Compress => InPlace(Stream, Heading, 0))
      BY <3>2, HeadingTyped DEF InPlace
    <3>4. CASE Compress
      <4>1. todo' = Heading /\ out' = <<>> /\ Len(out') = 0
        BY <1>2, <1>3, <2>2, <3>4, EmptySeq
      <4>2. AtTodo' = 0 /\ AtTodo' + Len(todo') = TargetLen'
        BY <1>8, <1>12, <3>1, <4>1, HeadingTyped
      <4>3. InPlace(Target', out', AtOut') /\ InPlace(Plain', todo', AtTodo')
        BY <1>4, <3>3, <4>1, <4>2, InPlaceEmpty
      <4> QED
        BY <1>13, <4>1, <4>2, <4>3, HeadingTyped, EmptySeq DEF Flow
    <3>5. CASE ~Compress
      <4>1. out' = Heading /\ todo' = <<>> /\ Len(out') = Columns
        BY <1>2, <1>3, <2>2, <3>5, HeadingTyped
      <4>2. AtTodo' + Len(todo') = TargetLen'
        BY <1>8, <1>12, <3>1, <4>1, EmptySeq
      <4>3. InPlace(Target', out', AtOut') /\ InPlace(Plain', todo', AtTodo')
        BY <1>8, <1>11, <3>3, <3>5, <4>1, InPlaceEmpty
      <4> QED
        BY <1>13, <4>1, <4>2, <4>3, HeadingTyped, EmptySeq DEF Flow
    <3> QED
      BY <3>4, <3>5
  <2> QED
    BY <2>1, <2>2
<1>15. Base \in Seq(Cells) /\ Len(Base) \in Nat
  BY Counted
<1>16. Filed'
  <2>1. ASSUME NEW i \in 1..Len(Base) PROVE ~(i <= 0)
    BY <1>15
  <2>2. Len(Base) = Larger(0, Len(Base))
    BY <1>15 DEF Larger
  <2> QED
    BY <1>8, <1>9, <1>10, <2>1, <2>2 DEF Filed, Larger
<1>17. Staged'
  BY <1>2, <1>3, <1>4, <1>5, <1>10 DEF Staged
<1>18. Kept'
  BY <1>2, <1>4 DEF Kept
<1>19. Measured' /\ row' \in 0..MaxRows /\ column' \in 0..(Columns - 1)
  BY <1>4 DEF DInv, TypeOK, Measured
<1>20. Len(buffer') < Capacity /\ Len(input') <= InputSize /\ packing' \in BOOLEAN
  BY <1>1, Sizes
<1>21. file' \in Seq(Cells) /\ offset' \in 0..Len(file')
  BY <1>9, <1>10, <1>15
<1>22. pending' \in Seq(Cells) /\ buffer' \in Seq(Cells) /\ input' \in Seq(Cells) /\ held' \in Seq(Cells)
  BY <1>10, EmptySeq
<1>23. options' \in Options /\ pc' \in Stages /\ pc' \notin {"new", "crashed"}
  BY <1>4, <1>5 DEF DInv, Stages
<1> QED
  BY <1>14, <1>16, <1>17, <1>18, <1>19, <1>20, <1>21, <1>22, <1>23 DEF DInv, TypeOK

LEMMA CrashStep ==
  ASSUME DInv, Crash
  PROVE  DInv'
<1>1. /\ pc' = "crashed" /\ UNCHANGED <<file, offset, pending, out, todo, buffer, input, packing, held>>
      /\ UNCHANGED <<row, column, column_types, options>>
  BY DEF Crash, layers, table
<1> QED
  BY <1>1 DEF DInv, TypeOK, Measured, Stages

LEMMA InitDInv ==
  ASSUME Init
  PROVE  DInv
<1>1. /\ options \in [binary : BOOLEAN, compress : BOOLEAN, truncate : BOOLEAN, older : {0, OldRows}]
      /\ file = OldFile /\ offset = 0
      /\ pending = <<>> /\ out = <<>> /\ todo = <<>>
      /\ buffer = <<>> /\ input = <<>> /\ packing = FALSE /\ held = <<>>
      /\ row = 0 /\ column = 0 /\ column_types = [c \in 1..Columns |-> 0] /\ pc = "new"
  BY DEF Init
<1>2. options \in Options
  BY <1>1, BoundsAssumption DEF Options
<1>3. file \in Seq(Cells) /\ offset \in 0..Len(file)
  <2>1. file \in Seq(Cells)
    BY <1>1, <1>2, OldFileTyped
  <2> QED
    BY <1>1, <2>1, LenProperties
<1>4. Measured
  BY <1>1, ColumnsTyped DEF Measured
<1>5. /\ pending \in Seq(Cells) /\ out \in Seq(Cells) /\ todo \in Seq(Cells)
      /\ buffer \in Seq(Cells) /\ input \in Seq(Cells) /\ held \in Seq(Cells)
      /\ Len(buffer) < Capacity /\ Len(input) <= InputSize
  BY <1>1, ColumnsTyped, EmptySeq
<1>6. row \in 0..MaxRows /\ column \in 0..(Columns - 1)
  BY <1>1, ColumnsTyped, BoundsAssumption
<1>7. Unopened
  BY <1>1 DEF Unopened
<1> QED
  BY <1>1, <1>2, <1>3, <1>4, <1>5, <1>6, <1>7 DEF DInv, TypeOK, Stages

LEMMA NextDInv ==
  ASSUME DInv, [Next]_vars
  PROVE  DInv'
<1>1. CASE Open
  BY <1>1, OpenStep
<1>2. CASE WriteColumn
  BY <1>2, WriteColumnStep
<1>3. CASE Close
  BY <1>3, CloseStep
<1>4. CASE Crash
  BY <1>4, CrashStep
<1>5. CASE Step
  <2>1. pc = "new" => pending = <<>> /\ out = <<>> /\ todo = <<>> /\ ~packing
    BY DEF DInv, Unopened
  <2>2. ASSUME NEW n \in 1..Len(pending), KernelWrite(n) PROVE DInv'
    <3>1. pending # <<>>
      BY EmptySeq
    <3> QED
      BY <1>5, <2>1, <2>2, <3>1, KernelWriteStep DEF Step, Running
  <2>3. CASE BufferCopy
    <3>1. out # <<>>
      BY <2>3 DEF BufferCopy
    <3> QED
      BY <1>5, <2>1, <2>3, <3>1, BufferCopyStep DEF Step, Running
  <2>4. CASE ZstdCopy
    <3>1. todo # <<>>
      BY <2>4 DEF ZstdCopy
    <3> QED
      BY <1>5, <2>1, <2>4, <3>1, ZstdCopyStep DEF Step, Running
  <2>5. ASSUME NEW n \in 0..InputSize, NEW m \in 0..(InputSize + Len(held)), ZstdCompress(n, m)
        PROVE  DInv'
    <3>1. packing
      BY <2>5 DEF ZstdCompress
    <3>2. n \in Nat /\ m \in Nat
      BY ColumnsTyped, Lengths
    <3> QED
      BY <1>5, <2>1, <2>5, <3>1, <3>2, ZstdCompressStep DEF Step, Running
  <2> QED
    BY <1>5, <2>2, <2>3, <2>4, <2>5, PlacedStep, EndFrameStep, DrainStep, WriteHeaderStep,
       LastFlushStep, ClosedStep DEF Step
<1>6. CASE UNCHANGED vars
  <2>1. /\ UNCHANGED <<file, offset, pending, out, todo, buffer, input, packing, held, table, pc>>
        /\ UNCHANGED <<row, column, column_types, options>>
    BY <1>6 DEF vars, layers, table
  <2>2. pc \notin {"new", "crashed"} => Flow' /\ Staged' /\ Kept'
    <3>1. ASSUME pc \notin {"new", "crashed"} PROVE Flow' /\ Staged' /\ Kept'
      <4>1. Flow /\ Staged /\ Kept
        BY <3>1 DEF DInv
      <4>2. /\ Plain' = Plain /\ Target' = Target /\ TargetLen' = TargetLen
            /\ Binary' = Binary /\ Compress' = Compress
        BY <2>1, LoopUnmoved
      <4>3. Flow' /\ AtBuffer' = AtBuffer
        BY <2>1, <4>1, <4>2, FlowSame
      <4>4. AtOut' = AtOut
        BY <2>1, <4>3 DEF AtOut
      <4> QED
        BY <2>1, <4>1, <4>2, <4>3, <4>4 DEF Staged, Kept
    <3> QED
      BY <3>1
  <2>3. CASE pc \notin {"new", "crashed"}
    BY <2>1, <2>2, <2>3, Typed, Sizes, LoopRebuilt
  <2>4. CASE pc \in {"new", "crashed"}
    <3>1. OldFile' = OldFile
      BY <2>1 DEF OldFile, Older, Binary, Compress
    <3> QED
      BY <2>1, <2>4, <3>1 DEF DInv, TypeOK, Measured, Unopened
  <2> QED
    BY <2>3, <2>4
<1> QED
  BY <1>1, <1>2, <1>3, <1>4, <1>5, <1>6 DEF Next

LEMMA SpecDInv == Spec => []DInv
<1>1. Init => DInv
  BY InitDInv
<1>2. DInv /\ [Next]_vars => DInv'
  BY NextDInv
<1> QED
  BY <1>1, <1>2, PTL DEF Spec

-----------------------------------------------------------------------------
(* What a reader finds in the file. *)

(* The place of the header is filled with zeros. *)
LEMMA FirstCell ==
  ASSUME DInv, Binary
  PROVE  Stream[1] = Zero
<1>1. 1 <= Start /\ ~(1 > Lead) /\ 1 \in Nat \ {0}
  BY ColumnsTyped DEF Start, Lead
<1> QED
  BY <1>1 DEF Stream, Plain

(* The rows are where they are looked for. *)
LEMMA RowsInStream ==
  ASSUME DInv, column = 0, NEW i \in 1..(row * Columns)
  PROVE  /\ Plain[Lead + i] = Cell("cell", 1 + ((i - 1) \div Columns), 1 + ((i - 1) % Columns))
         /\ Stream[Lead + i] = Wrapped(Plain[Lead + i])
<1> DEFINE q == row * Columns
<1>1. q \in Nat /\ Given = Lead + q /\ i \in 1..q
  <2>1. q \in Nat
    BY Typed, ColumnsTyped
  <2>2. q + 0 = q
    BY <2>1
  <2> QED
    BY <2>1, <2>2 DEF Given
<1> HIDE DEF q
<1>2. /\ Lead + i \in Nat \ {0} /\ Lead + i > Lead /\ (Lead + i) - Lead = i /\ Lead + i <= Given
      /\ ~(Lead + i <= Start)
  BY <1>1, Counted, ColumnsTyped DEF Start, Lead
<1> QED
  BY <1>2 DEF Plain, Stream, CellAt

(* A file that starts with the count of the rows has them, unless the count *)
(* was of the older table.                                                  *)
LEMMA TruthfulOpen ==
  ASSUME DInv, pc # "crashed"
  PROVE  HeaderTruthful
<1>1. /\ OldFile \in Seq(Cells)
      /\ RowCount(OldFile) # 0 => IsPrefix(AllRows("old", RowCount(OldFile)), Body(OldFile))
  BY OldFileTyped DEF DInv
<1>2. file = OldFile => HeaderTruthful
  BY <1>1 DEF HeaderTruthful
<1>3. RowCount(file) = 0 => HeaderTruthful
  BY DEF HeaderTruthful
<1>4. CASE pc = "new"
  BY <1>2, <1>4 DEF DInv, Unopened
<1>5. CASE ~Binary
  BY <1>3, <1>5 DEF RowCount
<1>6. CASE pc # "new" /\ Binary /\ file # <<>>
  <2>1. Flow /\ Filed /\ Staged
    BY <1>6 DEF DInv
  <2>2. Len(file) \in Nat /\ 1 \in 1..Len(file) /\ offset \in Nat
    BY <1>6, Typed, EmptySeq
  <2>3. file[1] = Zero => RowCount(file) = 0
    BY DEF RowCount, Zero, Cell
  <2>4. CASE ~Rewriting /\ offset = 0
    <3>1. Len(file) = Len(Base) /\ \A i \in 1..Len(file) : file[i] = Base[i]
      <4>1. Len(file) = Larger(0, Len(Base))
        BY <2>1, <2>4 DEF Filed, GroundLen
      <4>2. ASSUME NEW i \in 1..Len(file) PROVE file[i] = Base[i]
        <5>1. ~(i <= 0)
          BY <2>2
        <5> QED
          BY <2>1, <2>4, <5>1 DEF Filed, Ground
      <4> QED
        BY <4>1, <4>2, Counted DEF Larger
    <3>2. file = Base
      BY <3>1, Typed, Counted, SeqEqual
    <3> QED
      BY <1>2, <1>6, <3>2 DEF Base
  <2>5. CASE ~Rewriting /\ offset # 0
    <3>1. 1 <= offset
      BY <2>2, <2>5
    <3>2. file[1] = Stream[1]
      BY <2>1, <2>2, <2>5, <3>1 DEF Filed, Target
    <3> QED
      BY <1>3, <1>6, <2>3, <3>2, FirstCell
  <2>6. CASE Rewriting /\ offset = 0
    <3>1. 1 <= StreamLen
      BY StreamStarts
    <3>2. ~(1 <= 0)
      OBVIOUS
    <3>3. file[1] = Ground[1]
      BY <2>1, <2>2, <2>6, <3>2 DEF Filed
    <3>4. Ground[1] = Stream[1]
      BY <2>6, <3>1 DEF Ground
    <3> QED
      BY <1>3, <1>6, <2>3, <3>3, <3>4, FirstCell
  <2>7. CASE Rewriting /\ offset # 0
    <3> DEFINE all == AllRows("cell", row)
               q == row * Columns
    <3>1. row \in Nat /\ Compress \in BOOLEAN /\ column_types \in [1..Columns -> Nat]
      BY Typed DEF DInv, Measured
    <3>2. /\ Header(row, column_types)[1] = Cell("rows", Stated(row), 0)
          /\ Len(Header(row, column_types)) = HeaderSize
      BY <3>1, HeaderTyped
    <3>3. 1 <= offset
      BY <2>2, <2>7
    <3>4. file[1] = Header(row, column_types)[1]
      BY <2>1, <2>2, <2>7, <3>3 DEF Filed, Target
    <3>5. RowCount(file) = Stated(row)
      BY <1>6, <3>2, <3>4 DEF RowCount, Cell
    <3>6. column = 0 /\ Lead = HeaderSize /\ TargetLen = HeaderSize
      BY <1>6, <2>1, <2>7 DEF Staged, Rewriting, Lead, TargetLen
    <3>7. q \in Nat /\ Given = HeaderSize + q
      <4>1. q \in Nat
        BY <3>1, ColumnsTyped
      <4>2. q + 0 = q
        BY <4>1
      <4> QED
        BY <3>6, <4>1, <4>2 DEF Given
    <3>8. /\ all \in Seq(Cells) /\ Len(all) = q
          /\ \A i \in 1..q : all[i] =
               Wrapped(Cell("cell", 1 + ((i - 1) \div Columns), 1 + ((i - 1) % Columns)))
      BY <3>1, AllRowsTyped DEF Kinds
    <3> HIDE DEF all
    <3>9. ASSUME NEW i \in 1..q PROVE Stream[HeaderSize + i] = all[i]
      <4>1. i \in 1..(row * Columns)
        BY DEF q
      <4>2. /\ Plain[Lead + i] = Cell("cell", 1 + ((i - 1) \div Columns), 1 + ((i - 1) % Columns))
            /\ Stream[Lead + i] = Wrapped(Plain[Lead + i])
        BY <3>6, <4>1, RowsInStream
      <4> QED
        BY <3>6, <3>8, <4>2
    <3> HIDE DEF q
    <3>10. offset <= HeaderSize
      <4>1. AtTodo + Len(todo) = HeaderSize
        BY <2>1, <3>6 DEF Flow
      <4>2. AtBuffer >= offset
        BY Typed, Lengths DEF AtBuffer
      <4>3. AtOut >= AtBuffer
        BY Places, Lengths DEF AtOut
      <4>4. AtHeld >= AtOut
        BY Places, Lengths DEF AtHeld
      <4>5. AtInput >= AtHeld
        BY Places, Lengths DEF AtInput
      <4>6. AtTodo >= AtInput
        BY Places, Lengths DEF AtTodo
      <4> QED
        BY <4>1, <4>2, <4>3, <4>4, <4>5, <4>6, Typed, Places, Lengths
    <3>11. StreamLen >= HeaderSize + q /\ StreamLen \in Nat
      BY <3>7, Counted, ColumnsTyped DEF StreamLen
    <3>12. Len(file) >= HeaderSize + q
      <4>1. Len(file) = Larger(offset, Larger(StreamLen, Len(Base)))
        BY <2>1, <2>7 DEF Filed, GroundLen
      <4> QED
        BY <2>2, <3>7, <3>11, <4>1, Counted, ColumnsTyped DEF Larger
    <3>13. ASSUME NEW i \in 1..q PROVE file[HeaderSize + i] = all[i]
      <4>1. /\ HeaderSize + i \in 1..Len(file) /\ ~(HeaderSize + i <= offset)
            /\ HeaderSize + i <= StreamLen /\ HeaderSize + i \in Nat \ {0}
        BY <2>2, <3>7, <3>10, <3>11, <3>12, ColumnsTyped
      <4>2. file[HeaderSize + i] = Ground[HeaderSize + i]
        BY <2>1, <4>1 DEF Filed
      <4>3. Ground[HeaderSize + i] = Stream[HeaderSize + i]
        BY <2>7, <4>1 DEF Ground
      <4> QED
        BY <3>9, <4>2, <4>3
    <3>14. /\ Body(file) \in Seq(Cells) /\ Len(Body(file)) = Len(file) - HeaderSize
           /\ \A i \in 1..Len(Body(file)) : Body(file)[i] = file[HeaderSize + i]
      BY <2>2, <3>7, <3>12, Typed, ColumnsTyped DEF Body
    <3>15. IsPrefix(all, Body(file))
      <4>1. Len(all) <= Len(Body(file)) /\ Len(Body(file)) \in Nat
        BY <2>2, <3>7, <3>8, <3>12, <3>14, ColumnsTyped
      <4>2. ASSUME NEW i \in 1..Len(all) PROVE all[i] = Body(file)[i]
        <5>1. i \in 1..q /\ i \in 1..Len(Body(file))
          BY <3>7, <3>8, <4>1
        <5> QED
          BY <3>13, <3>14, <5>1
      <4> QED
        BY <3>8, <3>14, <4>1, <4>2, PrefixOf
    <3>16. IsPrefix(AllRows("cell", Stated(row)), Body(file))
      BY <3>1, <3>14, <3>15, StatedTyped, FewerRows DEF all, Kinds
    <3> QED
      BY <3>5, <3>16 DEF HeaderTruthful
  <2> QED
    BY <2>4, <2>5, <2>6, <2>7
<1>7. file = <<>> => RowCount(file) = 0
  BY DEF RowCount
<1> QED
  BY <1>3, <1>4, <1>5, <1>6, <1>7

(* The header and the stream, of a table that is being closed. *)
Whole == [i \in Nat \ {0} |-> IF i <= Start THEN Header(row, column_types)[i] ELSE Stream[i]]

LEMMA ContentsInPlace ==
  ASSUME DInv, column = 0, Ended <=> Compress
  PROVE  Contents \in Seq(Cells) /\ Len(Contents) = StreamLen /\ InPlace(Whole, Contents, 0)
<1> DEFINE rows  == Rows("cell", row)
           head  == IF Binary THEN <<>> ELSE Heading
           plain == head \o rows
           rest  == IF Compress THEN Packed(plain) \o <<FrameEnd>> ELSE plain
           first == IF Binary THEN Header(row, column_types) ELSE <<>>
           q     == row * Columns
<1>1. /\ row \in Nat /\ column_types \in [1..Columns -> Nat]
      /\ Columns \in Nat /\ HeaderSize \in Nat /\ q \in Nat
  BY Typed, ColumnsTyped DEF DInv, Measured
<1>2. /\ Start \in Nat /\ Lead \in Nat /\ Given \in Nat /\ StreamLen \in Nat
      /\ Given = Lead + q /\ Start <= Given
  <2>1. q + 0 = q
    BY <1>1
  <2> QED
    BY <2>1, Counted, StreamStarts DEF Given
<1>3. rows \in Seq(Cells) /\ Len(rows) = q /\ InPlace(Plain, rows, Lead)
  <2>1. /\ rows \in Seq(Cells) /\ Len(rows) = q
        /\ \A i \in 1..q :
             rows[i] = Cell("cell", 1 + ((i - 1) \div Columns), 1 + ((i - 1) % Columns))
    BY <1>1, RowsTyped DEF Kinds
  <2>2. ASSUME NEW i \in 1..q PROVE rows[i] = Plain[Lead + i]
    BY <2>1, <2>2, RowsInStream
  <2> HIDE DEF q
  <2> QED
    BY <2>1, <2>2 DEF InPlace
<1> HIDE DEF rows, q
<1>4. head \in Seq(Cells) /\ Start + Len(head) = Lead /\ InPlace(Plain, head, Start)
  <2>1. CASE Binary
    BY <1>1, <2>1, EmptySeq, InPlaceEmpty DEF Start, Lead
  <2>2. CASE ~Binary
    <3>1. Lead = Columns /\ Start = 0 /\ head = Heading
      BY <2>2 DEF Lead, Start
    <3>2. ASSUME NEW i \in 1..Columns PROVE Heading[i] = Plain[0 + i]
      <4>1. i \in Nat \ {0} /\ ~(i > Lead) /\ 0 + i = i
        BY <1>1, <3>1
      <4> QED
        BY <2>2, <4>1, HeadingTyped DEF Plain
    <3>3. Len(Heading) = Columns /\ Heading \in Seq(Cells)
      BY HeadingTyped
    <3> QED
      BY <1>1, <3>1, <3>2, <3>3 DEF InPlace
  <2> QED
    BY <2>1, <2>2
<1> HIDE DEF head
<1>5. plain \in Seq(Cells) /\ Start + Len(plain) = Given /\ InPlace(Plain, plain, Start)
  <2>1. /\ plain \in Seq(Cells) /\ Len(plain) = Len(head) + Len(rows) /\ InPlace(Plain, plain, Start)
    BY <1>2, <1>3, <1>4, CellsConcat
  <2>2. Len(head) \in Nat
    BY <1>4, LenProperties
  <2>3. Start + (Len(head) + q) = (Start + Len(head)) + q
    BY <1>1, <1>2, <2>2
  <2>4. Start + Len(plain) = Given
    BY <1>2, <1>3, <1>4, <2>1, <2>3
  <2> QED
    BY <2>1, <2>4
<1> HIDE DEF plain
<1>6. rest \in Seq(Cells) /\ Start + Len(rest) = StreamLen /\ InPlace(Stream, rest, Start)
  <2>1. CASE Compress
    <3>1. /\ InPlace(Stream, Packed(plain), Start) /\ Packed(plain) \in Seq(Cells)
          /\ Len(Packed(plain)) = Len(plain)
      BY <1>2, <1>5, <2>1, PackedInPlace
    <3>2. FrameEnd \in Cells
      BY CellTyped, ColumnsTyped DEF FrameEnd, Kinds
    <3>3. FrameEnd = Stream[Given + 1]
      <4>1. Given + 1 \in Nat \ {0} /\ ~(Given + 1 <= Given) /\ ~(Given + 1 <= Start)
        BY <1>2
      <4> QED
        BY <4>1 DEF Stream
    <3>4. InPlace(Stream, <<FrameEnd>>, Given)
      BY <1>2, <3>3, InPlaceOne
    <3>5. <<FrameEnd>> \in Seq(Cells) /\ Len(<<FrameEnd>>) = 1
      BY <3>2, OneCell
    <3>6. /\ rest = Packed(plain) \o <<FrameEnd>>
          /\ InPlace(Stream, <<FrameEnd>>, Start + Len(Packed(plain)))
      <4>1. Start + Len(Packed(plain)) = Given
        BY <1>5, <3>1
      <4>2. rest = Packed(plain) \o <<FrameEnd>>
        BY <2>1
      <4> QED
        BY <3>4, <4>1, <4>2
    <3>7. rest \in Seq(Cells) /\ Len(rest) = Len(plain) + 1 /\ InPlace(Stream, rest, Start)
      <4> DEFINE packs == Packed(plain)
                 ends  == <<FrameEnd>>
      <4>1. /\ packs \in Seq(Cells) /\ ends \in Seq(Cells) /\ Len(ends) = 1
            /\ Len(packs) = Len(plain) /\ rest = packs \o ends
            /\ InPlace(Stream, packs, Start) /\ InPlace(Stream, ends, Start + Len(packs))
        BY <3>1, <3>5, <3>6
      <4> HIDE DEF packs, ends, rest
      <4>2. /\ InPlace(Stream, packs \o ends, Start) /\ packs \o ends \in Seq(Cells)
            /\ Len(packs \o ends) = Len(packs) + Len(ends)
        BY <1>2, <4>1, CellsConcat
      <4> QED
        BY <4>1, <4>2
    <3>8. StreamLen = Given + 1
      BY <2>1 DEF StreamLen
    <3>9. Len(plain) \in Nat
      BY <1>5, LenProperties
    <3> QED
      BY <1>2, <1>5, <3>7, <3>8, <3>9
  <2>2. CASE ~Compress
    <3>1. StreamLen = Given /\ rest = plain
      <4>1. StreamLen = Given + 0
        BY <2>2 DEF StreamLen
      <4> QED
        BY <1>2, <2>2, <4>1
    <3>2. ASSUME NEW i \in 1..Len(plain) PROVE plain[i] = Stream[Start + i]
      <4>1. Start + i \in Nat \ {0} /\ ~(Start + i <= Start) /\ Start + i <= Given
        BY <1>2, <1>5, LenProperties
      <4>2. plain[i] = Plain[Start + i]
        BY <1>5 DEF InPlace
      <4> QED
        BY <2>2, <4>1, <4>2 DEF Stream, Wrapped
    <3> QED
      BY <1>5, <3>1, <3>2 DEF InPlace
  <2> QED
    BY <2>1, <2>2
<1>7. Contents = first \o rest
  BY DEF Contents, rest, first, plain, head, rows
<1> HIDE DEF rest
<1>8. first \in Seq(Cells) /\ Len(first) = Start /\ InPlace(Whole, first, 0)
  <2>1. CASE Binary
    <3>1. Start = HeaderSize /\ first = Header(row, column_types)
      BY <2>1 DEF Start
    <3>2. first \in Seq(Cells) /\ Len(first) = HeaderSize
      BY <1>1, <3>1, HeaderTyped
    <3>3. ASSUME NEW i \in 1..Len(first) PROVE first[i] = Whole[0 + i]
      <4>1. i \in Nat \ {0} /\ i <= Start /\ 0 + i = i
        BY <1>1, <3>1, <3>2
      <4> QED
        BY <3>1, <4>1 DEF Whole
    <3> QED
      BY <3>1, <3>2, <3>3 DEF InPlace
  <2>2. CASE ~Binary
    BY <2>2, EmptySeq, InPlaceEmpty DEF Start
  <2> QED
    BY <2>1, <2>2
<1> HIDE DEF first
<1>9. InPlace(Whole, rest, Start)
  <2>1. ASSUME NEW i \in 1..Len(rest) PROVE rest[i] = Whole[Start + i]
    <3>1. Start + i \in Nat \ {0} /\ ~(Start + i <= Start)
      BY <1>2, <1>6, LenProperties
    <3> QED
      BY <1>6, <3>1 DEF InPlace, Whole
  <2> QED
    BY <2>1 DEF InPlace
<1>10. InPlace(Whole, rest, 0 + Len(first))
  <2>1. 0 + Len(first) = Start
    BY <1>2, <1>8
  <2> QED
    BY <1>9, <2>1
<1>11. /\ Contents \in Seq(Cells) /\ Len(Contents) = Start + Len(rest) /\ InPlace(Whole, Contents, 0)
  BY <1>6, <1>7, <1>8, <1>10, CellsConcat
<1> QED
  BY <1>6, <1>11

(* All of it is in the file when nothing is left on the way. *)
LEMMA CompleteClosed ==
  ASSUME DInv, pc = "closed"
  PROVE  /\ IsPrefix(Contents, file)
         /\ Truncate \/ Older = 0 => file = Contents
         /\ buffer = <<>> /\ input = <<>> /\ held = <<>>
<1>1. Flow /\ Filed /\ Staged
  BY DEF DInv
<1>2. /\ pending = <<>> /\ out = <<>> /\ todo = <<>> /\ buffer = <<>> /\ input = <<>> /\ held = <<>>
      /\ column = 0
  BY <1>1 DEF Staged
<1>3. offset = TargetLen
  <2>1. AtBuffer = offset
    BY <1>2, Typed, EmptySeq DEF AtBuffer
  <2>2. AtOut = offset
    BY <1>2, <2>1, Typed, EmptySeq DEF AtOut
  <2>3. AtHeld = offset
    BY <1>2, <2>2, Typed, EmptySeq DEF AtHeld
  <2>4. AtInput = offset
    BY <1>2, <2>3, Typed, EmptySeq DEF AtInput
  <2>5. AtTodo = offset /\ AtTodo + Len(todo) = offset
    BY <1>2, <2>4, Typed, EmptySeq DEF AtTodo
  <2> QED
    BY <1>1, <2>5 DEF Flow
<1>4. (Rewriting <=> Binary) /\ (Ended <=> Compress)
  BY Typed DEF Rewriting, Ended
<1>5. Contents \in Seq(Cells) /\ Len(Contents) = StreamLen /\ InPlace(Whole, Contents, 0)
  BY <1>2, <1>4, ContentsInPlace
<1>6. /\ StreamLen \in Nat /\ Start \in Nat /\ Start <= StreamLen
      /\ Len(Base) \in Nat /\ Len(file) \in Nat
  <2>1. Len(file) \in Nat
    BY Typed, LenProperties
  <2>2. Start <= StreamLen
    BY StreamStarts, Counted
  <2> QED
    BY <2>1, <2>2, Counted
<1>7. Len(file) = Larger(StreamLen, Len(Base))
  <2>1. CASE Binary
    <3>1. Len(file) = Larger(HeaderSize, Larger(StreamLen, Len(Base))) /\ Start = HeaderSize
      BY <1>1, <1>3, <1>4, <2>1 DEF Filed, TargetLen, GroundLen, Start
    <3> QED
      BY <1>6, <3>1 DEF Larger
  <2>2. CASE ~Binary
    BY <1>1, <1>3, <1>4, <2>2 DEF Filed, TargetLen, GroundLen
  <2> QED
    BY <2>1, <2>2
<1>8. ASSUME NEW i \in 1..Len(file), i <= StreamLen
      PROVE  file[i] = Whole[i]
  <2>1. i \in Nat \ {0}
    BY <1>6
  <2>2. file[i] = IF i <= TargetLen THEN Target[i] ELSE Ground[i]
    BY <1>1, <1>3 DEF Filed
  <2>3. CASE Binary
    <3>1. TargetLen = Start
      BY <1>4, <2>3 DEF TargetLen, Start
    <3> QED
      BY <1>4, <1>8, <2>1, <2>2, <2>3, <3>1 DEF Target, Ground, Whole
  <2>4. CASE ~Binary
    <3>1. TargetLen = StreamLen /\ ~(i <= Start)
      BY <1>4, <2>1, <2>4 DEF TargetLen, Start
    <3> QED
      BY <1>4, <1>8, <2>1, <2>2, <2>4, <3>1 DEF Target, Whole
  <2> QED
    BY <2>3, <2>4
<1>9. StreamLen <= Len(file)
  BY <1>6, <1>7 DEF Larger
<1>10. ASSUME NEW i \in 1..Len(Contents) PROVE Contents[i] = file[i]
  <2>1. i \in 1..Len(file) /\ i <= StreamLen /\ 0 + i = i
    BY <1>5, <1>6, <1>9
  <2> QED
    BY <1>5, <1>8, <2>1 DEF InPlace
<1>11. IsPrefix(Contents, file)
  BY <1>5, <1>9, <1>10, Typed, PrefixOf
<1>12. ASSUME Truncate \/ Older = 0
       PROVE  file = Contents
  <2>1. Base = <<>>
    BY <1>12, OldFileTyped DEF Base, DInv
  <2>2. Len(Base) = 0
    BY <2>1, EmptySeq
  <2>3. Len(file) = StreamLen
    BY <1>6, <1>7, <2>2 DEF Larger
  <2> QED
    BY <1>5, <1>10, <2>3, Typed, SeqEqual
<1> QED
  BY <1>2, <1>11, <1>12

(* Its header says what the writer did. *)
LEMMA ReaderClosed ==
  ASSUME DInv, pc = "closed", Binary, row > 0, NEW c \in 1..Columns
  PROVE  ReadSize(ColumnTypes[c], file[1 + c].row) = WrittenSize(ColumnTypes[c])
<1>1. Contents \in Seq(Cells) /\ IsPrefix(Contents, file) /\ InPlace(Whole, Contents, 0)
      /\ Len(Contents) = StreamLen
  <2>1. Ended <=> Compress
    BY Typed DEF Ended
  <2>2. column = 0
    BY DEF DInv, Staged
  <2> QED
    BY <2>1, <2>2, CompleteClosed, ContentsInPlace
<1>2. /\ 1 + c \in 1..StreamLen /\ 1 + c <= Start /\ 1 + c \in Nat \ {0} /\ 0 + (1 + c) = 1 + c
      /\ StreamLen \in Nat
  BY StreamStarts, Counted, ColumnsTyped DEF Start
<1>3. file[1 + c] = Contents[1 + c]
  <2>1. Len(Contents) <= Len(file) /\ SubSeq(Contents, 1, Len(Contents)) = SubSeq(file, 1, Len(Contents))
    BY <1>1 DEF IsPrefix
  <2>2. SubSeq(Contents, 1, Len(Contents))[1 + c] = Contents[1 + c]
    BY <1>1, <1>2
  <2>3. SubSeq(file, 1, Len(Contents))[1 + c] = file[1 + c]
    BY <1>1, <1>2, <2>1, Typed
  <2> QED
    BY <2>1, <2>2, <2>3
<1>4. Contents[1 + c] = Header(row, column_types)[1 + c]
  BY <1>1, <1>2 DEF InPlace, Whole
<1>5. Header(row, column_types)[1 + c] = Cell("column", column_types[c], c)
  BY Typed, HeaderTyped DEF DInv, Measured
<1>6. column_types[c] = StoredSize(ColumnTypes[c])
  BY DEF DInv, Measured
<1>7. file[1 + c].row = StoredSize(ColumnTypes[c])
  BY <1>3, <1>4, <1>5, <1>6 DEF Cell
<1>8. ColumnTypes[c] \in Types
  BY ColumnsTyped
<1> QED
  BY <1>7, <1>8 DEF Types, ReadSize, WrittenSize, StoredSize

-----------------------------------------------------------------------------
(* The theorems. *)

(* The cells in every buffer of the streams are cells, the buffers never    *)
(* exceed their sizes, and the position is never past the end of the file.  *)
THEOREM TableTypesCorrect == Spec => []TypeOK
<1>1. DInv => TypeOK
  BY DEF DInv
<1> QED
  BY <1>1, SpecDInv, PTL

(* While a table is written, every cell it was given is, once and in order, *)
(* in the file or in one of the streams before it, and beyond the position  *)
(* the file is as it was.                                                   *)
THEOREM CellsInPlace == Spec => [](pc \notin {"new", "crashed"} => Flow /\ Filed)
<1>1. DInv => (pc \notin {"new", "crashed"} => Flow /\ Filed)
  BY DEF DInv
<1> QED
  BY <1>1, SpecDInv, PTL

(* A binary file never claims a row it does not have: in the middle of any  *)
(* write, and after a crash, the rows that the first cell counts follow the *)
(* header, all of one table, in order.                                      *)
THEOREM HeaderIsTruthful == Spec => []HeaderTruthful
<1>1. Init => HeaderTruthful
  BY InitDInv, TruthfulOpen DEF Init
<1>2. DInv => pc = "crashed" \/ HeaderTruthful
  BY TruthfulOpen
<1>3. HeaderTruthful /\ [Next]_vars /\ (pc = "crashed")' => HeaderTruthful'
  <2> SUFFICES ASSUME HeaderTruthful, [Next]_vars, pc' = "crashed"
               PROVE  HeaderTruthful'
    OBVIOUS
  <2>1. file' = file /\ options' = options
    <3>1. CASE pc = "crashed"
      BY <3>1 DEF Next, Open, WriteColumn, Close, Crash, Step, Running, vars, table
    <3>2. CASE pc # "crashed"
      <4>1. Crash
        BY <3>2 DEF Next, Open, WriteColumn, Close, Crash, Step, KernelWrite, BufferCopy,
           ZstdCopy, ZstdCompress, Placed, EndFrame, Unpacked, Drain, WriteHeader, LastFlush, Closed, vars
      <4> QED
        BY <4>1 DEF Crash, table
    <3> QED
      BY <3>1, <3>2
  <2> QED
    BY <2>1 DEF HeaderTruthful, RowCount, Body, AllRows, Binary, Compress
<1> QED
  BY <1>1, <1>2, <1>3, SpecDInv, PTL DEF Spec

LEMMA OnceStep ==
  ASSUME DInv, [Next]_vars
  PROVE  RowsAppearAtOnce
<1>1. Binary' = Binary
  BY DEF Next, Open, WriteColumn, Close, Crash, Step, KernelWrite, BufferCopy,
     ZstdCopy, ZstdCompress, Placed, EndFrame, Drain, WriteHeader, LastFlush, Closed, vars, table, Binary
<1>2. file' = file => RowsAppearAtOnce
  BY <1>1 DEF RowsAppearAtOnce, RowCount
<1>3. ~Binary => RowsAppearAtOnce
  BY <1>1 DEF RowsAppearAtOnce, RowCount
<1>4. CASE Open
  <2>1. row = 0 /\ (file' = <<>> \/ file' = file)
    BY <1>4 DEF Open, DInv, Unopened
  <2>2. file' = <<>> => RowCount(file)' = 0
    BY DEF RowCount
  <2> QED
    BY <1>2, <2>1, <2>2 DEF RowsAppearAtOnce
<1>5. ASSUME NEW n \in 1..Len(pending), KernelWrite(n), Running, Binary
      PROVE  RowsAppearAtOnce
  <2> DEFINE L == IF Len(file) < offset + n THEN offset + n ELSE Len(file)
  <2>1. /\ file' = [i \in 1..L |-> IF i \in (offset + 1)..(offset + n) THEN pending[i - offset] ELSE file[i]]
    BY <1>5 DEF KernelWrite
  <2>2. /\ offset \in Nat /\ offset <= Len(file) /\ Len(file) \in Nat /\ Len(pending) \in Nat
        /\ n \in Nat \ {0} /\ 1 \in 1..Len(pending)
    BY Typed, LenProperties
  <2>3. L \in Nat /\ 1 \in 1..L
    BY <2>2
  <2> HIDE DEF L
  <2>4. pending # <<>> /\ pc \notin {"new", "crashed"}
    BY <1>5, <2>2, EmptySeq DEF Running, DInv, Unopened
  <2>5. Flow /\ Staged /\ Kept
    BY <2>4 DEF DInv
  <2>6. file'[1] = IF 1 \in (offset + 1)..(offset + n) THEN pending[1 - offset] ELSE file[1]
    BY <2>1, <2>3
  <2>7. file' # <<>>
    <3>1. DOMAIN file' = 1..L
      BY <2>1
    <3> QED
      BY <2>3, <3>1
  <2>8. CASE offset # 0
    <3>1. 1 \notin (offset + 1)..(offset + n) /\ file # <<>>
      BY <2>2, <2>8, EmptySeq
    <3>2. file'[1] = file[1]
      BY <2>6, <3>1
    <3> QED
      BY <1>1, <2>7, <3>1, <3>2 DEF RowsAppearAtOnce, RowCount
  <2>9. CASE offset = 0
    <3>1. 1 \in (offset + 1)..(offset + n) /\ 1 - offset = 1 /\ offset + 1 = 1
      BY <2>2, <2>9
    <3>2. file'[1] = Target[1]
      <4>1. pending[1] = Target[offset + 1]
        BY <2>2, <2>5 DEF Flow, InPlace
      <4> QED
        BY <2>6, <3>1, <4>1
    <3>3. CASE Rewriting
      <4>1. file'[1] = Cell("rows", Stated(row), 0)
        <5>1. Header(row, column_types)[1] = Cell("rows", Stated(row), 0)
          BY Typed, HeaderTyped DEF DInv, Measured
        <5> QED
          BY <3>2, <3>3, <5>1 DEF Target
      <4>2. RowCount(file)' = Stated(row)
        BY <1>1, <1>5, <2>7, <4>1 DEF RowCount, Cell
      <4>3. pc \in {"flushing", "closing"}
        BY <2>4, <2>5, <3>3 DEF Rewriting, Staged
      <4> QED
        BY <4>2, <4>3 DEF RowsAppearAtOnce
    <3>4. CASE ~Rewriting
      <4>1. file'[1] = Zero
        BY <1>5, <3>2, <3>4, FirstCell DEF Target
      <4>2. RowCount(file)' = 0
        BY <1>1, <4>1 DEF RowCount, Zero, Cell
      <4>3. pc \in {"placing", "ready", "ending", "draining", "seeking"}
        BY <1>5, <2>4, <3>4 DEF Rewriting, DInv, Stages
      <4>4. ~(offset >= HeaderSize)
        BY <2>9, ColumnsTyped
      <4>5. row = 0
        BY <1>5, <2>5, <4>3, <4>4 DEF Staged, Kept
      <4> QED
        BY <4>2, <4>5 DEF RowsAppearAtOnce
    <3> QED
      BY <3>3, <3>4
  <2> QED
    BY <2>8, <2>9
<1>6. ASSUME Next, ~Open, ~\E n \in 1..Len(pending) : KernelWrite(n) /\ Running
      PROVE  file' = file
  BY <1>6 DEF Next, WriteColumn, Close, Crash, Step, BufferCopy,
     ZstdCopy, ZstdCompress, Placed, EndFrame, Drain, WriteHeader, LastFlush, Closed
<1> QED
  BY <1>2, <1>3, <1>4, <1>5, <1>6 DEF vars

(* The rows of a binary table become readable all at once: no step changes  *)
(* the count in the file but to 0, before there is a row, and to the number *)
(* of rows that were written, modulo CountLimit, when the header is.        *)
THEOREM RowsAllOrNothing == Spec => AllOrNothing
<1>1. DInv /\ [Next]_vars => RowsAppearAtOnce
  BY OnceStep
<1> QED
  BY <1>1, SpecDInv, PTL DEF Spec, AllOrNothing

(* A closed table is in the file from first to last cell, each once, and    *)
(* nothing is left in a buffer, whatever the sizes and however zstd and the *)
(* system split what they take.                                             *)
THEOREM ClosedComplete == Spec => []ClosedIsComplete
<1>1. DInv => ClosedIsComplete
  BY CompleteClosed DEF ClosedIsComplete
<1> QED
  BY <1>1, SpecDInv, PTL

(* The reader of a closed table takes of each cell what was written of it.  *)
THEOREM ReaderStaysInStep == Spec => []ReaderInStep
<1>1. DInv => ReaderInStep
  BY ReaderClosed DEF ReaderInStep
<1> QED
  BY <1>1, SpecDInv, PTL
=============================================================================
