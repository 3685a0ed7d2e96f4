----------------------------- MODULE DataTable -----------------------------
(***************************************************************************)
(* A table of the output, written through DataTableStream: cells go        *)
(* through the optional ZstdCompressionStream and the BufferStream to the  *)
(* FileStream, and for a binary table the header, whose place was kept by  *)
(* zeros when the table was opened, is written over them when the table is *)
(* closed.                                                                 *)
(*                                                                         *)
(* A step is one round of one of the loops: write(2) takes some of the     *)
(* bytes, BufferStream::write fills the buffer, ZstdCompressionStream::    *)
(* flush compresses a part of its input.  todo, out and pending are what   *)
(* the three write functions on the call stack have still to pass on; a    *)
(* function goes on only when the one it called has returned.  The process *)
(* may end at any step.  A value, a column's name, type and size, or the   *)
(* number of rows, is one cell: that a short write may split it is left    *)
(* out.                                                                    *)
(***************************************************************************)
EXTENDS Integers, SequencesExt

CONSTANTS ColumnTypes,   \* sequence: the types of the columns
          MaxRows,       \* bound: rows written
          Capacity,      \* cells in a BufferStream
          InputSize,     \* cells in the input buffer of a ZstdCompressionStream
          OldRows,       \* rows of an older table at the same path, if there is one
          CountLimit     \* the number of rows is stated modulo this: 2^32

Types == {"bool", "int", "uint8", "double", "string"}

ASSUME TypesAssumption == ColumnTypes \in Seq(Types) /\ ColumnTypes # <<>>
ASSUME SizesAssumption == Capacity \in Nat \ {0} /\ InputSize \in Nat \ {0}
ASSUME BoundsAssumption == MaxRows \in Nat /\ OldRows \in Nat
ASSUME CountAssumption == CountLimit \in Nat \ {0}

VARIABLES file, offset,            \* the file, and the position in it
          pending, out, todo,      \* FileStream, BufferStream, ZstdCompressionStream::write
          buffer,                  \* BufferStream::buffer_, up to index_
          input, packing, held,    \* input_buffer_; in flush; cells zstd keeps to itself
          row, column,             \* current_row_index_, current_column_index_
          column_types,            \* column_types_
          options,                 \* what create_data_table was called with
          pc                       \* where the table is in its life

layers == <<pending, out, todo, buffer, input, packing, held>>
table  == <<row, column, column_types, options>>
vars   == <<file, offset, layers, table, pc>>

-----------------------------------------------------------------------------
Columns == Len(ColumnTypes)

(* A BinaryDataTableStream, or a TextDataTableStream; compression_level > 0; *)
(* O_TRUNC; rows in the file that is at the path already (0: there is none). *)
Binary   == options.binary
Compress == options.compress
Truncate == options.truncate
Older    == options.older

Cell(kind, r, c)  == [kind |-> kind, row |-> r, column |-> c, packed |-> FALSE]
Packed(s)         == [i \in DOMAIN s |-> [s[i] EXCEPT !.packed = TRUE]]
Zero              == Cell("zero", 0, 0)
FrameEnd          == Cell("end", 0, 0)
Rows(kind, n)     == [i \in 1..(n * Columns) |->
                        Cell(kind, 1 + ((i - 1) \div Columns), 1 + ((i - 1) % Columns))]

(* The size that store_or_check_column_type records for a type, the bytes   *)
(* that write_column_impl_ writes of it, and those that read_binary_data_   *)
(* table reads of it, given the recorded size.  A string has its own size.  *)
StoredSize(type) ==
  CASE type = "bool" -> 1 [] type = "int" -> 4 [] type = "uint8" -> 1
    [] type = "double" -> 4 [] type = "string" -> 0

WrittenSize(type) ==
  CASE type = "bool" -> 1 [] type = "int" -> 4 [] type = "uint8" -> 1
    [] type = "double" -> 8 [] type = "string" -> 0

(* Mutant: the reader goes by the size in the header. *)
ReadSizeStored(type, size) == size

ReadSize(type, size) ==
  CASE type = "bool" -> 1 [] type \in {"int", "uint8"} -> size
    [] type = "double" -> 8 [] type = "string" -> 0

(* The header of a table of n rows; the placeholder that keeps its place.   *)
HeaderSize == 1 + Columns
(* Mutant: the place of the row count is forgotten. *)
ShortPlaceholder == [i \in 1..Columns |-> Zero]

Placeholder == [i \in 1..HeaderSize |-> Zero]

(* The number of rows, a size_t, as it is written: a uint32_t. *)
Stated(n) == n % CountLimit

(* Mutant: the row count is the index of the last row. *)
HeaderLastRow(n, sizes) ==
  <<Cell("rows", Stated(n - 1), 0)>> \o [c \in 1..Columns |-> Cell("column", sizes[c], c)]

Header(n, sizes) ==
  <<Cell("rows", Stated(n), 0)>> \o [c \in 1..Columns |-> Cell("column", sizes[c], c)]

(* The heading of a text table. *)
Heading == [c \in 1..Columns |-> Cell("name", 0, c)]

OldFile == IF Older = 0 THEN <<>>
           ELSE IF Binary
           THEN Header(Older, [c \in 1..Columns |-> StoredSize(ColumnTypes[c])])
                  \o (IF Compress THEN Packed(Rows("old", Older)) ELSE Rows("old", Older))
           ELSE Rows("old", Older)

-----------------------------------------------------------------------------
Idle == pending = <<>> /\ out = <<>> /\ todo = <<>> /\ ~packing

(* DataTableStream::write, to the sink. *)
WriteToSink(cells) ==
  IF Compress THEN todo' = cells /\ out' = out ELSE out' = cells /\ todo' = todo

(* BufferStream::flush. *)
FlushBuffer == pending' = buffer /\ buffer' = <<>>

Init ==
  /\ options \in [binary : BOOLEAN, compress : BOOLEAN, truncate : BOOLEAN, older : {0, OldRows}]
  /\ file = OldFile /\ offset = 0
  /\ pending = <<>> /\ out = <<>> /\ todo = <<>>
  /\ buffer = <<>> /\ input = <<>> /\ packing = FALSE /\ held = <<>>
  /\ row = 0 /\ column = 0 /\ column_types = [c \in 1..Columns |-> 0]
  /\ pc = "new"

(* The constructors: a binary table fills the place of its header, past the *)
(* compressor, and flushes; a text table writes its heading like any cell.  *)
Open ==
  /\ pc = "new"
  /\ file' = IF Truncate THEN <<>> ELSE file
  /\ IF Binary THEN out' = Placeholder /\ todo' = todo /\ pc' = "placing"
               ELSE WriteToSink(Heading) /\ pc' = "ready"
  /\ UNCHANGED <<offset, pending, buffer, input, packing, held, table>>

Placed ==
  /\ pc = "placing" /\ Idle
  /\ FlushBuffer
  /\ pc' = "ready"
  /\ UNCHANGED <<file, offset, out, todo, input, packing, held, table>>

(* write_column: the type of a column is recorded in the first row. *)
WriteColumn ==
  /\ pc = "ready" /\ Idle /\ row < MaxRows
  /\ WriteToSink(<<Cell("cell", row + 1, column + 1)>>)
  /\ column_types' = IF row = 0
       THEN [column_types EXCEPT ![column + 1] = StoredSize(ColumnTypes[column + 1])]
       ELSE column_types
  /\ column' = (column + 1) % Columns
  /\ row' = IF column + 1 = Columns THEN row + 1 ELSE row
  /\ options' = options
  /\ UNCHANGED <<file, offset, pending, buffer, input, packing, held, pc>>

(* FileStream::write: the call takes n of the bytes, at the file's position. *)
KernelWrite(n) ==
  /\ n \in 1..Len(pending)
  /\ file' = [i \in 1..(IF Len(file) < offset + n THEN offset + n ELSE Len(file)) |->
                IF i \in (offset + 1)..(offset + n) THEN pending[i - offset] ELSE file[i]]
  /\ offset' = offset + n
  /\ pending' = SubSeq(pending, n + 1, Len(pending))
  /\ UNCHANGED <<out, todo, buffer, input, packing, held, table, pc>>

(* The buffer is flushed as soon as it is full; mutant: with the next byte. *)
Overfull(s) == Len(s) > Capacity
Full(s)     == Len(s) = Capacity

(* One round of the loop of BufferStream::write. *)
BufferCopy ==
  LET room == Capacity - Len(buffer)
      n == IF Len(out) < room THEN Len(out) ELSE room
      filled == buffer \o SubSeq(out, 1, n)
  IN
  /\ pending = <<>> /\ out # <<>>
  /\ out' = SubSeq(out, n + 1, Len(out))
  /\ IF Full(filled) THEN pending' = filled /\ buffer' = <<>>
                     ELSE pending' = pending /\ buffer' = filled
  /\ UNCHANGED <<file, offset, todo, input, packing, held, table, pc>>

(* One round of the loop of ZstdCompressionStream::write. *)
ZstdCopy ==
  LET room == InputSize - Len(input)
      n == IF Len(todo) < room THEN Len(todo) ELSE room
  IN
  /\ pending = <<>> /\ out = <<>> /\ ~packing /\ todo # <<>>
  /\ todo' = SubSeq(todo, n + 1, Len(todo))
  /\ input' = input \o SubSeq(todo, 1, n)
  /\ packing' = (Len(input') = InputSize)
  /\ UNCHANGED <<file, offset, pending, out, buffer, held, table, pc>>

(* One round of ZstdCompressionStream::flush: zstd takes n cells of the     *)
(* input and gives out, compressed, m of those it has.                      *)
ZstdCompress(n, m) ==
  LET given == held \o SubSeq(input, 1, n) IN
  /\ pending = <<>> /\ out = <<>> /\ packing
  /\ n \in 0..Len(input) /\ m \in 0..Len(given) /\ n + m > 0
  /\ out' = Packed(SubSeq(given, 1, m))
  /\ held' = SubSeq(given, m + 1, Len(given))
  /\ input' = SubSeq(input, n + 1, Len(input))
  /\ packing' = (input' # <<>>)
  /\ UNCHANGED <<file, offset, pending, todo, buffer, table, pc>>

(* The destructors.  finalize() ends the compressed frame and removes the   *)
(* compressor from the stack of streams, in a binary table seek() flushes   *)
(* what the buffer has and write_header_ writes at the beginning of the     *)
(* file; the last flush empties the buffer.                                 *)
Unpacked == IF Binary THEN "draining" ELSE "flushing"

Close ==
  /\ pc = "ready" /\ Idle /\ column = 0
  /\ pc' = IF Compress THEN "ending" ELSE Unpacked
  /\ packing' = (Compress /\ input # <<>>)
  /\ UNCHANGED <<file, offset, pending, out, todo, buffer, input, held, table>>

(* Mutant: what zstd held back is not taken from it. *)
EndFrameEarly ==
  /\ pc = "ending" /\ Idle
  /\ out' = <<FrameEnd>> /\ held' = <<>>
  /\ pc' = Unpacked
  /\ UNCHANGED <<file, offset, pending, todo, buffer, input, packing, table>>

EndFrame ==
  /\ pc = "ending" /\ Idle
  /\ out' = Append(Packed(held), FrameEnd) /\ held' = <<>>
  /\ pc' = Unpacked
  /\ UNCHANGED <<file, offset, pending, todo, buffer, input, packing, table>>

(* Mutant: the flush is repeated for ever. *)
DrainAgain ==
  /\ pc = "draining" /\ Idle
  /\ FlushBuffer
  /\ UNCHANGED <<file, offset, out, todo, input, packing, held, table, pc>>

Drain ==
  /\ pc = "draining" /\ Idle
  /\ FlushBuffer
  /\ pc' = "seeking"
  /\ UNCHANGED <<file, offset, out, todo, input, packing, held, table>>

WriteHeader ==
  /\ pc = "seeking" /\ Idle
  /\ offset' = 0
  /\ out' = Header(row, column_types)
  /\ pc' = "flushing"
  /\ UNCHANGED <<file, pending, todo, buffer, input, packing, held, table>>

LastFlush ==
  /\ pc = "flushing" /\ Idle
  /\ FlushBuffer
  /\ pc' = "closing"
  /\ UNCHANGED <<file, offset, out, todo, input, packing, held, table>>

Closed ==
  /\ pc = "closing" /\ Idle
  /\ pc' = "closed"
  /\ UNCHANGED <<file, offset, layers, table>>

(* The process ends: the dyntracer is never destroyed, or exit is called. *)
Crash ==
  /\ pc \notin {"new", "closed", "crashed"}
  /\ pc' = "crashed"
  /\ UNCHANGED <<file, offset, layers, table>>

Running == pc # "crashed"

Step ==
  /\ Running
  /\ \/ \E n \in 1..Len(pending) : KernelWrite(n)
     \/ BufferCopy \/ ZstdCopy
     \/ \E n \in 0..InputSize, m \in 0..(InputSize + Len(held)) : ZstdCompress(n, m)
     \/ Placed \/ EndFrame \/ Drain \/ WriteHeader \/ LastFlush \/ Closed

Next == Open \/ WriteColumn \/ Close \/ Crash \/ Step

(* The process goes on with a write or a close that it has begun, and the   *)
(* operating system eventually takes some bytes: EINTR and EAGAIN, on which *)
(* FileStream::write tries again, do not go on for ever.                    *)
Spec == Init /\ [][Next]_vars /\ WF_vars(Step)
-----------------------------------------------------------------------------
(* Properties. *)

Kinds == {"zero", "end", "rows", "column", "name", "cell", "old"}
Cells == [kind : Kinds, row : Nat, column : 0..Columns, packed : BOOLEAN]

(* The buffers never exceed their size. *)
TypeOK ==
  /\ \A s \in {file, pending, out, todo, buffer, input, held} : s \in Seq(Cells)
  /\ Len(buffer) < Capacity /\ Len(input) <= InputSize
  /\ offset \in 0..Len(file) /\ row \in 0..MaxRows /\ column \in 0..(Columns - 1)

(* What read_binary_data_table makes of a file: the number of rows its      *)
(* first cell states, and the cells that follow the header.                 *)
RowCount(f) == IF Binary /\ f # <<>> /\ f[1].kind = "rows" THEN f[1].row ELSE 0
Body(f) == SubSeq(f, HeaderSize + 1, Len(f))

AllRows(kind, n) == IF Compress THEN Packed(Rows(kind, n)) ELSE Rows(kind, n)

(* A binary file never claims a row it does not have: whenever, in the      *)
(* middle of a write, of the header or after a crash, the number of rows in *)
(* its first cell is not 0, all these rows follow the header, in order and  *)
(* none of them overwritten, and all belong to one table; also if the       *)
(* number is of more rows than it can state.                                *)
HeaderTruthful ==
  \A n \in {RowCount(file)} \ {0} :
    \E kind \in {"cell", "old"} : IsPrefix(AllRows(kind, n), Body(file))

(* The rows of a binary table become readable all at once: the number of    *)
(* rows in the file changes only to 0, when the table is opened, and to the *)
(* number of rows written, as far as 32 bits state it, when it is closed.   *)
RowsAppearAtOnce ==
  RowCount(file)' # RowCount(file) =>
    \/ RowCount(file)' = 0 /\ row = 0
    \/ RowCount(file)' = Stated(row) /\ pc \in {"flushing", "closing"}

AllOrNothing == [][RowsAppearAtOnce]_vars

(* A table that is closed is in the file from first to last cell, nothing   *)
(* twice and nothing left in a buffer on the way, whatever the sizes of the *)
(* buffers and however the system and zstd split what they take.  Of an     *)
(* older file that was not truncated a tail may be left, after it.          *)
Contents ==
  (IF Binary THEN Header(row, column_types) ELSE <<>>)
  \o (IF Compress
      THEN Packed((IF Binary THEN <<>> ELSE Heading) \o Rows("cell", row)) \o <<FrameEnd>>
      ELSE (IF Binary THEN <<>> ELSE Heading) \o Rows("cell", row))

ClosedIsComplete ==
  pc = "closed" =>
    /\ IsPrefix(Contents, file)
    /\ Truncate \/ Older = 0 => file = Contents
    /\ buffer = <<>> /\ input = <<>> /\ held = <<>>

(* The reader of a closed binary table takes from each cell as many bytes   *)
(* as the writer put there, whatever sizes the header has.                  *)
ReaderInStep ==
  pc = "closed" /\ Binary /\ row > 0 =>
    \A c \in 1..Columns :
      ReadSize(ColumnTypes[c], file[1 + c].row) = WrittenSize(ColumnTypes[c])

(* A close that has begun ends, unless the process does. *)
Closes == (pc \in {"ending", "draining", "flushing"}) ~> (pc \in {"closed", "crashed"})
=============================================================================
