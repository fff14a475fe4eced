----------------------------- MODULE RowFormat -----------------------------
(***************************************************************************)
(* Row records (storage_layout/row_codec.rs, fast_row_decode.rs,           *)
(* tuple_codec.rs, cursor.rs): how a row becomes bytes and is read back    *)
(* with a table schema, which need not be the one it was written with.     *)
(*                                                                         *)
(* A byte is a triple <<kind, value, position>>: the position-th byte of   *)
(* what kind and value name.  The zero byte is common to all zeros.  Bytes *)
(* that were not written together and are read together give Garbled: the  *)
(* program computes some number from them.                                 *)
(*                                                                         *)
(* Three formats exist.  VERSION and FAST_ROW_VERSION name every value's   *)
(* column id; they are only read (rows of earlier releases).  The writer   *)
(* produces FIXED_ROW_VERSION: values stand at places computed from the    *)
(* types of the schema's columns, and no column id is stored.              *)
(***************************************************************************)
EXTENDS Integers, Sequences, FiniteSets, SequencesExt

CONSTANT BitsPerByte     \* bits of a null bitmap byte (8 in the program)

ASSUME BitsAssumption == BitsPerByte \in Nat \ {0}

-----------------------------------------------------------------------------
(***************************************************************************)
(* Types and values.  A column is a record with fields id, name and type.  *)
(***************************************************************************)

\* fixed_width: the bytes of a type that has its place in the fixed region; 0
\* stands for None, the types kept in the variable region.
FixedWidth(type) ==
  CASE type = "Boolean" -> 1
    [] type \in {"Int16", "MySqlTinyInt"} -> 2
    [] type \in {"Int32", "Year", "MySqlTinyIntUnsigned", "Float32"} -> 4
    [] type \in {"Int64", "Bit", "MySqlIntUnsigned", "Float64"} -> 8
    [] OTHER -> 0

IsFixed(type) == FixedWidth(type) # 0

\* The variant of ColumnValue a fixed type is decoded to (decode_fixed_value,
\* decode_mysql_fixed_int).
VariantOf(type) ==
  CASE type \in {"Year", "MySqlTinyIntUnsigned"} -> "Int32"
    [] type = "MySqlTinyInt" -> "Int16"
    [] type \in {"Bit", "MySqlIntUnsigned"} -> "Int64"
    [] OTHER -> type

Null == [variant |-> "Null", v |-> 0]
Garbled == [variant |-> "Garbled", v |-> 0]
Failed == [variant |-> "Error", v |-> 0]

\* The bytes of the variants of fixed size, and of the texts of the model, which
\* are one character long.
VariantWidth(variant) ==
  CASE variant = "Boolean" -> 1
    [] variant = "Int16" -> 2
    [] variant \in {"Int32", "Float32"} -> 4
    [] variant \in {"Int64", "Float64"} -> 8
    [] variant = "Null" -> 0
    [] OTHER -> 1

Zero == <<"zero", 0, 0>>

\* to_be_bytes: v in width bytes.
Bytes(kind, v, width) ==
  [k \in 1..width |-> IF v = 0 THEN Zero ELSE <<kind, v, k>>]

U32(n) == Bytes("u32", n, 4)

\* from_be_bytes of a slice.
Number(kind, slice) ==
  IF \A k \in DOMAIN slice : slice[k] = Zero
    THEN 0
    ELSE IF slice = Bytes(kind, slice[1][2], Len(slice)) THEN slice[1][2] ELSE -1

Slice(bytes, from, width) == SubSeq(bytes, from + 1, from + width)

\* Cursor: a read past the end is an error.
Inside(bytes, end) == end <= Len(bytes)

Tag(variant) == <<variant, 1, 0>>

\* encode_tuple_value: a tag, the length for a text, the value.
EncodeTuple(value) ==
  <<Tag(value.variant)>>
    \o (IF value.variant = "Text" THEN U32(1) ELSE <<>>)
    \o Bytes(value.variant, value.v, VariantWidth(value.variant))

Variants == {"Null", "Boolean", "Int16", "Int32", "Int64", "Float32", "Float64", "Text"}

\* decode_tuple_value and, for its end, skip_tuple_value: reads one value at a
\* position, by its tag.
TupleVariant(bytes, from) ==
  LET tags == {w \in Variants : bytes[from + 1] = Tag(w)}
  IN IF tags = {} THEN "Error" ELSE CHOOSE w \in tags : TRUE

TupleEnd(bytes, from) ==
  LET variant == TupleVariant(bytes, from)
  IN from + 1 + (IF variant = "Text" THEN 4 ELSE 0) + VariantWidth(variant)

DecodeTuple(bytes, from) ==
  LET variant == TupleVariant(bytes, from)
      end == TupleEnd(bytes, from)
  IN IF variant = "Error" \/ ~Inside(bytes, end)
       THEN Failed
       ELSE LET n == Number(variant, Slice(bytes, end - VariantWidth(variant),
                                           VariantWidth(variant)))
            IN IF n = -1 THEN Garbled ELSE [variant |-> variant, v |-> n]

-----------------------------------------------------------------------------
(***************************************************************************)
(* The fixed format.                                                       *)
(***************************************************************************)

CeilDiv(n, d) == (n + d - 1) \div d

\* fixed_offsets_for_columns, variable_positions_for_columns: where column i
\* stands among the columns given.
FixedOffset(columns, i) ==
  FoldLeft(LAMBDA sum, c : sum + FixedWidth(c.type), 0, SubSeq(columns, 1, i - 1))

VariablePosition(columns, i) ==
  Cardinality({j \in 1..(i - 1) : ~IsFixed(columns[j].type)})

ValueIn(row, name) == IF name \in DOMAIN row THEN row[name] ELSE Null

\* encode_fixed_value: a value of another width leaves the place zero.
EncodeFixed(type, value) ==
  IF value # Null /\ VariantWidth(value.variant) = FixedWidth(type) /\ value.variant # "Text"
    THEN Bytes(value.variant, value.v, FixedWidth(type))
    ELSE [k \in 1..FixedWidth(type) |-> Zero]

\* One byte of the null bitmap.
NullByte(columns, row, byte) ==
  LET bit(b) == LET i == byte * BitsPerByte + b + 1
                IN IF i <= Len(columns) /\ ValueIn(row, columns[i].name) = Null
                     THEN 2 ^ b ELSE 0
      mask == FoldLeft(LAMBDA sum, b : sum + bit(b), 0, [b \in 1..BitsPerByte |-> b - 1])
  IN IF mask = 0 THEN Zero ELSE <<"bits", mask, 1>>

\* encode_row_record_with_mvcc.
EncodeRow(columns, row) ==
  LET n == Len(columns)
      value(i) == ValueIn(row, columns[i].name)
      payload(i) == IF IsFixed(columns[i].type) \/ value(i) = Null
                      THEN <<>> ELSE EncodeTuple(value(i))
      before(i) == FoldLeft(LAMBDA sum, j : sum + Len(payload(j)), 0,
                            [j \in 1..(i - 1) |-> j])
      places == [i \in 1..n |-> i]
      join(F(_)) == FoldLeft(LAMBDA bytes, i : bytes \o F(i), <<>>, places)
      fixed(i) == IF IsFixed(columns[i].type) THEN EncodeFixed(columns[i].type, value(i)) ELSE <<>>
      directory(i) == IF IsFixed(columns[i].type)
                        THEN <<>> ELSE U32(before(i)) \o U32(Len(payload(i)))
  IN [version |-> "FIXED_ROW_VERSION", count |-> n,
      body |-> [b \in 1..CeilDiv(n, BitsPerByte) |-> NullByte(columns, row, b - 1)]
                 \o join(fixed) \o join(directory) \o join(payload)]

\* The bit of column i in a byte of the bitmap; any other byte has some bits set.
NullBit(byte, i) ==
  IF byte = Zero THEN FALSE
  ELSE IF byte[1] = "bits" THEN (byte[2] \div 2 ^ ((i - 1) % BitsPerByte)) % 2 = 1
  ELSE byte[2] % 2 = 1

\* fixed_row_layout: the places, computed from the types of the first `count`
\* columns of the schema the row is read with.
Layout(columns, record) ==
  LET stored == SubSeq(columns, 1, record.count)
      fixedStart == CeilDiv(record.count, BitsPerByte)
      directoryStart == fixedStart + FixedOffset(stored, record.count + 1)
  IN [stored |-> stored, fixedStart |-> fixedStart, directoryStart |-> directoryStart,
      payloadStart |-> directoryStart + 8 * VariablePosition(stored, record.count + 1)]

\* decode_fixed_value of the bytes at a place.
DecodeFixed(type, bytes) ==
  LET n == Number(VariantOf(type), bytes)
  IN IF n = -1 THEN Garbled ELSE [variant |-> VariantOf(type), v |-> n]

\* decode_fixed_row_column.
DecodeFixedColumn(columns, record, i) ==
  LET at == Layout(columns, record)
      entry == at.directoryStart + 8 * VariablePosition(at.stored, i)
      offset == Number("u32", Slice(record.body, entry, 4))
      length == Number("u32", Slice(record.body, entry + 4, 4))
      from == at.payloadStart + offset
      start == at.fixedStart + FixedOffset(at.stored, i)
      width == FixedWidth(columns[i].type)
  IN IF i > record.count THEN Null
     ELSE IF NullBit(record.body[(i - 1) \div BitsPerByte + 1], i) THEN Null
     ELSE IF IsFixed(columns[i].type)
       THEN IF Inside(record.body, start + width)
              THEN DecodeFixed(columns[i].type, Slice(record.body, start, width)) ELSE Failed
     ELSE IF ~Inside(record.body, entry + 8) \/ offset = -1 \/ length < 1
             \/ ~Inside(record.body, from + length) THEN Failed
     ELSE IF TupleEnd(record.body, from) # from + length THEN Failed
     ELSE DecodeTuple(record.body, from)

-----------------------------------------------------------------------------
(***************************************************************************)
(* The formats with column ids.  A cell is a record with fields id, value. *)
(***************************************************************************)

\* A record as an earlier release wrote it: ids and values one after the other.
LegacyRecord(cells) ==
  [version |-> "VERSION", count |-> Len(cells),
   body |-> FoldLeft(LAMBDA bytes, c : bytes \o U32(c.id) \o EncodeTuple(c.value), <<>>, cells)]

\* A record with a directory of ids, offsets and lengths.
FastRecord(cells) ==
  LET before(i) == FoldLeft(LAMBDA sum, c : sum + Len(EncodeTuple(c.value)), 0,
                            SubSeq(cells, 1, i - 1))
  IN [version |-> "FAST_ROW_VERSION", count |-> Len(cells),
      body |-> FoldLeft(LAMBDA bytes, i : bytes \o U32(cells[i].id) \o U32(before(i))
                                            \o U32(Len(EncodeTuple(cells[i].value))),
                        <<>>, [i \in 1..Len(cells) |-> i])
               \o FoldLeft(LAMBDA bytes, c : bytes \o EncodeTuple(c.value), <<>>, cells)]

\* decode_row_record_raw and the loops like it: the ids of the record and the
\* places of their values.  VERSION is walked value by value with
\* skip_tuple_value, FAST_ROW_VERSION through its directory.
Places(record) ==
  LET walk[k \in 0..record.count] ==
        IF k = 0 THEN [end |-> 0, at |-> <<>>]
        ELSE LET from == walk[k - 1].end
             IN [end |-> TupleEnd(record.body, from + 4),
                 at |-> Append(walk[k - 1].at,
                               [id |-> Number("u32", Slice(record.body, from, 4)),
                                from |-> from + 4])]
      entry(k) == [id |-> Number("u32", Slice(record.body, 12 * (k - 1), 4)),
                   from |-> 12 * record.count
                              + Number("u32", Slice(record.body, 12 * (k - 1) + 4, 4))]
  IN IF record.version = "VERSION" THEN walk[record.count].at
     ELSE [k \in 1..record.count |-> entry(k)]

\* The value of a column id: the last one stored wins, none is NULL.
ValueById(record, id) ==
  LET places == Places(record)
      found == {k \in DOMAIN places : places[k].id = id}
  IN IF found = {} THEN Null
     ELSE DecodeTuple(record.body, places[CHOOSE k \in found : \A j \in found : j <= k].from)

-----------------------------------------------------------------------------
(***************************************************************************)
(* Readers.                                                                *)
(***************************************************************************)

\* The error every reader of a fixed record returns when the schema has fewer
\* columns than the record.
TooWide(columns, record) ==
  record.version = "FIXED_ROW_VERSION" /\ record.count > Len(columns)

\* decode_row_record, decode_row_record_projected and
\* decode_row_record_projected_values_with: the value of column i.
DecodeColumn(columns, record, i) ==
  IF record.version = "FIXED_ROW_VERSION"
    THEN IF TooWide(columns, record) THEN Failed ELSE DecodeFixedColumn(columns, record, i)
    ELSE ValueById(record, columns[i].id)

DecodeRow(columns, record) ==
  [name \in {columns[i].name : i \in DOMAIN columns} |->
     DecodeColumn(columns, record, CHOOSE i \in DOMAIN columns : columns[i].name = name)]

\* FastNumericProjector::new and decode_fixed_row_numeric_slot: the place of a
\* number, computed from all columns of the schema and not from the count of the
\* record; decode_fast_row_record_fast_numeric_with looks at the entry of the
\* column's own position first.
DecodeNumeric(columns, record, i) ==
  LET start == CeilDiv(Len(columns), BitsPerByte) + FixedOffset(columns, i)
      width == FixedWidth(columns[i].type)
      places == Places(record)
  IN IF record.version = "FIXED_ROW_VERSION"
       THEN IF NullBit(record.body[(i - 1) \div BitsPerByte + 1], i) THEN Null
            ELSE IF Inside(record.body, start + width)
              THEN DecodeFixed(columns[i].type, Slice(record.body, start, width)) ELSE Failed
     ELSE IF record.version = "FAST_ROW_VERSION" /\ i <= record.count
             /\ places[i].id = columns[i].id
       THEN DecodeTuple(record.body, places[i].from)
     ELSE ValueById(record, columns[i].id)

\* reencode_row_record_fast, used when an engine table is rewritten.
Reencode(columns, record) ==
  IF record.version = "FIXED_ROW_VERSION" THEN record
  ELSE EncodeRow(columns, [name \in {columns[i].name : i \in DOMAIN columns} |->
         ValueById(record, (CHOOSE c \in {columns[i] : i \in DOMAIN columns} : c.name = name).id)])
=============================================================================
