----------------------------- MODULE KeyFormat -----------------------------
(***************************************************************************)
(* Keys of the store (storage_layout/keys.rs, encode_key_value and         *)
(* decode_key_value of olap_stats.rs, the ordered encodings and            *)
(* next_prefix of tuple_codec.rs).  A key is a sequence of bytes, bytes    *)
(* are numbers, and the store orders keys as sequences.  Every table, index*)
(* and value a scan must find has to be one interval of that order.        *)
(*                                                                         *)
(* A byte has the values 0..Radix-1 in the digits of numbers.  Tags and    *)
(* prefixes are bytes as well and keep the program's numbers.              *)
(***************************************************************************)
EXTENDS Integers, Sequences, FiniteSets, SequencesExt

CONSTANT Radix     \* values of a byte in a number (256 in the program)

ASSUME RadixAssumption == Radix \in Nat /\ Radix >= 2 /\ Radix % 2 = 0

-----------------------------------------------------------------------------
\* The order of the store: a proper prefix comes first.
KeyLess(a, b) ==
  \/ \E n \in 1..Len(a) :
       /\ n <= Len(b) /\ a[n] < b[n]
       /\ \A m \in 1..(n - 1) : a[m] = b[m]
  \/ Len(a) < Len(b) /\ SubSeq(b, 1, Len(a)) = a

\* to_be_bytes and from_be_bytes.
BigEndian(n, width) == [k \in 1..width |-> (n \div Radix ^ (width - k)) % Radix]
FromBigEndian(bytes) == FoldLeft(LAMBDA n, b : n * Radix + b, 0, bytes)

\* Half of what width bytes can hold: the sign bit.
Half(width) == Radix ^ width \div 2

\* push_bytes_segment and read_bytes_segment: the length comes before the bytes.
LengthWidth == 1
Segment(bytes) == BigEndian(Len(bytes), LengthWidth) \o bytes

\* The tags of the variants of a value, and the widths of the numbers in bytes.
IntTag == [Int16 |-> 16, Int32 |-> 2, Int64 |-> 3]
IntWidth == [Int16 |-> 1, Int32 |-> 2, Int64 |-> 3]
FloatTag == [Float32 |-> 5, Float64 |-> 6]
FloatWidth == [Float32 |-> 1, Float64 |-> 2]
SegmentTag == [Text |-> 4, Numeric |-> 4, Date |-> 4, Timestamp |-> 4, TimestampTz |-> 4,
               Uuid |-> 4, Json |-> 4, Jsonb |-> 4, Bytea |-> 7]

\* encode_ordered_f32, encode_ordered_f64: a float is its sign and its magnitude,
\* the bits below the sign; the bits of a negative one are inverted.
OrderedFloat(value, width) ==
  IF value.negative THEN Radix ^ width - 1 - (Half(width) + value.magnitude)
                    ELSE value.magnitude + Half(width)

\* encode_key_value.  The v of the variants kept as text, and of Bytea, is the
\* sequence of its bytes.  (Arrays, keys inside a key, are left out.)
EncodeKey(value) ==
  CASE value.variant = "Null" -> <<0>>
    [] value.variant = "Boolean" -> <<1, IF value.v THEN 1 ELSE 0>>
    [] value.variant \in DOMAIN IntTag ->
         LET w == IntWidth[value.variant]
         IN <<IntTag[value.variant]>> \o BigEndian((value.v + Half(w)) % Radix ^ w, w)
    [] value.variant \in DOMAIN FloatTag ->
         LET w == FloatWidth[value.variant]
         IN <<FloatTag[value.variant]>> \o BigEndian(OrderedFloat(value.v, w), w)
    [] value.variant \in DOMAIN SegmentTag -> <<SegmentTag[value.variant]>> \o Segment(value.v)

\* decode_ordered_f32, decode_ordered_f64
DecodeFloat(bits, width) ==
  IF bits >= Half(width) THEN [negative |-> FALSE, magnitude |-> bits - Half(width)]
                         ELSE [negative |-> TRUE, magnitude |-> Half(width) - 1 - bits]

BadKey == [variant |-> "Error", v |-> 0]

\* The types of the columns whose keys decode_key_value and decode_mysql_int_key_value
\* read as a variant.  YEAR and BIT are not among them.  (MySqlTiny stands for TINYINT
\* and SMALLINT, MySqlMedium also for both unsigned and for INT.)
KeyTypes ==
  [Boolean |-> {"Boolean"}, Int16 |-> {"Int16", "MySqlTiny"}, Int32 |-> {"Int32", "MySqlMedium"},
   Int64 |-> {"Int64", "MySqlIntUnsigned", "MySqlBig"}, Float32 |-> {"Float32", "MySqlFloat"},
   Float64 |-> {"Float64", "MySqlDouble"},
   Text |-> {"Text", "MySqlText", "VarChar", "Char", "Time", "TimeTz", "Interval", "MySqlTime",
             "Domain", "Enum", "Set", "Geometry"},
   Numeric |-> {"Numeric", "MySqlBigUnsigned"}, Date |-> {"Date"},
   Timestamp |-> {"Timestamp", "MySqlDateTime", "MySqlTimestamp"},
   TimestampTz |-> {"TimestampTz"}, Uuid |-> {"Uuid"}, Json |-> {"Json"}, Jsonb |-> {"Jsonb"},
   Bytea |-> {"Bytea", "Binary", "VarBinary", "Blob"}]

KeyVariant(type) ==
  LET variants == {v \in DOMAIN KeyTypes : type \in KeyTypes[v]}
  IN IF variants = {} THEN "Error" ELSE CHOOSE v \in variants : TRUE

\* decode_key_value: the value at the front of bytes and how many it takes.  The tag
\* must be the one of the type's variant.
DecodeKey(type, bytes) ==
  LET variant == KeyVariant(type)
      part(w) == SubSeq(bytes, 2, 1 + w)
      int(w) == FromBigEndian(part(w)) - Half(w)
      float(w) == DecodeFloat(FromBigEndian(part(w)), w)
      length == FromBigEndian(SubSeq(bytes, 2, 1 + LengthWidth))
      ok(width) == Len(bytes) >= 1 + width
      read(v, width) == [value |-> [variant |-> variant, v |-> v], used |-> 1 + width]
      tagged(tags) == variant \in DOMAIN tags /\ bytes[1] = tags[variant]
      bad == [value |-> BadKey, used |-> 0]
  IN IF bytes = <<>> THEN bad
     ELSE IF bytes[1] = 0 THEN [value |-> [variant |-> "Null", v |-> 0], used |-> 1]
     ELSE IF bytes[1] = 1 /\ variant = "Boolean" /\ ok(1) THEN read(bytes[2] # 0, 1)
     ELSE IF tagged(IntTag) /\ ok(IntWidth[variant])
       THEN read(int(IntWidth[variant]), IntWidth[variant])
     ELSE IF tagged(FloatTag) /\ ok(FloatWidth[variant])
       THEN read(float(FloatWidth[variant]), FloatWidth[variant])
     ELSE IF tagged(SegmentTag) /\ ok(LengthWidth) /\ ok(LengthWidth + length)
       THEN read(SubSeq(bytes, 2 + LengthWidth, 1 + LengthWidth + length), LengthWidth + length)
     ELSE bad

-----------------------------------------------------------------------------
(***************************************************************************)
(* Prefixes and ranges.                                                    *)
(***************************************************************************)

\* The namespaces after the version byte: r rows, v versions, i indexes, o OLAP
\* chunks, s statistics (as numbers in the order of the letters).
RowPrefix_NoEpoch(table, epoch) == <<2, 114>> \o BigEndian(table, 1)
RowPrefix(table, epoch) == <<2, 114>> \o BigEndian(table, 1) \o BigEndian(epoch, 1)
VersionPrefix(table, epoch) == <<2, 118>> \o BigEndian(table, 1) \o BigEndian(epoch, 1)
ChunkPrefix(kind, table, epoch) ==
  <<2, 111, kind>> \o BigEndian(table, 1) \o BigEndian(epoch, 1)
StatsPrefix(table, epoch) == <<2, 115>> \o BigEndian(table, 1) \o BigEndian(epoch, 1)
IndexAllPrefix(index) == <<2, 105>> \o BigEndian(index, 1)

RowKey(table, epoch, pk) == RowPrefix(table, epoch) \o EncodeKey(pk)

\* row_version_key: later versions come first.
RowVersionKey(table, epoch, pk, version) ==
  VersionPrefix(table, epoch) \o EncodeKey(pk) \o BigEndian(Radix - 1 - version, 1)

ChunkKey(kind, table, epoch, chunk) == ChunkPrefix(kind, table, epoch) \o BigEndian(chunk, 1)
StatsKey(table, epoch, column) == StatsPrefix(table, epoch) \o BigEndian(column, 1)

IndexPrefix(index, value) == IndexAllPrefix(index) \o EncodeKey(value)
IndexEntryKey(index, value, pk) == IndexPrefix(index, value) \o EncodeKey(pk)

\* next_prefix: the first key after all keys with the prefix; none when every
\* byte is the largest.
MaxByte == 255
NoEnd == <<-1>>
NextPrefix(prefix) ==
  LET low == {n \in DOMAIN prefix : prefix[n] # MaxByte}
      n == CHOOSE n \in low : \A m \in low : m <= n
  IN IF low = {} THEN NoEnd ELSE Append(SubSeq(prefix, 1, n - 1), prefix[n] + 1)

\* A range scan: from start up to, and without, end.
InRange(key, range) ==
  /\ ~KeyLess(key, range.start)
  /\ range.end = NoEnd \/ KeyLess(key, range.end)

PrefixRange(prefix) == [start |-> prefix, end |-> NextPrefix(prefix)]

\* row_range_between: bounds on the primary key.  A bound is a record with fields
\* value and inclusive, or NoBound.
NoBound == [value |-> BadKey, inclusive |-> FALSE]
RowRangeBetween(table, epoch, lower, upper) ==
  [start |-> IF lower = NoBound THEN RowPrefix(table, epoch)
             ELSE RowKey(table, epoch, lower.value)
                    \o (IF lower.inclusive THEN <<>> ELSE <<0>>),
   end |-> IF upper = NoBound THEN NextPrefix(RowPrefix(table, epoch))
           ELSE RowKey(table, epoch, upper.value)
                  \o (IF upper.inclusive THEN <<0>> ELSE <<>>)]

\* decode_pk_from_row_key and decode_pk_from_index_entry_key: what follows the
\* prefix has to be one value and nothing else.
PkAfter(prefix, key, type) ==
  LET rest == SubSeq(key, Len(prefix) + 1, Len(key))
      read == DecodeKey(type, rest)
  IN IF SubSeq(key, 1, Len(prefix)) = prefix /\ read.used = Len(rest)
       THEN read.value ELSE BadKey
=============================================================================
