-------------------------------- MODULE Copy --------------------------------
(***************************************************************************)
(* COPY ... FROM STDIN and LOAD DATA LOCAL (copy.rs, the CopyHandler of    *)
(* protocol_traits.rs).  The client sends a file in messages cut anywhere; *)
(* the server splits what has arrived into lines, collects the writes of   *)
(* whole rows and puts them into the store in batches.                     *)
(*                                                                         *)
(* The table has a primary key and a second column with a unique index.    *)
(* Bytes are one-character strings: "n" is a newline, "r" a carriage       *)
(* return, "q" a quote, "." the end marker \. and digits are values; the    *)
(* NULL option is the empty field.  An index entry stands for its two key  *)
(* formats, which are written together.  One session copies outside a      *)
(* transaction and nobody else writes.  Which batches the store refuses is *)
(* settled with the file; a batch it refuses leaves nothing behind.  After *)
(* an error the connection handles no further message of this COPY         *)
(* (external).                                                             *)
(***************************************************************************)
EXTENDS Integers, Sequences, FiniteSets, SequencesExt

CONSTANTS MaxBatchRows,       \* COPY_WRITE_BATCH_MAX_ROWS
          MaxBatchEntries     \* COPY_WRITE_BATCH_MAX_ENTRIES

VARIABLES file,       \* what the client sends: bytes, csv (or text), header; the rows before;
                      \* refuses: with how many rows inserted the store refuses a batch
          sent,       \* how many bytes have been sent
          copying,    \* the CopyInState
          copied,     \* the rows in the store, from key to value
          entries,    \* the entries of the index, pairs of value and key
          reply       \* "open", "failed", "cancelled" or "done", with copying.inserted

copyVars == <<file, sent, copying, copied, entries, reply>>

NullField == <<>>
FieldValues == {<<"1">>, <<"2">>}

-----------------------------------------------------------------------------
(***************************************************************************)
(* Fields of a line.                                                       *)
(***************************************************************************)

\* split_csv_copy_fields, the escape character being the quote; "error" is an
\* unterminated quote.
SplitCsv(line) ==
  LET at(s, i) ==
        LET ch == line[i]
            more == [s EXCEPT !.field = Append(@, ch)]
        IN IF s.skip THEN [s EXCEPT !.skip = FALSE]
           ELSE IF s.quoted
             THEN IF ch # "q" THEN more
                  ELSE IF i < Len(line) /\ line[i + 1] = "q" THEN [more EXCEPT !.skip = TRUE]
                  ELSE [s EXCEPT !.quoted = FALSE]
           ELSE IF ch = "q" THEN [s EXCEPT !.quoted = TRUE]
           ELSE IF ch = "," THEN [s EXCEPT !.fields = Append(@, s.field), !.field = <<>>]
           ELSE more
      end == FoldLeft(at, [fields |-> <<>>, field |-> <<>>, quoted |-> FALSE, skip |-> FALSE],
                      [i \in DOMAIN line |-> i])
  IN IF end.quoted THEN <<>> ELSE Append(end.fields, end.field)

\* split at every delimiter
SplitText(line) ==
  LET end == FoldLeft(LAMBDA s, ch :
                        IF ch = "," THEN [fields |-> Append(s.fields, s.field), field |-> <<>>]
                        ELSE [s EXCEPT !.field = Append(@, ch)],
                      [fields |-> <<>>, field |-> <<>>], line)
  IN Append(end.fields, end.field)

\* split_copy_fields
SplitFields(f, line) == IF f.csv THEN SplitCsv(line) ELSE SplitText(line)

\* A line without its carriage return.
Stripped(line) == IF line # <<>> /\ Last(line) = "r" THEN Front(line) ELSE line

-----------------------------------------------------------------------------
(***************************************************************************)
(* A line.  s is the state of the server: the CopyInState with the store.  *)
(***************************************************************************)

Refused(s) == [s EXCEPT !.failed = TRUE]

\* txn_put_batch: rows and entries in one batch.
PutBatch(s) ==
  LET rows == {s.pending[i] : i \in {j \in DOMAIN s.pending : s.pending[j].row}}
      last(k) == CHOOSE i \in DOMAIN s.pending :
                   /\ s.pending[i].row /\ s.pending[i].key = k
                   /\ \A j \in (i + 1)..Len(s.pending) :
                        ~(s.pending[j].row /\ s.pending[j].key = k)
      keys == {r.key : r \in rows}
  IN [s EXCEPT !.pending = <<>>, !.pendingRows = 0,
        !.rows = [k \in DOMAIN @ \cup keys |->
                    IF k \in keys THEN s.pending[last(k)].value ELSE @[k]],
        !.index = @ \cup {<<w.value, w.key>> : w \in
                            {s.pending[i] : i \in {j \in DOMAIN s.pending : ~s.pending[j].row}}}]

\* flush_copy_writes: the writes are taken before the store is asked, and gone when
\* it refuses them.
Taken(s) == [s EXCEPT !.pending = <<>>, !.pendingRows = 0]
FlushWrites(s) ==
  IF s.pending = <<>> THEN s
  ELSE IF s.inserted \in file.refuses THEN Refused(Taken(s))
  ELSE PutBatch(s)

\* The three checks of a unique index: entries of other rows in the store and among
\* the writes that wait; and any entry at all under the older key format.
Duplicate_StoreOnly(s, key, value) ==
  value # NullField /\ \E e \in s.index : e[1] = value
Duplicate(s, key, value) ==
  /\ value # NullField
  /\ \/ \E e \in s.index : e[1] = value
     \/ \E i \in DOMAIN s.pending : /\ ~s.pending[i].row
                                   /\ s.pending[i].value = value /\ s.pending[i].key # key

\* The row waits for its batch before the index is looked at, and counts once the
\* batch it may have filled is stored.
Counted(s) == IF s.failed THEN s ELSE [s EXCEPT !.inserted = @ + 1]
AddRow(s, key, value) ==
  LET write(isRow) == [row |-> isRow, key |-> key, value |-> value]
      added == [s EXCEPT !.pending = Append(@, write(TRUE))]
      whole == [added EXCEPT !.pending = Append(@, write(FALSE)), !.pendingRows = @ + 1]
      full == whole.pendingRows >= MaxBatchRows \/ 3 * whole.pendingRows >= MaxBatchEntries
  IN IF Duplicate(s, key, value) THEN Refused(added)
     ELSE Counted(IF full THEN FlushWrites(whole) ELSE whole)

\* apply_copy_line
ApplyLine(s, line) ==
  LET fields == SplitFields(file, Stripped(line))
  IN IF s.failed \/ line = <<>> \/ Stripped(line) = <<".">> THEN s
     ELSE IF s.headerPending THEN [s EXCEPT !.headerPending = FALSE]
     ELSE IF Len(fields) # 2 THEN Refused(s)
     ELSE IF \E i \in 1..2 : fields[i] \notin FieldValues \cup {NullField} THEN Refused(s)
     ELSE IF fields[1] = NullField THEN Refused(s)
     ELSE AddRow(s, fields[1], fields[2])

-----------------------------------------------------------------------------
(***************************************************************************)
(* Messages.                                                               *)
(***************************************************************************)

\* The complete lines of the buffer and the bytes after the last of them.
Cut(bytes) ==
  LET next(s, b) == IF b = "n" THEN [lines |-> Append(s.lines, s.rest), rest |-> <<>>]
                    ELSE [lines |-> s.lines, rest |-> Append(s.rest, b)]
      after[i \in 0..Len(bytes)] ==
        IF i = 0 THEN [lines |-> <<>>, rest |-> <<>>] ELSE next(after[i - 1], bytes[i])
  IN after[Len(bytes)]

\* The lines one after the other.
ApplyLines(s, lines) ==
  LET after[i \in 0..Len(lines)] == IF i = 0 THEN s ELSE ApplyLine(after[i - 1], lines[i])
  IN after[Len(lines)]

\* buffer.drain: what stays for the next message.
Drained_All(rest) == <<>>
Drained(rest) == rest

\* flush_copy_buffer: an error leaves the buffer as it is.
FlushBuffer(s, final) ==
  LET cut == Cut(s.buffer)
      lines == IF final /\ cut.rest # <<>> THEN Append(cut.lines, cut.rest) ELSE cut.lines
      end == ApplyLines(s, lines)
  IN IF end.failed THEN end
     ELSE [end EXCEPT !.buffer = IF final THEN <<>> ELSE Drained(cut.rest)]

\* begin_copy_from_stdin, begin_mysql_load_data_local
EntriesOf(rows) == {<<rows[k], k>> : k \in DOMAIN rows}
CopyInit(f) ==
  /\ file = f /\ sent = 0 /\ reply = "open"
  /\ copied = f.before /\ entries = EntriesOf(f.before)
  /\ copying = [buffer |-> <<>>, headerPending |-> f.header, pending |-> <<>>,
                pendingRows |-> 0, inserted |-> 0]

Server == [buffer |-> copying.buffer, headerPending |-> copying.headerPending,
           pending |-> copying.pending, pendingRows |-> copying.pendingRows,
           inserted |-> copying.inserted, rows |-> copied, index |-> entries, failed |-> FALSE]

\* The handlers leave their state where it was, and the store as they made it.
Leave(s) ==
  /\ copying' = [buffer |-> s.buffer, headerPending |-> s.headerPending, pending |-> s.pending,
                 pendingRows |-> s.pendingRows, inserted |-> s.inserted]
  /\ copied' = s.rows /\ entries' = s.index

\* on_copy_data, push_mysql_load_data_local
OnCopyData(n) ==
  /\ reply = "open" /\ sent + n <= Len(file.bytes)
  /\ LET s == FlushBuffer([Server EXCEPT !.buffer = @ \o SubSeq(file.bytes, sent + 1, sent + n)],
                          FALSE)
     IN /\ Leave(s)
        /\ reply' = IF s.failed THEN "failed" ELSE reply
  /\ sent' = sent + n
  /\ UNCHANGED file

\* on_copy_done, finish_mysql_load_data_local: the writes follow only when the last
\* lines were good.
FinishWrites(s) == IF s.failed THEN s ELSE FlushWrites(s)
OnCopyDone ==
  /\ reply = "open" /\ sent = Len(file.bytes)
  /\ LET s == FinishWrites(FlushBuffer(Server, TRUE))
     IN /\ Leave(s)
        /\ reply' = IF s.failed THEN "failed" ELSE "done"
  /\ UNCHANGED <<file, sent>>

\* on_copy_fail: the state goes, the batches written stay.
OnCopyFail ==
  /\ reply = "open"
  /\ reply' = "cancelled"
  /\ UNCHANGED <<file, sent, copying, copied, entries>>

CopyNext == (\E n \in 1..Len(file.bytes) : OnCopyData(n)) \/ OnCopyDone \/ OnCopyFail

CopySpec(files) == (\E f \in files : CopyInit(f)) /\ [][CopyNext]_copyVars

-----------------------------------------------------------------------------
(***************************************************************************)
(* What a file f says, read in one piece.                                  *)
(***************************************************************************)
AllLines(f) == Append(Cut(f.bytes).lines, Cut(f.bytes).rest)

\* The lines with data, the header among them.
IsData(line) == line # <<>> /\ Stripped(line) # <<".">>
LinesWithData(lines) ==
  LET after[i \in 0..Len(lines)] ==
        IF i = 0 THEN <<>>
        ELSE IF IsData(lines[i]) THEN Append(after[i - 1], Stripped(lines[i])) ELSE after[i - 1]
  IN after[Len(lines)]

DataLines(f) ==
  LET data == LinesWithData(AllLines(f))
  IN IF f.header /\ data # <<>> THEN Tail(data) ELSE data

\* A line that says what to store.
WellFormed(f, line) ==
  LET fields == SplitFields(f, line)
  IN Len(fields) = 2 /\ fields[1] \in FieldValues /\ fields[2] \in FieldValues \cup {NullField}

\* Which of the first n lines give a key a row.
Naming(f, lines, n, key) == {i \in 1..n : SplitFields(f, lines[i])[1] = key}

\* The store has the row of key, and its entry: those of the only line that names it,
\* or as before when none does.  (A key that is named twice, or named and stored before,
\* is the exception the README lists: COPY neither refuses the row nor deletes the entry
\* of the old value.)
HasRow(key, value) == key \in DOMAIN copied /\ copied[key] = value
EntriesFor(key) == {e \in entries : e[2] = key}
StoredAsNamed(f, lines, n, key) ==
  LET naming == Naming(f, lines, n, key)
      was == key \in DOMAIN f.before
      value(i) == SplitFields(f, lines[i])[2]
  IN /\ naming = {} /\ was => /\ HasRow(key, f.before[key])
                              /\ EntriesFor(key) = {<<f.before[key], key>>}
     /\ naming = {} /\ ~was => key \notin DOMAIN copied /\ EntriesFor(key) = {}
     /\ ~was => \A i \in naming : naming = {i} =>
          HasRow(key, value(i)) /\ EntriesFor(key) = {<<value(i), key>>}

\* At any moment the store holds the rows of some first lines of the file, each with
\* its entry, and no others, and never a line that was refused, although its row joins
\* the batch before the index is asked: also when the COPY fails, when the store refuses
\* a batch, or when the client cancels.  When it is done these are all lines, the number
\* it reports, wherever the messages were cut (in a field, in a quote, in a line end,
\* before a last line without one) and however the batches fell.
CopyStoresFirstLines ==
  LET lines == DataLines(file)
      keys == DOMAIN file.before \cup DOMAIN copied \cup {e[2] : e \in entries}
  IN \E n \in 0..Len(lines) :
       /\ \A i \in 1..n : WellFormed(file, lines[i])
       /\ \A key \in keys \cup {SplitFields(file, lines[i])[1] : i \in 1..n} :
            StoredAsNamed(file, lines, n, key)
       /\ reply = "done" => n = Len(lines) /\ copying.inserted = n

\* No two stored rows share a value of the unique index, whether the second came in
\* the batch of the first or after it, and the index finds every row.
CopyKeepsUnique ==
  /\ \A a, b \in DOMAIN copied : copied[a] = copied[b] /\ copied[a] # NullField => a = b
  /\ EntriesOf(copied) \subseteq entries

\* COPY maintains the index: an entry leads to a row with its value.
CopyMaintainsIndexes == entries \subseteq EntriesOf(copied)
=============================================================================
