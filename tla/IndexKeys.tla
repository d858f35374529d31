----------------------------- MODULE IndexKeys ------------------------------
(***************************************************************************)
(* The keys of a B-tree index over several columns, as src/executor/       *)
(* btree.rs and src/btree/mod.rs encode and decode them (the same code     *)
(* twice), and the iterators of src/btree/scan.rs over sorted entries.     *)
(*                                                                         *)
(* A value is the sequence of its bytes; a column is [desc, nullsFirst].   *)
(* An entry is <<key, pointer>>.                                           *)
(***************************************************************************)
EXTENDS Naturals, Sequences, SequencesExt, FiniteSets

CONSTANTS ByteValues,   \* the values that are encoded
          ColumnLists,  \* the columns of an index
          Entries,      \* the entries of a scan
          NullBytes     \* the bytes of NULL

VARIABLES
  work,     \* "encode" | "decode" | "scan" | "done"
  values,   \* the values of a row, or <<>>
  columns,
  key,      \* what encode_index_key returned
  decoded,  \* what decode_index_key made of it
  entries,  \* the entries of a SkipScanIterator, sorted by key
  position, \* its position, from 0
  visited,  \* what next_distinct has returned so far
  skip      \* its skip_duplicates

keyVars == <<work, values, columns, key, decoded, entries, position, visited, skip>>

IsNullValue(v) == v = <<>> \/ v = NullBytes

\* u32::to_le_bytes of a length below 2^16.
LenBytes(n) == <<n % 256, n \div 256, 0, 0>>

Flag(b) == IF b THEN 1 ELSE 0

\* A missing column counts as ascending with nulls last.
ColumnAt(cols, i) == IF i <= Len(cols) THEN cols[i] ELSE [desc |-> FALSE, nullsFirst |-> FALSE]

Separator == 255

EncodeValue(v, column) ==
  (IF IsNullValue(v) THEN <<0, Flag(column.nullsFirst)>>
   ELSE <<1, Flag(column.desc)>> \o LenBytes(Len(v)) \o v) \o <<Separator>>

EncodeIndexKey(vs, cols) ==
  FlattenSeq([i \in 1 .. Len(vs) |-> EncodeValue(vs[i], ColumnAt(cols, i))])

From(s, n) == SubSeq(s, n, Len(s))

SkipSeparator(k) == IF k # <<>> /\ k[1] = Separator THEN Tail(k) ELSE k

\* A key that ends too early ends the list of values.
RECURSIVE DecodeIndexKey(_)
DecodeIndexKey(k) ==
  IF k = <<>> THEN <<>>
  ELSE IF k[1] = 0 THEN <<NullBytes>> \o DecodeIndexKey(SkipSeparator(From(k, 3)))
  ELSE IF Len(k) < 6 THEN <<>>
  ELSE LET len == k[3] + 256 * k[4] + 65536 * (k[5] + 256 * k[6])
       IN  IF Len(k) < 6 + len THEN <<>>
           ELSE <<SubSeq(k, 7, 6 + len)>> \o DecodeIndexKey(SkipSeparator(From(k, 7 + len)))

-----------------------------------------------------------------------------

ByKey(s) == \A i, j \in 1 .. Len(s) : i < j => s[i][1] <= s[j][1]

KeysInit ==
  /\ key = <<>> /\ decoded = <<>> /\ position = 0 /\ visited = <<>>
  /\ \/ /\ work = "encode"
        /\ values \in UNION {[1 .. n -> ByteValues] : n \in 1 .. 2}
        /\ columns \in ColumnLists
        /\ entries = <<>> /\ skip = FALSE
     \/ /\ work = "scan"
        /\ values = <<>> /\ columns = <<>>
        /\ entries \in {s \in BoundedSeq(Entries, 4) : ByKey(s)}
        /\ skip \in BOOLEAN

Encode ==
  /\ work = "encode"
  /\ work' = "decode"
  /\ key' = EncodeIndexKey(values, columns)
  /\ UNCHANGED <<values, columns, decoded, entries, position, visited, skip>>

Decode ==
  /\ work = "decode"
  /\ work' = "done"
  /\ decoded' = DecodeIndexKey(key)
  /\ UNCHANGED <<values, columns, key, entries, position, visited, skip>>

\* skip_to_next_key, from the place before entry i + 1.
SkipToNextKey(i) ==
  LET later == {j \in i + 2 .. Len(entries) : entries[j][1] # entries[i + 1][1]}
  IN  IF i >= Len(entries) \/ later = {} THEN Len(entries)
      ELSE (CHOOSE j \in later : \A n \in later : j <= n) - 1

\* next_distinct with skip_duplicates returns the last entry of a run.
NextDistinct ==
  /\ work = "scan"
  /\ position < Len(entries)
  /\ LET next == IF skip THEN SkipToNextKey(position) ELSE position + 1
     IN  /\ visited' = Append(visited, entries[next])
         /\ position' = next
  /\ UNCHANGED <<work, values, columns, key, decoded, entries, skip>>

ResetScan ==
  /\ work = "scan"
  /\ position = Len(entries) /\ position > 0
  /\ position' = 0
  /\ visited' = <<>>
  /\ UNCHANGED <<work, values, columns, key, decoded, entries, skip>>

\* deduplicate_entries keeps the first entry of every run.
Deduplicate(s) ==
  FoldLeft(LAMBDA t, e : IF t # <<>> /\ t[Len(t)][1] = e[1] THEN t ELSE Append(t, e), <<>>, s)

KeysNext == Encode \/ Decode \/ NextDistinct \/ ResetScan

-----------------------------------------------------------------------------
(* Properties *)

Normal(vs) == [i \in 1 .. Len(vs) |-> IF IsNullValue(vs[i]) THEN NullBytes ELSE vs[i]]

KeysOf(s) == [i \in 1 .. Len(s) |-> s[i][1]]

\* decode_index_key gives back the values that encode_index_key was given, with an
\* empty text read as NULL, whatever bytes the values hold: no two rows of an
\* index share a key.  A scan that skips duplicates and deduplicate_entries find the
\* same keys, every one once, although they keep different entries of a run.
KeysExact ==
  /\ work = "done" => decoded = Normal(values)
  /\ work = "scan" /\ skip /\ position = Len(entries) =>
       /\ KeysOf(visited) = KeysOf(Deduplicate(entries))
       /\ Range(KeysOf(visited)) = Range(KeysOf(entries))
       /\ Len(visited) = Cardinality(Range(KeysOf(entries)))
  /\ work = "scan" /\ ~skip => visited = SubSeq(entries, 1, position)
=============================================================================
