---------------------------- MODULE Storage_proofs ----------------------------
(***************************************************************************)
(* Proofs about what reaches storage and comes back from it: the byte      *)
(* layouts (Codec), the log, the checkpointer and recovery (Recovery), the *)
(* slotted page (HeapPage, HeapPageOps) and the tables on it (Heap).       *)
(*                                                                         *)
(* Recursive functions are reasoned about by induction over a set: the     *)
(* library's well-foundedness of < on Nat gives the least number that a    *)
(* property fails for.                                                     *)
(***************************************************************************)
EXTENDS Recovery, Heap, HeapPageOps, FiniteSetTheorems, WellFoundedInduction, TLAPS

------------------------------------------------------------------------------
(* Induction                                                               *)

LEMMA LeastNatural ==
  ASSUME NEW T, T \subseteq Nat, T # {}
  PROVE  \E m \in T : \A k \in T : m <= k
<1> DEFINE R == {ss \in Nat \X Nat : ss[1] < ss[2]}
<1>1. IsWellFoundedOn(R, Nat)
  BY NatLessThanWellFounded DEF OpToRel
<1>2. PICK m \in T : \A k \in T : ~ (<<k, m>> \in R)
  BY <1>1, WFMin
<1>3. \A k \in T : <<k, m>> \in Nat \X Nat /\ <<k, m>>[1] = k /\ <<k, m>>[2] = m
  OBVIOUS
<1>4. \A k \in T : ~ (k < m)
  BY <1>2, <1>3
<1> QED
  BY <1>4

LEMMA InductiveSet ==
  ASSUME NEW S, 0 \in S, \A n \in Nat : n \in S => n + 1 \in S
  PROVE  Nat \subseteq S
<1> DEFINE T == {n \in Nat : n \notin S}
<1> SUFFICES ASSUME T # {} PROVE FALSE
  OBVIOUS
<1>1. PICK m \in T : \A k \in T : m <= k
  <2> HIDE DEF T
  <2>1. T \subseteq Nat
    BY DEF T
  <2> QED
    BY <2>1, LeastNatural
<1>2. m # 0 /\ m \in Nat /\ m - 1 \in Nat
  BY <1>1
<1>3. m - 1 \in S
  BY <1>1, <1>2
<1> QED
  BY <1>2, <1>3

------------------------------------------------------------------------------
(* Byte layouts                                                            *)

Put(bytes, v, width) == bytes \o ToLeBytes(v, width)
PutField(bytes, fields, rec, n) == Put(bytes, rec[fields[n][1]], fields[n][2])

(* The function that SerializeFields computes, up to field k.              *)
Chain(fields, rec, k, s) ==
  s = [n \in 0 .. k |-> IF n = 0 THEN << >> ELSE PutField(s[n - 1], fields, rec, n)]

LEMMA ChainExists ==
  ASSUME NEW fields, NEW rec, NEW k \in Nat
  PROVE  \E s : Chain(fields, rec, k, s)
<1> DEFINE S == {j \in Nat : \E s : Chain(fields, rec, j, s)}
<1>1. 0 \in S
  <2> DEFINE s == [n \in 0 .. 0 |-> << >>]
  <2>1. Chain(fields, rec, 0, s)
    BY DEF Chain
  <2> QED
    BY <2>1
<1>2. ASSUME NEW j \in Nat, j \in S
      PROVE  j + 1 \in S
  <2>1. PICK s : Chain(fields, rec, j, s)
    BY <1>2
  <2> DEFINE t == [n \in 0 .. j + 1 |-> IF n = j + 1 THEN PutField(s[j], fields, rec, n) ELSE s[n]]
  <2>2. \A n \in 0 .. j : t[n] = s[n]
    OBVIOUS
  <2>3. s[0] = << >> /\ \A n \in 1 .. j : s[n] = PutField(s[n - 1], fields, rec, n)
    <3>1. \A n \in 0 .. j : s[n] = IF n = 0 THEN << >> ELSE PutField(s[n - 1], fields, rec, n)
      BY <2>1 DEF Chain
    <3>2. 0 \in 0 .. j /\ \A n \in 1 .. j : n \in 0 .. j /\ n # 0
      OBVIOUS
    <3> QED
      BY <3>1, <3>2
  <2>4. \A n \in 0 .. j + 1 : t[n] = IF n = 0 THEN << >> ELSE PutField(t[n - 1], fields, rec, n)
    <3> SUFFICES ASSUME NEW n \in 0 .. j + 1
                 PROVE  t[n] = IF n = 0 THEN << >> ELSE PutField(t[n - 1], fields, rec, n)
      OBVIOUS
    <3>1. CASE n = 0
      BY <2>2, <2>3, <3>1
    <3>2. CASE n \in 1 .. j
      BY <2>2, <2>3, <3>2
    <3>3. CASE n = j + 1
      BY <2>2, <3>3
    <3> QED
      BY <3>1, <3>2, <3>3
  <2>5. Chain(fields, rec, j + 1, t)
    BY <2>4 DEF Chain
  <2> QED
    BY <2>5
<1> QED
  <2> HIDE DEF S
  <2>1. Nat \subseteq S
    BY <1>1, <1>2, InductiveSet
  <2> QED
    BY <2>1 DEF S

(* The bytes are built field by field.                                     *)
LEMMA SerializeChain ==
  ASSUME NEW fields, NEW rec, Len(fields) \in Nat
  PROVE  \E s : Chain(fields, rec, Len(fields), s) /\ SerializeFields(fields, rec) = s[Len(fields)]
<1> DEFINE s == CHOOSE u : Chain(fields, rec, Len(fields), u)
<1>1. Chain(fields, rec, Len(fields), s)
  BY ChainExists
<1>2. SerializeFields(fields, rec) = s[Len(fields)]
  BY DEF SerializeFields, Chain, PutField, Put
<1> QED
  BY <1>1, <1>2

(* off[n] is where field n + 1 starts: the widths add up.                  *)
IsLayout(fields, off) ==
  /\ Len(fields) \in Nat
  /\ off \in [0 .. Len(fields) -> Nat]
  /\ off[0] = 0
  /\ \A n \in 1 .. Len(fields) : fields[n][2] \in Nat \ {0} /\ off[n] = off[n - 1] + fields[n][2]

(* The first n fields are in their places.                                 *)
Placed(bytes, B, fields, off, rec, n) ==
  /\ bytes \in Seq(B)
  /\ Len(bytes) = off[n]
  /\ \A m \in 1 .. n :
       /\ off[m] <= off[n]
       /\ \A i \in 1 .. fields[m][2] : bytes[off[m - 1] + i] = <<rec[fields[m][1]], i>>

LEMMA ByteOffsets ==
  ASSUME NEW lo \in Nat, NEW w \in Nat, NEW hi \in Nat, NEW n \in Nat, hi = lo + w, hi <= n
  PROVE  \A i \in 1 .. w : lo + i \in 1 .. n
  OBVIOUS

BytesIn(B, v, w) == \A i \in 1 .. w : <<v, i>> \in B

(* b is a with the bytes of v put after it.                                *)
Extends(b, a, v, w) ==
  /\ Len(b) = Len(a) + w
  /\ \A i \in 1 .. Len(a) : b[i] = a[i]
  /\ \A i \in 1 .. w : b[Len(a) + i] = <<v, i>>

LEMMA PutBytes ==
  ASSUME NEW B, NEW a \in Seq(B), NEW v, NEW w \in Nat, BytesIn(B, v, w)
  PROVE  Put(a, v, w) \in Seq(B) /\ Extends(Put(a, v, w), a, v, w)
<1> DEFINE c == ToLeBytes(v, w)
<1>1. c \in Seq(B) /\ Len(c) = w /\ \A i \in 1 .. w : c[i] = <<v, i>>
  BY DEF ToLeBytes, BytesIn
<1> HIDE DEF c
<1>2. Put(a, v, w) = a \o c
  BY DEF Put, c
<1>3. /\ a \o c \in Seq(B)
      /\ Len(a \o c) = Len(a) + Len(c)
      /\ \A i \in 1 .. Len(a) : (a \o c)[i] = a[i]
      /\ \A i \in 1 .. Len(c) : (a \o c)[Len(a) + i] = c[i]
  <2>1. c \in Seq(B)
    BY <1>1
  <2> QED
    BY <2>1
<1> QED
  BY <1>1, <1>2, <1>3 DEF Extends

LEMMA FieldsPlaced ==
  ASSUME NEW B, NEW fields, NEW off, NEW rec, IsLayout(fields, off),
         \A n \in 1 .. Len(fields) : \A i \in 1 .. fields[n][2] : <<rec[fields[n][1]], i>> \in B
  PROVE  Placed(SerializeFields(fields, rec), B, fields, off, rec, Len(fields))
<1> DEFINE N == Len(fields)
<1>0. N \in Nat
  BY DEF IsLayout
<1>1. PICK s : Chain(fields, rec, N, s) /\ SerializeFields(fields, rec) = s[N]
  BY <1>0, SerializeChain
<1>2. \A n \in 0 .. N : s[n] = IF n = 0 THEN << >> ELSE PutField(s[n - 1], fields, rec, n)
  BY <1>1 DEF Chain
<1> DEFINE S == {n \in Nat : n <= N => Placed(s[n], B, fields, off, rec, n)}
<1>3. 0 \in S
  <2>1. s[0] = << >>
    BY <1>0, <1>2
  <2> QED
    <3>1. << >> \in Seq(B) /\ Len(<< >>) = 0 /\ 1 .. 0 = {}
      OBVIOUS
    <3>2. off[0] = 0
      BY DEF IsLayout
    <3>3. Placed(<< >>, B, fields, off, rec, 0)
      BY <3>1, <3>2 DEF Placed
    <3> QED
      BY <2>1, <3>3
<1>4. ASSUME NEW n \in Nat, n \in S
      PROVE  n + 1 \in S
  <2> SUFFICES ASSUME n + 1 <= N PROVE Placed(s[n + 1], B, fields, off, rec, n + 1)
    OBVIOUS
  <2>1. Placed(s[n], B, fields, off, rec, n)
    BY <1>0, <1>4
  <2>2. n + 1 \in 0 .. N /\ n + 1 \in 1 .. N /\ n \in 0 .. N /\ (n + 1) - 1 = n /\ n + 1 # 0
    BY <1>0
  <2> DEFINE v == rec[fields[n + 1][1]]
             w == fields[n + 1][2]
  <2>3. s[n + 1] = Put(s[n], v, w)
    BY <1>2, <2>2 DEF PutField
  <2>4. (\A i \in 1 .. w : <<v, i>> \in B) /\ w \in Nat /\ off[n + 1] = off[n] + w /\ off[n] \in Nat
    BY <2>2 DEF IsLayout
  <2>5. s[n] \in Seq(B) /\ Len(s[n]) = off[n]
    BY <2>1 DEF Placed
  <2> HIDE DEF v, w
  <2>6. /\ s[n + 1] \in Seq(B) /\ Len(s[n + 1]) = off[n] + w
        /\ \A i \in 1 .. off[n] : s[n + 1][i] = s[n][i]
        /\ \A i \in 1 .. w : s[n + 1][off[n] + i] = <<v, i>>
    <3>1. PICK a \in Seq(B) : a = s[n]
      BY <2>5
    <3>2. BytesIn(B, v, w)
      BY <2>4 DEF BytesIn
    <3>3. Put(a, v, w) \in Seq(B) /\ Extends(Put(a, v, w), a, v, w)
      BY <2>4, <3>2, PutBytes
    <3> QED
      BY <2>3, <2>5, <3>1, <3>3 DEF Extends
  <2>7. ASSUME NEW m \in 1 .. n + 1
        PROVE  /\ off[m] <= off[n + 1]
               /\ \A i \in 1 .. fields[m][2] : s[n + 1][off[m - 1] + i] = <<rec[fields[m][1]], i>>
    <3>1. CASE m = n + 1
      BY <2>2, <2>4, <2>6, <3>1 DEF v, w
    <3>2. CASE m \in 1 .. n
      <4>1. m \in 1 .. N /\ m \in 0 .. N /\ m - 1 \in 0 .. N
        BY <1>0, <2>2, <3>2
      <4>2. /\ off[m] \in Nat /\ off[m - 1] \in Nat /\ fields[m][2] \in Nat
            /\ off[m] = off[m - 1] + fields[m][2] /\ off[m] <= off[n]
        BY <2>1, <3>2, <4>1 DEF IsLayout, Placed
      <4>3. \A i \in 1 .. fields[m][2] : off[m - 1] + i \in 1 .. off[n]
        BY <2>4, <4>2, ByteOffsets
      <4>4. \A i \in 1 .. fields[m][2] : s[n][off[m - 1] + i] = <<rec[fields[m][1]], i>>
        BY <2>1, <3>2 DEF Placed
      <4>5. \A i \in 1 .. fields[m][2] : s[n + 1][off[m - 1] + i] = s[n][off[m - 1] + i]
        BY <2>6, <4>3
      <4>6. off[m] <= off[n + 1]
        BY <2>4, <4>2
      <4> QED
        BY <4>4, <4>5, <4>6
    <3>3. m = n + 1 \/ m \in 1 .. n
      BY <2>7
    <3> QED
      BY <3>1, <3>2, <3>3
  <2> QED
    BY <2>4, <2>6, <2>7 DEF Placed
<1> QED
  <2> HIDE DEF S
  <2>1. Nat \subseteq S
    BY <1>3, <1>4, InductiveSet
  <2>2. N \in S
    BY <1>0, <2>1
  <2> QED
    BY <1>0, <1>1, <2>2 DEF S

LEMMA BytesRead ==
  ASSUME NEW B, NEW bytes \in Seq(B), NEW lo \in Nat, NEW w \in Nat \ {0}, NEW v,
         lo + w <= Len(bytes), \A i \in 1 .. w : bytes[lo + i] = <<v, i>>
  PROVE  FromLeBytes(bytes, <<lo, lo + w>>) = v
<1> DEFINE slice == SubSeq(bytes, lo + 1, lo + w)
<1>1. slice \in Seq(B) /\ Len(slice) = w /\ \A i \in 1 .. w : slice[i] = bytes[lo + i]
  OBVIOUS
<1>2. slice = ToLeBytes(v, w)
  <2>1. DOMAIN slice = 1 .. w /\ slice = [i \in 1 .. w |-> slice[i]]
    BY <1>1
  <2>2. \A i \in 1 .. w : slice[i] = <<v, i>>
    BY <1>1
  <2> HIDE DEF slice
  <2> QED
    BY <2>1, <2>2 DEF ToLeBytes
<1>3. slice[1][1] = v
  BY <1>1
<1>4. (lo + w) - lo = w
  OBVIOUS
<1> HIDE DEF slice
<1> QED
  BY <1>2, <1>3, <1>4 DEF FromLeBytes, slice

ReadsFollow(reads, fields, off) ==
  \A f \in DOMAIN reads : \E n \in 1 .. Len(fields) : f = fields[n][1] /\ reads[f] = <<off[n - 1], off[n]>>

(* Whatever the fields, their widths and their values: if the ranges that  *)
(* deserialize reads follow each other with the widths that serialize      *)
(* writes, every value comes back.                                         *)
LEMMA RoundTrip ==
  ASSUME NEW fields, NEW off, NEW reads, NEW rec, IsLayout(fields, off), ReadsFollow(reads, fields, off)
  PROVE  DeserializeFields(reads, SerializeFields(fields, rec)) = [f \in DOMAIN reads |-> rec[f]]
<1> DEFINE bytes == SerializeFields(fields, rec)
<1>0. PICK B : B = {rec[fields[n][1]] : n \in 1 .. Len(fields)} \X Nat
  OBVIOUS
<1>1. Placed(bytes, B, fields, off, rec, Len(fields))
  <2>1. \A n \in 1 .. Len(fields) : \A i \in 1 .. fields[n][2] : <<rec[fields[n][1]], i>> \in B
    BY <1>0 DEF IsLayout
  <2> QED
    BY <2>1, FieldsPlaced
<1>2. ASSUME NEW f \in DOMAIN reads
      PROVE  FromLeBytes(bytes, reads[f]) = rec[f]
  <2>1. PICK n \in 1 .. Len(fields) : f = fields[n][1] /\ reads[f] = <<off[n - 1], off[n]>>
    BY DEF ReadsFollow
  <2>2. Len(fields) \in Nat /\ n - 1 \in 0 .. Len(fields) /\ n \in 0 .. Len(fields)
    BY DEF IsLayout
  <2>3. /\ off[n - 1] \in Nat /\ off[n] = off[n - 1] + fields[n][2] /\ fields[n][2] \in Nat \ {0}
        /\ off[n] <= Len(bytes)
    BY <1>1, <2>2 DEF IsLayout, Placed
  <2>4. \A i \in 1 .. fields[n][2] : bytes[off[n - 1] + i] = <<rec[f], i>>
    BY <1>1, <2>1 DEF Placed
  <2>5. bytes \in Seq(B)
    BY <1>1, <2>1 DEF Placed
  <2> HIDE DEF bytes
  <2>6. FromLeBytes(bytes, <<off[n - 1], off[n - 1] + fields[n][2]>>) = rec[f]
    <3>1. PICK w \in Nat \ {0} : w = fields[n][2]
      BY <2>3
    <3>2. PICK lo \in Nat : lo = off[n - 1]
      BY <2>3
    <3>3. PICK v : v = rec[f]
      OBVIOUS
    <3>4. lo + w <= Len(bytes) /\ \A i \in 1 .. w : bytes[lo + i] = <<v, i>>
      BY <2>3, <2>4, <3>1, <3>2, <3>3
    <3>5. FromLeBytes(bytes, <<lo, lo + w>>) = v
      BY <2>5, <3>4, BytesRead
    <3> QED
      BY <3>1, <3>2, <3>3, <3>5
  <2> QED
    BY <2>1, <2>3, <2>6
<1> QED
  BY <1>2 DEF DeserializeFields

(* Where the fields of each structure end.                                 *)
ControlFileEnds == <<8, 12, 16, 24, 32, 36, 40, 44, 48, 52, 56, 60, 68>>
CheckpointEnds == <<4, 8, 12, 16, 20, 24, 28, 36, 44, 48>>
XLogPageHeaderEnds == <<2, 4, 8, 16, 20, 28>>
XLogRecordEnds == <<4, 8, 12, 13, 16, 20>>
PageHeaderEnds == <<8, 12, 14, 16, 18, 20, 22, 26>>
LinePointerEnds == <<2, 4>>

(* The offset before each field, from where the fields end.                *)
Offsets(ends) == [n \in 0 .. Len(ends) |-> IF n = 0 THEN 0 ELSE ends[n]]

LEMMA ControlFileRoundTrip ==
  ASSUME NEW rec, DOMAIN rec = DOMAIN ControlFileReads, rec = [f \in DOMAIN rec |-> rec[f]]
  PROVE  DeserializeFields(ControlFileReads, SerializeFields(ControlFileFields, rec)) = rec
<1> DEFINE off == Offsets(ControlFileEnds)
<1>1. Len(ControlFileFields) = 13 /\ Len(ControlFileEnds) = 13
  BY DEF ControlFileFields, ControlFileEnds
<1>2. \A n \in 1 .. 13 : n = 1 \/ n = 2 \/ n = 3 \/ n = 4 \/ n = 5 \/ n = 6 \/ n = 7 \/ n = 8 \/ n = 9 \/ n = 10 \/ n = 11 \/ n = 12 \/ n = 13
  OBVIOUS
<1>3. off \in [0 .. 13 -> Nat] /\ off[0] = 0
  BY <1>1, <1>2 DEF Offsets, ControlFileEnds
<1>4. \A n \in 1 .. 13 : ControlFileFields[n][2] \in Nat \ {0} /\ off[n] = off[n - 1] + ControlFileFields[n][2]
  BY <1>1, <1>2 DEF Offsets, ControlFileEnds, ControlFileFields
<1>5. IsLayout(ControlFileFields, off)
  BY <1>1, <1>3, <1>4 DEF IsLayout
<1>6. \A f \in DOMAIN ControlFileReads : \E n \in 1 .. 13 : f = ControlFileFields[n][1] /\ ControlFileReads[f] = <<off[n - 1], off[n]>>
  BY <1>1 DEF Offsets, ControlFileEnds, ControlFileFields, ControlFileReads
<1> HIDE DEF off
<1>7. ReadsFollow(ControlFileReads, ControlFileFields, off)
  BY <1>1, <1>6 DEF ReadsFollow
<1>8. DeserializeFields(ControlFileReads, SerializeFields(ControlFileFields, rec)) = [f \in DOMAIN ControlFileReads |-> rec[f]]
  BY <1>5, <1>7, RoundTrip
<1> QED
  BY <1>8

LEMMA CheckpointRoundTrip ==
  ASSUME NEW rec, DOMAIN rec = DOMAIN CheckpointReads, rec = [f \in DOMAIN rec |-> rec[f]]
  PROVE  DeserializeFields(CheckpointReads, SerializeFields(CheckpointFields, rec)) = rec
<1> DEFINE off == Offsets(CheckpointEnds)
<1>1. Len(CheckpointFields) = 10 /\ Len(CheckpointEnds) = 10
  BY DEF CheckpointFields, CheckpointEnds
<1>2. \A n \in 1 .. 10 : n = 1 \/ n = 2 \/ n = 3 \/ n = 4 \/ n = 5 \/ n = 6 \/ n = 7 \/ n = 8 \/ n = 9 \/ n = 10
  OBVIOUS
<1>3. off \in [0 .. 10 -> Nat] /\ off[0] = 0
  BY <1>1, <1>2 DEF Offsets, CheckpointEnds
<1>4. \A n \in 1 .. 10 : CheckpointFields[n][2] \in Nat \ {0} /\ off[n] = off[n - 1] + CheckpointFields[n][2]
  BY <1>1, <1>2 DEF Offsets, CheckpointEnds, CheckpointFields
<1>5. IsLayout(CheckpointFields, off)
  BY <1>1, <1>3, <1>4 DEF IsLayout
<1>6. \A f \in DOMAIN CheckpointReads : \E n \in 1 .. 10 : f = CheckpointFields[n][1] /\ CheckpointReads[f] = <<off[n - 1], off[n]>>
  BY <1>1 DEF Offsets, CheckpointEnds, CheckpointFields, CheckpointReads
<1> HIDE DEF off
<1>7. ReadsFollow(CheckpointReads, CheckpointFields, off)
  BY <1>1, <1>6 DEF ReadsFollow
<1>8. DeserializeFields(CheckpointReads, SerializeFields(CheckpointFields, rec)) = [f \in DOMAIN CheckpointReads |-> rec[f]]
  BY <1>5, <1>7, RoundTrip
<1> QED
  BY <1>8

LEMMA XLogPageHeaderRoundTrip ==
  ASSUME NEW rec, DOMAIN rec = DOMAIN XLogPageHeaderReads, rec = [f \in DOMAIN rec |-> rec[f]]
  PROVE  DeserializeFields(XLogPageHeaderReads, SerializeFields(XLogPageHeaderFields, rec)) = rec
<1> DEFINE off == Offsets(XLogPageHeaderEnds)
<1>1. Len(XLogPageHeaderFields) = 6 /\ Len(XLogPageHeaderEnds) = 6
  BY DEF XLogPageHeaderFields, XLogPageHeaderEnds
<1>2. \A n \in 1 .. 6 : n = 1 \/ n = 2 \/ n = 3 \/ n = 4 \/ n = 5 \/ n = 6
  OBVIOUS
<1>3. off \in [0 .. 6 -> Nat] /\ off[0] = 0
  BY <1>1, <1>2 DEF Offsets, XLogPageHeaderEnds
<1>4. \A n \in 1 .. 6 : XLogPageHeaderFields[n][2] \in Nat \ {0} /\ off[n] = off[n - 1] + XLogPageHeaderFields[n][2]
  BY <1>1, <1>2 DEF Offsets, XLogPageHeaderEnds, XLogPageHeaderFields
<1>5. IsLayout(XLogPageHeaderFields, off)
  BY <1>1, <1>3, <1>4 DEF IsLayout
<1>6. \A f \in DOMAIN XLogPageHeaderReads : \E n \in 1 .. 6 : f = XLogPageHeaderFields[n][1] /\ XLogPageHeaderReads[f] = <<off[n - 1], off[n]>>
  BY <1>1 DEF Offsets, XLogPageHeaderEnds, XLogPageHeaderFields, XLogPageHeaderReads
<1> HIDE DEF off
<1>7. ReadsFollow(XLogPageHeaderReads, XLogPageHeaderFields, off)
  BY <1>1, <1>6 DEF ReadsFollow
<1>8. DeserializeFields(XLogPageHeaderReads, SerializeFields(XLogPageHeaderFields, rec)) = [f \in DOMAIN XLogPageHeaderReads |-> rec[f]]
  BY <1>5, <1>7, RoundTrip
<1> QED
  BY <1>8

LEMMA XLogRecordRoundTrip ==
  ASSUME NEW rec, DOMAIN rec = DOMAIN XLogRecordReads, rec = [f \in DOMAIN rec |-> rec[f]]
  PROVE  DeserializeFields(XLogRecordReads, SerializeFields(XLogRecordFields, rec)) = rec
<1> DEFINE off == Offsets(XLogRecordEnds)
<1>1. Len(XLogRecordFields) = 6 /\ Len(XLogRecordEnds) = 6
  BY DEF XLogRecordFields, XLogRecordEnds
<1>2. \A n \in 1 .. 6 : n = 1 \/ n = 2 \/ n = 3 \/ n = 4 \/ n = 5 \/ n = 6
  OBVIOUS
<1>3. off \in [0 .. 6 -> Nat] /\ off[0] = 0
  BY <1>1, <1>2 DEF Offsets, XLogRecordEnds
<1>4. \A n \in 1 .. 6 : XLogRecordFields[n][2] \in Nat \ {0} /\ off[n] = off[n - 1] + XLogRecordFields[n][2]
  BY <1>1, <1>2 DEF Offsets, XLogRecordEnds, XLogRecordFields
<1>5. IsLayout(XLogRecordFields, off)
  BY <1>1, <1>3, <1>4 DEF IsLayout
<1>6. \A f \in DOMAIN XLogRecordReads : \E n \in 1 .. 6 : f = XLogRecordFields[n][1] /\ XLogRecordReads[f] = <<off[n - 1], off[n]>>
  BY <1>1 DEF Offsets, XLogRecordEnds, XLogRecordFields, XLogRecordReads
<1> HIDE DEF off
<1>7. ReadsFollow(XLogRecordReads, XLogRecordFields, off)
  BY <1>1, <1>6 DEF ReadsFollow
<1>8. DeserializeFields(XLogRecordReads, SerializeFields(XLogRecordFields, rec)) = [f \in DOMAIN XLogRecordReads |-> rec[f]]
  BY <1>5, <1>7, RoundTrip
<1> QED
  BY <1>8

LEMMA PageHeaderRoundTrip ==
  ASSUME NEW rec, DOMAIN rec = DOMAIN PageHeaderReads, rec = [f \in DOMAIN rec |-> rec[f]]
  PROVE  DeserializeFields(PageHeaderReads, SerializeFields(PageHeaderFields, rec)) = rec
<1> DEFINE off == Offsets(PageHeaderEnds)
<1>1. Len(PageHeaderFields) = 8 /\ Len(PageHeaderEnds) = 8
  BY DEF PageHeaderFields, PageHeaderEnds
<1>2. \A n \in 1 .. 8 : n = 1 \/ n = 2 \/ n = 3 \/ n = 4 \/ n = 5 \/ n = 6 \/ n = 7 \/ n = 8
  OBVIOUS
<1>3. off \in [0 .. 8 -> Nat] /\ off[0] = 0
  BY <1>1, <1>2 DEF Offsets, PageHeaderEnds
<1>4. \A n \in 1 .. 8 : PageHeaderFields[n][2] \in Nat \ {0} /\ off[n] = off[n - 1] + PageHeaderFields[n][2]
  BY <1>1, <1>2 DEF Offsets, PageHeaderEnds, PageHeaderFields
<1>5. IsLayout(PageHeaderFields, off)
  BY <1>1, <1>3, <1>4 DEF IsLayout
<1>6. \A f \in DOMAIN PageHeaderReads : \E n \in 1 .. 8 : f = PageHeaderFields[n][1] /\ PageHeaderReads[f] = <<off[n - 1], off[n]>>
  BY <1>1 DEF Offsets, PageHeaderEnds, PageHeaderFields, PageHeaderReads
<1> HIDE DEF off
<1>7. ReadsFollow(PageHeaderReads, PageHeaderFields, off)
  BY <1>1, <1>6 DEF ReadsFollow
<1>8. DeserializeFields(PageHeaderReads, SerializeFields(PageHeaderFields, rec)) = [f \in DOMAIN PageHeaderReads |-> rec[f]]
  BY <1>5, <1>7, RoundTrip
<1> QED
  BY <1>8

LEMMA LinePointerRoundTrip ==
  ASSUME NEW rec, DOMAIN rec = DOMAIN LinePointerReads, rec = [f \in DOMAIN rec |-> rec[f]]
  PROVE  DeserializeFields(LinePointerReads, SerializeFields(LinePointerFields, rec)) = rec
<1> DEFINE off == Offsets(LinePointerEnds)
<1>1. Len(LinePointerFields) = 2 /\ Len(LinePointerEnds) = 2
  BY DEF LinePointerFields, LinePointerEnds
<1>2. \A n \in 1 .. 2 : n = 1 \/ n = 2
  OBVIOUS
<1>3. off \in [0 .. 2 -> Nat] /\ off[0] = 0
  BY <1>1, <1>2 DEF Offsets, LinePointerEnds
<1>4. \A n \in 1 .. 2 : LinePointerFields[n][2] \in Nat \ {0} /\ off[n] = off[n - 1] + LinePointerFields[n][2]
  BY <1>1, <1>2 DEF Offsets, LinePointerEnds, LinePointerFields
<1>5. IsLayout(LinePointerFields, off)
  BY <1>1, <1>3, <1>4 DEF IsLayout
<1>6. \A f \in DOMAIN LinePointerReads : \E n \in 1 .. 2 : f = LinePointerFields[n][1] /\ LinePointerReads[f] = <<off[n - 1], off[n]>>
  BY <1>1 DEF Offsets, LinePointerEnds, LinePointerFields, LinePointerReads
<1> HIDE DEF off
<1>7. ReadsFollow(LinePointerReads, LinePointerFields, off)
  BY <1>1, <1>6 DEF ReadsFollow
<1>8. DeserializeFields(LinePointerReads, SerializeFields(LinePointerFields, rec)) = [f \in DOMAIN LinePointerReads |-> rec[f]]
  BY <1>5, <1>7, RoundTrip
<1> QED
  BY <1>8

EveryValueReturns(fields, reads) ==
  \A V : \A rec \in [DOMAIN reads -> V] : DeserializeFields(reads, SerializeFields(fields, rec)) = rec

(* What deserialize reads from the bytes that serialize wrote is what was  *)
(* there, for every structure of wal/mod.rs and heap_page.rs with a fixed  *)
(* layout and for all values of its fields.                                *)
THEOREM LayoutsRoundTrip ==
  /\ EveryValueReturns(ControlFileFields, ControlFileReads)
  /\ EveryValueReturns(CheckpointFields, CheckpointReads)
  /\ EveryValueReturns(XLogPageHeaderFields, XLogPageHeaderReads)
  /\ EveryValueReturns(XLogRecordFields, XLogRecordReads)
  /\ EveryValueReturns(PageHeaderFields, PageHeaderReads)
  /\ EveryValueReturns(LinePointerFields, LinePointerReads)
  BY ControlFileRoundTrip, CheckpointRoundTrip, XLogPageHeaderRoundTrip, XLogRecordRoundTrip, PageHeaderRoundTrip, LinePointerRoundTrip DEF EveryValueReturns

(* The check of the layouts that recovery's run evaluates holds.           *)
THEOREM LayoutsDoAgree == LayoutsAgree
<1>1. Agree(ControlFileFields, ControlFileReads)
  <2>1. DOMAIN ControlFileFields = 1 .. 13
    BY DEF ControlFileFields
  <2>2. DOMAIN ControlFileReads = {ControlFileFields[n][1] : n \in 1 .. 13}
    BY DEF ControlFileFields, ControlFileReads
  <2> QED
    BY <2>1, <2>2, ControlFileRoundTrip DEF Agree
<1>2. Agree(CheckpointFields, CheckpointReads)
  <2>1. DOMAIN CheckpointFields = 1 .. 10
    BY DEF CheckpointFields
  <2>2. DOMAIN CheckpointReads = {CheckpointFields[n][1] : n \in 1 .. 10}
    BY DEF CheckpointFields, CheckpointReads
  <2> QED
    BY <2>1, <2>2, CheckpointRoundTrip DEF Agree
<1>3. Agree(XLogPageHeaderFields, XLogPageHeaderReads)
  <2>1. DOMAIN XLogPageHeaderFields = 1 .. 6
    BY DEF XLogPageHeaderFields
  <2>2. DOMAIN XLogPageHeaderReads = {XLogPageHeaderFields[n][1] : n \in 1 .. 6}
    BY DEF XLogPageHeaderFields, XLogPageHeaderReads
  <2> QED
    BY <2>1, <2>2, XLogPageHeaderRoundTrip DEF Agree
<1>4. Agree(XLogRecordFields, XLogRecordReads)
  <2>1. DOMAIN XLogRecordFields = 1 .. 6
    BY DEF XLogRecordFields
  <2>2. DOMAIN XLogRecordReads = {XLogRecordFields[n][1] : n \in 1 .. 6}
    BY DEF XLogRecordFields, XLogRecordReads
  <2> QED
    BY <2>1, <2>2, XLogRecordRoundTrip DEF Agree
<1>5. Agree(PageHeaderFields, PageHeaderReads)
  <2>1. DOMAIN PageHeaderFields = 1 .. 8
    BY DEF PageHeaderFields
  <2>2. DOMAIN PageHeaderReads = {PageHeaderFields[n][1] : n \in 1 .. 8}
    BY DEF PageHeaderFields, PageHeaderReads
  <2> QED
    BY <2>1, <2>2, PageHeaderRoundTrip DEF Agree
<1>6. Agree(LinePointerFields, LinePointerReads)
  <2>1. DOMAIN LinePointerFields = 1 .. 2
    BY DEF LinePointerFields
  <2>2. DOMAIN LinePointerReads = {LinePointerFields[n][1] : n \in 1 .. 2}
    BY DEF LinePointerFields, LinePointerReads
  <2> QED
    BY <2>1, <2>2, LinePointerRoundTrip DEF Agree
<1> QED
  BY <1>1, <1>2, <1>3, <1>4, <1>5, <1>6 DEF LayoutsAgree

------------------------------------------------------------------------------
(* The log, the checkpointer and recovery                                  *)

LsnsInOrder ==
  /\ end_lsn \in Nat /\ durable_lsn \in Nat /\ redo_lsn \in Nat
  /\ redo_lsn <= durable_lsn /\ durable_lsn <= end_lsn
  /\ \A r \in records : r.lsn \in Nat

(* While the server runs, a change is in the pool or in storage before its *)
(* record is written; what the pool holds during a checkpoint came after   *)
(* the checkpoint had flushed the pages.                                   *)
PageBeforeRecord ==
  /\ up = "running" => \A r \in records : r.change \in stored \cup dirty
  /\ up = "running" => \A w \in pending : NextChange(w) \in stored \cup dirty
  /\ phase # "none" => dirty \subseteq late

(* Until a recovery is saved, the control file is behind the checkpointer. *)
ControlRedo == DeserializeFields(ControlFileReads, control).redo_lsn

ControlBehind ==
  /\ ~ resaved => ControlRedo \in Nat /\ ControlRedo <= redo_lsn
  /\ up = "recovered" /\ ~ resaved =>
       \A r \in records : r.lsn < redo_lsn \/ r \in result.replayed \/ SegmentOf(r) >= ReaderSegments

RecoveryInv == LsnsInOrder /\ PageBeforeRecord /\ RedoCoversPages /\ ControlBehind

LEMMA PlaceAfterEnd ==
  ASSUME end_lsn \in Nat, NEW len \in Lengths
  PROVE  Place(len) \in Nat /\ Place(len) >= end_lsn /\ len \in Nat
<1>1. end_lsn % WriterSize \in 0 .. WriterSize - 1
  BY SizesAssumption
<1> QED
  BY <1>1, SizesAssumption DEF Place

LEMMA LsnsStep ==
  ASSUME LsnsInOrder, [RecoveryNext]_recVars
  PROVE  LsnsInOrder'
<1> USE DEF LsnsInOrder
<1>1. ASSUME NEW w \in Writers, ChangePage(w)
      PROVE  LsnsInOrder'
  BY <1>1 DEF ChangePage
<1>2. ASSUME NEW w \in Writers, NEW len \in Lengths, AppendToLog(w, len)
      PROVE  LsnsInOrder'
  BY <1>2, PlaceAfterEnd DEF AppendToLog
<1>3. CASE Flush
  BY <1>3 DEF Flush
<1>4. CASE CheckpointPages
  BY <1>4 DEF CheckpointPages
<1>5. CASE CheckpointWal
  BY <1>5 DEF CheckpointWal
<1>6. CASE CheckpointRedo
  BY <1>6 DEF CheckpointRedo
<1>7. CASE SaveControl
  BY <1>7 DEF SaveControl
<1>8. CASE Crash
  BY <1>8 DEF Crash
<1>9. CASE Recover
  BY <1>9 DEF Recover
<1>10. CASE SaveRecovered
  BY <1>10 DEF SaveRecovered
<1>11. CASE UNCHANGED recVars
  BY <1>11 DEF recVars
<1> QED
  BY <1>1, <1>2, <1>3, <1>4, <1>5, <1>6, <1>7, <1>8, <1>9, <1>10, <1>11 DEF RecoveryNext

LEMMA PageBeforeRecordStep ==
  ASSUME PageBeforeRecord, [RecoveryNext]_recVars
  PROVE  PageBeforeRecord'
<1> USE DEF PageBeforeRecord, NextChange
<1>1. ASSUME NEW w \in Writers, ChangePage(w)
      PROVE  PageBeforeRecord'
  BY <1>1 DEF ChangePage
<1>2. ASSUME NEW w \in Writers, NEW len \in Lengths, AppendToLog(w, len)
      PROVE  PageBeforeRecord'
  <2> HIDE DEF NextChange
  <2> DEFINE new == [lsn |-> Place(len), len |-> len, change |-> NextChange(w)]
  <2>1. /\ up = "running" /\ w \in pending /\ records' = records \cup {new}
        /\ pending' = pending \ {w} /\ UNCHANGED <<phase, dirty, stored, late, up>>
    BY <1>2 DEF AppendToLog
  <2>2. new.change = NextChange(w) /\ NextChange(w)[1] = w
    BY DEF NextChange
  <2> HIDE DEF new
  <2>3. \A v \in pending' : NextChange(v)' = NextChange(v)
    <3> SUFFICES ASSUME NEW v \in pending' PROVE NextChange(v)' = NextChange(v)
      OBVIOUS
    <3>1. new.change[1] # v
      BY <2>1, <2>2
    <3>2. {r \in records' : r.change[1] = v} = {r \in records : r.change[1] = v}
      BY <2>1, <3>1
    <3> QED
      BY <3>2 DEF NextChange
  <2> QED
    BY <2>1, <2>2, <2>3
<1>3. CASE Flush
  BY <1>3 DEF Flush
<1>4. CASE CheckpointPages
  BY <1>4 DEF CheckpointPages
<1>5. CASE CheckpointWal
  BY <1>5 DEF CheckpointWal
<1>6. CASE CheckpointRedo
  BY <1>6 DEF CheckpointRedo
<1>7. CASE SaveControl
  BY <1>7 DEF SaveControl
<1>8. CASE Crash
  BY <1>8 DEF Crash
<1>9. CASE Recover
  BY <1>9 DEF Recover
<1>10. CASE SaveRecovered
  BY <1>10 DEF SaveRecovered
<1>11. CASE UNCHANGED recVars
  BY <1>11 DEF recVars
<1> QED
  BY <1>1, <1>2, <1>3, <1>4, <1>5, <1>6, <1>7, <1>8, <1>9, <1>10, <1>11 DEF RecoveryNext

LEMMA RedoCoversStep ==
  ASSUME LsnsInOrder, PageBeforeRecord, RedoCoversPages, [RecoveryNext]_recVars
  PROVE  RedoCoversPages'
<1> USE DEF RedoCoversPages
<1>1. ASSUME NEW w \in Writers, ChangePage(w)
      PROVE  RedoCoversPages'
  BY <1>1 DEF ChangePage
<1>2. ASSUME NEW w \in Writers, NEW len \in Lengths, AppendToLog(w, len)
      PROVE  RedoCoversPages'
  BY <1>2, PlaceAfterEnd DEF AppendToLog, LsnsInOrder
<1>3. CASE Flush
  BY <1>3 DEF Flush
<1>4. CASE CheckpointPages
  BY <1>4 DEF CheckpointPages
<1>5. CASE CheckpointWal
  BY <1>5 DEF CheckpointWal
<1>6. CASE CheckpointRedo
  BY <1>6 DEF CheckpointRedo, PageBeforeRecord
<1>7. CASE SaveControl
  BY <1>7 DEF SaveControl
<1>8. CASE Crash
  BY <1>8 DEF Crash
<1>9. CASE Recover
  BY <1>9 DEF Recover
<1>10. CASE SaveRecovered
  BY <1>10 DEF SaveRecovered
<1>11. CASE UNCHANGED recVars
  BY <1>11 DEF recVars
<1> QED
  BY <1>1, <1>2, <1>3, <1>4, <1>5, <1>6, <1>7, <1>8, <1>9, <1>10, <1>11 DEF RecoveryNext

LEMMA ReplayReaches ==
  ASSUME NEW lsn \in Nat, NEW redo \in Nat, redo <= lsn,
         NEW seg \in Nat, NEW off \in 0 .. WriterSize - 1, lsn = WriterSize * seg + off
  PROVE  /\ redo \div ReaderSize \in Nat
         /\ redo \div ReaderSize <= seg
         /\ seg * ReaderSize + off >= redo
<1> USE SizesAssumption
<1>0. WriterSize \in Nat /\ ReaderSize \in Nat /\ WriterSize > 0 /\ ReaderSize > 0 /\ ReaderSize >= WriterSize
  OBVIOUS
<1>1. PICK p \in Nat, k \in 0 .. ReaderSize - 1 : redo = ReaderSize * p + k /\ p = redo \div ReaderSize
  BY <1>0
<1>2. WriterSize * seg <= ReaderSize * seg /\ WriterSize * p <= ReaderSize * p
  BY <1>0
<1>3. WriterSize * p < WriterSize * (seg + 1)
  BY <1>0, <1>1, <1>2
<1>4. p < seg + 1
  BY <1>0, <1>3
<1>5. seg * ReaderSize = ReaderSize * seg /\ ReaderSize * seg \in Nat
  BY <1>0
<1>6. seg * ReaderSize + off >= redo
  BY <1>0, <1>1, <1>2, <1>5
<1> QED
  BY <1>1, <1>4, <1>6

(* The redo point survives the way through the bytes of the control file.  *)
LEMMA ControlRedoReturns ==
  ASSUME NEW rec, DOMAIN rec = DOMAIN ControlFileReads, rec = [f \in DOMAIN rec |-> rec[f]]
  PROVE  DeserializeFields(ControlFileReads, SerializeFields(ControlFileFields, rec)).redo_lsn = rec.redo_lsn
  BY ControlFileRoundTrip

LEMMA RedoIsField == {"redo_lsn", "check_point_lsn"} \subseteq DOMAIN ControlFileReads
  BY DEF ControlFileReads

LEMMA SegmentAndOffset ==
  ASSUME NEW lsn \in Nat
  PROVE  /\ lsn \div WriterSize \in Nat /\ lsn % WriterSize \in 0 .. WriterSize - 1
         /\ lsn = WriterSize * (lsn \div WriterSize) + (lsn % WriterSize)
<1>1. WriterSize \in Nat /\ WriterSize > 0
  BY SizesAssumption
<1>2. PICK q \in Nat : q = lsn \div WriterSize
  BY <1>1
<1>3. PICK m \in Nat : m = lsn % WriterSize
  BY <1>1
<1>4. m \in 0 .. WriterSize - 1
  BY <1>1, <1>3
<1>5. lsn = WriterSize * (lsn \div WriterSize) + (lsn % WriterSize)
  BY <1>1
<1> QED
  BY <1>2, <1>3, <1>4, <1>5

LEMMA ReplayedFrom ==
  ASSUME LsnsInOrder, NEW redo \in Nat, redo <= redo_lsn, NEW r \in records
  PROVE  r.lsn < redo_lsn \/ r \in Replayed(redo) \/ SegmentOf(r) >= ReaderSegments
<1> SUFFICES ASSUME ~ (r.lsn < redo_lsn), ~ (SegmentOf(r) >= ReaderSegments) PROVE r \in Replayed(redo)
  OBVIOUS
<1>1. r.lsn \in Nat /\ redo <= r.lsn
  BY DEF LsnsInOrder
<1>2. /\ SegmentOf(r) \in Nat /\ OffsetOf(r) \in 0 .. WriterSize - 1
      /\ r.lsn = WriterSize * SegmentOf(r) + OffsetOf(r)
  BY <1>1, SegmentAndOffset DEF SegmentOf, OffsetOf
<1>3. /\ redo \div ReaderSize \in Nat /\ redo \div ReaderSize <= SegmentOf(r)
      /\ SegmentOf(r) * ReaderSize + OffsetOf(r) >= redo
  BY <1>1, <1>2, ReplayReaches
<1>4. SegmentOf(r) \in ReadSegments(redo)
  BY <1>2, <1>3, SizesAssumption DEF ReadSegments
<1>5. ReaderLsn(r) >= redo
  BY <1>3 DEF ReaderLsn
<1> QED
  BY <1>4, <1>5 DEF Replayed

LEMMA ControlBehindStep ==
  ASSUME LsnsInOrder, LsnsInOrder', ControlBehind, [RecoveryNext]_recVars
  PROVE  ControlBehind'
<1> USE DEF ControlBehind, ControlRedo, LsnsInOrder, SegmentOf
<1>1. ASSUME NEW w \in Writers, ChangePage(w)
      PROVE  ControlBehind'
  BY <1>1 DEF ChangePage
<1>2. ASSUME NEW w \in Writers, NEW len \in Lengths, AppendToLog(w, len)
      PROVE  ControlBehind'
  BY <1>2 DEF AppendToLog
<1>3. CASE Flush
  BY <1>3 DEF Flush
<1>4. CASE CheckpointPages
  BY <1>4 DEF CheckpointPages
<1>5. CASE CheckpointWal
  BY <1>5 DEF CheckpointWal
<1>6. CASE CheckpointRedo
  BY <1>6 DEF CheckpointRedo
<1>7. CASE SaveControl
  <2> DEFINE c == DeserializeFields(ControlFileReads, control)
             d == [c EXCEPT !.redo_lsn = redo_lsn, !.check_point_lsn = durable_lsn]
  <2>1. /\ control' = SerializeFields(ControlFileFields, d)
        /\ up = "running" /\ UNCHANGED <<redo_lsn, up, resaved>>
    BY <1>7 DEF SaveControl
  <2>2. DOMAIN d = DOMAIN ControlFileReads /\ d = [f \in DOMAIN d |-> d[f]] /\ d.redo_lsn = redo_lsn
    BY RedoIsField DEF DeserializeFields
  <2> HIDE DEF d
  <2>3. DeserializeFields(ControlFileReads, SerializeFields(ControlFileFields, d)).redo_lsn = d.redo_lsn
    BY <2>2, ControlRedoReturns
  <2> QED
    BY <2>1, <2>2, <2>3
<1>8. CASE Crash
  BY <1>8 DEF Crash
<1>9. CASE Recover
  <2>1. /\ up' = "recovered" /\ UNCHANGED <<redo_lsn, records, control, resaved>>
        /\ result'.replayed = Replayed(ControlRedo)
    BY <1>9 DEF Recover
  <2>2. ASSUME ~ resaved, NEW r \in records
        PROVE  r.lsn < redo_lsn \/ r \in Replayed(ControlRedo) \/ SegmentOf(r) >= ReaderSegments
    <3>1. PICK redo \in Nat : redo = ControlRedo /\ redo <= redo_lsn
      BY <2>2
    <3> HIDE DEF LsnsInOrder, ControlRedo, SegmentOf
    <3> QED
      BY <3>1, ReplayedFrom
  <2> QED
    BY <2>1, <2>2
<1>10. CASE SaveRecovered
  BY <1>10 DEF SaveRecovered
<1>11. CASE UNCHANGED recVars
  BY <1>11 DEF recVars
<1> QED
  BY <1>1, <1>2, <1>3, <1>4, <1>5, <1>6, <1>7, <1>8, <1>9, <1>10, <1>11 DEF RecoveryNext

(* The invariant holds for all segment sizes, record lengths, writers,     *)
(* checkpoints and crashes.                                                *)
THEOREM RecoveryInvariant == RecoverySpec => []RecoveryInv
<1>1. RecoveryInit => RecoveryInv
  <2> SUFFICES ASSUME RecoveryInit PROVE RecoveryInv
    OBVIOUS
  <2>1. DOMAIN CreateControl = DOMAIN ControlFileReads /\ CreateControl = [f \in DOMAIN CreateControl |-> CreateControl[f]]
    BY DEF CreateControl
  <2>2. CreateControl.redo_lsn = 0
    BY RedoIsField DEF CreateControl
  <2>3. ControlRedo = 0
    BY <2>1, <2>2, ControlRedoReturns DEF RecoveryInit, ControlRedo
  <2> QED
    BY <2>3 DEF RecoveryInit, RecoveryInv, LsnsInOrder, PageBeforeRecord, RedoCoversPages, ControlBehind
<1>2. RecoveryInv /\ [RecoveryNext]_recVars => RecoveryInv'
  BY LsnsStep, PageBeforeRecordStep, RedoCoversStep, ControlBehindStep DEF RecoveryInv
<1> QED
  BY <1>1, <1>2, PTL DEF RecoverySpec

(* Every change whose record lies before the redo point is in storage,     *)
(* unless it was made in the pool while a checkpoint was under way.        *)
THEOREM RedoCovers == RecoverySpec => []RedoCoversPages
<1>1. RecoveryInv => RedoCoversPages
  BY DEF RecoveryInv
<1> QED
  BY <1>1, RecoveryInvariant, PTL

(* Until a recovery is saved, no recovery misses a record from the redo    *)
(* point on, although it computes places with its own segment size and the *)
(* redo point has gone through the control file's bytes.                   *)
THEOREM RecoveryMissesNothing == RecoverySpec => []NothingMissed
<1>1. RecoveryInv => NothingMissed
  BY LayoutsDoAgree DEF RecoveryInv, ControlBehind, NothingMissed
<1> QED
  BY <1>1, RecoveryInvariant, PTL

------------------------------------------------------------------------------
(* Slotted pages                                                           *)

(* What a slot adds to the tuple area.                                     *)
SlotLength(p, i) == IF IsStored(p, i) THEN p.tuples[i].len ELSE 0

(* The function StoredLength computes, up to slot n.                       *)
SumsTo(p, n, s) == s = [i \in 0..n |-> IF i = 0 THEN 0 ELSE s[i - 1] + SlotLength(p, i)]

LEMMA SumsExist ==
  ASSUME NEW p, NEW n \in Nat
  PROVE  \E s : SumsTo(p, n, s)
<1> DEFINE S == {j \in Nat : \E s : SumsTo(p, j, s)}
<1>1. 0 \in S
  <2> DEFINE s == [i \in 0..0 |-> 0]
  <2>1. SumsTo(p, 0, s)
    BY DEF SumsTo
  <2> QED
    BY <2>1
<1>2. ASSUME NEW j \in Nat, j \in S
      PROVE  j + 1 \in S
  <2>1. PICK s : SumsTo(p, j, s)
    BY <1>2
  <2> DEFINE t == [i \in 0..j + 1 |-> IF i = j + 1 THEN s[j] + SlotLength(p, i) ELSE s[i]]
  <2>2. \A i \in 0..j : t[i] = s[i]
    OBVIOUS
  <2>3. \A i \in 0..j : s[i] = IF i = 0 THEN 0 ELSE s[i - 1] + SlotLength(p, i)
    BY <2>1 DEF SumsTo
  <2>4. \A i \in 0..j + 1 : t[i] = IF i = 0 THEN 0 ELSE t[i - 1] + SlotLength(p, i)
    <3> SUFFICES ASSUME NEW i \in 0..j + 1
                 PROVE  t[i] = IF i = 0 THEN 0 ELSE t[i - 1] + SlotLength(p, i)
      OBVIOUS
    <3>1. CASE i \in 0..j
      <4>1. i # 0 => i - 1 \in 0..j
        BY <3>1
      <4> HIDE DEF t
      <4> QED
        BY <2>2, <2>3, <3>1, <4>1
    <3>2. CASE i = j + 1
      <4>1. t[i] = s[j] + SlotLength(p, i) /\ t[i - 1] = s[j] /\ i # 0
        BY <3>2
      <4> HIDE DEF t
      <4> QED
        BY <4>1
    <3>3. i \in 0..j \/ i = j + 1
      OBVIOUS
    <3> QED
      BY <3>1, <3>2, <3>3
  <2>5. SumsTo(p, j + 1, t)
    BY <2>4 DEF SumsTo
  <2> QED
    BY <2>5
<1> QED
  <2> HIDE DEF S
  <2>1. Nat \subseteq S
    BY <1>1, <1>2, InductiveSet
  <2> QED
    BY <2>1 DEF S

LEMMA SumsAgree ==
  ASSUME NEW p, NEW n \in Nat, NEW m \in Nat, NEW s, NEW t, SumsTo(p, n, s), SumsTo(p, m, t), n <= m
  PROVE  s[n] = t[n]
<1> DEFINE S == {j \in Nat : j <= n => s[j] = t[j]}
<1>1. \A i \in 0..n : s[i] = IF i = 0 THEN 0 ELSE s[i - 1] + SlotLength(p, i)
  BY DEF SumsTo
<1>2. \A i \in 0..m : t[i] = IF i = 0 THEN 0 ELSE t[i - 1] + SlotLength(p, i)
  BY DEF SumsTo
<1>3. 0 \in S
  BY <1>1, <1>2
<1>4. ASSUME NEW j \in Nat, j \in S
      PROVE  j + 1 \in S
  <2> SUFFICES ASSUME j + 1 <= n PROVE s[j + 1] = t[j + 1]
    OBVIOUS
  <2>1. s[j] = t[j] /\ j + 1 \in 0..n /\ j + 1 \in 0..m /\ (j + 1) - 1 = j /\ j + 1 # 0
    BY <1>4
  <2> QED
    BY <1>1, <1>2, <2>1
<1> QED
  <2> HIDE DEF S
  <2>1. Nat \subseteq S
    BY <1>3, <1>4, InductiveSet
  <2> QED
    BY <2>1 DEF S

LEMMA StoredLengthSums ==
  ASSUME NEW p, NEW n \in Nat
  PROVE  \E s : SumsTo(p, n, s) /\ StoredLength(p, n) = s[n]
<1> DEFINE s == CHOOSE u : SumsTo(p, n, u)
<1>1. SumsTo(p, n, s)
  BY SumsExist
<1>2. StoredLength(p, n) = s[n]
  BY DEF StoredLength, SumsTo, SlotLength
<1> QED
  BY <1>1, <1>2

(* The sum of the lengths, slot by slot.                                   *)
LEMMA StoredLengthStep ==
  ASSUME NEW p, NEW n \in Nat
  PROVE  /\ StoredLength(p, 0) = 0
         /\ StoredLength(p, n + 1) = StoredLength(p, n) + SlotLength(p, n + 1)
<1>1. StoredLength(p, 0) = 0
  <2>1. PICK s : SumsTo(p, 0, s) /\ StoredLength(p, 0) = s[0]
    BY StoredLengthSums
  <2> QED
    BY <2>1 DEF SumsTo
<1>2. PICK s : SumsTo(p, n, s) /\ StoredLength(p, n) = s[n]
  BY StoredLengthSums
<1>3. PICK t : SumsTo(p, n + 1, t) /\ StoredLength(p, n + 1) = t[n + 1]
  BY StoredLengthSums
<1>4. s[n] = t[n]
  <2>1. n + 1 \in Nat /\ n <= n + 1
    OBVIOUS
  <2> QED
    BY <1>2, <1>3, <2>1, SumsAgree
<1>5. t[n + 1] = t[n] + SlotLength(p, n + 1)
  <2>1. \A i \in 0..n + 1 : t[i] = IF i = 0 THEN 0 ELSE t[i - 1] + SlotLength(p, i)
    BY <1>3 DEF SumsTo
  <2>2. n + 1 \in 0..n + 1 /\ n + 1 # 0 /\ (n + 1) - 1 = n
    OBVIOUS
  <2> QED
    BY <2>1, <2>2
<1> QED
  BY <1>1, <1>2, <1>3, <1>4, <1>5

(* Slots up to n take lengths that are numbers.                            *)
LengthsOk(p, n) == \A i \in 1..n : SlotLength(p, i) \in Nat

LEMMA StoredLengthType ==
  ASSUME NEW p, NEW n \in Nat, LengthsOk(p, n)
  PROVE  \A i \in 0..n : StoredLength(p, i) \in Nat
<1> DEFINE S == {j \in Nat : j <= n => StoredLength(p, j) \in Nat}
<1>1. 0 \in S
  BY StoredLengthStep
<1>2. ASSUME NEW j \in Nat, j \in S
      PROVE  j + 1 \in S
  <2> SUFFICES ASSUME j + 1 <= n PROVE StoredLength(p, j + 1) \in Nat
    OBVIOUS
  <2>1. StoredLength(p, j) \in Nat /\ j + 1 \in 1..n
    BY <1>2
  <2>2. SlotLength(p, j + 1) \in Nat
    BY <2>1 DEF LengthsOk
  <2> QED
    BY <2>1, <2>2, StoredLengthStep
<1> QED
  <2> HIDE DEF S
  <2>1. Nat \subseteq S
    BY <1>1, <1>2, InductiveSet
  <2> QED
    BY <2>1 DEF S

LEMMA StoredLengthGrows ==
  ASSUME NEW p, NEW n \in Nat, LengthsOk(p, n), NEW i \in 0..n, NEW j \in 0..n, i <= j
  PROVE  StoredLength(p, i) <= StoredLength(p, j)
<1> DEFINE S == {k \in Nat : i + k <= n => StoredLength(p, i) <= StoredLength(p, i + k)}
<1>0. \A k \in 0..n : StoredLength(p, k) \in Nat
  BY StoredLengthType
<1>1. 0 \in S
  <2>1. i + 0 = i /\ StoredLength(p, i) \in Nat
    BY <1>0
  <2> QED
    BY <2>1
<1>2. ASSUME NEW k \in Nat, k \in S
      PROVE  k + 1 \in S
  <2> SUFFICES ASSUME i + (k + 1) <= n PROVE StoredLength(p, i) <= StoredLength(p, i + (k + 1))
    OBVIOUS
  <2>1. StoredLength(p, i) <= StoredLength(p, i + k) /\ i + k \in Nat /\ i + k \in 0..n /\ (i + k) + 1 \in 1..n /\ i + (k + 1) = (i + k) + 1
    BY <1>2
  <2>2. SlotLength(p, (i + k) + 1) \in Nat
    BY <2>1 DEF LengthsOk
  <2>3. StoredLength(p, (i + k) + 1) = StoredLength(p, i + k) + SlotLength(p, (i + k) + 1)
    BY <2>1, StoredLengthStep
  <2>4. PICK a \in Nat, b \in Nat, c \in Nat :
          a = StoredLength(p, i) /\ b = StoredLength(p, i + k) /\ c = SlotLength(p, (i + k) + 1)
    BY <1>0, <2>1, <2>2
  <2> QED
    BY <2>1, <2>3, <2>4
<1> QED
  <2> HIDE DEF S
  <2>1. Nat \subseteq S
    BY <1>1, <1>2, InductiveSet
  <2>2. j - i \in S /\ i + (j - i) = j
    BY <2>1
  <2> QED
    BY <2>2 DEF S

(* Slots that store nothing add nothing.                                   *)
LEMMA StoredLengthGap ==
  ASSUME NEW p, NEW n \in Nat, LengthsOk(p, n), NEW i \in 0..n, NEW j \in 0..n, i <= j,
         \A k \in i + 1 .. j : ~ IsStored(p, k)
  PROVE  StoredLength(p, i) = StoredLength(p, j)
<1> DEFINE S == {k \in Nat : i + k <= j => StoredLength(p, i) = StoredLength(p, i + k)}
<1>0. \A k \in 0..n : StoredLength(p, k) \in Nat
  BY StoredLengthType
<1>1. 0 \in S
  <2>1. i + 0 = i
    OBVIOUS
  <2> QED
    BY <2>1
<1>2. ASSUME NEW k \in Nat, k \in S
      PROVE  k + 1 \in S
  <2> SUFFICES ASSUME i + (k + 1) <= j PROVE StoredLength(p, i) = StoredLength(p, i + (k + 1))
    OBVIOUS
  <2>1. StoredLength(p, i) = StoredLength(p, i + k) /\ i + k \in Nat /\ i + k \in 0..n /\ (i + k) + 1 \in i + 1 .. j /\ i + (k + 1) = (i + k) + 1
    BY <1>2
  <2>2. SlotLength(p, (i + k) + 1) = 0
    BY <2>1 DEF SlotLength
  <2>3. StoredLength(p, (i + k) + 1) = StoredLength(p, i + k) + 0
    BY <2>1, <2>2, StoredLengthStep
  <2> QED
    BY <1>0, <2>1, <2>3
<1> QED
  <2> HIDE DEF S
  <2>1. Nat \subseteq S
    BY <1>1, <1>2, InductiveSet
  <2>2. j - i \in S /\ i + (j - i) = j
    BY <2>1
  <2> QED
    BY <2>2 DEF S

(* Tuples that take room.                                                  *)
HaveLength(T) == \A t \in T : t.len \in Nat \ {0}

LinePointers == [lp_offset : Int, lp_flags : 0..2]

(* A page whose normal slots hold tuples of T.                             *)
PageOf(T, p) ==
  /\ p \in [lower : Nat, upper : Int, line_pointers : Seq(LinePointers), tuples : Seq(T \cup {EmptyTuple})]
  /\ Len(p.tuples) = Len(p.line_pointers)
  /\ p.lower = PageHeaderSize + Len(p.line_pointers) * LinePointerSize
  /\ \A i \in 1..Len(p.line_pointers) : IsNormal(p, i) => p.tuples[i] \in T

NoneDead(p) == \A i \in 1..Len(p.line_pointers) : p.line_pointers[i].lp_flags # LP_DEAD

(* The slots a page stores, and what they hold.                            *)
Normal(p) == {i \in 1..Len(p.line_pointers) : IsNormal(p, i)}
Tuples(p) == {p.tuples[i] : i \in Normal(p)}

LEMMA NormalStored ==
  ASSUME NEW T, HaveLength(T), NEW p, PageOf(T, p)
  PROVE  /\ Len(p.line_pointers) \in Nat /\ Slots(p) = 1..Len(p.line_pointers)
         /\ \A i \in 1..Len(p.line_pointers) : IsStored(p, i) <=> IsNormal(p, i)
         /\ \A i \in Normal(p) : p.tuples[i] \in T /\ p.tuples[i].len \in Nat \ {0}
         /\ \A i \in Normal(p) : SlotLength(p, i) = p.tuples[i].len
         /\ LengthsOk(p, Len(p.line_pointers))
<1> DEFINE n == Len(p.line_pointers)
<1>1. n \in Nat /\ DOMAIN p.line_pointers = 1..n /\ Len(p.tuples) = n
  BY DEF PageOf
<1>2. \A i \in 1..n : IsNormal(p, i) => p.tuples[i] \in T
  BY DEF PageOf
<1>3. \A i \in 1..n : IsNormal(p, i) => p.tuples[i].len \in Nat \ {0}
  BY <1>2 DEF HaveLength
<1> HIDE DEF n
<1>4. \A i \in 1..n : IsStored(p, i) <=> IsNormal(p, i)
  BY <1>1, <1>3 DEF IsStored
<1>5. \A i \in Normal(p) : p.tuples[i] \in T /\ p.tuples[i].len \in Nat \ {0}
  BY <1>2, <1>3 DEF Normal, n
<1>6. \A i \in Normal(p) : SlotLength(p, i) = p.tuples[i].len
  BY <1>4 DEF SlotLength, Normal, n
<1>7. LengthsOk(p, n)
  BY <1>3, <1>4 DEF LengthsOk, SlotLength
<1> QED
  BY <1>1, <1>4, <1>5, <1>6, <1>7 DEF Slots, n

(* Where the tuple of a slot starts and ends on the page.                  *)
Start(p, i) == PageSize - StoredLength(p, i)

LEMMA Starts ==
  ASSUME NEW T, HaveLength(T), NEW p, PageOf(T, p)
  PROVE  /\ \A i \in 0..Len(p.line_pointers) : Start(p, i) \in Int /\ Start(p, i) <= PageSize
         /\ \A i \in Normal(p) : /\ Start(p, i) < Start(p, i - 1)
                                 /\ Start(p, i) + p.tuples[i].len = Start(p, i - 1)
         /\ \A i \in 0..Len(p.line_pointers), j \in 0..Len(p.line_pointers) :
              i <= j => Start(p, j) <= Start(p, i)
         /\ \A i, j \in Normal(p) : Start(p, i) = Start(p, j) => i = j
<1> DEFINE n == Len(p.line_pointers)
<1>0. n \in Nat /\ PageSize \in Nat
  BY NormalStored, PageConstants
<1>1. LengthsOk(p, n)
  BY NormalStored
<1>2. \A i \in 0..n : StoredLength(p, i) \in Nat
  BY <1>0, <1>1, StoredLengthType
<1>3. \A i \in 0..n : Start(p, i) \in Int /\ Start(p, i) <= PageSize
  BY <1>0, <1>2 DEF Start
<1>4. \A i \in 0..n, j \in 0..n : i <= j => Start(p, j) <= Start(p, i)
  <2> SUFFICES ASSUME NEW i \in 0..n, NEW j \in 0..n, i <= j PROVE Start(p, j) <= Start(p, i)
    OBVIOUS
  <2>1. StoredLength(p, i) <= StoredLength(p, j)
    BY <1>0, <1>1, StoredLengthGrows
  <2> QED
    BY <1>0, <1>2, <2>1 DEF Start
<1>5. ASSUME NEW i \in Normal(p)
      PROVE  Start(p, i) < Start(p, i - 1) /\ Start(p, i) + p.tuples[i].len = Start(p, i - 1)
  <2>1. i \in 1..n /\ i - 1 \in Nat /\ i - 1 \in 0..n /\ i \in 0..n /\ (i - 1) + 1 = i
    BY <1>0 DEF Normal
  <2>2. StoredLength(p, i) = StoredLength(p, i - 1) + SlotLength(p, i)
    BY <2>1, StoredLengthStep
  <2>3. PICK a \in Nat \ {0} : a = p.tuples[i].len /\ a = SlotLength(p, i)
    BY NormalStored
  <2>4. PICK b \in Nat : b = StoredLength(p, i - 1)
    BY <1>2, <2>1
  <2> QED
    BY <1>0, <2>2, <2>3, <2>4 DEF Start
<1>6. \A i, j \in Normal(p) : Start(p, i) = Start(p, j) => i = j
  <2>1. ASSUME NEW i \in Normal(p), NEW j \in Normal(p), i < j
        PROVE  Start(p, i) # Start(p, j)
    <3>1. i \in 0..n /\ j - 1 \in 0..n /\ i <= j - 1 /\ j \in 0..n
      BY <1>0, <2>1 DEF Normal
    <3>2. Start(p, j - 1) <= Start(p, i) /\ Start(p, j) < Start(p, j - 1)
      BY <1>4, <1>5, <3>1
    <3> QED
      BY <1>3, <3>1, <3>2
  <2>2. \A i \in Normal(p) : i \in Int
    BY DEF Normal
  <2> QED
    BY <2>1, <2>2
<1> QED
  BY <1>3, <1>4, <1>5, <1>6

(* The pointer that comes back from storage.                               *)
Repointed(p, i) ==
  [lp_offset |-> IF IsNormal(p, i) THEN Start(p, i) ELSE 0, lp_flags |-> p.line_pointers[i].lp_flags]

LEMMA RepointedFields ==
  ASSUME NEW p, NEW i
  PROVE  /\ Repointed(p, i).lp_flags = p.line_pointers[i].lp_flags
         /\ IsNormal(p, i) => Repointed(p, i).lp_offset = Start(p, i)
  BY DEF Repointed

(* The page that comes back from storage.                                  *)
Relaid(p) ==
  [lower |-> p.lower, upper |-> Start(p, Len(p.line_pointers)),
   line_pointers |-> [i \in 1..Len(p.line_pointers) |->
      Repointed(p, i)],
   tuples |-> [i \in 1..Len(p.line_pointers) |-> IF IsNormal(p, i) THEN p.tuples[i] ELSE EmptyTuple]]

TupleAt(p, i) == [start |-> Start(p, i), end |-> Start(p, i) + p.tuples[i].len, tuple |-> p.tuples[i]]

LEMMA SerializedParts ==
  ASSUME NEW T, HaveLength(T), NEW p, PageOf(T, p)
  PROVE  Serialize(p) = [lower |-> p.lower, upper |-> Start(p, Len(p.line_pointers)),
                         line_pointers |-> Relaid(p).line_pointers,
                         area |-> {TupleAt(p, i) : i \in Normal(p)}]
<1> DEFINE n == Len(p.line_pointers)
<1>1. \A i \in 1..n : IsStored(p, i) <=> IsNormal(p, i)
  BY NormalStored
<1>2. {i \in 1..n : IsStored(p, i)} = Normal(p)
  BY <1>1 DEF Normal
<1>3. p.lower = PageHeaderSize + n * LinePointerSize
  BY DEF PageOf
<1> DEFINE lp(i) == [p.line_pointers[i] EXCEPT
                  !.lp_offset = CASE IsStored(p, i) -> PageSize - StoredLength(p, i)
                                  [] IsNormal(p, i) /\ ~IsStored(p, i) -> @
                                  [] OTHER -> 0]
<1>4. ASSUME NEW i \in 1..n
      PROVE  lp(i) = Repointed(p, i)
  <2>1. p.line_pointers[i] \in LinePointers
    BY DEF PageOf
  <2> QED
    BY <1>1, <2>1 DEF Start, LinePointers, Repointed
<1>5. [i \in 1..n |-> lp(i)] = Relaid(p).line_pointers
  <2> HIDE DEF lp
  <2>1. Relaid(p).line_pointers = [i \in 1..n |-> Repointed(p, i)]
    BY DEF Relaid
  <2> QED
    BY <1>4, <2>1
<1>6. Serialize(p) = [lower |-> PageHeaderSize + n * LinePointerSize, upper |-> Start(p, n),
                      line_pointers |-> [i \in 1..n |-> lp(i)],
                      area |-> {TupleAt(p, i) : i \in {j \in 1..n : IsStored(p, j)}}]
  BY DEF Serialize, Start, TupleAt
<1> HIDE DEF lp
<1> QED
  BY <1>2, <1>3, <1>5, <1>6

LEMMA PointersFit ==
  ASSUME NEW n \in Nat
  PROVE  ((PageHeaderSize + n * LinePointerSize) - PageHeaderSize) \div LinePointerSize = n
<1>1. PICK w \in Nat : w = LinePointerSize /\ w > 0
  BY PageConstants
<1>2. PICK h \in Nat : h = PageHeaderSize
  BY PageConstants
<1>3. PICK m \in Nat : m = n * w
  BY <1>1
<1>4. (h + m) - h = m
  OBVIOUS
<1>5. m \div w = n
  <2>1. m = w * n /\ 0 \in 0..w - 1
    BY <1>1, <1>3
  <2> QED
    BY <1>1, <1>3, <2>1
<1> QED
  BY <1>1, <1>2, <1>3, <1>4, <1>5

LEMMA NearestNormal ==
  ASSUME NEW N, NEW n \in Nat, N \subseteq 1..n, N # {}
  PROVE  \E j \in N : \A k \in N : k <= j
<1> DEFINE T == {n - k : k \in N}
<1>1. T \subseteq Nat /\ T # {}
  <2>1. \A k \in N : n - k \in Nat
    OBVIOUS
  <2>2. PICK k \in N : n - k \in T
    OBVIOUS
  <2> QED
    BY <2>1, <2>2
<1>2. PICK m \in T : \A k \in T : m <= k
  <2> HIDE DEF T
  <2> QED
    BY <1>1, LeastNatural
<1>3. PICK j \in N : m = n - j
  OBVIOUS
<1>4. \A k \in N : n - j <= n - k /\ k \in 1..n /\ j \in 1..n
  BY <1>2, <1>3
<1>5. \A k \in N : k <= j
  BY <1>4
<1> QED
  BY <1>5

(* deserialize finds every tuple where serialize put it: a normal pointer  *)
(* and the nearest normal one before it delimit exactly the tuple's bytes. *)
LEMMA PageReturns ==
  ASSUME NEW T, HaveLength(T), NEW p, PageOf(T, p)
  PROVE  Deserialize(Serialize(p)) = Relaid(p)
<1> DEFINE n == Len(p.line_pointers)
           lps == Relaid(p).line_pointers
<1>0. PICK img : img = Serialize(p)
  OBVIOUS
<1>1. /\ img.lower = p.lower /\ img.upper = Start(p, n)
      /\ img.line_pointers = lps
      /\ img.area = {TupleAt(p, i) : i \in Normal(p)}
  BY <1>0, SerializedParts
<1>2. n \in Nat /\ PageSize \in Nat
  BY NormalStored, PageConstants
<1>3. (img.lower - PageHeaderSize) \div LinePointerSize = n
  BY <1>1, <1>2, PointersFit DEF PageOf
<1>4. \A i \in 1..n : lps[i] = Repointed(p, i)
  BY DEF Relaid
<1>5. \A i \in 1..n : IsNormal(img, i) <=> IsNormal(p, i)
  <2>1. \A i \in 1..n : lps[i].lp_flags = p.line_pointers[i].lp_flags
    <3> HIDE DEF lps, n
    <3> QED
      BY <1>4, RepointedFields
  <2> HIDE DEF lps
  <2> QED
    BY <1>1, <2>1 DEF IsNormal
<1>6. \A i \in Normal(p) : lps[i].lp_offset = Start(p, i)
  <2>1. \A i \in Normal(p) : i \in 1..n /\ IsNormal(p, i)
    BY DEF Normal
  <2> HIDE DEF lps, n
  <2> QED
    BY <1>4, <2>1, RepointedFields
<1>7. \A i \in 0..n : Start(p, i) \in Int /\ Start(p, i) <= PageSize
  BY Starts
<1>8. lps \in Seq(LinePointers) /\ Len(lps) = n /\ SubSeq(lps, 1, n) = lps
  <2>1. lps \in [1..n -> LinePointers]
    <3>1. \A i \in 1..n : Repointed(p, i) \in LinePointers
      <4> SUFFICES ASSUME NEW i \in 1..n
                   PROVE  Repointed(p, i) \in LinePointers
        OBVIOUS
      <4>1. p.line_pointers[i] \in LinePointers /\ Start(p, i) \in Int
        BY <1>2, <1>7 DEF PageOf
      <4> QED
        BY <4>1 DEF LinePointers, Repointed
    <3> QED
      BY <3>1 DEF Relaid
  <2> HIDE DEF lps
  <2>2. lps \in Seq(LinePointers) /\ Len(lps) = n
    BY <1>2, <2>1
  <2>3. PICK q \in Seq(LinePointers) : q = lps
    BY <2>2
  <2>4. PICK m \in Nat : m = n /\ Len(q) = m
    BY <1>2, <2>2, <2>3
  <2>5. SubSeq(q, 1, m) = q
    BY <2>4
  <2> QED
    BY <2>2, <2>3, <2>4, <2>5
<1> HIDE DEF lps, n
<1> DEFINE normalBefore(i) == {j \in 1..(i - 1) : IsNormal(img, j)}
           nearest(i) == CHOOSE j \in normalBefore(i) : \A k \in normalBefore(i) : k <= j
           start(i) == img.line_pointers[i].lp_offset
           end(i) == IF normalBefore(i) = {} THEN PageSize ELSE img.line_pointers[nearest(i)].lp_offset
           found(i) == {a \in img.area : a.start = start(i) /\ a.end = end(i)}
<1>9. ASSUME NEW i \in Normal(p)
      PROVE  start(i) = Start(p, i) /\ end(i) = Start(p, i - 1)
  <2>1. i \in 1..n /\ i - 1 \in 0..n
    BY <1>2 DEF Normal, n
  <2>2. \A j \in 1..(i - 1) : j \in 1..n
    BY <1>2, <2>1
  <2>3. normalBefore(i) \subseteq Normal(p)
    BY <1>5, <2>2 DEF Normal, n
  <2>4. LengthsOk(p, n) /\ \A k \in 1..n : IsStored(p, k) <=> IsNormal(p, k)
    BY NormalStored DEF n
  <2>5. CASE normalBefore(i) = {}
    <3>1. \A k \in 0 + 1 .. i - 1 : ~ IsStored(p, k)
      BY <1>5, <2>2, <2>4, <2>5
    <3>2. StoredLength(p, 0) = StoredLength(p, i - 1)
      <4>1. 0 \in 0..n /\ 0 <= i - 1
        BY <1>2, <2>1
      <4> QED
        BY <1>2, <2>1, <2>4, <3>1, <4>1, StoredLengthGap
    <3>3. StoredLength(p, 0) = 0
      BY StoredLengthStep, <1>2
    <3> QED
      BY <1>1, <1>2, <1>6, <2>5, <3>2, <3>3 DEF Start
  <2>6. CASE normalBefore(i) # {}
    <3>1. PICK m \in normalBefore(i) : \A k \in normalBefore(i) : k <= m
      <4>1. normalBefore(i) \subseteq 1..(i - 1) /\ i - 1 \in Nat
        BY <2>1
      <4>2. PICK N : N = normalBefore(i)
        OBVIOUS
      <4> QED
        BY <2>6, <4>1, <4>2, NearestNormal
    <3>2. nearest(i) \in normalBefore(i) /\ \A k \in normalBefore(i) : k <= nearest(i)
      <4>1. PICK N : N = normalBefore(i)
        OBVIOUS
      <4>2. \E j \in N : \A k \in N : k <= j
        BY <3>1, <4>1
      <4> HIDE DEF normalBefore
      <4> QED
        BY <4>1, <4>2
    <3>3. PICK j : j = nearest(i)
      OBVIOUS
    <3>4. j \in 1..(i - 1) /\ j \in Normal(p) /\ j \in 0..n /\ j <= i - 1
      BY <2>1, <2>3, <3>2, <3>3, <1>2
    <3>5. \A k \in j + 1 .. i - 1 : ~ IsStored(p, k)
      <4> SUFFICES ASSUME NEW k \in j + 1 .. i - 1 PROVE ~ IsStored(p, k)
        OBVIOUS
      <4>1. k \in 1..(i - 1) /\ ~ (k <= j)
        BY <3>4, <2>1
      <4>2. k \notin normalBefore(i)
        BY <3>2, <3>3, <4>1
      <4> QED
        BY <1>5, <2>2, <2>4, <4>1, <4>2
    <3>6. StoredLength(p, j) = StoredLength(p, i - 1)
      BY <1>2, <2>1, <2>4, <3>4, <3>5, StoredLengthGap
    <3> HIDE DEF normalBefore, nearest
    <3> QED
      BY <1>1, <1>6, <2>6, <3>3, <3>4, <3>6 DEF Start
  <2> QED
    BY <2>5, <2>6
<1>10. ASSUME NEW i \in Normal(p)
       PROVE  /\ start(i) < end(i) /\ end(i) <= PageSize /\ found(i) # {}
              /\ (CHOOSE a \in found(i) : TRUE).tuple = p.tuples[i]
  <2>1. i \in 1..n /\ i - 1 \in 0..n /\ i \in 0..n
    BY <1>2 DEF Normal, n
  <2>2. start(i) = Start(p, i) /\ end(i) = Start(p, i - 1)
    BY <1>9
  <2>3. start(i) < end(i) /\ end(i) <= PageSize
    BY <2>1, <2>2, <1>7, Starts DEF n
  <2>4. Start(p, i) + p.tuples[i].len = Start(p, i - 1)
    BY Starts
  <2> HIDE DEF start, end
  <2>5. TupleAt(p, i) \in found(i)
    BY <1>1, <2>2, <2>4 DEF TupleAt
  <2>6. \A a \in found(i) : a = TupleAt(p, i)
    <3> SUFFICES ASSUME NEW j \in Normal(p), TupleAt(p, j).start = start(i)
                 PROVE  TupleAt(p, j) = TupleAt(p, i)
      BY <1>1
    <3>1. Start(p, j) = Start(p, i)
      BY <2>2 DEF TupleAt
    <3> QED
      BY <3>1, Starts
  <2>7. PICK F : F = found(i)
    OBVIOUS
  <2>8. (CHOOSE a \in F : TRUE) = TupleAt(p, i)
    BY <2>5, <2>6, <2>7
  <2>9. TupleAt(p, i).tuple = p.tuples[i]
    BY DEF TupleAt
  <2> HIDE DEF found
  <2> QED
    BY <2>3, <2>5, <2>7, <2>8, <2>9
<1>11. Deserialize(img) =
         [lower |-> img.lower, upper |-> img.upper,
          line_pointers |-> SubSeq(img.line_pointers, 1, n),
          tuples |-> [i \in 1..n |-> IF IsNormal(img, i) /\ start(i) < end(i) /\ end(i) <= PageSize
                                          /\ found(i) # {}
                                     THEN (CHOOSE a \in found(i) : TRUE).tuple
                                     ELSE EmptyTuple]]
  BY <1>3 DEF Deserialize
<1> HIDE DEF start, end, found, normalBefore, nearest
<1>12. \A i \in 1..n : (IF IsNormal(img, i) /\ start(i) < end(i) /\ end(i) <= PageSize /\ found(i) # {}
                        THEN (CHOOSE a \in found(i) : TRUE).tuple ELSE EmptyTuple)
                      = IF IsNormal(p, i) THEN p.tuples[i] ELSE EmptyTuple
  BY <1>5, <1>10 DEF Normal, n
<1>13. Deserialize(img) = [lower |-> p.lower, upper |-> Start(p, n), line_pointers |-> lps,
          tuples |-> [i \in 1..n |-> IF IsNormal(p, i) THEN p.tuples[i] ELSE EmptyTuple]]
  BY <1>1, <1>8, <1>11, <1>12
<1> QED
  BY <1>0, <1>13 DEF Relaid, lps, n

(* The page that comes back is again one, with the same tuples.            *)
LEMMA RelaidPage ==
  ASSUME NEW T, HaveLength(T), NEW p, PageOf(T, p)
  PROVE  /\ PageOf(T, Relaid(p))
         /\ Len(Relaid(p).line_pointers) = Len(p.line_pointers)
         /\ NoneDead(p) => NoneDead(Relaid(p))
         /\ Normal(Relaid(p)) = Normal(p)
         /\ \A i \in Normal(p) : Relaid(p).tuples[i] = p.tuples[i]
         /\ \A i \in 1..Len(p.line_pointers) : i \notin Normal(p) => Relaid(p).tuples[i] = EmptyTuple
         /\ Tuples(Relaid(p)) = Tuples(p)
<1> DEFINE n == Len(p.line_pointers)
           lps == Relaid(p).line_pointers
           ts == Relaid(p).tuples
<1>0. n \in Nat
  BY NormalStored
<1>1. \A i \in 1..n : lps[i] = Repointed(p, i)
  BY DEF Relaid
<1>2. \A i \in 1..n : ts[i] = IF IsNormal(p, i) THEN p.tuples[i] ELSE EmptyTuple
  BY DEF Relaid
<1>3. \A i \in 0..n : Start(p, i) \in Int
  BY Starts
<1>4. \A i \in 1..n : Repointed(p, i) \in LinePointers
  <2> SUFFICES ASSUME NEW i \in 1..n
               PROVE  Repointed(p, i) \in LinePointers
    OBVIOUS
  <2>1. p.line_pointers[i] \in LinePointers /\ Start(p, i) \in Int
    BY <1>0, <1>3 DEF PageOf
  <2> QED
    BY <2>1 DEF LinePointers, Repointed
<1>5. lps \in Seq(LinePointers) /\ Len(lps) = n
  <2>1. lps \in [1..n -> LinePointers]
    BY <1>4 DEF Relaid
  <2> HIDE DEF lps, n
  <2> QED
    BY <1>0, <2>1
<1>6. ts \in Seq(T \cup {EmptyTuple}) /\ Len(ts) = n
  <2>1. \A i \in 1..n : IsNormal(p, i) => p.tuples[i] \in T
    BY DEF PageOf
  <2>2. ts \in [1..n -> T \cup {EmptyTuple}]
    BY <2>1 DEF Relaid
  <2> HIDE DEF ts, n
  <2> QED
    BY <1>0, <2>2
<1>16. \A i \in 1..n : Relaid(p).line_pointers[i].lp_flags = p.line_pointers[i].lp_flags
  <2> HIDE DEF n
  <2>1. \A i \in 1..n : lps[i].lp_flags = p.line_pointers[i].lp_flags
    <3> HIDE DEF lps
    <3> QED
      BY <1>1, RepointedFields
  <2> QED
    BY <2>1
<1>7. \A i \in 1..n : IsNormal(Relaid(p), i) <=> IsNormal(p, i)
  <2> HIDE DEF n, lps
  <2> QED
    BY <1>16 DEF IsNormal
<1>8. Normal(Relaid(p)) = Normal(p)
  BY <1>5, <1>7 DEF Normal
<1>9. Relaid(p).lower = p.lower /\ Relaid(p).upper \in Int
  BY <1>0, <1>3 DEF Relaid
<1>10. Relaid(p) = [lower |-> Relaid(p).lower, upper |-> Relaid(p).upper, line_pointers |-> lps, tuples |-> ts]
  BY DEF Relaid
<1>11. PageOf(T, Relaid(p))
  <2>1. p.lower = PageHeaderSize + n * LinePointerSize /\ p.lower \in Nat /\ \A i \in 1..n : IsNormal(p, i) => p.tuples[i] \in T
    BY DEF PageOf
  <2>2. PICK q : q = Relaid(p)
    OBVIOUS
  <2>3. /\ q.lower \in Nat /\ q.upper \in Int /\ q.line_pointers \in Seq(LinePointers) /\ q.tuples \in Seq(T \cup {EmptyTuple})
        /\ q = [lower |-> q.lower, upper |-> q.upper, line_pointers |-> q.line_pointers, tuples |-> q.tuples]
    BY <1>5, <1>6, <1>9, <1>10, <2>1, <2>2
  <2>4. \A i \in 1..n : IsNormal(Relaid(p), i) => ts[i] \in T
    BY <1>2, <1>7, <2>1
  <2>5. q \in [lower : Nat, upper : Int, line_pointers : Seq(LinePointers), tuples : Seq(T \cup {EmptyTuple})]
    BY <2>3
  <2> HIDE DEF n
  <2> QED
    BY <1>5, <1>6, <1>9, <2>1, <2>2, <2>4, <2>5 DEF PageOf
<1>12. NoneDead(p) => NoneDead(Relaid(p))
  BY <1>16, <1>5 DEF NoneDead
<1>13. \A i \in Normal(p) : ts[i] = p.tuples[i]
  BY <1>2 DEF Normal
<1>14. \A i \in 1..n : i \notin Normal(p) => ts[i] = EmptyTuple
  BY <1>2 DEF Normal
<1>15. Tuples(Relaid(p)) = Tuples(p)
  BY <1>8, <1>13 DEF Tuples
<1> QED
  BY <1>5, <1>8, <1>11, <1>12, <1>13, <1>14, <1>15

(* A page with a tuple in a new slot, and one whose slot redirects.        *)
Grown(p, t) ==
  [lower |-> p.lower + LinePointerSize, upper |-> p.upper - t.len,
   line_pointers |-> Append(p.line_pointers, LinePointer(p.upper - t.len)),
   tuples |-> Append(p.tuples, t)]

Redirected(p, old, new) ==
  [lower |-> p.lower, upper |-> p.upper,
   line_pointers |-> [p.line_pointers EXCEPT ![old] = [lp_offset |-> new, lp_flags |-> LP_REDIRECT]],
   tuples |-> p.tuples]

HasRoom(p, t) == p.lower + LinePointerSize <= p.upper - t.len

LEMMA RoomOrNot ==
  ASSUME NEW T, HaveLength(T), NEW p, PageOf(T, p), NEW t \in T
  PROVE  (p.lower + LinePointerSize > p.upper - t.len) <=> ~ HasRoom(p, t)
<1>1. p.lower \in Int /\ p.upper \in Int /\ t.len \in Int /\ LinePointerSize \in Int
  BY PageConstants DEF PageOf, HaveLength
<1> QED
  BY <1>1 DEF HasRoom

LEMMA AddTupleResult ==
  ASSUME NEW T, HaveLength(T), NEW p, PageOf(T, p), NoneDead(p), NEW t \in T
  PROVE  /\ HasRoom(p, t) => AddTuple(p, t) = [page |-> Grown(p, t), slot |-> Len(p.line_pointers) + 1]
         /\ ~ HasRoom(p, t) => AddTuple(p, t) = [page |-> p, slot |-> 0]
<1>1. DeadSlots(p) = {}
  <2>1. DOMAIN p.line_pointers = 1..Len(p.line_pointers)
    BY DEF PageOf
  <2> QED
    BY <2>1 DEF DeadSlots, NoneDead, Slots
<1> QED
  BY <1>1, RoomOrNot, Zenon DEF AddTuple, Grown

LEMMA GrownPage ==
  ASSUME NEW T, HaveLength(T), NEW p, PageOf(T, p), NEW t \in T
  PROVE  LET q == Grown(p, t) n == Len(p.line_pointers) IN
         /\ PageOf(T, q) /\ Len(q.line_pointers) = n + 1
         /\ NoneDead(p) => NoneDead(q)
         /\ \A i \in 1..n : q.line_pointers[i] = p.line_pointers[i] /\ q.tuples[i] = p.tuples[i]
         /\ q.tuples[n + 1] = t
         /\ Normal(q) = Normal(p) \cup {n + 1}
<1> DEFINE q == Grown(p, t)
           n == Len(p.line_pointers)
           u == p.upper - t.len
           lps == Append(p.line_pointers, LinePointer(u))
           ts == Append(p.tuples, t)
<1>1. n \in Nat /\ p.line_pointers \in Seq(LinePointers) /\ p.tuples \in Seq(T \cup {EmptyTuple}) /\ Len(p.tuples) = n
  BY DEF PageOf
<1>2. u \in Int
  BY DEF PageOf, HaveLength
<1>3. LinePointer(u) \in LinePointers /\ LinePointer(u).lp_flags = LP_NORMAL
  BY <1>2 DEF LinePointer, LinePointers, LP_NORMAL
<1> HIDE DEF u
<1>4. /\ lps \in Seq(LinePointers) /\ Len(lps) = n + 1
      /\ \A i \in 1..n : lps[i] = p.line_pointers[i]
      /\ lps[n + 1] = LinePointer(u)
  <2>1. PICK a \in Seq(LinePointers) : a = p.line_pointers
    BY <1>1
  <2>2. PICK x \in LinePointers : x = LinePointer(u)
    BY <1>3
  <2>3. /\ Append(a, x) \in Seq(LinePointers) /\ Len(Append(a, x)) = Len(a) + 1
        /\ \A i \in 1..Len(a) : Append(a, x)[i] = a[i]
        /\ Append(a, x)[Len(a) + 1] = x
    OBVIOUS
  <2> QED
    BY <2>1, <2>2, <2>3
<1>5. /\ ts \in Seq(T \cup {EmptyTuple}) /\ Len(ts) = n + 1
      /\ \A i \in 1..n : ts[i] = p.tuples[i]
      /\ ts[n + 1] = t
  <2>1. PICK B : B = T \cup {EmptyTuple}
    OBVIOUS
  <2>2. PICK a \in Seq(B) : a = p.tuples
    BY <1>1, <2>1
  <2>3. t \in B
    BY <2>1
  <2>4. /\ Append(a, t) \in Seq(B) /\ Len(Append(a, t)) = Len(a) + 1
        /\ \A i \in 1..Len(a) : Append(a, t)[i] = a[i]
        /\ Append(a, t)[Len(a) + 1] = t
    BY <2>3
  <2> QED
    BY <1>1, <2>1, <2>2, <2>4
<1>6. q = [lower |-> p.lower + LinePointerSize, upper |-> u, line_pointers |-> lps, tuples |-> ts]
  BY DEF Grown, u
<1>7. q.line_pointers = lps /\ q.tuples = ts /\ q.lower = p.lower + LinePointerSize /\ q.upper = u
  BY <1>6
<1> HIDE DEF lps, ts, q
<1>8. q.lower = PageHeaderSize + (n + 1) * LinePointerSize /\ q.lower \in Nat
  <2>1. p.lower = PageHeaderSize + n * LinePointerSize /\ p.lower \in Nat
    BY DEF PageOf
  <2>2. (n + 1) * LinePointerSize = n * LinePointerSize + LinePointerSize /\ n * LinePointerSize \in Nat /\ LinePointerSize \in Nat /\ PageHeaderSize \in Nat
    BY <1>1, PageConstants
  <2> HIDE DEF n
  <2> QED
    BY <1>7, <2>1, <2>2
<1>9. \A i \in 1..n + 1 : i \in 1..n \/ i = n + 1
  BY <1>1
<1>10. \A i \in 1..n : IsNormal(q, i) <=> IsNormal(p, i)
  BY <1>4, <1>7 DEF IsNormal
<1>11. IsNormal(q, n + 1)
  BY <1>3, <1>4, <1>7 DEF IsNormal
<1>12. \A i \in 1..n : IsNormal(p, i) => p.tuples[i] \in T
  BY DEF PageOf
<1>13. \A i \in 1..n + 1 : IsNormal(q, i) => q.tuples[i] \in T
  <2> HIDE DEF n
  <2> QED
    BY <1>5, <1>7, <1>9, <1>10, <1>12
<1>14. PageOf(T, q)
  <2>1. q \in [lower : Nat, upper : Int, line_pointers : Seq(LinePointers), tuples : Seq(T \cup {EmptyTuple})]
    BY <1>2, <1>4, <1>5, <1>6, <1>7, <1>8
  <2>2. Len(q.line_pointers) = n + 1 /\ Len(q.tuples) = n + 1
    BY <1>4, <1>5, <1>7
  <2> HIDE DEF n
  <2> QED
    BY <1>8, <1>13, <2>1, <2>2 DEF PageOf
<1>15. Normal(q) = Normal(p) \cup {n + 1}
  <2>1. Len(q.line_pointers) = n + 1
    BY <1>4, <1>7
  <2>2. n + 1 \in 1..n + 1 /\ \A i \in 1..n : i \in 1..n + 1
    BY <1>1
  <2> HIDE DEF n
  <2> QED
    BY <1>9, <1>10, <1>11, <2>1, <2>2 DEF Normal, n
<1>16. NoneDead(p) => NoneDead(q)
  <2>1. Len(q.line_pointers) = n + 1
    BY <1>4, <1>7
  <2>2. LP_NORMAL # LP_DEAD
    BY DEF LP_NORMAL, LP_DEAD
  <2> HIDE DEF n
  <2> QED
    BY <1>3, <1>4, <1>7, <1>9, <2>1, <2>2 DEF NoneDead, n
<1> QED
  BY <1>4, <1>5, <1>7, <1>14, <1>15, <1>16 DEF q

LEMMA RedirectedPage ==
  ASSUME NEW T, HaveLength(T), NEW p, PageOf(T, p), NEW old \in 1..Len(p.line_pointers), NEW new \in Int
  PROVE  LET q == Redirected(p, old, new) n == Len(p.line_pointers) IN
         /\ PageOf(T, q) /\ Len(q.line_pointers) = n
         /\ NoneDead(p) => NoneDead(q)
         /\ q.tuples = p.tuples
         /\ \A i \in 1..n : i # old => q.line_pointers[i] = p.line_pointers[i]
         /\ q.line_pointers[old].lp_flags = LP_REDIRECT /\ q.line_pointers[old].lp_offset = new
         /\ Normal(q) = Normal(p) \ {old}
<1> DEFINE q == Redirected(p, old, new)
           n == Len(p.line_pointers)
           x == [lp_offset |-> new, lp_flags |-> LP_REDIRECT]
           lps == [p.line_pointers EXCEPT ![old] = x]
<1>1. n \in Nat /\ p.line_pointers \in Seq(LinePointers) /\ Len(p.tuples) = n
  BY DEF PageOf
<1>2. x \in LinePointers /\ x.lp_flags = LP_REDIRECT /\ x.lp_offset = new
  BY DEF LinePointers, LP_REDIRECT
<1> HIDE DEF x
<1>3. /\ lps \in Seq(LinePointers) /\ Len(lps) = n
      /\ \A i \in 1..n : i # old => lps[i] = p.line_pointers[i]
      /\ lps[old] = x
  BY <1>1, <1>2
<1>4. q = [lower |-> p.lower, upper |-> p.upper, line_pointers |-> lps, tuples |-> p.tuples]
  BY DEF Redirected, x
<1>5. q.line_pointers = lps /\ q.tuples = p.tuples /\ q.lower = p.lower /\ q.upper = p.upper
  BY <1>4
<1> HIDE DEF lps, q
<1>6. \A i \in 1..n : i # old => (IsNormal(q, i) <=> IsNormal(p, i))
  BY <1>3, <1>5 DEF IsNormal
<1>7. ~ IsNormal(q, old)
  BY <1>2, <1>3, <1>5 DEF IsNormal, LP_NORMAL, LP_REDIRECT
<1>8. \A i \in 1..n : IsNormal(p, i) => p.tuples[i] \in T
  BY DEF PageOf
<1>9. PageOf(T, q)
  <2>1. p.lower \in Nat /\ p.upper \in Int /\ p.tuples \in Seq(T \cup {EmptyTuple}) /\ p.lower = PageHeaderSize + n * LinePointerSize
    BY DEF PageOf
  <2>2. q \in [lower : Nat, upper : Int, line_pointers : Seq(LinePointers), tuples : Seq(T \cup {EmptyTuple})]
    BY <1>3, <1>4, <2>1
  <2>3. \A i \in 1..n : IsNormal(q, i) => q.tuples[i] \in T
    BY <1>5, <1>6, <1>7, <1>8
  <2> QED
    BY <1>1, <1>3, <1>5, <2>1, <2>2, <2>3 DEF PageOf
<1>10. Normal(q) = Normal(p) \ {old}
  BY <1>3, <1>5, <1>6, <1>7 DEF Normal
<1>11. NoneDead(p) => NoneDead(q)
  BY <1>2, <1>3, <1>5 DEF NoneDead, LP_REDIRECT, LP_DEAD
<1> QED
  BY <1>2, <1>3, <1>5, <1>9, <1>10, <1>11 DEF q

LEMMA HotUpdateResult ==
  ASSUME NEW T, HaveLength(T), NEW p, PageOf(T, p), NEW old \in Normal(p), NEW t \in T
  PROVE  LET n == Len(p.line_pointers) IN
         /\ HasRoom(p, t) => HotUpdate(p, old, t) = [page |-> Grown(Redirected(p, old, n + 1), t), slot |-> n + 1]
         /\ ~ HasRoom(p, t) => HotUpdate(p, old, t) = [page |-> p, slot |-> 0]
<1>1. DOMAIN p.line_pointers = 1..Len(p.line_pointers)
  BY DEF PageOf
<1>2. old \in Slots(p) /\ IsNormal(p, old)
  BY <1>1 DEF Normal, Slots
<1> QED
  BY <1>2, RoomOrNot DEF HotUpdate, Grown, Redirected

(* Less in every slot is less in sum.                                      *)
LEMMA StoredLengthLess ==
  ASSUME NEW p, NEW q, NEW n \in Nat, LengthsOk(p, n), LengthsOk(q, n),
         \A i \in 1..n : SlotLength(q, i) <= SlotLength(p, i)
  PROVE  StoredLength(q, n) <= StoredLength(p, n)
<1> DEFINE S == {j \in Nat : j <= n => StoredLength(q, j) <= StoredLength(p, j)}
<1>0. \A k \in 0..n : StoredLength(p, k) \in Nat /\ StoredLength(q, k) \in Nat
  BY StoredLengthType
<1>1. 0 \in S
  BY StoredLengthStep
<1>2. ASSUME NEW j \in Nat, j \in S
      PROVE  j + 1 \in S
  <2> SUFFICES ASSUME j + 1 <= n PROVE StoredLength(q, j + 1) <= StoredLength(p, j + 1)
    OBVIOUS
  <2>1. StoredLength(q, j) <= StoredLength(p, j) /\ j + 1 \in 1..n /\ j \in 0..n
    BY <1>2
  <2>2. PICK a \in Nat, b \in Nat : a = SlotLength(q, j + 1) /\ b = SlotLength(p, j + 1) /\ a <= b
    BY <2>1 DEF LengthsOk
  <2>3. PICK c \in Nat, d \in Nat : c = StoredLength(q, j) /\ d = StoredLength(p, j) /\ c <= d
    BY <1>0, <2>1
  <2>4. StoredLength(q, j + 1) = c + a /\ StoredLength(p, j + 1) = d + b
    BY <2>2, <2>3, StoredLengthStep
  <2> QED
    BY <2>2, <2>3, <2>4
<1> QED
  <2> HIDE DEF S
  <2>1. Nat \subseteq S
    BY <1>1, <1>2, InductiveSet
  <2>2. n \in S
    BY <2>1
  <2> QED
    BY <2>2 DEF S

------------------------------------------------------------------------------
(* The slots of a set, in order                                            *)

Rank(K, i) == Cardinality({j \in K : j <= i})
Nth(K, k) == CHOOSE i \in K : Rank(K, i) = k

LEMMA RankEnds ==
  ASSUME NEW n \in Nat, NEW K, K \subseteq 1..n
  PROVE  IsFiniteSet(K) /\ Cardinality(K) \in Nat /\ Rank(K, n) = Cardinality(K) /\ Rank(K, 0) = 0
<1>1. IsFiniteSet(1..n)
  BY FS_Interval
<1>2. IsFiniteSet(K) /\ Cardinality(K) \in Nat
  BY <1>1, FS_Subset, FS_CardinalityType
<1>3. \A j \in K : j <= n /\ ~ (j <= 0)
  OBVIOUS
<1>4. {j \in K : j <= 0} = {} /\ {j \in K : j <= n} = K
  BY <1>3
<1> QED
  BY <1>2, <1>4, FS_EmptySet DEF Rank

LEMMA RankType ==
  ASSUME NEW n \in Nat, NEW K, K \subseteq 1..n, NEW i \in Nat
  PROVE  IsFiniteSet({j \in K : j <= i}) /\ Rank(K, i) \in Nat
<1>1. IsFiniteSet(K) /\ {j \in K : j <= i} \subseteq K
  BY RankEnds
<1>2. IsFiniteSet({j \in K : j <= i})
  BY <1>1, FS_Subset
<1> QED
  BY <1>2, FS_CardinalityType DEF Rank

LEMMA RankStep ==
  ASSUME NEW n \in Nat, NEW K, K \subseteq 1..n, NEW i \in Nat
  PROVE  Rank(K, i + 1) = IF i + 1 \in K THEN Rank(K, i) + 1 ELSE Rank(K, i)
<1>1. CASE i + 1 \notin K
  <2>1. \A j \in K : j <= i + 1 <=> j <= i
    <3> SUFFICES ASSUME NEW j \in K PROVE j <= i + 1 <=> j <= i
      OBVIOUS
    <3>1. j \in Nat /\ j # i + 1
      BY <1>1
    <3> QED
      BY <3>1
  <2>2. {j \in K : j <= i + 1} = {j \in K : j <= i}
    BY <2>1
  <2> QED
    BY <1>1, <2>2 DEF Rank
<1>2. CASE i + 1 \in K
  <2>1. \A j \in K : j <= i + 1 <=> (j <= i \/ j = i + 1)
    <3> SUFFICES ASSUME NEW j \in K PROVE j <= i + 1 <=> (j <= i \/ j = i + 1)
      OBVIOUS
    <3>1. j \in Nat
      OBVIOUS
    <3> QED
      BY <3>1
  <2>2. {j \in K : j <= i + 1} = {j \in K : j <= i} \cup {i + 1}
    BY <1>2, <2>1
  <2>3. i + 1 \notin {j \in K : j <= i}
    OBVIOUS
  <2>4. IsFiniteSet({j \in K : j <= i})
    BY RankType
  <2>5. Cardinality({j \in K : j <= i} \cup {i + 1}) = Cardinality({j \in K : j <= i}) + 1
    BY <2>3, <2>4, FS_AddElement
  <2> QED
    BY <1>2, <2>2, <2>5 DEF Rank
<1> QED
  BY <1>1, <1>2

LEMMA RankGrows ==
  ASSUME NEW n \in Nat, NEW K, K \subseteq 1..n, NEW i \in Nat, NEW j \in Nat, i <= j
  PROVE  Rank(K, i) <= Rank(K, j) /\ Rank(K, j) <= Rank(K, i) + (j - i)
<1> DEFINE S == {m \in Nat : Rank(K, i) <= Rank(K, i + m) /\ Rank(K, i + m) <= Rank(K, i) + m}
<1>0. \A m \in Nat : Rank(K, m) \in Nat
  BY RankType
<1>1. 0 \in S
  <2>1. i + 0 = i /\ Rank(K, i) \in Nat
    BY <1>0
  <2> QED
    BY <2>1
<1>2. ASSUME NEW m \in Nat, m \in S
      PROVE  m + 1 \in S
  <2>1. i + (m + 1) = (i + m) + 1 /\ i + m \in Nat
    OBVIOUS
  <2>2. PICK a \in Nat, b \in Nat, c \in Nat : a = Rank(K, i) /\ b = Rank(K, i + m) /\ c = Rank(K, (i + m) + 1)
    BY <1>0, <2>1
  <2>3. a <= b /\ b <= a + m
    BY <1>2, <2>2
  <2>4. c = b \/ c = b + 1
    <3>1. PICK x \in Nat : x = i + m
      BY <2>1
    <3>2. Rank(K, x + 1) = Rank(K, x) \/ Rank(K, x + 1) = Rank(K, x) + 1
      BY RankStep
    <3> QED
      BY <2>2, <3>1, <3>2
  <2> QED
    BY <2>1, <2>2, <2>3, <2>4
<1> QED
  <2> HIDE DEF S
  <2>1. Nat \subseteq S
    BY <1>1, <1>2, InductiveSet
  <2>2. j - i \in S /\ i + (j - i) = j
    BY <2>1
  <2> QED
    BY <2>2 DEF S

LEMMA RankOnto ==
  ASSUME NEW n \in Nat, NEW K, K \subseteq 1..n, NEW k \in 1..Cardinality(K)
  PROVE  \E i \in K : Rank(K, i) = k
<1> DEFINE T == {i \in Nat : Rank(K, i) >= k}
<1>0. (\A m \in Nat : Rank(K, m) \in Nat) /\ Cardinality(K) \in Nat /\ Rank(K, 0) = 0 /\ Rank(K, n) = Cardinality(K)
  BY RankType, RankEnds
<1>1. n \in T /\ k \in Nat /\ k >= 1
  BY <1>0
<1>2. PICK m \in T : \A i \in T : m <= i
  <2>1. T \subseteq Nat
    OBVIOUS
  <2> HIDE DEF T
  <2> QED
    BY <1>1, <2>1, LeastNatural
<1>3. m # 0
  BY <1>0, <1>1
<1>4. m - 1 \in Nat /\ (m - 1) + 1 = m /\ m - 1 \notin T
  BY <1>2, <1>3
<1>5. Rank(K, m - 1) < k /\ Rank(K, m) >= k
  BY <1>0, <1>1, <1>4
<1>6. Rank(K, m) = IF m \in K THEN Rank(K, m - 1) + 1 ELSE Rank(K, m - 1)
  <2>1. PICK x \in Nat : x = m - 1 /\ m = x + 1
    BY <1>4
  <2>2. Rank(K, x + 1) = IF x + 1 \in K THEN Rank(K, x) + 1 ELSE Rank(K, x)
    BY RankStep
  <2> QED
    BY <2>1, <2>2
<1>7. m \in K /\ Rank(K, m) = k
  BY <1>0, <1>1, <1>4, <1>5, <1>6
<1> QED
  BY <1>7

LEMMA RankStrict ==
  ASSUME NEW n \in Nat, NEW K, K \subseteq 1..n, NEW i \in K, NEW j \in K, i < j
  PROVE  Rank(K, i) < Rank(K, j)
<1>1. i \in Nat /\ j \in Nat /\ j - 1 \in Nat /\ (j - 1) + 1 = j /\ i <= j - 1
  OBVIOUS
<1>2. Rank(K, i) <= Rank(K, j - 1)
  BY <1>1, RankGrows
<1>3. Rank(K, j) = Rank(K, j - 1) + 1
  <2>1. PICK x \in Nat : x = j - 1 /\ j = x + 1
    BY <1>1
  <2>2. Rank(K, x + 1) = IF x + 1 \in K THEN Rank(K, x) + 1 ELSE Rank(K, x)
    BY RankStep
  <2> QED
    BY <2>1, <2>2
<1>4. Rank(K, i) \in Nat /\ Rank(K, j - 1) \in Nat
  BY <1>1, RankType
<1> QED
  BY <1>2, <1>3, <1>4

(* Nth counts through the set, in order and without leaving one out.       *)
LEMMA NthCounts ==
  ASSUME NEW n \in Nat, NEW K, K \subseteq 1..n
  PROVE  /\ Cardinality(K) \in Nat /\ Cardinality(K) <= n
         /\ \A k \in 1..Cardinality(K) : Nth(K, k) \in K /\ Rank(K, Nth(K, k)) = k
         /\ \A i \in K : Rank(K, i) \in 1..Cardinality(K) /\ Nth(K, Rank(K, i)) = i
         /\ \A k, l \in 1..Cardinality(K) : k < l => Nth(K, k) < Nth(K, l)
<1>1. Cardinality(K) \in Nat /\ Rank(K, n) = Cardinality(K) /\ Rank(K, 0) = 0
  BY RankEnds
<1>2. Cardinality(K) <= n
  <2>1. PICK z \in Nat : z = 0
    OBVIOUS
  <2>2. z <= n
    BY <2>1
  <2>3. Rank(K, n) <= Rank(K, z) + (n - z)
    BY <2>2, RankGrows
  <2> QED
    BY <1>1, <2>1, <2>3
<1>3. \A k \in 1..Cardinality(K) : Nth(K, k) \in K /\ Rank(K, Nth(K, k)) = k
  BY RankOnto DEF Nth
<1>4. \A i, j \in K : Rank(K, i) = Rank(K, j) => i = j
  <2> SUFFICES ASSUME NEW i \in K, NEW j \in K, Rank(K, i) = Rank(K, j) PROVE i = j
    OBVIOUS
  <2>1. i \in Nat /\ j \in Nat
    OBVIOUS
  <2>2. Rank(K, i) \in Nat
    BY <2>1, RankType
  <2>3. ~ (i < j)
    <3>1. i < j => Rank(K, i) < Rank(K, j)
      BY RankStrict
    <3> QED
      BY <2>2, <3>1
  <2>4. ~ (j < i)
    <3>1. j < i => Rank(K, j) < Rank(K, i)
      BY RankStrict
    <3> QED
      BY <2>2, <3>1
  <2> QED
    BY <2>1, <2>3, <2>4
<1>5. ASSUME NEW i \in K
      PROVE  Rank(K, i) \in 1..Cardinality(K) /\ Nth(K, Rank(K, i)) = i
  <2>1. i \in 1..n /\ i - 1 \in Nat /\ (i - 1) + 1 = i /\ i \in Nat
    OBVIOUS
  <2>2. Rank(K, i) = Rank(K, i - 1) + 1 /\ Rank(K, i - 1) \in Nat
    <3>1. PICK x \in Nat : x = i - 1 /\ i = x + 1
      BY <2>1
    <3>2. Rank(K, x + 1) = IF x + 1 \in K THEN Rank(K, x) + 1 ELSE Rank(K, x)
      BY RankStep
    <3>3. Rank(K, x) \in Nat
      BY RankType
    <3> QED
      BY <3>1, <3>2, <3>3
  <2>3. Rank(K, i) <= Rank(K, n)
    <3>1. i <= n
      BY <2>1
    <3> QED
      BY <2>1, <3>1, RankGrows
  <2>4. Rank(K, i) \in 1..Cardinality(K)
    BY <1>1, <2>2, <2>3
  <2> QED
    BY <1>3, <1>4, <2>4
<1>6. ASSUME NEW k \in 1..Cardinality(K), NEW l \in 1..Cardinality(K), k < l
      PROVE  Nth(K, k) < Nth(K, l)
  <2>1. PICK a \in K, b \in K : a = Nth(K, k) /\ b = Nth(K, l) /\ Rank(K, a) = k /\ Rank(K, b) = l
    BY <1>3
  <2>2. a \in Nat /\ b \in Nat /\ k \in Nat /\ l \in Nat
    BY <1>1
  <2>3. a # b
    BY <2>1, <2>2, <1>6
  <2>4. ~ (b < a)
    <3>1. b < a => l < k
      BY <2>1, RankStrict
    <3> QED
      BY <3>1, <2>2, <1>6
  <2> QED
    BY <2>1, <2>2, <2>3, <2>4
<1> QED
  BY <1>1, <1>2, <1>3, <1>5, <1>6

------------------------------------------------------------------------------
(* Dropping dead slots                                                     *)

LEMMA MarkedPage ==
  ASSUME NEW T, HaveLength(T), NEW p, PageOf(T, p), NEW D, D \subseteq Normal(p)
  PROVE  LET q == MarkDead(p, D) IN
         /\ PageOf(T, q) /\ Len(q.line_pointers) = Len(p.line_pointers) /\ q.tuples = p.tuples
         /\ Normal(q) = Normal(p) \ D
         /\ q.lower = p.lower /\ q.upper = p.upper
<1> DEFINE q == MarkDead(p, D)
           n == Len(p.line_pointers)
           x(i) == IF i \in D THEN [p.line_pointers[i] EXCEPT !.lp_flags = LP_DEAD] ELSE p.line_pointers[i]
           lps == [i \in 1..n |-> x(i)]
<1>1. n \in Nat /\ p.line_pointers \in Seq(LinePointers) /\ Len(p.tuples) = n /\ DOMAIN p.line_pointers = 1..n
  BY DEF PageOf
<1>2. p = [lower |-> p.lower, upper |-> p.upper, line_pointers |-> p.line_pointers, tuples |-> p.tuples]
  BY DEF PageOf
<1>3. q = [lower |-> p.lower, upper |-> p.upper, line_pointers |-> lps, tuples |-> p.tuples]
  <2>1. q = [p EXCEPT !.line_pointers = lps]
    BY <1>1 DEF MarkDead, Slots
  <2> HIDE DEF lps, q
  <2> QED
    BY <1>2, <2>1
<1>4. \A i \in 1..n : x(i) \in LinePointers
  <2> SUFFICES ASSUME NEW i \in 1..n PROVE x(i) \in LinePointers
    OBVIOUS
  <2>1. p.line_pointers[i] \in LinePointers
    BY <1>1
  <2> QED
    BY <2>1 DEF LinePointers, LP_DEAD
<1>5. \A i \in D : x(i).lp_flags # LP_NORMAL
  <2> SUFFICES ASSUME NEW i \in D PROVE x(i).lp_flags # LP_NORMAL
    OBVIOUS
  <2>1. p.line_pointers[i] \in LinePointers
    BY <1>1 DEF Normal
  <2> QED
    BY <2>1 DEF LinePointers, LP_DEAD, LP_NORMAL
<1>6. \A i \in 1..n : i \notin D => x(i) = p.line_pointers[i]
  OBVIOUS
<1> HIDE DEF x
<1>7. lps \in Seq(LinePointers) /\ Len(lps) = n /\ \A i \in 1..n : lps[i] = x(i)
  BY <1>1, <1>4
<1>8. q.line_pointers = lps /\ q.tuples = p.tuples /\ q.lower = p.lower /\ q.upper = p.upper
  BY <1>3
<1> HIDE DEF q, lps
<1>9. \A i \in 1..n : IsNormal(q, i) <=> (IsNormal(p, i) /\ i \notin D)
  BY <1>5, <1>6, <1>7, <1>8 DEF IsNormal
<1>10. Normal(q) = Normal(p) \ D
  BY <1>7, <1>8, <1>9 DEF Normal
<1>11. PageOf(T, q)
  <2>1. /\ p.lower \in Nat /\ p.upper \in Int /\ p.tuples \in Seq(T \cup {EmptyTuple})
        /\ p.lower = PageHeaderSize + n * LinePointerSize
        /\ \A i \in 1..n : IsNormal(p, i) => p.tuples[i] \in T
    BY DEF PageOf
  <2>2. q \in [lower : Nat, upper : Int, line_pointers : Seq(LinePointers), tuples : Seq(T \cup {EmptyTuple})]
    BY <1>3, <1>7, <2>1
  <2>3. \A i \in 1..n : IsNormal(q, i) => q.tuples[i] \in T
    BY <1>8, <1>9, <2>1
  <2> QED
    BY <1>1, <1>7, <1>8, <2>1, <2>2, <2>3 DEF PageOf
<1> QED
  BY <1>7, <1>8, <1>10, <1>11 DEF q

(* The slots compact keeps.                                                *)
Kept(p) == {i \in Slots(p) : p.line_pointers[i].lp_flags # LP_DEAD}

(* The page of the kept slots, in order.                                   *)
KeptPage(p, upper) ==
  [lower |-> PageHeaderSize + Cardinality(Kept(p)) * LinePointerSize, upper |-> upper,
   line_pointers |-> [k \in 1..Cardinality(Kept(p)) |-> p.line_pointers[Nth(Kept(p), k)]],
   tuples |-> [k \in 1..Cardinality(Kept(p)) |-> IF Nth(Kept(p), k) <= Len(p.tuples)
                                                 THEN p.tuples[Nth(Kept(p), k)] ELSE EmptyTuple]]

LEMMA CompactParts ==
  ASSUME NEW p
  PROVE  Compact(p) = KeptPage(p, PageSize - StoredLength(KeptPage(p, 0), Cardinality(Kept(p))))
<1> DEFINE q == KeptPage(p, 0)
           v == PageSize - StoredLength(q, Cardinality(Kept(p)))
<1>1. Compact(p) = [q EXCEPT !.upper = v]
  BY Zenon DEF Compact, KeptPage, Kept, Nth, Rank
<1> HIDE DEF v
<1>2. [q EXCEPT !.upper = v] = KeptPage(p, v)
  <2>1. PICK a : a = PageHeaderSize + Cardinality(Kept(p)) * LinePointerSize
    OBVIOUS
  <2>2. PICK b : b = [k \in 1..Cardinality(Kept(p)) |-> p.line_pointers[Nth(Kept(p), k)]]
    OBVIOUS
  <2>3. PICK c : c = [k \in 1..Cardinality(Kept(p)) |-> IF Nth(Kept(p), k) <= Len(p.tuples)
                                                 THEN p.tuples[Nth(Kept(p), k)] ELSE EmptyTuple]
    OBVIOUS
  <2>4. q = [lower |-> a, upper |-> 0, line_pointers |-> b, tuples |-> c]
    BY <2>1, <2>2, <2>3, Zenon DEF KeptPage
  <2>5. KeptPage(p, v) = [lower |-> a, upper |-> v, line_pointers |-> b, tuples |-> c]
    BY <2>1, <2>2, <2>3, Zenon DEF KeptPage
  <2> HIDE DEF q
  <2> QED
    BY <2>4, <2>5
<1> QED
  BY <1>1, <1>2 DEF v

(* StoredLength takes no notice of upper.                                  *)
LEMMA SameSlots ==
  ASSUME NEW p, NEW q, NEW n \in Nat, p.line_pointers = q.line_pointers, p.tuples = q.tuples
  PROVE  StoredLength(p, n) = StoredLength(q, n)
<1>1. \A i : SlotLength(p, i) = SlotLength(q, i)
  BY DEF SlotLength, IsStored, IsNormal
<1>2. PICK s : SumsTo(p, n, s) /\ StoredLength(p, n) = s[n]
  BY StoredLengthSums
<1>3. PICK t : SumsTo(q, n, t) /\ StoredLength(q, n) = t[n]
  BY StoredLengthSums
<1>4. SumsTo(p, n, t)
  BY <1>1, <1>3 DEF SumsTo
<1> QED
  BY <1>2, <1>3, <1>4, SumsAgree

LEMMA KeptPageOf ==
  ASSUME NEW T, HaveLength(T), NEW p, PageOf(T, p), NEW u \in Int
  PROVE  LET q == KeptPage(p, u) K == Kept(p) m == Cardinality(Kept(p)) IN
         /\ PageOf(T, q) /\ Len(q.line_pointers) = m /\ NoneDead(q)
         /\ m \in Nat /\ m <= Len(p.line_pointers) /\ K \subseteq 1..Len(p.line_pointers)
         /\ \A k \in 1..m : /\ q.line_pointers[k] = p.line_pointers[Nth(K, k)]
                            /\ q.tuples[k] = p.tuples[Nth(K, k)]
                            /\ k \in Normal(q) <=> Nth(K, k) \in Normal(p)
<1> DEFINE q == KeptPage(p, u)
           K == Kept(p)
           m == Cardinality(K)
           n == Len(p.line_pointers)
           lps == [k \in 1..m |-> p.line_pointers[Nth(K, k)]]
           ts == [k \in 1..m |-> IF Nth(K, k) <= Len(p.tuples) THEN p.tuples[Nth(K, k)] ELSE EmptyTuple]
<1>1. n \in Nat /\ Len(p.tuples) = n /\ DOMAIN p.line_pointers = 1..n
  BY DEF PageOf
<1>2. K \subseteq 1..n
  BY <1>1 DEF Kept, Slots
<1>3. q = [lower |-> PageHeaderSize + m * LinePointerSize, upper |-> u, line_pointers |-> lps, tuples |-> ts]
  BY DEF KeptPage
<1> HIDE DEF q, n
<1>4. m \in Nat /\ m <= n /\ \A k \in 1..m : Nth(K, k) \in K
  <2> HIDE DEF K
  <2> QED
    BY <1>1, <1>2, NthCounts
<1>5. \A k \in 1..m : Nth(K, k) \in 1..n /\ p.line_pointers[Nth(K, k)].lp_flags # LP_DEAD
  <2>1. \A i \in K : i \in 1..n /\ p.line_pointers[i].lp_flags # LP_DEAD
    BY <1>2 DEF Kept
  <2> HIDE DEF K, m
  <2> QED
    BY <1>4, <2>1
<1> HIDE DEF K, m
<1>6. \A i \in 1..n : p.line_pointers[i] \in LinePointers /\ p.tuples[i] \in T \cup {EmptyTuple} /\ (IsNormal(p, i) => p.tuples[i] \in T)
  BY <1>1 DEF PageOf, n
<1>7. \A k \in 1..m : Nth(K, k) <= Len(p.tuples)
  BY <1>1, <1>5
<1>8. lps \in [1..m -> LinePointers] /\ \A k \in 1..m : lps[k] = p.line_pointers[Nth(K, k)]
  BY <1>5, <1>6
<1>9. ts \in [1..m -> T \cup {EmptyTuple}] /\ \A k \in 1..m : ts[k] = p.tuples[Nth(K, k)]
  BY <1>5, <1>6, <1>7
<1> HIDE DEF lps, ts
<1>10. lps \in Seq(LinePointers) /\ Len(lps) = m /\ ts \in Seq(T \cup {EmptyTuple}) /\ Len(ts) = m
  BY <1>4, <1>8, <1>9
<1>11. q.lower = PageHeaderSize + m * LinePointerSize /\ q.upper = u /\ q.line_pointers = lps /\ q.tuples = ts
  BY <1>3
<1>12. \A k \in 1..m : IsNormal(q, k) <=> IsNormal(p, Nth(K, k))
  BY <1>8, <1>11 DEF IsNormal
<1>13. PageOf(T, q)
  <2>1. PageHeaderSize + m * LinePointerSize \in Nat
    <3>1. PageHeaderSize \in Nat /\ LinePointerSize \in Nat /\ m * LinePointerSize \in Nat
      BY <1>4, PageConstants
    <3> QED
      BY <3>1
  <2>2. q \in [lower : Nat, upper : Int, line_pointers : Seq(LinePointers), tuples : Seq(T \cup {EmptyTuple})]
    BY <1>3, <1>10, <2>1
  <2>3. \A k \in 1..m : IsNormal(q, k) => q.tuples[k] \in T
    BY <1>5, <1>6, <1>9, <1>11, <1>12
  <2> QED
    BY <1>10, <1>11, <2>2, <2>3 DEF PageOf
<1>14. NoneDead(q)
  BY <1>5, <1>8, <1>10, <1>11 DEF NoneDead
<1>15. \A k \in 1..m : k \in Normal(q) <=> Nth(K, k) \in Normal(p)
  BY <1>5, <1>10, <1>11, <1>12 DEF Normal, n
<1> QED
  BY <1>2, <1>4, <1>8, <1>9, <1>10, <1>11, <1>13, <1>14, <1>15 DEF q, K, m, n

(* The kept tuples take no more room than the page they were on.           *)
LEMMA KeptLength ==
  ASSUME NEW T, HaveLength(T), NEW p, PageOf(T, p), NEW u \in Int
  PROVE  StoredLength(KeptPage(p, u), Cardinality(Kept(p))) <= StoredLength(p, Len(p.line_pointers))
<1> DEFINE q == KeptPage(p, u)
           K == Kept(p)
           m == Cardinality(K)
           n == Len(p.line_pointers)
<1>1. /\ PageOf(T, q) /\ Len(q.line_pointers) = m /\ m \in Nat /\ n \in Nat
      /\ m <= n /\ K \subseteq 1..n
  BY KeptPageOf, NormalStored, ZenonT(60)
<1>2. \A k \in 1..m : q.tuples[k] = p.tuples[Nth(K, k)] /\ (k \in Normal(q) <=> Nth(K, k) \in Normal(p))
  BY KeptPageOf
<1>3. LengthsOk(q, m) /\ LengthsOk(p, n)
  BY <1>1, NormalStored
<1>4. /\ \A i \in 1..n : i \in Normal(p) => SlotLength(p, i) = p.tuples[i].len
      /\ \A i \in 1..n : i \notin Normal(p) => SlotLength(p, i) = 0
      /\ \A i \in 1..m : i \in Normal(q) => SlotLength(q, i) = q.tuples[i].len
      /\ \A i \in 1..m : i \notin Normal(q) => SlotLength(q, i) = 0
  <2>1. /\ \A i \in 1..n : IsStored(p, i) <=> IsNormal(p, i)
        /\ \A i \in 1..m : IsStored(q, i) <=> IsNormal(q, i)
    BY <1>1, NormalStored
  <2> HIDE DEF q, m
  <2> QED
    BY <1>1, <2>1 DEF SlotLength, Normal
<1> HIDE DEF q
<1>5. /\ \A k \in 1..m : Nth(K, k) \in K
      /\ \A k, l \in 1..m : k < l => Nth(K, k) < Nth(K, l)
  <2> HIDE DEF K
  <2> QED
    BY <1>1, NthCounts
<1> HIDE DEF K, m, n
<1>6. \A k \in 1..m : SlotLength(q, k) = SlotLength(p, Nth(K, k)) /\ Nth(K, k) \in 1..n
  BY <1>1, <1>2, <1>4, <1>5
<1>7. (\A k \in 0..m : StoredLength(q, k) \in Nat) /\ (\A i \in 0..n : StoredLength(p, i) \in Nat)
  BY <1>1, <1>3, StoredLengthType
<1> DEFINE last(k) == IF k = 0 THEN 0 ELSE Nth(K, k)
           S == {k \in Nat : k <= m => StoredLength(q, k) <= StoredLength(p, last(k))}
<1>8. 0 \in S
  BY StoredLengthStep
<1>9. ASSUME NEW k \in Nat, k \in S
      PROVE  k + 1 \in S
  <2> SUFFICES ASSUME k + 1 <= m PROVE StoredLength(q, k + 1) <= StoredLength(p, last(k + 1))
    OBVIOUS
  <2>1. k + 1 \in 1..m /\ k \in 0..m /\ StoredLength(q, k) <= StoredLength(p, last(k))
    BY <1>1, <1>9
  <2>2. PICK i \in 1..n : i = Nth(K, k + 1) /\ i = last(k + 1)
    BY <1>6, <2>1
  <2>3. last(k) \in 0..n /\ last(k) <= i - 1
    <3>1. CASE k = 0
      BY <1>1, <2>2, <3>1
    <3>2. CASE k # 0
      <4>1. k \in 1..m /\ k < k + 1
        BY <2>1, <3>2
      <4>2. Nth(K, k) \in 1..n /\ Nth(K, k) < Nth(K, k + 1)
        BY <1>5, <1>6, <2>1, <4>1
      <4> QED
        BY <1>1, <2>2, <3>2, <4>2
    <3> QED
      BY <3>1, <3>2
  <2>4. i - 1 \in 0..n /\ i - 1 \in Nat /\ (i - 1) + 1 = i /\ i \in 0..n
    BY <1>1
  <2>5. PICK j \in 0..n : j = last(k)
    BY <2>3
  <2>6. StoredLength(p, j) <= StoredLength(p, i - 1)
    <3>1. j <= i - 1
      BY <2>3, <2>5
    <3> QED
      BY <1>1, <1>3, <2>4, <3>1, StoredLengthGrows
  <2>7. StoredLength(p, i) = StoredLength(p, i - 1) + SlotLength(p, i)
    BY <2>4, StoredLengthStep
  <2>8. StoredLength(q, k + 1) = StoredLength(q, k) + SlotLength(p, i)
    BY <1>6, <2>1, <2>2, StoredLengthStep
  <2>9. PICK a \in Nat, b \in Nat, c \in Nat, d \in Nat :
          a = StoredLength(q, k) /\ b = StoredLength(p, j) /\ c = StoredLength(p, i - 1) /\ d = SlotLength(p, i)
    BY <1>3, <1>7, <2>1, <2>4 DEF LengthsOk
  <2>10. a <= b /\ b <= c
    BY <2>1, <2>5, <2>6, <2>9
  <2> QED
    BY <2>2, <2>7, <2>8, <2>9, <2>10
<1>10. StoredLength(q, m) <= StoredLength(p, last(m))
  <2> HIDE DEF S, last
  <2>1. Nat \subseteq S
    BY <1>8, <1>9, InductiveSet
  <2>2. m \in S /\ m <= m
    BY <1>1, <2>1
  <2> QED
    BY <2>2 DEF S
<1>11. last(m) \in 0..n
  <2>1. m = 0 \/ m \in 1..m
    BY <1>1
  <2>2. 0 \in 0..n /\ \A i \in 1..n : i \in 0..n
    BY <1>1
  <2> QED
    BY <1>6, <2>1, <2>2
<1>12. PICK j \in 0..n : j = last(m)
  BY <1>11
<1>13. StoredLength(p, j) <= StoredLength(p, n)
  <2>1. j <= n /\ n \in 0..n
    BY <1>1
  <2> QED
    BY <1>1, <1>3, <2>1, StoredLengthGrows
<1>14. PICK a \in Nat, b \in Nat, c \in Nat : a = StoredLength(q, m) /\ b = StoredLength(p, j) /\ c = StoredLength(p, n)
  <2>1. m \in 0..m /\ n \in 0..n
    BY <1>1
  <2> QED
    BY <1>7, <2>1
<1>15. a <= b /\ b <= c
  BY <1>10, <1>12, <1>13, <1>14
<1>16. StoredLength(q, m) <= StoredLength(p, n)
  BY <1>14, <1>15
<1> QED
  BY <1>16 DEF q, K, m, n

(* Marking slots dead and compacting the page leaves the other tuples, one *)
(* for one, and the room of the dead ones.                                 *)
LEMMA CompactedPage ==
  ASSUME NEW T, HaveLength(T), NEW p, PageOf(T, p), NEW D, D \subseteq Normal(p)
  PROVE  LET r == Compact(MarkDead(p, D)) IN
         /\ PageOf(T, r) /\ NoneDead(r)
         /\ Len(r.line_pointers) <= Len(p.line_pointers)
         /\ r.upper = PageSize - StoredLength(r, Len(r.line_pointers))
         /\ StoredLength(r, Len(r.line_pointers)) <= StoredLength(p, Len(p.line_pointers))
         /\ Tuples(r) = {p.tuples[i] : i \in Normal(p) \ D}
         /\ \A k, l \in Normal(r) : \E i, j \in Normal(p) :
              r.tuples[k] = p.tuples[i] /\ r.tuples[l] = p.tuples[j] /\ (i = j => k = l)
<1> DEFINE q == MarkDead(p, D)
           r == Compact(q)
           n == Len(p.line_pointers)
           K == Kept(q)
           m == Cardinality(K)
           u == PageSize - StoredLength(KeptPage(q, 0), m)
<1>1. PageOf(T, q) /\ Len(q.line_pointers) = n /\ q.tuples = p.tuples /\ Normal(q) = Normal(p) \ D
  BY MarkedPage
<1>2. n \in Nat /\ LengthsOk(p, n)
  BY NormalStored
<1>3. r = KeptPage(q, u)
  BY CompactParts
<1> HIDE DEF q, r
<1>4. u \in Int
  <2>1. PageOf(T, KeptPage(q, 0)) /\ Len(KeptPage(q, 0).line_pointers) = m /\ m \in Nat
    <3>1. PICK z \in Int : z = 0
      OBVIOUS
    <3>2. PageOf(T, KeptPage(q, z)) /\ Len(KeptPage(q, z).line_pointers) = m /\ m \in Nat
      BY <1>1, KeptPageOf
    <3> QED
      BY <3>1, <3>2
  <2>2. LengthsOk(KeptPage(q, 0), m)
    BY <2>1, NormalStored
  <2>3. m \in 0..m
    BY <2>1
  <2>4. StoredLength(KeptPage(q, 0), m) \in Nat
    BY <2>1, <2>2, <2>3, StoredLengthType
  <2> QED
    BY <2>4, PageConstants
<1>5. /\ PageOf(T, r) /\ Len(r.line_pointers) = m /\ NoneDead(r)
      /\ m \in Nat /\ m <= n /\ K \subseteq 1..n
  <2> HIDE DEF u
  <2> QED
    BY <1>1, <1>3, <1>4, KeptPageOf
<1>6. \A k \in 1..m : r.tuples[k] = p.tuples[Nth(K, k)] /\ (k \in Normal(r) <=> Nth(K, k) \in Normal(q))
  <2> HIDE DEF u
  <2> QED
    BY <1>1, <1>3, <1>4, KeptPageOf, ZenonT(60)
<1>7. r.upper = PageSize - StoredLength(r, m)
  <2>1. r.line_pointers = KeptPage(q, 0).line_pointers /\ r.tuples = KeptPage(q, 0).tuples /\ r.upper = u
    BY <1>3 DEF KeptPage
  <2>2. StoredLength(r, m) = StoredLength(KeptPage(q, 0), m)
    BY <1>5, <2>1, SameSlots
  <2> QED
    BY <2>1, <2>2
<1>8. StoredLength(r, m) <= StoredLength(q, n)
  <2> HIDE DEF u
  <2> QED
    BY <1>1, <1>3, <1>4, KeptLength
<1>9. StoredLength(q, n) <= StoredLength(p, n)
  <2>1. LengthsOk(q, n)
    BY <1>1, NormalStored
  <2>2. ASSUME NEW i \in 1..n
        PROVE  SlotLength(q, i) <= SlotLength(p, i)
    <3>1. SlotLength(p, i) \in Nat
      BY <1>2 DEF LengthsOk
    <3>2. CASE i \in Normal(q)
      <4>1. i \in Normal(p)
        BY <1>1, <3>2
      <4>2. SlotLength(q, i) = q.tuples[i].len /\ SlotLength(p, i) = p.tuples[i].len
        BY <1>1, <3>2, <4>1, NormalStored
      <4> QED
        BY <1>1, <3>1, <4>2
    <3>3. CASE i \notin Normal(q)
      <4>1. ~ IsStored(q, i)
        BY <1>1, <3>3, NormalStored DEF Normal
      <4> QED
        BY <3>1, <4>1 DEF SlotLength
    <3> QED
      BY <3>2, <3>3
  <2> QED
    BY <1>2, <2>1, <2>2, StoredLengthLess
<1>10. StoredLength(r, m) <= StoredLength(p, n)
  <2>1. m \in 0..m /\ n \in 0..n /\ LengthsOk(r, m) /\ LengthsOk(q, n)
    BY <1>1, <1>2, <1>5, NormalStored
  <2>2. PICK a \in Nat, b \in Nat, c \in Nat : a = StoredLength(r, m) /\ b = StoredLength(q, n) /\ c = StoredLength(p, n)
    BY <1>2, <1>5, <2>1, StoredLengthType
  <2> QED
    BY <1>8, <1>9, <2>2
<1>11. Normal(q) \subseteq K
  <2>1. Slots(q) = 1..n
    BY <1>1, NormalStored
  <2> QED
    BY <1>1, <2>1 DEF Normal, IsNormal, Kept, LP_NORMAL, LP_DEAD
<1>12. /\ \A k \in 1..m : Nth(K, k) \in K /\ Rank(K, Nth(K, k)) = k
       /\ \A i \in K : Rank(K, i) \in 1..m /\ Nth(K, Rank(K, i)) = i
  <2> HIDE DEF K
  <2> QED
    BY <1>2, <1>5, NthCounts
<1>13. \A k \in Normal(r) : k \in 1..m
  BY <1>5 DEF Normal
<1> HIDE DEF K, m, n
<1>14. Tuples(r) = {p.tuples[i] : i \in Normal(p) \ D}
  <2>1. ASSUME NEW k \in Normal(r)
        PROVE  \E i \in Normal(p) \ D : r.tuples[k] = p.tuples[i]
    BY <1>1, <1>6, <1>13
  <2>2. ASSUME NEW i \in Normal(p) \ D
        PROVE  \E k \in Normal(r) : r.tuples[k] = p.tuples[i]
    <3>1. i \in Normal(q) /\ i \in K
      BY <1>1, <1>11
    <3>2. PICK k \in 1..m : k = Rank(K, i) /\ Nth(K, k) = i
      BY <1>12, <3>1
    <3> QED
      BY <1>6, <3>1, <3>2
  <2> QED
    BY <2>1, <2>2 DEF Tuples
<1>15. ASSUME NEW k \in Normal(r), NEW l \in Normal(r)
       PROVE  \E i, j \in Normal(p) :
                r.tuples[k] = p.tuples[i] /\ r.tuples[l] = p.tuples[j] /\ (i = j => k = l)
  <2>1. PICK i, j : i = Nth(K, k) /\ j = Nth(K, l)
    OBVIOUS
  <2>2. k \in 1..m /\ l \in 1..m
    BY <1>13
  <2>3. i \in Normal(q) /\ j \in Normal(q) /\ r.tuples[k] = p.tuples[i] /\ r.tuples[l] = p.tuples[j]
    BY <1>6, <2>1, <2>2
  <2>4. i = j => k = l
    BY <1>12, <2>1, <2>2
  <2> QED
    BY <1>1, <2>3, <2>4
<1> QED
  BY <1>5, <1>7, <1>10, <1>14, <1>15 DEF r, q, n, m

(* A stored page decodes to the tuples of its normal slots.                *)
LEMMA DecodedTuples ==
  ASSUME NEW T, HaveLength(T), NEW p, PageOf(T, p)
  PROVE  /\ Decoded(Serialize(p)) = Tuples(p)
         /\ LET b == Deserialize(Serialize(p)) IN
            {b.tuples[i] : i \in {j \in Slots(b) : IsStored(b, j)}} = Tuples(p)
         /\ {p.tuples[i] : i \in {j \in Slots(p) : IsStored(p, j)}} = Tuples(p)
<1> DEFINE b == Relaid(p)
<1>1. Deserialize(Serialize(p)) = b
  BY PageReturns
<1>2. /\ PageOf(T, b) /\ Len(b.line_pointers) = Len(p.line_pointers) /\ Normal(b) = Normal(p) /\ Tuples(b) = Tuples(p)
      /\ \A i \in Normal(p) : b.tuples[i] = p.tuples[i]
      /\ \A i \in 1..Len(p.line_pointers) : i \notin Normal(p) => b.tuples[i] = EmptyTuple
  BY RelaidPage
<1> HIDE DEF b
<1>3. Slots(b) = 1..Len(b.line_pointers) /\ Slots(p) = 1..Len(p.line_pointers)
  BY <1>2, NormalStored
<1>4. {j \in Slots(b) : IsStored(b, j)} = Normal(b)
  BY <1>2, <1>3, NormalStored DEF Normal
<1>5. {j \in Slots(p) : IsStored(p, j)} = Normal(p)
  BY <1>3, NormalStored DEF Normal
<1>6. {j \in Slots(b) : b.tuples[j].len > 0} = Normal(b)
  <2>1. EmptyTuple.len = 0
    BY DEF EmptyTuple
  <2>2. \A j \in Normal(b) : b.tuples[j].len \in Nat \ {0}
    BY <1>2, NormalStored
  <2>3. \A j \in 1..Len(p.line_pointers) : j \notin Normal(b) => b.tuples[j].len = 0
    BY <1>2, <2>1
  <2>4. \A j \in 1..Len(p.line_pointers) : b.tuples[j].len > 0 <=> j \in Normal(b)
    BY <2>2, <2>3
  <2>5. Normal(b) \subseteq 1..Len(p.line_pointers)
    BY <1>2 DEF Normal
  <2> QED
    BY <1>2, <1>3, <2>4, <2>5
<1> QED
  BY <1>1, <1>2, <1>4, <1>5, <1>6 DEF Decoded, Tuples

(* The tuples have room behind the line pointers.                          *)
Room(p) == p.lower <= p.upper /\ p.upper <= PageSize - StoredLength(p, Len(p.line_pointers))

(* What lower, upper and the tuples' room are, as numbers.                 *)
LEMMA RoomNumbers ==
  ASSUME NEW T, HaveLength(T), NEW p, PageOf(T, p)
  PROVE  /\ p.lower \in Nat /\ p.upper \in Int /\ PageSize \in Nat /\ LinePointerSize \in Nat
         /\ StoredLength(p, Len(p.line_pointers)) \in Nat
<1>1. Len(p.line_pointers) \in Nat /\ LengthsOk(p, Len(p.line_pointers))
  BY NormalStored
<1>2. Len(p.line_pointers) \in 0..Len(p.line_pointers)
  BY <1>1
<1>3. StoredLength(p, Len(p.line_pointers)) \in Nat
  BY <1>1, <1>2, StoredLengthType
<1> QED
  BY <1>3, PageConstants DEF PageOf

(* A page with the normal slots of another, or fewer, needs no more room.  *)
LEMMA FewerSlots ==
  ASSUME NEW T, HaveLength(T), NEW p, PageOf(T, p), NEW q, PageOf(T, q), NEW n \in Nat,
         n <= Len(p.line_pointers), n <= Len(q.line_pointers),
         \A i \in 1..n : i \in Normal(q) => i \in Normal(p) /\ q.tuples[i] = p.tuples[i]
  PROVE  StoredLength(q, n) <= StoredLength(p, n)
<1>1. LengthsOk(p, n) /\ LengthsOk(q, n)
  <2>1. /\ LengthsOk(p, Len(p.line_pointers)) /\ LengthsOk(q, Len(q.line_pointers))
        /\ Len(p.line_pointers) \in Nat /\ Len(q.line_pointers) \in Nat
    BY NormalStored
  <2>2. \A i \in 1..n : i \in 1..Len(p.line_pointers) /\ i \in 1..Len(q.line_pointers)
    BY <2>1
  <2> QED
    BY <2>1, <2>2 DEF LengthsOk
<1>2. ASSUME NEW i \in 1..n
      PROVE  SlotLength(q, i) <= SlotLength(p, i)
  <2>1. SlotLength(p, i) \in Nat
    BY <1>1 DEF LengthsOk
  <2>2. CASE i \in Normal(q)
    <3>1. i \in Normal(p) /\ q.tuples[i] = p.tuples[i]
      BY <2>2
    <3>2. SlotLength(q, i) = q.tuples[i].len /\ SlotLength(p, i) = p.tuples[i].len
      BY <2>2, <3>1, NormalStored
    <3> QED
      BY <2>1, <3>1, <3>2
  <2>3. CASE i \notin Normal(q)
    <3>1. i \in 1..Len(q.line_pointers) /\ Len(q.line_pointers) \in Nat
      BY NormalStored
    <3>2. ~ IsStored(q, i)
      BY <2>3, <3>1, NormalStored DEF Normal
    <3> QED
      BY <2>1, <3>2 DEF SlotLength
  <2> QED
    BY <2>2, <2>3
<1> QED
  BY <1>1, <1>2, StoredLengthLess

LEMMA GrownRoom ==
  ASSUME NEW T, HaveLength(T), NEW p, PageOf(T, p), NEW t \in T, HasRoom(p, t), Room(p)
  PROVE  Room(Grown(p, t))
<1> DEFINE n == Len(p.line_pointers)
           q == Grown(p, t)
<1>0. n \in Nat
  BY NormalStored
<1>11. /\ PageOf(T, q) /\ Len(q.line_pointers) = n + 1
       /\ Normal(q) = Normal(p) \cup {n + 1} /\ q.tuples[n + 1] = t
       /\ \A i \in 1..n : q.tuples[i] = p.tuples[i]
  BY GrownPage
<1>1. /\ PageOf(T, q) /\ Len(q.line_pointers) = n + 1 /\ n \in Nat
      /\ Normal(q) = Normal(p) \cup {n + 1} /\ q.tuples[n + 1] = t
      /\ \A i \in 1..n : q.tuples[i] = p.tuples[i]
  BY <1>0, <1>11
<1>2. q.lower = p.lower + LinePointerSize /\ q.upper = p.upper - t.len
  BY DEF Grown
<1> HIDE DEF q
<1>3. StoredLength(q, n) <= StoredLength(p, n)
  <2>1. \A i \in 1..n : i \in Normal(q) => i \in Normal(p) /\ q.tuples[i] = p.tuples[i]
    BY <1>1
  <2>2. n <= n /\ n <= Len(q.line_pointers)
    BY <1>1
  <2> QED
    BY <1>1, <2>1, <2>2, FewerSlots
<1>4. SlotLength(q, n + 1) = t.len
  BY <1>1, NormalStored
<1>5. StoredLength(q, n + 1) = StoredLength(q, n) + t.len
  BY <1>1, <1>4, StoredLengthStep
<1>6. StoredLength(q, n) \in Nat
  <2>1. LengthsOk(q, n + 1) /\ n + 1 \in Nat /\ n \in 0..n + 1
    BY <1>1, NormalStored
  <2> QED
    BY <2>1, StoredLengthType
<1>7. p.lower \in Nat /\ p.upper \in Int /\ PageSize \in Nat /\ LinePointerSize \in Nat /\ StoredLength(p, n) \in Nat /\ t.len \in Nat
  BY RoomNumbers DEF HaveLength
<1>8. p.lower <= p.upper /\ p.upper <= PageSize - StoredLength(p, n) /\ p.lower + LinePointerSize <= p.upper - t.len
  BY DEF Room, HasRoom
<1>9. PICK a \in Nat, b \in Nat, c \in Nat, u \in Int : a = StoredLength(q, n) /\ b = StoredLength(p, n) /\ c = t.len /\ u = p.upper
  BY <1>6, <1>7
<1>10. u - c <= PageSize - (a + c)
  BY <1>3, <1>7, <1>8, <1>9
<1> QED
  BY <1>1, <1>2, <1>5, <1>8, <1>9, <1>10 DEF Room, q

LEMMA RedirectedRoom ==
  ASSUME NEW T, HaveLength(T), NEW p, PageOf(T, p), NEW old \in 1..Len(p.line_pointers), NEW new \in Int, Room(p)
  PROVE  Room(Redirected(p, old, new))
<1> DEFINE n == Len(p.line_pointers)
           q == Redirected(p, old, new)
<1>0. n \in Nat
  BY NormalStored
<1>6. PageOf(T, q) /\ Len(q.line_pointers) = n /\ Normal(q) = Normal(p) \ {old} /\ q.tuples = p.tuples
  BY RedirectedPage
<1>1. PageOf(T, q) /\ Len(q.line_pointers) = n /\ n \in Nat /\ Normal(q) = Normal(p) \ {old} /\ q.tuples = p.tuples
  BY <1>0, <1>6
<1>2. q.lower = p.lower /\ q.upper = p.upper
  BY DEF Redirected
<1> HIDE DEF q
<1>3. StoredLength(q, n) <= StoredLength(p, n)
  <2>1. \A i \in 1..n : i \in Normal(q) => i \in Normal(p) /\ q.tuples[i] = p.tuples[i]
    BY <1>1
  <2>2. n <= n /\ n <= Len(q.line_pointers)
    BY <1>1
  <2> QED
    BY <1>1, <2>1, <2>2, FewerSlots
<1>4. PICK a \in Nat, b \in Nat, u \in Int : a = StoredLength(q, n) /\ b = StoredLength(p, n) /\ u = p.upper /\ PageSize \in Nat
  BY <1>1, RoomNumbers
<1>5. u <= PageSize - a
  BY <1>3, <1>4 DEF Room
<1> QED
  BY <1>1, <1>2, <1>4, <1>5 DEF Room, q

LEMMA RelaidRoom ==
  ASSUME NEW T, HaveLength(T), NEW p, PageOf(T, p), Room(p)
  PROVE  Room(Relaid(p))
<1> DEFINE n == Len(p.line_pointers)
           q == Relaid(p)
<1>1. PageOf(T, q) /\ Len(q.line_pointers) = n /\ n \in Nat /\ Normal(q) = Normal(p) /\ \A i \in Normal(p) : q.tuples[i] = p.tuples[i]
  BY RelaidPage, NormalStored
<1>2. q.lower = p.lower /\ q.upper = PageSize - StoredLength(p, n)
  BY DEF Relaid, Start
<1> HIDE DEF q
<1>3. StoredLength(q, n) <= StoredLength(p, n)
  <2>1. \A i \in 1..n : i \in Normal(q) => i \in Normal(p) /\ q.tuples[i] = p.tuples[i]
    BY <1>1
  <2>2. n <= n /\ n <= Len(q.line_pointers)
    BY <1>1
  <2> QED
    BY <1>1, <2>1, <2>2, FewerSlots
<1>4. PICK a \in Nat, b \in Nat, u \in Int, l \in Nat :
        a = StoredLength(q, n) /\ b = StoredLength(p, n) /\ u = p.upper /\ l = p.lower /\ PageSize \in Nat
  BY <1>1, RoomNumbers
<1>5. l <= u /\ u <= PageSize - b /\ a <= b
  BY <1>3, <1>4 DEF Room
<1>6. l <= PageSize - b /\ PageSize - b <= PageSize - a
  BY <1>4, <1>5
<1> QED
  BY <1>1, <1>2, <1>4, <1>6 DEF Room, q

LEMMA CompactedRoom ==
  ASSUME NEW T, HaveLength(T), NEW p, PageOf(T, p), NEW D, D \subseteq Normal(p), Room(p)
  PROVE  Room(Compact(MarkDead(p, D)))
<1> DEFINE n == Len(p.line_pointers)
           r == Compact(MarkDead(p, D))
           m == Len(r.line_pointers)
<1>1. /\ PageOf(T, r) /\ m <= n /\ r.upper = PageSize - StoredLength(r, m)
      /\ StoredLength(r, m) <= StoredLength(p, n)
  BY CompactedPage
<1> HIDE DEF r
<1>2. r.lower = PageHeaderSize + m * LinePointerSize /\ p.lower = PageHeaderSize + n * LinePointerSize
  BY <1>1 DEF PageOf
<1>3. m \in Nat /\ n \in Nat /\ LinePointerSize \in Nat /\ PageHeaderSize \in Nat
  BY <1>1, NormalStored, PageConstants
<1> HIDE DEF m, n
<1>4. m * LinePointerSize <= n * LinePointerSize /\ m * LinePointerSize \in Nat /\ n * LinePointerSize \in Nat
  <2>1. PICK d \in Nat : n = m + d
    <3>1. n - m \in Nat /\ n = m + (n - m)
      BY <1>1, <1>3
    <3> QED
      BY <3>1
  <2>2. n * LinePointerSize = m * LinePointerSize + d * LinePointerSize /\ d * LinePointerSize \in Nat /\ m * LinePointerSize \in Nat
    BY <1>3, <2>1
  <2> QED
    BY <2>2
<1>5. r.lower <= p.lower
  BY <1>2, <1>3, <1>4
<1>6. PICK a \in Nat, b \in Nat, u \in Int, l \in Nat, k \in Nat :
        a = StoredLength(r, m) /\ b = StoredLength(p, n) /\ u = p.upper /\ l = p.lower /\ k = r.lower /\ PageSize \in Nat
  BY <1>1, RoomNumbers DEF m, n
<1>7. l <= u /\ u <= PageSize - b /\ a <= b /\ k <= l
  BY <1>1, <1>5, <1>6 DEF Room, n
<1>8. k <= PageSize - a /\ PageSize - a <= PageSize - a
  BY <1>6, <1>7
<1> QED
  BY <1>1, <1>6, <1>8 DEF Room, r, m

------------------------------------------------------------------------------
(* Chains of updated slots                                                 *)

(* One step of follow_chain, and the slots it comes to.                    *)
Hop(p, x) == IF x \in Slots(p) /\ p.line_pointers[x].lp_flags = LP_REDIRECT
             THEN p.line_pointers[x].lp_offset ELSE x

WalkTo(p, first, n, s) == s = [k \in 0..n |-> IF k = 0 THEN first ELSE Hop(p, s[k - 1])]

LEMMA WalkExists ==
  ASSUME NEW p, NEW first, NEW n \in Nat
  PROVE  \E s : WalkTo(p, first, n, s)
<1> DEFINE S == {j \in Nat : \E s : WalkTo(p, first, j, s)}
<1>1. 0 \in S
  <2> DEFINE s == [i \in 0..0 |-> first]
  <2>1. WalkTo(p, first, 0, s)
    BY DEF WalkTo
  <2> QED
    BY <2>1
<1>2. ASSUME NEW j \in Nat, j \in S
      PROVE  j + 1 \in S
  <2>1. PICK s : WalkTo(p, first, j, s)
    BY <1>2
  <2> DEFINE t == [i \in 0..j + 1 |-> IF i = j + 1 THEN Hop(p, s[j]) ELSE s[i]]
  <2>2. \A i \in 0..j : t[i] = s[i]
    OBVIOUS
  <2>3. \A i \in 0..j : s[i] = IF i = 0 THEN first ELSE Hop(p, s[i - 1])
    BY <2>1 DEF WalkTo
  <2>4. \A i \in 0..j + 1 : t[i] = IF i = 0 THEN first ELSE Hop(p, t[i - 1])
    <3> SUFFICES ASSUME NEW i \in 0..j + 1
                 PROVE  t[i] = IF i = 0 THEN first ELSE Hop(p, t[i - 1])
      OBVIOUS
    <3>1. CASE i \in 0..j
      <4>1. i # 0 => i - 1 \in 0..j
        BY <3>1
      <4> HIDE DEF t
      <4> QED
        BY <2>2, <2>3, <3>1, <4>1
    <3>2. CASE i = j + 1
      <4>1. t[i] = Hop(p, s[j]) /\ t[i - 1] = s[j] /\ i # 0
        BY <3>2
      <4> HIDE DEF t
      <4> QED
        BY <4>1
    <3>3. i \in 0..j \/ i = j + 1
      OBVIOUS
    <3> QED
      BY <3>1, <3>2, <3>3
  <2>5. WalkTo(p, first, j + 1, t)
    BY <2>4 DEF WalkTo
  <2> QED
    BY <2>5
<1> QED
  <2> HIDE DEF S
  <2>1. Nat \subseteq S
    BY <1>1, <1>2, InductiveSet
  <2> QED
    BY <2>1 DEF S

LEMMA FollowChainWalks ==
  ASSUME NEW p, NEW first, Len(p.line_pointers) \in Nat
  PROVE  \E s : /\ WalkTo(p, first, Len(p.line_pointers), s)
                /\ LET last == s[Len(p.line_pointers)] IN
                   FollowChain(p, first) = IF last \in Slots(p) /\ IsNormal(p, last) THEN last ELSE 0
<1> DEFINE s == CHOOSE u : WalkTo(p, first, Len(p.line_pointers), u)
           last == s[Len(p.line_pointers)]
<1>1. WalkTo(p, first, Len(p.line_pointers), s)
  BY WalkExists
<1>2. FollowChain(p, first) = IF last \in Slots(p) /\ IsNormal(p, last) THEN last ELSE 0
  BY Zenon DEF FollowChain, WalkTo, Hop
<1> QED
  BY <1>1, <1>2

(* A slot of ch redirects forward: to a slot that holds what ch says, or   *)
(* to another slot of ch that leads to the same.                           *)
LinkOk(p, ch, s) ==
  /\ s \in 1..Len(p.line_pointers)
  /\ p.line_pointers[s].lp_flags = LP_REDIRECT
  /\ p.line_pointers[s].lp_offset \in s + 1 .. Len(p.line_pointers)
  /\ \/ p.line_pointers[s].lp_offset \in Normal(p) /\ p.tuples[p.line_pointers[s].lp_offset] = ch[s]
     \/ p.line_pointers[s].lp_offset \in DOMAIN ch /\ ch[p.line_pointers[s].lp_offset] = ch[s]

ChainOk(p, ch) == \A s \in DOMAIN ch : LinkOk(p, ch, s)

(* However many links there are, the walk has come to the newest version   *)
(* before it is given up as a loop.                                        *)
LEMMA ChainLeads ==
  ASSUME NEW T, HaveLength(T), NEW p, PageOf(T, p), NEW ch, ChainOk(p, ch), NEW first \in DOMAIN ch
  PROVE  FollowChain(p, first) # 0 /\ p.tuples[FollowChain(p, first)] = ch[first]
<1> DEFINE n == Len(p.line_pointers)
<1>1. n \in Nat /\ Slots(p) = 1..n
  BY NormalStored
<1>2. PICK s : /\ WalkTo(p, first, n, s)
               /\ FollowChain(p, first) = IF s[n] \in Slots(p) /\ IsNormal(p, s[n]) THEN s[n] ELSE 0
  BY <1>1, FollowChainWalks
<1>3. \A k \in 0..n : s[k] = IF k = 0 THEN first ELSE Hop(p, s[k - 1])
  BY <1>2 DEF WalkTo
<1>4. first \in 1..n
  BY DEF ChainOk, LinkOk
<1> DEFINE Walking(k) == s[k] \in DOMAIN ch /\ ch[s[k]] = ch[first] /\ s[k] >= first + k
           Arrived(k) == s[k] \in Normal(p) /\ p.tuples[s[k]] = ch[first]
           S == {k \in Nat : k <= n => Walking(k) \/ Arrived(k)}
<1>5. 0 \in S
  <2>1. s[0] = first /\ first >= first + 0
    BY <1>1, <1>3, <1>4
  <2> QED
    BY <2>1
<1>6. ASSUME NEW k \in Nat, k \in S
      PROVE  k + 1 \in S
  <2> SUFFICES ASSUME k + 1 <= n PROVE Walking(k + 1) \/ Arrived(k + 1)
    OBVIOUS
  <2>1. Walking(k) \/ Arrived(k)
    BY <1>1, <1>6
  <2>2. s[k + 1] = Hop(p, s[k])
    <3>1. k + 1 \in 0..n /\ k + 1 # 0 /\ (k + 1) - 1 = k
      BY <1>1
    <3> QED
      BY <1>3, <3>1
  <2>3. PICK x : x = s[k]
    OBVIOUS
  <2>4. CASE Walking(k)
    <3>1. LinkOk(p, ch, x) /\ x \in Slots(p) /\ x \in 1..n /\ x >= first + k
      BY <1>1, <2>3, <2>4 DEF ChainOk, LinkOk
    <3>2. PICK d : d = p.line_pointers[x].lp_offset
      OBVIOUS
    <3>3. s[k + 1] = d
      BY <2>2, <2>3, <3>1, <3>2 DEF Hop, LinkOk
    <3>4. d \in x + 1 .. n
      BY <3>1, <3>2 DEF LinkOk
    <3>5. d >= first + (k + 1)
      BY <1>1, <1>4, <3>1, <3>4
    <3>6. (d \in Normal(p) /\ p.tuples[d] = ch[x]) \/ (d \in DOMAIN ch /\ ch[d] = ch[x])
      BY <3>1, <3>2 DEF LinkOk
    <3> QED
      BY <2>3, <2>4, <3>3, <3>5, <3>6
  <2>5. CASE Arrived(k)
    <3>1. s[k + 1] = s[k]
      BY <2>2, <2>5 DEF Hop, Normal, IsNormal, LP_NORMAL, LP_REDIRECT
    <3> QED
      BY <2>5, <3>1
  <2> QED
    BY <2>1, <2>4, <2>5
<1>7. Walking(n) \/ Arrived(n)
  <2> HIDE DEF S
  <2>1. Nat \subseteq S
    BY <1>5, <1>6, InductiveSet
  <2>2. n \in S /\ n <= n
    BY <1>1, <2>1
  <2> HIDE DEF Walking, Arrived, n
  <2> QED
    BY <2>2 DEF S
<1>8. ~ Walking(n)
  <2> SUFFICES ASSUME Walking(n) PROVE FALSE
    OBVIOUS
  <2>1. s[n] \in 1..n
    BY DEF ChainOk, LinkOk
  <2> QED
    BY <1>1, <1>4, <2>1
<1>9. s[n] \in Normal(p) /\ p.tuples[s[n]] = ch[first]
  BY <1>7, <1>8
<1>10. s[n] \in 1..n /\ IsNormal(p, s[n]) /\ s[n] # 0
  BY <1>1, <1>9 DEF Normal
<1> QED
  BY <1>1, <1>2, <1>9, <1>10

------------------------------------------------------------------------------
(* One page under every operation                                          *)

PageTuples == [id : Nat, len : Nat \ {0}, xmax : Nat]

(* No two normal slots hold a tuple of the same id, and u is none of them. *)
IdsOk(p, u) == \A i, j \in Normal(p) : p.tuples[i].id <= u /\ (p.tuples[i].id = p.tuples[j].id => i = j)

PageInv ==
  /\ PageOf(PageTuples, hp) /\ NoneDead(hp) /\ Room(hp) /\ used \in Nat
  /\ live = Tuples(hp)
  /\ IdsOk(hp, used)
  /\ ChainOk(hp, chained)

LEMMA PageTuplesLength == HaveLength(PageTuples)
  BY DEF HaveLength, PageTuples

LEMMA GrownTuples ==
  ASSUME NEW T, HaveLength(T), NEW p, PageOf(T, p), NEW t \in T
  PROVE  Tuples(Grown(p, t)) = Tuples(p) \cup {t}
<1> DEFINE q == Grown(p, t)
           n == Len(p.line_pointers)
<1>1. /\ Normal(q) = Normal(p) \cup {n + 1} /\ q.tuples[n + 1] = t
      /\ \A i \in 1..n : q.tuples[i] = p.tuples[i]
  BY GrownPage
<1> HIDE DEF q
<1>2. \A i \in Normal(p) : q.tuples[i] = p.tuples[i]
  BY <1>1 DEF Normal
<1>3. Tuples(q) = Tuples(p) \cup {t}
  BY <1>1, <1>2 DEF Tuples
<1> QED
  BY <1>3 DEF q

LEMMA GrownIds ==
  ASSUME NEW p, PageOf(PageTuples, p), NEW u \in Nat, IdsOk(p, u), NEW t \in PageTuples, t.id = u + 1
  PROVE  IdsOk(Grown(p, t), u + 1)
<1> DEFINE q == Grown(p, t)
           n == Len(p.line_pointers)
<1>1. /\ Normal(q) = Normal(p) \cup {n + 1} /\ q.tuples[n + 1] = t
      /\ \A i \in 1..n : q.tuples[i] = p.tuples[i]
  BY GrownPage, PageTuplesLength
<1> HIDE DEF q
<1>2. \A i \in Normal(p) : q.tuples[i] = p.tuples[i] /\ p.tuples[i].id \in Nat /\ p.tuples[i].id <= u
  <2>1. \A i \in Normal(p) : p.tuples[i] \in PageTuples
    BY NormalStored, PageTuplesLength
  <2>2. \A i \in Normal(p) : p.tuples[i].id \in Nat
    BY <2>1 DEF PageTuples
  <2>3. \A i \in Normal(p) : q.tuples[i] = p.tuples[i]
    BY <1>1 DEF Normal
  <2> QED
    BY <2>2, <2>3 DEF IdsOk
<1>3. ASSUME NEW i \in Normal(q), NEW j \in Normal(q)
      PROVE  q.tuples[i].id <= u + 1 /\ (q.tuples[i].id = q.tuples[j].id => i = j)
  <2>1. CASE i \in Normal(p) /\ j \in Normal(p)
    BY <1>2, <2>1 DEF IdsOk
  <2>2. CASE i \in Normal(p) /\ j = n + 1
    <3>1. PICK x \in Nat : x = q.tuples[i].id /\ x <= u
      BY <1>2, <2>2
    <3>2. q.tuples[j].id = u + 1
      BY <1>1, <2>2
    <3> QED
      BY <3>1, <3>2
  <2>3. CASE i = n + 1 /\ j \in Normal(p)
    <3>1. PICK x \in Nat : x = q.tuples[j].id /\ x <= u
      BY <1>2, <2>3
    <3>2. q.tuples[i].id = u + 1
      BY <1>1, <2>3
    <3> QED
      BY <3>1, <3>2
  <2>4. CASE i = n + 1 /\ j = n + 1
    BY <1>1, <2>4
  <2> QED
    BY <1>1, <2>1, <2>2, <2>3, <2>4
<1> QED
  BY <1>3 DEF IdsOk, q

LEMMA GrownChain ==
  ASSUME NEW T, HaveLength(T), NEW p, PageOf(T, p), NEW t \in T, NEW ch, ChainOk(p, ch)
  PROVE  ChainOk(Grown(p, t), ch)
<1> DEFINE q == Grown(p, t)
           n == Len(p.line_pointers)
<1>0. n \in Nat
  BY NormalStored
<1>1. /\ Normal(q) = Normal(p) \cup {n + 1} /\ Len(q.line_pointers) = n + 1
      /\ \A i \in 1..n : q.line_pointers[i] = p.line_pointers[i] /\ q.tuples[i] = p.tuples[i]
  BY GrownPage
<1> HIDE DEF q
<1>2. ASSUME NEW s \in DOMAIN ch
      PROVE  LinkOk(q, ch, s)
  <2>1. LinkOk(p, ch, s)
    BY DEF ChainOk
  <2>2. PICK d : d = p.line_pointers[s].lp_offset
    OBVIOUS
  <2>3. s \in 1..n /\ d \in s + 1 .. n /\ d \in 1..n /\ p.line_pointers[s].lp_flags = LP_REDIRECT
    BY <1>0, <2>1, <2>2 DEF LinkOk
  <2>4. s \in 1..n + 1 /\ d \in s + 1 .. n + 1
    BY <1>0, <2>3
  <2>5. q.line_pointers[s] = p.line_pointers[s] /\ q.tuples[d] = p.tuples[d]
    BY <1>1, <2>3
  <2>6. (d \in Normal(p) /\ p.tuples[d] = ch[s]) \/ (d \in DOMAIN ch /\ ch[d] = ch[s])
    BY <2>1, <2>2 DEF LinkOk
  <2>7. (d \in Normal(q) /\ q.tuples[d] = ch[s]) \/ (d \in DOMAIN ch /\ ch[d] = ch[s])
    BY <1>1, <2>5, <2>6
  <2> QED
    BY <1>1, <2>2, <2>3, <2>4, <2>5, <2>7 DEF LinkOk
<1> QED
  BY <1>2 DEF ChainOk, q

LEMMA FreshTuple ==
  ASSUME used \in Nat, NEW len \in TupleLens, NEW xmax \in PageCutoffs \cup {0}
  PROVE  Fresh(len, xmax) \in PageTuples /\ Fresh(len, xmax).id = used + 1
<1>1. len \in Nat \ {0} /\ xmax \in Nat
  BY PageOpsConstants
<1> QED
  BY <1>1 DEF Fresh, PageTuples

LEMMA AddTupleKeeps ==
  ASSUME PageInv, NEW t \in PageTuples, t.id = used + 1, PageAddTuple(t)
  PROVE  PageInv'
<1> USE PageTuplesLength
<1>1. /\ used' = used + 1 /\ chained' = chained /\ hp' = AddTuple(hp, t).page
      /\ live' = IF AddTuple(hp, t).slot = 0 THEN live ELSE live \cup {t}
  BY DEF PageAddTuple
<1>2. /\ PageOf(PageTuples, hp) /\ NoneDead(hp) /\ Room(hp) /\ used \in Nat /\ live = Tuples(hp)
      /\ IdsOk(hp, used) /\ ChainOk(hp, chained)
  BY DEF PageInv
<1>3. CASE HasRoom(hp, t)
  <2>1. AddTuple(hp, t).page = Grown(hp, t) /\ AddTuple(hp, t).slot # 0
    <3>1. Len(hp.line_pointers) \in Nat
      BY <1>2, NormalStored
    <3>2. Len(hp.line_pointers) + 1 # 0
      BY <3>1
    <3> QED
      BY <1>2, <1>3, <3>2, AddTupleResult
  <2>2. hp' = Grown(hp, t) /\ live' = live \cup {t}
    BY <1>1, <2>1
  <2>3. PageOf(PageTuples, hp') /\ NoneDead(hp')
    BY <1>2, <2>2, GrownPage
  <2>4. Room(hp')
    BY <1>2, <1>3, <2>2, GrownRoom
  <2>5. IdsOk(hp', used')
    BY <1>1, <1>2, <2>2, GrownIds
  <2>6. ChainOk(hp', chained')
    BY <1>1, <1>2, <2>2, GrownChain
  <2>7. live' = Tuples(hp')
    BY <1>2, <2>2, GrownTuples
  <2>8. used' \in Nat
    BY <1>1, <1>2
  <2> QED
    BY <2>3, <2>4, <2>5, <2>6, <2>7, <2>8 DEF PageInv
<1>4. CASE ~ HasRoom(hp, t)
  <2>1. AddTuple(hp, t).page = hp /\ AddTuple(hp, t).slot = 0
    BY <1>2, <1>4, AddTupleResult
  <2>2. hp' = hp /\ live' = live
    BY <1>1, <2>1
  <2>3. IdsOk(hp, used + 1)
    <3>1. \A i \in Normal(hp) : hp.tuples[i].id \in Nat
      <4>1. \A i \in Normal(hp) : hp.tuples[i] \in PageTuples
        BY <1>2, NormalStored
      <4> QED
        BY <4>1 DEF PageTuples
    <3>2. \A i \in Normal(hp) : hp.tuples[i].id <= used + 1
      BY <1>2, <3>1 DEF IdsOk
    <3> QED
      BY <1>2, <3>2 DEF IdsOk
  <2> QED
    BY <1>1, <1>2, <2>2, <2>3 DEF PageInv
<1> QED
  BY <1>3, <1>4

LEMMA HotUpdateKeeps ==
  ASSUME PageInv, NEW t \in PageTuples, t.id = used + 1, NEW old \in Slots(hp), PageHotUpdate(old, t)
  PROVE  PageInv'
<1> USE PageTuplesLength
<1> DEFINE n == Len(hp.line_pointers)
           r == HotUpdate(hp, old, t)
<1>1. /\ used' = used + 1 /\ hp' = r.page
      /\ r.slot = 0 => live' = live /\ chained' = chained
      /\ r.slot # 0 => /\ live' = (live \ {hp.tuples[old]}) \cup {t}
                       /\ chained' = [s \in DOMAIN chained \cup {old} |->
                                        IF s = old \/ chained[s] = hp.tuples[old] THEN t ELSE chained[s]]
  BY DEF PageHotUpdate
<1>2. /\ PageOf(PageTuples, hp) /\ NoneDead(hp) /\ Room(hp) /\ used \in Nat /\ live = Tuples(hp)
      /\ IdsOk(hp, used) /\ ChainOk(hp, chained)
  BY DEF PageInv
<1>3. n \in Nat /\ Slots(hp) = 1..n /\ old \in 1..n
  BY <1>2, NormalStored
<1>4. \A i \in Normal(hp) : hp.tuples[i].id \in Nat /\ hp.tuples[i].id <= used
  <2>1. \A i \in Normal(hp) : hp.tuples[i] \in PageTuples
    BY <1>2, NormalStored
  <2> QED
    BY <1>2, <2>1 DEF PageTuples, IdsOk
<1>5. CASE ~ (old \in Normal(hp) /\ HasRoom(hp, t))
  <2>1. r.page = hp /\ r.slot = 0
    <3>1. CASE old \in Normal(hp)
      BY <1>2, <1>5, <3>1, HotUpdateResult
    <3>2. CASE old \notin Normal(hp)
      <4>1. ~ IsNormal(hp, old)
        BY <1>3, <3>2 DEF Normal
      <4> QED
        BY <4>1 DEF HotUpdate
    <3> QED
      BY <3>1, <3>2
  <2>2. hp' = hp /\ live' = live /\ chained' = chained /\ used' \in Nat
    BY <1>1, <1>2, <2>1
  <2>3. IdsOk(hp, used + 1)
    <3>1. \A i \in Normal(hp) : hp.tuples[i].id <= used + 1
      BY <1>2, <1>4
    <3> QED
      BY <1>2, <3>1 DEF IdsOk
  <2> QED
    BY <1>1, <1>2, <2>2, <2>3 DEF PageInv
<1>6. CASE old \in Normal(hp) /\ HasRoom(hp, t)
  <2> DEFINE m == Redirected(hp, old, n + 1)
             q == Grown(m, t)
  <2>1. r.page = q /\ r.slot # 0
    <3>1. n + 1 # 0
      BY <1>3
    <3> QED
      BY <1>2, <1>6, <3>1, HotUpdateResult
  <2>2. /\ hp' = q /\ live' = (live \ {hp.tuples[old]}) \cup {t}
        /\ chained' = [s \in DOMAIN chained \cup {old} |->
                          IF s = old \/ chained[s] = hp.tuples[old] THEN t ELSE chained[s]]
    BY <1>1, <2>1
  <2>3. /\ PageOf(PageTuples, m) /\ Len(m.line_pointers) = n /\ NoneDead(m) /\ m.tuples = hp.tuples
        /\ \A i \in 1..n : i # old => m.line_pointers[i] = hp.line_pointers[i]
        /\ m.line_pointers[old].lp_flags = LP_REDIRECT /\ m.line_pointers[old].lp_offset = n + 1
        /\ Normal(m) = Normal(hp) \ {old}
    <3>1. PICK new \in Int : new = n + 1
      BY <1>3
    <3> QED
      BY <1>2, <1>3, <3>1, RedirectedPage
  <2>4. HasRoom(m, t) /\ Room(m)
    <3>1. PICK new \in Int : new = n + 1
      BY <1>3
    <3>2. Room(Redirected(hp, old, new))
      BY <1>2, <1>3, RedirectedRoom
    <3>3. m.lower = hp.lower /\ m.upper = hp.upper
      BY DEF Redirected
    <3> QED
      BY <1>6, <3>1, <3>2, <3>3 DEF HasRoom
  <2> HIDE DEF m, r
  <2>5. /\ PageOf(PageTuples, q) /\ NoneDead(q) /\ Len(q.line_pointers) = n + 1
        /\ \A i \in 1..n : q.line_pointers[i] = m.line_pointers[i] /\ q.tuples[i] = m.tuples[i]
        /\ q.tuples[n + 1] = t /\ Normal(q) = Normal(m) \cup {n + 1}
    <3> DEFINE l == Len(m.line_pointers)
    <3>1. PageOf(PageTuples, m) /\ NoneDead(m) /\ l = n
      BY <2>3
    <3> HIDE DEF n
    <3>2. /\ PageOf(PageTuples, q) /\ NoneDead(q) /\ Len(q.line_pointers) = l + 1
          /\ \A i \in 1..l : q.line_pointers[i] = m.line_pointers[i] /\ q.tuples[i] = m.tuples[i]
          /\ q.tuples[l + 1] = t /\ Normal(q) = Normal(m) \cup {l + 1}
      BY <3>1, GrownPage
    <3> HIDE DEF l, q
    <3> QED
      BY <3>1, <3>2
  <2>6. Room(q)
    BY <2>3, <2>4, GrownRoom
  <2>7. IdsOk(m, used)
    BY <1>2, <2>3 DEF IdsOk
  <2>8. IdsOk(q, used + 1)
    BY <1>2, <2>3, <2>7, GrownIds
  <2>9. Tuples(q) = (Tuples(hp) \ {hp.tuples[old]}) \cup {t}
    <3>1. Tuples(q) = Tuples(m) \cup {t}
      BY <2>3, GrownTuples
    <3>2. Tuples(m) = Tuples(hp) \ {hp.tuples[old]}
      <4>1. \A i \in Normal(hp) : hp.tuples[i] = hp.tuples[old] => i = old
        BY <1>2, <1>6 DEF IdsOk
      <4> QED
        BY <1>6, <2>3, <4>1 DEF Tuples
    <3> QED
      BY <3>1, <3>2
  <2> HIDE DEF q
  <2>10. ASSUME NEW s \in DOMAIN chained'
         PROVE  LinkOk(q, chained', s)
    <3> DEFINE ch == chained'
    <3>0. /\ DOMAIN ch = DOMAIN chained \cup {old} /\ ch[old] = t
          /\ \A x \in DOMAIN chained : x # old =>
               ch[x] = IF chained[x] = hp.tuples[old] THEN t ELSE chained[x]
      BY <2>2
    <3> HIDE DEF ch
    <3>1. CASE s = old
      <4>1. q.line_pointers[s] = m.line_pointers[old]
        BY <1>3, <2>5, <3>1
      <4>2. n + 1 \in Normal(q) /\ q.tuples[n + 1] = ch[s]
        BY <2>5, <3>0, <3>1
      <4>3. s \in 1..n + 1 /\ n + 1 \in s + 1 .. n + 1
        BY <1>3, <3>1
      <4>4. q.line_pointers[s].lp_flags = LP_REDIRECT /\ q.line_pointers[s].lp_offset = n + 1
        BY <2>3, <4>1
      <4>5. LinkOk(q, ch, s)
        BY <2>5, <4>2, <4>3, <4>4 DEF LinkOk
      <4> QED
        BY <4>5 DEF ch
    <3>2. CASE s # old
      <4>1. s \in DOMAIN chained
        BY <3>0, <3>2 DEF ch
      <4>2. LinkOk(hp, chained, s)
        BY <1>2, <4>1 DEF ChainOk
      <4>3. PICK d : d = hp.line_pointers[s].lp_offset
        OBVIOUS
      <4>4. s \in 1..n /\ d \in s + 1 .. n /\ d \in 1..n /\ hp.line_pointers[s].lp_flags = LP_REDIRECT
        BY <1>3, <4>2, <4>3 DEF LinkOk
      <4>5. s \in 1..n + 1 /\ d \in s + 1 .. n + 1
        BY <1>3, <4>4
      <4>6. q.line_pointers[s] = hp.line_pointers[s] /\ q.tuples[d] = hp.tuples[d]
        BY <2>3, <2>5, <3>2, <4>4
      <4>7. (d \in Normal(hp) /\ hp.tuples[d] = chained[s]) \/ (d \in DOMAIN chained /\ chained[d] = chained[s])
        BY <4>2, <4>3 DEF LinkOk
      <4>8. (d \in Normal(q) /\ q.tuples[d] = ch[s]) \/ (d \in DOMAIN ch /\ ch[d] = ch[s])
        <5>1. CASE d = old
          <6>1. d \notin DOMAIN chained
            BY <1>2, <1>6, <5>1 DEF ChainOk, LinkOk, Normal, IsNormal, LP_NORMAL, LP_REDIRECT
          <6>2. ch[s] = t
            BY <3>0, <3>2, <4>1, <4>7, <5>1, <6>1
          <6> QED
            BY <3>0, <5>1, <6>2
        <5>2. CASE d # old /\ d \in Normal(hp) /\ hp.tuples[d] = chained[s]
          <6>1. chained[s] # hp.tuples[old]
            BY <1>2, <1>6, <5>2 DEF IdsOk
          <6>2. ch[s] = chained[s]
            BY <3>0, <3>2, <4>1, <6>1
          <6>3. d \in Normal(q)
            BY <2>3, <2>5, <5>2
          <6> QED
            BY <4>6, <5>2, <6>2, <6>3
        <5>3. CASE d # old /\ d \in DOMAIN chained /\ chained[d] = chained[s]
          BY <3>0, <3>2, <4>1, <5>3
        <5> QED
          BY <4>7, <5>1, <5>2, <5>3
      <4>9. LinkOk(q, ch, s)
        BY <2>5, <4>3, <4>4, <4>5, <4>6, <4>8 DEF LinkOk
      <4> QED
        BY <4>9 DEF ch
    <3> QED
      BY <3>1, <3>2
  <2>11. ChainOk(q, chained')
    BY <2>10 DEF ChainOk
  <2>12. used' \in Nat /\ live' = Tuples(q) /\ IdsOk(q, used')
    BY <1>1, <1>2, <2>2, <2>8, <2>9
  <2> QED
    BY <2>2, <2>5, <2>6, <2>11, <2>12 DEF PageInv
<1> QED
  BY <1>5, <1>6

LEMMA PruneKeeps ==
  ASSUME PageInv, NEW cutoff \in Nat, PagePrune(cutoff)
  PROVE  PageInv'
<1> USE PageTuplesLength
<1> DEFINE D == PruneDead(hp, cutoff)
           r == Compact(MarkDead(hp, D))
<1>1. /\ hp' = Prune(hp, cutoff) /\ hp' # hp /\ live' = live \ {hp.tuples[i] : i \in D}
      /\ chained' = << >> /\ used' = used
  BY DEF PagePrune
<1>2. /\ PageOf(PageTuples, hp) /\ NoneDead(hp) /\ Room(hp) /\ used \in Nat /\ live = Tuples(hp)
      /\ IdsOk(hp, used)
  BY DEF PageInv
<1>3. hp' = r
  BY <1>1 DEF Prune
<1>4. D \subseteq Normal(hp)
  BY <1>2, NormalStored DEF PruneDead, Normal
<1> HIDE DEF D
<1>5. /\ PageOf(PageTuples, r) /\ NoneDead(r)
      /\ Tuples(r) = {hp.tuples[i] : i \in Normal(hp) \ D}
      /\ \A k, l \in Normal(r) : \E i, j \in Normal(hp) :
              r.tuples[k] = hp.tuples[i] /\ r.tuples[l] = hp.tuples[j] /\ (i = j => k = l)
  BY <1>2, <1>4, CompactedPage
<1>6. Room(r)
  BY <1>2, <1>4, CompactedRoom
<1> HIDE DEF r
<1>7. IdsOk(r, used)
  <2> SUFFICES ASSUME NEW k \in Normal(r), NEW l \in Normal(r)
               PROVE  r.tuples[k].id <= used /\ (r.tuples[k].id = r.tuples[l].id => k = l)
    BY DEF IdsOk
  <2>1. PICK i \in Normal(hp), j \in Normal(hp) :
          r.tuples[k] = hp.tuples[i] /\ r.tuples[l] = hp.tuples[j] /\ (i = j => k = l)
    BY <1>5
  <2> QED
    BY <1>2, <2>1 DEF IdsOk
<1>8. live' = Tuples(r)
  <2>1. \A i, j \in Normal(hp) : hp.tuples[i] = hp.tuples[j] => i = j
    BY <1>2 DEF IdsOk
  <2>2. Tuples(hp) \ {hp.tuples[i] : i \in D} = {hp.tuples[i] : i \in Normal(hp) \ D}
    BY <1>4, <2>1 DEF Tuples
  <2> QED
    BY <1>1, <1>2, <1>5, <2>2
<1>9. ChainOk(hp', chained')
  <2>1. DOMAIN chained' = {}
    BY <1>1
  <2> QED
    BY <2>1 DEF ChainOk
<1> QED
  BY <1>1, <1>2, <1>3, <1>5, <1>6, <1>7, <1>8, <1>9 DEF PageInv

LEMMA ReloadKeeps ==
  ASSUME PageInv, PageReload
  PROVE  PageInv'
<1> USE PageTuplesLength
<1>1. hp' = Deserialize(Serialize(hp)) /\ live' = live /\ chained' = << >> /\ used' = used
  BY DEF PageReload
<1>2. /\ PageOf(PageTuples, hp) /\ NoneDead(hp) /\ Room(hp) /\ used \in Nat /\ live = Tuples(hp)
      /\ IdsOk(hp, used)
  BY DEF PageInv
<1>3. hp' = Relaid(hp)
  BY <1>1, <1>2, PageReturns
<1> DEFINE q == Relaid(hp)
<1>4. /\ PageOf(PageTuples, q) /\ NoneDead(q) /\ Normal(q) = Normal(hp) /\ Tuples(q) = Tuples(hp)
      /\ \A i \in Normal(hp) : q.tuples[i] = hp.tuples[i]
  BY <1>2, RelaidPage
<1>5. Room(q)
  BY <1>2, RelaidRoom
<1> HIDE DEF q
<1>6. IdsOk(q, used)
  BY <1>2, <1>4 DEF IdsOk
<1>7. ChainOk(hp', chained')
  <2>1. DOMAIN chained' = {}
    BY <1>1
  <2> QED
    BY <2>1 DEF ChainOk
<1>8. hp' = q
  BY <1>3 DEF q
<1> QED
  BY <1>1, <1>2, <1>4, <1>5, <1>6, <1>7, <1>8 DEF PageInv

LEMMA PageInvInit == PageInit => PageInv
<1> SUFFICES ASSUME PageInit PROVE PageInv
  OBVIOUS
<1>1. /\ hp = NewPage /\ live = {} /\ chained = << >> /\ used = 0
  BY DEF PageInit
<1>2. NewPage.line_pointers = << >> /\ NewPage.tuples = << >> /\ NewPage.lower = PageHeaderSize /\ NewPage.upper = PageSize
  BY DEF NewPage
<1>3. PageOf(PageTuples, NewPage)
  <2>1. NewPage \in [lower : Nat, upper : Int, line_pointers : Seq(LinePointers), tuples : Seq(PageTuples \cup {EmptyTuple})]
    BY PageConstants DEF NewPage
  <2>2. PageHeaderSize = PageHeaderSize + 0 * LinePointerSize
    BY PageConstants
  <2> QED
    BY <1>2, <2>1, <2>2 DEF PageOf
<1>4. Normal(NewPage) = {} /\ NoneDead(NewPage)
  BY <1>2 DEF Normal, NoneDead
<1>5. Room(NewPage)
  <2>1. StoredLength(NewPage, 0) = 0
    <3>1. PICK z \in Nat : z = 0
      OBVIOUS
    <3> QED
      BY <3>1, StoredLengthStep
  <2> QED
    BY <1>2, <2>1, PageConstants DEF Room
<1>6. DOMAIN chained = {}
  BY <1>1
<1> QED
  BY <1>1, <1>3, <1>4, <1>5, <1>6 DEF PageInv, Tuples, IdsOk, ChainOk

(* Whatever the sizes of pages, pointers and tuples: a page keeps its live *)
(* tuples, each once, room for them, and the links of its chains.          *)
THEOREM PageInvariant == PageSpec => []PageInv
<1>1. PageInv /\ [PageNext]_pageVars => PageInv'
  <2> SUFFICES ASSUME PageInv, [PageNext]_pageVars PROVE PageInv'
    OBVIOUS
  <2>0. used \in Nat
    BY DEF PageInv
  <2>1. ASSUME NEW len \in TupleLens, NEW xmax \in PageCutoffs \cup {0}, PageAddTuple(Fresh(len, xmax))
        PROVE  PageInv'
    BY <2>0, <2>1, FreshTuple, AddTupleKeeps
  <2>2. ASSUME NEW len \in TupleLens, NEW xmax \in PageCutoffs \cup {0}, NEW s \in Slots(hp),
               PageHotUpdate(s, Fresh(len, xmax))
        PROVE  PageInv'
    BY <2>0, <2>2, FreshTuple, HotUpdateKeeps
  <2>3. ASSUME NEW c \in PageCutoffs, PagePrune(c + 1)
        PROVE  PageInv'
    <3>1. c + 1 \in Nat
      BY PageOpsConstants
    <3> QED
      BY <2>3, <3>1, PruneKeeps
  <2>4. CASE PageReload
    BY <2>4, ReloadKeeps
  <2>5. CASE UNCHANGED pageVars
    BY <2>5 DEF pageVars, PageInv
  <2> QED
    BY <2>1, <2>2, <2>3, <2>4, <2>5 DEF PageNext
<1> QED
  BY <1>1, PageInvInit, PTL DEF PageSpec

(* serialize and deserialize return exactly the live tuples, no tuple      *)
(* shares a byte with another or with the line pointers, and follow_chain  *)
(* leads from every updated slot to its newest version, on a page of any   *)
(* size through any sequence of additions, updates, prunings and reloads.  *)
THEOREM PageIsSound == PageSpec => []PageSound
<1>1. PageInv => PageSound
  <2> SUFFICES ASSUME PageInv PROVE PageSound
    OBVIOUS
  <2> USE PageTuplesLength
  <2>1. /\ PageOf(PageTuples, hp) /\ Room(hp) /\ live = Tuples(hp) /\ ChainOk(hp, chained)
    BY DEF PageInv
  <2>2. RoundTripKeepsLive
    BY <2>1, DecodedTuples DEF RoundTripKeepsLive, PageStored
  <2>3. NoOverlap
    BY <2>1 DEF NoOverlap, Room, PageOf
  <2>4. ChainReachesNewest
    BY <2>1, ChainLeads DEF ChainReachesNewest
  <2> QED
    BY <2>2, <2>3, <2>4 DEF PageSound
<1> QED
  BY <1>1, PageInvariant, PTL

------------------------------------------------------------------------------
(* A page of rows                                                          *)

(* A page with at most one version of each row.                            *)
HeapPageOk(p) ==
  /\ PageOf(RowVersions, p) /\ NoneDead(p)
  /\ \A i, j \in Normal(p) : p.tuples[i].row = p.tuples[j].row => i = j

IsImage(img) == \E p : HeapPageOk(p) /\ img = Serialize(p)

(* What a page id holds, nothing when no page was written there.           *)
Content(img) == IF img = NoPage THEN {} ELSE Decoded(img)
RowsOf(img) == {t.row : t \in Content(img)}

LEMMA RowVersionsLength == HaveLength(RowVersions)
  BY DEF HaveLength, RowVersions

LEMMA SerializedImage ==
  ASSUME NEW p, HeapPageOk(p)
  PROVE  IsImage(Serialize(p)) /\ Serialize(p) # NoPage /\ Content(Serialize(p)) = Tuples(p)
<1> USE RowVersionsLength
<1>1. PageOf(RowVersions, p)
  BY DEF HeapPageOk
<1> DEFINE n == Len(p.line_pointers)
           lps == Relaid(p).line_pointers
           areas == {TupleAt(p, i) : i \in Normal(p)}
<1>2. Serialize(p) = [lower |-> p.lower, upper |-> Start(p, n), line_pointers |-> lps, area |-> areas]
  BY <1>1, SerializedParts
<1>3. p.lower \in Nat
  BY <1>1 DEF PageOf
<1>4. n \in Nat
  BY <1>1, NormalStored
<1>5. Start(p, n) \in Int
  BY <1>1, <1>4, Starts
<1>6. lps \in Seq(LinePointers)
  <2>1. PageOf(RowVersions, Relaid(p))
    BY <1>1, RelaidPage
  <2> QED
    BY <2>1 DEF PageOf
<1>7. areas \in SUBSET [start : Int, end : Int, tuple : RowVersions]
  <2> SUFFICES ASSUME NEW i \in Normal(p)
               PROVE  TupleAt(p, i) \in [start : Int, end : Int, tuple : RowVersions]
    OBVIOUS
  <2>1. p.tuples[i] \in RowVersions
    BY <1>1, NormalStored
  <2>2. p.tuples[i].len \in Nat
    BY <1>1, NormalStored
  <2>3. i \in 0..n
    BY <1>4 DEF Normal
  <2>4. Start(p, i) \in Int
    BY <1>1, <2>3, Starts
  <2>5. Start(p, i) + p.tuples[i].len \in Int
    BY <2>2, <2>4
  <2> QED
    BY <2>1, <2>4, <2>5 DEF TupleAt
<1> HIDE DEF lps, areas, n
<1>8. Serialize(p) \in PageImages
  BY <1>2, <1>3, <1>5, <1>6, <1>7 DEF PageImages, LinePointers
<1>9. Serialize(p) # NoPage
  BY <1>8, HeapConstants
<1>10. Decoded(Serialize(p)) = Tuples(p)
  BY <1>1, DecodedTuples
<1> QED
  BY <1>9, <1>10 DEF IsImage, Content

(* What a statement reads back of a stored page.                           *)
LEMMA ImageRead ==
  ASSUME NEW img, IsImage(img)
  PROVE  /\ img # NoPage /\ Content(img) = Decoded(img)
         /\ HeapPageOk(Deserialize(img)) /\ Tuples(Deserialize(img)) = Content(img)
         /\ \A i \in Slots(Deserialize(img)) : Deserialize(img).tuples[i].len > 0 => i \in Normal(Deserialize(img))
<1> USE RowVersionsLength
<1>1. PICK p : HeapPageOk(p) /\ img = Serialize(p)
  BY DEF IsImage
<1>2. PageOf(RowVersions, p) /\ NoneDead(p)
  BY <1>1 DEF HeapPageOk
<1>3. img # NoPage /\ Content(img) = Tuples(p)
  BY <1>1, SerializedImage
<1>4. Deserialize(img) = Relaid(p)
  BY <1>1, <1>2, PageReturns
<1> DEFINE q == Relaid(p)
           n == Len(p.line_pointers)
<1>5. /\ PageOf(RowVersions, q) /\ NoneDead(q) /\ Normal(q) = Normal(p) /\ Tuples(q) = Tuples(p)
      /\ Len(q.line_pointers) = n
      /\ \A i \in Normal(p) : q.tuples[i] = p.tuples[i]
      /\ \A i \in 1..n : i \notin Normal(p) => q.tuples[i] = EmptyTuple
  BY <1>2, RelaidPage
<1>6. Slots(q) = 1..n
  <2>1. Slots(q) = 1..Len(q.line_pointers)
    BY <1>5, NormalStored
  <2> QED
    BY <1>5, <2>1
<1> HIDE DEF q, n
<1>7. \A i \in Slots(q) : q.tuples[i].len > 0 => i \in Normal(q)
  BY <1>5, <1>6 DEF EmptyTuple
<1>8. HeapPageOk(q)
  BY <1>1, <1>5 DEF HeapPageOk
<1> QED
  BY <1>3, <1>4, <1>5, <1>7, <1>8 DEF q, Content

LEMMA TupleTyped ==
  ASSUME NEW p, HeapPageOk(p)
  PROVE  \A t \in Tuples(p) : t \in RowVersions
  BY NormalStored, RowVersionsLength DEF HeapPageOk, Tuples

LEMMA RowsApart ==
  ASSUME NEW p, HeapPageOk(p)
  PROVE  \A t, u \in Tuples(p) : t.row = u.row => t = u
  BY DEF HeapPageOk, Tuples

LEMMA NewPageOk == HeapPageOk(NewPage) /\ Tuples(NewPage) = {}
<1>1. NewPage.line_pointers = << >> /\ NewPage.tuples = << >> /\ NewPage.lower = PageHeaderSize
  BY DEF NewPage
<1>2. Len(NewPage.line_pointers) = 0 /\ Len(NewPage.tuples) = 0
  BY <1>1
<1>3. Normal(NewPage) = {}
  BY <1>2 DEF Normal
<1>4. PageOf(RowVersions, NewPage)
  <2>1. PageSize \in Int /\ PageHeaderSize \in Nat /\ LinePointerSize \in Nat
    BY PageConstants
  <2>2. NewPage \in [lower : Nat, upper : Int, line_pointers : Seq(LinePointers),
                     tuples : Seq(RowVersions \cup {EmptyTuple})]
    BY <2>1 DEF NewPage
  <2>3. PageHeaderSize = PageHeaderSize + 0 * LinePointerSize
    BY <2>1
  <2> QED
    BY <1>1, <1>2, <2>2, <2>3 DEF PageOf
<1>5. NoneDead(NewPage)
  BY <1>2 DEF NoneDead
<1> QED
  BY <1>3, <1>4, <1>5 DEF HeapPageOk, Tuples

(* Adding a row the page does not have.                                    *)
LEMMA GrownHeapPage ==
  ASSUME NEW p, HeapPageOk(p), NEW t \in RowVersions, \A u \in Tuples(p) : u.row # t.row
  PROVE  HeapPageOk(Grown(p, t)) /\ Tuples(Grown(p, t)) = Tuples(p) \cup {t}
<1> USE RowVersionsLength
<1> DEFINE q == Grown(p, t)
           n == Len(p.line_pointers)
<1>1. PageOf(RowVersions, p) /\ NoneDead(p) /\ \A i, j \in Normal(p) : p.tuples[i].row = p.tuples[j].row => i = j
  BY DEF HeapPageOk
<1>2. /\ PageOf(RowVersions, q) /\ NoneDead(q)
      /\ \A i \in 1..n : q.tuples[i] = p.tuples[i]
      /\ q.tuples[n + 1] = t /\ Normal(q) = Normal(p) \cup {n + 1}
  BY <1>1, GrownPage
<1>3. Tuples(q) = Tuples(p) \cup {t}
  BY <1>1, GrownTuples
<1> HIDE DEF q
<1>4. \A i \in Normal(p) : q.tuples[i] = p.tuples[i] /\ p.tuples[i].row # t.row
  BY <1>2 DEF Normal, Tuples
<1>5. \A i, j \in Normal(q) : q.tuples[i].row = q.tuples[j].row => i = j
  BY <1>1, <1>2, <1>4
<1> QED
  BY <1>2, <1>3, <1>5 DEF HeapPageOk, q

(* Expire on a slot that holds, or held, a version: its other slots keep   *)
(* theirs, and its layout is unchanged.                                    *)
LEMMA ExpiredPage ==
  ASSUME NEW p, PageOf(RowVersions, p), NoneDead(p), NEW i \in 1..Len(p.line_pointers),
         p.tuples[i] \in RowVersions, current_xid \in Nat
  PROVE  LET q == Expire(p, i) IN
         /\ PageOf(RowVersions, q) /\ NoneDead(q) /\ Normal(q) = Normal(p)
         /\ q.lower = p.lower /\ q.upper = p.upper
         /\ \A j \in 1..Len(p.line_pointers) : j # i => q.tuples[j] = p.tuples[j]
         /\ q.tuples[i] \in RowVersions /\ q.tuples[i].row = p.tuples[i].row /\ q.tuples[i].xmax = current_xid
<1> DEFINE q == Expire(p, i)
           n == Len(p.line_pointers)
           v == [p.tuples[i] EXCEPT !.xmax = current_xid]
<1>1. p \in [lower : Nat, upper : Int, line_pointers : Seq(LinePointers), tuples : Seq(RowVersions \cup {EmptyTuple})]
  BY DEF PageOf
<1>2. Len(p.tuples) = n /\ p.tuples \in Seq(RowVersions \cup {EmptyTuple}) /\ DOMAIN p.tuples = 1..n
  BY <1>1 DEF PageOf
<1>3. /\ q.lower = p.lower /\ q.upper = p.upper /\ q.line_pointers = p.line_pointers
      /\ q.tuples = [p.tuples EXCEPT ![i] = v]
  BY <1>1 DEF Expire
<1>4. v \in RowVersions /\ v.row = p.tuples[i].row /\ v.xmax = current_xid
  BY DEF RowVersions
<1> HIDE DEF v
<1>5. q.tuples \in Seq(RowVersions \cup {EmptyTuple}) /\ Len(q.tuples) = n
  BY <1>2, <1>3, <1>4
<1>6. q \in [lower : Nat, upper : Int, line_pointers : Seq(LinePointers), tuples : Seq(RowVersions \cup {EmptyTuple})]
  <2>1. q = [p EXCEPT !.tuples = q.tuples]
    BY <1>1 DEF Expire
  <2> QED
    BY <1>1, <1>5, <2>1
<1>7. q.tuples[i] = v /\ \A j \in 1..n : j # i => q.tuples[j] = p.tuples[j]
  BY <1>2, <1>3
<1> HIDE DEF q
<1>8. Normal(q) = Normal(p) /\ NoneDead(q)
  BY <1>3 DEF Normal, IsNormal, NoneDead
<1>9. \A j \in 1..n : IsNormal(q, j) => q.tuples[j] \in RowVersions
  BY <1>3, <1>4, <1>7 DEF PageOf, IsNormal
<1>10. PageOf(RowVersions, q)
  BY <1>3, <1>5, <1>6, <1>9 DEF PageOf
<1> QED
  BY <1>3, <1>4, <1>7, <1>8, <1>10 DEF q

(* What one row's update or deletion does to its page: the version in slot *)
(* i gives way to one of the same row that bears the id just drawn, and    *)
(* the slots still to be visited are as they were.                         *)
Rewritten(p, i, q) ==
  /\ HeapPageOk(q)
  /\ \A j \in Normal(p) : j # i => j \in Normal(q) /\ q.tuples[j] = p.tuples[j]
  /\ \E v \in RowVersions : /\ v.row = p.tuples[i].row
                            /\ current_xid = v.xmin \/ current_xid = v.xmax
                            /\ Tuples(q) = (Tuples(p) \ {p.tuples[i]}) \cup {v}

LEMMA ExpireRewrites ==
  ASSUME NEW p, HeapPageOk(p), NEW i \in Normal(p), current_xid \in Nat
  PROVE  Rewritten(p, i, Expire(p, i))
<1> USE RowVersionsLength
<1> DEFINE q == Expire(p, i)
           n == Len(p.line_pointers)
<1>1. PageOf(RowVersions, p) /\ NoneDead(p) /\ \A a, b \in Normal(p) : p.tuples[a].row = p.tuples[b].row => a = b
  BY DEF HeapPageOk
<1>2. i \in 1..n /\ \A j \in Normal(p) : j \in 1..n
  BY DEF Normal
<1>3. p.tuples[i] \in RowVersions
  BY <1>1, NormalStored
<1>4. /\ PageOf(RowVersions, q) /\ NoneDead(q) /\ Normal(q) = Normal(p)
      /\ \A j \in 1..n : j # i => q.tuples[j] = p.tuples[j]
      /\ q.tuples[i] \in RowVersions /\ q.tuples[i].row = p.tuples[i].row /\ q.tuples[i].xmax = current_xid
  BY <1>1, <1>2, <1>3, ExpiredPage
<1> HIDE DEF q
<1>5. \A j \in Normal(p) : q.tuples[j].row = p.tuples[j].row
  BY <1>2, <1>4
<1>6. HeapPageOk(q)
  BY <1>1, <1>4, <1>5 DEF HeapPageOk
<1>7. \A j \in Normal(p) : p.tuples[j] = p.tuples[i] => j = i
  BY <1>1
<1>8. Tuples(q) = (Tuples(p) \ {p.tuples[i]}) \cup {q.tuples[i]}
  BY <1>2, <1>4, <1>7 DEF Tuples
<1> QED
  BY <1>2, <1>4, <1>6, <1>8 DEF Rewritten, q

LEMMA UpdateRewrites ==
  ASSUME NEW p, HeapPageOk(p), NEW i \in Normal(p), current_xid \in Nat
  PROVE  Rewritten(p, i, UpdatedPage(p, i))
<1> USE RowVersionsLength
<1> DEFINE n == Len(p.line_pointers)
           new == [p.tuples[i] EXCEPT !.xmin = current_xid, !.xmax = 0]
           hot == HotUpdate(p, i, new)
<1>1. PageOf(RowVersions, p) /\ NoneDead(p) /\ \A a, b \in Normal(p) : p.tuples[a].row = p.tuples[b].row => a = b
  BY DEF HeapPageOk
<1>2. i \in 1..n /\ \A j \in Normal(p) : j \in 1..n
  BY DEF Normal
<1>3. p.tuples[i] \in RowVersions /\ n \in Nat
  <2>1. n \in Nat
    BY <1>1, NormalStored
  <2> QED
    BY <1>1, <2>1, NormalStored
<1>4. new \in RowVersions /\ new.row = p.tuples[i].row /\ new.xmin = current_xid
  BY <1>3 DEF RowVersions
<1>5. UpdatedPage(p, i) = IF hot.slot # 0 THEN Expire(hot.page, i) ELSE AddTuple(Expire(p, i), new).page
  BY DEF UpdatedPage
<1> HIDE DEF new
<1>6. CASE HasRoom(p, new)
  <2> DEFINE m == Redirected(p, i, n + 1)
             g == Grown(m, new)
             q == Expire(g, i)
  <2>1. UpdatedPage(p, i) = q
    <3>1. hot.page = g /\ hot.slot = n + 1
      BY <1>1, <1>4, <1>6, HotUpdateResult
    <3>2. n + 1 # 0
      BY <1>3
    <3> QED
      BY <1>5, <3>1, <3>2
  <2>2. /\ PageOf(RowVersions, m) /\ Len(m.line_pointers) = n /\ NoneDead(m) /\ m.tuples = p.tuples
        /\ Normal(m) = Normal(p) \ {i}
    <3>1. PICK k \in Int : k = n + 1
      BY <1>3
    <3> QED
      BY <1>1, <1>2, <3>1, RedirectedPage
  <2> HIDE DEF m
  <2>3. HeapPageOk(m) /\ \A u \in Tuples(m) : u.row # new.row
    BY <1>1, <1>4, <2>2 DEF HeapPageOk, Tuples
  <2>4. HeapPageOk(g) /\ Tuples(g) = Tuples(m) \cup {new}
    BY <1>4, <2>3, GrownHeapPage
  <2>5. Tuples(m) = Tuples(p) \ {p.tuples[i]}
    <3>1. \A j \in Normal(p) : p.tuples[j] = p.tuples[i] => j = i
      BY <1>1
    <3> QED
      BY <2>2, <3>1 DEF Tuples
  <2>6. /\ PageOf(RowVersions, g) /\ NoneDead(g) /\ Len(g.line_pointers) = n + 1
        /\ \A j \in 1..n : g.tuples[j] = p.tuples[j]
        /\ g.tuples[n + 1] = new /\ Normal(g) = Normal(m) \cup {n + 1}
    <3> DEFINE l == Len(m.line_pointers)
    <3>1. PageOf(RowVersions, m) /\ NoneDead(m) /\ l = n
      BY <2>2
    <3> HIDE DEF n
    <3>2. /\ PageOf(RowVersions, g) /\ NoneDead(g) /\ Len(g.line_pointers) = l + 1
          /\ \A j \in 1..l : g.tuples[j] = m.tuples[j]
          /\ g.tuples[l + 1] = new /\ Normal(g) = Normal(m) \cup {l + 1}
      BY <1>4, <3>1, GrownPage
    <3> HIDE DEF l, g
    <3> QED
      BY <2>2, <3>1, <3>2
  <2> HIDE DEF g
  <2>7. i \in 1..n + 1 /\ i \notin Normal(g) /\ g.tuples[i] \in RowVersions /\ \A j \in Normal(g) : j \in 1..n + 1
    BY <1>2, <1>3, <2>2, <2>6
  <2>8. /\ PageOf(RowVersions, q) /\ NoneDead(q) /\ Normal(q) = Normal(g)
        /\ \A j \in 1..n + 1 : j # i => q.tuples[j] = g.tuples[j]
    <3> DEFINE l == Len(g.line_pointers)
    <3>1. l = n + 1 /\ i \in 1..l
      BY <2>6, <2>7
    <3> HIDE DEF n
    <3>2. /\ PageOf(RowVersions, q) /\ NoneDead(q) /\ Normal(q) = Normal(g)
          /\ \A j \in 1..l : j # i => q.tuples[j] = g.tuples[j]
      BY <2>6, <2>7, <3>1, ExpiredPage
    <3> HIDE DEF l, q
    <3> QED
      BY <3>1, <3>2
  <2> HIDE DEF q
  <2>9. \A j \in Normal(g) : q.tuples[j] = g.tuples[j]
    BY <2>7, <2>8
  <2>10. HeapPageOk(q) /\ Tuples(q) = Tuples(g)
    BY <2>4, <2>8, <2>9 DEF HeapPageOk, Tuples
  <2>11. \A j \in Normal(p) : j # i => j \in Normal(q) /\ q.tuples[j] = p.tuples[j]
    BY <1>2, <2>2, <2>6, <2>8, <2>9
  <2>12. Tuples(q) = (Tuples(p) \ {p.tuples[i]}) \cup {new}
    BY <2>4, <2>5, <2>10
  <2> QED
    BY <1>4, <2>1, <2>10, <2>11, <2>12 DEF Rewritten
<1>7. CASE ~ HasRoom(p, new)
  <2> DEFINE q == Expire(p, i)
  <2>1. UpdatedPage(p, i) = AddTuple(q, new).page
    <3>1. hot.slot = 0
      BY <1>1, <1>4, <1>7, HotUpdateResult
    <3> QED
      BY <1>5, <3>1
  <2>2. PageOf(RowVersions, q) /\ NoneDead(q) /\ q.lower = p.lower /\ q.upper = p.upper
    BY <1>1, <1>2, <1>3, ExpiredPage
  <2>3. Rewritten(p, i, q)
    BY ExpireRewrites
  <2> HIDE DEF q
  <2>4. ~ HasRoom(q, new)
    BY <1>7, <2>2 DEF HasRoom
  <2>5. AddTuple(q, new).page = q
    BY <1>4, <2>2, <2>4, AddTupleResult
  <2> QED
    BY <2>1, <2>3, <2>5
<1> QED
  BY <1>6, <1>7

(* Vacuum drops the versions whose deletion is older than its horizon.     *)
LEMMA VacuumedHeapPage ==
  ASSUME NEW p, HeapPageOk(p), NEW x
  PROVE  /\ HeapPageOk(VacuumedPage(p, x))
         /\ Tuples(VacuumedPage(p, x)) = {t \in Tuples(p) : ~ (t.xmax # 0 /\ t.xmax < x)}
<1> USE RowVersionsLength
<1> DEFINE D == DeadFor(p, x)
           r == Compact(MarkDead(p, D))
<1>1. PageOf(RowVersions, p) /\ NoneDead(p) /\ \A a, b \in Normal(p) : p.tuples[a].row = p.tuples[b].row => a = b
  BY DEF HeapPageOk
<1>2. D = {i \in Normal(p) : p.tuples[i].xmax # 0 /\ p.tuples[i].xmax < x}
  <2>1. /\ Slots(p) = 1..Len(p.line_pointers)
        /\ \A i \in 1..Len(p.line_pointers) : IsStored(p, i) <=> IsNormal(p, i)
    BY <1>1, NormalStored
  <2> QED
    BY <2>1 DEF DeadFor, Normal
<1>3. VacuumedPage(p, x) = r
  BY DEF VacuumedPage
<1> HIDE DEF D
<1>4. D \subseteq Normal(p)
  BY <1>2
<1>5. /\ PageOf(RowVersions, r) /\ NoneDead(r)
      /\ Tuples(r) = {p.tuples[i] : i \in Normal(p) \ D}
      /\ \A k, l \in Normal(r) : \E i, j \in Normal(p) :
              r.tuples[k] = p.tuples[i] /\ r.tuples[l] = p.tuples[j] /\ (i = j => k = l)
  BY <1>1, <1>4, CompactedPage
<1> HIDE DEF r
<1>6. \A k, l \in Normal(r) : r.tuples[k].row = r.tuples[l].row => k = l
  BY <1>1, <1>5
<1>7. Tuples(r) = {t \in Tuples(p) : ~ (t.xmax # 0 /\ t.xmax < x)}
  BY <1>2, <1>5 DEF Tuples
<1> QED
  BY <1>3, <1>5, <1>6, <1>7 DEF HeapPageOk

(* The rows a statement visits, each once.                                 *)
LEMMA SortedSlots ==
  ASSUME NEW n \in Nat, NEW K, K \subseteq 1..n
  PROVE  /\ SetToSortedSeq(K) \in Seq(K)
         /\ \A i, j \in DOMAIN SetToSortedSeq(K) : SetToSortedSeq(K)[i] = SetToSortedSeq(K)[j] => i = j
<1> DEFINE m == Cardinality(K)
           Sorted(q) == q \in [1..m -> K] /\ \A i, j \in DOMAIN q : i < j => q[i] < q[j]
           w == [k \in 1..m |-> Nth(K, k)]
           s == SetToSortedSeq(K)
<1>1. /\ m \in Nat /\ \A k \in 1..m : Nth(K, k) \in K
      /\ \A k, l \in 1..m : k < l => Nth(K, k) < Nth(K, l)
  BY NthCounts
<1> HIDE DEF m
<1>2. Sorted(w)
  BY <1>1
<1>3. s = CHOOSE q \in [1..m -> K] : \A i, j \in DOMAIN q : i < j => q[i] < q[j]
  BY DEF SetToSortedSeq, m
<1>4. Sorted(s)
  <2>1. \E q \in [1..m -> K] : \A i, j \in DOMAIN q : i < j => q[i] < q[j]
    BY <1>2
  <2> HIDE DEF s
  <2> QED
    BY <1>3, <2>1
<1> HIDE DEF s
<1>5. s \in Seq(K) /\ DOMAIN s = 1..m
  BY <1>1, <1>4
<1>6. ASSUME NEW i \in 1..m, NEW j \in 1..m, s[i] = s[j]
      PROVE  i = j
  <2>1. s[i] \in 1..n /\ s[j] \in 1..n
    BY <1>4
  <2>2. ~ (i < j) /\ ~ (j < i)
    BY <1>4, <1>5, <1>6, <2>1
  <2> QED
    BY <1>1, <2>2
<1> QED
  BY <1>5, <1>6 DEF s

------------------------------------------------------------------------------
(* Tables                                                                  *)

(* Every relation's first page is page 1, so that tables are kept apart    *)
(* only while there is one.                                                *)
OneRelation == \A r, q \in Relations : r = q

(* tuple_insert ignores that a row longer than an empty page is not added. *)
RowsFit == \A k \in Keys : PageHeaderSize + LinePointerSize + TupleLen[k] <= PageSize

(* The rows of a page id, in storage or in a copy.                         *)
Held(x) == RowsOf(storage[x]) \cup RowsOf(pool[x])

TablesOk ==
  /\ DOMAIN storage = PageIds /\ DOMAIN pool = PageIds /\ DOMAIN rel_lock = Relations
  /\ current_xid \in Nat \ {0}
  /\ \A x \in PageIds : storage[x] = NoPage \/ IsImage(storage[x])
  /\ \A x \in PageIds : pool[x] = NoPage \/ IsImage(pool[x])
  /\ \A x \in PageIds : \A y \in Held(x) : y \in Nat /\ y < current_xid
  /\ \A x, y \in PageIds : x # y => Held(x) \cap Held(y) = {}

PageListsOk ==
  /\ pages \in [Relations -> Seq(PageIds)]
  /\ \A r \in Relations : \A i \in DOMAIN pages[r] : pages[r][i] = i
  /\ \A r \in Relations : \A x \in PageIds :
       /\ x <= Len(pages[r]) => storage[x] # NoPage
       /\ x > Len(pages[r]) => Content(storage[x]) = {}

WriteOps == {"insert", "update", "delete"}
LogRecords == [op : WriteOps, page : PageIds, xid : Nat]

LogOk == log \in Seq(LogRecords) /\ \A i \in DOMAIN log : log[i].xid < current_xid

(* A statement between two steps.                                          *)
PagesListed(rel, todo) ==
  rel \in Relations /\ todo \in Seq(PageIds) /\ \A i \in DOMAIN todo : todo[i] <= Len(pages[rel])

InsertCall(c) == c.at = "insert" /\ c.rel \in Relations /\ c.key \in Keys

PageCall(c) == c.at = "page" /\ c.op \in WriteOps /\ PagesListed(c.rel, c.todo)

RowsCall(c) ==
  /\ c = [at |-> "rows", op |-> c.op, rel |-> c.rel, key |-> c.key, page_id |-> c.page_id,
          todo |-> c.todo, page |-> c.page, slots |-> c.slots]
  /\ c.op \in WriteOps /\ PagesListed(c.rel, c.todo)
  /\ c.page_id \in PageIds
  /\ HeapPageOk(c.page)
  /\ storage[c.page_id] # NoPage /\ Content(storage[c.page_id]) = Tuples(c.page)
  /\ c.slots \in Seq(Normal(c.page))
  /\ \A i, j \in DOMAIN c.slots : c.slots[i] = c.slots[j] => i = j
  /\ \A i \in DOMAIN c.slots : c.page.tuples[c.slots[i]].row \in touched

(* Its record bears an id above the log's, and storage shows its effect.   *)
AppendCall(c) ==
  /\ c.at = "append" /\ c.rec \in LogRecords /\ c.rec.xid < current_xid
  /\ \E t \in Content(storage[c.rec.page]) : c.rec.xid = t.xmin \/ c.rec.xid = t.xmax
  /\ \A i \in DOMAIN log : log[i].xid < c.rec.xid
  /\ \/ c.then = Idle /\ \E t \in Content(storage[c.rec.page]) : t.row = c.rec.xid /\ t.xmax = 0
     \/ RowsCall(c.then)

Writing(c) == InsertCall(c) \/ PageCall(c) \/ RowsCall(c) \/ AppendCall(c)

ScanCall(c, s) ==
  /\ c = [at |-> "scan", rel |-> c.rel, snapshot |-> c.snapshot, todo |-> c.todo]
  /\ PagesListed(c.rel, c.todo)
  /\ rel_lock[c.rel] = s
  /\ \A x \in PageIds : x <= Len(pages[c.rel]) => pool[x] # NoPage \/ \E i \in DOMAIN c.todo : c.todo[i] = x

OneVersionEach(R) == \A t, u \in R : t.row = u.row => t = u

NotWriting(c, s) ==
  \/ c = Idle
  \/ c = [at |-> "dead"]
  \/ ScanCall(c, s)
  \/ c.at = "scanned" /\ OneVersionEach(c.rows)

CallOk(s, c) == (wal_owner = s /\ Writing(c)) \/ (wal_owner # s /\ NotWriting(c, s))

CallsOk == DOMAIN call = Sessions /\ \A s \in Sessions : \A c : c = call[s] => CallOk(s, c)

HeapInv == TablesOk /\ PageListsOk /\ LogOk /\ CallsOk /\ InsertsKept

------------------------------------------------------------------------------
(* What a step that leaves part of the state alone keeps                   *)

(* A scan under way in session q is not disturbed.                         *)
ScanStays(q) ==
  \A r \in Relations : rel_lock[r] = q =>
    rel_lock'[r] = q /\ pages'[r] = pages[r] /\ \A x \in PageIds : pool[x] # NoPage => pool'[x] # NoPage

LEMMA ScanKept ==
  ASSUME NEW q \in Sessions, NEW c, NotWriting(c, q), ScanStays(q)
  PROVE  NotWriting(c, q)'
<1>1. CASE ScanCall(c, q)
  <2>1. rel_lock'[c.rel] = q /\ pages'[c.rel] = pages[c.rel] /\ \A x \in PageIds : pool[x] # NoPage => pool'[x] # NoPage
    BY <1>1 DEF ScanCall, PagesListed, ScanStays
  <2>2. ScanCall(c, q)'
    BY <1>1, <2>1 DEF ScanCall, PagesListed
  <2> QED
    BY <2>2 DEF NotWriting
<1>2. CASE ~ ScanCall(c, q)
  BY <1>2 DEF NotWriting, Idle, OneVersionEach
<1> QED
  BY <1>1, <1>2

(* While session s writes, another one does not, and a scan goes on.       *)
LEMMA OtherKept ==
  ASSUME NEW q \in Sessions, NEW c, CallOk(q, c), wal_owner # q, wal_owner' # q, ScanStays(q)
  PROVE  CallOk(q, c)'
<1>1. NotWriting(c, q)
  BY DEF CallOk
<1>2. NotWriting(c, q)'
  BY <1>1, ScanKept
<1> QED
  BY <1>2 DEF CallOk

WriterStays == UNCHANGED <<storage, pages, touched, log, current_xid, wal_owner>>

LEMMA WriterKept ==
  ASSUME NEW c, Writing(c), WriterStays
  PROVE  Writing(c)'
<1> USE DEF WriterStays
<1>1. ASSUME NEW d, RowsCall(d) PROVE RowsCall(d)'
  BY <1>1 DEF RowsCall, PagesListed
<1>2. AppendCall(c) => AppendCall(c)'
  <2>1. RowsCall(c.then) => RowsCall(c.then)'
    BY <1>1
  <2> QED
    BY <2>1 DEF AppendCall
<1>3. PageCall(c) => PageCall(c)'
  BY DEF PageCall, PagesListed
<1> QED
  BY <1>1, <1>2, <1>3 DEF Writing, InsertCall

LEMMA AnyKept ==
  ASSUME NEW q \in Sessions, NEW c, CallOk(q, c), WriterStays, ScanStays(q)
  PROVE  CallOk(q, c)'
<1>1. wal_owner' = wal_owner
  BY DEF WriterStays
<1>2. CASE wal_owner = q /\ Writing(c)
  <2>1. Writing(c)'
    BY <1>2, WriterKept
  <2> QED
    BY <1>1, <1>2, <2>1 DEF CallOk
<1>3. CASE wal_owner # q /\ NotWriting(c, q)
  BY <1>1, <1>3, OtherKept
<1> QED
  BY <1>2, <1>3 DEF CallOk

(* One session moves.                                                      *)
LEMMA CallsKept ==
  ASSUME CallsOk, NEW s \in Sessions, NEW d, call' = [call EXCEPT ![s] = d], CallOk(s, d)',
         \A q \in Sessions : q # s => \A c : CallOk(q, c) => CallOk(q, c)'
  PROVE  CallsOk'
<1>1. DOMAIN call' = Sessions /\ call'[s] = d /\ \A q \in Sessions : q # s => call'[q] = call[q]
  BY DEF CallsOk
<1>2. ASSUME NEW q \in Sessions, NEW c, c = call'[q] PROVE CallOk(q, c)'
  <2>1. CASE q = s
    BY <1>1, <1>2, <2>1
  <2>2. CASE q # s
    <3>1. CallOk(q, c)
      BY <1>1, <1>2, <2>2 DEF CallsOk
    <3> QED
      BY <2>2, <3>1
  <2> QED
    BY <2>1, <2>2
<1> QED
  BY <1>1, <1>2 DEF CallsOk

(* Pages are rewritten with the rows they had, but for one new row.        *)
LEMMA TablesKept ==
  ASSUME TablesOk, NEW target,
         DOMAIN storage' = PageIds, DOMAIN pool' = PageIds, DOMAIN rel_lock' = Relations,
         current_xid' = current_xid \/ current_xid' = current_xid + 1,
         \A x \in PageIds : storage'[x] = NoPage \/ IsImage(storage'[x]),
         \A x \in PageIds : \A y \in RowsOf(storage'[x]) :
            \/ y \in RowsOf(storage[x])
            \/ x = target /\ y = current_xid /\ current_xid' = current_xid + 1,
         \A x \in PageIds : pool'[x] = pool[x] \/ pool'[x] = NoPage \/ pool'[x] = storage[x]
  PROVE  TablesOk'
<1>1. current_xid \in Nat \ {0} /\ current_xid' \in Nat \ {0}
  BY DEF TablesOk
<1>2. RowsOf(NoPage) = {}
  BY DEF RowsOf, Content
<1>3. \A x \in PageIds : \A y \in Held(x)' :
         y \in Held(x) \/ (x = target /\ y = current_xid /\ current_xid' = current_xid + 1)
  BY <1>2 DEF Held
<1>4. \A x \in PageIds : pool'[x] = NoPage \/ IsImage(pool'[x])
  BY DEF TablesOk
<1>5. ASSUME NEW x \in PageIds, NEW y \in Held(x)' PROVE y \in Nat /\ y < current_xid'
  <2>1. CASE y \in Held(x)
    BY <1>1, <2>1 DEF TablesOk
  <2>2. CASE y = current_xid /\ current_xid' = current_xid + 1
    BY <1>1, <2>2
  <2> QED
    BY <1>3, <1>5, <2>1, <2>2
<1>6. \A x \in PageIds : current_xid \notin Held(x)
  BY <1>1 DEF TablesOk
<1>7. \A x, y \in PageIds : x # y => Held(x)' \cap Held(y)' = {}
  BY <1>3, <1>6 DEF TablesOk
<1> QED
  BY <1>1, <1>4, <1>5, <1>7 DEF TablesOk

(* Pages are only rewritten, and those past the end of the list stay empty. *)
LEMMA PageListsKept ==
  ASSUME PageListsOk, pages' = pages,
         \A x \in PageIds : storage[x] # NoPage => storage'[x] # NoPage,
         \A x \in PageIds : Content(storage[x]) = {} => Content(storage'[x]) = {}
  PROVE  PageListsOk'
  BY DEF PageListsOk

LEMMA StoredContent == Stored = UNION {Content(storage[x]) : x \in PageIds}
  BY DEF Stored, Content

LEMMA InsertsStay ==
  ASSUME InsertsKept, \A y \in touched : y \in touched', returned' = returned,
         \A x \in PageIds : \A t \in Content(storage[x]) : t.xmax = 0 =>
           \/ t.row \in touched'
           \/ \E z \in PageIds : \E u \in Content(storage'[z]) : u.row = t.row /\ u.xmax = 0
  PROVE  InsertsKept'
<1> SUFFICES ASSUME NEW y \in returned, y \notin touched'
             PROVE  \E u \in Stored' : u.row = y /\ u.xmax = 0
  BY DEF InsertsKept
<1>1. PICK t \in Stored : t.row = y /\ t.xmax = 0
  BY DEF InsertsKept
<1>2. PICK x \in PageIds : t \in Content(storage[x])
  BY <1>1, StoredContent
<1>3. PICK z \in PageIds : \E u \in Content(storage'[z]) : u.row = y /\ u.xmax = 0
  BY <1>1, <1>2
<1>4. Stored' = UNION {Content(storage'[v]) : v \in PageIds}
  BY DEF Stored, Content
<1> QED
  BY <1>3, <1>4

LEMMA StillTables ==
  ASSUME HeapInv, UNCHANGED <<pages, storage, log, returned>>,
         DOMAIN rel_lock' = Relations, DOMAIN pool' = PageIds,
         current_xid' = current_xid \/ current_xid' = current_xid + 1,
         \A x \in PageIds : pool'[x] = pool[x] \/ pool'[x] = NoPage \/ pool'[x] = storage[x],
         \A y \in touched : y \in touched'
  PROVE  TablesOk' /\ PageListsOk' /\ LogOk' /\ InsertsKept'
<1>1. TablesOk /\ PageListsOk /\ LogOk /\ InsertsKept
  BY DEF HeapInv
<1>2. TablesOk'
  <2>1. /\ DOMAIN storage' = PageIds
        /\ \A x \in PageIds : storage'[x] = NoPage \/ IsImage(storage'[x])
        /\ \A x \in PageIds : \A y \in RowsOf(storage'[x]) : y \in RowsOf(storage[x])
    BY <1>1 DEF TablesOk
  <2>2. PICK z : z = 0
    OBVIOUS
  <2> QED
    BY <1>1, <2>1, TablesKept
<1>3. PageListsOk'
  BY <1>1, PageListsKept
<1>4. LogOk'
  <2>1. \A i \in DOMAIN log : log[i].xid \in Nat
    <3>1. \A i \in DOMAIN log : log[i] \in LogRecords
      BY <1>1 DEF LogOk
    <3> QED
      BY <3>1 DEF LogRecords
  <2>2. current_xid \in Nat
    BY <1>1 DEF TablesOk
  <2>3. \A i \in DOMAIN log : log[i].xid < current_xid'
    BY <1>1, <2>1, <2>2 DEF LogOk
  <2> QED
    BY <1>1, <2>3 DEF LogOk
<1>5. InsertsKept'
  BY <1>1, InsertsStay
<1> QED
  BY <1>2, <1>3, <1>4, <1>5

(* What a session is doing, by the name of its step.                       *)
LEMMA CallAt ==
  ASSUME NEW s \in Sessions, NEW c, CallOk(s, c)
  PROVE  /\ c = Idle => wal_owner # s
         /\ c.at = "insert" => wal_owner = s /\ InsertCall(c)
         /\ c.at = "page" => wal_owner = s /\ PageCall(c)
         /\ c.at = "rows" => wal_owner = s /\ RowsCall(c)
         /\ c.at = "append" => wal_owner = s /\ AppendCall(c)
         /\ c.at = "scan" => wal_owner # s /\ ScanCall(c, s)
         /\ c.at = "scanned" => wal_owner # s /\ OneVersionEach(c.rows)
<1>1. Idle.at = "idle"
  BY DEF Idle
<1>2. InsertCall(c) => c.at = "insert"
  BY DEF InsertCall
<1>3. PageCall(c) => c.at = "page"
  BY DEF PageCall
<1>4. RowsCall(c) => c.at = "rows"
  BY DEF RowsCall
<1>5. AppendCall(c) => c.at = "append"
  BY DEF AppendCall
<1>6. ScanCall(c, s) => c.at = "scan"
  BY DEF ScanCall
<1>7. [at |-> "dead"].at = "dead"
  OBVIOUS
<1>8. CASE wal_owner = s /\ Writing(c)
  BY <1>1, <1>2, <1>3, <1>4, <1>5, <1>8 DEF Writing
<1>9. CASE wal_owner # s /\ NotWriting(c, s)
  BY <1>1, <1>6, <1>7, <1>9 DEF NotWriting
<1> QED
  BY <1>8, <1>9 DEF CallOk

LEMMA CurrentCall ==
  ASSUME HeapInv, NEW s \in Sessions
  PROVE  CallOk(s, call[s]) /\ s # NoSession
<1>1. PICK c : c = call[s]
  OBVIOUS
<1>2. CallOk(s, c)
  BY <1>1 DEF HeapInv, CallsOk
<1> QED
  BY <1>1, <1>2, HeapConstants

(* A list of pages to read, and what is left of it.                        *)
LEMMA NextListed ==
  ASSUME NEW r, NEW todo, PagesListed(r, todo), todo # << >>
  PROVE  PagesListed(r, Tail(todo)) /\ Head(todo) \in PageIds /\ Head(todo) <= Len(pages[r])
<1>1. todo \in Seq(PageIds) /\ \A i \in DOMAIN todo : todo[i] <= Len(pages[r])
  BY DEF PagesListed
<1>2. Head(todo) \in PageIds /\ Head(todo) = todo[1] /\ 1 \in DOMAIN todo
  BY <1>1
<1>3. /\ Tail(todo) \in Seq(PageIds) /\ Len(todo) \in Nat /\ Len(Tail(todo)) = Len(todo) - 1
      /\ \A i \in 1..Len(todo) - 1 : Tail(todo)[i] = todo[i + 1] /\ i + 1 \in DOMAIN todo
  BY <1>1
<1>4. DOMAIN Tail(todo) = 1..Len(todo) - 1
  BY <1>3
<1>5. \A i \in DOMAIN Tail(todo) : Tail(todo)[i] <= Len(pages[r])
  BY <1>1, <1>3, <1>4
<1> QED
  BY <1>1, <1>2, <1>3, <1>5 DEF PagesListed

LEMMA AllListed ==
  ASSUME PageListsOk, NEW r \in Relations
  PROVE  PagesListed(r, pages[r])
<1>1. pages[r] \in Seq(PageIds) /\ \A i \in DOMAIN pages[r] : pages[r][i] = i
  BY DEF PageListsOk
<1>2. DOMAIN pages[r] = 1..Len(pages[r]) /\ Len(pages[r]) \in Nat
  BY <1>1
<1> QED
  BY <1>1, <1>2 DEF PagesListed

LEMMA StartWriteKeeps ==
  ASSUME HeapInv, NEW s \in Sessions, NEW op \in WriteOps, NEW r \in Relations, NEW k \in Keys,
         StartWrite(s, op, r, k)
  PROVE  HeapInv'
<1>1. /\ wal_owner = NoSession /\ wal_owner' = s
      /\ UNCHANGED <<pages, storage, pool, rel_lock, current_xid, log, scans, returned, touched>>
  BY DEF StartWrite, TakeWal
<1>2. PICK d : d = IF op = "insert" THEN [at |-> "insert", rel |-> r, key |-> k]
                   ELSE [at |-> "page", op |-> op, rel |-> r, key |-> k, todo |-> pages[r]]
  OBVIOUS
<1>3. call' = [call EXCEPT ![s] = d]
  BY <1>2 DEF StartWrite
<1>4. TablesOk' /\ PageListsOk' /\ LogOk' /\ InsertsKept'
  <2>1. DOMAIN rel_lock' = Relations /\ DOMAIN pool' = PageIds
    BY <1>1 DEF HeapInv, TablesOk
  <2> QED
    BY <1>1, <2>1, StillTables
<1>5. CallOk(s, d)'
  <2>1. PagesListed(r, pages[r])
    BY AllListed DEF HeapInv
  <2>2. InsertCall(d)' \/ PageCall(d)'
    <3>1. CASE op = "insert"
      BY <1>2, <3>1 DEF InsertCall
    <3>2. CASE op # "insert"
      <4>1. d.at = "page" /\ d.op = op /\ d.rel = r /\ d.todo = pages[r]
        BY <1>2, <3>2
      <4> QED
        BY <1>1, <2>1, <4>1 DEF PageCall, PagesListed
    <3> QED
      BY <3>1, <3>2
  <2> QED
    BY <1>1, <2>2 DEF CallOk, Writing
<1>6. ASSUME NEW q \in Sessions, q # s, NEW c, CallOk(q, c)
      PROVE  CallOk(q, c)'
  <2>1. wal_owner # q /\ wal_owner' # q
    BY <1>1, <1>6, HeapConstants
  <2>2. ScanStays(q)
    BY <1>1 DEF ScanStays
  <2> QED
    BY <1>6, <2>1, <2>2, OtherKept
<1>7. CallsOk'
  BY <1>3, <1>5, <1>6, CallsKept DEF HeapInv
<1> QED
  BY <1>4, <1>7 DEF HeapInv

(* A step of the session that holds the mutex around the log.              *)
LEMMA WriterMoves ==
  ASSUME HeapInv, NEW s \in Sessions, wal_owner = s, NEW d, call' = [call EXCEPT ![s] = d],
         \/ wal_owner' = s /\ Writing(d)'
         \/ wal_owner' = NoSession /\ (d = Idle \/ d = [at |-> "dead"]),
         \A q \in Sessions : ScanStays(q)
  PROVE  CallsOk'
<1>1. s # NoSession /\ \A q \in Sessions : q # NoSession
  BY HeapConstants
<1>2. CallOk(s, d)'
  <2>1. CASE wal_owner' = s /\ Writing(d)'
    BY <2>1 DEF CallOk
  <2>2. CASE wal_owner' = NoSession /\ (d = Idle \/ d = [at |-> "dead"])
    <3>1. NotWriting(d, s)'
      BY <2>2 DEF NotWriting, Idle
    <3> QED
      BY <1>1, <2>2, <3>1 DEF CallOk
  <2> QED
    BY <2>1, <2>2
<1>3. ASSUME NEW q \in Sessions, q # s, NEW c, CallOk(q, c)
      PROVE  CallOk(q, c)'
  <2>1. wal_owner # q /\ wal_owner' # q
    BY <1>1, <1>3
  <2> QED
    BY <1>3, <2>1, OtherKept
<1> QED
  BY <1>2, <1>3, CallsKept DEF HeapInv

(* A step of a session that does not.                                      *)
LEMMA ReaderMoves ==
  ASSUME HeapInv, NEW s \in Sessions, wal_owner # s, NEW d, call' = [call EXCEPT ![s] = d],
         NotWriting(d, s)', WriterStays, \A q \in Sessions : q # s => ScanStays(q)
  PROVE  CallsOk'
<1>1. CallOk(s, d)'
  BY DEF CallOk, WriterStays
<1>2. ASSUME NEW q \in Sessions, q # s, NEW c, CallOk(q, c)
      PROVE  CallOk(q, c)'
  BY <1>2, AnyKept
<1> QED
  BY <1>1, <1>2, CallsKept DEF HeapInv

LEMMA ReadForWriteKeeps ==
  ASSUME HeapInv, NEW s \in Sessions, ReadForWrite(s)
  PROVE  HeapInv'
<1>1. PICK c : c = call[s]
  OBVIOUS
<1>2. PICK p : p = Deserialize(storage[Head(c.todo)])
  OBVIOUS
<1>3. PICK d : d = [at |-> "rows", op |-> c.op, rel |-> c.rel, key |-> c.key,
                    page_id |-> Head(c.todo), todo |-> Tail(c.todo), page |-> p,
                    slots |-> SetToSortedSeq(Selected(c, p))]
  OBVIOUS
<1>4. /\ c.at = "page" /\ c.todo # << >> /\ call' = [call EXCEPT ![s] = d]
      /\ touched' = touched \cup {p.tuples[i].row : i \in Selected(c, p)}
      /\ UNCHANGED <<pages, storage, pool, rel_lock, wal_owner, current_xid, log, scans, returned>>
  BY <1>1, <1>2, <1>3 DEF ReadForWrite
<1>5. wal_owner = s /\ PageCall(c)
  BY <1>1, <1>4, CurrentCall, CallAt
<1>6. /\ PagesListed(c.rel, Tail(c.todo)) /\ Head(c.todo) \in PageIds /\ Head(c.todo) <= Len(pages[c.rel])
      /\ c.rel \in Relations
  BY <1>4, <1>5, NextListed DEF PageCall, PagesListed
<1>7. storage[Head(c.todo)] # NoPage /\ IsImage(storage[Head(c.todo)])
  <2>1. storage[Head(c.todo)] # NoPage
    BY <1>6 DEF HeapInv, PageListsOk
  <2> QED
    BY <1>6, <2>1 DEF HeapInv, TablesOk
<1>8. /\ HeapPageOk(p) /\ Tuples(p) = Content(storage[Head(c.todo)])
      /\ \A i \in Slots(p) : p.tuples[i].len > 0 => i \in Normal(p)
  BY <1>2, <1>7, ImageRead
<1> DEFINE K == Selected(c, p)
           q == SetToSortedSeq(K)
<1>9. K \subseteq Normal(p)
  BY <1>8 DEF Selected
<1>10. q \in Seq(K) /\ \A i, j \in DOMAIN q : q[i] = q[j] => i = j
  <2>1. PageOf(RowVersions, p)
    BY <1>8 DEF HeapPageOk
  <2>2. Len(p.line_pointers) \in Nat
    BY <2>1, NormalStored, RowVersionsLength
  <2>3. K \subseteq 1..Len(p.line_pointers)
    BY <1>9 DEF Normal
  <2> HIDE DEF K
  <2> QED
    BY <2>2, <2>3, SortedSlots
<1>11. /\ d.at = "rows" /\ d.op = c.op /\ d.rel = c.rel /\ d.key = c.key /\ d.page_id = Head(c.todo)
       /\ d.todo = Tail(c.todo) /\ d.page = p /\ d.slots = q
  BY <1>3
<1>12. d = [at |-> "rows", op |-> d.op, rel |-> d.rel, key |-> d.key, page_id |-> d.page_id,
            todo |-> d.todo, page |-> d.page, slots |-> d.slots]
  BY <1>3, <1>11
<1> HIDE DEF K, q
<1>13. q \in Seq(Normal(p)) /\ \A i \in DOMAIN q : q[i] \in K
  BY <1>9, <1>10
<1>14. \A i \in DOMAIN q : p.tuples[q[i]].row \in touched'
  BY <1>4, <1>13 DEF K
<1>15. c.op \in WriteOps /\ PagesListed(c.rel, Tail(c.todo))'
  BY <1>4, <1>5, <1>6 DEF PageCall, PagesListed
<1>16. RowsCall(d)'
  <2>1. /\ storage'[d.page_id] # NoPage /\ Content(storage'[d.page_id]) = Tuples(d.page)
        /\ HeapPageOk(d.page) /\ d.page_id \in PageIds
    BY <1>4, <1>6, <1>7, <1>8, <1>11
  <2>2. d.op \in WriteOps /\ PagesListed(d.rel, d.todo)'
    BY <1>11, <1>15 DEF PagesListed
  <2>3. /\ d.slots \in Seq(Normal(d.page))
        /\ \A i, j \in DOMAIN d.slots : d.slots[i] = d.slots[j] => i = j
        /\ \A i \in DOMAIN d.slots : d.page.tuples[d.slots[i]].row \in touched'
    BY <1>10, <1>11, <1>13, <1>14
  <2> QED
    BY <1>12, <2>1, <2>2, <2>3 DEF RowsCall
<1>17. Writing(d)'
  BY <1>16 DEF Writing
<1>18. CallsOk'
  <2>1. \A z \in Sessions : ScanStays(z)
    BY <1>4 DEF ScanStays
  <2> QED
    BY <1>4, <1>5, <1>17, <2>1, WriterMoves
<1>19. TablesOk' /\ PageListsOk' /\ LogOk' /\ InsertsKept'
  <2>1. DOMAIN rel_lock' = Relations /\ DOMAIN pool' = PageIds
    BY <1>4 DEF HeapInv, TablesOk
  <2> QED
    BY <1>4, <2>1, StillTables
<1> QED
  BY <1>18, <1>19 DEF HeapInv

LEMMA UpdatePanicsKeeps ==
  ASSUME HeapInv, NEW s \in Sessions, UpdatePanics(s)
  PROVE  HeapInv'
<1>1. PICK c : c = call[s]
  OBVIOUS
<1>2. /\ c.at = "rows" /\ wal_owner' = NoSession /\ current_xid' = current_xid + 1
      /\ call' = [call EXCEPT ![s] = [at |-> "dead"]]
      /\ UNCHANGED <<pages, storage, pool, rel_lock, log, scans, returned, touched>>
  BY <1>1 DEF UpdatePanics
<1>3. wal_owner = s
  BY <1>1, <1>2, CurrentCall, CallAt
<1>4. CallsOk'
  <2>1. \A z \in Sessions : ScanStays(z)
    BY <1>2 DEF ScanStays
  <2>2. PICK d : d = [at |-> "dead"]
    OBVIOUS
  <2> QED
    BY <1>2, <1>3, <2>1, <2>2, WriterMoves
<1>5. TablesOk' /\ PageListsOk' /\ LogOk' /\ InsertsKept'
  <2>1. DOMAIN rel_lock' = Relations /\ DOMAIN pool' = PageIds
    BY <1>2 DEF HeapInv, TablesOk
  <2> QED
    BY <1>2, <2>1, StillTables
<1> QED
  BY <1>4, <1>5 DEF HeapInv

LEMMA NextPageKeeps ==
  ASSUME HeapInv, NEW s \in Sessions, NextPage(s)
  PROVE  HeapInv'
<1>1. PICK c : c = call[s]
  OBVIOUS
<1>2. PICK d : d = [at |-> "page", op |-> c.op, rel |-> c.rel, key |-> c.key, todo |-> c.todo]
  OBVIOUS
<1>3. /\ c.at = "rows" /\ call' = [call EXCEPT ![s] = d]
      /\ UNCHANGED <<pages, storage, pool, rel_lock, wal_owner, current_xid, log, scans, returned, touched>>
  BY <1>1, <1>2 DEF NextPage
<1>4. wal_owner = s /\ RowsCall(c)
  BY <1>1, <1>3, CurrentCall, CallAt
<1>5. Writing(d)'
  <2>1. c.op \in WriteOps /\ PagesListed(c.rel, c.todo)
    BY <1>4 DEF RowsCall
  <2>2. PageCall(d)'
    BY <1>2, <1>3, <2>1 DEF PageCall, PagesListed
  <2> QED
    BY <2>2 DEF Writing
<1>6. CallsOk'
  <2>1. \A z \in Sessions : ScanStays(z)
    BY <1>3 DEF ScanStays
  <2> QED
    BY <1>3, <1>4, <1>5, <2>1, WriterMoves
<1>7. TablesOk' /\ PageListsOk' /\ LogOk' /\ InsertsKept'
  <2>1. DOMAIN rel_lock' = Relations /\ DOMAIN pool' = PageIds
    BY <1>3 DEF HeapInv, TablesOk
  <2> QED
    BY <1>3, <2>1, StillTables
<1> QED
  BY <1>6, <1>7 DEF HeapInv

LEMMA EndWriteKeeps ==
  ASSUME HeapInv, NEW s \in Sessions, EndWrite(s)
  PROVE  HeapInv'
<1>1. PICK c : c = call[s]
  OBVIOUS
<1>2. /\ c.at = "page" /\ wal_owner' = NoSession /\ call' = [call EXCEPT ![s] = Idle]
      /\ UNCHANGED <<pages, storage, pool, rel_lock, current_xid, log, scans, returned, touched>>
  BY <1>1 DEF EndWrite
<1>3. wal_owner = s
  BY <1>1, <1>2, CurrentCall, CallAt
<1>4. CallsOk'
  <2>1. \A z \in Sessions : ScanStays(z)
    BY <1>2 DEF ScanStays
  <2>2. PICK d : d = Idle
    OBVIOUS
  <2> QED
    BY <1>2, <1>3, <2>1, <2>2, WriterMoves
<1>5. TablesOk' /\ PageListsOk' /\ LogOk' /\ InsertsKept'
  <2>1. DOMAIN rel_lock' = Relations /\ DOMAIN pool' = PageIds
    BY <1>2 DEF HeapInv, TablesOk
  <2> QED
    BY <1>2, <2>1, StillTables
<1> QED
  BY <1>4, <1>5 DEF HeapInv

(* The record of a row just written: the log's ids stay increasing, and an *)
(* insertion that returns has its row in storage.                          *)
LEMMA AppendRecordKeeps ==
  ASSUME HeapInv, NEW s \in Sessions, AppendRecord(s)
  PROVE  HeapInv'
<1>1. PICK c : c = call[s]
  OBVIOUS
<1>2. PICK d : d = c.then
  OBVIOUS
<1>3. /\ c.at = "append" /\ log' = Append(log, c.rec) /\ call' = [call EXCEPT ![s] = d]
      /\ d = Idle => wal_owner' = NoSession /\ returned' = returned \cup {c.rec.xid}
      /\ d # Idle => wal_owner' = wal_owner /\ returned' = returned
      /\ UNCHANGED <<pages, storage, pool, rel_lock, current_xid, scans, touched>>
  BY <1>1, <1>2 DEF AppendRecord
<1>4. wal_owner = s /\ AppendCall(c)
  BY <1>1, <1>3, CurrentCall, CallAt
<1>5. TablesOk' /\ PageListsOk'
  <2>1. TablesOk'
    BY <1>3 DEF HeapInv, TablesOk, Held
  <2>2. PageListsOk'
    BY <1>3 DEF HeapInv, PageListsOk
  <2> QED
    BY <2>1, <2>2
<1>6. LogOk'
  <2>1. log \in Seq(LogRecords) /\ c.rec \in LogRecords /\ c.rec.xid < current_xid
    BY <1>4 DEF HeapInv, LogOk, AppendCall
  <2>2. PICK e : e = c.rec
    OBVIOUS
  <2>3. /\ log' = Append(log, e) /\ log' \in Seq(LogRecords)
        /\ \A i \in DOMAIN log' : log'[i] = e \/ (i \in DOMAIN log /\ log'[i] = log[i])
    BY <1>3, <2>1, <2>2
  <2>4. \A i \in DOMAIN log' : log'[i].xid < current_xid
    BY <2>1, <2>2, <2>3 DEF HeapInv, LogOk
  <2> QED
    BY <1>3, <2>3, <2>4 DEF LogOk
<1>7. InsertsKept'
  <2>1. InsertsKept /\ Stored' = Stored
    BY <1>3 DEF HeapInv, Stored
  <2>2. CASE d # Idle
    BY <1>3, <2>1, <2>2 DEF InsertsKept
  <2>3. CASE d = Idle
    <3>1. c.rec \in LogRecords /\ \E t \in Content(storage[c.rec.page]) : t.row = c.rec.xid /\ t.xmax = 0
      <4>1. ~ RowsCall(d)
        BY <2>3 DEF RowsCall, Idle
      <4> QED
        BY <1>2, <1>4, <4>1 DEF AppendCall
    <3>2. c.rec.page \in PageIds
      BY <3>1 DEF LogRecords
    <3>3. \E t \in Stored : t.row = c.rec.xid /\ t.xmax = 0
      BY <3>1, <3>2, StoredContent
    <3> QED
      BY <1>3, <2>1, <2>3, <3>3 DEF InsertsKept
  <2> QED
    BY <2>2, <2>3
<1>8. CallsOk'
  <2>1. \A z \in Sessions : ScanStays(z)
    BY <1>3 DEF ScanStays
  <2>2. CASE d = Idle
    BY <1>3, <1>4, <2>1, <2>2, WriterMoves
  <2>3. CASE d # Idle
    <3>1. RowsCall(d)
      BY <1>2, <1>4, <2>3 DEF AppendCall
    <3>2. RowsCall(d)'
      BY <1>3, <3>1 DEF RowsCall, PagesListed
    <3>3. Writing(d)'
      BY <3>2 DEF Writing
    <3> QED
      BY <1>3, <1>4, <2>1, <2>3, <3>3, WriterMoves
  <2> QED
    BY <2>2, <2>3
<1> QED
  BY <1>5, <1>6, <1>7, <1>8 DEF HeapInv

(* The rows of a list of pages come once each.                             *)
LEMMA RowsOnce ==
  ASSUME TablesOk, PageListsOk, NEW r \in Relations, NEW snap, NEW f, NEW R,
         \A x \in PageIds : x <= Len(pages[r]) => IsImage(f[x]) /\ RowsOf(f[x]) \subseteq Held(x),
         \A t \in R : \E i \in DOMAIN pages[r] : t \in VisibleOn(f[pages[r][i]], snap)
  PROVE  OneVersionEach(R)
<1> SUFFICES ASSUME NEW t \in R, NEW u \in R, t.row = u.row
             PROVE  t = u
  BY DEF OneVersionEach
<1>0. PICK i \in DOMAIN pages[r], j \in DOMAIN pages[r] :
        t \in VisibleOn(f[pages[r][i]], snap) /\ u \in VisibleOn(f[pages[r][j]], snap)
  OBVIOUS
<1>1. pages[r] \in Seq(PageIds) /\ pages[r][i] = i /\ pages[r][j] = j
  BY DEF PageListsOk
<1>2. i \in PageIds /\ j \in PageIds /\ i <= Len(pages[r]) /\ j <= Len(pages[r])
  BY <1>1
<1>3. IsImage(f[i]) /\ IsImage(f[j]) /\ RowsOf(f[i]) \subseteq Held(i) /\ RowsOf(f[j]) \subseteq Held(j)
  BY <1>2
<1>4. t \in Content(f[i]) /\ u \in Content(f[j])
  BY <1>0, <1>1, <1>3, ImageRead DEF VisibleOn
<1>5. CASE i = j
  <2>1. PICK p : HeapPageOk(p) /\ Tuples(p) = Content(f[i])
    BY <1>3, ImageRead
  <2> QED
    BY <1>4, <1>5, <2>1, RowsApart
<1>6. CASE i # j
  <2>1. t.row \in Held(i) /\ u.row \in Held(j)
    BY <1>3, <1>4 DEF RowsOf
  <2>2. Held(i) \cap Held(j) = {}
    BY <1>2, <1>6 DEF TablesOk
  <2> QED
    BY <2>1, <2>2
<1> QED
  BY <1>5, <1>6

LEMMA StartScanKeeps ==
  ASSUME HeapInv, NEW s \in Sessions, NEW r \in Relations, NEW snap, StartScan(s, r, snap)
  PROVE  HeapInv'
<1>1. PICK d : d = [at |-> "scan", rel |-> r, snapshot |-> snap, todo |-> pages[r]]
  OBVIOUS
<1>2. /\ call[s] = Idle /\ rel_lock[r] = NoSession /\ rel_lock' = [rel_lock EXCEPT ![r] = s]
      /\ call' = [call EXCEPT ![s] = d]
      /\ UNCHANGED <<pages, storage, pool, wal_owner, current_xid, log, returned, touched>>
  BY <1>1 DEF StartScan
<1>3. wal_owner # s
  BY <1>2, CurrentCall, CallAt
<1>4. DOMAIN rel_lock = Relations /\ DOMAIN pool = PageIds /\ PageListsOk
  BY DEF HeapInv, TablesOk
<1>5. DOMAIN rel_lock' = Relations /\ rel_lock'[r] = s /\ \A z \in Relations : z # r => rel_lock'[z] = rel_lock[z]
  BY <1>2, <1>4
<1>6. NotWriting(d, s)'
  <2>1. PagesListed(r, pages[r])
    BY <1>4, AllListed
  <2>2. \A x \in PageIds : x <= Len(pages[r]) => x \in DOMAIN pages[r] /\ pages[r][x] = x
    <3>1. pages[r] \in Seq(PageIds) /\ \A i \in DOMAIN pages[r] : pages[r][i] = i
      BY <1>4 DEF PageListsOk
    <3>2. DOMAIN pages[r] = 1..Len(pages[r]) /\ Len(pages[r]) \in Nat
      BY <3>1
    <3> QED
      BY <3>1, <3>2 DEF PageIds
  <2>3. d.rel = r /\ d.todo = pages[r] /\ d = [at |-> "scan", rel |-> d.rel, snapshot |-> d.snapshot, todo |-> d.todo]
    BY <1>1
  <2>4. ScanCall(d, s)'
    BY <1>2, <1>5, <2>1, <2>2, <2>3 DEF ScanCall, PagesListed
  <2> QED
    BY <2>4 DEF NotWriting
<1>7. CallsOk'
  <2>1. \A q \in Sessions : q # s => ScanStays(q)
    <3>1. \A q \in Sessions : q # NoSession
      BY HeapConstants
    <3> QED
      BY <1>2, <1>5, <3>1 DEF ScanStays
  <2>2. WriterStays
    BY <1>2 DEF WriterStays
  <2> QED
    BY <1>2, <1>3, <1>6, <2>1, <2>2, ReaderMoves
<1>8. TablesOk' /\ PageListsOk' /\ LogOk' /\ InsertsKept'
  BY <1>2, <1>4, <1>5, StillTables
<1> QED
  BY <1>7, <1>8 DEF HeapInv

LEMMA ScanFetchKeeps ==
  ASSUME HeapInv, NEW s \in Sessions, ScanFetch(s)
  PROVE  HeapInv'
<1>1. PICK c : c = call[s]
  OBVIOUS
<1>2. PICK d : d = [c EXCEPT !.todo = Tail(c.todo)]
  OBVIOUS
<1>3. PICK p : p = Head(c.todo)
  OBVIOUS
<1>4. /\ c.at = "scan" /\ c.todo # << >>
      /\ pool' = [pool EXCEPT ![p] = IF pool[p] = NoPage THEN storage[p] ELSE pool[p]]
      /\ UNCHANGED <<pages, storage, rel_lock, wal_owner, current_xid, log, scans, returned, touched>>
  BY <1>1, <1>3 DEF ScanFetch
<1>5. call' = [call EXCEPT ![s] = d]
  BY <1>1, <1>2 DEF ScanFetch
<1>6. wal_owner # s /\ ScanCall(c, s)
  BY <1>1, <1>4, CurrentCall, CallAt
<1>7. DOMAIN rel_lock = Relations /\ DOMAIN pool = PageIds /\ PageListsOk
  BY DEF HeapInv, TablesOk
<1>8. /\ c.rel \in Relations /\ c.todo \in Seq(PageIds) /\ PagesListed(c.rel, Tail(c.todo))
      /\ p \in PageIds /\ p <= Len(pages[c.rel])
  BY <1>3, <1>4, <1>6, NextListed DEF ScanCall, PagesListed
<1>9. storage[p] # NoPage
  BY <1>7, <1>8 DEF PageListsOk
<1>10. /\ DOMAIN pool' = PageIds /\ pool'[p] # NoPage
       /\ \A x \in PageIds : pool[x] # NoPage => pool'[x] # NoPage
       /\ \A x \in PageIds : pool'[x] = pool[x] \/ pool'[x] = NoPage \/ pool'[x] = storage[x]
  BY <1>4, <1>7, <1>8, <1>9
<1>11. NotWriting(d, s)'
  <2>1. /\ c = [at |-> "scan", rel |-> c.rel, snapshot |-> c.snapshot, todo |-> c.todo] /\ rel_lock[c.rel] = s
        /\ \A x \in PageIds : x <= Len(pages[c.rel]) => pool[x] # NoPage \/ \E i \in DOMAIN c.todo : c.todo[i] = x
    BY <1>6 DEF ScanCall
  <2>2. d = [at |-> "scan", rel |-> c.rel, snapshot |-> c.snapshot, todo |-> Tail(c.todo)]
    <3>1. PICK a, b, e : c = [at |-> "scan", rel |-> a, snapshot |-> b, todo |-> e]
      BY <2>1
    <3> QED
      BY <1>2, <3>1
  <2>3. /\ d = [at |-> "scan", rel |-> d.rel, snapshot |-> d.snapshot, todo |-> d.todo]
        /\ d.rel = c.rel /\ d.todo = Tail(c.todo)
    BY <2>2
  <2>4. ASSUME NEW x \in PageIds, x <= Len(pages[c.rel]), pool'[x] = NoPage
        PROVE  \E i \in DOMAIN Tail(c.todo) : Tail(c.todo)[i] = x
    <3>1. PICK i \in DOMAIN c.todo : c.todo[i] = x
      BY <1>10, <2>1, <2>4
    <3>2. i # 1
      BY <1>3, <1>8, <1>10, <2>4, <3>1
    <3>3. i - 1 \in DOMAIN Tail(c.todo) /\ Tail(c.todo)[i - 1] = c.todo[i]
      BY <1>4, <1>8, <3>1, <3>2
    <3> QED
      BY <3>1, <3>3
  <2>5. ScanCall(d, s)'
    BY <1>4, <1>8, <2>1, <2>3, <2>4 DEF ScanCall, PagesListed
  <2> QED
    BY <2>5 DEF NotWriting
<1>12. CallsOk'
  <2>1. \A q \in Sessions : q # s => ScanStays(q)
    BY <1>4, <1>10 DEF ScanStays
  <2>2. WriterStays
    BY <1>4 DEF WriterStays
  <2> QED
    BY <1>5, <1>6, <1>11, <2>1, <2>2, ReaderMoves
<1>13. TablesOk' /\ PageListsOk' /\ LogOk' /\ InsertsKept'
  BY <1>4, <1>7, <1>10, StillTables
<1> QED
  BY <1>12, <1>13 DEF HeapInv

LEMMA ScanEndKeeps ==
  ASSUME HeapInv, NEW s \in Sessions, ScanEnd(s)
  PROVE  HeapInv'
<1>1. PICK c : c = call[s]
  OBVIOUS
<1>2. PICK R : R = UNION {VisibleOn(pool[pages[c.rel][i]], c.snapshot) : i \in DOMAIN pages[c.rel]}
  OBVIOUS
<1>3. PICK d : d = [at |-> "scanned", rel |-> c.rel, rows |-> R]
  OBVIOUS
<1>4. /\ c.at = "scan" /\ c.todo = << >> /\ rel_lock' = [rel_lock EXCEPT ![c.rel] = NoSession]
      /\ call' = [call EXCEPT ![s] = d]
      /\ UNCHANGED <<pages, storage, pool, wal_owner, current_xid, log, scans, returned, touched>>
  BY <1>1, <1>2, <1>3 DEF ScanEnd
<1>5. wal_owner # s /\ ScanCall(c, s)
  BY <1>1, <1>4, CurrentCall, CallAt
<1>6. DOMAIN rel_lock = Relations /\ DOMAIN pool = PageIds /\ PageListsOk /\ TablesOk
  BY DEF HeapInv, TablesOk
<1>7. /\ c.rel \in Relations /\ rel_lock[c.rel] = s
      /\ \A x \in PageIds : x <= Len(pages[c.rel]) => pool[x] # NoPage
  BY <1>4, <1>5 DEF ScanCall, PagesListed
<1>8. OneVersionEach(R)
  <2>1. \A x \in PageIds : x <= Len(pages[c.rel]) => IsImage(pool[x]) /\ RowsOf(pool[x]) \subseteq Held(x)
    BY <1>6, <1>7 DEF TablesOk, Held
  <2>2. \A t \in R : \E i \in DOMAIN pages[c.rel] : t \in VisibleOn(pool[pages[c.rel][i]], c.snapshot)
    BY <1>2
  <2> QED
    BY <1>6, <1>7, <2>1, <2>2, RowsOnce
<1>9. NotWriting(d, s)'
  BY <1>3, <1>8 DEF NotWriting, OneVersionEach
<1>10. DOMAIN rel_lock' = Relations /\ \A z \in Relations : z # c.rel => rel_lock'[z] = rel_lock[z]
  BY <1>4, <1>6
<1>11. CallsOk'
  <2>1. \A q \in Sessions : q # s => ScanStays(q)
    BY <1>4, <1>7, <1>10 DEF ScanStays
  <2>2. WriterStays
    BY <1>4 DEF WriterStays
  <2> QED
    BY <1>4, <1>5, <1>9, <2>1, <2>2, ReaderMoves
<1>12. TablesOk' /\ PageListsOk' /\ LogOk' /\ InsertsKept'
  BY <1>4, <1>6, <1>10, StillTables
<1> QED
  BY <1>11, <1>12 DEF HeapInv

LEMMA SlowScanKeeps ==
  ASSUME HeapInv, NEW s \in Sessions, NEW r \in Relations, SlowScan(s, r)
  PROVE  HeapInv'
<1>1. PICK R : R = UNION {VisibleOn(storage[pages[r][i]], DefaultSnapshot) : i \in DOMAIN pages[r]}
  OBVIOUS
<1>2. PICK d : d = [at |-> "scanned", rel |-> r, rows |-> R]
  OBVIOUS
<1>3. /\ call[s] = Idle /\ call' = [call EXCEPT ![s] = d]
      /\ UNCHANGED <<pages, storage, pool, rel_lock, wal_owner, current_xid, log, returned, touched>>
  BY <1>1, <1>2 DEF SlowScan
<1>4. wal_owner # s
  BY <1>3, CurrentCall, CallAt
<1>5. DOMAIN rel_lock = Relations /\ DOMAIN pool = PageIds /\ PageListsOk /\ TablesOk
  BY DEF HeapInv, TablesOk
<1>6. OneVersionEach(R)
  <2>1. \A x \in PageIds : x <= Len(pages[r]) => IsImage(storage[x]) /\ RowsOf(storage[x]) \subseteq Held(x)
    BY <1>5 DEF TablesOk, Held, PageListsOk
  <2>2. \A t \in R : \E i \in DOMAIN pages[r] : t \in VisibleOn(storage[pages[r][i]], DefaultSnapshot)
    BY <1>1
  <2> QED
    BY <1>5, <2>1, <2>2, RowsOnce
<1>7. NotWriting(d, s)'
  BY <1>2, <1>6 DEF NotWriting, OneVersionEach
<1>8. CallsOk'
  <2>1. \A q \in Sessions : q # s => ScanStays(q)
    BY <1>3 DEF ScanStays
  <2>2. WriterStays
    BY <1>3 DEF WriterStays
  <2> QED
    BY <1>3, <1>4, <1>7, <2>1, <2>2, ReaderMoves
<1>9. TablesOk' /\ PageListsOk' /\ LogOk' /\ InsertsKept'
  BY <1>3, <1>5, StillTables
<1> QED
  BY <1>8, <1>9 DEF HeapInv

LEMMA ScanReturnKeeps ==
  ASSUME HeapInv, NEW s \in Sessions, ScanReturn(s)
  PROVE  HeapInv'
<1>1. PICK d : d = Idle
  OBVIOUS
<1>2. /\ call[s].at = "scanned" /\ call' = [call EXCEPT ![s] = d]
      /\ UNCHANGED <<pages, storage, pool, rel_lock, wal_owner, current_xid, log, returned, touched>>
  BY <1>1 DEF ScanReturn
<1>3. wal_owner # s
  BY <1>2, CurrentCall, CallAt
<1>4. NotWriting(d, s)'
  BY <1>1 DEF NotWriting, Idle
<1>5. CallsOk'
  <2>1. \A q \in Sessions : q # s => ScanStays(q)
    BY <1>2 DEF ScanStays
  <2>2. WriterStays
    BY <1>2 DEF WriterStays
  <2> QED
    BY <1>2, <1>3, <1>4, <2>1, <2>2, ReaderMoves
<1>6. TablesOk' /\ PageListsOk' /\ LogOk' /\ InsertsKept'
  <2>1. DOMAIN rel_lock' = Relations /\ DOMAIN pool' = PageIds
    BY <1>2 DEF HeapInv, TablesOk
  <2> QED
    BY <1>2, <2>1, StillTables
<1> QED
  BY <1>5, <1>6 DEF HeapInv

LEMMA PoolEvictKeeps ==
  ASSUME HeapInv, NEW p \in PageIds, PoolEvict(p)
  PROVE  HeapInv'
<1>1. /\ \A s \in Sessions : call[s].at # "scan"
      /\ pool' = [pool EXCEPT ![p] = NoPage]
      /\ UNCHANGED <<pages, storage, rel_lock, wal_owner, current_xid, log, call, returned, touched>>
  BY DEF PoolEvict
<1>2. DOMAIN rel_lock = Relations /\ DOMAIN pool = PageIds
  BY DEF HeapInv, TablesOk
<1>3. DOMAIN pool' = PageIds /\ \A x \in PageIds : pool'[x] = pool[x] \/ pool'[x] = NoPage
  BY <1>1, <1>2
<1>4. TablesOk' /\ PageListsOk' /\ LogOk' /\ InsertsKept'
  BY <1>1, <1>2, <1>3, StillTables
<1>5. ASSUME NEW q \in Sessions, NEW c, c = call'[q] PROVE CallOk(q, c)'
  <2>1. CallOk(q, c) /\ c.at # "scan"
    BY <1>1, <1>5 DEF HeapInv, CallsOk
  <2>2. WriterStays
    BY <1>1 DEF WriterStays
  <2>3. Writing(c) => Writing(c)'
    BY <2>2, WriterKept
  <2>4. NotWriting(c, q) => NotWriting(c, q)'
    <3>1. ~ ScanCall(c, q)
      BY <2>1 DEF ScanCall
    <3> QED
      BY <3>1 DEF NotWriting, Idle, OneVersionEach
  <2> QED
    BY <1>1, <2>1, <2>3, <2>4 DEF CallOk
<1>6. CallsOk'
  BY <1>1, <1>5 DEF HeapInv, CallsOk
<1> QED
  BY <1>4, <1>6 DEF HeapInv

LEMMA LogKept ==
  ASSUME HeapInv, log' = log, current_xid' = current_xid + 1
  PROVE  LogOk'
<1>1. LogOk /\ current_xid \in Nat
  BY DEF HeapInv, TablesOk
<1>2. \A i \in DOMAIN log : log[i] \in LogRecords
  BY <1>1 DEF LogOk
<1>3. \A i \in DOMAIN log : log[i].xid \in Nat
  BY <1>2 DEF LogRecords
<1>4. \A i \in DOMAIN log : log[i].xid < current_xid'
  BY <1>1, <1>3 DEF LogOk
<1> QED
  BY <1>1, <1>4 DEF LogOk

(* With one relation, a free mutex means that nobody scans.                *)
LEMMA NobodyScans ==
  ASSUME OneRelation, NEW r \in Relations, rel_lock[r] = NoSession
  PROVE  \A q \in Sessions : ScanStays(q)
<1>1. \A z \in Relations : z = r
  BY DEF OneRelation
<1>2. \A q \in Sessions : q # NoSession
  BY HeapConstants
<1> QED
  BY <1>1, <1>2 DEF ScanStays

(* The page an insertion starts from.                                      *)
LEMMA LastPage ==
  ASSUME HeapInv, NEW rel \in Relations, NEW page_id, NEW p, NEW n, n = Len(pages[rel]),
         page_id = IF pages[rel] = << >> THEN 1 ELSE pages[rel][Len(pages[rel])],
         p = IF pages[rel] = << >> THEN NewPage ELSE Deserialize(storage[page_id])
  PROVE  /\ n \in Nat /\ (pages[rel] = << >> <=> n = 0) /\ page_id = IF n = 0 THEN 1 ELSE n
         /\ page_id \in PageIds => HeapPageOk(p) /\ Tuples(p) = Content(storage[page_id])
         /\ HeapPageOk(p)
         /\ pages[rel] \in Seq(PageIds) /\ \A i \in 1..n : pages[rel][i] = i
         /\ \A x \in PageIds : (x <= n => storage[x] # NoPage) /\ (x > n => Content(storage[x]) = {})
<1>1. /\ pages[rel] \in Seq(PageIds) /\ \A i \in DOMAIN pages[rel] : pages[rel][i] = i
      /\ \A x \in PageIds : (x <= n => storage[x] # NoPage) /\ (x > n => Content(storage[x]) = {})
  BY DEF HeapInv, PageListsOk
<1>2. n \in Nat /\ DOMAIN pages[rel] = 1..n /\ (pages[rel] = << >> <=> n = 0)
  BY <1>1
<1>3. page_id = IF n = 0 THEN 1 ELSE n
  <2>1. CASE n = 0
    BY <1>2, <2>1
  <2>2. CASE n # 0
    <3>1. n \in 1..n
      BY <1>2, <2>2
    <3> QED
      BY <1>1, <1>2, <2>2, <3>1
  <2> QED
    BY <2>1, <2>2
<1>4. CASE n = 0
  <2>1. p = NewPage
    BY <1>2, <1>4
  <2>2. HeapPageOk(p) /\ Tuples(p) = {}
    BY <2>1, NewPageOk
  <2>3. page_id \in PageIds => Content(storage[page_id]) = {}
    BY <1>1, <1>3, <1>4
  <2> QED
    BY <1>1, <1>2, <1>3, <2>2, <2>3
<1>5. CASE n # 0
  <2>1. n \in PageIds /\ page_id = n
    <3>1. n \in 1..n
      BY <1>2, <1>5
    <3>2. pages[rel][n] \in PageIds /\ pages[rel][n] = n
      BY <1>1, <1>2, <3>1
    <3> QED
      BY <1>3, <1>5, <3>2
  <2>2. IsImage(storage[n])
    <3>1. storage[n] # NoPage
      BY <1>1, <1>2, <2>1
    <3> QED
      BY <2>1, <3>1 DEF HeapInv, TablesOk
  <2>3. p = Deserialize(storage[n])
    BY <1>2, <1>5, <2>1
  <2>4. HeapPageOk(p) /\ Tuples(p) = Content(storage[page_id])
    BY <2>1, <2>2, <2>3, ImageRead
  <2> QED
    BY <1>1, <1>2, <1>3, <2>4
<1> QED
  BY <1>4, <1>5

LEMMA FreshRow ==
  ASSUME HeapInv, NEW rel \in Relations, NEW k \in Keys, NEW t, t = Tuple(current_xid, rel, k, current_xid, 0)
  PROVE  /\ t \in RowVersions /\ t.row = current_xid /\ t.xmin = current_xid /\ t.xmax = 0 /\ t.len = TupleLen[k]
         /\ current_xid \in Nat
         /\ \A x \in PageIds : \A u \in Content(storage[x]) : u.row # t.row
<1>1. current_xid \in Nat /\ TupleLen[k] \in Nat \ {0}
  BY HeapConstants DEF HeapInv, TablesOk
<1>2. t \in RowVersions /\ t.row = current_xid /\ t.xmin = current_xid /\ t.xmax = 0 /\ t.len = TupleLen[k]
  BY <1>1 DEF Tuple, RowVersions
<1>3. ASSUME NEW x \in PageIds, NEW u \in Content(storage[x]) PROVE u.row # t.row
  <2>1. u.row \in Held(x)
    BY DEF Held, RowsOf
  <2>2. u.row \in Nat /\ u.row < current_xid
    BY <2>1 DEF HeapInv, TablesOk
  <2> QED
    BY <1>1, <1>2, <2>2
<1> QED
  BY <1>1, <1>2, <1>3

(* An insertion of row t, that fits on page p or else goes on a new one.   *)
Placing(rel, k, n, page_id, p, t, r, target, img) ==
  /\ rel \in Relations /\ k \in Keys /\ n \in Nat /\ page_id = (IF n = 0 THEN 1 ELSE n)
  /\ HeapPageOk(p) /\ (page_id \in PageIds => Tuples(p) = Content(storage[page_id]))
  /\ \A x \in PageIds : (x <= n => storage[x] # NoPage) /\ (x > n => Content(storage[x]) = {})
  /\ t = Tuple(current_xid, rel, k, current_xid, 0)
  /\ r = AddTuple(p, t)
  /\ target = (IF r.slot = 0 THEN page_id + 1 ELSE page_id) /\ target \in PageIds
  /\ img = IF r.slot = 0
           THEN [storage EXCEPT ![target] = Serialize(AddTuple(NewPage, t).page), ![page_id] = Serialize(p)]
           ELSE [storage EXCEPT ![page_id] = Serialize(r.page)]

(* The pages an insertion writes hold what they held and the row.          *)
LEMMA InsertWrites ==
  ASSUME HeapInv, RowsFit, NEW rel, NEW k, NEW n, NEW page_id, NEW p, NEW t, NEW r, NEW target, NEW img,
         Placing(rel, k, n, page_id, p, t, r, target, img)
  PROVE  /\ DOMAIN img = PageIds /\ page_id \in PageIds
         /\ \A x \in PageIds : img[x] = NoPage \/ IsImage(img[x])
         /\ img[page_id] # NoPage /\ img[target] # NoPage
         /\ \A x \in PageIds : x # page_id /\ x # target => img[x] = storage[x]
         /\ \A x \in PageIds : x # target => Content(img[x]) = Content(storage[x])
         /\ Content(img[target]) = Content(storage[target]) \cup {t}
<1> USE RowVersionsLength DEF Placing
<1>1. page_id \in PageIds
  <2>1. MaxPage \in Nat /\ page_id \in Nat \ {0} /\ (target = page_id \/ target = page_id + 1)
    BY HeapConstants
  <2> QED
    BY <2>1 DEF PageIds
<1>2. DOMAIN storage = PageIds /\ \A x \in PageIds : storage[x] = NoPage \/ IsImage(storage[x])
  BY DEF HeapInv, TablesOk
<1>3. /\ t \in RowVersions /\ t.len = TupleLen[k]
      /\ \A x \in PageIds : \A u \in Content(storage[x]) : u.row # t.row
  BY FreshRow
<1>4. PageOf(RowVersions, p) /\ NoneDead(p) /\ Tuples(p) = Content(storage[page_id])
  BY <1>1 DEF HeapPageOk
<1>5. CASE HasRoom(p, t)
  <2>1. r.page = Grown(p, t) /\ r.slot # 0
    <3>1. Len(p.line_pointers) \in Nat
      BY <1>4, NormalStored
    <3>2. Len(p.line_pointers) + 1 # 0
      BY <3>1
    <3> QED
      BY <1>3, <1>4, <1>5, <3>2, AddTupleResult
  <2>2. HeapPageOk(r.page) /\ Tuples(r.page) = Content(storage[page_id]) \cup {t}
    BY <1>1, <1>3, <1>4, <2>1, GrownHeapPage
  <2>3. PICK g : g = Serialize(r.page)
    OBVIOUS
  <2>4. IsImage(g) /\ g # NoPage /\ Content(g) = Content(storage[page_id]) \cup {t}
    BY <2>2, <2>3, SerializedImage
  <2>5. target = page_id /\ img = [storage EXCEPT ![page_id] = g]
    BY <2>1, <2>3
  <2> QED
    BY <1>1, <1>2, <2>4, <2>5
<1>6. CASE ~ HasRoom(p, t)
  <2>1. r.slot = 0
    BY <1>3, <1>4, <1>6, AddTupleResult
  <2>2. target = page_id + 1 /\ target # page_id /\ target > n
    <3>1. target = page_id + 1
      BY <2>1
    <3> QED
      BY <3>1
  <2>3. Content(storage[target]) = {}
    BY <2>2
  <2>4. HeapPageOk(NewPage) /\ Tuples(NewPage) = {}
    BY NewPageOk
  <2>5. HasRoom(NewPage, t)
    <3>1. NewPage.lower = PageHeaderSize /\ NewPage.upper = PageSize
      BY DEF NewPage
    <3>2. /\ TupleLen[k] \in Nat /\ PageSize \in Nat /\ PageHeaderSize \in Nat /\ LinePointerSize \in Nat
          /\ PageHeaderSize + LinePointerSize + TupleLen[k] <= PageSize
      BY HeapConstants, PageConstants DEF RowsFit
    <3> QED
      BY <1>3, <3>1, <3>2 DEF HasRoom
  <2>6. AddTuple(NewPage, t).page = Grown(NewPage, t)
    BY <1>3, <2>4, <2>5, AddTupleResult DEF HeapPageOk
  <2>7. HeapPageOk(Grown(NewPage, t)) /\ Tuples(Grown(NewPage, t)) = {t}
    BY <1>3, <2>4, GrownHeapPage
  <2>8. PICK g : g = Serialize(AddTuple(NewPage, t).page)
    OBVIOUS
  <2>9. IsImage(g) /\ g # NoPage /\ Content(g) = {t}
    BY <2>6, <2>7, <2>8, SerializedImage
  <2>10. PICK h : h = Serialize(p)
    OBVIOUS
  <2>11. IsImage(h) /\ h # NoPage /\ Content(h) = Content(storage[page_id])
    BY <1>4, <2>10, SerializedImage
  <2>12. img = [storage EXCEPT ![target] = g, ![page_id] = h]
    BY <2>1, <2>8, <2>10
  <2>13. /\ DOMAIN img = PageIds /\ img[target] = g /\ img[page_id] = h
         /\ \A x \in PageIds : x # page_id /\ x # target => img[x] = storage[x]
    BY <1>1, <1>2, <2>2, <2>12
  <2> QED
    BY <1>1, <1>2, <2>3, <2>9, <2>11, <2>13
<1> QED
  BY <1>5, <1>6

(* The list of pages after it.                                             *)
LEMMA InsertLists ==
  ASSUME NEW page_id \in PageIds, NEW target \in PageIds, NEW spill \in BOOLEAN,
         target = (IF spill THEN page_id + 1 ELSE page_id),
         NEW list \in Seq(PageIds), Len(list) = page_id, \A i \in 1..page_id : list[i] = i,
         NEW new, new = (IF spill THEN Append(list, target) ELSE list)
  PROVE  new \in Seq(PageIds) /\ Len(new) = target /\ \A i \in 1..target : new[i] = i
<1>1. page_id \in Nat /\ target \in Nat
  BY DEF PageIds
<1>2. CASE spill
  <2>1. target = page_id + 1 /\ new = Append(list, target)
    BY <1>2
  <2>2. new \in Seq(PageIds) /\ Len(new) = page_id + 1
    BY <2>1
  <2>3. \A i \in 1..page_id : new[i] = i
    BY <1>1, <2>1
  <2>4. new[page_id + 1] = page_id + 1
    BY <1>1, <2>1
  <2> QED
    BY <1>1, <2>1, <2>2, <2>3, <2>4
<1>3. CASE ~ spill
  BY <1>3
<1> QED
  BY <1>2, <1>3

LEMMA InsertOnPageKeeps ==
  ASSUME OneRelation, RowsFit, HeapInv, NEW s \in Sessions, InsertOnPage(s)
  PROVE  HeapInv'
<1>1. PICK c : c = call[s]
  OBVIOUS
<1>2. PICK rel : rel = c.rel
  OBVIOUS
<1>3. PICK n : n = Len(pages[rel])
  OBVIOUS
<1>4. PICK page_id : page_id = IF pages[rel] = << >> THEN 1 ELSE pages[rel][Len(pages[rel])]
  OBVIOUS
<1>5. PICK p : p = IF pages[rel] = << >> THEN NewPage ELSE Deserialize(storage[page_id])
  OBVIOUS
<1>6. PICK t : t = Tuple(current_xid, rel, c.key, current_xid, 0)
  OBVIOUS
<1>7. PICK r : r = AddTuple(p, t)
  OBVIOUS
<1>8. PICK spill \in BOOLEAN : spill <=> r.slot = 0
  OBVIOUS
<1>9. PICK target : target = IF spill THEN page_id + 1 ELSE page_id
  OBVIOUS
<1>10. PICK img : img = IF r.slot = 0
               THEN [storage EXCEPT ![target] = Serialize(AddTuple(NewPage, t).page), ![page_id] = Serialize(p)]
               ELSE [storage EXCEPT ![page_id] = Serialize(r.page)]
  OBVIOUS
<1>11. PICK list : list = LET l == IF pages[rel] = << >> THEN <<1>> ELSE pages[rel]
                          IN  IF spill THEN Append(l, target) ELSE l
  OBVIOUS
<1>12. PICK d : d = [at |-> "append", then |-> Idle,
                     rec |-> [op |-> "insert", page |-> target, xid |-> current_xid]]
  OBVIOUS
<1>13. /\ c.at = "insert" /\ rel_lock[rel] = NoSession /\ target \in PageIds
       /\ current_xid' = current_xid + 1
       /\ storage' = img /\ pages' = [pages EXCEPT ![rel] = list]
       /\ call' = [call EXCEPT ![s] = d]
       /\ UNCHANGED <<pool, rel_lock, wal_owner, log, scans, returned, touched>>
  BY <1>1, <1>2, <1>4, <1>5, <1>6, <1>7, <1>8, <1>9, <1>10, <1>11, <1>12 DEF InsertOnPage
<1>14. wal_owner = s /\ rel \in Relations /\ c.key \in Keys
  BY <1>1, <1>2, <1>13, CurrentCall, CallAt DEF InsertCall
<1>15. /\ n \in Nat /\ (pages[rel] = << >> <=> n = 0) /\ page_id = (IF n = 0 THEN 1 ELSE n)
       /\ page_id \in PageIds => Tuples(p) = Content(storage[page_id])
       /\ HeapPageOk(p)
       /\ pages[rel] \in Seq(PageIds) /\ \A i \in 1..n : pages[rel][i] = i
       /\ \A x \in PageIds : (x <= n => storage[x] # NoPage) /\ (x > n => Content(storage[x]) = {})
  BY <1>3, <1>4, <1>5, <1>14, LastPage, SMTT(30)
<1>16. /\ DOMAIN img = PageIds /\ page_id \in PageIds
       /\ \A x \in PageIds : img[x] = NoPage \/ IsImage(img[x])
       /\ img[page_id] # NoPage /\ img[target] # NoPage
       /\ \A x \in PageIds : x # page_id /\ x # target => img[x] = storage[x]
       /\ \A x \in PageIds : x # target => Content(img[x]) = Content(storage[x])
       /\ Content(img[target]) = Content(storage[target]) \cup {t}
  <2>1. PICK k \in Keys : k = c.key
    BY <1>14
  <2>2. t = Tuple(current_xid, rel, k, current_xid, 0) /\ target = (IF r.slot = 0 THEN page_id + 1 ELSE page_id)
    BY <1>6, <1>8, <1>9, <2>1
  <2>3. Placing(rel, k, n, page_id, p, t, r, target, img)
    BY <1>7, <1>10, <1>13, <1>14, <1>15, <2>2 DEF Placing
  <2> QED
    BY <2>3, InsertWrites
<1>17. list \in Seq(PageIds) /\ Len(list) = target /\ \A i \in 1..target : list[i] = i
  <2>1. PICK old : old = pages[rel]
    OBVIOUS
  <2>2. PICK l : l = (IF old = << >> THEN <<1>> ELSE old)
    OBVIOUS
  <2>3. list = (IF spill THEN Append(l, target) ELSE l)
    BY <1>11, <2>1, <2>2
  <2>4. l \in Seq(PageIds) /\ Len(l) = page_id /\ \A i \in 1..page_id : l[i] = i
    <3>1. CASE n = 0
      <4>1. l = <<1>> /\ page_id = 1 /\ 1 \in PageIds
        BY <1>15, <1>16, <2>1, <2>2, <3>1
      <4> QED
        BY <4>1
    <3>2. CASE n # 0
      <4>1. l = pages[rel] /\ page_id = n
        BY <1>15, <2>1, <2>2, <3>2
      <4> QED
        BY <1>3, <1>15, <1>16, <4>1
    <3> QED
      BY <3>1, <3>2
  <2> QED
    BY <1>9, <1>13, <1>16, <2>3, <2>4, InsertLists
<1>18. t.row = current_xid /\ t.xmin = current_xid /\ t.xmax = 0 /\ current_xid \in Nat
  BY <1>6, <1>14, FreshRow
<1>19. TablesOk'
  <2>1. \A x \in PageIds : \A y \in RowsOf(img[x]) :
            y \in RowsOf(storage[x]) \/ (x = target /\ y = current_xid)
    BY <1>16, <1>18 DEF RowsOf
  <2>2. TablesOk /\ DOMAIN rel_lock = Relations /\ DOMAIN pool = PageIds
    BY DEF HeapInv, TablesOk
  <2> QED
    BY <1>13, <1>16, <2>1, <2>2, TablesKept
<1>20. PageListsOk'
  <2>1. pages \in [Relations -> Seq(PageIds)] /\ \A z \in Relations : z = rel
    BY <1>14 DEF HeapInv, PageListsOk, OneRelation
  <2>2. pages' \in [Relations -> Seq(PageIds)] /\ \A z \in Relations : pages'[z] = list
    BY <1>13, <1>14, <1>17, <2>1
  <2>3. target \in Nat /\ page_id \in Nat /\ \A x \in PageIds : x \in Nat
    BY <1>13, <1>16 DEF PageIds
  <2>4. \A i \in DOMAIN list : list[i] = i
    <3>1. DOMAIN list = 1..target
      BY <1>17
    <3> QED
      BY <1>17, <3>1
  <2>5. ASSUME NEW x \in PageIds, x <= target PROVE img[x] # NoPage
    <3>1. CASE x = page_id \/ x = target
      BY <1>16, <3>1
    <3>2. CASE x # page_id /\ x # target
      <4>1. x <= n
        <5>1. x \in Nat /\ x # 0
          BY DEF PageIds
        <5>2. target = page_id \/ target = page_id + 1
          BY <1>9
        <5> QED
          BY <1>15, <2>3, <2>5, <3>2, <5>1, <5>2
      <4> QED
        BY <1>15, <1>16, <3>2, <4>1
    <3> QED
      BY <3>1, <3>2
  <2>6. ASSUME NEW x \in PageIds, x > target PROVE Content(img[x]) = {}
    <3>1. x > n /\ x # target
      <4>1. target = page_id \/ target = page_id + 1
        BY <1>9
      <4> QED
        BY <1>15, <2>3, <2>6, <4>1
    <3> QED
      BY <1>15, <1>16, <3>1
  <2> QED
    BY <1>13, <1>17, <2>2, <2>4, <2>5, <2>6 DEF PageListsOk
<1>21. LogOk'
  BY <1>13, LogKept
<1>22. InsertsKept'
  <2>1. \A x \in PageIds : \A u \in Content(storage[x]) : u \in Content(storage'[x])
    BY <1>13, <1>16
  <2> QED
    BY <1>13, <2>1, InsertsStay DEF HeapInv
<1>23. CallsOk'
  <2>1. d.at = "append" /\ d.then = Idle /\ d.rec = [op |-> "insert", page |-> target, xid |-> current_xid]
    BY <1>12
  <2>2. d.rec \in LogRecords /\ d.rec.page = target /\ d.rec.xid = current_xid
    BY <1>13, <1>18, <2>1 DEF LogRecords, WriteOps
  <2>3. t \in Content(storage'[target])
    BY <1>13, <1>16
  <2>4. current_xid < current_xid'
    BY <1>13, <1>18
  <2>5. \A i \in DOMAIN log : log[i].xid < current_xid
    BY DEF HeapInv, LogOk
  <2>6. AppendCall(d)'
    BY <1>13, <1>18, <2>1, <2>2, <2>3, <2>4, <2>5 DEF AppendCall, Idle
  <2>7. Writing(d)'
    BY <2>6 DEF Writing
  <2>8. \A q \in Sessions : ScanStays(q)
    BY <1>13, <1>14, NobodyScans
  <2> QED
    BY <1>13, <1>14, <2>7, <2>8, WriterMoves
<1> QED
  BY <1>19, <1>20, <1>21, <1>22, <1>23 DEF HeapInv

LEMMA InsertPanicsKeeps ==
  ASSUME OneRelation, HeapInv, NEW s \in Sessions, InsertPanics(s)
  PROVE  HeapInv'
<1>1. PICK c : c = call[s]
  OBVIOUS
<1>2. PICK rel : rel = c.rel
  OBVIOUS
<1>3. PICK d : d = [at |-> "dead"]
  OBVIOUS
<1>4. /\ c.at = "insert" /\ rel_lock[rel] = NoSession /\ current_xid' = current_xid + 1 /\ wal_owner' = NoSession
      /\ storage' = IF pages[rel] = << >> THEN [storage EXCEPT ![1] = Serialize(NewPage)] ELSE storage
      /\ call' = [call EXCEPT ![s] = d]
      /\ UNCHANGED <<pages, pool, rel_lock, log, scans, returned, touched>>
  BY <1>1, <1>2, <1>3 DEF InsertPanics
<1>5. wal_owner = s /\ rel \in Relations
  BY <1>1, <1>2, <1>4, CurrentCall, CallAt DEF InsertCall
<1>6. TablesOk /\ PageListsOk /\ DOMAIN rel_lock = Relations /\ DOMAIN pool = PageIds /\ DOMAIN storage = PageIds
  BY DEF HeapInv, TablesOk
<1>7. PICK g : g = Serialize(NewPage)
  OBVIOUS
<1>8. IsImage(g) /\ g # NoPage /\ Content(g) = {}
  BY <1>7, NewPageOk, SerializedImage
<1>9. /\ DOMAIN storage' = PageIds
      /\ \A x \in PageIds : storage'[x] = storage[x] \/ (storage'[x] = g /\ Content(storage[x]) = {})
  <2>1. CASE pages[rel] = << >>
    <3>1. \A x \in PageIds : x > 0 => Content(storage[x]) = {}
      <4>1. Len(pages[rel]) = 0
        BY <2>1
      <4> QED
        BY <1>5, <1>6, <4>1 DEF PageListsOk
    <3>2. \A x \in PageIds : x > 0
      BY DEF PageIds
    <3> QED
      BY <1>4, <1>6, <1>7, <2>1, <3>1, <3>2
  <2>2. CASE pages[rel] # << >>
    BY <1>4, <1>6, <2>2
  <2> QED
    BY <2>1, <2>2
<1>10. /\ \A x \in PageIds : storage'[x] = NoPage \/ IsImage(storage'[x])
       /\ \A x \in PageIds : Content(storage'[x]) = Content(storage[x])
       /\ \A x \in PageIds : storage[x] # NoPage => storage'[x] # NoPage
  BY <1>6, <1>8, <1>9 DEF TablesOk
<1>11. TablesOk'
  <2>1. \A x \in PageIds : \A y \in RowsOf(storage'[x]) : y \in RowsOf(storage[x])
    BY <1>10 DEF RowsOf
  <2>2. PICK target : target = 0
    OBVIOUS
  <2> QED
    BY <1>4, <1>6, <1>9, <1>10, <2>1, TablesKept
<1>12. PageListsOk'
  BY <1>4, <1>6, <1>10, PageListsKept
<1>13. LogOk'
  BY <1>4, LogKept
<1>14. InsertsKept'
  BY <1>4, <1>10, InsertsStay DEF HeapInv
<1>15. CallsOk'
  <2>1. \A q \in Sessions : ScanStays(q)
    BY <1>4, <1>5, NobodyScans
  <2> QED
    BY <1>3, <1>4, <1>5, <2>1, WriterMoves
<1> QED
  BY <1>11, <1>12, <1>13, <1>14, <1>15 DEF HeapInv

LEMMA WriteRowKeeps ==
  ASSUME OneRelation, HeapInv, NEW s \in Sessions, WriteRow(s)
  PROVE  HeapInv'
<1>1. PICK c : c = call[s]
  OBVIOUS
<1>2. PICK i : i = Head(c.slots)
  OBVIOUS
<1>3. PICK p : p = IF c.op = "update" THEN UpdatedPage(c.page, i) ELSE Expire(c.page, i)
  OBVIOUS
<1>4. PICK g : g = Serialize(p)
  OBVIOUS
<1>5. PICK e : e = [c EXCEPT !.page = p, !.slots = Tail(c.slots)]
  OBVIOUS
<1>6. PICK d : d = [at |-> "append", then |-> e,
                    rec |-> [op |-> c.op, page |-> c.page_id, xid |-> current_xid]]
  OBVIOUS
<1>7. /\ c.at = "rows" /\ c.slots # << >> /\ rel_lock[c.rel] = NoSession /\ current_xid' = current_xid + 1
      /\ storage' = [storage EXCEPT ![c.page_id] = g] /\ call' = [call EXCEPT ![s] = d]
      /\ UNCHANGED <<pages, pool, rel_lock, wal_owner, log, scans, returned, touched>>
  BY <1>1, <1>2, <1>3, <1>4, <1>5, <1>6 DEF WriteRow
<1>8. wal_owner = s /\ RowsCall(c)
  BY <1>1, <1>7, CurrentCall, CallAt
<1>9. /\ c = [at |-> "rows", op |-> c.op, rel |-> c.rel, key |-> c.key, page_id |-> c.page_id,
              todo |-> c.todo, page |-> c.page, slots |-> c.slots]
      /\ c.op \in WriteOps /\ PagesListed(c.rel, c.todo) /\ c.page_id \in PageIds /\ HeapPageOk(c.page)
      /\ storage[c.page_id] # NoPage /\ Content(storage[c.page_id]) = Tuples(c.page)
      /\ c.slots \in Seq(Normal(c.page))
      /\ \A a, b \in DOMAIN c.slots : c.slots[a] = c.slots[b] => a = b
      /\ \A a \in DOMAIN c.slots : c.page.tuples[c.slots[a]].row \in touched
  BY <1>8 DEF RowsCall
<1>10. TablesOk /\ PageListsOk /\ DOMAIN rel_lock = Relations /\ DOMAIN pool = PageIds /\ DOMAIN storage = PageIds
       /\ current_xid \in Nat
  BY DEF HeapInv, TablesOk
<1>11. i \in Normal(c.page) /\ i = c.slots[1] /\ 1 \in DOMAIN c.slots
  BY <1>2, <1>7, <1>9
<1>12. Rewritten(c.page, i, p)
  BY <1>3, <1>9, <1>10, <1>11, ExpireRewrites, UpdateRewrites
<1>13. /\ HeapPageOk(p)
       /\ \A j \in Normal(c.page) : j # i => j \in Normal(p) /\ p.tuples[j] = c.page.tuples[j]
  BY <1>12 DEF Rewritten
<1>14. PICK v \in RowVersions : /\ v.row = c.page.tuples[i].row
                                /\ current_xid = v.xmin \/ current_xid = v.xmax
                                /\ Tuples(p) = (Tuples(c.page) \ {c.page.tuples[i]}) \cup {v}
  BY <1>12 DEF Rewritten
<1>15. IsImage(g) /\ g # NoPage /\ Content(g) = Tuples(p)
  BY <1>4, <1>13, SerializedImage
<1>16. c.page.tuples[i] \in Content(storage[c.page_id]) /\ c.page.tuples[i].row \in touched
  BY <1>9, <1>11 DEF Tuples
<1>17. DOMAIN storage' = PageIds /\ storage'[c.page_id] = g /\ \A x \in PageIds : x # c.page_id => storage'[x] = storage[x]
  BY <1>7, <1>9, <1>10
<1>18. TablesOk'
  <2>1. \A x \in PageIds : storage'[x] = NoPage \/ IsImage(storage'[x])
    BY <1>10, <1>15, <1>17 DEF TablesOk
  <2>2. \A t \in Content(g) : t.row \in RowsOf(storage[c.page_id])
    BY <1>9, <1>14, <1>15, <1>16 DEF RowsOf
  <2>3. \A x \in PageIds : \A y \in RowsOf(storage'[x]) : y \in RowsOf(storage[x])
    BY <1>17, <2>2 DEF RowsOf
  <2>4. PICK target : target = 0
    OBVIOUS
  <2> QED
    BY <1>7, <1>10, <1>17, <2>1, <2>3, TablesKept
<1>19. PageListsOk'
  BY <1>7, <1>10, <1>15, <1>16, <1>17, PageListsKept
<1>20. LogOk'
  BY <1>7, LogKept
<1>21. InsertsKept'
  <2>1. ASSUME NEW x \in PageIds, NEW t \in Content(storage[x])
        PROVE  t.row \in touched' \/ t \in Content(storage'[x])
    <3>1. CASE x # c.page_id
      BY <1>17, <3>1
    <3>2. CASE x = c.page_id
      <4>1. t = c.page.tuples[i] \/ t \in Tuples(p)
        BY <1>9, <1>14, <3>2
      <4> QED
        BY <1>7, <1>15, <1>16, <1>17, <3>2, <4>1
    <3> QED
      BY <3>1, <3>2
  <2> QED
    BY <1>7, <2>1, InsertsStay DEF HeapInv
<1>22. RowsCall(e)'
  <2>1. e = [at |-> "rows", op |-> c.op, rel |-> c.rel, key |-> c.key, page_id |-> c.page_id,
             todo |-> c.todo, page |-> p, slots |-> Tail(c.slots)]
    <3>1. PICK a1, a2, a3, a4, a5, a6, a7 :
            c = [at |-> "rows", op |-> a1, rel |-> a2, key |-> a3, page_id |-> a4, todo |-> a5, page |-> a6, slots |-> a7]
      BY <1>9
    <3> QED
      BY <1>5, <3>1
  <2>2. /\ e.op = c.op /\ e.rel = c.rel /\ e.key = c.key /\ e.page_id = c.page_id /\ e.todo = c.todo
        /\ e.page = p /\ e.slots = Tail(c.slots)
        /\ e = [at |-> "rows", op |-> e.op, rel |-> e.rel, key |-> e.key, page_id |-> e.page_id,
                todo |-> e.todo, page |-> e.page, slots |-> e.slots]
    BY <2>1
  <2>3. PICK ts : ts = Tail(c.slots)
    OBVIOUS
  <2>4. /\ ts \in Seq(Normal(c.page)) /\ \A a \in DOMAIN ts : ts[a] = c.slots[a + 1] /\ a + 1 \in DOMAIN c.slots
        /\ \A a \in DOMAIN ts : a \in Nat /\ a # 0
    BY <1>7, <1>9, <2>3
  <2>5. \A a \in DOMAIN ts : ts[a] # i
    <3>1. \A a \in DOMAIN ts : a + 1 # 1
      BY <2>4
    <3> QED
      BY <1>9, <1>11, <2>4, <3>1
  <2>6. \A a \in DOMAIN ts : ts[a] \in Normal(p) /\ p.tuples[ts[a]] = c.page.tuples[ts[a]]
    <3>1. \A a \in DOMAIN ts : ts[a] \in Normal(c.page)
      BY <2>4
    <3> QED
      BY <1>13, <2>5, <3>1
  <2>7. ts \in Seq(Normal(p))
    <3>1. ts = [a \in 1..Len(ts) |-> ts[a]] /\ Len(ts) \in Nat /\ DOMAIN ts = 1..Len(ts)
      BY <2>4
    <3>2. ts \in [1..Len(ts) -> Normal(p)]
      BY <2>6, <3>1
    <3> QED
      BY <3>1, <3>2
  <2>8. \A a, b \in DOMAIN ts : ts[a] = ts[b] => a = b
    <3> SUFFICES ASSUME NEW a \in DOMAIN ts, NEW b \in DOMAIN ts, ts[a] = ts[b] PROVE a = b
      OBVIOUS
    <3>1. a + 1 = b + 1
      BY <1>9, <2>4
    <3> QED
      BY <2>4, <3>1
  <2>9. \A a \in DOMAIN ts : p.tuples[ts[a]].row \in touched'
    BY <1>7, <1>9, <2>4, <2>6
  <2>10. PagesListed(e.rel, e.todo)'
    BY <1>7, <1>9, <2>2 DEF PagesListed
  <2>11. /\ e.op \in WriteOps /\ e.page_id \in PageIds /\ HeapPageOk(e.page)
         /\ storage'[e.page_id] # NoPage /\ Content(storage'[e.page_id]) = Tuples(e.page)
    BY <1>9, <1>13, <1>15, <1>17, <2>2
  <2>12. /\ e.slots \in Seq(Normal(e.page))
         /\ \A a, b \in DOMAIN e.slots : e.slots[a] = e.slots[b] => a = b
         /\ \A a \in DOMAIN e.slots : e.page.tuples[e.slots[a]].row \in touched'
    BY <2>2, <2>3, <2>7, <2>8, <2>9
  <2> QED
    BY <2>2, <2>10, <2>11, <2>12 DEF RowsCall
<1>23. CallsOk'
  <2>1. d.at = "append" /\ d.then = e /\ d.rec = [op |-> c.op, page |-> c.page_id, xid |-> current_xid]
    BY <1>6
  <2>2. d.rec \in LogRecords /\ d.rec.page = c.page_id /\ d.rec.xid = current_xid
    BY <1>9, <1>10, <2>1 DEF LogRecords
  <2>3. v \in Content(storage'[c.page_id])
    BY <1>14, <1>15, <1>17
  <2>4. current_xid < current_xid'
    BY <1>7, <1>10
  <2>5. \A a \in DOMAIN log : log[a].xid < current_xid
    BY DEF HeapInv, LogOk
  <2>6. RowsCall(d.then)'
    BY <1>22, <2>1 DEF RowsCall, PagesListed
  <2>7. AppendCall(d)'
    BY <1>7, <1>14, <2>1, <2>2, <2>3, <2>4, <2>5, <2>6 DEF AppendCall
  <2>8. Writing(d)'
    BY <2>7 DEF Writing
  <2>9. \A q \in Sessions : ScanStays(q)
    BY <1>7, <1>9, NobodyScans DEF PagesListed
  <2> QED
    BY <1>7, <1>8, <2>8, <2>9, WriterMoves
<1> QED
  BY <1>18, <1>19, <1>20, <1>21, <1>23 DEF HeapInv

(* What vacuum leaves of every page.                                       *)
LEMMA VacuumLeaves ==
  ASSUME HeapInv, NEW r \in Relations, NEW x, Vacuum(r, x)
  PROVE  /\ DOMAIN storage' = PageIds /\ DOMAIN pool' = PageIds
         /\ \A z \in PageIds : storage'[z] = NoPage \/ IsImage(storage'[z])
         /\ \A z \in PageIds : storage[z] # NoPage => storage'[z] # NoPage
         /\ \A z \in PageIds : pool'[z] = pool[z] \/ pool'[z] = NoPage
         /\ \A z \in PageIds : Content(storage'[z]) \subseteq Content(storage[z])
         /\ \A z \in PageIds : \A t \in Content(storage[z]) :
              t \in Content(storage'[z]) \/ (t.xmax # 0 /\ t.xmax < x)
<1>1. PICK changed : changed = {z \in PageIds : /\ \E i \in DOMAIN pages[r] : pages[r][i] = z
                                                /\ DeadFor(Deserialize(storage[z]), x) # {}}
  OBVIOUS
<1>2. /\ storage' = [z \in PageIds |-> IF z \in changed
                                       THEN Serialize(VacuumedPage(Deserialize(storage[z]), x)) ELSE storage[z]]
      /\ pool' = [z \in PageIds |-> IF z \in changed THEN NoPage ELSE pool[z]]
  BY <1>1 DEF Vacuum
<1>3. TablesOk /\ PageListsOk
  BY DEF HeapInv
<1>4. ASSUME NEW z \in changed
      PROVE  LET g == storage'[z] IN
             /\ z \in PageIds /\ IsImage(g) /\ g # NoPage
             /\ Content(g) = {t \in Content(storage[z]) : ~ (t.xmax # 0 /\ t.xmax < x)}
  <2>1. z \in PageIds /\ \E i \in DOMAIN pages[r] : pages[r][i] = z
    BY <1>1
  <2>2. storage[z] # NoPage
    <3>1. pages[r] \in Seq(PageIds) /\ \A i \in DOMAIN pages[r] : pages[r][i] = i
      BY <1>3 DEF PageListsOk
    <3>2. z \in DOMAIN pages[r]
      BY <2>1, <3>1
    <3>3. z <= Len(pages[r])
      BY <3>1, <3>2
    <3> QED
      BY <1>3, <2>1, <3>3 DEF PageListsOk
  <2>3. PICK p : p = Deserialize(storage[z])
    OBVIOUS
  <2>4. HeapPageOk(p) /\ Tuples(p) = Content(storage[z])
    <3>1. IsImage(storage[z])
      BY <1>3, <2>1, <2>2 DEF TablesOk
    <3> QED
      BY <2>3, <3>1, ImageRead
  <2>5. PICK v : v = VacuumedPage(p, x)
    OBVIOUS
  <2>6. HeapPageOk(v) /\ Tuples(v) = {t \in Content(storage[z]) : ~ (t.xmax # 0 /\ t.xmax < x)}
    BY <2>4, <2>5, VacuumedHeapPage
  <2>7. storage'[z] = Serialize(v)
    BY <1>2, <2>1, <2>3, <2>5
  <2> QED
    BY <2>1, <2>6, <2>7, SerializedImage
<1>5. \A z \in PageIds : z \notin changed => storage'[z] = storage[z]
  BY <1>2
<1>6. DOMAIN storage' = PageIds /\ DOMAIN pool' = PageIds /\ \A z \in PageIds : pool'[z] = pool[z] \/ pool'[z] = NoPage
  BY <1>2
<1>7. \A z \in PageIds : storage[z] = NoPage \/ IsImage(storage[z])
  BY <1>3 DEF TablesOk
<1> QED
  BY <1>4, <1>5, <1>6, <1>7

LEMMA VacuumKeeps ==
  ASSUME OneRelation, HeapInv, NEW r \in Relations, NEW x, Vacuum(r, x)
  PROVE  HeapInv'
<1>1. /\ wal_owner = NoSession /\ rel_lock[r] = NoSession
      /\ UNCHANGED <<pages, rel_lock, wal_owner, current_xid, log, call, scans, returned, touched>>
  BY DEF Vacuum
<1>2. TablesOk /\ PageListsOk /\ DOMAIN rel_lock = Relations
  BY DEF HeapInv, TablesOk
<1>3. /\ DOMAIN storage' = PageIds /\ DOMAIN pool' = PageIds
      /\ \A z \in PageIds : storage'[z] = NoPage \/ IsImage(storage'[z])
      /\ \A z \in PageIds : storage[z] # NoPage => storage'[z] # NoPage
      /\ \A z \in PageIds : pool'[z] = pool[z] \/ pool'[z] = NoPage
      /\ \A z \in PageIds : Content(storage'[z]) \subseteq Content(storage[z])
      /\ \A z \in PageIds : \A t \in Content(storage[z]) :
              t \in Content(storage'[z]) \/ (t.xmax # 0 /\ t.xmax < x)
  BY VacuumLeaves
<1>4. TablesOk'
  <2>1. \A z \in PageIds : \A y \in RowsOf(storage'[z]) : y \in RowsOf(storage[z])
    BY <1>3 DEF RowsOf
  <2>2. PICK target : target = 0
    OBVIOUS
  <2> QED
    BY <1>1, <1>2, <1>3, <2>1, TablesKept
<1>5. PageListsOk'
  <2>1. \A z \in PageIds : Content(storage[z]) = {} => Content(storage'[z]) = {}
    BY <1>3
  <2> QED
    BY <1>1, <1>2, <1>3, <2>1, PageListsKept
<1>6. LogOk'
  BY <1>1 DEF HeapInv, LogOk
<1>7. InsertsKept'
  <2>1. \A z \in PageIds : \A t \in Content(storage[z]) : t.xmax = 0 => t \in Content(storage'[z])
    BY <1>3
  <2> QED
    BY <1>1, <2>1, InsertsStay DEF HeapInv
<1>8. ASSUME NEW q \in Sessions, NEW c, c = call'[q] PROVE CallOk(q, c)'
  <2>1. CallOk(q, c)
    BY <1>1, <1>8 DEF HeapInv, CallsOk
  <2>2. wal_owner # q /\ wal_owner' # q
    BY <1>1, HeapConstants
  <2>3. ScanStays(q)
    BY <1>1, NobodyScans
  <2> QED
    BY <2>1, <2>2, <2>3, OtherKept
<1>9. CallsOk'
  BY <1>1, <1>8 DEF HeapInv, CallsOk
<1> QED
  BY <1>4, <1>5, <1>6, <1>7, <1>9 DEF HeapInv

LEMMA HeapInvInit ==
  ASSUME HeapInit
  PROVE  HeapInv
<1>1. /\ pages = [r \in Relations |-> << >>] /\ storage = [p \in PageIds |-> NoPage] /\ pool = [p \in PageIds |-> NoPage]
      /\ rel_lock = [r \in Relations |-> NoSession] /\ wal_owner = NoSession /\ current_xid = 1 /\ log = << >>
      /\ call = [s \in Sessions |-> Idle] /\ returned = {}
  BY DEF HeapInit
<1>2. \A x \in PageIds : Held(x) = {} /\ Content(storage[x]) = {}
  BY <1>1 DEF Held, RowsOf, Content
<1>3. TablesOk
  BY <1>1, <1>2 DEF TablesOk
<1>4. PageListsOk
  <2>1. \A r \in Relations : pages[r] = << >> /\ Len(pages[r]) = 0 /\ DOMAIN pages[r] = {}
    BY <1>1
  <2>2. pages \in [Relations -> Seq(PageIds)]
    BY <1>1
  <2>3. \A x \in PageIds : ~ (x <= 0)
    BY DEF PageIds
  <2> QED
    BY <1>2, <2>1, <2>2, <2>3 DEF PageListsOk
<1>5. LogOk
  BY <1>1 DEF LogOk
<1>6. CallsOk
  <2>1. ASSUME NEW s \in Sessions, NEW c, c = call[s] PROVE CallOk(s, c)
    <3>1. c = Idle /\ wal_owner # s
      BY <1>1, <2>1, HeapConstants
    <3> QED
      BY <3>1 DEF CallOk, NotWriting
  <2> QED
    BY <1>1, <2>1 DEF CallsOk
<1>7. InsertsKept
  BY <1>1 DEF InsertsKept
<1> QED
  BY <1>3, <1>4, <1>5, <1>6, <1>7 DEF HeapInv

LEMMA HeapStep ==
  ASSUME OneRelation, RowsFit, HeapInv, HeapNext
  PROVE  HeapInv'
<1>1. ASSUME NEW s \in Sessions, NEW r \in Relations, NEW k \in Keys, NEW op \in {"insert", "update", "delete"},
             StartWrite(s, op, r, k)
      PROVE  HeapInv'
  BY <1>1, StartWriteKeeps DEF WriteOps
<1>2. ASSUME NEW s \in Sessions, InsertOnPage(s) PROVE HeapInv'
  BY <1>2, InsertOnPageKeeps
<1>3. ASSUME NEW s \in Sessions, InsertPanics(s) PROVE HeapInv'
  BY <1>3, InsertPanicsKeeps
<1>4. ASSUME NEW s \in Sessions, ReadForWrite(s) PROVE HeapInv'
  BY <1>4, ReadForWriteKeeps
<1>5. ASSUME NEW s \in Sessions, WriteRow(s) PROVE HeapInv'
  BY <1>5, WriteRowKeeps
<1>6. ASSUME NEW s \in Sessions, UpdatePanics(s) PROVE HeapInv'
  BY <1>6, UpdatePanicsKeeps
<1>7. ASSUME NEW s \in Sessions, AppendRecord(s) PROVE HeapInv'
  BY <1>7, AppendRecordKeeps
<1>8. ASSUME NEW s \in Sessions, NextPage(s) PROVE HeapInv'
  BY <1>8, NextPageKeeps
<1>9. ASSUME NEW s \in Sessions, EndWrite(s) PROVE HeapInv'
  BY <1>9, EndWriteKeeps
<1>10. ASSUME NEW s \in Sessions, NEW r \in Relations, NEW snap, StartScan(s, r, snap) PROVE HeapInv'
  BY <1>10, StartScanKeeps
<1>11. ASSUME NEW s \in Sessions, ScanFetch(s) PROVE HeapInv'
  BY <1>11, ScanFetchKeeps
<1>12. ASSUME NEW s \in Sessions, ScanEnd(s) PROVE HeapInv'
  BY <1>12, ScanEndKeeps
<1>13. ASSUME NEW s \in Sessions, NEW r \in Relations, SlowScan(s, r) PROVE HeapInv'
  BY <1>13, SlowScanKeeps
<1>14. ASSUME NEW s \in Sessions, ScanReturn(s) PROVE HeapInv'
  BY <1>14, ScanReturnKeeps
<1>15. ASSUME NEW p \in PageIds, PoolEvict(p) PROVE HeapInv'
  BY <1>15, PoolEvictKeeps
<1>16. ASSUME NEW r \in Relations, NEW x, Vacuum(r, x) PROVE HeapInv'
  BY <1>16, VacuumKeeps
<1> QED
  BY <1>1, <1>2, <1>3, <1>4, <1>5, <1>6, <1>7, <1>8, <1>9, <1>10, <1>11, <1>12, <1>13, <1>14, <1>15, <1>16
  DEF HeapNext

(* The invariant of executor/heap.rs with one relation and rows that fit   *)
(* on a page: stored pages and the pool's copies decode to at most one     *)
(* version of each row, no row is on two pages, the writer that holds the  *)
(* mutex around the log works on the page storage has, and a scan under    *)
(* way has or will fetch every page of its relation.                       *)
THEOREM HeapInvariant ==
  ASSUME OneRelation, RowsFit
  PROVE  HeapSpec => []HeapInv
<1>1. HeapInit => HeapInv
  BY HeapInvInit
<1>2. HeapInv /\ [HeapNext]_heapVars => HeapInv'
  <2>1. ASSUME HeapInv, UNCHANGED heapVars PROVE HeapInv'
    <3>1. /\ pages' = pages /\ storage' = storage /\ pool' = pool /\ rel_lock' = rel_lock /\ wal_owner' = wal_owner
          /\ current_xid' = current_xid /\ log' = log /\ call' = call /\ returned' = returned /\ touched' = touched
      BY <2>1 DEF heapVars
    <3>2. TablesOk' /\ PageListsOk' /\ LogOk' /\ InsertsKept'
      <4>1. DOMAIN rel_lock' = Relations /\ DOMAIN pool' = PageIds
        BY <2>1, <3>1 DEF HeapInv, TablesOk
      <4> QED
        BY <2>1, <3>1, <4>1, StillTables
    <3>3. ASSUME NEW q \in Sessions, NEW c, c = call'[q] PROVE CallOk(q, c)'
      <4>1. CallOk(q, c) /\ WriterStays /\ ScanStays(q)
        BY <2>1, <3>1, <3>3 DEF HeapInv, CallsOk, WriterStays, ScanStays
      <4> QED
        BY <4>1, AnyKept
    <3>4. CallsOk'
      BY <2>1, <3>1, <3>3 DEF HeapInv, CallsOk
    <3> QED
      BY <3>2, <3>4 DEF HeapInv
  <2> QED
    BY <2>1, HeapStep
<1> QED
  BY <1>1, <1>2, PTL DEF HeapSpec

(* A row whose insertion returned stays in storage until a deletion or an  *)
(* update selects it.                                                      *)
THEOREM InsertsAreKept ==
  ASSUME OneRelation, RowsFit
  PROVE  HeapSpec => []InsertsKept
<1>1. HeapInv => InsertsKept
  BY DEF HeapInv
<1> QED
  BY <1>1, HeapInvariant, PTL

(* Storage holds one version of a row and a scan returns it once.          *)
THEOREM OneVersionIsKept ==
  ASSUME OneRelation, RowsFit
  PROVE  HeapSpec => []OneVersionPerRow
<1>1. HeapInv => OneVersionPerRow
  <2> SUFFICES ASSUME HeapInv PROVE OneVersionPerRow
    OBVIOUS
  <2>1. ASSUME NEW t \in Stored, NEW u \in Stored, t.row = u.row PROVE t = u
    <3>1. PICK x \in PageIds, y \in PageIds : t \in Content(storage[x]) /\ u \in Content(storage[y])
      BY StoredContent
    <3>2. x = y
      <4>1. t.row \in Held(x) /\ u.row \in Held(y)
        BY <3>1 DEF Held, RowsOf
      <4> QED
        BY <2>1, <4>1 DEF HeapInv, TablesOk
    <3>3. IsImage(storage[x])
      <4>1. storage[x] # NoPage
        BY <3>1 DEF Content
      <4> QED
        BY <4>1 DEF HeapInv, TablesOk
    <3>4. PICK p : HeapPageOk(p) /\ Tuples(p) = Content(storage[x])
      BY <3>3, ImageRead
    <3> QED
      BY <2>1, <3>1, <3>2, <3>4, RowsApart
  <2>2. ASSUME NEW s \in Sessions, call[s].at = "scanned"
        PROVE  \A t, u \in call[s].rows : t.row = u.row => t = u
    <3>1. OneVersionEach(call[s].rows)
      BY <2>2, CurrentCall, CallAt
    <3> QED
      BY <3>1 DEF OneVersionEach
  <2> QED
    BY <2>1, <2>2 DEF OneVersionPerRow
<1> QED
  BY <1>1, HeapInvariant, PTL

(* The page write comes before the record that tells of it, and records    *)
(* are appended in the order of their ids.                                 *)
THEOREM LoggedAfterStored ==
  ASSUME OneRelation, RowsFit
  PROVE  HeapSpec => LoggedIsStored
<1> DEFINE A == log' # log =>
                  LET rec == log'[Len(log')] IN
                  /\ \E t \in Decoded(storage[rec.page]) : rec.xid \in {t.xmin, t.xmax}
                  /\ \A i \in DOMAIN log : log[i].xid < rec.xid
<1>1. ASSUME HeapInv, NEW s \in Sessions, AppendRecord(s) PROVE A
  <2>1. PICK c : c = call[s]
    OBVIOUS
  <2>2. PICK e : e = c.rec
    OBVIOUS
  <2>3. c.at = "append" /\ log' = Append(log, e)
    BY <1>1, <2>1, <2>2 DEF AppendRecord
  <2>4. AppendCall(c)
    BY <1>1, <2>1, <2>3, CurrentCall, CallAt
  <2>5. /\ \E t \in Content(storage[e.page]) : e.xid = t.xmin \/ e.xid = t.xmax
        /\ \A i \in DOMAIN log : log[i].xid < e.xid
    BY <2>2, <2>4 DEF AppendCall
  <2>6. \E t \in Decoded(storage[e.page]) : e.xid \in {t.xmin, t.xmax}
    BY <2>5 DEF Content
  <2>7. log'[Len(log')] = e
    <3>1. log \in Seq(LogRecords) /\ e \in LogRecords
      BY <1>1, <2>2, <2>4 DEF HeapInv, LogOk, AppendCall
    <3> QED
      BY <2>3, <3>1
  <2> QED
    BY <2>5, <2>6, <2>7
<1>2. HeapInv /\ [HeapNext]_heapVars => [A]_heapVars
  <2> SUFFICES ASSUME HeapInv, HeapNext, log' # log PROVE A
    BY DEF heapVars
  <2> HIDE DEF A
  <2>1. ASSUME NEW s \in Sessions
        PROVE  /\ ~ InsertOnPage(s) /\ ~ InsertPanics(s) /\ ~ ReadForWrite(s) /\ ~ WriteRow(s)
               /\ ~ UpdatePanics(s) /\ ~ NextPage(s) /\ ~ EndWrite(s)
               /\ \A op, r, k : ~ StartWrite(s, op, r, k)
    BY ZenonT(30) DEF StartWrite, InsertOnPage, InsertPanics, ReadForWrite, WriteRow, UpdatePanics, NextPage, EndWrite
  <2>2. ASSUME NEW s \in Sessions
        PROVE  /\ ~ ScanFetch(s) /\ ~ ScanEnd(s) /\ ~ ScanReturn(s) /\ \A r : ~ SlowScan(s, r)
               /\ \A r, snap : ~ StartScan(s, r, snap)
    BY DEF StartScan, ScanFetch, ScanEnd, SlowScan, ScanReturn
  <2>3. PICK s \in Sessions : AppendRecord(s)
    BY <2>1, <2>2 DEF HeapNext, PoolEvict, Vacuum
  <2> QED
    BY <1>1, <2>3, Zenon
<1>3. [][A]_heapVars => LoggedIsStored
  BY PTL DEF LoggedIsStored
<1> QED
  BY <1>2, <1>3, HeapInvariant, PTL DEF HeapSpec

(* What vacuum removes no later statement could have seen.                 *)
THEOREM VacuumHidesNothing ==
  ASSUME OneRelation, RowsFit
  PROVE  HeapSpec => VacuumInvisible
<1> DEFINE Seen(S) == {t \in S : IsVisible(t, DefaultSnapshot)}
           A == (\E r \in Relations, x \in 1..MaxXid : Vacuum(r, x)) =>
                  {t \in Stored : IsVisible(t, DefaultSnapshot)} = {t \in Stored' : IsVisible(t, DefaultSnapshot)}
<1>1. ASSUME HeapInv, NEW r \in Relations, NEW x \in 1..MaxXid, Vacuum(r, x)
      PROVE  {t \in Stored : IsVisible(t, DefaultSnapshot)} = {t \in Stored' : IsVisible(t, DefaultSnapshot)}
  <2>1. /\ \A z \in PageIds : Content(storage'[z]) \subseteq Content(storage[z])
        /\ \A z \in PageIds : \A t \in Content(storage[z]) :
              t \in Content(storage'[z]) \/ (t.xmax # 0 /\ t.xmax < x)
    BY <1>1, VacuumLeaves
  <2>2. Stored' = UNION {Content(storage'[z]) : z \in PageIds}
    BY DEF Stored, Content
  <2>3. Stored' \subseteq Stored
    BY <2>1, <2>2, StoredContent
  <2>4. ASSUME NEW t \in Stored, IsVisible(t, DefaultSnapshot) PROVE t \in Stored'
    <3>1. PICK z \in PageIds : t \in Content(storage[z])
      BY StoredContent
    <3>2. t.xmax \in Nat
      <4>1. IsImage(storage[z])
        BY <1>1, <3>1 DEF HeapInv, TablesOk, Content
      <4>2. PICK p : HeapPageOk(p) /\ Tuples(p) = Content(storage[z])
        BY <4>1, ImageRead
      <4>3. t \in RowVersions
        BY <3>1, <4>2, TupleTyped
      <4> QED
        BY <4>3 DEF RowVersions
    <3>3. ~ (t.xmax # 0 /\ t.xmax < x)
      <4> SUFFICES ASSUME t.xmax # 0, t.xmax < x PROVE FALSE
        OBVIOUS
      <4>1. t.xmax < MaxXid + 1
        BY <3>2, HeapConstants
      <4>2. DefaultSnapshot.xid = MaxXid + 1 /\ DefaultSnapshot.active_xids = {}
        BY DEF DefaultSnapshot
      <4> QED
        BY <2>4, <4>1, <4>2 DEF IsVisible
    <3> QED
      BY <2>1, <2>2, <3>1, <3>3
  <2> QED
    BY <2>3, <2>4
<1>2. HeapInv /\ [HeapNext]_heapVars => [A]_heapVars
  BY <1>1
<1>3. [][A]_heapVars => VacuumInvisible
  BY PTL DEF VacuumInvisible
<1> QED
  BY <1>2, <1>3, HeapInvariant, PTL DEF HeapSpec
==============================================================================
