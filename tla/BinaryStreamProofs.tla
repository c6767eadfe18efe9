------------------------- MODULE BinaryStreamProofs -------------------------
(***************************************************************************)
(* What the writer writes the reader finds, for any events, names, values, *)
(* sizes and nesting: the buffer holds the events that were sent, each     *)
(* with its members, each array with its entries and their fields, one     *)
(* behind the other without gaps; and the walks of the reader over it are  *)
(* walks over these.                                                       *)
(***************************************************************************)
EXTENDS BinaryStream, SequenceTheorems, WellFoundedInduction, TLAPS

-----------------------------------------------------------------------------
(* The layout of the buffer.                                                *)

\* Things that were written one behind the other, from an offset to another: where the
\* one after the i-th begins.
NextAt(s, i, to) == IF i < Len(s) THEN s[i + 1].at ELSE to

Chained(s, from, to) ==
    /\ from <= to
    /\ s = << >> => from = to
    /\ s # << >> => s[1].at = from
    /\ \A i \in 1..Len(s) : /\ s[i].at \in Nat /\ from <= s[i].at
                            /\ s[i].at < NextAt(s, i, to) /\ NextAt(s, i, to) <= to
    /\ \A i, j \in 1..Len(s) : i < j => NextAt(s, i, to) <= s[j].at

Has(m, o, type, id, value) ==
    o \in DOMAIN m /\ m[o].type = type /\ m[o].id = id /\ m[o].value = value

\* A field, which ends at an offset.
FieldAt(m, f, to) ==
    /\ Has(m, f.at, f.type, f.id, f.value)
    /\ m[f.at].size = to - f.at
    /\ f.type # "Data" => to - f.at < W16

FieldsAt(m, fs, from, to) ==
    Chained(fs, from, to) /\ \A i \in 1..Len(fs) : FieldAt(m, fs[i], NextAt(fs, i, to))

\* An entry, of which the header is not complete before it is ended.
EntryAt(m, e, to, open) ==
    /\ e.at \in DOMAIN m /\ m[e.at].type = "ArrayEntry" /\ Len(e.fields) <= MaxMembers
    /\ ~open => m[e.at].value = Len(e.fields) /\ m[e.at].size = to - e.at
    /\ FieldsAt(m, e.fields, e.at + 7, to)

\* Entries, of which the last may be open.
EntriesAt(m, es, from, to, open) ==
    /\ Chained(es, from, to)
    /\ open => es # << >>
    /\ \A i \in 1..Len(es) : EntryAt(m, es[i], NextAt(es, i, to), open /\ i = Len(es))

\* An array, with the empty entry at its end if it is ended.
ArrayAt(m, x, to, array, entry) ==
    /\ Has(m, x.at, "Array", x.id, 0) /\ x.value = 0
    /\ array => EntriesAt(m, x.entries, x.at + Len(x.id) + 6, to, entry)
    /\ ~array => /\ m[x.at].size = to - x.at
                 /\ to - 7 \in Nat
                 /\ EntriesAt(m, x.entries, x.at + Len(x.id) + 6, to - 7, FALSE)
                 /\ Has(m, to - 7, "ArrayEntry", "", 0) /\ m[to - 7].size = 7

MemberAt(m, x, to, array, entry) ==
    /\ x.type # "Array" => ~array /\ FieldAt(m, x, to)
    /\ x.type = "Array" => ArrayAt(m, x, to, array, entry)

MembersAt(m, xs, from, to, array, entry) ==
    /\ Chained(xs, from, to)
    /\ array => xs # << >>
    /\ \A i \in 1..Len(xs) :
           MemberAt(m, xs[i], NextAt(xs, i, to), array /\ i = Len(xs), entry)

RequestBytes == Len(RequestId) + 12

\* An event: its header, the request id and its members.
MessageAt(m, e, to, open, array, entry) ==
    /\ Has(m, e.at, "Event", "", e.event)
    /\ ~open => m[e.at].size = to - e.at
    /\ Has(m, e.at + 7, "U64", RequestId, e.request) /\ m[e.at + 7].size = RequestBytes
    /\ MembersAt(m, e.members, e.at + 7 + RequestBytes, to, array /\ open, entry)

StreamAt(m, s, to, open, array, entry) ==
    /\ Chained(s, Start, to)
    /\ open => s # << >>
    /\ \A k \in 1..Len(s) :
           MessageAt(m, s[k], NextAt(s, k, to), open /\ k = Len(s), array, entry)

-----------------------------------------------------------------------------
(* Chains.                                                                  *)

LEMMA ChainAppend ==
    ASSUME NEW S, NEW s \in Seq(S), NEW x \in S, NEW from \in Nat, NEW to \in Nat,
           NEW to2 \in Nat, Chained(s, from, to), x.at = to, to < to2
    PROVE  /\ Append(s, x) \in Seq(S) /\ Len(Append(s, x)) = Len(s) + 1
           /\ Append(s, x) # << >>
           /\ Append(s, x)[Len(s) + 1] = x
           /\ \A i \in 1..Len(s) : /\ Append(s, x)[i] = s[i]
                                   /\ NextAt(Append(s, x), i, to2) = NextAt(s, i, to)
           /\ NextAt(Append(s, x), Len(s) + 1, to2) = to2
           /\ Chained(Append(s, x), from, to2)
<1> DEFINE t == Append(s, x)
<1>1. /\ Len(s) \in Nat
      /\ t \in Seq(S) /\ Len(t) = Len(s) + 1 /\ t[Len(s) + 1] = x
      /\ \A i \in 1..Len(s) : t[i] = s[i]
      /\ Len(s) = 0 <=> s = << >>
      /\ t # << >>
  BY AppendProperties, LenProperties, EmptySeq
<1> HIDE DEF t
<1>2. /\ \A i \in 1..Len(s) : NextAt(t, i, to2) = NextAt(s, i, to)
      /\ NextAt(t, Len(s) + 1, to2) = to2
  BY <1>1 DEF NextAt
<1>3. t[1].at = from
  BY <1>1 DEF Chained
<1>4. \A i \in 1..Len(t) : /\ t[i].at \in Nat /\ from <= t[i].at
                           /\ t[i].at < NextAt(t, i, to2) /\ NextAt(t, i, to2) <= to2
  <2> SUFFICES ASSUME NEW i \in 1..Len(t)
               PROVE  /\ t[i].at \in Nat /\ from <= t[i].at
                      /\ t[i].at < NextAt(t, i, to2) /\ NextAt(t, i, to2) <= to2
    OBVIOUS
  <2>1. CASE i \in 1..Len(s)
    <3>1. /\ s[i].at \in Nat /\ from <= s[i].at
          /\ s[i].at < NextAt(s, i, to) /\ NextAt(s, i, to) <= to
      BY <2>1 DEF Chained
    <3>2. NextAt(s, i, to) \in Nat
      BY <1>1, <2>1, <3>1 DEF NextAt, Chained
    <3> QED  BY <1>1, <1>2, <2>1, <3>1, <3>2
  <2>2. CASE i = Len(s) + 1
    BY <1>1, <1>2, <2>2 DEF Chained
  <2> QED  BY <1>1, <2>1, <2>2
<1>5. \A i, j \in 1..Len(t) : i < j => NextAt(t, i, to2) <= t[j].at
  <2> SUFFICES ASSUME NEW i \in 1..Len(t), NEW j \in 1..Len(t), i < j
               PROVE  NextAt(t, i, to2) <= t[j].at
    OBVIOUS
  <2>1. i \in 1..Len(s) /\ (j \in 1..Len(s) \/ j = Len(s) + 1)
    BY <1>1
  <2> QED  BY <1>1, <1>2, <2>1 DEF Chained
<1> QED  BY <1>1, <1>2, <1>3, <1>4, <1>5 DEF Chained, t

WithLast(s, x) == [s EXCEPT ![Len(s)] = x]

LEMMA ChainGrow ==
    ASSUME NEW S, NEW s \in Seq(S), s # << >>, NEW x \in S, NEW from \in Nat, NEW to \in Nat,
           NEW to2 \in Nat, Chained(s, from, to), x.at = s[Len(s)].at, to <= to2
    PROVE  /\ WithLast(s, x) \in Seq(S) /\ Len(WithLast(s, x)) = Len(s) /\ WithLast(s, x) # << >>
           /\ Len(s) \in 1..Len(s)
           /\ WithLast(s, x)[Len(s)] = x
           /\ \A i \in 1..Len(s) : i < Len(s) =>
                  /\ WithLast(s, x)[i] = s[i]
                  /\ NextAt(WithLast(s, x), i, to2) = NextAt(s, i, to)
                  /\ from <= s[i].at /\ NextAt(s, i, to) <= s[Len(s)].at
           /\ NextAt(s, Len(s), to) = to
           /\ NextAt(WithLast(s, x), Len(s), to2) = to2
           /\ Chained(WithLast(s, x), from, to2)
<1> DEFINE t == WithLast(s, x)
           n == Len(s)
<1>1. /\ n \in Nat /\ n \in 1..n
      /\ t \in Seq(S) /\ Len(t) = n /\ t[n] = x
      /\ \A i \in 1..n : i # n => t[i] = s[i]
      /\ t # << >>
  BY ExceptSeq, LenProperties, EmptySeq DEF WithLast
<1> HIDE DEF t
<1>2. \A i \in 1..n : t[i].at = s[i].at
  BY <1>1
<1>3. /\ \A i \in 1..n : i < n => NextAt(t, i, to2) = NextAt(s, i, to)
      /\ NextAt(t, n, to2) = to2 /\ NextAt(s, n, to) = to
  BY <1>1, <1>2 DEF NextAt
<1>4. \A i \in 1..n : /\ t[i].at \in Nat /\ from <= t[i].at
                      /\ t[i].at < NextAt(t, i, to2) /\ NextAt(t, i, to2) <= to2
  <2> SUFFICES ASSUME NEW i \in 1..n
               PROVE  /\ t[i].at \in Nat /\ from <= t[i].at
                      /\ t[i].at < NextAt(t, i, to2) /\ NextAt(t, i, to2) <= to2
    OBVIOUS
  <2>1. /\ s[i].at \in Nat /\ from <= s[i].at
        /\ s[i].at < NextAt(s, i, to) /\ NextAt(s, i, to) <= to
    BY DEF Chained
  <2>2. NextAt(s, i, to) \in Nat
    BY <1>1 DEF NextAt, Chained
  <2> QED  BY <1>1, <1>2, <1>3, <2>1, <2>2
<1>5. \A i, j \in 1..n : i < j => NextAt(t, i, to2) <= t[j].at
  <2> SUFFICES ASSUME NEW i \in 1..n, NEW j \in 1..n, i < j
               PROVE  NextAt(t, i, to2) <= t[j].at
    OBVIOUS
  <2>1. NextAt(s, i, to) <= s[j].at /\ i < n
    BY <1>1 DEF Chained
  <2> QED  BY <1>2, <1>3, <2>1
<1>6. \A i \in 1..n : i < n => from <= s[i].at /\ NextAt(s, i, to) <= s[n].at
  BY <1>1 DEF Chained
<1>7. t[1].at = from
  BY <1>1, <1>2 DEF Chained
<1>8. from <= to2
  BY DEF Chained
<1> QED  BY <1>1, <1>3, <1>4, <1>5, <1>6, <1>7, <1>8 DEF Chained, t

\* Where the things of a chain are.
LEMMA ChainFacts ==
    ASSUME NEW S, NEW s \in Seq(S), NEW from \in Nat, NEW to \in Nat, Chained(s, from, to),
           NEW i \in 1..Len(s)
    PROVE  /\ s[i] \in S /\ s[i].at \in Nat /\ NextAt(s, i, to) \in Nat
           /\ from <= s[i].at /\ s[i].at < NextAt(s, i, to) /\ NextAt(s, i, to) <= to
<1>1. Len(s) \in Nat /\ s[i] \in S
  BY LenProperties, ElementOfSeq
<1> QED  BY <1>1 DEF Chained, NextAt

-----------------------------------------------------------------------------
(* The types of what was sent, and of the buffer.                           *)

FieldSet == [id : Ids, type : FieldTypes, value : Nat, at : Nat, entries : {<< >>}]
EntrySet == [at : Nat, fields : Seq(FieldSet)]
MemberSet ==
    [id : Ids, type : FieldTypes \union {"Array"}, value : Nat, at : Nat, entries : Seq(EntrySet)]
MessageSet == [event : Events, request : Nat, at : Nat, members : Seq(MemberSet)]

LEMMA IdLengths ==
    /\ \A id \in Ids \union {RequestId} : Len(id) \in Nat
    /\ RequestBytes \in Nat /\ RequestBytes > 0 /\ RequestBytes < W16
    /\ W16 \in Nat /\ W16 > 1 /\ W32 \in Nat /\ W32 > 1 /\ W16 <= W32 /\ W64 \in Nat /\ W64 > 1
    /\ Byte \in Nat /\ Byte > 1 /\ Byte <= W16 /\ W32 <= W64
<1>1. Byte \in Nat /\ Byte > 1
  BY StreamAssumption
<1>2. W16 \in Nat /\ W16 > 1 /\ Byte <= W16
  BY <1>1 DEF W16
<1>3. W32 \in Nat /\ W32 > 1 /\ W16 <= W32
  BY <1>2 DEF W32
<1>4. W64 \in Nat /\ W64 > 1 /\ W32 <= W64
  BY <1>3 DEF W64
<1>5. /\ \A id \in Ids \union {RequestId} : Len(id) \in Nat
      /\ Len(RequestId) + 4 + 8 < W16
  BY StreamAssumption
<1> QED  BY <1>1, <1>2, <1>3, <1>4, <1>5 DEF RequestBytes

-----------------------------------------------------------------------------
(* What is written elsewhere does not change what is there.                 *)

Keeps(m, m2, from, to) ==
    \A o \in Nat : from <= o /\ o < to /\ o \in DOMAIN m => o \in DOMAIN m2 /\ m2[o] = m[o]

LEMMA KeptAt ==
    ASSUME NEW m, NEW m2, NEW from, NEW to, Keeps(m, m2, from, to),
           NEW o \in Nat, from <= o, o < to, o \in DOMAIN m
    PROVE  o \in DOMAIN m2 /\ m2[o] = m[o]
  BY DEF Keeps

LEMMA FieldKept ==
    ASSUME NEW m, NEW m2, NEW f, f.at \in Nat, NEW from, NEW to, NEW upto \in Nat,
           from <= f.at, f.at < upto, Keeps(m, m2, from, upto), FieldAt(m, f, to)
    PROVE  FieldAt(m2, f, to)
<1>1. f.at \in DOMAIN m2 /\ m2[f.at] = m[f.at]
  BY DEF Keeps, FieldAt, Has
<1> QED  BY <1>1 DEF FieldAt, Has

LEMMA FieldsKept ==
    ASSUME NEW m, NEW m2, NEW fs \in Seq(FieldSet), NEW from \in Nat, NEW to \in Nat,
           Keeps(m, m2, from, to), FieldsAt(m, fs, from, to)
    PROVE  FieldsAt(m2, fs, from, to)
<1> SUFFICES ASSUME NEW i \in 1..Len(fs)
             PROVE  FieldAt(m2, fs[i], NextAt(fs, i, to))
  BY DEF FieldsAt
<1>1. fs[i].at \in Nat /\ from <= fs[i].at /\ fs[i].at < to
  BY ChainFacts DEF FieldsAt
<1>2. FieldAt(m, fs[i], NextAt(fs, i, to))
  BY DEF FieldsAt
<1> QED  BY <1>1, <1>2, FieldKept

\* Where the header of an entry is does not matter to its fields.
LEMMA EntryKept ==
    ASSUME NEW m, NEW m2, NEW e \in EntrySet, NEW to \in Nat, NEW open,
           Keeps(m, m2, e.at, to), EntryAt(m, e, to, open), e.at < to
    PROVE  EntryAt(m2, e, to, open)
<1>1. e.at \in Nat /\ e.at + 7 \in Nat /\ e.fields \in Seq(FieldSet)
  BY DEF EntrySet
<1>2. e.at \in DOMAIN m2 /\ m2[e.at] = m[e.at]
  BY <1>1 DEF Keeps, EntryAt
<1>3. Keeps(m, m2, e.at + 7, to)
  BY <1>1 DEF Keeps
<1>4. FieldsAt(m2, e.fields, e.at + 7, to)
  BY <1>1, <1>3, FieldsKept DEF EntryAt
<1> QED  BY <1>2, <1>4 DEF EntryAt

LEMMA EntriesKept ==
    ASSUME NEW m, NEW m2, NEW es \in Seq(EntrySet), NEW from \in Nat, NEW to \in Nat,
           NEW open, Keeps(m, m2, from, to), EntriesAt(m, es, from, to, open)
    PROVE  EntriesAt(m2, es, from, to, open)
<1> SUFFICES ASSUME NEW i \in 1..Len(es)
             PROVE  EntryAt(m2, es[i], NextAt(es, i, to), open /\ i = Len(es))
  BY DEF EntriesAt
<1>1. /\ es[i] \in EntrySet /\ es[i].at \in Nat /\ NextAt(es, i, to) \in Nat
      /\ from <= es[i].at /\ es[i].at < NextAt(es, i, to) /\ NextAt(es, i, to) <= to
  BY ChainFacts DEF EntriesAt
<1>2. Keeps(m, m2, es[i].at, NextAt(es, i, to))
  BY <1>1 DEF Keeps
<1>3. EntryAt(m, es[i], NextAt(es, i, to), open /\ i = Len(es))
  BY DEF EntriesAt
<1> QED  BY <1>1, <1>2, <1>3, EntryKept

LEMMA MemberKept ==
    ASSUME NEW m, NEW m2, NEW x \in MemberSet, NEW to \in Nat, NEW array, NEW entry,
           Keeps(m, m2, x.at, to), MemberAt(m, x, to, array, entry), x.at < to
    PROVE  MemberAt(m2, x, to, array, entry)
<1>1. /\ x.at \in Nat /\ x.entries \in Seq(EntrySet) /\ x.id \in Ids
      /\ x.at + Len(x.id) + 6 \in Nat /\ x.at < x.at + Len(x.id) + 6
  BY IdLengths DEF MemberSet
<1> DEFINE from == x.at + Len(x.id) + 6
<1>2. CASE x.type # "Array"
  BY <1>1, <1>2, FieldKept DEF MemberAt
<1>3. CASE x.type = "Array"
  <2>0. ArrayAt(m, x, to, array, entry)
    BY <1>3 DEF MemberAt
  <2>1. x.at \in DOMAIN m2 /\ m2[x.at] = m[x.at]
    <3>1. Has(m, x.at, "Array", x.id, 0)
      BY <2>0, Zenon DEF ArrayAt
    <3>2. x.at \in DOMAIN m /\ x.at <= x.at
      BY <1>1, <3>1 DEF Has
    <3> QED  BY <1>1, <3>2, KeptAt
  <2>2. CASE array
    <3>1. Keeps(m, m2, from, to)
      BY <1>1 DEF Keeps
    <3>2. EntriesAt(m2, x.entries, from, to, entry)
      BY <1>1, <2>0, <2>2, <3>1, EntriesKept DEF ArrayAt
    <3> QED  BY <1>3, <2>0, <2>1, <2>2, <3>2 DEF MemberAt, ArrayAt, Has
  <2>3. CASE ~array
    <3>1. to - 7 \in Nat /\ EntriesAt(m, x.entries, from, to - 7, FALSE)
      BY <2>0, <2>3 DEF ArrayAt
    <3>2. from <= to - 7
      BY <3>1 DEF EntriesAt, Chained
    <3>3. Keeps(m, m2, from, to - 7)
      BY <1>1, <3>1 DEF Keeps
    <3>4. EntriesAt(m2, x.entries, from, to - 7, FALSE)
      BY <1>1, <3>1, <3>3, EntriesKept
    <3>5. to - 7 \in DOMAIN m2 /\ m2[to - 7] = m[to - 7]
      <4>1. x.at <= to - 7 /\ to - 7 < to
        BY <1>1, <3>1, <3>2
      <4> QED  BY <2>0, <2>3, <3>1, <4>1 DEF Keeps, ArrayAt, Has
    <3> QED  BY <1>3, <2>0, <2>1, <2>3, <3>1, <3>4, <3>5 DEF MemberAt, ArrayAt, Has
  <2> QED  BY <2>2, <2>3
<1> QED  BY <1>2, <1>3

LEMMA MembersKept ==
    ASSUME NEW m, NEW m2, NEW xs \in Seq(MemberSet), NEW from \in Nat, NEW to \in Nat,
           NEW array, NEW entry, Keeps(m, m2, from, to), MembersAt(m, xs, from, to, array, entry)
    PROVE  MembersAt(m2, xs, from, to, array, entry)
<1> SUFFICES ASSUME NEW i \in 1..Len(xs)
             PROVE  MemberAt(m2, xs[i], NextAt(xs, i, to), array /\ i = Len(xs), entry)
  BY DEF MembersAt
<1>1. /\ xs[i] \in MemberSet /\ xs[i].at \in Nat /\ NextAt(xs, i, to) \in Nat
      /\ from <= xs[i].at /\ xs[i].at < NextAt(xs, i, to) /\ NextAt(xs, i, to) <= to
  BY ChainFacts DEF MembersAt
<1>2. Keeps(m, m2, xs[i].at, NextAt(xs, i, to))
  BY <1>1 DEF Keeps
<1>3. MemberAt(m, xs[i], NextAt(xs, i, to), array /\ i = Len(xs), entry)
  BY DEF MembersAt
<1> QED  BY <1>1, <1>2, <1>3, MemberKept

LEMMA MessageKept ==
    ASSUME NEW m, NEW m2, NEW e \in MessageSet, NEW to \in Nat, NEW open, NEW array, NEW entry,
           Keeps(m, m2, e.at, to), MessageAt(m, e, to, open, array, entry), e.at < to
    PROVE  MessageAt(m2, e, to, open, array, entry)
<1>1. e.at \in Nat /\ e.members \in Seq(MemberSet) /\ e.at + 7 + RequestBytes \in Nat
  BY IdLengths DEF MessageSet
<1>2. e.at + 7 + RequestBytes <= to
  BY DEF MessageAt, MembersAt, Chained
<1>3. e.at + 7 < to
  BY <1>1, <1>2, IdLengths
<1>4. /\ e.at \in DOMAIN m2 /\ m2[e.at] = m[e.at]
      /\ e.at + 7 \in DOMAIN m2 /\ m2[e.at + 7] = m[e.at + 7]
  <2>1. e.at \in DOMAIN m /\ e.at + 7 \in DOMAIN m
    BY DEF MessageAt, Has
  <2>2. e.at <= e.at /\ e.at <= e.at + 7 /\ e.at + 7 \in Nat
    BY <1>1
  <2>3. e.at \in DOMAIN m2 /\ m2[e.at] = m[e.at]
    BY <1>1, <2>1, <2>2, KeptAt
  <2>4. e.at + 7 \in DOMAIN m2 /\ m2[e.at + 7] = m[e.at + 7]
    BY <1>3, <2>1, <2>2, KeptAt
  <2> QED  BY <2>3, <2>4
<1>5. Keeps(m, m2, e.at + 7 + RequestBytes, to)
  BY <1>1, IdLengths DEF Keeps
<1>6. MembersAt(m2, e.members, e.at + 7 + RequestBytes, to, array /\ open, entry)
  BY <1>1, <1>5, MembersKept DEF MessageAt
<1> QED  BY <1>4, <1>6 DEF MessageAt, Has

-----------------------------------------------------------------------------
(* One more at the end, and the last one changed, on each level.            *)

LEMMA FieldsAppend ==
    ASSUME NEW m, NEW m2, NEW fs \in Seq(FieldSet), NEW from \in Nat, NEW to \in Nat,
           NEW to2 \in Nat, FieldsAt(m, fs, from, to), Keeps(m, m2, from, to),
           NEW f \in FieldSet, f.at = to, to < to2, FieldAt(m2, f, to2)
    PROVE  /\ FieldsAt(m2, Append(fs, f), from, to2)
           /\ Append(fs, f) \in Seq(FieldSet) /\ Len(Append(fs, f)) = Len(fs) + 1
<1>1. FieldsAt(m2, fs, from, to)
  BY FieldsKept
<1>2. /\ Append(fs, f) \in Seq(FieldSet) /\ Len(Append(fs, f)) = Len(fs) + 1
      /\ Append(fs, f)[Len(fs) + 1] = f
      /\ \A i \in 1..Len(fs) : /\ Append(fs, f)[i] = fs[i]
                               /\ NextAt(Append(fs, f), i, to2) = NextAt(fs, i, to)
      /\ NextAt(Append(fs, f), Len(fs) + 1, to2) = to2
      /\ Chained(Append(fs, f), from, to2)
  BY ChainAppend DEF FieldsAt
<1>3. ASSUME NEW i \in 1..(Len(fs) + 1)
      PROVE  FieldAt(m2, Append(fs, f)[i], NextAt(Append(fs, f), i, to2))
  <2>1. CASE i = Len(fs) + 1
    BY <1>2, <2>1
  <2>2. CASE i # Len(fs) + 1
    <3>1. i \in 1..Len(fs)
      BY <2>2, LenProperties
    <3> QED  BY <1>1, <1>2, <3>1 DEF FieldsAt
  <2> QED  BY <2>1, <2>2
<1> QED  BY <1>2, <1>3 DEF FieldsAt

LEMMA EntriesAppend ==
    ASSUME NEW m, NEW m2, NEW es \in Seq(EntrySet), NEW from \in Nat, NEW to \in Nat,
           NEW to2 \in Nat, EntriesAt(m, es, from, to, FALSE), Keeps(m, m2, from, to),
           NEW e \in EntrySet, e.at = to, to < to2, NEW open, EntryAt(m2, e, to2, open)
    PROVE  /\ EntriesAt(m2, Append(es, e), from, to2, open)
           /\ Append(es, e) \in Seq(EntrySet) /\ Len(Append(es, e)) = Len(es) + 1
           /\ Append(es, e)[Len(es) + 1] = e
<1>1. EntriesAt(m2, es, from, to, FALSE)
  BY EntriesKept
<1>2. /\ Append(es, e) \in Seq(EntrySet) /\ Len(Append(es, e)) = Len(es) + 1
      /\ Append(es, e) # << >>
      /\ Append(es, e)[Len(es) + 1] = e
      /\ \A i \in 1..Len(es) : /\ Append(es, e)[i] = es[i]
                               /\ NextAt(Append(es, e), i, to2) = NextAt(es, i, to)
      /\ NextAt(Append(es, e), Len(es) + 1, to2) = to2
      /\ Chained(Append(es, e), from, to2)
  BY ChainAppend DEF EntriesAt
<1>3. ASSUME NEW i \in 1..(Len(es) + 1)
      PROVE  EntryAt(m2, Append(es, e)[i], NextAt(Append(es, e), i, to2), open /\ i = Len(es) + 1)
  <2>1. CASE i = Len(es) + 1
    BY <1>2, <2>1 DEF EntryAt
  <2>2. CASE i # Len(es) + 1
    <3>1. i \in 1..Len(es)
      BY <2>2, LenProperties
    <3>2. EntryAt(m2, es[i], NextAt(es, i, to), FALSE)
      BY <1>1, <3>1 DEF EntriesAt
    <3> QED  BY <1>2, <2>2, <3>1, <3>2
  <2> QED  BY <2>1, <2>2
<1> QED  BY <1>2, <1>3 DEF EntriesAt

LEMMA EntriesGrow ==
    ASSUME NEW m, NEW m2, NEW es \in Seq(EntrySet), NEW from \in Nat, NEW to \in Nat,
           NEW to2 \in Nat, NEW was, EntriesAt(m, es, from, to, was), es # << >>,
           Keeps(m, m2, from, es[Len(es)].at), to <= to2,
           NEW e \in EntrySet, e.at = es[Len(es)].at, NEW open, EntryAt(m2, e, to2, open)
    PROVE  /\ EntriesAt(m2, WithLast(es, e), from, to2, open)
           /\ WithLast(es, e) \in Seq(EntrySet) /\ Len(WithLast(es, e)) = Len(es)
           /\ WithLast(es, e)[Len(es)] = e
<1> DEFINE n == Len(es)
           t == WithLast(es, e)
<1>1. /\ t \in Seq(EntrySet) /\ Len(t) = n /\ t # << >> /\ n \in 1..n
      /\ t[n] = e
      /\ \A i \in 1..n : i < n =>
              /\ t[i] = es[i] /\ NextAt(t, i, to2) = NextAt(es, i, to)
              /\ from <= es[i].at /\ NextAt(es, i, to) <= es[n].at
      /\ NextAt(t, n, to2) = to2
      /\ Chained(t, from, to2)
  BY ChainGrow DEF EntriesAt
<1> HIDE DEF t
<1>2. ASSUME NEW i \in 1..n
      PROVE  EntryAt(m2, t[i], NextAt(t, i, to2), open /\ i = n)
  <2>1. CASE i = n
    BY <1>1, <2>1 DEF EntryAt
  <2>2. CASE i # n
    <3>1. i < n
      BY <2>2, LenProperties
    <3>2. /\ es[i] \in EntrySet /\ es[i].at \in Nat /\ NextAt(es, i, to) \in Nat
          /\ es[i].at < NextAt(es, i, to) /\ es[n].at \in Nat
      BY <1>1, ChainFacts DEF EntriesAt
    <3>3. EntryAt(m, es[i], NextAt(es, i, to), was /\ i = n)
      BY DEF EntriesAt
    <3>4. EntryAt(m, es[i], NextAt(es, i, to), FALSE)
      BY <2>2, <3>3
    <3>5. Keeps(m, m2, es[i].at, NextAt(es, i, to))
      BY <1>1, <3>1, <3>2 DEF Keeps
    <3>6. EntryAt(m2, es[i], NextAt(es, i, to), FALSE)
      BY <3>2, <3>4, <3>5, EntryKept
    <3> QED  BY <1>1, <2>2, <3>1, <3>6
  <2> QED  BY <2>1, <2>2
<1> QED  BY <1>1, <1>2 DEF EntriesAt, t

LEMMA MembersAppend ==
    ASSUME NEW m, NEW m2, NEW xs \in Seq(MemberSet), NEW from \in Nat, NEW to \in Nat,
           NEW to2 \in Nat, NEW was, MembersAt(m, xs, from, to, FALSE, was),
           Keeps(m, m2, from, to), NEW x \in MemberSet, x.at = to, to < to2,
           NEW array, NEW entry, MemberAt(m2, x, to2, array, entry)
    PROVE  /\ MembersAt(m2, Append(xs, x), from, to2, array, entry)
           /\ Append(xs, x) \in Seq(MemberSet) /\ Len(Append(xs, x)) = Len(xs) + 1
           /\ Append(xs, x)[Len(xs) + 1] = x
<1>1. MembersAt(m2, xs, from, to, FALSE, was)
  BY MembersKept
<1>2. /\ Append(xs, x) \in Seq(MemberSet) /\ Len(Append(xs, x)) = Len(xs) + 1
      /\ Append(xs, x) # << >>
      /\ Append(xs, x)[Len(xs) + 1] = x
      /\ \A i \in 1..Len(xs) : /\ Append(xs, x)[i] = xs[i]
                               /\ NextAt(Append(xs, x), i, to2) = NextAt(xs, i, to)
      /\ NextAt(Append(xs, x), Len(xs) + 1, to2) = to2
      /\ Chained(Append(xs, x), from, to2)
  BY ChainAppend DEF MembersAt
<1>3. ASSUME NEW i \in 1..(Len(xs) + 1)
      PROVE  MemberAt(m2, Append(xs, x)[i], NextAt(Append(xs, x), i, to2),
                      array /\ i = Len(xs) + 1, entry)
  <2>1. CASE i = Len(xs) + 1
    BY <1>2, <2>1 DEF MemberAt, ArrayAt
  <2>2. CASE i # Len(xs) + 1
    <3>1. i \in 1..Len(xs)
      BY <2>2, LenProperties
    <3>2. MemberAt(m2, xs[i], NextAt(xs, i, to), FALSE, was)
      BY <1>1, <3>1 DEF MembersAt
    <3>3. MemberAt(m2, xs[i], NextAt(xs, i, to), FALSE, entry)
      BY <3>2 DEF MemberAt, ArrayAt
    <3> QED  BY <1>2, <2>2, <3>1, <3>3
  <2> QED  BY <2>1, <2>2
<1> QED  BY <1>2, <1>3 DEF MembersAt

LEMMA MembersGrow ==
    ASSUME NEW m, NEW m2, NEW xs \in Seq(MemberSet), NEW from \in Nat, NEW to \in Nat,
           NEW to2 \in Nat, NEW was, NEW wasEntry, MembersAt(m, xs, from, to, was, wasEntry),
           xs # << >>, Keeps(m, m2, from, xs[Len(xs)].at), to <= to2,
           NEW x \in MemberSet, x.at = xs[Len(xs)].at, NEW array, NEW entry,
           MemberAt(m2, x, to2, array, entry)
    PROVE  /\ MembersAt(m2, WithLast(xs, x), from, to2, array, entry)
           /\ WithLast(xs, x) \in Seq(MemberSet) /\ Len(WithLast(xs, x)) = Len(xs)
           /\ WithLast(xs, x)[Len(xs)] = x
<1> DEFINE n == Len(xs)
           t == WithLast(xs, x)
<1>1. /\ t \in Seq(MemberSet) /\ Len(t) = n /\ t # << >> /\ n \in 1..n
      /\ t[n] = x
      /\ \A i \in 1..n : i < n =>
              /\ t[i] = xs[i] /\ NextAt(t, i, to2) = NextAt(xs, i, to)
              /\ from <= xs[i].at /\ NextAt(xs, i, to) <= xs[n].at
      /\ NextAt(t, n, to2) = to2
      /\ Chained(t, from, to2)
  BY ChainGrow DEF MembersAt
<1> HIDE DEF t
<1>2. ASSUME NEW i \in 1..n
      PROVE  MemberAt(m2, t[i], NextAt(t, i, to2), array /\ i = n, entry)
  <2>1. CASE i = n
    BY <1>1, <2>1 DEF MemberAt, ArrayAt
  <2>2. CASE i # n
    <3>1. i < n
      BY <2>2, LenProperties
    <3>2. /\ xs[i] \in MemberSet /\ xs[i].at \in Nat /\ NextAt(xs, i, to) \in Nat
          /\ xs[i].at < NextAt(xs, i, to) /\ xs[n].at \in Nat
      BY <1>1, ChainFacts DEF MembersAt
    <3>3. MemberAt(m, xs[i], NextAt(xs, i, to), was /\ i = n, wasEntry)
      BY DEF MembersAt
    <3>4. MemberAt(m, xs[i], NextAt(xs, i, to), FALSE, entry)
      BY <2>2, <3>3 DEF MemberAt, ArrayAt
    <3>5. Keeps(m, m2, xs[i].at, NextAt(xs, i, to))
      BY <1>1, <3>1, <3>2 DEF Keeps
    <3>6. MemberAt(m2, xs[i], NextAt(xs, i, to), FALSE, entry)
      BY <3>2, <3>4, <3>5, MemberKept
    <3> QED  BY <1>1, <2>2, <3>1, <3>6
  <2> QED  BY <2>1, <2>2
<1> QED  BY <1>1, <1>2 DEF MembersAt, t

LEMMA StreamAppend ==
    ASSUME NEW m, NEW m2, NEW s \in Seq(MessageSet), NEW to \in Nat, NEW to2 \in Nat,
           NEW wasArray, NEW wasEntry, StreamAt(m, s, to, FALSE, wasArray, wasEntry),
           Keeps(m, m2, Start, to), NEW e \in MessageSet, e.at = to, to < to2,
           NEW open, MessageAt(m2, e, to2, open, FALSE, FALSE)
    PROVE  /\ StreamAt(m2, Append(s, e), to2, open, FALSE, FALSE)
           /\ Append(s, e) \in Seq(MessageSet) /\ Len(Append(s, e)) = Len(s) + 1
           /\ Append(s, e)[Len(s) + 1] = e
<1>0. Start \in Nat
  BY DEF Start
<1>1. /\ Append(s, e) \in Seq(MessageSet) /\ Len(Append(s, e)) = Len(s) + 1
      /\ Append(s, e) # << >>
      /\ Append(s, e)[Len(s) + 1] = e
      /\ \A i \in 1..Len(s) : /\ Append(s, e)[i] = s[i]
                              /\ NextAt(Append(s, e), i, to2) = NextAt(s, i, to)
      /\ NextAt(Append(s, e), Len(s) + 1, to2) = to2
      /\ Chained(Append(s, e), Start, to2)
  BY <1>0, ChainAppend DEF StreamAt
<1>2. ASSUME NEW i \in 1..(Len(s) + 1)
      PROVE  MessageAt(m2, Append(s, e)[i], NextAt(Append(s, e), i, to2),
                       open /\ i = Len(s) + 1, FALSE, FALSE)
  <2>1. CASE i = Len(s) + 1
    BY <1>1, <2>1 DEF MessageAt
  <2>2. CASE i # Len(s) + 1
    <3>1. i \in 1..Len(s)
      BY <2>2, LenProperties
    <3>2. MessageAt(m, s[i], NextAt(s, i, to), FALSE, wasArray, wasEntry)
      BY <3>1 DEF StreamAt
    <3>3. /\ s[i] \in MessageSet /\ s[i].at \in Nat /\ NextAt(s, i, to) \in Nat
          /\ Start <= s[i].at /\ s[i].at < NextAt(s, i, to) /\ NextAt(s, i, to) <= to
      BY <1>0, <3>1, ChainFacts DEF StreamAt
    <3>4. Keeps(m, m2, s[i].at, NextAt(s, i, to))
      BY <1>0, <3>3 DEF Keeps
    <3>5. MessageAt(m2, s[i], NextAt(s, i, to), FALSE, wasArray, wasEntry)
      BY <3>2, <3>3, <3>4, MessageKept
    <3>6. MessageAt(m2, s[i], NextAt(s, i, to), FALSE, FALSE, FALSE)
      BY <3>5 DEF MessageAt, MembersAt, MemberAt, ArrayAt
    <3> QED  BY <1>1, <2>2, <3>1, <3>6
  <2> QED  BY <2>1, <2>2
<1> QED  BY <1>1, <1>2 DEF StreamAt

LEMMA StreamGrow ==
    ASSUME NEW m, NEW m2, NEW s \in Seq(MessageSet), NEW to \in Nat, NEW to2 \in Nat,
           NEW was, NEW wasArray, NEW wasEntry, StreamAt(m, s, to, was, wasArray, wasEntry),
           s # << >>, Keeps(m, m2, Start, s[Len(s)].at), to <= to2,
           NEW e \in MessageSet, e.at = s[Len(s)].at,
           NEW open, NEW array, NEW entry, MessageAt(m2, e, to2, open, array, entry)
    PROVE  /\ StreamAt(m2, WithLast(s, e), to2, open, array, entry)
           /\ WithLast(s, e) \in Seq(MessageSet) /\ Len(WithLast(s, e)) = Len(s)
           /\ WithLast(s, e)[Len(s)] = e
<1> DEFINE n == Len(s)
           t == WithLast(s, e)
<1>0. Start \in Nat
  BY DEF Start
<1>1. /\ t \in Seq(MessageSet) /\ Len(t) = n /\ t # << >> /\ n \in 1..n
      /\ t[n] = e
      /\ \A i \in 1..n : i < n =>
              /\ t[i] = s[i] /\ NextAt(t, i, to2) = NextAt(s, i, to)
              /\ Start <= s[i].at /\ NextAt(s, i, to) <= s[n].at
      /\ NextAt(t, n, to2) = to2
      /\ Chained(t, Start, to2)
  BY <1>0, ChainGrow DEF StreamAt
<1> HIDE DEF t
<1>2. ASSUME NEW i \in 1..n
      PROVE  MessageAt(m2, t[i], NextAt(t, i, to2), open /\ i = n, array, entry)
  <2>1. CASE i = n
    BY <1>1, <2>1 DEF MessageAt, MembersAt
  <2>2. CASE i # n
    <3>1. i < n
      BY <2>2, LenProperties
    <3>2. /\ s[i] \in MessageSet /\ s[i].at \in Nat /\ NextAt(s, i, to) \in Nat
          /\ s[i].at < NextAt(s, i, to) /\ s[n].at \in Nat
      BY <1>0, <1>1, ChainFacts DEF StreamAt
    <3>3. MessageAt(m, s[i], NextAt(s, i, to), was /\ i = n, wasArray, wasEntry)
      BY DEF StreamAt
    <3>4. MessageAt(m, s[i], NextAt(s, i, to), FALSE, array, entry)
      <4>1. MessageAt(m, s[i], NextAt(s, i, to), FALSE, wasArray, wasEntry)
        BY <2>2, <3>3
      <4> QED  BY <4>1 DEF MessageAt, MembersAt, MemberAt, ArrayAt
    <3>5. Keeps(m, m2, s[i].at, NextAt(s, i, to))
      BY <1>0, <1>1, <3>1, <3>2 DEF Keeps
    <3>6. MessageAt(m2, s[i], NextAt(s, i, to), FALSE, array, entry)
      BY <3>2, <3>4, <3>5, MessageKept
    <3> QED  BY <1>1, <2>2, <3>1, <3>6
  <2> QED  BY <2>1, <2>2
<1> QED  BY <1>1, <1>2 DEF StreamAt, t

-----------------------------------------------------------------------------
(* What the operators of the writer do to a buffer.                         *)

WriterSet ==
    [data : Nat, request_id : Nat, eventOffset : Nat, arrayOffset : Nat, entryOffset : Nat,
     event : BOOLEAN, array : BOOLEAN, entry : BOOLEAN, count : Nat]

Buf(m, w) == [mem |-> m, writer |-> w]

\* The header at an offset with its size, for the data up to another, and with a count.
Sized(m, o, to) == IF o \in DOMAIN m THEN [m EXCEPT ![o].size = (to - o) % W32] ELSE m
Counted(m, o, n) == IF o \in DOMAIN m THEN [m EXCEPT ![o].value = n % W16] ELSE m

LEMMA ModRange ==
    ASSUME NEW x \in Int, NEW w \in Nat, w > 0
    PROVE  x % w \in Nat /\ x % w < w /\ (0 <= x /\ x < w => x % w = x)
  OBVIOUS

LEMMA PutIs ==
    ASSUME NEW m, NEW w \in WriterSet, NEW item
    PROVE  Put(Buf(m, w), item) = Buf(Store(m, w.data, item), [w EXCEPT !.data = @ + item.bytes])
  BY DEF Put, Buf

LEMMA PutFieldIs ==
    ASSUME NEW m, NEW w \in WriterSet, NEW item
    PROVE  PutField(Buf(m, w), item) =
               Buf(Store(m, w.data, item),
                   [w EXCEPT !.data = @ + item.bytes, !.count = IF w.entry THEN @ + 1 ELSE @])
<1> DEFINE s == Store(m, w.data, item)
           v == [w EXCEPT !.data = @ + item.bytes]
           p == Put(Buf(m, w), item)
<1>1. p = [mem |-> s, writer |-> v]
  BY PutIs DEF Buf
<1>2. PutField(Buf(m, w), item) = IF w.entry THEN [p EXCEPT !.writer.count = @ + 1] ELSE p
  BY DEF PutField, Buf
<1> HIDE DEF p, s
<1>3. [v EXCEPT !.count = @ + 1] = [w EXCEPT !.data = @ + item.bytes, !.count = @ + 1]
  BY DEF WriterSet
<1>4. CASE w.entry
  <2>1. PutField(Buf(m, w), item) = [mem |-> s, writer |-> [v EXCEPT !.count = @ + 1]]
    BY <1>1, <1>2, <1>4
  <2> QED  BY <1>3, <1>4, <2>1 DEF Buf, s
<1>5. CASE ~w.entry
  <2>1. v = [w EXCEPT !.data = @ + item.bytes, !.count = @]
    BY DEF WriterSet
  <2> QED  BY <1>1, <1>2, <1>5, <2>1 DEF Buf, s
<1> QED  BY <1>4, <1>5

LEMMA PatchIs ==
    ASSUME NEW m, NEW w, NEW o
    PROVE  Patch(Buf(m, w), o) = Buf(Sized(m, o, w.data), w)
  BY DEF Patch, Buf, Sized

\* A buffer of which the writer changes, and a writer of which a field changes.
LEMMA BufIs ==
    ASSUME NEW m, NEW w
    PROVE  /\ Buf(m, w).mem = m /\ Buf(m, w).writer = w
           /\ \A v : [Buf(m, w) EXCEPT !.writer = v] = Buf(m, v)
<1>1. ASSUME NEW v
      PROVE  [Buf(m, w) EXCEPT !.writer = v] = Buf(m, v)
  <2> DEFINE c == [Buf(m, w) EXCEPT !.writer = v]
  <2>1. DOMAIN c = {"mem", "writer"} /\ c.mem = m /\ c.writer = v
    BY DEF Buf
  <2>2. c = [x \in DOMAIN c |-> c[x]]
    OBVIOUS
  <2> HIDE DEF c
  <2>3. c = Buf(m, v)
    BY <2>1, <2>2 DEF Buf
  <2> QED  BY <2>3 DEF c
<1> QED  BY <1>1, Zenon DEF Buf

LEMMA Updated ==
    ASSUME NEW w \in WriterSet
    PROVE  /\ \A x \in Nat : /\ [w EXCEPT !.data = x] \in WriterSet
                             /\ [w EXCEPT !.request_id = x] \in WriterSet
                             /\ [w EXCEPT !.eventOffset = x] \in WriterSet
                             /\ [w EXCEPT !.arrayOffset = x] \in WriterSet
                             /\ [w EXCEPT !.entryOffset = x] \in WriterSet
                             /\ [w EXCEPT !.count = x] \in WriterSet
           /\ \A x \in BOOLEAN : /\ [w EXCEPT !.event = x] \in WriterSet
                                 /\ [w EXCEPT !.array = x] \in WriterSet
                                 /\ [w EXCEPT !.entry = x] \in WriterSet
           /\ w.data \in Nat /\ w.request_id \in Nat /\ w.eventOffset \in Nat
           /\ w.arrayOffset \in Nat /\ w.entryOffset \in Nat /\ w.count \in Nat
           /\ w.event \in BOOLEAN /\ w.array \in BOOLEAN /\ w.entry \in BOOLEAN
  BY DEF WriterSet

EventHeader(e) == Header("Event", "", e, 7)
RequestField(r) == Field(RequestId, "U64", r, 8)
EntryHeader == Header("ArrayEntry", "", 0, 7)
ArrayHeader(id) == Header("Array", id, 0, Len(id) + 6)

LEMMA EventBeginIs ==
    ASSUME NEW m, NEW w \in WriterSet, NEW e
    PROVE  /\ w.event => EventBegin(Buf(m, w), e) =
                  Buf(m, [w EXCEPT !.request_id = @ + 1, !.eventOffset = w.data])
           /\ ~w.event /\ ~w.entry => EventBegin(Buf(m, w), e) =
                  Buf(Store(Store(m, w.data, EventHeader(e)), w.data + 7, RequestField(w.request_id)),
                      [w EXCEPT !.data = @ + 7 + RequestBytes, !.request_id = @ + 1,
                                !.eventOffset = w.data, !.event = TRUE])
<1> DEFINE b == Buf(m, w)
           r == [w EXCEPT !.request_id = @ + 1]
           v == [r EXCEPT !.eventOffset = w.data]
           u == [v EXCEPT !.event = TRUE]
           h == EventHeader(e)
           f == RequestField(w.request_id)
           s == Store(m, w.data, h)
           u2 == [u EXCEPT !.data = @ + 7]
<1>1. v = [w EXCEPT !.request_id = @ + 1, !.eventOffset = w.data]
  OBVIOUS
<1>2. v.event = w.event /\ u.data = w.data /\ u.entry = w.entry
  BY DEF WriterSet
<1>3. r \in WriterSet
  <2>1. w.request_id + 1 \in Nat
    BY Updated
  <2> QED  BY <2>1, Updated
<1> HIDE DEF r
<1>4. v \in WriterSet
  BY <1>3, Updated
<1> HIDE DEF v
<1>5. u \in WriterSet
  BY <1>4, Updated
<1>6. EventBegin(b, e) = IF v.event THEN [b EXCEPT !.writer = v]
                         ELSE PutField(Put([b EXCEPT !.writer = u], h), f)
  <2>1. b.writer = w
    BY BufIs
  <2> HIDE DEF b
  <2> QED  BY <1>1, <2>1 DEF EventBegin, EventHeader, RequestField, v, r
<1>7. EventBegin(b, e) = IF v.event THEN Buf(m, v) ELSE PutField(Put(Buf(m, u), h), f)
  <2> HIDE DEF u, h, f
  <2>1. [b EXCEPT !.writer = v] = Buf(m, v) /\ [b EXCEPT !.writer = u] = Buf(m, u)
    BY BufIs, Zenon
  <2> QED  BY <1>6, <2>1, Zenon
<1> HIDE DEF b
<1>8. h.bytes = 7 /\ f.bytes = RequestBytes
  <2>1. f.bytes = Len(RequestId) + 4 + 8
    BY DEF RequestField, Field
  <2> QED  BY <2>1, IdLengths DEF EventHeader, Header, RequestBytes
<1> HIDE DEF h, f
<1>9. CASE ~w.event /\ ~w.entry
  <2>1. u2 \in WriterSet /\ u2.data = w.data + 7 /\ u2.entry = w.entry
    <3> HIDE DEF u
    <3>1. w.data + 7 \in Nat
      BY Updated
    <3> QED  BY <1>2, <1>5, <3>1, Updated DEF WriterSet
  <2>2. Put(Buf(m, u), h) = Buf(s, u2)
    <3> HIDE DEF u
    <3>1. Put(Buf(m, u), h) = Buf(Store(m, u.data, h), [u EXCEPT !.data = @ + h.bytes])
      BY <1>5, PutIs
    <3> QED  BY <1>2, <1>8, <3>1
  <2>3. [u2 EXCEPT !.data = @ + RequestBytes, !.count = @] =
            [w EXCEPT !.data = @ + 7 + RequestBytes, !.request_id = @ + 1,
                      !.eventOffset = w.data, !.event = TRUE]
    BY IdLengths DEF WriterSet, v, r
  <2> HIDE DEF s, u2
  <2>4. PutField(Buf(s, u2), f) =
            Buf(Store(s, u2.data, f),
                [u2 EXCEPT !.data = @ + f.bytes, !.count = IF u2.entry THEN @ + 1 ELSE @])
    BY <2>1, PutFieldIs
  <2>5. PutField(Buf(s, u2), f) =
            Buf(Store(s, w.data + 7, f), [u2 EXCEPT !.data = @ + RequestBytes, !.count = @])
    BY <1>8, <1>9, <2>1, <2>4
  <2>6. EventBegin(b, e) = PutField(Buf(s, u2), f)
    BY <1>2, <1>7, <1>9, <2>2
  <2> QED  BY <1>9, <2>3, <2>5, <2>6 DEF b, s, h, f
<1>10. w.event => EventBegin(b, e) = Buf(m, v)
  BY <1>2, <1>7
<1> QED  BY <1>1, <1>9, <1>10 DEF b

LEMMA EventEndIs ==
    ASSUME NEW m, NEW w \in WriterSet
    PROVE  EventEnd(Buf(m, w)) =
               IF w.event THEN Buf(Sized(m, w.eventOffset, w.data), [w EXCEPT !.event = FALSE])
               ELSE Buf(m, w)
<1> DEFINE b == Buf(m, w)
           z == Sized(m, w.eventOffset, w.data)
           c == Buf(z, w)
<1>1. EventEnd(b) = IF ~w.event THEN b ELSE [c EXCEPT !.writer.event = FALSE]
  <2>1. b.writer = w /\ Patch(b, w.eventOffset) = c
    <3>1. b.writer = w
      BY BufIs
    <3>2. Patch(b, w.eventOffset) = c
      BY PatchIs, Zenon
    <3> QED  BY <3>1, <3>2
  <2> HIDE DEF b, c
  <2> QED  BY <2>1 DEF EventEnd
<1>2. [c EXCEPT !.writer.event = FALSE] = [c EXCEPT !.writer = [c.writer EXCEPT !.event = FALSE]]
  <2> HIDE DEF c
  <2> QED  OBVIOUS
<1> HIDE DEF z
<1>3. [c EXCEPT !.writer.event = FALSE] = Buf(z, [w EXCEPT !.event = FALSE])
  <2> DEFINE v == [w EXCEPT !.event = FALSE]
  <2>1. c.writer = w /\ [c EXCEPT !.writer = v] = Buf(z, v)
    <3> HIDE DEF v
    <3> QED  BY BufIs
  <2> HIDE DEF c
  <2>2. [c.writer EXCEPT !.event = FALSE] = v
    BY <2>1
  <2> HIDE DEF v
  <2>3. [c EXCEPT !.writer.event = FALSE] = Buf(z, v)
    BY <1>2, <2>1, <2>2, Zenon
  <2> QED  BY <2>3 DEF v
<1> QED  BY <1>1, <1>3 DEF z

LEMMA EntryBeginIs ==
    ASSUME NEW m, NEW w \in WriterSet
    PROVE  EntryBegin(Buf(m, w)) =
               IF w.entry THEN Buf(m, [w EXCEPT !.entryOffset = w.data])
               ELSE Buf(Store(m, w.data, EntryHeader),
                        [w EXCEPT !.data = @ + 7, !.entryOffset = w.data,
                                  !.entry = TRUE, !.count = 0])
<1> DEFINE b == Buf(m, w)
           v == [w EXCEPT !.entryOffset = w.data]
           t == [v EXCEPT !.entry = TRUE]
           u == [t EXCEPT !.count = 0]
<1>1. v.entry = w.entry /\ u.data = w.data
  BY DEF WriterSet
<1>2. u = [v EXCEPT !.entry = TRUE, !.count = 0]
  OBVIOUS
<1>3. [u EXCEPT !.data = @ + 7] =
          [w EXCEPT !.data = @ + 7, !.entryOffset = w.data, !.entry = TRUE, !.count = 0]
  BY DEF WriterSet
<1>4. v \in WriterSet
  BY Updated
<1>5. EntryBegin(b) = IF v.entry THEN [b EXCEPT !.writer = v]
                      ELSE Put([b EXCEPT !.writer = [v EXCEPT !.entry = TRUE, !.count = 0]],
                               EntryHeader)
  <2>1. b.writer = w
    BY BufIs
  <2> HIDE DEF b
  <2> QED  BY <2>1 DEF EntryBegin, EntryHeader
<1> HIDE DEF v
<1>6. t \in WriterSet
  BY <1>4, Updated
<1> HIDE DEF t
<1>7. u \in WriterSet
  BY <1>6, Updated
<1> HIDE DEF u
<1>8. EntryBegin(b) = IF v.entry THEN Buf(m, v) ELSE Put(Buf(m, u), EntryHeader)
  <2>1. [b EXCEPT !.writer = v] = Buf(m, v) /\ [b EXCEPT !.writer = u] = Buf(m, u)
    BY BufIs, Zenon
  <2> QED  BY <1>2, <1>5, <2>1, Zenon
<1>9. Put(Buf(m, u), EntryHeader) =
          Buf(Store(m, u.data, EntryHeader), [u EXCEPT !.data = @ + EntryHeader.bytes])
  BY <1>7, PutIs
<1>10. EntryHeader.bytes = 7
  BY DEF EntryHeader, Header
<1> QED  BY <1>1, <1>3, <1>8, <1>9, <1>10 DEF v

LEMMA EntryEndIs ==
    ASSUME NEW m, NEW w \in WriterSet
    PROVE  EntryEnd(Buf(m, w)) =
               IF w.entry THEN Buf(Counted(Sized(m, w.entryOffset, w.data), w.entryOffset, w.count),
                                   [w EXCEPT !.entry = FALSE])
               ELSE Buf(m, w)
<1> DEFINE b == Buf(m, w)
           o == w.entryOffset
           z == Sized(m, o, w.data)
           y == Counted(z, o, w.count)
           c == Buf(z, w)
           v == [w EXCEPT !.entry = FALSE]
<1>1. CASE w.entry
  <2>1. b.writer = w /\ Patch(b, o) = c
    <3>1. b.writer = w
      BY BufIs
    <3>2. Patch(b, o) = c
      BY PatchIs, Zenon
    <3> QED  BY <3>1, <3>2
  <2>2. c.mem = z /\ c.writer = w /\ [c EXCEPT !.writer = v, !.mem = y] = Buf(y, v)
    <3> HIDE DEF z, y, v
    <3>1. c.mem = z /\ c.writer = w
      BY BufIs
    <3>2. [c EXCEPT !.writer = v, !.mem = y] = Buf(y, v)
      <4> DEFINE d == [c EXCEPT !.writer = v, !.mem = y]
      <4>1. DOMAIN d = {"mem", "writer"} /\ d.mem = y /\ d.writer = v
        BY DEF Buf
      <4>2. d = [x \in DOMAIN d |-> d[x]]
        OBVIOUS
      <4> HIDE DEF d
      <4>3. d = Buf(y, v)
        BY <4>1, <4>2 DEF Buf
      <4> QED  BY <4>3 DEF d
    <3> QED  BY <3>1, <3>2
  <2> HIDE DEF b, c, z
  <2>3. EntryEnd(b) = [c EXCEPT !.writer.entry = FALSE,
                                !.mem = IF o \in DOMAIN c.mem
                                        THEN [c.mem EXCEPT ![o].value = w.count % W16] ELSE c.mem]
    BY <1>1, <2>1 DEF EntryEnd
  <2>4. EntryEnd(b) = [c EXCEPT !.writer.entry = FALSE, !.mem = y]
    BY <2>2, <2>3 DEF Counted
  <2> HIDE DEF y, o
  <2>5. EntryEnd(b) = [c EXCEPT !.writer = [c.writer EXCEPT !.entry = FALSE], !.mem = y]
    BY <2>4
  <2>6. [c.writer EXCEPT !.entry = FALSE] = v
    BY <2>2
  <2> HIDE DEF v
  <2>7. EntryEnd(b) = Buf(y, v)
    BY <2>2, <2>5, <2>6, Zenon
  <2> QED  BY <1>1, <2>7 DEF b, v, y, z, o
<1>2. CASE ~w.entry
  <2>1. b.writer = w
    BY BufIs
  <2> HIDE DEF b
  <2>2. EntryEnd(b) = b
    BY <1>2, <2>1 DEF EntryEnd
  <2> QED  BY <1>2, <2>2 DEF b
<1> QED  BY <1>1, <1>2

LEMMA ArrayBeginIs ==
    ASSUME NEW m, NEW w \in WriterSet, NEW id \in Ids
    PROVE  ArrayBegin(Buf(m, w), id) =
               IF w.array THEN Buf(m, [w EXCEPT !.arrayOffset = w.data])
               ELSE Buf(Store(m, w.data, ArrayHeader(id)),
                        [w EXCEPT !.data = @ + (Len(id) + 6), !.arrayOffset = w.data, !.array = TRUE])
<1> DEFINE b == Buf(m, w)
           v == [w EXCEPT !.arrayOffset = w.data]
           u == [v EXCEPT !.array = TRUE]
           h == ArrayHeader(id)
<1>1. v.array = w.array /\ u.data = w.data
  BY DEF WriterSet
<1>2. [u EXCEPT !.data = @ + (Len(id) + 6)] =
          [w EXCEPT !.data = @ + (Len(id) + 6), !.arrayOffset = w.data, !.array = TRUE]
  BY DEF WriterSet
<1>3. v \in WriterSet
  BY Updated
<1>4. ArrayBegin(b, id) = IF v.array THEN [b EXCEPT !.writer = v] ELSE Put([b EXCEPT !.writer = u], h)
  <2>1. b.writer = w
    BY BufIs
  <2> HIDE DEF b
  <2> QED  BY <2>1 DEF ArrayBegin, ArrayHeader
<1> HIDE DEF v
<1>5. u \in WriterSet
  BY <1>3, Updated
<1> HIDE DEF u
<1>6. h.bytes = Len(id) + 6
  BY DEF ArrayHeader, Header
<1> HIDE DEF h
<1>7. ArrayBegin(b, id) = IF v.array THEN Buf(m, v) ELSE Put(Buf(m, u), h)
  <2>1. [b EXCEPT !.writer = v] = Buf(m, v) /\ [b EXCEPT !.writer = u] = Buf(m, u)
    BY BufIs, Zenon
  <2> QED  BY <1>4, <2>1, Zenon
<1>8. Put(Buf(m, u), h) = Buf(Store(m, u.data, h), [u EXCEPT !.data = @ + h.bytes])
  BY <1>5, PutIs
<1> QED  BY <1>1, <1>2, <1>6, <1>7, <1>8 DEF v, h

\* The empty entry at the end of an array.
Closing(m, o) == Counted(Sized(Store(m, o, EntryHeader), o, o + 7), o, 0)

LEMMA ArrayEndIs ==
    ASSUME NEW m, NEW w \in WriterSet
    PROVE  /\ ~w.array => ArrayEnd(Buf(m, w)) = Buf(m, w)
           /\ w.array /\ ~w.entry => ArrayEnd(Buf(m, w)) =
                  Buf(Sized(Closing(m, w.data), w.arrayOffset, w.data + 7),
                      [w EXCEPT !.data = @ + 7, !.entryOffset = w.data, !.count = 0,
                                !.array = FALSE])
           /\ w.array /\ w.entry => ArrayEnd(Buf(m, w)) =
                  Buf(Sized(Counted(Sized(m, w.data, w.data), w.data, w.count),
                            w.arrayOffset, w.data),
                      [w EXCEPT !.entryOffset = w.data, !.entry = FALSE, !.array = FALSE])
<1> DEFINE b == Buf(m, w)
<1>1. ArrayEnd(b) =
          IF ~w.array THEN b
          ELSE [Patch(EntryEnd(EntryBegin(b)), w.arrayOffset) EXCEPT !.writer.array = FALSE]
  <2>1. b.writer = w
    BY BufIs
  <2> HIDE DEF b
  <2> QED  BY <2>1 DEF ArrayEnd
<1>2. ASSUME NEW s, NEW v \in WriterSet, EntryBegin(b) = Buf(s, v), v.entry, w.array,
             v.arrayOffset = w.arrayOffset
      PROVE  ArrayEnd(b) =
                 Buf(Sized(Counted(Sized(s, v.entryOffset, v.data), v.entryOffset, v.count),
                           w.arrayOffset, v.data),
                     [v EXCEPT !.entry = FALSE, !.array = FALSE])
  <2> DEFINE z == Counted(Sized(s, v.entryOffset, v.data), v.entryOffset, v.count)
             u == [v EXCEPT !.entry = FALSE]
             y == Sized(z, w.arrayOffset, u.data)
             c == Buf(y, u)
             t == [u EXCEPT !.array = FALSE]
  <2>1. u.data = v.data /\ t = [v EXCEPT !.entry = FALSE, !.array = FALSE]
    BY DEF WriterSet
  <2>2. EntryEnd(Buf(s, v)) = Buf(z, u)
    BY <1>2, EntryEndIs
  <2> HIDE DEF z, u
  <2>3. Patch(Buf(z, u), w.arrayOffset) = c
    BY PatchIs, Zenon
  <2> HIDE DEF y
  <2>4. c.writer = u /\ [c EXCEPT !.writer = t] = Buf(y, t)
    <3> HIDE DEF t
    <3> QED  BY BufIs
  <2> HIDE DEF b, c
  <2>5. ArrayEnd(b) = [c EXCEPT !.writer.array = FALSE]
    BY <1>1, <1>2, <2>2, <2>3
  <2>6. [c EXCEPT !.writer.array = FALSE] = [c EXCEPT !.writer = [c.writer EXCEPT !.array = FALSE]]
    OBVIOUS
  <2>7. [c.writer EXCEPT !.array = FALSE] = t
    BY <2>4
  <2> HIDE DEF t
  <2>8. ArrayEnd(b) = Buf(y, t)
    BY <2>4, <2>5, <2>6, <2>7, Zenon
  <2> QED  BY <2>1, <2>8, Zenon DEF y, z
<1>3. CASE w.array /\ ~w.entry
  <2> DEFINE s == Store(m, w.data, EntryHeader)
             v == [w EXCEPT !.data = @ + 7, !.entryOffset = w.data, !.entry = TRUE, !.count = 0]
  <2>1. EntryBegin(b) = Buf(s, v)
    BY <1>3, EntryBeginIs
  <2>2. v \in WriterSet
    <3> DEFINE v1 == [w EXCEPT !.data = @ + 7]
               v2 == [v1 EXCEPT !.entryOffset = w.data]
               v3 == [v2 EXCEPT !.entry = TRUE]
    <3>0. v = [v3 EXCEPT !.count = 0]
      OBVIOUS
    <3>1. w.data + 7 \in Nat /\ w.data \in Nat
      BY Updated
    <3>2. v1 \in WriterSet
      BY <3>1, Updated
    <3> HIDE DEF v, v1
    <3>3. v2 \in WriterSet
      BY <3>1, <3>2, Updated
    <3> HIDE DEF v2
    <3>4. v3 \in WriterSet
      BY <3>3, Updated
    <3> HIDE DEF v3
    <3> QED  BY <3>0, <3>4, Updated
  <2>3. /\ v.entry /\ v.entryOffset = w.data /\ v.data = w.data + 7 /\ v.count = 0
        /\ v.arrayOffset = w.arrayOffset
    BY DEF WriterSet
  <2>4. [v EXCEPT !.entry = FALSE, !.array = FALSE] =
            [w EXCEPT !.data = @ + 7, !.entryOffset = w.data, !.count = 0, !.array = FALSE]
    BY <1>3 DEF WriterSet
  <2> HIDE DEF b, s, v
  <2>5. ArrayEnd(b) =
            Buf(Sized(Counted(Sized(s, v.entryOffset, v.data), v.entryOffset, v.count),
                      w.arrayOffset, v.data),
                [v EXCEPT !.entry = FALSE, !.array = FALSE])
    BY <1>2, <1>3, <2>1, <2>2, <2>3
  <2> QED  BY <1>3, <2>3, <2>4, <2>5 DEF b, s, Closing
<1>4. CASE w.array /\ w.entry
  <2> DEFINE v == [w EXCEPT !.entryOffset = w.data]
  <2>1. EntryBegin(b) = Buf(m, v)
    BY <1>4, EntryBeginIs
  <2>2. v \in WriterSet
    BY Updated
  <2>3. /\ v.entry /\ v.entryOffset = w.data /\ v.data = w.data /\ v.count = w.count
        /\ v.arrayOffset = w.arrayOffset
    BY <1>4 DEF WriterSet
  <2>4. [v EXCEPT !.entry = FALSE, !.array = FALSE] =
            [w EXCEPT !.entryOffset = w.data, !.entry = FALSE, !.array = FALSE]
    BY DEF WriterSet
  <2> HIDE DEF b, v
  <2>5. ArrayEnd(b) =
            Buf(Sized(Counted(Sized(m, v.entryOffset, v.data), v.entryOffset, v.count),
                      w.arrayOffset, v.data),
                [v EXCEPT !.entry = FALSE, !.array = FALSE])
    BY <1>2, <1>4, <2>1, <2>2, <2>3
  <2> QED  BY <1>4, <2>3, <2>4, <2>5 DEF b
<1> QED  BY <1>1, <1>3, <1>4 DEF b

-----------------------------------------------------------------------------
(* The items of the buffer.                                                 *)

MemOK(m) == DOMAIN m \subseteq Offset /\ \A o \in DOMAIN m : m[o] \in Item

LEMMA StoreIs ==
    ASSUME NEW m, MemOK(m), NEW o \in Offset, NEW item \in Item
    PROVE  /\ o \in DOMAIN Store(m, o, item) /\ Store(m, o, item)[o] = item
           /\ \A from : Keeps(m, Store(m, o, item), from, o)
           /\ MemOK(Store(m, o, item))
           /\ \A p \in DOMAIN Store(m, o, item) :
                  p = o \/ (p \in DOMAIN m /\ Store(m, o, item)[p] = m[p])
<1> DEFINE s == Store(m, o, item)
           D == (DOMAIN m \ (o..(o + item.bytes - 1))) \union {o}
<1>1. DOMAIN s = D /\ \A p \in D : s[p] = IF p = o THEN item ELSE m[p]
  BY DEF Store
<1>2. o \in Nat /\ DOMAIN m \subseteq Nat
  BY StreamAssumption DEF MemOK, Offset
<1> HIDE DEF s
<1>3. ASSUME NEW from
      PROVE  Keeps(m, s, from, o)
  BY <1>1, <1>2 DEF Keeps
<1>4. \A p \in DOMAIN s : p = o \/ (p \in DOMAIN m /\ s[p] = m[p])
  BY <1>1
<1>5. o \in DOMAIN s /\ s[o] = item
  BY <1>1
<1>6. MemOK(s)
  BY <1>4, <1>5 DEF MemOK
<1> QED  BY <1>3, <1>4, <1>5, <1>6 DEF s

\* A header of which the size, or the count, is written.
LEMMA SizedIs ==
    ASSUME NEW m, MemOK(m), NEW o \in DOMAIN m, NEW to \in Int
    PROVE  /\ DOMAIN Sized(m, o, to) = DOMAIN m
           /\ Sized(m, o, to)[o].type = m[o].type /\ Sized(m, o, to)[o].id = m[o].id
           /\ Sized(m, o, to)[o].value = m[o].value
           /\ Sized(m, o, to)[o].size = (to - o) % W32
           /\ \A p \in DOMAIN m : p # o => Sized(m, o, to)[p] = m[p]
           /\ MemOK(Sized(m, o, to))
<1> DEFINE z == Sized(m, o, to)
           n == (to - o) % W32
<1>1. o \in Nat
  BY StreamAssumption DEF MemOK, Offset
<1>2. n \in Nat
  BY <1>1, IdLengths, ModRange
<1> HIDE DEF n
<1>3. m[o] \in Item
  BY DEF MemOK
<1>4. /\ [m[o] EXCEPT !.size = n] \in Item
      /\ [m[o] EXCEPT !.size = n].type = m[o].type /\ [m[o] EXCEPT !.size = n].id = m[o].id
      /\ [m[o] EXCEPT !.size = n].value = m[o].value /\ [m[o] EXCEPT !.size = n].size = n
  BY <1>2, <1>3 DEF Item
<1>5. z = [m EXCEPT ![o].size = n]
  BY DEF Sized, n
<1>6. z = [m EXCEPT ![o] = [m[o] EXCEPT !.size = n]]
  BY <1>5
<1> DEFINE h == [m[o] EXCEPT !.size = n]
<1> HIDE DEF h, z
<1>7. /\ DOMAIN z = DOMAIN m /\ z[o] = h
      /\ \A p \in DOMAIN m : p # o => z[p] = m[p]
  BY <1>6 DEF h
<1>8. MemOK(z)
  BY <1>4, <1>7 DEF MemOK, h
<1> QED  BY <1>4, <1>7, <1>8 DEF z, h, n

LEMMA CountedIs ==
    ASSUME NEW m, MemOK(m), NEW o \in DOMAIN m, NEW n \in Nat
    PROVE  /\ DOMAIN Counted(m, o, n) = DOMAIN m
           /\ Counted(m, o, n)[o].type = m[o].type /\ Counted(m, o, n)[o].id = m[o].id
           /\ Counted(m, o, n)[o].size = m[o].size
           /\ Counted(m, o, n)[o].value = n % W16
           /\ \A p \in DOMAIN m : p # o => Counted(m, o, n)[p] = m[p]
           /\ MemOK(Counted(m, o, n))
<1> DEFINE z == Counted(m, o, n)
           k == n % W16
<1>1. k \in Nat
  BY IdLengths, ModRange
<1> HIDE DEF k
<1>2. m[o] \in Item
  BY DEF MemOK
<1>3. /\ [m[o] EXCEPT !.value = k] \in Item
      /\ [m[o] EXCEPT !.value = k].type = m[o].type /\ [m[o] EXCEPT !.value = k].id = m[o].id
      /\ [m[o] EXCEPT !.value = k].size = m[o].size /\ [m[o] EXCEPT !.value = k].value = k
  BY <1>1, <1>2 DEF Item
<1>4. z = [m EXCEPT ![o].value = k]
  BY DEF Counted, k
<1>5. z = [m EXCEPT ![o] = [m[o] EXCEPT !.value = k]]
  BY <1>4
<1> DEFINE h == [m[o] EXCEPT !.value = k]
<1> HIDE DEF h, z
<1>6. /\ DOMAIN z = DOMAIN m /\ z[o] = h
      /\ \A p \in DOMAIN m : p # o => z[p] = m[p]
  BY <1>5 DEF h
<1>7. MemOK(z)
  BY <1>3, <1>6 DEF MemOK, h
<1> QED  BY <1>3, <1>6, <1>7 DEF z, h, k

LEMMA HeaderSized ==
    ASSUME NEW m, MemOK(m), NEW o \in DOMAIN m, NEW to \in Int, NEW z, z = Sized(m, o, to)
    PROVE  /\ DOMAIN z = DOMAIN m /\ MemOK(z)
           /\ z[o].type = m[o].type /\ z[o].id = m[o].id
           /\ z[o].value = m[o].value /\ z[o].size = (to - o) % W32
           /\ \A p \in DOMAIN m : p # o => z[p] = m[p]
<1>1. /\ DOMAIN Sized(m, o, to) = DOMAIN m
      /\ Sized(m, o, to)[o].type = m[o].type /\ Sized(m, o, to)[o].id = m[o].id
      /\ Sized(m, o, to)[o].value = m[o].value
      /\ Sized(m, o, to)[o].size = (to - o) % W32
      /\ \A p \in DOMAIN m : p # o => Sized(m, o, to)[p] = m[p]
      /\ MemOK(Sized(m, o, to))
  BY SizedIs, Zenon
<1> QED  BY <1>1, Zenon

LEMMA HeaderCounted ==
    ASSUME NEW m, MemOK(m), NEW o \in DOMAIN m, NEW n \in Nat, NEW z, z = Counted(m, o, n)
    PROVE  /\ DOMAIN z = DOMAIN m /\ MemOK(z)
           /\ z[o].type = m[o].type /\ z[o].id = m[o].id
           /\ z[o].size = m[o].size /\ z[o].value = n % W16
           /\ \A p \in DOMAIN m : p # o => z[p] = m[p]
<1>1. /\ DOMAIN Counted(m, o, n) = DOMAIN m
      /\ Counted(m, o, n)[o].type = m[o].type /\ Counted(m, o, n)[o].id = m[o].id
      /\ Counted(m, o, n)[o].size = m[o].size
      /\ Counted(m, o, n)[o].value = n % W16
      /\ \A p \in DOMAIN m : p # o => Counted(m, o, n)[p] = m[p]
      /\ MemOK(Counted(m, o, n))
  BY CountedIs, Zenon
<1> QED  BY <1>1, Zenon

\* What is said of a header that is not there is said of nothing.
LEMMA NotSized ==
    ASSUME NEW m, NEW o, o \notin DOMAIN m, NEW to, NEW n
    PROVE  Sized(m, o, to) = m /\ Counted(m, o, n) = m
  BY DEF Sized, Counted

-----------------------------------------------------------------------------
(* What is open.                                                            *)

LEMMA OpenMessage ==
    ASSUME NEW m, NEW s \in Seq(MessageSet), NEW d \in Nat, NEW array, NEW entry,
           StreamAt(m, s, d, TRUE, array, entry)
    PROVE  /\ s # << >> /\ Len(s) \in 1..Len(s) /\ Last(s) = s[Len(s)]
           /\ Last(s) \in MessageSet /\ Last(s).at \in Nat
           /\ Start <= Last(s).at /\ Last(s).at < d
           /\ MessageAt(m, Last(s), d, TRUE, array, entry)
           /\ Last(s).members \in Seq(MemberSet)
           /\ Last(s).at + 7 + RequestBytes \in Nat
           /\ MembersAt(m, Last(s).members, Last(s).at + 7 + RequestBytes, d, array, entry)
           /\ Last(s).at + 7 + RequestBytes <= d
<1> DEFINE n == Len(s)
<1>1. s # << >> /\ Chained(s, Start, d)
  BY DEF StreamAt
<1>2. n \in 1..n
  BY <1>1, LenProperties, EmptySeq
<1>3. MessageAt(m, s[n], NextAt(s, n, d), TRUE /\ n = Len(s), array, entry)
  BY <1>2 DEF StreamAt
<1>4. NextAt(s, n, d) = d
  BY <1>2 DEF NextAt
<1>5. /\ s[n] \in MessageSet /\ s[n].at \in Nat /\ Start <= s[n].at /\ s[n].at < d
  BY <1>1, <1>2, <1>4, ChainFacts DEF Start
<1>6. MessageAt(m, s[n], d, TRUE, array, entry)
  BY <1>3, <1>4
<1>7. s[n].members \in Seq(MemberSet) /\ s[n].at + 7 + RequestBytes \in Nat
  BY <1>5, IdLengths DEF MessageSet
<1>8. MembersAt(m, s[n].members, s[n].at + 7 + RequestBytes, d, array, entry)
  BY <1>6 DEF MessageAt, MembersAt, MemberAt, ArrayAt
<1>9. s[n].at + 7 + RequestBytes <= d
  BY <1>8 DEF MembersAt, Chained
<1> QED  BY <1>1, <1>2, <1>5, <1>6, <1>7, <1>8, <1>9 DEF Last

LEMMA OpenArray ==
    ASSUME NEW m, NEW xs \in Seq(MemberSet), NEW from \in Nat, NEW d \in Nat, NEW entry,
           MembersAt(m, xs, from, d, TRUE, entry)
    PROVE  /\ xs # << >> /\ Len(xs) \in 1..Len(xs) /\ Last(xs) = xs[Len(xs)]
           /\ Last(xs) \in MemberSet /\ Last(xs).at \in Nat
           /\ from <= Last(xs).at /\ Last(xs).at < d
           /\ Last(xs).type = "Array" /\ Last(xs).id \in Ids /\ Last(xs).entries \in Seq(EntrySet)
           /\ ArrayAt(m, Last(xs), d, TRUE, entry)
           /\ Last(xs).at + Len(Last(xs).id) + 6 \in Nat
           /\ Last(xs).at + 6 <= Last(xs).at + Len(Last(xs).id) + 6
           /\ EntriesAt(m, Last(xs).entries, Last(xs).at + Len(Last(xs).id) + 6, d, entry)
           /\ Last(xs).at + Len(Last(xs).id) + 6 <= d
<1> DEFINE n == Len(xs)
           x == xs[n]
<1>1. xs # << >> /\ Chained(xs, from, d)
  BY DEF MembersAt
<1>2. n \in 1..n
  BY <1>1, LenProperties, EmptySeq
<1>3. MemberAt(m, x, NextAt(xs, n, d), TRUE /\ n = Len(xs), entry)
  BY <1>2 DEF MembersAt
<1>4. NextAt(xs, n, d) = d
  BY <1>2 DEF NextAt
<1>5. /\ x \in MemberSet /\ x.at \in Nat /\ from <= x.at /\ x.at < d
  BY <1>1, <1>2, <1>4, ChainFacts
<1>6. x.type = "Array" /\ ArrayAt(m, x, d, TRUE, entry)
  BY <1>3, <1>4 DEF MemberAt
<1>7. x.id \in Ids /\ x.entries \in Seq(EntrySet)
  BY <1>5 DEF MemberSet
<1>8. x.at + Len(x.id) + 6 \in Nat /\ x.at + 6 <= x.at + Len(x.id) + 6
  <2>1. Len(x.id) \in Nat /\ x.at \in Nat
    BY <1>5, <1>7, IdLengths
  <2> QED  BY <2>1
<1>9. EntriesAt(m, x.entries, x.at + Len(x.id) + 6, d, entry)
  BY <1>6, Zenon DEF ArrayAt
<1>10. x.at + Len(x.id) + 6 <= d
  BY <1>9 DEF EntriesAt, Chained
<1> QED  BY <1>1, <1>2, <1>5, <1>6, <1>7, <1>8, <1>9, <1>10 DEF Last

LEMMA OpenEntry ==
    ASSUME NEW m, NEW es \in Seq(EntrySet), NEW from \in Nat, NEW d \in Nat,
           EntriesAt(m, es, from, d, TRUE)
    PROVE  /\ es # << >> /\ Len(es) \in 1..Len(es) /\ Last(es) = es[Len(es)]
           /\ Last(es) \in EntrySet /\ Last(es).at \in Nat
           /\ from <= Last(es).at /\ Last(es).at < d
           /\ Last(es).fields \in Seq(FieldSet)
           /\ EntryAt(m, Last(es), d, TRUE)
           /\ FieldsAt(m, Last(es).fields, Last(es).at + 7, d)
           /\ Last(es).at + 7 <= d
<1> DEFINE n == Len(es)
           e == es[n]
<1>1. es # << >> /\ Chained(es, from, d)
  BY DEF EntriesAt
<1>2. n \in 1..n
  BY <1>1, LenProperties, EmptySeq
<1>3. EntryAt(m, e, NextAt(es, n, d), TRUE /\ n = Len(es))
  BY <1>2 DEF EntriesAt
<1>4. NextAt(es, n, d) = d
  BY <1>2 DEF NextAt
<1>5. /\ e \in EntrySet /\ e.at \in Nat /\ from <= e.at /\ e.at < d
  BY <1>1, <1>2, <1>4, ChainFacts
<1>6. EntryAt(m, e, d, TRUE)
  BY <1>3, <1>4
<1>7. e.fields \in Seq(FieldSet)
  BY <1>5 DEF EntrySet
<1>8. FieldsAt(m, e.fields, e.at + 7, d)
  BY <1>6, Zenon DEF EntryAt
<1>9. e.at + 7 <= d
  BY <1>8 DEF FieldsAt, Chained
<1> QED  BY <1>1, <1>2, <1>5, <1>6, <1>7, <1>8, <1>9 DEF Last

-----------------------------------------------------------------------------
(* A change in what is open is a change of the whole.                       *)

LEMMA SameLast ==
    ASSUME NEW S, NEW s \in Seq(S), s # << >>
    PROVE  WithLast(s, Last(s)) = s
<1>1. Len(s) \in 1..Len(s) /\ DOMAIN s = 1..Len(s)
  BY LenProperties, EmptySeq
<1>2. s = [i \in DOMAIN s |-> s[i]]
  BY LenProperties
<1> QED  BY <1>1, <1>2 DEF WithLast, Last

LEMMA LastReplaced ==
    ASSUME NEW S, NEW s \in Seq(S), s # << >>, NEW x \in S
    PROVE  /\ WithLast(s, x) \in Seq(S) /\ Len(WithLast(s, x)) = Len(s)
           /\ Last(WithLast(s, x)) = x /\ WithLast(s, x) # << >>
<1>1. Len(s) \in 1..Len(s)
  BY LenProperties, EmptySeq
<1>2. WithLast(s, x) \in Seq(S) /\ Len(WithLast(s, x)) = Len(s) /\ WithLast(s, x)[Len(s)] = x
  BY <1>1, ExceptSeq DEF WithLast
<1> QED  BY <1>1, <1>2, EmptySeq DEF Last

LEMMA MessageLift ==
    ASSUME NEW m, NEW m2, NEW s \in Seq(MessageSet), NEW d \in Nat, NEW array, NEW entry,
           StreamAt(m, s, d, TRUE, array, entry), NEW d2 \in Nat, d <= d2,
           Keeps(m, m2, Start, Last(s).at + 7 + RequestBytes),
           NEW xs \in Seq(MemberSet), NEW array2, NEW entry2,
           MembersAt(m2, xs, Last(s).at + 7 + RequestBytes, d2, array2, entry2),
           NEW e2, e2 = [Last(s) EXCEPT !.members = xs]
    PROVE  /\ StreamAt(m2, WithLast(s, e2), d2, TRUE, array2, entry2)
           /\ WithLast(s, e2) \in Seq(MessageSet) /\ Len(WithLast(s, e2)) = Len(s)
           /\ Last(WithLast(s, e2)) = e2
           /\ e2 \in MessageSet /\ e2.members = xs /\ e2.at = Last(s).at
<1> DEFINE e == Last(s)
           from == e.at + 7 + RequestBytes
<1>1. /\ s # << >> /\ e = s[Len(s)] /\ e \in MessageSet /\ e.at \in Nat
      /\ Start <= e.at /\ e.at < d /\ from \in Nat
      /\ MessageAt(m, e, d, TRUE, array, entry)
  BY OpenMessage
<1>0. e2 = [e EXCEPT !.members = xs]
  OBVIOUS
<1> HIDE DEF e
<1>2. /\ e2 \in MessageSet /\ e2.at = e.at /\ e2.event = e.event /\ e2.request = e.request
      /\ e2.members = xs
  BY <1>0, <1>1 DEF MessageSet
<1>3. e.at < from /\ e.at + 7 < from /\ e.at + 7 \in Nat /\ Start <= e.at + 7
  <2>1. RequestBytes \in Nat /\ RequestBytes > 0
    BY IdLengths
  <2>2. e.at \in Nat /\ Start <= e.at
    BY <1>1
  <2> QED  BY <2>1, <2>2 DEF Start
<1>4. /\ e.at \in DOMAIN m2 /\ m2[e.at] = m[e.at]
      /\ e.at + 7 \in DOMAIN m2 /\ m2[e.at + 7] = m[e.at + 7]
  <2>1. e.at \in DOMAIN m /\ e.at + 7 \in DOMAIN m
    BY <1>1 DEF MessageAt, Has
  <2>2. Keeps(m, m2, Start, from)
    BY DEF e
  <2> HIDE DEF from
  <2> QED  BY <1>1, <1>3, <2>1, <2>2, KeptAt
<1>5. MembersAt(m2, xs, from, d2, array2 /\ TRUE, entry2)
  <2>1. MembersAt(m2, xs, from, d2, array2, entry2)
    BY DEF e
  <2> QED  BY <2>1 DEF MembersAt, MemberAt, ArrayAt
<1>6. MessageAt(m2, e2, d2, TRUE, array2, entry2)
  BY <1>1, <1>2, <1>4, <1>5 DEF MessageAt, Has
<1>7. Keeps(m, m2, Start, e.at)
  <2>1. Keeps(m, m2, Start, from)
    BY DEF e
  <2> QED  BY <1>1, <1>3, <2>1 DEF Keeps
<1>8. /\ StreamAt(m2, WithLast(s, e2), d2, TRUE, array2, entry2)
      /\ WithLast(s, e2) \in Seq(MessageSet) /\ Len(WithLast(s, e2)) = Len(s)
      /\ WithLast(s, e2)[Len(s)] = e2
  <2>1. e2.at = s[Len(s)].at /\ Keeps(m, m2, Start, s[Len(s)].at)
    BY <1>1, <1>2, <1>7
  <2>2. s # << >> /\ e2 \in MessageSet
    BY <1>1, <1>2
  <2> DEFINE open == TRUE
  <2>3. StreamAt(m, s, d, open, array, entry) /\ MessageAt(m2, e2, d2, open, array2, entry2)
    BY <1>6
  <2> HIDE DEF open
  <2>4. /\ StreamAt(m2, WithLast(s, e2), d2, open, array2, entry2)
        /\ WithLast(s, e2) \in Seq(MessageSet) /\ Len(WithLast(s, e2)) = Len(s)
        /\ WithLast(s, e2)[Len(s)] = e2
    <3>1. StreamAt(m2, WithLast(s, e2), d2, open, array2, entry2)
      <4> HIDE DEF from
      <4> QED  BY <2>1, <2>2, <2>3, StreamGrow
    <3>2. /\ WithLast(s, e2) \in Seq(MessageSet) /\ Len(WithLast(s, e2)) = Len(s)
          /\ WithLast(s, e2)[Len(s)] = e2
      BY <2>2, ExceptSeq, LenProperties, EmptySeq DEF WithLast
    <3> QED  BY <3>1, <3>2
  <2> QED  BY <2>4 DEF open
<1> QED  BY <1>2, <1>8 DEF Last, e

LEMMA ArrayLift ==
    ASSUME NEW m, NEW m2, NEW xs \in Seq(MemberSet), NEW from \in Nat, NEW d \in Nat,
           NEW entry, MembersAt(m, xs, from, d, TRUE, entry), NEW d2 \in Nat, d <= d2,
           Keeps(m, m2, from, Last(xs).at + Len(Last(xs).id) + 6),
           NEW es \in Seq(EntrySet), NEW entry2,
           EntriesAt(m2, es, Last(xs).at + Len(Last(xs).id) + 6, d2, entry2),
           NEW y, y = [Last(xs) EXCEPT !.entries = es]
    PROVE  /\ MembersAt(m2, WithLast(xs, y), from, d2, TRUE, entry2)
           /\ WithLast(xs, y) \in Seq(MemberSet) /\ Len(WithLast(xs, y)) = Len(xs)
           /\ Last(WithLast(xs, y)) = y
           /\ y \in MemberSet /\ y.entries = es /\ y.at = Last(xs).at
<1> DEFINE x == Last(xs)
           start == x.at + Len(x.id) + 6
<1>1. /\ xs # << >> /\ x = xs[Len(xs)] /\ x \in MemberSet /\ x.at \in Nat
      /\ from <= x.at /\ x.at < d /\ start \in Nat /\ x.at + 6 <= start
      /\ x.type = "Array" /\ ArrayAt(m, x, d, TRUE, entry)
  BY OpenArray
<1>0. y = [x EXCEPT !.entries = es]
  OBVIOUS
<1>2. Keeps(m, m2, from, start) /\ EntriesAt(m2, es, start, d2, entry2)
  OBVIOUS
<1> HIDE DEF x
<1>3. /\ y \in MemberSet /\ y.at = x.at /\ y.id = x.id /\ y.type = "Array" /\ y.value = x.value
      /\ y.entries = es
  BY <1>0, <1>1 DEF MemberSet
<1>4. x.at \in DOMAIN m2 /\ m2[x.at] = m[x.at]
  <2>1. x.at \in DOMAIN m
    BY <1>1 DEF ArrayAt, Has
  <2>2. x.at < start
    BY <1>1
  <2> HIDE DEF start
  <2> QED  BY <1>1, <1>2, <2>1, <2>2, KeptAt
<1>5. Has(m, x.at, "Array", x.id, 0) /\ x.value = 0
  BY <1>1, Zenon DEF ArrayAt
<1>6. ArrayAt(m2, y, d2, TRUE, entry2)
  <2>1. Has(m2, y.at, "Array", y.id, 0) /\ y.value = 0
    BY <1>3, <1>4, <1>5 DEF Has
  <2>2. EntriesAt(m2, y.entries, y.at + Len(y.id) + 6, d2, entry2)
    BY <1>2, <1>3
  <2> QED  BY <2>1, <2>2 DEF ArrayAt
<1>7. MemberAt(m2, y, d2, TRUE, entry2)
  BY <1>3, <1>6 DEF MemberAt
<1>8. Keeps(m, m2, from, x.at)
  BY <1>1, <1>2 DEF Keeps
<1>9. /\ MembersAt(m2, WithLast(xs, y), from, d2, TRUE, entry2)
      /\ WithLast(xs, y) \in Seq(MemberSet) /\ Len(WithLast(xs, y)) = Len(xs)
      /\ WithLast(xs, y)[Len(xs)] = y
  <2>1. y.at = xs[Len(xs)].at /\ Keeps(m, m2, from, xs[Len(xs)].at)
    BY <1>1, <1>3, <1>8
  <2>2. xs # << >> /\ y \in MemberSet
    BY <1>1, <1>3
  <2> DEFINE array == TRUE
  <2>3. MembersAt(m, xs, from, d, array, entry) /\ MemberAt(m2, y, d2, array, entry2)
    BY <1>7
  <2> HIDE DEF array
  <2>4. MembersAt(m2, WithLast(xs, y), from, d2, array, entry2)
    BY <2>1, <2>2, <2>3, MembersGrow
  <2>5. /\ WithLast(xs, y) \in Seq(MemberSet) /\ Len(WithLast(xs, y)) = Len(xs)
        /\ WithLast(xs, y)[Len(xs)] = y
    BY <2>2, ExceptSeq, LenProperties, EmptySeq DEF WithLast
  <2> QED  BY <2>4, <2>5 DEF array
<1> QED  BY <1>3, <1>9 DEF Last, x

LEMMA EntryLift ==
    ASSUME NEW m, NEW m2, NEW es \in Seq(EntrySet), NEW from \in Nat, NEW d \in Nat,
           EntriesAt(m, es, from, d, TRUE), NEW d2 \in Nat, d <= d2,
           Keeps(m, m2, from, Last(es).at + 7),
           NEW fs \in Seq(FieldSet), Len(fs) <= MaxMembers,
           FieldsAt(m2, fs, Last(es).at + 7, d2),
           NEW g, g = [Last(es) EXCEPT !.fields = fs]
    PROVE  /\ EntriesAt(m2, WithLast(es, g), from, d2, TRUE)
           /\ WithLast(es, g) \in Seq(EntrySet) /\ Len(WithLast(es, g)) = Len(es)
           /\ Last(WithLast(es, g)) = g
           /\ g \in EntrySet /\ g.fields = fs /\ g.at = Last(es).at
<1> DEFINE e == Last(es)
<1>1. /\ es # << >> /\ e = es[Len(es)] /\ e \in EntrySet /\ e.at \in Nat
      /\ from <= e.at /\ e.at < d /\ EntryAt(m, e, d, TRUE)
  BY OpenEntry
<1>0. g = [e EXCEPT !.fields = fs]
  OBVIOUS
<1>2. Keeps(m, m2, from, e.at + 7) /\ FieldsAt(m2, fs, e.at + 7, d2)
  OBVIOUS
<1> HIDE DEF e
<1>3. g \in EntrySet /\ g.at = e.at /\ g.fields = fs
  BY <1>0, <1>1 DEF EntrySet
<1>4. e.at \in DOMAIN m2 /\ m2[e.at] = m[e.at]
  <2>1. e.at \in DOMAIN m
    BY <1>1 DEF EntryAt
  <2> QED  BY <1>1, <1>2, <2>1, KeptAt
<1>5. EntryAt(m2, g, d2, TRUE)
  BY <1>1, <1>2, <1>3, <1>4 DEF EntryAt
<1>6. Keeps(m, m2, from, e.at)
  BY <1>1, <1>2 DEF Keeps
<1>7. /\ EntriesAt(m2, WithLast(es, g), from, d2, TRUE)
      /\ WithLast(es, g) \in Seq(EntrySet) /\ Len(WithLast(es, g)) = Len(es)
      /\ WithLast(es, g)[Len(es)] = g
  <2>1. g.at = es[Len(es)].at /\ Keeps(m, m2, from, es[Len(es)].at)
    BY <1>1, <1>3, <1>6
  <2>2. es # << >> /\ g \in EntrySet
    BY <1>1, <1>3
  <2> DEFINE open == TRUE
  <2>3. EntriesAt(m, es, from, d, open) /\ EntryAt(m2, g, d2, open)
    BY <1>5
  <2> HIDE DEF open
  <2>4. EntriesAt(m2, WithLast(es, g), from, d2, open)
    BY <2>1, <2>2, <2>3, EntriesGrow
  <2>5. /\ WithLast(es, g) \in Seq(EntrySet) /\ Len(WithLast(es, g)) = Len(es)
        /\ WithLast(es, g)[Len(es)] = g
    BY <2>2, ExceptSeq, LenProperties, EmptySeq DEF WithLast
  <2> QED  BY <2>4, <2>5 DEF open
<1> QED  BY <1>3, <1>7 DEF Last, e

-----------------------------------------------------------------------------
(* The writer keeps the layout.                                             *)

\* What the writer knows of the stream it writes.
Stream(m, w, s) ==
    /\ StreamAt(m, s, w.data, w.event, w.array, w.entry)
    /\ w.entry => w.array
    /\ w.array => w.event
    /\ w.event => w.eventOffset = Last(s).at
    /\ w.array => w.arrayOffset = Last(Last(s).members).at
    /\ w.entry => /\ w.entryOffset = Last(Last(Last(s).members).entries).at
                  /\ w.count = Len(Last(Last(Last(s).members).entries).fields)

\* An item for a field that the reader can step over.
Fits(item, id) ==
    /\ item \in Item /\ item.id = id /\ item.type \in FieldTypes
    /\ item.bytes > 0 /\ item.size = item.bytes
    /\ item.type # "Data" => item.bytes < W16

FieldOf(id, type, value, at) ==
    [id |-> id, type |-> type, value |-> value, at |-> at, entries |-> << >>]

LEMMA FieldTypesAre ==
    /\ "Array" \notin FieldTypes
    /\ FieldTypes \subseteq DOMAIN Bytes \union {"String", "Data"}
    /\ \A t \in DOMAIN Bytes : Bytes[t] \in 1..8
  BY StreamAssumption DEF Bytes

LEMMA ItemIs ==
    ASSUME NEW type \in DOMAIN Bytes \union {"String", "Data", "Event", "Array", "ArrayEntry"},
           NEW id \in Ids \union {RequestId, ""}, NEW v \in Nat, NEW n \in Nat, NEW size \in Nat
    PROVE  [type |-> type, id |-> id, value |-> v, bytes |-> n, size |-> size] \in Item
  BY DEF Item

LEMMA FieldFits ==
    ASSUME NEW id \in Ids, NEW t \in FieldTypes \ {"Data"}, NEW v \in Nat, NEW n \in Nat,
           Len(id) + 4 + n < W16
    PROVE  Fits(Field(id, t, v, n), id)
<1> DEFINE f == Field(id, t, v, n)
           b == Len(id) + 4 + n
<1>1. b \in Nat /\ b > 0 /\ b < W16 /\ b % W16 = b
  BY IdLengths
<1>2. f = [type |-> t, id |-> id, value |-> v, bytes |-> b, size |-> b % W16]
  BY DEF Field
<1> HIDE DEF b
<1>3. f \in Item
  <2>1. t \in DOMAIN Bytes \union {"String", "Data", "Event", "Array", "ArrayEntry"}
    BY FieldTypesAre
  <2> HIDE DEF f
  <2>2. f = [type |-> t, id |-> id, value |-> v, bytes |-> b, size |-> b]
    BY <1>1, <1>2
  <2> QED  BY <1>1, <2>1, <2>2, ItemIs
<1>4. f.id = id /\ f.type = t /\ f.bytes = b /\ f.size = b
  BY <1>1, <1>2
<1> HIDE DEF f
<1> QED  BY <1>1, <1>3, <1>4 DEF Fits, f

LEMMA DataFits ==
    ASSUME NEW id \in Ids, NEW n \in Lengths, "Data" \in FieldTypes
    PROVE  Fits(DataField(id, n), id)
<1> DEFINE f == DataField(id, n)
           b == Len(id) + 6 + n
<1>1. n \in Nat /\ Len(id) \in Nat /\ Len(id) + 4 + n < W16
  BY StreamAssumption
<1>2. W16 + 2 <= W32
  <2>1. W16 >= 4
    BY StreamAssumption DEF W16
  <2> QED  BY <2>1, IdLengths DEF W32
<1>3. b \in Nat /\ b > 0 /\ b < W32 /\ b % W32 = b
  BY <1>1, <1>2, IdLengths
<1>4. f = [type |-> "Data", id |-> id, value |-> n, bytes |-> b, size |-> b % W32]
  BY DEF DataField
<1> HIDE DEF b
<1>5. f \in Item
  <2> HIDE DEF f
  <2>1. f = [type |-> "Data", id |-> id, value |-> n, bytes |-> b, size |-> b]
    BY <1>3, <1>4
  <2> QED  BY <1>1, <1>3, <2>1, ItemIs
<1>6. f.id = id /\ f.type = "Data" /\ f.bytes = b /\ f.size = b
  BY <1>3, <1>4
<1> HIDE DEF f
<1> QED  BY <1>3, <1>5, <1>6 DEF Fits, f

\* The headers.
LEMMA HeaderIs ==
    ASSUME NEW type \in {"Event", "Array", "ArrayEntry"}, NEW id \in Ids \union {""},
           NEW v \in Nat, NEW n \in Nat
    PROVE  /\ Header(type, id, v, n) \in Item
           /\ Header(type, id, v, n).type = type /\ Header(type, id, v, n).id = id
           /\ Header(type, id, v, n).value = v /\ Header(type, id, v, n).bytes = n
  BY DEF Header, Item

LEMMA EntryHeaderIs ==
    /\ EntryHeader \in Item /\ EntryHeader.type = "ArrayEntry" /\ EntryHeader.id = ""
    /\ EntryHeader.value = 0 /\ EntryHeader.bytes = 7
  BY DEF EntryHeader, Header, Item

LEMMA RequestFieldIs ==
    ASSUME NEW r \in Nat
    PROVE  /\ RequestField(r) \in Item /\ RequestField(r).type = "U64"
           /\ RequestField(r).id = RequestId /\ RequestField(r).value = r
           /\ RequestField(r).bytes = RequestBytes /\ RequestField(r).size = RequestBytes
<1> DEFINE b == Len(RequestId) + 4 + 8
           f == RequestField(r)
<1>1. b \in Nat /\ b % W16 = b /\ b = RequestBytes
  BY IdLengths DEF RequestBytes
<1>2. f = [type |-> "U64", id |-> RequestId, value |-> r, bytes |-> b, size |-> b % W16]
  BY DEF RequestField, Field
<1> HIDE DEF b
<1>3. f \in Item
  <2>1. "U64" \in DOMAIN Bytes
    BY DEF Bytes
  <2> QED  BY <1>1, <1>2, <2>1 DEF Item
<1> QED  BY <1>1, <1>2, <1>3

LEMMA EmptyChain ==
    ASSUME NEW from \in Nat
    PROVE  Chained(<< >>, from, from)
  BY DEF Chained

\* A field, in the buffer and in what was sent.
LEMMA FieldStored ==
    ASSUME NEW m, MemOK(m), NEW d \in Offset, NEW id \in Ids, NEW item, Fits(item, id)
    PROVE  LET m2 == Store(m, d, item)
               f  == FieldOf(id, item.type, item.value, d)
           IN  /\ MemOK(m2) /\ \A from : Keeps(m, m2, from, d)
               /\ f \in FieldSet /\ f \in MemberSet /\ f.type # "Array" /\ f.at = d
               /\ d \in Nat /\ d + item.bytes \in Nat /\ d < d + item.bytes
               /\ FieldAt(m2, f, d + item.bytes)
<1> DEFINE m2 == Store(m, d, item)
           f == FieldOf(id, item.type, item.value, d)
<1>1. /\ item \in Item /\ item.id = id /\ item.type \in FieldTypes
      /\ item.bytes > 0 /\ item.size = item.bytes
      /\ item.type # "Data" => item.bytes < W16
  BY DEF Fits
<1>2. item.bytes \in Nat /\ item.value \in Nat
  BY <1>1 DEF Item
<1>3. /\ d \in DOMAIN m2 /\ m2[d] = item /\ MemOK(m2)
      /\ \A from : Keeps(m, m2, from, d)
  BY <1>1, StoreIs
<1>4. d \in Nat /\ d + item.bytes \in Nat /\ d < d + item.bytes
  BY <1>1, <1>2, StreamAssumption DEF Offset
<1>5. << >> \in Seq(EntrySet)
  BY EmptySeq
<1>6. /\ f \in FieldSet /\ f \in MemberSet /\ f.type = item.type /\ f.at = d
      /\ f.id = id /\ f.value = item.value
  BY <1>1, <1>2, <1>4, <1>5 DEF FieldOf, FieldSet, MemberSet
<1> HIDE DEF f, m2
<1>7. (d + item.bytes) - d = item.bytes
  BY <1>2, <1>4
<1>8. FieldAt(m2, f, d + item.bytes)
  BY <1>1, <1>3, <1>6, <1>7 DEF FieldAt, Has
<1>9. f.type # "Array"
  BY <1>1, <1>6, FieldTypesAre
<1> QED  BY <1>3, <1>4, <1>6, <1>8, <1>9 DEF f, m2

\* A field of an event.
LEMMA MemberWritten ==
    ASSUME NEW m, MemOK(m), NEW w \in WriterSet, NEW s \in Seq(MessageSet), Stream(m, w, s),
           w.data \in Offset, w.event, ~w.array, NEW id \in Ids, NEW item, Fits(item, id),
           NEW w2 \in WriterSet, w2 = [w EXCEPT !.data = @ + item.bytes, !.count = @]
    PROVE  LET m2 == Store(m, w.data, item)
               f  == FieldOf(id, item.type, item.value, w.data)
               s2 == WithLast(s, [Last(s) EXCEPT !.members = Append(@, f)])
           IN  MemOK(m2) /\ Stream(m2, w2, s2) /\ s2 \in Seq(MessageSet)
<1> DEFINE m2 == Store(m, w.data, item)
           f  == FieldOf(id, item.type, item.value, w.data)
           xs == Last(s).members
           e2 == [Last(s) EXCEPT !.members = Append(xs, f)]
           s2 == WithLast(s, e2)
           d2 == w.data + item.bytes
           from == Last(s).at + 7 + RequestBytes
<1>1. /\ MemOK(m2) /\ \A p : Keeps(m, m2, p, w.data)
      /\ f \in FieldSet /\ f \in MemberSet /\ f.type # "Array" /\ f.at = w.data
      /\ w.data \in Nat /\ d2 \in Nat /\ w.data < d2
      /\ FieldAt(m2, f, d2)
  BY FieldStored
<1> HIDE DEF m2, f
<1>2. w.event = TRUE /\ w.array = FALSE /\ w.entry = FALSE
  BY DEF WriterSet, Stream
<1>3. StreamAt(m, s, w.data, TRUE, w.array, w.entry)
  BY <1>2 DEF Stream
<1>4. /\ xs \in Seq(MemberSet) /\ from \in Nat /\ from <= w.data /\ Last(s).at \in Nat
      /\ MembersAt(m, xs, from, w.data, w.array, w.entry)
      /\ Last(s) \in MessageSet
  BY <1>1, <1>3, OpenMessage
<1>5. MemberAt(m2, f, d2, w.array, w.entry)
  BY <1>1, <1>2 DEF MemberAt
<1>6. /\ MembersAt(m2, Append(xs, f), from, d2, w.array, w.entry)
      /\ Append(xs, f) \in Seq(MemberSet)
  <2>1. MembersAt(m, xs, from, w.data, FALSE, w.entry)
    BY <1>2, <1>4
  <2>2. Keeps(m, m2, from, w.data)
    BY <1>1
  <2> HIDE DEF from, xs, d2
  <2> QED  BY <1>1, <1>4, <1>5, <2>1, <2>2, MembersAppend
<1>7. Keeps(m, m2, Start, from)
  BY <1>1, <1>4 DEF Keeps
<1>8. /\ StreamAt(m2, s2, d2, TRUE, w.array, w.entry)
      /\ s2 \in Seq(MessageSet) /\ Last(s2) = e2 /\ e2.at = Last(s).at
  <2> DEFINE ys == Append(xs, f)
  <2>1. ys \in Seq(MemberSet) /\ MembersAt(m2, ys, from, d2, w.array, w.entry)
    BY <1>6
  <2>2. /\ w.data <= d2 /\ d2 \in Nat /\ w.data \in Nat
    BY <1>1
  <2>3. e2 = [Last(s) EXCEPT !.members = ys]
    OBVIOUS
  <2> HIDE DEF ys, e2, d2
  <2>4. StreamAt(m2, s2, d2, TRUE, w.array, w.entry)
    BY <1>3, <1>7, <2>1, <2>2, <2>3, MessageLift
  <2>5. e2 \in MessageSet /\ e2.at = Last(s).at
    BY <1>4, <2>1, <2>3 DEF MessageSet
  <2>6. s # << >>
    BY DEF StreamAt, Stream
  <2> QED  BY <2>4, <2>5, <2>6, LastReplaced
<1>10. /\ w2.data = d2 /\ w2.event = TRUE /\ w2.array = w.array /\ w2.entry = w.entry
       /\ w2.eventOffset = w.eventOffset
  BY <1>2 DEF WriterSet
<1> HIDE DEF e2, s2, d2
<1>11. Stream(m2, w2, s2)
  BY <1>2, <1>8, <1>10 DEF Stream
<1> QED  BY <1>1, <1>8, <1>11 DEF m2, f, s2, e2

\* What is open in a stream of which an array is open.
LEMMA OpenArrayOf ==
    ASSUME NEW m, NEW s \in Seq(MessageSet), NEW d \in Nat, NEW entry,
           StreamAt(m, s, d, TRUE, TRUE, entry)
    PROVE  LET e     == Last(s)
               x     == Last(e.members)
               from  == e.at + 7 + RequestBytes
               start == x.at + Len(x.id) + 6
           IN  /\ s # << >> /\ e \in MessageSet /\ e.at \in Nat /\ Start <= e.at /\ e.at < d
               /\ e.members \in Seq(MemberSet) /\ e.members # << >> /\ from \in Nat
               /\ MembersAt(m, e.members, from, d, TRUE, entry)
               /\ x \in MemberSet /\ x.at \in Nat /\ x.id \in Ids /\ from <= x.at /\ x.at < start
               /\ x.type = "Array" /\ x.entries \in Seq(EntrySet)
               /\ ArrayAt(m, x, d, TRUE, entry)
               /\ start \in Nat /\ start <= d /\ Start <= start
               /\ EntriesAt(m, x.entries, start, d, entry)
<1> DEFINE e == Last(s)
           x == Last(e.members)
           from == e.at + 7 + RequestBytes
           start == x.at + Len(x.id) + 6
<1>1. /\ s # << >> /\ e \in MessageSet /\ e.at \in Nat /\ Start <= e.at /\ e.at < d
      /\ e.members \in Seq(MemberSet) /\ from \in Nat
  BY OpenMessage
<1>2. MembersAt(m, e.members, from, d, TRUE, entry)
  <2> DEFINE array == TRUE
  <2>1. StreamAt(m, s, d, TRUE, array, entry)
    OBVIOUS
  <2> HIDE DEF array
  <2>2. MembersAt(m, e.members, from, d, array, entry)
    BY <2>1, OpenMessage
  <2> QED  BY <2>2 DEF array
<1>3. Start <= from
  <2>1. RequestBytes \in Nat
    BY IdLengths
  <2> QED  BY <1>1, <2>1 DEF Start
<1> HIDE DEF e, from
<1>4. /\ e.members # << >> /\ x \in MemberSet /\ x.at \in Nat /\ x.id \in Ids
      /\ from <= x.at /\ x.at < d
      /\ x.type = "Array" /\ x.entries \in Seq(EntrySet)
  BY <1>1, <1>2, OpenArray
<1>5. /\ ArrayAt(m, x, d, TRUE, entry)
      /\ start \in Nat /\ x.at + 6 <= start /\ start <= d
      /\ EntriesAt(m, x.entries, start, d, entry)
  BY <1>1, <1>2, OpenArray
<1> HIDE DEF x, start
<1>6. x.at < start /\ Start <= start
  BY <1>1, <1>3, <1>4, <1>5 DEF Start
<1> QED  BY <1>1, <1>2, <1>4, <1>5, <1>6 DEF e, x, from, start

\* The array that is open, where its entries start, and the stream with other entries in it.
OpenMember(s) == Last(Last(s).members)
EntriesStart(s) == OpenMember(s).at + Len(OpenMember(s).id) + 6

WithEntries(s, es) ==
    WithLast(s, [Last(s) EXCEPT !.members =
                     WithLast(Last(s).members, [OpenMember(s) EXCEPT !.entries = es])])

LEMMA OpenEntries ==
    ASSUME NEW m, NEW s \in Seq(MessageSet), NEW d \in Nat, NEW entry,
           StreamAt(m, s, d, TRUE, TRUE, entry)
    PROVE  /\ s # << >> /\ Last(s).members # << >>
           /\ OpenMember(s) \in MemberSet /\ OpenMember(s).entries \in Seq(EntrySet)
           /\ EntriesStart(s) \in Nat /\ Start <= EntriesStart(s) /\ EntriesStart(s) <= d
           /\ EntriesAt(m, OpenMember(s).entries, EntriesStart(s), d, entry)
  BY OpenArrayOf DEF OpenMember, EntriesStart

LEMMA LastIn ==
    ASSUME NEW S, NEW s \in Seq(S), s # << >>
    PROVE  Last(s) \in S /\ Len(s) \in 1..Len(s)
<1>1. Len(s) \in 1..Len(s)
  BY LenProperties, EmptySeq
<1> QED  BY <1>1, ElementOfSeq DEF Last

LEMMA WithEntriesIs ==
    ASSUME NEW s \in Seq(MessageSet), s # << >>, Last(s).members # << >>, NEW es \in Seq(EntrySet)
    PROVE  /\ WithEntries(s, es) \in Seq(MessageSet) /\ WithEntries(s, es) # << >>
           /\ Last(WithEntries(s, es)).at = Last(s).at
           /\ Last(WithEntries(s, es)).members # << >>
           /\ OpenMember(WithEntries(s, es)).at = OpenMember(s).at
           /\ OpenMember(WithEntries(s, es)).entries = es
<1> DEFINE e == Last(s)
           x == OpenMember(s)
           y == [x EXCEPT !.entries = es]
           ys == WithLast(e.members, y)
           e2 == [e EXCEPT !.members = ys]
<1>1. e \in MessageSet
  BY LastIn
<1>2. e.members \in Seq(MemberSet)
  BY <1>1 DEF MessageSet
<1>3. x \in MemberSet
  BY <1>2, LastIn DEF OpenMember
<1> HIDE DEF x, e
<1>4. y \in MemberSet /\ y.at = x.at /\ y.entries = es
  BY <1>3 DEF MemberSet
<1> HIDE DEF y
<1>5. ys \in Seq(MemberSet) /\ Last(ys) = y /\ ys # << >>
  <2>1. e.members # << >>
    BY DEF e
  <2> QED  BY <1>2, <1>4, <2>1, LastReplaced
<1> HIDE DEF ys
<1>6. e2 \in MessageSet /\ e2.at = e.at /\ e2.members = ys
  BY <1>1, <1>5 DEF MessageSet
<1>7. WithEntries(s, es) = WithLast(s, e2)
  BY DEF WithEntries, e2, ys, y, x, e
<1> HIDE DEF e2
<1>8. /\ WithLast(s, e2) \in Seq(MessageSet) /\ Last(WithLast(s, e2)) = e2
      /\ WithLast(s, e2) # << >>
  BY <1>6, LastReplaced
<1>9. OpenMember(WithLast(s, e2)) = y
  BY <1>5, <1>6, <1>8 DEF OpenMember
<1> QED  BY <1>4, <1>5, <1>6, <1>7, <1>8, <1>9 DEF e, x

\* A change of the entries of the open array.
LEMMA EntriesLift ==
    ASSUME NEW m, NEW m2, NEW s \in Seq(MessageSet), NEW d \in Nat, NEW entry,
           StreamAt(m, s, d, TRUE, TRUE, entry), NEW d2 \in Nat, d <= d2,
           Keeps(m, m2, Start, EntriesStart(s)),
           NEW es \in Seq(EntrySet), NEW entry2, EntriesAt(m2, es, EntriesStart(s), d2, entry2)
    PROVE  StreamAt(m2, WithEntries(s, es), d2, TRUE, TRUE, entry2)
<1> DEFINE x == OpenMember(s)
           y == [x EXCEPT !.entries = es]
           e2 == [Last(s) EXCEPT !.members = WithLast(Last(s).members, y)]
<1> DEFINE e == Last(s)
           xs == e.members
           ys == WithLast(xs, y)
           from == e.at + 7 + RequestBytes
           start == x.at + Len(x.id) + 6
<1>1. /\ s # << >> /\ e \in MessageSet /\ e.at \in Nat /\ Start <= e.at /\ e.at < d
      /\ xs \in Seq(MemberSet) /\ xs # << >> /\ from \in Nat
      /\ x \in MemberSet /\ x.at \in Nat /\ from <= x.at /\ x.at < start
      /\ start \in Nat /\ start <= d
  BY OpenArrayOf DEF OpenMember
<1>2. MembersAt(m, xs, from, d, TRUE, entry)
  BY OpenArrayOf
<1>3. /\ y \in MemberSet /\ y.at = x.at /\ y.entries = es
  <2> HIDE DEF x
  <2> QED  BY <1>1 DEF MemberSet
<1>4. Start <= from
  <2>1. RequestBytes \in Nat
    BY IdLengths
  <2> QED  BY <1>1, <2>1 DEF Start
<1>5. Keeps(m, m2, from, start) /\ Keeps(m, m2, Start, from)
  <2>1. Keeps(m, m2, Start, start)
    BY DEF EntriesStart
  <2>2. from <= start /\ Start <= from
    BY <1>1, <1>4
  <2> HIDE DEF from, start
  <2> QED  BY <1>1, <2>1, <2>2 DEF Keeps, Start
<1>6. MembersAt(m2, ys, from, d2, TRUE, entry2)
  <2>1. y = [Last(xs) EXCEPT !.entries = es]
    BY DEF OpenMember
  <2>2. EntriesAt(m2, es, Last(xs).at + Len(Last(xs).id) + 6, d2, entry2)
    BY DEF OpenMember, EntriesStart
  <2>3. Keeps(m, m2, from, Last(xs).at + Len(Last(xs).id) + 6)
    BY <1>5 DEF OpenMember
  <2>4. xs \in Seq(MemberSet) /\ from \in Nat
    BY <1>1
  <2> HIDE DEF xs, from, y
  <2> QED  BY <1>2, <2>1, <2>2, <2>3, <2>4, ArrayLift
<1>7. ys \in Seq(MemberSet) /\ Last(ys) = y
  <2> HIDE DEF xs, y
  <2> QED  BY <1>1, <1>3, LastReplaced
<1>8. e2 \in MessageSet /\ e2.at = e.at /\ e2.members = ys
  <2>1. e2 = [e EXCEPT !.members = ys]
    OBVIOUS
  <2> HIDE DEF e, ys
  <2> QED  BY <1>1, <1>7, <2>1 DEF MessageSet
<1>9. StreamAt(m2, WithLast(s, e2), d2, TRUE, TRUE, entry2)
  <2> DEFINE array == TRUE
  <2>1. StreamAt(m, s, d, TRUE, array, entry) /\ MembersAt(m2, ys, from, d2, array, entry2)
    BY <1>6
  <2>2. e2 = [Last(s) EXCEPT !.members = ys]
    OBVIOUS
  <2> HIDE DEF array, ys, e2
  <2>3. StreamAt(m2, WithLast(s, e2), d2, TRUE, array, entry2)
    BY <1>5, <1>7, <2>1, <2>2, MessageLift
  <2> QED  BY <2>3 DEF array
<1>10. WithEntries(s, es) = WithLast(s, e2)
  BY DEF WithEntries
<1> HIDE DEF x, y, ys, e2
<1> QED  BY <1>9, <1>10

\* A field of an entry.
LEMMA EntryFieldWritten ==
    ASSUME NEW m, MemOK(m), NEW w \in WriterSet, NEW s \in Seq(MessageSet), Stream(m, w, s),
           w.data \in Offset, w.entry, w.count < MaxMembers, NEW id \in Ids, NEW item, Fits(item, id),
           NEW w2 \in WriterSet, w2 = [w EXCEPT !.data = @ + item.bytes, !.count = @ + 1],
           NEW m2, m2 = Store(m, w.data, item),
           NEW f, f = FieldOf(id, item.type, item.value, w.data),
           NEW g, g = [Last(OpenMember(s).entries) EXCEPT !.fields = Append(@, f)],
           NEW gs, gs = WithLast(OpenMember(s).entries, g)
    PROVE  /\ MemOK(m2) /\ Stream(m2, w2, WithEntries(s, gs))
           /\ WithEntries(s, gs) \in Seq(MessageSet)
<1> DEFINE d == w.data
           d2 == d + item.bytes
           es == OpenMember(s).entries
           e == Last(es)
           start == EntriesStart(s)
           s2 == WithEntries(s, gs)
<1>1. /\ MemOK(m2) /\ \A p : Keeps(m, m2, p, d)
      /\ f \in FieldSet /\ f.at = d
      /\ d \in Nat /\ d2 \in Nat /\ d < d2
      /\ FieldAt(m2, f, d2)
  BY FieldStored
<1>2. w.event = TRUE /\ w.array = TRUE /\ w.entry = TRUE
  BY DEF WriterSet, Stream
<1>3. StreamAt(m, s, d, TRUE, TRUE, TRUE)
  BY <1>2 DEF Stream
<1> DEFINE entry == w.entry
<1>4. StreamAt(m, s, d, TRUE, TRUE, entry)
  BY <1>2 DEF Stream
<1> HIDE DEF d2
<1>5. /\ es \in Seq(EntrySet) /\ start \in Nat /\ start <= d /\ Start <= start
      /\ EntriesAt(m, es, start, d, entry)
  BY <1>1, <1>4, OpenEntries
<1>6. EntriesAt(m, es, start, d, TRUE)
  BY <1>2, <1>5
<1> HIDE DEF start
<1>7. /\ es # << >> /\ e \in EntrySet /\ e.at \in Nat /\ start <= e.at /\ e.at < d
      /\ e.fields \in Seq(FieldSet) /\ FieldsAt(m, e.fields, e.at + 7, d) /\ e.at + 7 <= d
  BY <1>1, <1>5, <1>6, OpenEntry
<1>8. /\ FieldsAt(m2, Append(e.fields, f), e.at + 7, d2)
      /\ Append(e.fields, f) \in Seq(FieldSet) /\ Len(Append(e.fields, f)) = Len(e.fields) + 1
  <2> DEFINE hs == e.fields
             p == e.at + 7
  <2>1. hs \in Seq(FieldSet) /\ p \in Nat /\ FieldsAt(m, hs, p, d) /\ Keeps(m, m2, p, d)
    BY <1>1, <1>7
  <2>2. f \in FieldSet /\ f.at = d /\ d < d2 /\ FieldAt(m2, f, d2) /\ d \in Nat /\ d2 \in Nat
    BY <1>1
  <2> HIDE DEF hs, p, d
  <2>3. /\ FieldsAt(m2, Append(hs, f), p, d2)
        /\ Append(hs, f) \in Seq(FieldSet) /\ Len(Append(hs, f)) = Len(hs) + 1
    BY <2>1, <2>2, FieldsAppend
  <2> QED  BY <2>3 DEF hs, p
<1>9. w.count = Len(e.fields)
  BY DEF Stream, OpenMember
<1>10. Len(Append(e.fields, f)) <= MaxMembers
  <2>1. Len(e.fields) \in Nat
    BY <1>7, LenProperties
  <2> QED  BY <1>8, <1>9, <2>1, StreamAssumption
<1> DEFINE fs == Append(e.fields, f)
<1>11. g = [e EXCEPT !.fields = fs]
  OBVIOUS
<1> HIDE DEF fs
<1>12. g \in EntrySet /\ g.at = e.at /\ g.fields = fs
  <2> HIDE DEF e
  <2> QED  BY <1>7, <1>8, <1>11 DEF EntrySet, fs
<1>13. EntriesAt(m2, WithLast(es, g), start, d2, TRUE)
  <2>1. FieldsAt(m2, fs, Last(es).at + 7, d2) /\ fs \in Seq(FieldSet) /\ Len(fs) <= MaxMembers
    BY <1>8, <1>10 DEF fs
  <2>2. Keeps(m, m2, start, Last(es).at + 7)
    BY <1>1, <1>7 DEF Keeps
  <2>3. d <= d2 /\ d \in Nat /\ d2 \in Nat
    BY <1>1
  <2>4. es \in Seq(EntrySet) /\ start \in Nat
    BY <1>5
  <2>5. g = [Last(es) EXCEPT !.fields = fs]
    BY <1>11
  <2> HIDE DEF es, d
  <2> QED  BY <1>6, <2>1, <2>2, <2>3, <2>4, <2>5, EntryLift
<1>14. gs \in Seq(EntrySet) /\ Last(gs) = g
  <2>1. WithLast(es, g) \in Seq(EntrySet) /\ Last(WithLast(es, g)) = g
    <3> HIDE DEF es
    <3> QED  BY <1>5, <1>7, <1>12, LastReplaced
  <2> QED  BY <2>1
<1>15. Keeps(m, m2, Start, start)
  BY <1>1, <1>5 DEF Keeps
<1>16. gs = WithLast(es, g)
  OBVIOUS
<1>17. /\ StreamAt(m2, s2, d2, TRUE, TRUE, entry)
       /\ s2 \in Seq(MessageSet) /\ Last(s2).at = Last(s).at
       /\ OpenMember(s2).at = OpenMember(s).at /\ OpenMember(s2).entries = gs
  <2>1. EntriesAt(m2, gs, start, d2, entry) /\ gs \in Seq(EntrySet)
    <3> HIDE DEF es
    <3> QED  BY <1>2, <1>13, <1>14, <1>16
  <2>2. Keeps(m, m2, Start, start) /\ d <= d2 /\ d \in Nat /\ d2 \in Nat
    BY <1>1, <1>15
  <2> HIDE DEF entry, d
  <2>3. /\ StreamAt(m, s, d, TRUE, TRUE, entry)
        /\ EntriesAt(m2, gs, EntriesStart(s), d2, entry)
        /\ Keeps(m, m2, Start, EntriesStart(s))
    BY <1>4, <2>1, <2>2 DEF start
  <2>4. StreamAt(m2, WithEntries(s, gs), d2, TRUE, TRUE, entry)
    BY <2>1, <2>2, <2>3, EntriesLift
  <2>5. /\ WithEntries(s, gs) \in Seq(MessageSet)
        /\ Last(WithEntries(s, gs)).at = Last(s).at
        /\ OpenMember(WithEntries(s, gs)).at = OpenMember(s).at
        /\ OpenMember(WithEntries(s, gs)).entries = gs
    <3>1. s # << >> /\ Last(s).members # << >>
      BY <2>2, <2>3, OpenEntries
    <3> QED  BY <2>1, <3>1, WithEntriesIs
  <2> QED  BY <2>4, <2>5
<1>18. /\ w2.data = d2 /\ w2.event = TRUE /\ w2.array = TRUE /\ w2.entry = w.entry
       /\ w2.eventOffset = w.eventOffset /\ w2.arrayOffset = w.arrayOffset
       /\ w2.entryOffset = w.entryOffset /\ w2.count = w.count + 1
  BY <1>2 DEF WriterSet, d2
<1> HIDE DEF s2
<1>19. Stream(m2, w2, s2)
  <2>1. /\ w.eventOffset = Last(s).at /\ w.arrayOffset = OpenMember(s).at
        /\ w.entryOffset = e.at
    BY <1>2 DEF Stream, OpenMember
  <2>2. w2.count = Len(g.fields)
    BY <1>8, <1>9, <1>12, <1>18 DEF fs
  <2>3. StreamAt(m2, s2, w2.data, w2.event, w2.array, w2.entry)
    BY <1>2, <1>17, <1>18
  <2>4. Last(OpenMember(s2).entries) = g
    BY <1>14, <1>17
  <2> HIDE DEF e
  <2>5. /\ w2.eventOffset = Last(s2).at /\ w2.arrayOffset = OpenMember(s2).at
        /\ w2.entryOffset = Last(OpenMember(s2).entries).at
        /\ w2.count = Len(Last(OpenMember(s2).entries).fields)
    BY <1>12, <1>17, <1>18, <2>1, <2>2, <2>4
  <2> QED  BY <1>18, <2>3, <2>5 DEF Stream, OpenMember
<1> QED  BY <1>1, <1>17, <1>19 DEF s2

LEMMA EventBegun ==
    ASSUME NEW m, MemOK(m), NEW w \in WriterSet, NEW s \in Seq(MessageSet), Stream(m, w, s),
           ~w.event, NEW v \in Events, w.data + 7 + RequestBytes <= MaxBytes,
           NEW w2 \in WriterSet,
           w2 = [w EXCEPT !.data = @ + 7 + RequestBytes, !.request_id = @ + 1,
                          !.eventOffset = w.data, !.event = TRUE],
           NEW m2, m2 = Store(Store(m, w.data, EventHeader(v)), w.data + 7,
                              RequestField(w.request_id)),
           NEW e, e = [event |-> v, request |-> w.request_id, at |-> w.data, members |-> << >>]
    PROVE  MemOK(m2) /\ Stream(m2, w2, Append(s, e)) /\ Append(s, e) \in Seq(MessageSet)
<1> DEFINE d == w.data
           d2 == d + 7 + RequestBytes
           h == EventHeader(v)
           f == RequestField(w.request_id)
           m1 == Store(m, d, h)
<1>1. w.event = FALSE /\ w.array = FALSE /\ w.entry = FALSE /\ w.request_id \in Nat
  BY DEF WriterSet, Stream
<1>2. d \in Nat /\ d + 7 \in Nat /\ d2 \in Nat /\ d < d + 7 /\ d + 7 < d2 /\ d2 <= MaxBytes
  <2>1. RequestBytes \in Nat /\ RequestBytes > 0 /\ d \in Nat
    BY IdLengths DEF WriterSet
  <2> QED  BY <2>1
<1>3. d \in Offset /\ d + 7 \in Offset
  BY <1>2, StreamAssumption DEF Offset
<1>4. h \in Item /\ h.type = "Event" /\ h.id = "" /\ h.value = v
  <2>1. v \in Nat
    BY StreamAssumption
  <2> QED  BY <2>1 DEF h, EventHeader, Header, Item
<1>5. /\ f \in Item /\ f.type = "U64" /\ f.id = RequestId /\ f.value = w.request_id
      /\ f.size = RequestBytes
  BY <1>1, RequestFieldIs
<1> HIDE DEF h, f, d2
<1>6. /\ MemOK(m1) /\ d \in DOMAIN m1 /\ m1[d] = h /\ Keeps(m, m1, Start, d)
  <2>1. h \in Item /\ d \in Offset
    BY <1>3, <1>4
  <2> HIDE DEF d
  <2>2. /\ d \in DOMAIN Store(m, d, h) /\ Store(m, d, h)[d] = h
        /\ \A from : Keeps(m, Store(m, d, h), from, d)
        /\ MemOK(Store(m, d, h))
    BY <2>1, StoreIs
  <2> QED  BY <2>2
<1> HIDE DEF m1
<1>7. /\ MemOK(m2) /\ d + 7 \in DOMAIN m2 /\ m2[d + 7] = f /\ Keeps(m1, m2, Start, d + 7)
      /\ Keeps(m1, m2, d, d + 7)
  <2>1. m2 = Store(m1, d + 7, f)
    BY DEF m1, h, f
  <2> QED  BY <1>3, <1>5, <1>6, <2>1, StoreIs
<1>8. d \in DOMAIN m2 /\ m2[d] = h
  BY <1>2, <1>6, <1>7, KeptAt
<1>9. Keeps(m, m2, Start, d)
  BY <1>2, <1>6, <1>7 DEF Keeps, Start
<1>10. e \in MessageSet /\ e.at = d /\ e.event = v /\ e.request = w.request_id /\ e.members = << >>
  <2>1. << >> \in Seq(MemberSet)
    BY EmptySeq
  <2> QED  BY <1>1, <1>2, <2>1 DEF MessageSet
<1>11. MessageAt(m2, e, d2, TRUE, FALSE, FALSE)
  <2>1. MembersAt(m2, << >>, d2, d2, FALSE, FALSE)
    BY <1>2, EmptyChain DEF MembersAt
  <2>2. e.at + 7 + RequestBytes = d2
    BY <1>10 DEF d2
  <2>3. Has(m2, e.at, "Event", "", e.event)
    BY <1>4, <1>8, <1>10 DEF Has
  <2>4. Has(m2, e.at + 7, "U64", RequestId, e.request) /\ m2[e.at + 7].size = RequestBytes
    BY <1>5, <1>7, <1>10 DEF Has
  <2>5. MembersAt(m2, e.members, e.at + 7 + RequestBytes, d2, FALSE /\ TRUE, FALSE)
    BY <1>10, <2>1, <2>2 DEF MembersAt
  <2> QED  BY <2>3, <2>4, <2>5 DEF MessageAt
<1>12. /\ StreamAt(m2, Append(s, e), d2, TRUE, FALSE, FALSE)
       /\ Append(s, e) \in Seq(MessageSet) /\ Len(Append(s, e)) = Len(s) + 1
       /\ Append(s, e)[Len(s) + 1] = e
  <2> DEFINE open == TRUE
             array == w.array
             entry == w.entry
  <2>1. StreamAt(m, s, d, FALSE, array, entry)
    BY <1>1 DEF Stream
  <2>2. MessageAt(m2, e, d2, open, FALSE, FALSE)
    BY <1>11
  <2>4. d < d2 /\ d2 \in Nat /\ d \in Nat
    <3> HIDE DEF d
    <3> QED  BY <1>2
  <2> HIDE DEF open, array, entry, d
  <2>3. StreamAt(m2, Append(s, e), d2, open, FALSE, FALSE)
    BY <1>9, <1>10, <2>1, <2>2, <2>4, StreamAppend
  <2>5. /\ Append(s, e) \in Seq(MessageSet) /\ Len(Append(s, e)) = Len(s) + 1
        /\ Append(s, e)[Len(s) + 1] = e
    BY <1>10, AppendProperties
  <2> QED  BY <2>3, <2>5 DEF open
<1>13. Last(Append(s, e)) = e
  BY <1>12 DEF Last
<1>14. w2.data = d2 /\ w2.event = TRUE /\ w2.array = FALSE /\ w2.entry = FALSE /\ w2.eventOffset = d
  BY <1>1 DEF WriterSet, d2
<1>15. Stream(m2, w2, Append(s, e))
  BY <1>10, <1>12, <1>13, <1>14 DEF Stream
<1> QED  BY <1>7, <1>12, <1>15

LEMMA EventEnded ==
    ASSUME NEW m, MemOK(m), NEW w \in WriterSet, NEW s \in Seq(MessageSet), Stream(m, w, s),
           w.event, ~w.array, w.data <= MaxBytes,
           NEW w2 \in WriterSet, w2 = [w EXCEPT !.event = FALSE],
           NEW m2, m2 = Sized(m, w.eventOffset, w.data)
    PROVE  MemOK(m2) /\ Stream(m2, w2, s)
<1> DEFINE d == w.data
           e == Last(s)
           from == e.at + 7 + RequestBytes
<1>1. w.event = TRUE /\ w.array = FALSE /\ w.entry = FALSE /\ w.eventOffset = e.at /\ d \in Nat
  BY DEF WriterSet, Stream
<1> DEFINE array == w.array
           entry == w.entry
<1>2. StreamAt(m, s, d, TRUE, array, entry)
  BY <1>1 DEF Stream
<1> HIDE DEF array, entry
<1>3. /\ s # << >> /\ e = s[Len(s)] /\ e \in MessageSet /\ e.at \in Nat /\ Start <= e.at /\ e.at < d
      /\ MessageAt(m, e, d, TRUE, array, entry)
      /\ e.members \in Seq(MemberSet) /\ from \in Nat
      /\ MembersAt(m, e.members, from, d, array, entry)
  BY <1>1, <1>2, OpenMessage
<1> HIDE DEF e
<1>4. /\ Has(m, e.at, "Event", "", e.event)
      /\ Has(m, e.at + 7, "U64", RequestId, e.request) /\ m[e.at + 7].size = RequestBytes
  BY <1>3 DEF MessageAt
<1>5. d - e.at \in Nat /\ (d - e.at) % W32 = d - e.at
  <2>0. MaxBytes < W32 /\ MaxBytes \in Nat /\ W32 \in Nat
    BY StreamAssumption, IdLengths DEF Start
  <2>1. d - e.at \in Nat /\ d - e.at < W32
    <3>1. d <= MaxBytes
      OBVIOUS
    <3> HIDE DEF d
    <3> QED  BY <1>1, <1>3, <2>0, <3>1
  <2> QED  BY <2>1, IdLengths, ModRange
<1>6. e.at \in DOMAIN m
  BY <1>4 DEF Has
<1>7. /\ DOMAIN m2 = DOMAIN m /\ MemOK(m2)
      /\ m2[e.at].type = m[e.at].type /\ m2[e.at].id = m[e.at].id
      /\ m2[e.at].value = m[e.at].value /\ m2[e.at].size = d - e.at
      /\ \A p \in DOMAIN m : p # e.at => m2[p] = m[p]
  <2>1. m2 = Sized(m, e.at, d)
    BY <1>1
  <2>2. d \in Int /\ e.at \in DOMAIN m
    BY <1>1, <1>6
  <2> DEFINE o == e.at
  <2> HIDE DEF d, o
  <2>3. o \in DOMAIN m /\ m2 = Sized(m, o, d)
    BY <2>1, <2>2 DEF o
  <2>4. /\ DOMAIN m2 = DOMAIN m /\ MemOK(m2)
        /\ m2[o].type = m[o].type /\ m2[o].id = m[o].id
        /\ m2[o].value = m[o].value /\ m2[o].size = (d - o) % W32
        /\ \A p \in DOMAIN m : p # o => m2[p] = m[p]
    BY <2>2, <2>3, HeaderSized
  <2> QED  BY <1>5, <2>4 DEF o
<1>8. e.at # e.at + 7 /\ e.at < from
  <2>1. RequestBytes \in Nat
    BY IdLengths
  <2> QED  BY <1>3, <2>1
<1>9. Keeps(m, m2, Start, e.at) /\ Keeps(m, m2, from, d)
  BY <1>3, <1>7, <1>8 DEF Keeps
<1>10. MembersAt(m2, e.members, from, d, array, entry)
  <2> HIDE DEF from, d
  <2> QED  BY <1>1, <1>3, <1>9, MembersKept
<1>11. MembersAt(m2, e.members, from, d, FALSE, FALSE)
  BY <1>1, <1>10 DEF array, entry
<1>12. MessageAt(m2, e, d, FALSE, FALSE, FALSE)
  <2>1. Has(m2, e.at, "Event", "", e.event)
    BY <1>4, <1>7 DEF Has
  <2>2. Has(m2, e.at + 7, "U64", RequestId, e.request) /\ m2[e.at + 7].size = RequestBytes
    BY <1>4, <1>7, <1>8 DEF Has
  <2>3. MembersAt(m2, e.members, e.at + 7 + RequestBytes, d, FALSE /\ FALSE, FALSE)
    BY <1>11 DEF MembersAt
  <2> QED  BY <1>7, <2>1, <2>2, <2>3 DEF MessageAt
<1>13. StreamAt(m2, s, d, FALSE, FALSE, FALSE)
  <2> DEFINE open == TRUE
             no == FALSE
  <2>1. StreamAt(m, s, d, open, array, entry) /\ MessageAt(m2, e, d, no, no, no)
    BY <1>2, <1>12
  <2>2. e.at = s[Len(s)].at /\ Keeps(m, m2, Start, s[Len(s)].at) /\ d <= d /\ d \in Nat
    BY <1>1, <1>3, <1>9
  <2> HIDE DEF open, no, d
  <2>3. StreamAt(m2, WithLast(s, e), d, no, no, no)
    BY <1>3, <2>1, <2>2, StreamGrow
  <2>4. WithLast(s, e) = s
    BY <1>3, SameLast DEF e
  <2> QED  BY <2>3, <2>4 DEF no
<1>14. /\ w2.data = d /\ w2.event = FALSE /\ w2.array = FALSE /\ w2.entry = FALSE
  BY <1>1 DEF WriterSet
<1>15. Stream(m2, w2, s)
  BY <1>13, <1>14 DEF Stream
<1> QED  BY <1>7, <1>15

LEMMA ArrayBegun ==
    ASSUME NEW m, MemOK(m), NEW w \in WriterSet, NEW s \in Seq(MessageSet), Stream(m, w, s),
           w.event, ~w.array, w.data \in Offset, NEW id \in Ids,
           NEW w2 \in WriterSet,
           w2 = [w EXCEPT !.data = @ + (Len(id) + 6), !.arrayOffset = w.data, !.array = TRUE],
           NEW m2, m2 = Store(m, w.data, ArrayHeader(id)),
           NEW x, x = FieldOf(id, "Array", 0, w.data),
           NEW e2, e2 = [Last(s) EXCEPT !.members = Append(@, x)]
    PROVE  MemOK(m2) /\ Stream(m2, w2, WithLast(s, e2)) /\ WithLast(s, e2) \in Seq(MessageSet)
<1> DEFINE d == w.data
           h == ArrayHeader(id)
           d2 == d + (Len(id) + 6)
           xs == Last(s).members
           from == Last(s).at + 7 + RequestBytes
           s2 == WithLast(s, e2)
<1>1. w.event = TRUE /\ w.array = FALSE /\ w.entry = FALSE /\ d \in Nat
  BY DEF WriterSet, Stream
<1>2. d2 \in Nat /\ d < d2 /\ Len(id) \in Nat
  <2>1. Len(id) \in Nat
    BY IdLengths
  <2> QED  BY <1>1, <2>1
<1>3. h \in Item /\ h.type = "Array" /\ h.id = id /\ h.value = 0
  <2>1. Len(id) + 6 \in Nat
    BY <1>2
  <2> QED  BY <1>2, <2>1 DEF h, ArrayHeader, Header, Item
<1> HIDE DEF h
<1>4. MemOK(m2) /\ d \in DOMAIN m2 /\ m2[d] = h /\ \A p : Keeps(m, m2, p, d)
  <2>1. m2 = Store(m, d, h)
    BY DEF h
  <2> QED  BY <1>3, <2>1, StoreIs
<1>5. /\ x \in MemberSet /\ x.type = "Array" /\ x.at = d /\ x.id = id /\ x.value = 0
      /\ x.entries = << >>
  <2>1. << >> \in Seq(EntrySet)
    BY EmptySeq
  <2> QED  BY <1>1, <2>1 DEF FieldOf, MemberSet
<1>6. MemberAt(m2, x, d2, TRUE, FALSE)
  <2>1. EntriesAt(m2, << >>, d2, d2, FALSE)
    BY <1>2, EmptyChain DEF EntriesAt
  <2>2. x.at + Len(x.id) + 6 = d2
    BY <1>1, <1>2, <1>5
  <2>3. Has(m2, x.at, "Array", x.id, 0)
    BY <1>3, <1>4, <1>5 DEF Has
  <2>4. ArrayAt(m2, x, d2, TRUE, FALSE)
    BY <1>5, <2>1, <2>2, <2>3 DEF ArrayAt
  <2> QED  BY <1>5, <2>4 DEF MemberAt
<1> DEFINE entry == w.entry
           array == w.array
<1>7. StreamAt(m, s, d, TRUE, array, entry)
  BY <1>1 DEF Stream
<1> HIDE DEF d2, array, entry
<1>8. /\ xs \in Seq(MemberSet) /\ from \in Nat /\ from <= d /\ Last(s) \in MessageSet
      /\ MembersAt(m, xs, from, d, array, entry) /\ s # << >>
  BY <1>1, <1>7, OpenMessage
<1>9. Append(xs, x) \in Seq(MemberSet) /\ Last(Append(xs, x)) = x
  <2> HIDE DEF xs
  <2> QED  BY <1>5, <1>8, AppendProperties DEF Last
<1>10. MembersAt(m2, Append(xs, x), from, d2, TRUE, FALSE)
  <2> DEFINE yes == TRUE
             no == FALSE
  <2>1. MembersAt(m, xs, from, d, FALSE, entry)
    BY <1>1, <1>8 DEF array
  <2>2. Keeps(m, m2, from, d) /\ x.at = d /\ d < d2 /\ d \in Nat /\ d2 \in Nat
    BY <1>1, <1>2, <1>4, <1>5
  <2>3. MemberAt(m2, x, d2, yes, no)
    BY <1>6
  <2>4. x \in MemberSet /\ xs \in Seq(MemberSet) /\ from \in Nat
    BY <1>5, <1>8
  <2> HIDE DEF xs, from, d, yes, no
  <2>5. MembersAt(m2, Append(xs, x), from, d2, yes, no)
    BY <2>1, <2>2, <2>3, <2>4, MembersAppend
  <2> QED  BY <2>5 DEF yes, no
<1>11. Keeps(m, m2, Start, from)
  BY <1>1, <1>4, <1>8 DEF Keeps
<1>12. StreamAt(m2, s2, d2, TRUE, TRUE, FALSE)
  <2> DEFINE yes == TRUE
             no == FALSE
             ys == Append(xs, x)
  <2>1. ys \in Seq(MemberSet) /\ MembersAt(m2, ys, from, d2, yes, no)
    BY <1>9, <1>10
  <2>2. d <= d2 /\ d \in Nat /\ d2 \in Nat /\ e2 = [Last(s) EXCEPT !.members = ys]
    BY <1>1, <1>2
  <2> HIDE DEF yes, no, ys, d
  <2>3. StreamAt(m2, s2, d2, TRUE, yes, no)
    BY <1>7, <1>11, <2>1, <2>2, MessageLift
  <2> QED  BY <2>3 DEF yes, no
<1>13. e2 \in MessageSet /\ e2.at = Last(s).at /\ e2.members = Append(xs, x)
  <2> DEFINE ys == Append(xs, x)
  <2>1. ys \in Seq(MemberSet) /\ e2 = [Last(s) EXCEPT !.members = ys]
    BY <1>9
  <2> HIDE DEF ys
  <2>2. e2 \in MessageSet /\ e2.at = Last(s).at /\ e2.members = ys
    BY <1>8, <2>1 DEF MessageSet
  <2> QED  BY <2>2 DEF ys
<1>14. s2 \in Seq(MessageSet) /\ Last(s2) = e2
  BY <1>8, <1>13, LastReplaced
<1>15. /\ w2.data = d2 /\ w2.event = TRUE /\ w2.array = TRUE /\ w2.entry = FALSE
       /\ w2.eventOffset = w.eventOffset /\ w2.arrayOffset = d
  BY <1>1 DEF WriterSet, d2
<1> HIDE DEF s2
<1>16. Stream(m2, w2, s2)
  <2>1. w.eventOffset = Last(s).at
    BY DEF Stream
  <2>2. Last(Last(s2).members) = x
    BY <1>9, <1>13, <1>14
  <2> QED  BY <1>5, <1>12, <1>13, <1>14, <1>15, <2>1, <2>2 DEF Stream
<1> QED  BY <1>4, <1>14, <1>16 DEF s2


LEMMA SameEntries ==
    ASSUME NEW s \in Seq(MessageSet), s # << >>, Last(s).members # << >>
    PROVE  /\ WithEntries(s, OpenMember(s).entries) = s
           /\ [Last(s) EXCEPT !.members = Last(s).members] = Last(s)
<1> DEFINE e == Last(s)
           x == OpenMember(s)
<1>1. e \in MessageSet
  BY LastIn
<1>2. e.members \in Seq(MemberSet) /\ [e EXCEPT !.members = e.members] = e
  <2> HIDE DEF e
  <2> QED  BY <1>1 DEF MessageSet
<1>3. x \in MemberSet /\ x = Last(e.members)
  BY <1>2, LastIn DEF OpenMember
<1>4. [x EXCEPT !.entries = x.entries] = x
  <2> HIDE DEF x
  <2> QED  BY <1>3 DEF MemberSet
<1>5. WithLast(e.members, x) = e.members
  <2> HIDE DEF x
  <2> QED  BY <1>2, <1>3, SameLast
<1>6. WithEntries(s, x.entries) =
          WithLast(s, [e EXCEPT !.members = WithLast(e.members, [x EXCEPT !.entries = x.entries])])
  BY DEF WithEntries
<1>7. WithLast(s, e) = s
  BY SameLast
<1> HIDE DEF e, x
<1>8. WithEntries(s, x.entries) = s
  BY <1>2, <1>4, <1>5, <1>6, <1>7
<1> QED  BY <1>2, <1>8 DEF e, x

LEMMA EntryBegun ==
    ASSUME NEW m, MemOK(m), NEW w \in WriterSet, NEW s \in Seq(MessageSet), Stream(m, w, s),
           w.array, ~w.entry, w.data \in Offset,
           NEW w2 \in WriterSet,
           w2 = [w EXCEPT !.data = @ + 7, !.entryOffset = w.data, !.entry = TRUE, !.count = 0],
           NEW m2, m2 = Store(m, w.data, EntryHeader),
           NEW g, g = [at |-> w.data, fields |-> << >>],
           NEW gs, gs = Append(OpenMember(s).entries, g)
    PROVE  /\ MemOK(m2) /\ Stream(m2, w2, WithEntries(s, gs))
           /\ WithEntries(s, gs) \in Seq(MessageSet)
<1> DEFINE d == w.data
           d2 == d + 7
           es == OpenMember(s).entries
           start == EntriesStart(s)
           s2 == WithEntries(s, gs)
           entry == w.entry
           yes == TRUE
<1>1. w.event = TRUE /\ w.array = TRUE /\ w.entry = FALSE /\ d \in Nat
  BY DEF WriterSet, Stream
<1>2. StreamAt(m, s, d, TRUE, TRUE, entry)
  BY <1>1 DEF Stream
<1>3. /\ MemOK(m2) /\ \A p : Keeps(m, m2, p, d)
      /\ d \in DOMAIN m2 /\ m2[d] = EntryHeader
  <2> DEFINE h == EntryHeader
  <2>1. d \in Offset /\ m2 = Store(m, d, h) /\ h \in Item
    BY EntryHeaderIs DEF d
  <2> HIDE DEF d, h
  <2>2. /\ d \in DOMAIN Store(m, d, h) /\ Store(m, d, h)[d] = h
        /\ \A from : Keeps(m, Store(m, d, h), from, d)
        /\ MemOK(Store(m, d, h))
    BY <2>1, StoreIs
  <2> QED  BY <2>1, <2>2 DEF h
<1>4. d2 \in Nat /\ d < d2
  BY <1>1
<1>5. /\ s # << >> /\ Last(s).members # << >>
      /\ es \in Seq(EntrySet) /\ start \in Nat /\ start <= d /\ Start <= start
      /\ EntriesAt(m, es, start, d, entry)
  BY <1>1, <1>2, OpenEntries
<1>6. g \in EntrySet /\ g.at = d /\ g.fields = << >>
  <2>1. << >> \in Seq(FieldSet)
    BY EmptySeq
  <2> QED  BY <1>1, <2>1 DEF EntrySet
<1>7. EntryAt(m2, g, d2, TRUE)
  <2>1. FieldsAt(m2, << >>, d2, d2)
    BY <1>4, EmptyChain DEF FieldsAt
  <2>2. g.at \in DOMAIN m2 /\ m2[g.at].type = "ArrayEntry"
    BY <1>3, <1>6, EntryHeaderIs
  <2>3. Len(g.fields) <= MaxMembers
    BY <1>6, StreamAssumption
  <2>4. FieldsAt(m2, g.fields, g.at + 7, d2)
    BY <1>6, <2>1
  <2> QED  BY <2>2, <2>3, <2>4 DEF EntryAt
<1> HIDE DEF d2, start, d
<1>8. EntriesAt(m2, gs, start, d2, yes) /\ gs \in Seq(EntrySet) /\ Last(gs) = g
  <2>1. EntriesAt(m, es, start, d, FALSE)
    BY <1>1, <1>5
  <2>2. EntryAt(m2, g, d2, yes)
    BY <1>7
  <2>3. Keeps(m, m2, start, d)
    BY <1>3
  <2>6. /\ es \in Seq(EntrySet) /\ start \in Nat /\ d \in Nat /\ d2 \in Nat /\ d < d2
        /\ g \in EntrySet /\ g.at = d
    BY <1>1, <1>4, <1>5, <1>6
  <2> HIDE DEF es, yes
  <2>4. EntriesAt(m2, Append(es, g), start, d2, yes)
    BY <2>1, <2>2, <2>3, <2>6, EntriesAppend
  <2>7. /\ Append(es, g) \in Seq(EntrySet) /\ Len(Append(es, g)) = Len(es) + 1
        /\ Append(es, g)[Len(es) + 1] = g
    BY <2>6, AppendProperties
  <2>5. gs = Append(es, g)
    BY DEF es
  <2> QED  BY <2>4, <2>5, <2>7 DEF Last
<1>9. Keeps(m, m2, Start, start) /\ d <= d2
  BY <1>1, <1>3, <1>4, <1>5 DEF Keeps
<1>10. StreamAt(m2, s2, d2, TRUE, TRUE, yes)
  <2> HIDE DEF yes, entry
  <2>1. Keeps(m, m2, Start, EntriesStart(s)) /\ EntriesAt(m2, gs, EntriesStart(s), d2, yes)
    BY <1>8, <1>9 DEF start
  <2> QED  BY <1>1, <1>2, <1>4, <1>8, <1>9, <2>1, EntriesLift
<1>11. /\ s2 \in Seq(MessageSet) /\ Last(s2).at = Last(s).at
       /\ OpenMember(s2).at = OpenMember(s).at /\ OpenMember(s2).entries = gs
  BY <1>5, <1>8, WithEntriesIs
<1>12. /\ w2.data = d2 /\ w2.event = TRUE /\ w2.array = TRUE /\ w2.entry = TRUE
       /\ w2.eventOffset = w.eventOffset /\ w2.arrayOffset = w.arrayOffset
       /\ w2.entryOffset = d /\ w2.count = 0
  BY <1>1 DEF WriterSet, d2, d
<1> HIDE DEF s2
<1>13. Stream(m2, w2, s2)
  <2>1. /\ w.eventOffset = Last(s).at /\ w.arrayOffset = OpenMember(s).at
    BY <1>1 DEF Stream, OpenMember
  <2>2. StreamAt(m2, s2, w2.data, w2.event, w2.array, w2.entry)
    BY <1>10, <1>12
  <2>3. Last(OpenMember(s2).entries) = g
    BY <1>8, <1>11
  <2>4. /\ w2.eventOffset = Last(s2).at /\ w2.arrayOffset = OpenMember(s2).at
        /\ w2.entryOffset = Last(OpenMember(s2).entries).at
        /\ w2.count = Len(Last(OpenMember(s2).entries).fields)
    BY <1>6, <1>11, <1>12, <2>1, <2>3
  <2> QED  BY <1>12, <2>2, <2>4 DEF Stream, OpenMember
<1> QED  BY <1>3, <1>11, <1>13 DEF s2

LEMMA EntryEnded ==
    ASSUME NEW m, MemOK(m), NEW w \in WriterSet, NEW s \in Seq(MessageSet), Stream(m, w, s),
           w.entry, w.data <= MaxBytes,
           NEW w2 \in WriterSet, w2 = [w EXCEPT !.entry = FALSE],
           NEW m1, m1 = Sized(m, w.entryOffset, w.data),
           NEW m2, m2 = Counted(m1, w.entryOffset, w.count)
    PROVE  MemOK(m2) /\ Stream(m2, w2, s)
<1> DEFINE d == w.data
           es == OpenMember(s).entries
           e == Last(es)
           o == e.at
           start == EntriesStart(s)
           entry == w.entry
           no == FALSE
<1>1. /\ w.event = TRUE /\ w.array = TRUE /\ w.entry = TRUE /\ d \in Nat
      /\ w.entryOffset = o /\ w.count = Len(e.fields)
  BY DEF WriterSet, Stream, OpenMember
<1>2. StreamAt(m, s, d, TRUE, TRUE, entry)
  BY <1>1 DEF Stream
<1>3. /\ s # << >> /\ Last(s).members # << >>
      /\ es \in Seq(EntrySet) /\ start \in Nat /\ start <= d /\ Start <= start
      /\ EntriesAt(m, es, start, d, entry)
  BY <1>1, <1>2, OpenEntries
<1>4. EntriesAt(m, es, start, d, TRUE)
  BY <1>1, <1>3
<1> HIDE DEF start
<1>5. /\ es # << >> /\ Len(es) \in 1..Len(es) /\ e = es[Len(es)]
      /\ e \in EntrySet /\ o \in Nat /\ start <= o /\ o < d
      /\ EntryAt(m, e, d, TRUE) /\ e.fields \in Seq(FieldSet)
      /\ FieldsAt(m, e.fields, o + 7, d)
  BY <1>1, <1>3, <1>4, OpenEntry
<1>6. o \in DOMAIN m /\ m[o].type = "ArrayEntry" /\ Len(e.fields) <= MaxMembers
  BY <1>5 DEF EntryAt
<1>7. Len(e.fields) \in Nat
  BY <1>5, LenProperties
<1>8. d - o \in Nat /\ (d - o) % W32 = d - o /\ w.count \in Nat /\ w.count % W16 = w.count
  <2>1. MaxBytes < W32 /\ MaxBytes \in Nat /\ W32 \in Nat /\ MaxMembers < W16 /\ W16 \in Nat
        /\ MaxMembers \in Nat
    BY StreamAssumption, IdLengths DEF Start
  <2>2. d <= MaxBytes
    OBVIOUS
  <2>4. o \in Nat /\ o < d /\ d \in Nat
    BY <1>1, <1>5
  <2>5. w.count \in Nat /\ w.count <= MaxMembers
    BY <1>1, <1>6, <1>7
  <2> HIDE DEF d, o, e
  <2>3. d - o \in Nat /\ d - o < W32 /\ w.count \in Nat /\ w.count < W16
    BY <2>1, <2>2, <2>4, <2>5
  <2> QED  BY <2>1, <2>3
<1> HIDE DEF d, o, e
<1>9. /\ DOMAIN m1 = DOMAIN m /\ MemOK(m1)
      /\ m1[o].type = m[o].type /\ m1[o].size = d - o
      /\ \A p \in DOMAIN m : p # o => m1[p] = m[p]
  <2>1. d \in Int /\ m1 = Sized(m, o, d)
    BY <1>1 DEF d
  <2> QED  BY <1>6, <1>8, <2>1, HeaderSized
<1>10. /\ DOMAIN m2 = DOMAIN m /\ MemOK(m2)
       /\ m2[o].type = m[o].type /\ m2[o].size = d - o /\ m2[o].value = w.count
       /\ \A p \in DOMAIN m : p # o => m2[p] = m[p]
  <2>1. m2 = Counted(m1, o, w.count)
    BY <1>1
  <2>2. /\ DOMAIN m2 = DOMAIN m1 /\ MemOK(m2)
        /\ m2[o].type = m1[o].type
        /\ m2[o].size = m1[o].size /\ m2[o].value = w.count % W16
        /\ \A p \in DOMAIN m1 : p # o => m2[p] = m1[p]
    BY <1>6, <1>8, <1>9, <2>1, HeaderCounted
  <2> QED  BY <1>8, <1>9, <2>2
<1>11. \A p \in Nat : Keeps(m, m2, p, o)
  BY <1>5, <1>10 DEF Keeps
<1>12. EntryAt(m2, e, d, no)
  <2>1. Keeps(m, m2, o + 7, d) /\ o + 7 \in Nat
    BY <1>5, <1>10 DEF Keeps
  <2>2. FieldsAt(m2, e.fields, o + 7, d)
    BY <1>1, <1>5, <2>1, FieldsKept
  <2>3. e.at = o
    BY DEF o
  <2> QED  BY <1>1, <1>6, <1>10, <2>2, <2>3 DEF EntryAt
<1>13. EntriesAt(m2, es, start, d, no)
  <2>1. Keeps(m, m2, start, es[Len(es)].at) /\ e.at = es[Len(es)].at /\ d <= d
    BY <1>1, <1>3, <1>5, <1>11 DEF o
  <2>2. WithLast(es, e) = es
    <3> HIDE DEF es
    <3> QED  BY <1>3, <1>5, SameLast DEF e
  <2> HIDE DEF es, no
  <2>3. EntriesAt(m2, WithLast(es, e), start, d, no)
    BY <1>1, <1>3, <1>4, <1>5, <1>12, <2>1, EntriesGrow
  <2> QED  BY <2>2, <2>3
<1>14. StreamAt(m2, s, d, TRUE, TRUE, no)
  <2> HIDE DEF no, entry
  <2>1. Keeps(m, m2, Start, EntriesStart(s)) /\ EntriesAt(m2, es, EntriesStart(s), d, no)
    <3>1. Start \in Nat /\ Keeps(m, m2, Start, o)
      BY <1>11 DEF Start
    <3>2. Keeps(m, m2, Start, start)
      BY <1>3, <1>5, <3>1 DEF Keeps
    <3> QED  BY <1>13, <3>2 DEF start
  <2>2. StreamAt(m2, WithEntries(s, es), d, TRUE, TRUE, no)
    <3>1. d <= d
      BY <1>1
    <3> HIDE DEF es
    <3> QED  BY <1>1, <1>2, <1>3, <2>1, <3>1, EntriesLift
  <2>3. WithEntries(s, es) = s
    BY <1>3, SameEntries
  <2> QED  BY <2>2, <2>3
<1>15. /\ w2.data = d /\ w2.event = TRUE /\ w2.array = TRUE /\ w2.entry = FALSE
       /\ w2.eventOffset = w.eventOffset /\ w2.arrayOffset = w.arrayOffset
  BY <1>1 DEF WriterSet, d
<1>16. Stream(m2, w2, s)
  <2>1. w.eventOffset = Last(s).at /\ w.arrayOffset = OpenMember(s).at
    BY <1>1 DEF Stream, OpenMember
  <2> QED  BY <1>14, <1>15, <2>1 DEF Stream, OpenMember
<1> QED  BY <1>10, <1>16

LEMMA ArrayEnded ==
    ASSUME NEW m, MemOK(m), NEW w \in WriterSet, NEW s \in Seq(MessageSet), Stream(m, w, s),
           w.array, ~w.entry, w.data + 7 <= MaxBytes,
           NEW w2 \in WriterSet,
           w2 = [w EXCEPT !.data = @ + 7, !.entryOffset = w.data, !.count = 0, !.array = FALSE],
           NEW m1, m1 = Closing(m, w.data),
           NEW m2, m2 = Sized(m1, w.arrayOffset, w.data + 7)
    PROVE  MemOK(m2) /\ Stream(m2, w2, s)
<1> DEFINE d == w.data
           d2 == d + 7
           ms == Last(s).members
           x == OpenMember(s)
           from == Last(s).at + 7 + RequestBytes
           start == EntriesStart(s)
           entry == w.entry
           no == FALSE
           yes == TRUE
<1>1. /\ w.event = TRUE /\ w.array = TRUE /\ w.entry = FALSE /\ d \in Nat /\ d2 \in Nat /\ d < d2
      /\ w.arrayOffset = x.at /\ w.eventOffset = Last(s).at
  BY DEF WriterSet, Stream, OpenMember
<1>2. StreamAt(m, s, d, TRUE, yes, entry)
  BY <1>1 DEF Stream
<1>3. /\ s # << >> /\ ms \in Seq(MemberSet) /\ ms # << >> /\ from \in Nat
      /\ MembersAt(m, ms, from, d, TRUE, entry)
      /\ x \in MemberSet /\ x.at \in Nat /\ from <= x.at /\ x.at < start
      /\ x.type = "Array" /\ x.entries \in Seq(EntrySet)
      /\ ArrayAt(m, x, d, TRUE, entry)
      /\ start \in Nat /\ start <= d /\ Start <= start
      /\ EntriesAt(m, x.entries, start, d, entry)
  BY <1>1, <1>2, OpenArrayOf DEF OpenMember, EntriesStart
<1>4. Start <= from
  <2>1. Start <= Last(s).at /\ Last(s).at \in Nat
    BY <1>1, <1>2, OpenMessage
  <2>2. RequestBytes \in Nat
    BY IdLengths
  <2> QED  BY <2>1, <2>2 DEF Start
<1>5. x = ms[Len(ms)]
  BY DEF OpenMember, Last
<1>6. Has(m, x.at, "Array", x.id, 0) /\ x.value = 0
  BY <1>3 DEF ArrayAt
<1> HIDE DEF x, start, from, d2, d
<1>7. /\ d \in Offset /\ d2 <= MaxBytes
  BY <1>1, StreamAssumption DEF Offset, d2, d
<1> DEFINE c0 == Store(m, d, EntryHeader)
           c1 == Sized(c0, d, d2)
<1>8. /\ MemOK(c0) /\ \A p : Keeps(m, c0, p, d)
      /\ d \in DOMAIN c0 /\ c0[d] = EntryHeader
  <2> DEFINE h == EntryHeader
  <2>1. h \in Item
    BY EntryHeaderIs
  <2> HIDE DEF h
  <2>2. /\ d \in DOMAIN Store(m, d, h) /\ Store(m, d, h)[d] = h
        /\ \A p : Keeps(m, Store(m, d, h), p, d)
        /\ MemOK(Store(m, d, h))
    BY <1>7, <2>1, StoreIs
  <2> QED  BY <2>2 DEF h
<1> HIDE DEF c0
<1>9. /\ DOMAIN c1 = DOMAIN c0 /\ MemOK(c1)
      /\ c1[d].type = c0[d].type /\ c1[d].id = c0[d].id /\ c1[d].size = 7
      /\ \A p \in DOMAIN c0 : p # d => c1[p] = c0[p]
  <2>1. (d2 - d) % W32 = 7
    <3>1. W32 \in Nat /\ W32 > 7
      <4>1. Byte \in Nat /\ Byte > 1
        BY IdLengths
      <4>2. W16 \in Nat /\ W16 >= 4
        BY <4>1 DEF W16
      <4> QED  BY <4>2 DEF W32
    <3>2. d2 - d = 7
      BY <1>1 DEF d2
    <3> QED  BY <3>1, <3>2
  <2>2. d2 \in Int
    BY <1>1
  <2>3. /\ DOMAIN c1 = DOMAIN c0 /\ MemOK(c1)
        /\ c1[d].type = c0[d].type /\ c1[d].id = c0[d].id
        /\ c1[d].value = c0[d].value /\ c1[d].size = (d2 - d) % W32
        /\ \A p \in DOMAIN c0 : p # d => c1[p] = c0[p]
    <3> DEFINE z == c1
    <3>1. z = Sized(c0, d, d2)
      OBVIOUS
    <3> HIDE DEF z
    <3>2. /\ DOMAIN z = DOMAIN c0 /\ MemOK(z)
          /\ z[d].type = c0[d].type /\ z[d].id = c0[d].id
          /\ z[d].value = c0[d].value /\ z[d].size = (d2 - d) % W32
          /\ \A p \in DOMAIN c0 : p # d => z[p] = c0[p]
      BY <1>8, <2>2, <3>1, HeaderSized
    <3> QED  BY <3>2 DEF z
  <2> QED  BY <2>1, <2>3
<1>10. m1 = Counted(c1, d, 0)
  BY DEF Closing, c1, c0, d2, d
<1> HIDE DEF c1
<1>11. /\ DOMAIN m1 = DOMAIN c0 /\ MemOK(m1)
       /\ m1[d].type = "ArrayEntry" /\ m1[d].id = "" /\ m1[d].size = 7 /\ m1[d].value = 0
       /\ \A p \in DOMAIN c0 : p # d => m1[p] = c0[p]
  <2>1. /\ DOMAIN m1 = DOMAIN c1 /\ MemOK(m1)
        /\ m1[d].type = c1[d].type /\ m1[d].id = c1[d].id
        /\ m1[d].size = c1[d].size /\ m1[d].value = 0 % W16
        /\ \A p \in DOMAIN c1 : p # d => m1[p] = c1[p]
    BY <1>8, <1>9, <1>10, HeaderCounted
  <2>2. 0 % W16 = 0
    BY IdLengths
  <2>3. c0[d].type = "ArrayEntry" /\ c0[d].id = ""
    BY <1>8, EntryHeaderIs
  <2> QED  BY <1>9, <2>1, <2>2, <2>3
<1>12. \A p \in Nat : p < d /\ p \in DOMAIN m => p \in DOMAIN m1 /\ m1[p] = m[p]
  <2> SUFFICES ASSUME NEW p \in Nat, p < d, p \in DOMAIN m
               PROVE  p \in DOMAIN m1 /\ m1[p] = m[p]
    OBVIOUS
  <2>1. Keeps(m, c0, p, d) /\ p <= p /\ p # d
    BY <1>1, <1>8
  <2>2. p \in DOMAIN c0 /\ c0[p] = m[p]
    BY <2>1, KeptAt
  <2> QED  BY <1>11, <2>1, <2>2
<1>13. x.at \in DOMAIN m1 /\ m1[x.at] = m[x.at] /\ x.at < d
  <2>1. x.at < d
    BY <1>1, <1>3
  <2> QED  BY <1>3, <1>6, <1>12, <2>1 DEF Has
<1> DEFINE o == x.at
<1>14. d2 - o \in Nat /\ (d2 - o) % W32 = d2 - o
  <2>1. MaxBytes < W32 /\ MaxBytes \in Nat /\ W32 \in Nat
    BY StreamAssumption, IdLengths DEF Start
  <2>2. d2 - o \in Nat /\ d2 - o < W32
    BY <1>1, <1>3, <1>7, <1>13, <2>1
  <2> QED  BY <2>1, <2>2
<1> HIDE DEF o
<1>15. /\ DOMAIN m2 = DOMAIN m1 /\ MemOK(m2)
       /\ m2[o].type = m1[o].type /\ m2[o].id = m1[o].id
       /\ m2[o].value = m1[o].value /\ m2[o].size = d2 - o
       /\ \A p \in DOMAIN m1 : p # o => m2[p] = m1[p]
  <2>1. d2 \in Int /\ m2 = Sized(m1, o, d2) /\ o \in DOMAIN m1
    BY <1>1, <1>13 DEF d2, d, o
  <2>2. MemOK(m1)
    BY <1>11
  <2>3. /\ DOMAIN m2 = DOMAIN m1 /\ MemOK(m2)
        /\ m2[o].type = m1[o].type /\ m2[o].id = m1[o].id
        /\ m2[o].value = m1[o].value /\ m2[o].size = (d2 - o) % W32
        /\ \A p \in DOMAIN m1 : p # o => m2[p] = m1[p]
    BY <2>1, <2>2, HeaderSized
  <2> QED  BY <1>14, <2>3
<1>16. \A p \in Nat : p < d /\ p # o /\ p \in DOMAIN m => p \in DOMAIN m2 /\ m2[p] = m[p]
  BY <1>12, <1>15
<1>17. Keeps(m, m2, from, o) /\ Keeps(m, m2, start, d) /\ Keeps(m, m2, Start, from)
  <2>1. o < d /\ from <= o /\ o < start /\ o \in Nat
    BY <1>3, <1>13 DEF o
  <2>2. d \in Nat /\ from \in Nat /\ start \in Nat
    BY <1>1, <1>3
  <2> QED  BY <1>16, <2>1, <2>2 DEF Keeps
<1>18. EntriesAt(m2, x.entries, start, d, FALSE)
  <2>1. EntriesAt(m2, x.entries, start, d, entry)
    <3> HIDE DEF entry
    <3> QED  BY <1>1, <1>3, <1>17, EntriesKept
  <2> QED  BY <1>1, <2>1
<1>19. MemberAt(m2, x, d2, no, no)
  <2>1. Has(m2, x.at, "Array", x.id, 0) /\ m2[x.at].size = d2 - x.at
    BY <1>6, <1>13, <1>15 DEF Has, o
  <2>2. d2 - 7 = d /\ d \in Nat
    BY <1>1 DEF d2
  <2>3. d # o /\ d \in DOMAIN m1
    <3>1. o < d /\ d \in Nat /\ o \in Nat
      BY <1>1, <1>3, <1>13 DEF o
    <3>2. d # o
      BY <3>1
    <3>3. d \in DOMAIN m1
      BY <1>8, <1>11
    <3> QED  BY <3>2, <3>3
  <2>4. Has(m2, d, "ArrayEntry", "", 0) /\ m2[d].size = 7
    BY <1>11, <1>15, <2>3 DEF Has
  <2>5. EntriesAt(m2, x.entries, x.at + Len(x.id) + 6, d, FALSE)
    BY <1>18 DEF start, EntriesStart, x
  <2>6. ArrayAt(m2, x, d2, FALSE, FALSE)
    BY <1>6, <2>1, <2>2, <2>4, <2>5 DEF ArrayAt
  <2> QED  BY <1>3, <2>6 DEF MemberAt
<1>20. MembersAt(m2, ms, from, d2, no, no)
  <2>1. Keeps(m, m2, from, ms[Len(ms)].at) /\ x.at = ms[Len(ms)].at /\ d <= d2
    BY <1>1, <1>5, <1>17 DEF o
  <2>2. MembersAt(m, ms, from, d, yes, entry)
    BY <1>3
  <2>3. WithLast(ms, x) = ms
    <3>1. x = Last(ms)
      BY DEF x, OpenMember
    <3> HIDE DEF ms
    <3> QED  BY <1>3, <3>1, SameLast
  <2>4. ms \in Seq(MemberSet) /\ ms # << >> /\ x \in MemberSet /\ from \in Nat
    BY <1>3
  <2> HIDE DEF ms, no, yes, entry
  <2>5. MembersAt(m2, WithLast(ms, x), from, d2, no, no)
    BY <1>1, <1>19, <2>1, <2>2, <2>4, MembersGrow
  <2> QED  BY <2>3, <2>5
<1>21. StreamAt(m2, s, d2, TRUE, no, no)
  <2> DEFINE e2 == [Last(s) EXCEPT !.members = ms]
  <2>1. e2 = Last(s) /\ WithLast(s, e2) = s
    BY <1>3, SameEntries, SameLast
  <2>2. Keeps(m, m2, Start, Last(s).at + 7 + RequestBytes)
        /\ MembersAt(m2, ms, Last(s).at + 7 + RequestBytes, d2, no, no)
    BY <1>17, <1>20 DEF from
  <2>3. d <= d2 /\ ms \in Seq(MemberSet)
    BY <1>1, <1>3
  <2>4. e2 = [Last(s) EXCEPT !.members = ms]
    OBVIOUS
  <2> HIDE DEF ms, no, yes, entry, e2
  <2>5. StreamAt(m2, WithLast(s, e2), d2, TRUE, no, no)
    BY <1>1, <1>2, <2>2, <2>3, <2>4, MessageLift
  <2> QED  BY <2>1, <2>5
<1>22. /\ w2.data = d2 /\ w2.event = TRUE /\ w2.array = FALSE /\ w2.entry = FALSE
       /\ w2.eventOffset = w.eventOffset
  BY <1>1 DEF WriterSet, d2, d
<1>23. Stream(m2, w2, s)
  BY <1>1, <1>21, <1>22 DEF Stream
<1> QED  BY <1>15, <1>23

-----------------------------------------------------------------------------
(* The calls of the writer.                                                 *)

LEMMA WriterUpdates ==
    ASSUME NEW w \in WriterSet, NEW n \in Nat
    PROVE  /\ [w EXCEPT !.request_id = w.request_id + 1, !.eventOffset = w.data] \in WriterSet
           /\ [w EXCEPT !.data = w.data + 7 + RequestBytes, !.request_id = w.request_id + 1, !.eventOffset = w.data, !.event = TRUE]
                  \in WriterSet
           /\ [w EXCEPT !.event = FALSE] \in WriterSet
           /\ [w EXCEPT !.data = w.data + n, !.count = w.count] \in WriterSet
           /\ [w EXCEPT !.data = w.data + n, !.count = w.count + 1] \in WriterSet
           /\ [w EXCEPT !.arrayOffset = w.data] \in WriterSet
           /\ [w EXCEPT !.data = w.data + n, !.arrayOffset = w.data, !.array = TRUE] \in WriterSet
           /\ [w EXCEPT !.entryOffset = w.data] \in WriterSet
           /\ [w EXCEPT !.data = w.data + 7, !.entryOffset = w.data, !.entry = TRUE, !.count = 0]
                  \in WriterSet
           /\ [w EXCEPT !.entry = FALSE] \in WriterSet
           /\ [w EXCEPT !.data = w.data + 7, !.entryOffset = w.data, !.count = 0, !.array = FALSE]
                  \in WriterSet
           /\ [w EXCEPT !.entryOffset = w.data, !.entry = FALSE, !.array = FALSE] \in WriterSet
<1>1. /\ w.data \in Nat /\ w.data + n \in Nat /\ w.data + 7 \in Nat /\ w.count + 1 \in Nat
      /\ w.request_id + 1 \in Nat /\ w.data + 7 + RequestBytes \in Nat /\ w.count \in Nat
      /\ TRUE \in BOOLEAN /\ FALSE \in BOOLEAN /\ 0 \in Nat
  <2>1. w.data \in Nat /\ w.count \in Nat /\ w.request_id \in Nat
    BY Updated
  <2>2. RequestBytes \in Nat
    BY IdLengths
  <2> QED  BY <2>1, <2>2
<1>2. [w EXCEPT !.request_id = w.request_id + 1, !.eventOffset = w.data] \in WriterSet
  <2> DEFINE a1 == [w EXCEPT !.request_id = w.request_id + 1]
  <2>1. a1 \in WriterSet
    BY <1>1, Updated
  <2>2. [w EXCEPT !.request_id = w.request_id + 1, !.eventOffset = w.data] = [a1 EXCEPT !.eventOffset = w.data]
    OBVIOUS
  <2> HIDE DEF a1
  <2>3. [a1 EXCEPT !.eventOffset = w.data] \in WriterSet
    BY <1>1, <2>1, Updated
  <2> QED  BY <2>2, <2>3, Zenon
<1>3. [w EXCEPT !.data = w.data + 7 + RequestBytes, !.request_id = w.request_id + 1, !.eventOffset = w.data, !.event = TRUE] \in WriterSet
  <2> DEFINE a1 == [w EXCEPT !.data = w.data + 7 + RequestBytes]
             a2 == [a1 EXCEPT !.request_id = w.request_id + 1]
             a3 == [a2 EXCEPT !.eventOffset = w.data]
  <2>1. a1 \in WriterSet
    BY <1>1, Updated
  <2>2. [w EXCEPT !.data = w.data + 7 + RequestBytes, !.request_id = w.request_id + 1, !.eventOffset = w.data, !.event = TRUE] = [a3 EXCEPT !.event = TRUE]
    OBVIOUS
  <2> HIDE DEF a1
  <2>3. a2 \in WriterSet
    BY <1>1, <2>1, Updated
  <2> HIDE DEF a2
  <2>4. a3 \in WriterSet
    BY <1>1, <2>3, Updated
  <2> HIDE DEF a3
  <2>5. [a3 EXCEPT !.event = TRUE] \in WriterSet
    BY <1>1, <2>4, Updated
  <2> QED  BY <2>2, <2>5, Zenon
<1>4. [w EXCEPT !.event = FALSE] \in WriterSet
  BY <1>1, Updated
<1>5. [w EXCEPT !.data = w.data + n, !.count = w.count] \in WriterSet
  <2> DEFINE a1 == [w EXCEPT !.data = w.data + n]
  <2>1. a1 \in WriterSet
    BY <1>1, Updated
  <2>2. [w EXCEPT !.data = w.data + n, !.count = w.count] = [a1 EXCEPT !.count = w.count]
    OBVIOUS
  <2> HIDE DEF a1
  <2>3. [a1 EXCEPT !.count = w.count] \in WriterSet
    BY <1>1, <2>1, Updated
  <2> QED  BY <2>2, <2>3, Zenon
<1>6. [w EXCEPT !.data = w.data + n, !.count = w.count + 1] \in WriterSet
  <2> DEFINE a1 == [w EXCEPT !.data = w.data + n]
  <2>1. a1 \in WriterSet
    BY <1>1, Updated
  <2>2. [w EXCEPT !.data = w.data + n, !.count = w.count + 1] = [a1 EXCEPT !.count = w.count + 1]
    OBVIOUS
  <2> HIDE DEF a1
  <2>3. [a1 EXCEPT !.count = w.count + 1] \in WriterSet
    BY <1>1, <2>1, Updated
  <2> QED  BY <2>2, <2>3, Zenon
<1>7. [w EXCEPT !.arrayOffset = w.data] \in WriterSet
  BY <1>1, Updated
<1>8. [w EXCEPT !.data = w.data + n, !.arrayOffset = w.data, !.array = TRUE] \in WriterSet
  <2> DEFINE a1 == [w EXCEPT !.data = w.data + n]
             a2 == [a1 EXCEPT !.arrayOffset = w.data]
  <2>1. a1 \in WriterSet
    BY <1>1, Updated
  <2>2. [w EXCEPT !.data = w.data + n, !.arrayOffset = w.data, !.array = TRUE] = [a2 EXCEPT !.array = TRUE]
    OBVIOUS
  <2> HIDE DEF a1
  <2>3. a2 \in WriterSet
    BY <1>1, <2>1, Updated
  <2> HIDE DEF a2
  <2>4. [a2 EXCEPT !.array = TRUE] \in WriterSet
    BY <1>1, <2>3, Updated
  <2> QED  BY <2>2, <2>4, Zenon
<1>9. [w EXCEPT !.entryOffset = w.data] \in WriterSet
  BY <1>1, Updated
<1>10. [w EXCEPT !.data = w.data + 7, !.entryOffset = w.data, !.entry = TRUE, !.count = 0] \in WriterSet
  <2> DEFINE a1 == [w EXCEPT !.data = w.data + 7]
             a2 == [a1 EXCEPT !.entryOffset = w.data]
             a3 == [a2 EXCEPT !.entry = TRUE]
  <2>1. a1 \in WriterSet
    BY <1>1, Updated
  <2>2. [w EXCEPT !.data = w.data + 7, !.entryOffset = w.data, !.entry = TRUE, !.count = 0] = [a3 EXCEPT !.count = 0]
    OBVIOUS
  <2> HIDE DEF a1
  <2>3. a2 \in WriterSet
    BY <1>1, <2>1, Updated
  <2> HIDE DEF a2
  <2>4. a3 \in WriterSet
    BY <1>1, <2>3, Updated
  <2> HIDE DEF a3
  <2>5. [a3 EXCEPT !.count = 0] \in WriterSet
    BY <1>1, <2>4, Updated
  <2> QED  BY <2>2, <2>5, Zenon
<1>11. [w EXCEPT !.entry = FALSE] \in WriterSet
  BY <1>1, Updated
<1>12. [w EXCEPT !.data = w.data + 7, !.entryOffset = w.data, !.count = 0, !.array = FALSE] \in WriterSet
  <2> DEFINE a1 == [w EXCEPT !.data = w.data + 7]
             a2 == [a1 EXCEPT !.entryOffset = w.data]
             a3 == [a2 EXCEPT !.count = 0]
  <2>1. a1 \in WriterSet
    BY <1>1, Updated
  <2>2. [w EXCEPT !.data = w.data + 7, !.entryOffset = w.data, !.count = 0, !.array = FALSE] = [a3 EXCEPT !.array = FALSE]
    OBVIOUS
  <2> HIDE DEF a1
  <2>3. a2 \in WriterSet
    BY <1>1, <2>1, Updated
  <2> HIDE DEF a2
  <2>4. a3 \in WriterSet
    BY <1>1, <2>3, Updated
  <2> HIDE DEF a3
  <2>5. [a3 EXCEPT !.array = FALSE] \in WriterSet
    BY <1>1, <2>4, Updated
  <2> QED  BY <2>2, <2>5, Zenon
<1>13. [w EXCEPT !.entryOffset = w.data, !.entry = FALSE, !.array = FALSE] \in WriterSet
  <2> DEFINE a1 == [w EXCEPT !.entryOffset = w.data]
             a2 == [a1 EXCEPT !.entry = FALSE]
  <2>1. a1 \in WriterSet
    BY <1>1, Updated
  <2>2. [w EXCEPT !.entryOffset = w.data, !.entry = FALSE, !.array = FALSE] = [a2 EXCEPT !.array = FALSE]
    OBVIOUS
  <2> HIDE DEF a1
  <2>3. a2 \in WriterSet
    BY <1>1, <2>1, Updated
  <2> HIDE DEF a2
  <2>4. [a2 EXCEPT !.array = FALSE] \in WriterSet
    BY <1>1, <2>3, Updated
  <2> QED  BY <2>2, <2>4, Zenon
<1> QED  BY <1>2, <1>3, <1>4, <1>5, <1>6, <1>7, <1>8, <1>9, <1>10, <1>11, <1>12, <1>13, Zenon

\* What the writer may be at: within the bound, and the next request id is not used yet.
WriterOK(w) ==
    /\ w \in WriterSet /\ w.data \in Start..MaxBytes /\ w.request_id >= 1
    /\ w.eventOffset <= MaxBytes /\ w.arrayOffset <= MaxBytes /\ w.entryOffset <= MaxBytes
    /\ w.count <= MaxMembers

\* Numbers fit their type; a stale one may be overwritten by the count of a refused entry.
NumberOK(item) == item.type \in {"S16", "U32", "S64"} => item.value < Width(item.type)
BufferOK(m) == MemOK(m) /\ \A o \in DOMAIN m : NumberOK(m[o])

LEMMA StoreOK ==
    ASSUME NEW m, BufferOK(m), NEW o \in Offset, NEW item \in Item, NumberOK(item)
    PROVE  BufferOK(Store(m, o, item))
<1> DEFINE z == Store(m, o, item)
<1>1. /\ MemOK(z) /\ z[o] = item
      /\ \A p \in DOMAIN z : p = o \/ (p \in DOMAIN m /\ z[p] = m[p])
  BY StoreIs DEF BufferOK
<1> HIDE DEF z
<1>2. \A p \in DOMAIN z : NumberOK(z[p])
  BY <1>1 DEF BufferOK
<1> QED  BY <1>1, <1>2 DEF BufferOK, z

LEMMA SizedOK ==
    ASSUME NEW m, BufferOK(m), NEW o, NEW to \in Int
    PROVE  BufferOK(Sized(m, o, to))
<1> DEFINE z == Sized(m, o, to)
<1>1. CASE o \in DOMAIN m
  <2> HIDE DEF z
  <2>0. MemOK(m)
    BY DEF BufferOK
  <2>1. /\ DOMAIN z = DOMAIN m /\ MemOK(z)
        /\ z[o].type = m[o].type /\ z[o].value = m[o].value
        /\ \A p \in DOMAIN m : p # o => z[p] = m[p]
    BY <1>1, <2>0, HeaderSized DEF z
  <2>2. \A p \in DOMAIN z : NumberOK(z[p])
    BY <2>1 DEF BufferOK, NumberOK
  <2> QED  BY <2>1, <2>2 DEF BufferOK, z
<1>2. CASE o \notin DOMAIN m
  BY <1>2, NotSized
<1> QED  BY <1>1, <1>2

LEMMA CountedOK ==
    ASSUME NEW m, BufferOK(m), NEW o, NEW n \in Nat
    PROVE  BufferOK(Counted(m, o, n))
<1> DEFINE z == Counted(m, o, n)
<1>1. CASE o \in DOMAIN m
  <2> HIDE DEF z
  <2>0. MemOK(m)
    BY DEF BufferOK
  <2>1. /\ DOMAIN z = DOMAIN m /\ MemOK(z)
        /\ z[o].type = m[o].type /\ z[o].value = n % W16
        /\ \A p \in DOMAIN m : p # o => z[p] = m[p]
    BY <1>1, <2>0, HeaderCounted DEF z
  <2>2. n % W16 \in Nat /\ n % W16 < W16 /\ W16 <= W32 /\ W32 <= W64
        /\ W16 \in Nat /\ W32 \in Nat /\ W64 \in Nat
    BY IdLengths, ModRange
  <2>3. Width("S16") = W16 /\ Width("U32") = W32 /\ Width("S64") = W64
    BY DEF Width, Bytes
  <2>4. NumberOK(z[o])
    BY <2>1, <2>2, <2>3 DEF NumberOK
  <2>5. \A p \in DOMAIN z : NumberOK(z[p])
    BY <2>1, <2>4 DEF BufferOK
  <2> QED  BY <2>1, <2>5 DEF BufferOK, z
<1>2. CASE o \notin DOMAIN m
  BY <1>2, NotSized
<1> QED  BY <1>1, <1>2

\* The buffer, the writer and what was sent.
Written ==
    /\ BufferOK(mem) /\ WriterOK(writer) /\ sent \in Seq(MessageSet)
    /\ refused \in BOOLEAN /\ phase \in {"writing", "reading"}
    /\ ~refused => Stream(mem, writer, sent)
    /\ used \subseteq 1..MaxRequests
    /\ \A r \in used : r < writer.request_id

\* A call of the writer.
LEMMA Writing ==
    ASSUME Written, NEW m, NEW w, Write(Buf(m, w))
    PROVE  /\ mem' = m /\ writer' = w /\ w.data <= MaxBytes /\ phase' = phase /\ phase = "writing"
           /\ UNCHANGED reading
<1>1. Buf(m, w).mem = m /\ Buf(m, w).writer = w
  BY BufIs
<1> QED  BY <1>1 DEF Write

LEMMA BufferIsBuf == Buffer = Buf(mem, writer)
  BY DEF Buffer, Buf

LEMMA WriterIs ==
    ASSUME Written
    PROVE  /\ BufferOK(mem) /\ MemOK(mem) /\ WriterOK(writer) /\ writer \in WriterSet
           /\ sent \in Seq(MessageSet)
           /\ writer.data \in Nat /\ writer.data \in Offset /\ Start <= writer.data
           /\ writer.data <= MaxBytes
           /\ ~refused => Stream(mem, writer, sent)
  BY StreamAssumption DEF Written, BufferOK, WriterOK, Offset, Start

LEMMA EventBeginWrites ==
    ASSUME Written, NEW e \in Events, write_event_begin(e)
    PROVE  Written' /\ (Len(sent') > Len(sent) => Last(sent').request \notin used)
<1> DEFINE b == Buf(mem, writer)
           d == writer.data
<1>1. /\ writer.request_id <= MaxRequests /\ ~refused /\ Write(EventBegin(b, e))
      /\ refused' = writer.event
  BY BufferIsBuf DEF write_event_begin
<1>2. Stream(mem, writer, sent)
  BY <1>1, WriterIs
<1>3. writer \in WriterSet /\ d \in Nat
  BY WriterIs
<1>4. writer.request_id \in Nat /\ writer.request_id >= 1 /\ writer.event \in BOOLEAN
      /\ writer.entry \in BOOLEAN
  BY <1>3, Updated DEF Written, WriterOK
<1>5. CASE writer.event
  <2> DEFINE v == [writer EXCEPT !.request_id = @ + 1, !.eventOffset = writer.data]
  <2>1. v \in WriterSet
    BY <1>3, WriterUpdates
  <2>2. /\ v.request_id = writer.request_id + 1 /\ v.eventOffset = d /\ v.data = d
        /\ v.arrayOffset = writer.arrayOffset /\ v.entryOffset = writer.entryOffset
        /\ v.count = writer.count
    BY <1>3 DEF WriterSet
  <2>3. EventBegin(b, e) = Buf(mem, v)
    BY <1>3, <1>5, EventBeginIs
  <2> HIDE DEF v
  <2>4. mem' = mem /\ writer' = v /\ phase' = phase
    BY <1>1, <2>3, Writing
  <2>5. sent' = sent /\ used' = used /\ refused'
    BY <1>1, <1>5 DEF write_event_begin
  <2>6. WriterOK(v)
    BY <1>3, <1>4, <2>1, <2>2 DEF Written, WriterOK
  <2>7. Len(sent) \in Nat
    BY WriterIs, LenProperties
  <2>8. \A r \in used : r < v.request_id
    BY <1>4, <2>2 DEF Written
  <2>9. Written'
    BY <1>1, <1>4, <2>4, <2>5, <2>6, <2>8 DEF Written
  <2> QED  BY <2>5, <2>7, <2>9
<1>6. CASE ~writer.event
  <2> DEFINE h == EventHeader(e)
             f == RequestField(writer.request_id)
             m1 == Store(mem, d, h)
             m2 == Store(m1, d + 7, f)
             v == [writer EXCEPT !.data = @ + 7 + RequestBytes, !.request_id = @ + 1,
                                 !.eventOffset = writer.data, !.event = TRUE]
             g == [event |-> e, request |-> writer.request_id, at |-> writer.data,
                   members |-> << >>]
  <2>0. ~writer.entry
    BY <1>2, <1>6 DEF Stream
  <2>1. v \in WriterSet
    BY <1>3, WriterUpdates
  <2>2. /\ v.request_id = writer.request_id + 1 /\ v.eventOffset = d
        /\ v.data = d + 7 + RequestBytes
        /\ v.arrayOffset = writer.arrayOffset /\ v.entryOffset = writer.entryOffset
        /\ v.count = writer.count
    BY <1>3 DEF WriterSet
  <2>3. EventBegin(b, e) = Buf(m2, v)
    BY <1>3, <1>6, <2>0, EventBeginIs
  <2>4. mem' = m2 /\ writer' = v /\ v.data <= MaxBytes /\ phase' = phase
    <3> HIDE DEF m2, v
    <3> QED  BY <1>1, <2>3, Writing
  <2>5. sent' = Append(sent, g) /\ used' = used \union {writer.request_id} /\ ~refused'
    BY <1>1, <1>6 DEF write_event_begin
  <2>6. RequestBytes \in Nat
    BY IdLengths
  <2>7. d \in Offset /\ d + 7 \in Offset /\ d + 7 + RequestBytes <= MaxBytes /\ d >= Start
    <3>1. MaxBytes \in Nat
      BY StreamAssumption DEF Start
    <3>2. d + 7 + RequestBytes <= MaxBytes /\ d >= Start
      BY <2>2, <2>4, WriterIs
    <3> HIDE DEF d, v
    <3> QED  BY <1>3, <2>6, <3>1, <3>2 DEF Offset
  <2>8. WriterOK(v)
    <3>1. v.data \in Start..MaxBytes
      <4> HIDE DEF v, d
      <4> QED  BY <1>3, <2>2, <2>6, <2>7, StreamAssumption DEF Start
    <3>2. v.eventOffset <= MaxBytes
      BY <2>2, WriterIs
    <3> HIDE DEF v
    <3> QED  BY <1>4, <2>1, <2>2, <3>1, <3>2 DEF Written, WriterOK
  <2>9. BufferOK(m2)
    <3>1. h \in Item /\ h.type = "Event"
      <4>1. e \in Nat
        BY StreamAssumption
      <4> QED  BY <4>1 DEF EventHeader, Header, Item
    <3>2. f \in Item /\ f.type = "U64"
      BY <1>4, RequestFieldIs
    <3> HIDE DEF h, f, d
    <3>3. NumberOK(h) /\ NumberOK(f)
      BY <3>1, <3>2 DEF NumberOK
    <3>4. BufferOK(m1)
      BY <2>7, <3>1, <3>3, WriterIs, StoreOK
    <3> HIDE DEF m1
    <3> QED  BY <2>7, <3>2, <3>3, <3>4, StoreOK
  <2>10. Stream(m2, v, Append(sent, g)) /\ Append(sent, g) \in Seq(MessageSet)
    <3>1. MemOK(mem) /\ sent \in Seq(MessageSet)
      BY WriterIs
    <3>2. writer.data + 7 + RequestBytes <= MaxBytes
      BY <2>7
    <3> DEFINE s2 == Append(sent, g)
    <3> HIDE DEF g
    <3>3. g = [event |-> e, request |-> writer.request_id, at |-> writer.data, members |-> << >>]
      BY DEF g
    <3>4. m2 = Store(Store(mem, writer.data, EventHeader(e)), writer.data + 7,
                     RequestField(writer.request_id))
      OBVIOUS
    <3>5. v = [writer EXCEPT !.data = @ + 7 + RequestBytes, !.request_id = @ + 1,
                             !.eventOffset = writer.data, !.event = TRUE]
      OBVIOUS
    <3> HIDE DEF m2, v
    <3> QED  BY <1>2, <1>3, <1>6, <2>1, <3>1, <3>2, <3>3, <3>4, <3>5, EventBegun
  <2>11. Last(sent').request = writer.request_id
    <3>1. g.request = writer.request_id
      OBVIOUS
    <3> HIDE DEF g
    <3>2. Last(Append(sent, g)) = g
      BY AppendProperties, WriterIs DEF Last
    <3> QED  BY <2>5, <3>1, <3>2
  <2>12. writer.request_id \notin used
    BY <1>4 DEF Written
  <2>13. used' \subseteq 1..MaxRequests /\ \A r \in used' : r < v.request_id
    <3> HIDE DEF v
    <3>1. writer.request_id \in 1..MaxRequests
      BY <1>1, <1>4, StreamAssumption
    <3>2. used \subseteq 1..MaxRequests /\ \A r \in used : r \in Nat /\ r < writer.request_id
      BY DEF Written
    <3>3. \A r \in used' : r \in used \/ r = writer.request_id
      BY <2>5
    <3>4. used' \subseteq 1..MaxRequests
      BY <3>1, <3>2, <3>3
    <3>5. ASSUME NEW r \in used'
          PROVE  r < v.request_id
      <4>1. writer.request_id \in Nat /\ v.request_id = writer.request_id + 1
        BY <1>4, <2>2
      <4>2. r = writer.request_id \/ (r \in Nat /\ r < writer.request_id)
        BY <3>2, <3>3
      <4> QED  BY <4>1, <4>2
    <3> QED  BY <3>4, <3>5
  <2> HIDE DEF m2, v, g
  <2>14. refused' \in BOOLEAN /\ phase' \in {"writing", "reading"}
    BY <1>1, <1>4, <2>4 DEF Written
  <2>15. /\ BufferOK(mem') /\ WriterOK(writer') /\ sent' \in Seq(MessageSet)
         /\ Stream(mem', writer', sent') /\ writer'.request_id = v.request_id
    BY <2>4, <2>5, <2>8, <2>9, <2>10, Zenon
  <2>16. Written'
    BY <2>13, <2>14, <2>15 DEF Written
  <2> QED  BY <2>11, <2>12, <2>16
<1> QED  BY <1>5, <1>6

LEMMA StillWritten ==
    ASSUME Written, NEW m, NEW w, NEW s, BufferOK(m), WriterOK(w), s \in Seq(MessageSet),
           w.request_id = writer.request_id, mem' = m, writer' = w, sent' = s, used' = used,
           phase' \in {"writing", "reading"}, refused' \in BOOLEAN, ~refused' => Stream(m, w, s)
    PROVE  Written'
<1>1. used' \subseteq 1..MaxRequests /\ \A r \in used' : r < w.request_id
  BY DEF Written
<1> QED  BY <1>1 DEF Written

LEMMA PhaseKept ==
    ASSUME Written, phase' = phase
    PROVE  phase' \in {"writing", "reading"}
  BY DEF Written

LEMMA EventEndWrites ==
    ASSUME Written, write_event_end
    PROVE  Written' /\ sent' = sent
<1> DEFINE b == Buf(mem, writer)
           v == [writer EXCEPT !.event = FALSE]
           m2 == Sized(mem, writer.eventOffset, writer.data)
<1>1. ~writer.array /\ ~refused /\ Write(EventEnd(b)) /\ sent' = sent /\ used' = used /\ ~refused'
  BY BufferIsBuf DEF write_event_end, written
<1>2. Stream(mem, writer, sent)
  BY <1>1, WriterIs
<1>3. CASE writer.event
  <2>1. v \in WriterSet
    BY WriterUpdates, WriterIs
  <2>2. /\ v.request_id = writer.request_id /\ v.eventOffset = writer.eventOffset
        /\ v.data = writer.data
        /\ v.arrayOffset = writer.arrayOffset /\ v.entryOffset = writer.entryOffset
        /\ v.count = writer.count
    BY WriterIs DEF WriterSet
  <2>3. EventEnd(b) = Buf(m2, v)
    BY <1>3, EventEndIs, WriterIs
  <2>4. MemOK(m2) /\ Stream(m2, v, sent)
    <3>1. m2 = Sized(mem, writer.eventOffset, writer.data) /\ v = [writer EXCEPT !.event = FALSE]
      OBVIOUS
    <3> HIDE DEF m2, v
    <3> QED  BY <1>1, <1>2, <1>3, <2>1, <3>1, WriterIs, EventEnded
  <2>5. BufferOK(m2)
    BY SizedOK, WriterIs
  <2> HIDE DEF m2, v
  <2>6. mem' = m2 /\ writer' = v /\ phase' = phase
    BY <1>1, <2>3, Writing
  <2>7. WriterOK(v)
    BY <2>1, <2>2, WriterIs DEF WriterOK
  <2>8. refused' \in BOOLEAN
    BY <1>1 DEF write_event_end, written, Written
  <2> QED  BY <1>1, <2>2, <2>4, <2>5, <2>6, <2>7, <2>8, PhaseKept, StillWritten, WriterIs
<1>4. CASE ~writer.event
  <2>1. EventEnd(b) = Buf(mem, writer)
    BY <1>4, EventEndIs, WriterIs
  <2>2. mem' = mem /\ writer' = writer /\ phase' = phase
    BY <1>1, <2>1, Writing
  <2>3. refused' = refused
    BY DEF write_event_end, written
  <2> QED  BY <1>1, <2>2, <2>3 DEF Written
<1> QED  BY <1>3, <1>4

\* The member that is added, to the event or to the entry.
LEMMA MemberAdded ==
    ASSUME NEW id, NEW type, NEW value, NEW f, f = FieldOf(id, type, value, writer.data)
    PROVE  /\ Member(id, type, value) = f
           /\ ~writer.entry => WithMember(f) =
                  WithLast(sent, [Last(sent) EXCEPT !.members = Append(@, f)])
           /\ writer.entry => WithMember(f) =
                  WithEntries(sent,
                      WithLast(OpenMember(sent).entries,
                          [Last(OpenMember(sent).entries) EXCEPT !.fields = Append(@, f)]))
<1>1. Member(id, type, value) = f
  BY DEF Member, FieldOf
<1>2. ASSUME ~writer.entry
      PROVE  WithMember(f) = WithLast(sent, [Last(sent) EXCEPT !.members = Append(@, f)])
  BY <1>2 DEF WithMember, WithLast, Last
<1>3. ASSUME writer.entry
      PROVE  WithMember(f) =
                 WithEntries(sent,
                     WithLast(OpenMember(sent).entries,
                         [Last(OpenMember(sent).entries) EXCEPT !.fields = Append(@, f)]))
  BY <1>3 DEF WithMember, WithEntries, WithLast, OpenMember, Last
<1> QED  BY <1>1, <1>2, <1>3

LEMMA FieldWrites ==
    ASSUME Written, NEW id \in Ids, NEW item, Fits(item, id), NumberOK(item), write_field(id, item)
    PROVE  Written' /\ Len(sent') = Len(sent)
<1> DEFINE b == Buf(mem, writer)
           d == writer.data
           m2 == Store(mem, d, item)
           f == FieldOf(id, item.type, item.value, d)
           v == [writer EXCEPT !.data = @ + item.bytes,
                               !.count = IF writer.entry THEN @ + 1 ELSE @]
<1>1. /\ writer.event /\ ~refused /\ (writer.array => writer.entry) /\ MoreMembers
      /\ Write(PutField(b, item)) /\ sent' = WithMember(Member(id, item.type, item.value))
      /\ used' = used /\ refused' = refused
  BY BufferIsBuf DEF write_field
<1>2. Stream(mem, writer, sent)
  BY <1>1, WriterIs
<1>3. item \in Item /\ item.bytes \in Nat /\ item.bytes > 0
  BY DEF Fits, Item
<1>4. writer \in WriterSet /\ d \in Nat /\ d \in Offset /\ MemOK(mem) /\ sent \in Seq(MessageSet)
  BY WriterIs
<1>5. BufferOK(m2)
  <2> HIDE DEF d
  <2> QED  BY <1>3, <1>4, StoreOK, WriterIs
<1>6. mem' = m2 /\ writer' = v /\ v.data <= MaxBytes /\ phase' = phase
  <2>1. PutField(b, item) = Buf(m2, v)
    BY <1>4, PutFieldIs
  <2> HIDE DEF m2, v
  <2> QED  BY <1>1, <2>1, Writing
<1>7. /\ v.request_id = writer.request_id /\ v.eventOffset = writer.eventOffset
      /\ v.data = d + item.bytes
      /\ v.arrayOffset = writer.arrayOffset /\ v.entryOffset = writer.entryOffset
  BY <1>4 DEF WriterSet
<1>8. v.data \in Start..MaxBytes
  <2> HIDE DEF v
  <2>1. d >= Start
    BY WriterIs
  <2> HIDE DEF d
  <2> QED  BY <1>3, <1>4, <1>6, <1>7, <2>1, StreamAssumption DEF Start
<1>9. f = FieldOf(id, item.type, item.value, writer.data)
  OBVIOUS
<1>10. m2 = Store(mem, writer.data, item)
  OBVIOUS
<1> HIDE DEF f, m2
<1>11. Member(id, item.type, item.value) = f
  BY <1>9, MemberAdded
<1>12. refused' \in BOOLEAN /\ phase' \in {"writing", "reading"}
  BY <1>1, <1>6 DEF Written
<1>13. CASE ~writer.entry
  <2> DEFINE s2 == WithLast(sent, [Last(sent) EXCEPT !.members = Append(@, f)])
             u == [writer EXCEPT !.data = @ + item.bytes, !.count = @]
  <2>1. sent' = s2
    BY <1>1, <1>9, <1>11, <1>13, MemberAdded
  <2>2. u \in WriterSet /\ u.count = writer.count
    BY <1>3, <1>4, WriterUpdates DEF WriterSet
  <2>3. v = u
    BY <1>13
  <2>4. Stream(m2, u, s2) /\ s2 \in Seq(MessageSet)
    <3>1. ~writer.array
      BY <1>1, <1>13
    <3>2. u = [writer EXCEPT !.data = @ + item.bytes, !.count = @]
      OBVIOUS
    <3> HIDE DEF u, d
    <3> QED  BY <1>1, <1>2, <1>4, <2>2, <3>1, <3>2, MemberWritten DEF d, f, m2
  <2>5. sent # << >>
    BY <1>1, <1>2 DEF Stream, StreamAt
  <2>6. Len(s2) = Len(sent)
    BY <1>4, <2>5, ExceptSeq DEF WithLast
  <2> HIDE DEF s2, u
  <2>7. WriterOK(v)
    <3> HIDE DEF v
    <3> QED  BY <1>7, <1>8, <2>2, <2>3, WriterIs DEF WriterOK
  <2> HIDE DEF v
  <2> QED  BY <1>1, <1>5, <1>6, <1>7, <1>12, <2>1, <2>3, <2>4, <2>6, <2>7, StillWritten
<1>14. CASE writer.entry
  <2> DEFINE g == [Last(OpenMember(sent).entries) EXCEPT !.fields = Append(@, f)]
             gs == WithLast(OpenMember(sent).entries, g)
             s2 == WithEntries(sent, gs)
             u == [writer EXCEPT !.data = @ + item.bytes, !.count = @ + 1]
  <2>1. sent' = s2
    BY <1>1, <1>9, <1>11, <1>14, MemberAdded
  <2>2. u \in WriterSet /\ u.count = writer.count + 1
    <3>1. u \in WriterSet
      BY <1>3, <1>4, WriterUpdates
    <3>2. u.count = writer.count + 1
      BY <1>4 DEF WriterSet
    <3> QED  BY <3>1, <3>2
  <2>3. v = u
    BY <1>14
  <2>4. writer.count < MaxMembers /\ writer.count \in Nat
    BY <1>1, <1>2, <1>4, <1>14, Updated DEF MoreMembers, Stream, Message
  <2>5. Stream(m2, u, s2) /\ s2 \in Seq(MessageSet)
    <3>1. u = [writer EXCEPT !.data = @ + item.bytes, !.count = @ + 1]
      OBVIOUS
    <3>2. /\ g = [Last(OpenMember(sent).entries) EXCEPT !.fields = Append(@, f)]
          /\ gs = WithLast(OpenMember(sent).entries, g)
      OBVIOUS
    <3> HIDE DEF u, d, g, gs
    <3> QED  BY <1>2, <1>4, <1>9, <1>10, <1>14, <2>2, <2>4, <3>1, <3>2, EntryFieldWritten DEF d
  <2>6. Len(s2) = Len(sent)
    <3>1. sent # << >>
      BY <1>1, <1>2 DEF Stream, StreamAt
    <3> QED  BY <1>4, <3>1, ExceptSeq DEF WithEntries, WithLast
  <2> HIDE DEF s2, u
  <2>7. WriterOK(v)
    <3>1. v.count <= MaxMembers
      BY <2>2, <2>3, <2>4, StreamAssumption
    <3> HIDE DEF v
    <3> QED  BY <1>7, <1>8, <2>2, <2>3, <3>1, WriterIs DEF WriterOK
  <2> HIDE DEF v
  <2> QED  BY <1>1, <1>5, <1>6, <1>7, <1>12, <2>1, <2>3, <2>5, <2>6, <2>7, StillWritten
<1> QED  BY <1>13, <1>14

LEMMA ArrayBeginWrites ==
    ASSUME Written, NEW id \in Ids, write_array_begin(id)
    PROVE  Written' /\ Len(sent') = Len(sent)
<1> DEFINE b == Buf(mem, writer)
           d == writer.data
<1>1. /\ writer.event /\ ~refused /\ Write(ArrayBegin(b, id)) /\ refused' = writer.array
      /\ used' = used
      /\ sent' = IF writer.array THEN sent ELSE WithMember(Member(id, "Array", 0))
  BY BufferIsBuf DEF write_array_begin
<1>2. Stream(mem, writer, sent)
  BY <1>1, WriterIs
<1>3. writer \in WriterSet /\ d \in Nat /\ d \in Offset /\ MemOK(mem) /\ sent \in Seq(MessageSet)
  BY WriterIs
<1>4. refused' \in BOOLEAN
  BY <1>1, <1>3, Updated
<1>5. CASE writer.array
  <2> DEFINE v == [writer EXCEPT !.arrayOffset = writer.data]
  <2>1. v \in WriterSet
    BY <1>3, WriterUpdates
  <2>2. /\ v.request_id = writer.request_id /\ v.eventOffset = writer.eventOffset
        /\ v.data = d /\ v.arrayOffset = d /\ v.entryOffset = writer.entryOffset
        /\ v.count = writer.count
    BY <1>3 DEF WriterSet
  <2>3. ArrayBegin(b, id) = Buf(mem, v)
    BY <1>3, <1>5, ArrayBeginIs
  <2> HIDE DEF v
  <2>4. mem' = mem /\ writer' = v /\ phase' = phase
    BY <1>1, <2>3, Writing
  <2>5. WriterOK(v)
    BY <2>1, <2>2, WriterIs DEF WriterOK
  <2>6. sent' = sent /\ refused'
    BY <1>1, <1>5
  <2>7. Written'
    BY <1>1, <1>4, <2>2, <2>4, <2>5, <2>6, PhaseKept, StillWritten, WriterIs
  <2> QED  BY <2>6, <2>7
<1>6. CASE ~writer.array
  <2> DEFINE n == Len(id) + 6
             h == ArrayHeader(id)
             m2 == Store(mem, d, h)
             v == [writer EXCEPT !.data = @ + n, !.arrayOffset = writer.data, !.array = TRUE]
             f == FieldOf(id, "Array", 0, writer.data)
             e2 == [Last(sent) EXCEPT !.members = Append(@, f)]
             s2 == WithLast(sent, e2)
  <2>1. n \in Nat
    <3>1. Len(id) \in Nat
      BY IdLengths
    <3> QED  BY <3>1
  <2>2. v \in WriterSet
    <3> HIDE DEF n
    <3> QED  BY <1>3, <2>1, WriterUpdates
  <2>3. /\ v.request_id = writer.request_id /\ v.eventOffset = writer.eventOffset
        /\ v.data = d + n /\ v.arrayOffset = d /\ v.entryOffset = writer.entryOffset
        /\ v.count = writer.count
    <3> HIDE DEF n
    <3> QED  BY <1>3 DEF WriterSet
  <2>4. ArrayBegin(b, id) = Buf(m2, v)
    BY <1>3, <1>6, ArrayBeginIs
  <2>5. mem' = m2 /\ writer' = v /\ v.data <= MaxBytes /\ phase' = phase
    <3> HIDE DEF m2, v
    <3> QED  BY <1>1, <2>4, Writing
  <2>6. sent' = s2
    <3>1. ~writer.entry
      BY <1>2, <1>6 DEF Stream
    <3>2. Member(id, "Array", 0) = f /\ WithMember(f) = s2
      <4>1. f = FieldOf(id, "Array", 0, writer.data)
        OBVIOUS
      <4> HIDE DEF f
      <4> QED  BY <3>1, <4>1, MemberAdded
    <3> HIDE DEF f, s2
    <3> QED  BY <1>1, <1>6, <3>2
  <2>7. BufferOK(m2)
    <3>1. h \in Item /\ h.type = "Array"
      BY <2>1 DEF ArrayHeader, Header, Item
    <3> HIDE DEF h, d
    <3>2. NumberOK(h)
      BY <3>1 DEF NumberOK
    <3> QED  BY <1>3, <3>1, <3>2, StoreOK, WriterIs
  <2>8. Stream(m2, v, s2) /\ s2 \in Seq(MessageSet)
    <3>1. /\ v = [writer EXCEPT !.data = @ + (Len(id) + 6), !.arrayOffset = writer.data,
                                !.array = TRUE]
          /\ m2 = Store(mem, writer.data, ArrayHeader(id))
          /\ f = FieldOf(id, "Array", 0, writer.data)
      OBVIOUS
    <3> HIDE DEF f
    <3>2. e2 = [Last(sent) EXCEPT !.members = Append(@, f)]
      OBVIOUS
    <3> HIDE DEF e2, v, m2, d
    <3> QED  BY <1>1, <1>2, <1>3, <1>6, <2>2, <3>1, <3>2, ArrayBegun DEF d
  <2>9. WriterOK(v)
    <3>1. v.data \in Start..MaxBytes
      <4> HIDE DEF v, n
      <4>1. d >= Start
        BY WriterIs
      <4> HIDE DEF d
      <4> QED  BY <1>3, <2>1, <2>3, <2>5, <4>1, StreamAssumption DEF Start
    <3> HIDE DEF v
    <3> QED  BY <2>2, <2>3, <3>1, WriterIs DEF WriterOK
  <2>10. Len(s2) = Len(sent)
    <3>1. sent # << >>
      BY <1>1, <1>2 DEF Stream, StreamAt
    <3> HIDE DEF e2
    <3> QED  BY <1>3, <3>1, ExceptSeq DEF WithLast
  <2> HIDE DEF m2, v, s2
  <2>11. Written'
    BY <1>1, <1>4, <2>3, <2>5, <2>6, <2>7, <2>8, <2>9, PhaseKept, StillWritten
  <2> QED  BY <2>6, <2>10, <2>11
<1> QED  BY <1>5, <1>6

LEMMA EntryBeginWrites ==
    ASSUME Written, write_array_entry_begin
    PROVE  Written' /\ Len(sent') = Len(sent)
<1> DEFINE b == Buf(mem, writer)
           d == writer.data
           g == [at |-> writer.data, fields |-> << >>]
           gs == Append(OpenMember(sent).entries, g)
           s2 == WithEntries(sent, gs)
<1>1. /\ writer.array /\ ~refused /\ Write(EntryBegin(b)) /\ refused' = writer.entry
      /\ used' = used
      /\ sent' = IF writer.entry THEN sent
                 ELSE [sent EXCEPT ![Len(sent)].members[Len(Message.members)].entries =
                                       Append(@, g)]
  BY BufferIsBuf DEF write_array_entry_begin
<1>2. Stream(mem, writer, sent)
  BY <1>1, WriterIs
<1>3. writer \in WriterSet /\ d \in Nat /\ d \in Offset /\ MemOK(mem) /\ sent \in Seq(MessageSet)
  BY WriterIs
<1>4. refused' \in BOOLEAN
  BY <1>1, <1>3, Updated
<1>5. CASE writer.entry
  <2> DEFINE v == [writer EXCEPT !.entryOffset = writer.data]
  <2>1. v \in WriterSet
    BY <1>3, WriterUpdates
  <2>2. /\ v.request_id = writer.request_id /\ v.eventOffset = writer.eventOffset
        /\ v.data = d /\ v.arrayOffset = writer.arrayOffset /\ v.entryOffset = d
        /\ v.count = writer.count
    BY <1>3 DEF WriterSet
  <2>3. EntryBegin(b) = Buf(mem, v)
    BY <1>3, <1>5, EntryBeginIs
  <2> HIDE DEF v
  <2>4. mem' = mem /\ writer' = v /\ phase' = phase
    BY <1>1, <2>3, Writing
  <2>5. WriterOK(v)
    BY <2>1, <2>2, WriterIs DEF WriterOK
  <2>6. sent' = sent /\ refused'
    BY <1>1, <1>5
  <2>7. Written'
    BY <1>1, <1>4, <2>2, <2>4, <2>5, <2>6, PhaseKept, StillWritten, WriterIs
  <2> QED  BY <2>6, <2>7
<1>6. CASE ~writer.entry
  <2> DEFINE h == EntryHeader
             m2 == Store(mem, d, h)
             v == [writer EXCEPT !.data = @ + 7, !.entryOffset = writer.data,
                                 !.entry = TRUE, !.count = 0]
  <2>1. v \in WriterSet
    BY <1>3, WriterUpdates
  <2>2. /\ v.request_id = writer.request_id /\ v.eventOffset = writer.eventOffset
        /\ v.data = d + 7 /\ v.arrayOffset = writer.arrayOffset /\ v.entryOffset = d
        /\ v.count = 0
    BY <1>3 DEF WriterSet
  <2>3. EntryBegin(b) = Buf(m2, v)
    BY <1>3, <1>6, EntryBeginIs
  <2>4. mem' = m2 /\ writer' = v /\ v.data <= MaxBytes /\ phase' = phase
    <3> HIDE DEF m2, v
    <3> QED  BY <1>1, <2>3, Writing
  <2>5. sent' = s2
    <3>1. sent' = [sent EXCEPT ![Len(sent)].members[Len(Message.members)].entries =
                                   Append(@, g)]
      BY <1>1, <1>6
    <3> QED  BY <3>1 DEF WithEntries, WithLast, OpenMember, Message, Last
  <2>6. BufferOK(m2)
    <3>1. h \in Item /\ h.type = "ArrayEntry"
      BY EntryHeaderIs
    <3> HIDE DEF h, d
    <3>2. NumberOK(h)
      BY <3>1 DEF NumberOK
    <3> QED  BY <1>3, <3>1, <3>2, StoreOK, WriterIs
  <2>7. Stream(m2, v, s2) /\ s2 \in Seq(MessageSet)
    <3>1. /\ v = [writer EXCEPT !.data = @ + 7, !.entryOffset = writer.data,
                                !.entry = TRUE, !.count = 0]
          /\ m2 = Store(mem, writer.data, EntryHeader)
          /\ g = [at |-> writer.data, fields |-> << >>]
          /\ gs = Append(OpenMember(sent).entries, g)
      OBVIOUS
    <3> HIDE DEF g, gs, v, m2, d
    <3> QED  BY <1>1, <1>2, <1>3, <1>6, <2>1, <3>1, EntryBegun DEF d
  <2>8. WriterOK(v)
    <3>1. v.data \in Start..MaxBytes
      <4> HIDE DEF v
      <4>1. d >= Start
        BY WriterIs
      <4> HIDE DEF d
      <4> QED  BY <1>3, <2>2, <2>4, <4>1, StreamAssumption DEF Start
    <3>2. v.count <= MaxMembers /\ v.entryOffset <= MaxBytes
      BY <2>2, WriterIs, StreamAssumption
    <3> HIDE DEF v
    <3> QED  BY <2>1, <2>2, <3>1, <3>2, WriterIs DEF WriterOK
  <2>9. Len(s2) = Len(sent)
    <3>1. sent # << >>
      BY <1>1, <1>2 DEF Stream, StreamAt
    <3> HIDE DEF gs
    <3> QED  BY <1>3, <3>1, ExceptSeq DEF WithEntries, WithLast
  <2> HIDE DEF m2, v, s2
  <2>10. Written'
    BY <1>1, <1>4, <2>2, <2>4, <2>5, <2>6, <2>7, <2>8, PhaseKept, StillWritten
  <2> QED  BY <2>5, <2>9, <2>10
<1> QED  BY <1>5, <1>6

LEMMA EntryEndWrites ==
    ASSUME Written, write_array_entry_end
    PROVE  Written' /\ sent' = sent
<1> DEFINE b == Buf(mem, writer)
           v == [writer EXCEPT !.entry = FALSE]
           m1 == Sized(mem, writer.entryOffset, writer.data)
           m2 == Counted(m1, writer.entryOffset, writer.count)
<1>1. ~refused /\ Write(EntryEnd(b)) /\ sent' = sent /\ used' = used /\ refused' = refused
  BY BufferIsBuf DEF write_array_entry_end, written
<1>2. Stream(mem, writer, sent)
  BY <1>1, WriterIs
<1>3. CASE writer.entry
  <2>1. v \in WriterSet
    BY WriterUpdates, WriterIs
  <2>2. /\ v.request_id = writer.request_id /\ v.eventOffset = writer.eventOffset
        /\ v.data = writer.data
        /\ v.arrayOffset = writer.arrayOffset /\ v.entryOffset = writer.entryOffset
        /\ v.count = writer.count
    BY WriterIs DEF WriterSet
  <2>3. EntryEnd(b) = Buf(m2, v)
    BY <1>3, EntryEndIs, WriterIs
  <2>4. MemOK(m2) /\ Stream(m2, v, sent)
    <3>1. /\ m1 = Sized(mem, writer.entryOffset, writer.data) /\ v = [writer EXCEPT !.entry = FALSE]
          /\ m2 = Counted(m1, writer.entryOffset, writer.count)
      OBVIOUS
    <3> HIDE DEF m1, m2, v
    <3> QED  BY <1>2, <1>3, <2>1, <3>1, WriterIs, EntryEnded
  <2>5. BufferOK(m2)
    <3>1. BufferOK(m1)
      BY SizedOK, WriterIs
    <3>2. writer.count \in Nat
      BY WriterIs, Updated
    <3> HIDE DEF m1
    <3> QED  BY <3>1, <3>2, CountedOK
  <2> HIDE DEF m2, v
  <2>6. mem' = m2 /\ writer' = v /\ phase' = phase
    BY <1>1, <2>3, Writing
  <2>7. WriterOK(v)
    BY <2>1, <2>2, WriterIs DEF WriterOK
  <2>8. refused' \in BOOLEAN
    BY <1>1 DEF Written
  <2> QED  BY <1>1, <2>2, <2>4, <2>5, <2>6, <2>7, <2>8, PhaseKept, StillWritten, WriterIs
<1>4. CASE ~writer.entry
  <2>1. EntryEnd(b) = Buf(mem, writer)
    BY <1>4, EntryEndIs, WriterIs
  <2>2. mem' = mem /\ writer' = writer /\ phase' = phase
    BY <1>1, <2>1, Writing
  <2> QED  BY <1>1, <2>2 DEF Written
<1> QED  BY <1>3, <1>4

LEMMA ArrayEndWrites ==
    ASSUME Written, write_array_end
    PROVE  Written' /\ sent' = sent
<1> DEFINE b == Buf(mem, writer)
           d == writer.data
<1>1. /\ ~refused /\ Write(ArrayEnd(b)) /\ sent' = sent /\ used' = used
      /\ refused' = (writer.array /\ writer.entry)
  BY BufferIsBuf DEF write_array_end
<1>2. Stream(mem, writer, sent)
  BY <1>1, WriterIs
<1>3. /\ writer \in WriterSet /\ d \in Nat /\ d \in Offset /\ BufferOK(mem) /\ MemOK(mem)
      /\ sent \in Seq(MessageSet)
  BY WriterIs
<1>4. refused' \in BOOLEAN
  BY <1>1
<1>5. CASE ~writer.array
  <2>1. ArrayEnd(b) = Buf(mem, writer)
    BY <1>5, ArrayEndIs, WriterIs
  <2>2. mem' = mem /\ writer' = writer /\ phase' = phase
    BY <1>1, <2>1, Writing
  <2>3. ~refused'
    BY <1>1, <1>5
  <2> QED  BY <1>1, <1>4, <2>2, <2>3 DEF Written
<1>6. CASE writer.array /\ ~writer.entry
  <2> DEFINE v == [writer EXCEPT !.data = @ + 7, !.entryOffset = writer.data, !.count = 0,
                                 !.array = FALSE]
             m0 == Store(mem, d, EntryHeader)
             m1 == Closing(mem, writer.data)
             m2 == Sized(m1, writer.arrayOffset, writer.data + 7)
  <2>1. v \in WriterSet
    BY <1>3, WriterUpdates
  <2>2. /\ v.request_id = writer.request_id /\ v.eventOffset = writer.eventOffset
        /\ v.data = d + 7 /\ v.arrayOffset = writer.arrayOffset /\ v.entryOffset = d
        /\ v.count = 0
    BY <1>3 DEF WriterSet
  <2>3. ArrayEnd(b) = Buf(m2, v)
    BY <1>3, <1>6, ArrayEndIs
  <2>4. mem' = m2 /\ writer' = v /\ v.data <= MaxBytes /\ phase' = phase
    <3> HIDE DEF m2, v
    <3> QED  BY <1>1, <2>3, Writing
  <2>5. Stream(m2, v, sent)
    <3>1. /\ v = [writer EXCEPT !.data = @ + 7, !.entryOffset = writer.data, !.count = 0,
                                !.array = FALSE]
          /\ m1 = Closing(mem, writer.data)
          /\ m2 = Sized(m1, writer.arrayOffset, writer.data + 7)
          /\ writer.data + 7 <= MaxBytes
      BY <2>2, <2>4
    <3> HIDE DEF v, m1, m2
    <3> QED  BY <1>2, <1>3, <1>6, <2>1, <3>1, ArrayEnded
  <2>6. BufferOK(m2)
    <3>1. BufferOK(m0)
      <4> DEFINE h == EntryHeader
      <4>1. h \in Item /\ h.type = "ArrayEntry"
        BY EntryHeaderIs
      <4> HIDE DEF h, d
      <4>2. NumberOK(h)
        BY <4>1 DEF NumberOK
      <4>3. BufferOK(Store(mem, d, h))
        BY <1>3, <4>1, <4>2, StoreOK
      <4> QED  BY <4>3 DEF h
    <3> HIDE DEF m0
    <3>2. BufferOK(Sized(m0, d, d + 7))
      BY <1>3, <3>1, SizedOK
    <3> DEFINE k == Sized(m0, d, d + 7)
    <3>3. m1 = Counted(k, d, 0)
      BY DEF Closing, m0
    <3> HIDE DEF k, m1
    <3>4. BufferOK(m1)
      BY <3>2, <3>3, CountedOK DEF k
    <3>5. writer.data + 7 \in Int
      BY <1>3
    <3> QED  BY <3>4, <3>5, SizedOK
  <2>7. WriterOK(v)
    <3>1. v.data \in Start..MaxBytes
      <4> HIDE DEF v
      <4>1. d >= Start
        BY WriterIs
      <4> HIDE DEF d
      <4> QED  BY <1>3, <2>2, <2>4, <4>1, StreamAssumption DEF Start
    <3>2. v.count <= MaxMembers /\ v.entryOffset <= MaxBytes
      BY <2>2, WriterIs, StreamAssumption
    <3> HIDE DEF v
    <3> QED  BY <2>1, <2>2, <3>1, <3>2, WriterIs DEF WriterOK
  <2> HIDE DEF m2, v
  <2> QED  BY <1>1, <1>3, <1>4, <2>2, <2>4, <2>5, <2>6, <2>7, PhaseKept, StillWritten
<1>7. CASE writer.array /\ writer.entry
  <2> DEFINE v == [writer EXCEPT !.entryOffset = writer.data, !.entry = FALSE, !.array = FALSE]
             m1 == Counted(Sized(mem, d, d), d, writer.count)
             m2 == Sized(m1, writer.arrayOffset, d)
  <2>1. v \in WriterSet
    BY <1>3, WriterUpdates
  <2>2. /\ v.request_id = writer.request_id /\ v.eventOffset = writer.eventOffset
        /\ v.data = d /\ v.arrayOffset = writer.arrayOffset /\ v.entryOffset = d
        /\ v.count = writer.count
    BY <1>3 DEF WriterSet
  <2>3. ArrayEnd(b) = Buf(m2, v)
    BY <1>3, <1>7, ArrayEndIs
  <2>4. mem' = m2 /\ writer' = v /\ phase' = phase
    <3> HIDE DEF m2, v
    <3> QED  BY <1>1, <2>3, Writing
  <2>5. BufferOK(m2)
    <3>1. BufferOK(Sized(mem, d, d))
      BY <1>3, SizedOK
    <3>2. writer.count \in Nat
      BY <1>3, Updated
    <3> DEFINE k == Sized(mem, d, d)
    <3>3. BufferOK(k) /\ m1 = Counted(k, d, writer.count)
      BY <3>1
    <3> HIDE DEF k, m1
    <3>4. BufferOK(m1)
      BY <3>2, <3>3, CountedOK
    <3> QED  BY <1>3, <3>4, SizedOK
  <2>6. WriterOK(v)
    <3> HIDE DEF v
    <3> QED  BY <2>1, <2>2, WriterIs DEF WriterOK
  <2>7. refused'
    BY <1>1, <1>7
  <2> HIDE DEF m2, v
  <2> QED  BY <1>1, <1>3, <1>4, <2>2, <2>4, <2>5, <2>6, <2>7, PhaseKept, StillWritten
<1> QED  BY <1>5, <1>6, <1>7

LEMMA RecycleWrites ==
    ASSUME Written, Recycle
    PROVE  Written' /\ sent' = << >>
<1> DEFINE v == [data |-> Start, request_id |-> writer.request_id, eventOffset |-> 0,
                 arrayOffset |-> 0, entryOffset |-> 0, event |-> FALSE, array |-> FALSE,
                 entry |-> FALSE, count |-> 0]
           s == << >>
<1>1. /\ mem' = mem /\ writer' = v /\ sent' = s /\ used' = used /\ ~refused'
      /\ refused' \in BOOLEAN /\ phase' \in {"writing", "reading"}
  BY DEF Recycle, ResetWriter, Fresh
<1>2. writer.request_id \in Nat /\ writer.request_id >= 1
  BY WriterIs, Updated DEF WriterOK
<1>3. v \in WriterSet /\ WriterOK(v)
  BY <1>2, StreamAssumption DEF WriterSet, WriterOK, Start
<1>4. Stream(mem, v, s)
  BY EmptyChain DEF Stream, StreamAt, Start
<1>5. s \in Seq(MessageSet)
  BY EmptySeq
<1>6. v.request_id = writer.request_id
  OBVIOUS
<1> HIDE DEF v, s
<1>7. Written'
  BY <1>1, <1>3, <1>4, <1>5, <1>6, StillWritten, WriterIs
<1> QED  BY <1>1, <1>7 DEF s

-----------------------------------------------------------------------------
(* The walk of findIdByRange.  It only ever goes forward, so that the equation *)
(* that defines it has a solution: one that is right from an offset on is     *)
(* corrected at the offset before, until it is right everywhere.             *)

LEMMA Ind ==
    ASSUME NEW S, 0 \in S, \A n \in Nat : n \in S => n + 1 \in S
    PROVE  Nat \subseteq S
<1> DEFINE R == OpToRel(<, Nat)
<1>1. IsWellFoundedOn(R, Nat)
  BY NatLessThanWellFounded
<1>2. \A x, y \in Nat : x < y => <<x, y>> \in R
  BY DEF OpToRel
<1> HIDE DEF R
<1> SUFFICES ASSUME Nat \ S # {}
             PROVE  FALSE
  OBVIOUS
<1>3. PICK x \in Nat \ S : \A y \in Nat \ S : ~(<<y, x>> \in R)
  BY <1>1, WFMin
<1>4. x - 1 \in Nat /\ x - 1 < x
  BY <1>3
<1>5. x - 1 \in S
  BY <1>2, <1>3, <1>4
<1> QED  BY <1>3, <1>4, <1>5

Step(o) == IF ItemAt(o).type \in {"Data", "Array"} THEN ItemAt(o).size ELSE ItemAt(o).size % W16

LEMMA StepIs ==
    ASSUME Written
    PROVE  \A o \in Nat : Step(o) \in Nat
<1> SUFFICES ASSUME NEW o \in Nat
             PROVE  Step(o) \in Nat
  OBVIOUS
<1>1. ItemAt(o).size \in Nat
  <2>1. CASE o \in DOMAIN mem
    <3>1. mem[o] \in Item
      BY <2>1, WriterIs DEF MemOK
    <3> QED  BY <2>1, <3>1 DEF Item, ItemAt
  <2>2. CASE o \notin DOMAIN mem
    BY <2>2 DEF ItemAt, Garbage, Header
  <2> QED  BY <2>1, <2>2
<1>2. ItemAt(o).size % W16 \in Nat
  BY <1>1, IdLengths, ModRange
<1> QED  BY <1>1, <1>2 DEF Step

LEMMA FindIdStep ==
    ASSUME Written, NEW id, NEW end \in Nat
    PROVE  \A o \in Nat :
               FindId(id, o, end) = IF o >= end \/ Step(o) = 0 THEN 0
                                    ELSE IF ItemAt(o).id = id THEN o
                                    ELSE FindId(id, o + Step(o), end)
<1> DEFINE rest(g, o) == IF o >= end \/ Step(o) = 0 THEN 0
                         ELSE IF ItemAt(o).id = id THEN o
                         ELSE g[o + Step(o)]
           F(g) == [o \in Nat |-> rest(g, o)]
           found == CHOOSE g : g = F(g)
           S == {k \in Nat : \E g \in [Nat -> Nat] : \A o \in Nat : end <= o + k => g[o] = rest(g, o)}
<1>1. \A o : FindId(id, o, end) = found[o]
  BY DEF FindId, Step
<1>2. 0 \in S
  <2>1. [o \in Nat |-> 0] \in [Nat -> Nat]
    OBVIOUS
  <2> DEFINE g == [o \in Nat |-> 0]
  <2>2. \A o \in Nat : end <= o + 0 => g[o] = rest(g, o)
    OBVIOUS
  <2> QED  BY <2>1, <2>2
<1>3. ASSUME NEW k \in Nat, k \in S
      PROVE  k + 1 \in S
  <2>1. PICK g \in [Nat -> Nat] : \A o \in Nat : end <= o + k => g[o] = rest(g, o)
    BY <1>3
  <2>2. CASE end <= k
    <3>1. \A o \in Nat : end <= o + k
      BY <2>2
    <3> QED  BY <2>1, <3>1
  <2>3. CASE ~(end <= k)
    <3> DEFINE p == end - (k + 1)
    <3>1. p \in Nat /\ p + (k + 1) = end
      BY <2>3
    <3>2. rest(g, p) \in Nat
      <4>1. Step(p) \in Nat /\ p + Step(p) \in Nat
        BY <3>1, StepIs
      <4> HIDE DEF p
      <4> QED  BY <3>1, <4>1
    <3> DEFINE v == rest(g, p)
               h == [g EXCEPT ![p] = v]
    <3> HIDE DEF v, p
    <3>3. h \in [Nat -> Nat] /\ h[p] = v /\ \A o \in Nat : o # p => h[o] = g[o]
      BY <3>1, <3>2 DEF v
    <3> HIDE DEF h
    <3>4. ASSUME NEW o \in Nat, end <= o + (k + 1)
          PROVE  h[o] = rest(h, o)
      <4>1. o >= p
        BY <3>1, <3>4
      <4>2. Step(o) \in Nat
        BY StepIs
      <4>3. Step(o) # 0 => o + Step(o) \in Nat /\ o + Step(o) # p
        BY <3>1, <4>1, <4>2
      <4>4. rest(h, o) = rest(g, o)
        BY <3>3, <4>3
      <4>5. CASE o = p
        BY <3>3, <4>4, <4>5 DEF v
      <4>6. CASE o # p
        <5>1. end <= o + k
          BY <3>1, <4>1, <4>6
        <5>2. g[o] = rest(g, o)
          BY <2>1, <5>1
        <5> QED  BY <3>3, <4>4, <4>6, <5>2
      <4> QED  BY <4>5, <4>6
    <3> QED  BY <3>3, <3>4
  <2> QED  BY <2>2, <2>3
<1>4. end \in S
  <2> HIDE DEF S
  <2>1. \A n \in Nat : n \in S => n + 1 \in S
    BY <1>3
  <2>2. Nat \subseteq S
    BY <1>2, <2>1, Ind
  <2> QED  BY <2>2
<1>5. PICK g \in [Nat -> Nat] : \A o \in Nat : g[o] = rest(g, o)
  <2>1. PICK g \in [Nat -> Nat] : \A o \in Nat : end <= o + end => g[o] = rest(g, o)
    BY <1>4
  <2>2. \A o \in Nat : end <= o + end
    OBVIOUS
  <2> QED  BY <2>1, <2>2
<1>6. g = F(g)
  <2>1. g = [o \in Nat |-> g[o]]
    OBVIOUS
  <2> QED  BY <1>5, <2>1
<1>7. found = F(found)
  <2> HIDE DEF F
  <2> QED  BY <1>6
<1>8. \A o \in Nat : found[o] = rest(found, o)
  <2> HIDE DEF found
  <2> QED  BY <1>7
<1> HIDE DEF found
<1> QED  BY <1>1, <1>8

\* Where the first of the things with an id is; 0 if there is none.
Found(s, id) == IF First(s, id) = 0 THEN 0 ELSE s[First(s, id)].at

LEMMA LeastIs ==
    ASSUME NEW T \in SUBSET Nat, T # {}
    PROVE  \E i \in T : \A j \in T : i <= j
<1> DEFINE R == OpToRel(<, Nat)
<1>1. IsWellFoundedOn(R, Nat)
  BY NatLessThanWellFounded
<1>2. \A x, y \in Nat : x < y => <<x, y>> \in R
  BY DEF OpToRel
<1> HIDE DEF R
<1>3. PICK x \in T : \A y \in T : ~(<<y, x>> \in R)
  BY <1>1, WFMin
<1>4. ASSUME NEW j \in T
      PROVE  x <= j
  <2>1. j \in Nat /\ x \in Nat
    BY <1>3
  <2>2. ~(j < x)
    BY <1>2, <1>3, <2>1
  <2> QED  BY <2>1, <2>2
<1> QED  BY <1>4

LEMMA FirstIs ==
    ASSUME NEW S, NEW s \in Seq(S), NEW id
    PROVE  /\ First(s, id) = 0 <=> \A i \in 1..Len(s) : s[i].id # id
           /\ First(s, id) # 0 => /\ First(s, id) \in 1..Len(s) /\ s[First(s, id)].id = id
                                  /\ \A i \in 1..Len(s) : i < First(s, id) => s[i].id # id
<1> DEFINE T == {i \in 1..Len(s) : s[i].id = id}
<1>0. Len(s) \in Nat
  BY LenProperties
<1>1. First(s, id) = IF T = {} THEN 0 ELSE CHOOSE i \in T : \A j \in T : i <= j
  BY DEF First
<1>2. T \in SUBSET Nat
  BY <1>0
<1>3. CASE T = {}
  BY <1>0, <1>1, <1>3
<1>4. CASE T # {}
  <2> DEFINE k == First(s, id)
  <2>1. \E i \in T : \A j \in T : i <= j
    <3> HIDE DEF T
    <3> QED  BY <1>2, <1>4, LeastIs
  <2>2. k = CHOOSE i \in T : \A j \in T : i <= j
    BY <1>1, <1>4
  <2>3. k \in T /\ \A j \in T : k <= j
    <3> HIDE DEF T, k
    <3> QED  BY <2>1, <2>2
  <2> HIDE DEF k
  <2>4. k \in 1..Len(s) /\ s[k].id = id /\ k # 0
    BY <1>0, <2>3
  <2>5. \A i \in 1..Len(s) : i < k => s[i].id # id
    <3> SUFFICES ASSUME NEW i \in 1..Len(s), i < k, s[i].id = id
                 PROVE  FALSE
      OBVIOUS
    <3>1. i \in T /\ k \in 1..Len(s)
      BY <2>3
    <3>2. k <= i /\ k \in Nat /\ i \in Nat
      BY <1>0, <2>3, <3>1
    <3> QED  BY <3>2
  <2> QED  BY <2>4, <2>5 DEF k
<1> QED  BY <1>3, <1>4

\* A walk over a chain of items that can be stepped over finds the first with the id.
LEMMA ChainWalk ==
    ASSUME Written, NEW S, NEW s \in Seq(S), NEW from \in Nat, NEW to \in Nat,
           Chained(s, from, to), NEW id,
           \A i \in 1..Len(s) : /\ ItemAt(s[i].at).id = s[i].id
                                /\ Step(s[i].at) = NextAt(s, i, to) - s[i].at
    PROVE  FindId(id, from, to) = Found(s, id)
<1> DEFINE n == Len(s)
           k == First(s, id)
           Here(i) == IF i <= n THEN s[i].at ELSE to
           S0 == {j \in Nat : \A i \in 1..(n + 1) :
                      i + j = n + 1 /\ (k # 0 => i <= k) => FindId(id, Here(i), to) = Found(s, id)}
<1>1. n \in Nat
  BY LenProperties
<1>2. /\ k = 0 => \A i \in 1..n : s[i].id # id
      /\ k # 0 => k \in 1..n /\ s[k].id = id /\ \A i \in 1..n : i < k => s[i].id # id
  BY FirstIs
<1> HIDE DEF k
<1>3. \A i \in 1..n : /\ s[i].at \in Nat /\ s[i].at < NextAt(s, i, to) /\ NextAt(s, i, to) <= to
                      /\ NextAt(s, i, to) \in Nat
  BY ChainFacts
<1>4. \A i \in 1..n : NextAt(s, i, to) = Here(i + 1)
  BY <1>1 DEF NextAt
<1>5. Here(1) = from
  BY <1>1, EmptySeq, LenProperties DEF Chained
<1>6. 0 \in S0
  <2> SUFFICES ASSUME NEW i \in 1..(n + 1), i + 0 = n + 1, k # 0 => i <= k
               PROVE  FindId(id, Here(i), to) = Found(s, id)
    OBVIOUS
  <2>1. i = n + 1 /\ Here(i) = to
    BY <1>1
  <2>2. k = 0
    BY <1>1, <1>2, <2>1
  <2>3. FindId(id, to, to) = 0
    BY FindIdStep
  <2> QED  BY <2>1, <2>2, <2>3 DEF Found, k
<1>7. ASSUME NEW j \in Nat, j \in S0
      PROVE  j + 1 \in S0
  <2> SUFFICES ASSUME NEW i \in 1..(n + 1), i + (j + 1) = n + 1, k # 0 => i <= k
               PROVE  FindId(id, Here(i), to) = Found(s, id)
    OBVIOUS
  <2>1. i \in 1..n /\ i + 1 \in 1..(n + 1) /\ (i + 1) + j = n + 1
    BY <1>1
  <2> DEFINE o == s[i].at
             o2 == NextAt(s, i, to)
  <2>2. o \in Nat /\ o2 \in Nat /\ o < o2 /\ o2 <= to /\ Here(i) = o /\ Here(i + 1) = o2
    BY <1>1, <1>3, <1>4, <2>1
  <2>3. ItemAt(o).id = s[i].id /\ Step(o) = o2 - o
    BY <2>1
  <2> HIDE DEF o, o2
  <2>4. ~(o >= to) /\ Step(o) # 0 /\ o + Step(o) = o2
    BY <2>2, <2>3
  <2>5. FindId(id, o, to) = IF ItemAt(o).id = id THEN o ELSE FindId(id, o2, to)
    BY <2>2, <2>4, FindIdStep
  <2>6. CASE s[i].id = id
    <3>1. k # 0 /\ k = i
      BY <1>1, <1>2, <2>1, <2>6
    <3>2. Found(s, id) = o
      BY <3>1 DEF Found, k, o
    <3> QED  BY <2>2, <2>3, <2>5, <2>6, <3>2
  <2>7. CASE s[i].id # id
    <3>1. k # 0 => i + 1 <= k
      BY <1>1, <1>2, <2>1, <2>7
    <3>2. FindId(id, Here(i + 1), to) = Found(s, id)
      BY <1>7, <2>1, <3>1
    <3> QED  BY <2>2, <2>3, <2>5, <2>7, <3>2
  <2> QED  BY <2>6, <2>7
<1>8. n \in S0
  <2> HIDE DEF S0
  <2>1. \A j \in Nat : j \in S0 => j + 1 \in S0
    BY <1>7
  <2>2. Nat \subseteq S0
    BY <1>6, <2>1, Ind
  <2> QED  BY <1>1, <2>2
<1>9. 1 \in 1..(n + 1) /\ 1 + n = n + 1 /\ (k # 0 => 1 <= k)
  BY <1>1, <1>2
<1> QED  BY <1>5, <1>8, <1>9

LEMMA FieldSteps ==
    ASSUME Written, NEW f, f.at \in Nat, f.type \in FieldTypes, NEW to \in Nat, f.at < to,
           FieldAt(mem, f, to)
    PROVE  /\ ItemAt(f.at).id = f.id /\ ItemAt(f.at).type = f.type /\ ItemAt(f.at).value = f.value
           /\ Step(f.at) = to - f.at
<1>1. /\ f.at \in DOMAIN mem /\ mem[f.at].type = f.type /\ mem[f.at].id = f.id
      /\ mem[f.at].value = f.value /\ mem[f.at].size = to - f.at
      /\ f.type # "Data" => to - f.at < W16
  BY DEF FieldAt, Has
<1>2. ItemAt(f.at) = mem[f.at]
  BY <1>1 DEF ItemAt
<1>3. f.type # "Array"
  BY FieldTypesAre
<1>4. to - f.at \in Nat
  OBVIOUS
<1>5. f.type # "Data" => (to - f.at) % W16 = to - f.at
  <2> DEFINE n == to - f.at
  <2>1. n \in Nat /\ W16 \in Nat /\ W16 > 1
    BY <1>4, IdLengths
  <2> HIDE DEF n
  <2>2. n < W16 => n % W16 = n
    BY <2>1
  <2> QED  BY <1>1, <2>2 DEF n
<1> QED  BY <1>1, <1>2, <1>3, <1>5 DEF Step

LEMMA MemberSteps ==
    ASSUME Written, NEW x \in MemberSet, NEW to \in Nat, x.at < to,
           MemberAt(mem, x, to, FALSE, FALSE)
    PROVE  /\ ItemAt(x.at).id = x.id /\ ItemAt(x.at).type = x.type /\ ItemAt(x.at).value = x.value
           /\ Step(x.at) = to - x.at
<1>1. x.at \in Nat /\ x.type \in FieldTypes \union {"Array"}
  BY DEF MemberSet
<1>2. CASE x.type # "Array"
  <2>1. FieldAt(mem, x, to) /\ x.type \in FieldTypes
    BY <1>1, <1>2 DEF MemberAt
  <2> QED  BY <1>1, <2>1, FieldSteps
<1>3. CASE x.type = "Array"
  <2>1. ArrayAt(mem, x, to, FALSE, FALSE)
    BY <1>3 DEF MemberAt
  <2>2. Has(mem, x.at, "Array", x.id, 0) /\ x.value = 0 /\ mem[x.at].size = to - x.at
    BY <2>1 DEF ArrayAt
  <2>3. ItemAt(x.at) = mem[x.at]
    BY <2>2 DEF ItemAt, Has
  <2> QED  BY <1>3, <2>2, <2>3 DEF Step, Has
<1> QED  BY <1>2, <1>3

LEMMA FieldsAreFound ==
    ASSUME Written, NEW fs \in Seq(FieldSet), NEW from \in Nat, NEW to \in Nat, from > 0,
           FieldsAt(mem, fs, from, to), NEW id
    PROVE  FoundIs(FindId(id, from, to), fs, id)
<1>1. ASSUME NEW i \in 1..Len(fs)
      PROVE  /\ fs[i].at \in Nat /\ from <= fs[i].at
             /\ ItemAt(fs[i].at).id = fs[i].id /\ ItemAt(fs[i].at).type = fs[i].type
             /\ ItemAt(fs[i].at).value = fs[i].value
             /\ Step(fs[i].at) = NextAt(fs, i, to) - fs[i].at
  <2>1. /\ fs[i] \in FieldSet /\ fs[i].at \in Nat /\ NextAt(fs, i, to) \in Nat
        /\ from <= fs[i].at /\ fs[i].at < NextAt(fs, i, to)
    BY ChainFacts DEF FieldsAt
  <2>2. FieldAt(mem, fs[i], NextAt(fs, i, to)) /\ fs[i].type \in FieldTypes
    BY <2>1 DEF FieldsAt, FieldSet
  <2> QED  BY <2>1, <2>2, FieldSteps
<1>2. FindId(id, from, to) = Found(fs, id)
  BY <1>1, ChainWalk DEF FieldsAt
<1>3. First(fs, id) # 0 => First(fs, id) \in 1..Len(fs)
  BY FirstIs
<1> QED  BY <1>1, <1>2, <1>3 DEF FoundIs, Found

LEMMA MembersAreFound ==
    ASSUME Written, NEW xs \in Seq(MemberSet), NEW from \in Nat, NEW to \in Nat, from > 0,
           MembersAt(mem, xs, from, to, FALSE, FALSE), NEW id
    PROVE  /\ FindId(id, from, to) = Found(xs, id)
           /\ FoundIs(FindId(id, from, to), xs, id)
<1>1. ASSUME NEW i \in 1..Len(xs)
      PROVE  /\ xs[i].at \in Nat /\ from <= xs[i].at
             /\ ItemAt(xs[i].at).id = xs[i].id /\ ItemAt(xs[i].at).type = xs[i].type
             /\ ItemAt(xs[i].at).value = xs[i].value
             /\ Step(xs[i].at) = NextAt(xs, i, to) - xs[i].at
  <2>1. /\ xs[i] \in MemberSet /\ xs[i].at \in Nat /\ NextAt(xs, i, to) \in Nat
        /\ from <= xs[i].at /\ xs[i].at < NextAt(xs, i, to)
    BY ChainFacts DEF MembersAt
  <2>2. MemberAt(mem, xs[i], NextAt(xs, i, to), FALSE, FALSE)
    BY DEF MembersAt
  <2> QED  BY <2>1, <2>2, MemberSteps
<1>2. FindId(id, from, to) = Found(xs, id)
  BY <1>1, ChainWalk DEF MembersAt
<1>3. First(xs, id) # 0 => First(xs, id) \in 1..Len(xs)
  BY FirstIs
<1> QED  BY <1>1, <1>2, <1>3 DEF FoundIs, Found

-----------------------------------------------------------------------------
(* The reader.                                                              *)

\* Where the event after the k-th begins, or the buffer ends.
EndOf(k) == NextAt(sent, k, writer.data)

\* Everything that was begun is ended.
Complete == ~refused /\ ~writer.event /\ ~writer.array /\ ~writer.entry

LEMMA CompleteStream ==
    ASSUME Written, Complete
    PROVE  /\ StreamAt(mem, sent, writer.data, FALSE, FALSE, FALSE)
           /\ Len(sent) \in Nat /\ writer.data \in Nat /\ Start <= writer.data
<1>1. /\ writer.event = FALSE /\ writer.array = FALSE /\ writer.entry = FALSE
      /\ Stream(mem, writer, sent)
  BY WriterIs, Updated DEF Complete
<1> QED  BY <1>1, WriterIs, LenProperties DEF Stream

LEMMA MessageIs ==
    ASSUME Written, Complete, NEW k \in 1..Len(sent)
    PROVE  /\ sent[k] \in MessageSet /\ sent[k].at \in Nat /\ Start <= sent[k].at
           /\ EndOf(k) \in Nat /\ sent[k].at + 7 + RequestBytes <= EndOf(k)
           /\ EndOf(k) <= writer.data /\ writer.data \in Nat
           /\ sent[k].at + 7 + RequestBytes \in Nat
           /\ Has(mem, sent[k].at, "Event", "", sent[k].event)
           /\ mem[sent[k].at].size = EndOf(k) - sent[k].at
           /\ Has(mem, sent[k].at + 7, "U64", RequestId, sent[k].request)
           /\ mem[sent[k].at + 7].size = RequestBytes
           /\ sent[k].members \in Seq(MemberSet)
           /\ MembersAt(mem, sent[k].members, sent[k].at + 7 + RequestBytes, EndOf(k), FALSE, FALSE)
<1>1. StreamAt(mem, sent, writer.data, FALSE, FALSE, FALSE) /\ writer.data \in Nat
  BY CompleteStream
<1>2. Start \in Nat /\ sent \in Seq(MessageSet)
  BY WriterIs DEF Start
<1>3. /\ sent[k] \in MessageSet /\ sent[k].at \in Nat /\ Start <= sent[k].at
      /\ EndOf(k) \in Nat /\ EndOf(k) <= writer.data
  BY <1>1, <1>2, ChainFacts DEF StreamAt, EndOf
<1>4. MessageAt(mem, sent[k], EndOf(k), FALSE, FALSE, FALSE)
  BY <1>1 DEF StreamAt, EndOf
<1>5. /\ Has(mem, sent[k].at, "Event", "", sent[k].event)
      /\ mem[sent[k].at].size = EndOf(k) - sent[k].at
      /\ Has(mem, sent[k].at + 7, "U64", RequestId, sent[k].request)
      /\ mem[sent[k].at + 7].size = RequestBytes
      /\ MembersAt(mem, sent[k].members, sent[k].at + 7 + RequestBytes, EndOf(k), FALSE, FALSE)
  BY <1>4 DEF MessageAt
<1>6. sent[k].at + 7 + RequestBytes <= EndOf(k)
  BY <1>5 DEF MembersAt, Chained
<1>7. sent[k].at + 7 + RequestBytes \in Nat /\ sent[k].members \in Seq(MemberSet)
  BY <1>3, IdLengths DEF MessageSet
<1> QED  BY <1>1, <1>3, <1>5, <1>6, <1>7

\* What a walk over an event finds.
LEMMA MessageWalk ==
    ASSUME Written, Complete, NEW k \in 1..Len(sent)
    PROVE  /\ \A id \in Ids : FoundIs(FindId(id, sent[k].at + 7, EndOf(k)), sent[k].members, id)
           /\ \A id \in Ids : FindId(id, sent[k].at + 7, EndOf(k)) = Found(sent[k].members, id)
           /\ ItemAt(FindId(RequestId, sent[k].at + 7, EndOf(k))).value = sent[k].request
<1> DEFINE o == sent[k].at + 7
           end == EndOf(k)
           xs == sent[k].members
           from == o + RequestBytes
<1>1. /\ sent[k].at \in Nat /\ o \in Nat /\ end \in Nat /\ from \in Nat /\ from <= end
      /\ Has(mem, o, "U64", RequestId, sent[k].request) /\ mem[o].size = RequestBytes
      /\ xs \in Seq(MemberSet) /\ MembersAt(mem, xs, from, end, FALSE, FALSE)
  <2>1. /\ sent[k].at \in Nat /\ EndOf(k) \in Nat /\ sent[k].at + 7 + RequestBytes \in Nat
        /\ sent[k].at + 7 + RequestBytes <= EndOf(k)
    BY MessageIs
  <2>2. /\ Has(mem, sent[k].at + 7, "U64", RequestId, sent[k].request)
        /\ mem[sent[k].at + 7].size = RequestBytes
    BY MessageIs
  <2>3. /\ xs \in Seq(MemberSet)
        /\ MembersAt(mem, sent[k].members, sent[k].at + 7 + RequestBytes, EndOf(k), FALSE, FALSE)
    BY MessageIs
  <2>4. o \in Nat
    BY <2>1
  <2> QED  BY <2>1, <2>2, <2>3, <2>4
<1>2. RequestBytes \in Nat /\ RequestBytes > 0 /\ RequestBytes < W16 /\ W16 \in Nat
  BY IdLengths
<1>3. from > 0
  BY <1>1, <1>2
<1>4. ItemAt(o).id = RequestId /\ ItemAt(o).value = sent[k].request /\ Step(o) = RequestBytes
  <2>1. ItemAt(o) = mem[o] /\ mem[o].type = "U64"
    BY <1>1 DEF ItemAt, Has
  <2>2. RequestBytes % W16 = RequestBytes
    BY <1>2
  <2> HIDE DEF o
  <2> QED  BY <1>1, <2>1, <2>2 DEF Has, Step
<1>5. ~(o >= end) /\ Step(o) # 0 /\ o + Step(o) = from
  <2> HIDE DEF end
  <2>1. o + RequestBytes <= end
    BY <1>1
  <2> HIDE DEF o
  <2> QED  BY <1>1, <1>2, <1>4, <2>1
<1>6. \A id : FindId(id, o, end) = IF ItemAt(o).id = id THEN o ELSE FindId(id, from, end)
  <2> HIDE DEF from, end, o
  <2> QED  BY <1>1, <1>5, FindIdStep
<1>7. \A id : FindId(id, from, end) = Found(xs, id) /\ FoundIs(FindId(id, from, end), xs, id)
  <2> HIDE DEF from, end, xs
  <2> QED  BY <1>1, <1>3, MembersAreFound
<1> HIDE DEF o, end, xs, from
<1>8. \A id \in Ids : FindId(id, o, end) = FindId(id, from, end)
  BY <1>4, <1>6, StreamAssumption
<1>9. FindId(RequestId, o, end) = o
  BY <1>4, <1>6
<1> QED  BY <1>4, <1>7, <1>8, <1>9 DEF o, end, xs

\* The array that is the j-th member of the k-th event, with the empty entry at its end.
BehindEntries(k, j) == NextAt(sent[k].members, j, EndOf(k)) - 7

LEMMA ArrayIs ==
    ASSUME Written, Complete, NEW k \in 1..Len(sent), NEW j \in 1..Len(sent[k].members),
           NEW x, x = sent[k].members[j], x.type = "Array", NEW to, to = BehindEntries(k, j)
    PROVE  /\ x \in MemberSet /\ x.at \in Nat /\ x.id \in Ids /\ x.entries \in Seq(EntrySet)
           /\ x.at + Len(x.id) + 6 \in Nat /\ x.at + Len(x.id) + 6 > 0
           /\ x.at + Len(x.id) + 6 <= to
           /\ to \in Nat /\ to + 7 <= writer.data
           /\ EntriesAt(mem, x.entries, x.at + Len(x.id) + 6, to, FALSE)
           /\ Has(mem, to, "ArrayEntry", "", 0) /\ mem[to].size = 7
<1> DEFINE xs == sent[k].members
           from == sent[k].at + 7 + RequestBytes
           end == EndOf(k)
           next == NextAt(xs, j, end)
<1>1. /\ xs \in Seq(MemberSet) /\ from \in Nat /\ end \in Nat /\ end <= writer.data
      /\ writer.data \in Nat /\ MembersAt(mem, xs, from, end, FALSE, FALSE)
  BY MessageIs
<1> HIDE DEF from, end
<1>2. /\ x \in MemberSet /\ x.at \in Nat /\ next \in Nat /\ x.at < next /\ next <= end
  <2>1. xs[j] \in MemberSet /\ xs[j].at \in Nat /\ next \in Nat /\ xs[j].at < next /\ next <= end
    <3> DEFINE s == xs
    <3>1. s \in Seq(MemberSet) /\ Chained(s, from, end) /\ j \in 1..Len(s)
      BY <1>1 DEF MembersAt
    <3> HIDE DEF s
    <3>2. /\ s[j] \in MemberSet /\ s[j].at \in Nat /\ NextAt(s, j, end) \in Nat
          /\ s[j].at < NextAt(s, j, end) /\ NextAt(s, j, end) <= end
      BY <1>1, <3>1, ChainFacts
    <3> QED  BY <3>2 DEF s
  <2> QED  BY <2>1
<1>3. MemberAt(mem, x, next, FALSE, FALSE)
  <2>1. MemberAt(mem, xs[j], next, FALSE /\ j = Len(xs), FALSE)
    BY <1>1 DEF MembersAt
  <2> QED  BY <2>1
<1>4. ArrayAt(mem, x, next, FALSE, FALSE)
  <2> HIDE DEF next
  <2> QED  BY <1>3 DEF MemberAt
<1>5. to = next - 7
  BY DEF BehindEntries, end
<1> HIDE DEF next
<1>6. /\ to \in Nat /\ EntriesAt(mem, x.entries, x.at + Len(x.id) + 6, to, FALSE)
      /\ Has(mem, to, "ArrayEntry", "", 0) /\ mem[to].size = 7
  BY <1>4, <1>5 DEF ArrayAt
<1>7. x.id \in Ids /\ x.entries \in Seq(EntrySet)
  BY <1>2 DEF MemberSet
<1>8. x.at + Len(x.id) + 6 \in Nat /\ x.at + Len(x.id) + 6 > 0
  <2> DEFINE a == x.at
             n == Len(x.id)
  <2>1. a \in Nat /\ n \in Nat
    BY <1>2, <1>7, IdLengths
  <2> HIDE DEF a, n
  <2>2. a + n + 6 \in Nat /\ a + n + 6 > 0
    BY <2>1
  <2> QED  BY <2>2 DEF a, n
<1>9. x.at + Len(x.id) + 6 <= to
  BY <1>6 DEF EntriesAt, Chained
<1>10. to + 7 <= writer.data
  BY <1>1, <1>2, <1>5
<1> QED  BY <1>2, <1>6, <1>7, <1>8, <1>9, <1>10

EntryThere(e, next) ==
    /\ e.at \in Nat /\ e.at + 7 \in Nat /\ next \in Nat /\ e.at + 7 <= next
    /\ ItemAt(e.at).type = "ArrayEntry" /\ ItemAt(e.at).value = Len(e.fields)
    /\ ItemAt(e.at).size = next - e.at
    /\ e.fields \in Seq(FieldSet) /\ Len(e.fields) \in 0..MaxMembers
    /\ FieldsAt(mem, e.fields, e.at + 7, next)

LEMMA EntriesAre ==
    ASSUME Written, Complete, NEW k \in 1..Len(sent), NEW j \in 1..Len(sent[k].members),
           NEW x, x = sent[k].members[j], x.type = "Array", NEW to, to = BehindEntries(k, j)
    PROVE  \A i \in 1..Len(x.entries) :
               EntryThere(x.entries[i], NextAt(x.entries, i, to)) /\ NextAt(x.entries, i, to) <= to
<1> DEFINE es == x.entries
           start == x.at + Len(x.id) + 6
<1> SUFFICES ASSUME NEW i \in 1..Len(es), NEW e, e = es[i], NEW next, next = NextAt(es, i, to)
             PROVE  EntryThere(e, next) /\ next <= to
  OBVIOUS
<1>1. /\ es \in Seq(EntrySet) /\ start \in Nat /\ to \in Nat
      /\ EntriesAt(mem, es, start, to, FALSE)
  BY ArrayIs
<1> HIDE DEF start
<1>2. e \in EntrySet /\ e.at \in Nat /\ next \in Nat /\ next <= to
  <2> DEFINE s == es
  <2>1. s \in Seq(EntrySet) /\ Chained(s, start, to) /\ i \in 1..Len(s)
    BY <1>1 DEF EntriesAt
  <2> HIDE DEF s
  <2>2. /\ s[i] \in EntrySet /\ s[i].at \in Nat /\ NextAt(s, i, to) \in Nat
        /\ NextAt(s, i, to) <= to
    BY <1>1, <2>1, ChainFacts
  <2> QED  BY <2>2 DEF s
<1>3. EntryAt(mem, e, next, FALSE)
  BY <1>1 DEF EntriesAt
<1>4. /\ e.at \in DOMAIN mem /\ mem[e.at].type = "ArrayEntry" /\ Len(e.fields) <= MaxMembers
      /\ mem[e.at].value = Len(e.fields) /\ mem[e.at].size = next - e.at
      /\ FieldsAt(mem, e.fields, e.at + 7, next)
  BY <1>3 DEF EntryAt
<1>5. e.at + 7 <= next
  BY <1>4 DEF FieldsAt, Chained
<1>6. e.fields \in Seq(FieldSet)
  BY <1>2 DEF EntrySet
<1>7. Len(e.fields) \in 0..MaxMembers
  <2>1. Len(e.fields) \in Nat
    BY <1>6, LenProperties
  <2>2. MaxMembers \in Nat
    BY IdLengths, StreamAssumption
  <2>4. Len(e.fields) <= MaxMembers
    BY <1>4
  <2> DEFINE n == Len(e.fields)
  <2> HIDE DEF n
  <2>3. n \in 0..MaxMembers
    BY <2>1, <2>2, <2>4 DEF n
  <2> QED  BY <2>3 DEF n
<1>8. ItemAt(e.at) = mem[e.at]
  BY <1>4 DEF ItemAt
<1>9. e.at + 7 \in Nat
  BY <1>2
<1> QED  BY <1>2, <1>4, <1>5, <1>6, <1>7, <1>8, <1>9 DEF EntryThere

\* Where an iterator is in an array, and what it has reported.
At(x, to, e, it, n) ==
    /\ x.type = "Array" /\ e \in 0..(Len(x.entries) + 1)
    /\ e = 0 => n = -1 /\ it = [offset |-> x.at + Len(x.id) + 6, size |-> 0]
    /\ e \in 1..Len(x.entries) =>
           /\ n = Len(x.entries[e].fields)
           /\ it = [offset |-> x.entries[e].at + 7,
                    size |-> NextAt(x.entries, e, to) - (x.entries[e].at + 7)]
    /\ e = Len(x.entries) + 1 => n = 0 /\ it = [offset |-> to + 7, size |-> 0]

Walking ==
    iterator # NoIterator =>
        /\ event > 0 /\ walked.member \in 1..Len(sent[seen].members)
        /\ At(sent[seen].members[walked.member], BehindEntries(seen, walked.member),
              walked.entries, iterator, entryCount)

\* The reader before it read anything, and after it read so many events.
ReaderAt(k) ==
    [data |-> IF k = 0 THEN Start ELSE sent[k].at + 7,
     nextEvent |-> IF k = 0 THEN 0 ELSE EndOf(k), dataEnd |-> writer.data - Start]

ReadSoFar ==
    /\ Complete
    /\ seen \in 0..Len(sent) /\ reader = ReaderAt(seen)
    /\ event \in Events \union {-1, 0}
    /\ event > 0 => seen > 0 /\ event = sent[seen].event
    /\ event = 0 => seen = Len(sent)
    /\ event <= 0 => iterator = NoIterator
    /\ iterator = NoIterator => entryCount = -1

Idle ==
    /\ reader = NoReader /\ iterator = NoIterator /\ event = -1 /\ seen = 0 /\ entryCount = -1

Reading ==
    /\ phase = "writing" => Idle
    /\ phase = "reading" => ReadSoFar /\ Walking
    /\ walked \in [member : Nat, entries : Nat]

IInv == Written /\ Reading

LEMMA EventReadKeeps ==
    ASSUME IInv, read_get_event
    PROVE  Reading'
<1>1. Written /\ ReadSoFar /\ phase = "reading" /\ phase' = "reading"
  BY DEF IInv, Reading, read_get_event
<1>2. /\ UNCHANGED <<mem, writer, sent, refused>>
      /\ iterator' = NoIterator /\ entryCount' = -1 /\ walked' = NoWalk
  BY DEF read_get_event, written
<1>3. Complete /\ Complete' /\ (\A k : EndOf(k)' = EndOf(k)) /\ (\A k : ReaderAt(k)' = ReaderAt(k))
  BY <1>1, <1>2 DEF ReadSoFar, Complete, EndOf, ReaderAt
<1>4. Len(sent) \in Nat /\ seen \in 0..Len(sent) /\ writer.data \in Nat /\ Start <= writer.data
  BY <1>1, <1>3, CompleteStream DEF ReadSoFar
<1>5. StreamAt(mem, sent, writer.data, FALSE, FALSE, FALSE)
  BY <1>1, <1>3, CompleteStream
<1>6. CASE seen < Len(sent)
  <2> DEFINE k == seen + 1
             o == sent[k].at
  <2>1. k \in 1..Len(sent)
    BY <1>4, <1>6
  <2>2. /\ o \in Nat /\ Start <= o /\ EndOf(k) \in Nat /\ o + 7 + RequestBytes <= EndOf(k)
        /\ EndOf(k) <= writer.data /\ Has(mem, o, "Event", "", sent[k].event)
        /\ mem[o].size = EndOf(k) - o /\ sent[k].event \in Events
    <3> HIDE DEF k
    <3> QED  BY <1>1, <1>3, <2>1, MessageIs DEF MessageSet
  <2>3. EventAt = o /\ reader.nextEvent <= o
    <3>1. CASE seen = 0
      <4>1. reader.nextEvent = 0 /\ reader.data = Start
        BY <1>1, <3>1 DEF ReadSoFar, ReaderAt
      <4>2. sent # << >> /\ k = 1
        BY <1>4, <1>6, <3>1
      <4>3. o = Start
        BY <1>5, <4>2 DEF StreamAt, Chained
      <4> HIDE DEF o, k
      <4> QED  BY <4>1, <4>3 DEF EventAt, Start
    <3>2. CASE seen # 0
      <4>1. reader.nextEvent = EndOf(seen)
        BY <1>1, <3>2 DEF ReadSoFar, ReaderAt
      <4>2. EndOf(seen) = o
        BY <1>4, <1>6 DEF EndOf, NextAt
      <4>3. o \in Nat /\ o # 0
        <5>1. o \in Nat /\ Start <= o
          BY <2>2
        <5> HIDE DEF o, k
        <5> QED  BY <5>1 DEF Start
      <4> HIDE DEF o, k
      <4> QED  BY <4>1, <4>2, <4>3 DEF EventAt
    <3> QED  BY <3>1, <3>2
  <2>4. ItemAt(o) = mem[o] /\ mem[o].type = "Event" /\ mem[o].value = sent[k].event
    BY <2>2 DEF ItemAt, Has
  <2>5. reader.dataEnd = writer.data - Start /\ o < writer.data - Start
    <3>1. reader.dataEnd = writer.data - Start
      BY <1>1 DEF ReadSoFar, ReaderAt
    <3>2. RequestBytes \in Nat
      BY IdLengths
    <3> DEFINE end == EndOf(k)
               d == writer.data
    <3>3. o \in Nat /\ end \in Nat /\ d \in Nat /\ o + 7 + RequestBytes <= end /\ end <= d
      BY <1>4, <2>2
    <3> HIDE DEF o, k, end, d
    <3>4. o < d - Start
      BY <3>2, <3>3 DEF Start
    <3> QED  BY <3>1, <3>4 DEF d
  <2>6. reader.nextEvent \in Nat
    <3>1. reader.nextEvent = IF seen = 0 THEN 0 ELSE EndOf(seen)
      BY <1>1 DEF ReadSoFar, ReaderAt
    <3>2. seen # 0 => EndOf(seen) \in Nat
      <4>1. seen # 0 => seen \in 1..Len(sent)
        BY <1>4
      <4> QED  BY <1>1, <1>3, <4>1, MessageIs
    <3> QED  BY <3>1, <3>2
  <2>7. EventThere
    <3>1. ItemAt(EventAt).type = "Event" /\ EventAt < reader.dataEnd
      BY <2>3, <2>4, <2>5
    <3>2. o \in Nat /\ reader.dataEnd \in Int
      <4>1. o \in Nat
        BY <2>2
      <4>2. reader.dataEnd = writer.data - Start /\ writer.data \in Nat
        BY <1>4, <2>5
      <4>3. writer.data - Start \in Int
        BY <4>2 DEF Start
      <4> QED  BY <4>1, <4>2, <4>3
    <3>3. reader.nextEvent < reader.dataEnd
      <4> HIDE DEF o
      <4> QED  BY <2>3, <2>5, <2>6, <3>2
    <3> QED  BY <3>1, <3>3 DEF EventThere
  <2>8. /\ reader' = [reader EXCEPT !.nextEvent = o + (EndOf(k) - o), !.data = o + 7]
        /\ event' = sent[k].event /\ seen' = k
    BY <2>2, <2>3, <2>4, <2>7 DEF read_get_event
  <2>9. reader' = ReaderAt(k)
    <3>1. o + (EndOf(k) - o) = EndOf(k) /\ k # 0
      <4> DEFINE end == EndOf(k)
      <4>1. o \in Nat /\ end \in Nat
        BY <2>2
      <4> HIDE DEF o, end
      <4>2. o + (end - o) = end
        BY <4>1
      <4>3. k # 0
        BY <1>4
      <4> QED  BY <4>2, <4>3 DEF end
    <3>2. reader' = [data |-> o + 7, nextEvent |-> EndOf(k), dataEnd |-> writer.data - Start]
      BY <1>1, <2>8, <3>1 DEF ReadSoFar, ReaderAt
    <3> QED  BY <3>1, <3>2 DEF ReaderAt
  <2>10. sent[k].event > 0
    <3> DEFINE v == sent[k].event
    <3>1. v \in Events
      BY <2>2
    <3> HIDE DEF v
    <3>2. v > 0
      BY <3>1, StreamAssumption
    <3> QED  BY <3>2 DEF v
  <2> HIDE DEF k, o
  <2>11. ReadSoFar'
    <3>1. k \in 0..Len(sent) /\ k > 0
      BY <1>4, <2>1
    <3>2. sent' = sent /\ seen' = k
      BY <1>2, <2>8
    <3>5. seen' \in 0..Len(sent')
      BY <3>1, <3>2
    <3>6. reader' = ReaderAt(seen)'
      <4>1. ReaderAt(seen)' = ReaderAt(k)
        BY <3>2, <1>2 DEF ReaderAt, EndOf
      <4> QED  BY <2>9, <4>1
    <3>7. iterator' = NoIterator /\ entryCount' = -1 /\ Complete'
      BY <1>2, <1>3
    <3>3. event' \in Events \union {-1, 0} /\ event' > 0 /\ event' # 0 /\ ~(event' <= 0)
      <4>1. event' \in Events /\ event' \in Nat /\ event' # 0
        BY <2>2, <2>8, StreamAssumption
      <4> QED  BY <4>1
    <3>4. seen' > 0 /\ event' = sent'[seen'].event
      BY <1>2, <2>8, <3>1
    <3> QED  BY <3>5, <3>6, <3>7, <3>3, <3>4 DEF ReadSoFar
  <2>12. Walking'
    BY <1>2 DEF Walking
  <2> QED  BY <1>1, <1>2, <2>11, <2>12 DEF Reading, NoWalk
<1>7. CASE ~(seen < Len(sent))
  <2>1. seen = Len(sent)
    BY <1>4, <1>7
  <2>2. ~EventThere
    <3>1. CASE seen = 0
      <4>1. sent = << >>
        BY <1>1, <2>1, <3>1, WriterIs, EmptySeq, LenProperties
      <4>2. writer.data = Start
        BY <1>5, <4>1 DEF StreamAt, Chained
      <4>3. reader.nextEvent = 0 /\ reader.dataEnd = writer.data - Start
        BY <1>1, <3>1 DEF ReadSoFar, ReaderAt
      <4> QED  BY <4>2, <4>3 DEF EventThere, Start
    <3>2. CASE seen # 0
      <4>1. reader.nextEvent = writer.data /\ reader.dataEnd = writer.data - Start
        BY <1>1, <2>1, <3>2, <1>4 DEF ReadSoFar, ReaderAt, EndOf, NextAt
      <4> QED  BY <1>4, <4>1 DEF EventThere, Start
    <3> QED  BY <3>1, <3>2
  <2>3. event' = 0 /\ reader' = reader /\ seen' = seen
    BY <2>2 DEF read_get_event
  <2>4. ReadSoFar'
    BY <1>1, <1>2, <1>3, <2>1, <2>3 DEF ReadSoFar
  <2>5. Walking'
    BY <1>2 DEF Walking
  <2> QED  BY <1>1, <1>2, <2>4, <2>5 DEF Reading, NoWalk
<1> QED  BY <1>6, <1>7

LEMMA FindArrayKeeps ==
    ASSUME IInv, NEW id \in Ids, read_find_array(id)
    PROVE  Reading'
<1> DEFINE xs == sent[seen].members
           j == First(xs, id)
           x == xs[j]
           to == BehindEntries(seen, j)
           o == Find(id, NoIterator)
<1>1. /\ Written /\ Reading /\ ReadSoFar /\ phase = "reading" /\ event > 0
      /\ o # 0 /\ ItemAt(o).type = "Array"
      /\ iterator' = [offset |-> o + Len(id) + 6, size |-> 0] /\ entryCount' = -1
      /\ walked' = [member |-> j, entries |-> 0]
  BY DEF IInv, Reading, read_find_array
<1>2. UNCHANGED <<mem, writer, phase, sent, used, refused, reader, event, seen>>
  BY DEF read_find_array, written
<1>3. Complete /\ seen \in 1..Len(sent)
  <2>1. Len(sent) \in Nat /\ seen \in 0..Len(sent) /\ seen > 0
    BY <1>1, CompleteStream DEF ReadSoFar
  <2> QED  BY <1>1, <2>1 DEF ReadSoFar
<1>4. reader.data = sent[seen].at + 7 /\ reader.nextEvent = EndOf(seen)
  BY <1>1, <1>3 DEF ReadSoFar, ReaderAt
<1>5. o = FindId(id, sent[seen].at + 7, EndOf(seen))
  BY <1>4 DEF Find
<1>6. o = Found(xs, id) /\ FoundIs(o, xs, id)
  BY <1>1, <1>3, <1>5, MessageWalk
<1>7. xs \in Seq(MemberSet)
  BY <1>1, <1>3, MessageIs
<1>8. j # 0 /\ o = x.at /\ x.type = "Array"
  <2> HIDE DEF o
  <2> QED  BY <1>1, <1>6 DEF Found, FoundIs
<1>9. j \in 1..Len(xs) /\ x.id = id
  <2>1. j # 0 => j \in 1..Len(xs) /\ xs[j].id = id
    BY <1>7, FirstIs
  <2> QED  BY <1>8, <2>1
<1>10. j \in Nat /\ x.entries \in Seq(EntrySet)
  <2>1. x \in MemberSet
    BY <1>7, <1>9, ElementOfSeq
  <2>2. x.entries \in Seq(EntrySet)
    BY <2>1 DEF MemberSet
  <2>3. j \in Nat
    BY <1>7, <1>9, LenProperties
  <2> QED  BY <2>2, <2>3
<1>11. At(x, to, 0, [offset |-> x.at + Len(x.id) + 6, size |-> 0], -1)
  <2> DEFINE n == Len(x.entries)
  <2>1. n \in Nat
    BY <1>10, LenProperties
  <2> HIDE DEF n
  <2>2. 0 \in 0..(n + 1) /\ ~(0 \in 1..n) /\ 0 # n + 1
    BY <2>1
  <2> HIDE DEF x, to
  <2> QED  BY <1>8, <2>2 DEF At, n
<1> DEFINE it == [offset |-> x.at + Len(x.id) + 6, size |-> 0]
<1>12. iterator' = it
  <2> HIDE DEF o, x
  <2> QED  BY <1>1, <1>8, <1>9
<1>13. ReadSoFar'
  <2>1. Complete' /\ ReaderAt(seen)' = ReaderAt(seen)
    BY <1>2, <1>3 DEF Complete, ReaderAt, EndOf
  <2>2. ~(event <= 0) /\ event # 0
    <3>1. event \in Int
      BY <1>1, StreamAssumption DEF ReadSoFar
    <3> QED  BY <1>1, <3>1
  <2> QED  BY <1>1, <1>2, <2>1, <2>2 DEF ReadSoFar
<1> HIDE DEF it
<1>14. Walking'
  <2>1. xs' = xs /\ walked'.member = j /\ walked'.entries = 0 /\ sent' = sent /\ seen' = seen
    BY <1>1, <1>2
  <2>2. BehindEntries(seen, walked.member)' = to
    BY <1>2, <2>1 DEF BehindEntries, EndOf
  <2> QED  BY <1>1, <1>2, <1>9, <1>11, <1>12, <2>1, <2>2 DEF Walking, it
<1>15. phase' = "reading" /\ walked' \in [member : Nat, entries : Nat]
  BY <1>1, <1>2, <1>10
<1> QED  BY <1>13, <1>14, <1>15 DEF Reading

\* Where an iterator leads next, and what it finds there.
LEMMA NextEntry ==
    ASSUME Written, Complete, NEW k \in 1..Len(sent), NEW j \in 1..Len(sent[k].members),
           NEW x, x = sent[k].members[j], NEW to, to = BehindEntries(k, j),
           NEW e, NEW n, NEW it, At(x, to, e, it, n), n # 0,
           NEW start, start = it.offset + it.size
    PROVE  /\ At(x, to, e + 1, EntryIterator(start), ItemAt(start).value)
           /\ start \in Nat
           /\ ItemAt(start).type = "ArrayEntry"
<1> DEFINE es == x.entries
           l == Len(es)
<1>1. x.type = "Array"
  BY DEF At
<1>2. /\ e \in 0..l /\ l \in Nat
      /\ e < l => start = es[e + 1].at
      /\ e = l => start = to
  <2> DEFINE from == x.at + Len(x.id) + 6
  <2>1. x.type = "Array" /\ e \in 0..(l + 1) /\ e # l + 1
    BY DEF At
  <2>2. /\ es \in Seq(EntrySet) /\ from \in Nat /\ to \in Nat /\ Chained(es, from, to)
    <3>1. es \in Seq(EntrySet) /\ from \in Nat /\ to \in Nat /\ EntriesAt(mem, es, from, to, FALSE)
      BY <2>1, ArrayIs
    <3> QED  BY <3>1 DEF EntriesAt
  <2> HIDE DEF from
  <2>3. l \in Nat /\ (l = 0 <=> es = << >>)
    BY <2>2, LenProperties, EmptySeq
  <2> HIDE DEF l
  <2>4. e \in 0..l /\ e \in Nat
    BY <2>1, <2>3
  <2>5. CASE e = 0
    <3>1. it = [offset |-> from, size |-> 0]
      BY <2>5 DEF At, from
    <3>2. start = from
      <4>1. it.offset = from /\ it.size = 0
        BY <3>1
      <4> QED  BY <2>2, <4>1
    <3>3. (e < l => es[e + 1].at = from) /\ (e = l => to = from)
      BY <2>2, <2>3, <2>4, <2>5 DEF Chained
    <3> QED  BY <2>3, <2>4, <3>2, <3>3 DEF l
  <2>6. CASE e # 0
    <3>1. e \in 1..l
      BY <2>4, <2>6
    <3> DEFINE a == es[e].at + 7
               b == NextAt(es, e, to)
    <3>2. it = [offset |-> a, size |-> b - a]
      BY <3>1 DEF At, l
    <3>3. a \in Nat /\ b \in Nat
      <4>1. es[e].at \in Nat /\ b \in Nat
        BY <2>2, <3>1, ChainFacts DEF l
      <4> QED  BY <4>1
    <3>4. (e < l => b = es[e + 1].at) /\ (e = l => b = to)
      BY <2>3, <3>1 DEF NextAt, l
    <3> HIDE DEF a, b
    <3>5. it.offset = a /\ it.size = b - a
      BY <3>2
    <3>6. start = b
      BY <3>3, <3>5
    <3> QED  BY <2>3, <2>4, <3>4, <3>6 DEF l
  <2> QED  BY <2>5, <2>6
<1>3. CASE e < l
  <2> DEFINE i == e + 1
             next == NextAt(es, i, to)
  <2>1. i \in 1..l /\ i # 0 /\ i # l + 1 /\ i \in 0..(l + 1) /\ e + 1 = i
    BY <1>2, <1>3
  <2> HIDE DEF i
  <2>2. start = es[i].at
    BY <1>2, <1>3, <2>1
  <2>3. /\ start \in Nat /\ next \in Nat
        /\ ItemAt(start).type = "ArrayEntry" /\ ItemAt(start).value = Len(es[i].fields)
        /\ ItemAt(start).size = next - start
    <3>1. \A n1 \in 1..Len(x.entries) : EntryThere(x.entries[n1], NextAt(x.entries, n1, to))
      BY <1>1, EntriesAre
    <3>2. EntryThere(es[i], next)
      BY <2>1, <3>1
    <3> HIDE DEF next
    <3> QED  BY <2>2, <3>2 DEF EntryThere
  <2> HIDE DEF next
  <2>4. (next - start) - 7 = next - (start + 7)
    BY <2>3
  <2>5. EntryIterator(start) = [offset |-> es[i].at + 7, size |-> next - (es[i].at + 7)]
    BY <2>2, <2>3, <2>4 DEF EntryIterator
  <2>6. At(x, to, i, EntryIterator(start), ItemAt(start).value)
    BY <1>1, <2>1, <2>3, <2>5 DEF At, next
  <2> QED  BY <2>1, <2>3, <2>6
<1>4. CASE e = l
  <2>1. start = to /\ to \in Nat /\ Has(mem, to, "ArrayEntry", "", 0) /\ mem[to].size = 7
    BY <1>1, <1>2, <1>4, ArrayIs
  <2>2. ItemAt(start) = mem[to]
    BY <2>1 DEF ItemAt, Has
  <2>3. ItemAt(start).type = "ArrayEntry" /\ ItemAt(start).value = 0 /\ ItemAt(start).size = 7
    BY <2>1, <2>2 DEF Has
  <2>4. EntryIterator(start) = [offset |-> to + 7, size |-> 0]
    <3>1. ItemAt(to).size = 7
      BY <2>1, <2>3, Zenon
    <3>3. ItemAt(to).size - 7 = 0
      BY <3>1
    <3>2. EntryIterator(to) = [offset |-> to + 7, size |-> ItemAt(to).size - 7]
      BY DEF EntryIterator
    <3> QED  BY <2>1, <3>2, <3>3, Zenon
  <2>5. e + 1 = l + 1 /\ e + 1 \in 0..(l + 1) /\ e + 1 # 0 /\ ~(e + 1 \in 1..l)
    BY <1>2, <1>4
  <2>6. At(x, to, e + 1, EntryIterator(start), ItemAt(start).value)
    BY <1>1, <2>3, <2>4, <2>5 DEF At
  <2> QED  BY <2>1, <2>3, <2>6
<1> QED  BY <1>2, <1>3, <1>4

LEMMA NextEntryKeeps ==
    ASSUME IInv, read_next_entry
    PROVE  Reading'
<1> DEFINE j == walked.member
           e == walked.entries
           x == sent[seen].members[j]
           to == BehindEntries(seen, j)
           start == iterator.offset + iterator.size
<1>1. /\ Written /\ Reading /\ ReadSoFar /\ Walking /\ phase = "reading"
      /\ iterator # NoIterator /\ entryCount # 0
      /\ iterator' = EntryIterator(start) /\ entryCount' = ItemAt(start).value
      /\ walked' = [walked EXCEPT !.entries = @ + 1]
  BY DEF IInv, Reading, read_next_entry
<1>2. UNCHANGED <<mem, writer, phase, sent, used, refused, reader, event, seen>>
  BY DEF read_next_entry, written
<1>3. event > 0 /\ j \in 1..Len(sent[seen].members) /\ At(x, to, e, iterator, entryCount)
  BY <1>1 DEF Walking
<1>4. Complete /\ seen \in 1..Len(sent)
  <2>1. Len(sent) \in Nat /\ seen \in 0..Len(sent) /\ seen > 0
    BY <1>1, <1>3, CompleteStream DEF ReadSoFar
  <2> QED  BY <1>1, <2>1 DEF ReadSoFar
<1>5. /\ At(x, to, e + 1, EntryIterator(start), ItemAt(start).value) /\ start \in Nat
  <2> HIDE DEF e
  <2> QED  BY <1>1, <1>3, <1>4, NextEntry
<1>6. walked \in [member : Nat, entries : Nat]
  BY <1>1 DEF Reading
<1>7. /\ walked' \in [member : Nat, entries : Nat]
      /\ walked'.member = j /\ walked'.entries = e + 1
  BY <1>1, <1>6
<1>8. iterator' # NoIterator
  <2>1. iterator'.offset = start + 7
    BY <1>1 DEF EntryIterator
  <2> HIDE DEF start
  <2>2. iterator'.offset # 0
    BY <1>5, <2>1
  <2> QED  BY <2>2 DEF NoIterator
<1>9. ReadSoFar'
  <2>1. Complete' /\ ReaderAt(seen)' = ReaderAt(seen)
    BY <1>2, <1>4 DEF Complete, ReaderAt, EndOf
  <2>2. ~(event <= 0) /\ event # 0
    <3>1. event \in Int
      BY <1>1, StreamAssumption DEF ReadSoFar
    <3> QED  BY <1>3, <3>1
  <2> QED  BY <1>1, <1>2, <1>8, <2>1, <2>2 DEF ReadSoFar
<1>10. Walking'
  <2>1. BehindEntries(seen, walked.member)' = to
    BY <1>2, <1>7 DEF BehindEntries, EndOf
  <2> HIDE DEF start, e
  <2> QED  BY <1>1, <1>2, <1>3, <1>5, <1>7, <2>1 DEF Walking
<1> QED  BY <1>1, <1>2, <1>7, <1>9, <1>10 DEF Reading

\* The reader before its first event.
LEMMA StartKeeps ==
    ASSUME Complete', Len(sent)' \in Nat, reader' = ReaderAt(0)', FromTheStart, phase' = "reading"
    PROVE  Reading'
<1>1. /\ event' = -1 /\ seen' = 0 /\ iterator' = NoIterator /\ entryCount' = -1
      /\ walked' = NoWalk
  BY DEF FromTheStart
<1>2. reader' = ReaderAt(seen)'
  BY <1>1 DEF ReaderAt
<1>3. ReadSoFar'
  BY <1>1, <1>2 DEF ReadSoFar
<1>4. Walking'
  BY <1>1 DEF Walking
<1> QED  BY <1>1, <1>3, <1>4 DEF Reading, NoWalk

LEMMA ResetKeeps ==
    ASSUME IInv, reader_reset
    PROVE  Reading'
<1>1. /\ Written /\ ReadSoFar /\ phase = "reading" /\ FromTheStart
      /\ reader' = [reader EXCEPT !.data = Start, !.nextEvent = 0]
  BY DEF IInv, Reading, reader_reset
<1>2. UNCHANGED <<mem, writer, phase, sent, refused>>
  BY DEF reader_reset, written
<1>3. Complete /\ Complete' /\ Len(sent) \in Nat
  BY <1>1, <1>2, CompleteStream DEF ReadSoFar, Complete
<1>4. reader = ReaderAt(seen)
  BY <1>1 DEF ReadSoFar
<1>5. reader' = [data |-> Start, nextEvent |-> 0, dataEnd |-> writer.data - Start]
  BY <1>1, <1>4 DEF ReaderAt
<1>6. reader' = ReaderAt(0)'
  BY <1>2, <1>5 DEF ReaderAt
<1> QED  BY <1>1, <1>2, <1>3, <1>6, StartKeeps

LEMMA DeliverKeeps ==
    ASSUME IInv, Deliver
    PROVE  Reading'
<1>1. /\ Written /\ phase' = "reading" /\ reader' = InitStream /\ FromTheStart
      /\ ~writer.event /\ ~writer.array /\ ~refused
  BY DEF IInv, Deliver
<1>2. UNCHANGED <<mem, writer, sent, refused>>
  BY DEF Deliver, written
<1>3. ~writer.entry
  BY <1>1, WriterIs DEF Stream
<1>4. Complete' /\ Len(sent) \in Nat
  BY <1>1, <1>2, <1>3, WriterIs, LenProperties DEF Complete
<1>5. reader' = ReaderAt(0)'
  BY <1>1, <1>2 DEF ReaderAt, InitStream
<1> QED  BY <1>1, <1>2, <1>4, <1>5, StartKeeps

LEMMA RecycleKeeps ==
    ASSUME Recycle
    PROVE  Reading'
  BY DEF Recycle, FromTheStart, Reading, Idle, NoWalk

\* The calls of the writer do not touch the reader.
LEMMA WriteKeeps ==
    ASSUME Reading, NEW b, Write(b)
    PROVE  Reading'
<1>1. phase = "writing" /\ phase' = "writing" /\ UNCHANGED <<reader, iterator, event, entryCount, seen, walked>>
  BY DEF Write, reading
<1>2. Idle /\ walked \in [member : Nat, entries : Nat]
  BY <1>1 DEF Reading
<1> QED  BY <1>1, <1>2 DEF Reading, Idle

-----------------------------------------------------------------------------
(* The invariant.                                                           *)

\* What a call of the writer keeps: what was written, and the request ids.
Kept == Written' /\ (Len(sent') > Len(sent) => Last(sent').request \notin used)

LEMMA NumberWrites ==
    ASSUME Written, NEW id \in Ids, NEW t \in FieldTypes \ {"String", "Data"}, NEW v \in Values,
           write_number(id, t, v)
    PROVE  Written' /\ Len(sent') = Len(sent)
<1> DEFINE n == Bytes[t]
           item == Field(id, t, v, n)
<1>1. t \in DOMAIN Bytes /\ v < Width(t) /\ write_field(id, item)
  BY DEF write_number
<1>2. n \in Nat /\ n <= 8
  BY <1>1 DEF Bytes
<1>3. v \in Nat /\ Len(id) \in Nat /\ Len(id) + 4 + 8 < W16 /\ W16 \in Nat
  BY StreamAssumption, IdLengths
<1> HIDE DEF n
<1>4. Len(id) + 4 + n < W16
  <2> DEFINE l == Len(id)
  <2>1. l \in Nat /\ l + 4 + 8 < W16 /\ W16 \in Nat
    BY <1>3
  <2> HIDE DEF l
  <2>2. l + 4 + n < W16
    BY <1>2, <2>1
  <2> QED  BY <2>2 DEF l
<1>5. Fits(item, id)
  BY <1>2, <1>3, <1>4, FieldFits
<1>6. item.type = t /\ item.value = v
  BY DEF Field
<1> HIDE DEF item
<1>7. NumberOK(item)
  BY <1>1, <1>6 DEF NumberOK
<1> QED  BY <1>1, <1>5, <1>7, FieldWrites

LEMMA StringWrites ==
    ASSUME Written, NEW id \in Ids, NEW n \in Lengths, "String" \in FieldTypes, write_string(id, n)
    PROVE  Written' /\ Len(sent') = Len(sent)
<1> DEFINE t == "String"
           item == Field(id, t, n, n)
<1>1. write_field(id, item)
  BY DEF write_string
<1>2. n \in Nat /\ Len(id) + 4 + n < W16
  BY StreamAssumption
<1>3. t \in FieldTypes \ {"Data"} /\ t # "S16" /\ t # "U32" /\ t # "S64"
  OBVIOUS
<1> HIDE DEF t
<1>4. Fits(item, id)
  BY <1>2, <1>3, FieldFits
<1>5. item.type = t
  BY DEF Field
<1> HIDE DEF item
<1>6. NumberOK(item)
  BY <1>3, <1>5 DEF NumberOK
<1> QED  BY <1>1, <1>4, <1>6, FieldWrites

LEMMA DataWrites ==
    ASSUME Written, NEW id \in Ids, NEW n \in Lengths, "Data" \in FieldTypes, write_data(id, n)
    PROVE  Written' /\ Len(sent') = Len(sent)
<1> DEFINE item == DataField(id, n)
<1>1. write_field(id, item) /\ item.type = "Data"
  BY DEF write_data, DataField
<1>2. Fits(item, id)
  BY DataFits
<1> HIDE DEF item
<1>3. NumberOK(item)
  BY <1>1 DEF NumberOK
<1> QED  BY <1>1, <1>2, <1>3, FieldWrites

\* The calls of the reader, and its start, leave the buffer alone.
LEMMA ReadWrites ==
    ASSUME Written, UNCHANGED <<mem, writer, sent, used, refused>>,
           phase' \in {"writing", "reading"}
    PROVE  Kept
<1>1. Written'
  BY DEF Written
<1>2. Len(sent) \in Nat
  BY WriterIs, LenProperties
<1>3. ~(Len(sent') > Len(sent))
  BY <1>2
<1> QED  BY <1>1, <1>3 DEF Kept

LEMMA SameLength ==
    ASSUME Written, Written', Len(sent') = Len(sent)
    PROVE  Kept
<1>1. Len(sent) \in Nat
  BY WriterIs, LenProperties
<1>2. ~(Len(sent') > Len(sent))
  BY <1>1
<1> QED  BY <1>2 DEF Kept

LEMMA InitInv == Init => IInv
<1> SUFFICES ASSUME Init
             PROVE  IInv
  OBVIOUS
<1>1. mem = << >> /\ writer = Fresh(1) /\ sent = << >> /\ refused = FALSE /\ used = {}
  BY DEF Init
<1>2. phase = "writing" /\ Reading
  BY DEF Init, Reading, Idle, NoWalk
<1>3. BufferOK(mem)
  BY <1>1 DEF BufferOK, MemOK
<1>4. WriterOK(writer)
  BY <1>1, StreamAssumption DEF Fresh, WriterOK, WriterSet, Start
<1>5. Stream(mem, writer, sent)
  BY <1>1, EmptyChain DEF Stream, StreamAt, Start, Fresh
<1>6. sent \in Seq(MessageSet)
  BY <1>1, EmptySeq
<1> QED  BY <1>1, <1>2, <1>3, <1>4, <1>5, <1>6 DEF IInv, Written

LEMMA StepInv == IInv /\ Next => IInv' /\ Kept
<1> SUFFICES ASSUME IInv, Next
             PROVE  Reading' /\ Kept
  BY DEF IInv, Kept
<1>0. Written /\ Reading /\ Len(sent) \in Nat
  BY WriterIs, LenProperties DEF IInv
<1>1. ASSUME NEW e \in Events, write_event_begin(e)
      PROVE  Reading' /\ Kept
  BY <1>0, <1>1, EventBeginWrites, WriteKeeps DEF write_event_begin, Kept
<1>2. CASE write_event_end
  BY <1>0, <1>2, EventEndWrites, SameLength, WriteKeeps DEF write_event_end
<1>3. ASSUME NEW id \in Ids, NEW t \in FieldTypes \ {"String", "Data"}, NEW v \in Values,
             write_number(id, t, v)
      PROVE  Reading' /\ Kept
  BY <1>0, <1>3, NumberWrites, SameLength, WriteKeeps DEF write_number, write_field
<1>4. ASSUME NEW id \in Ids, NEW n \in Lengths, "String" \in FieldTypes, write_string(id, n)
      PROVE  Reading' /\ Kept
  BY <1>0, <1>4, StringWrites, SameLength, WriteKeeps DEF write_string, write_field
<1>5. ASSUME NEW id \in Ids, NEW n \in Lengths, "Data" \in FieldTypes, write_data(id, n)
      PROVE  Reading' /\ Kept
  BY <1>0, <1>5, DataWrites, SameLength, WriteKeeps DEF write_data, write_field
<1>6. ASSUME NEW id \in Ids, write_array_begin(id)
      PROVE  Reading' /\ Kept
  BY <1>0, <1>6, ArrayBeginWrites, SameLength, WriteKeeps DEF write_array_begin
<1>7. CASE write_array_entry_begin
  BY <1>0, <1>7, EntryBeginWrites, SameLength, WriteKeeps DEF write_array_entry_begin
<1>8. CASE write_array_entry_end
  BY <1>0, <1>8, EntryEndWrites, SameLength, WriteKeeps DEF write_array_entry_end
<1>9. CASE write_array_end
  BY <1>0, <1>9, ArrayEndWrites, SameLength, WriteKeeps DEF write_array_end
<1>10. CASE read_get_event
  <2>1. UNCHANGED <<mem, writer, sent, used, refused>> /\ phase' \in {"writing", "reading"}
    BY <1>10 DEF read_get_event, written
  <2> QED  BY <1>0, <1>10, <2>1, EventReadKeeps, ReadWrites
<1>11. ASSUME NEW id \in Ids, read_find_array(id)
       PROVE  Reading' /\ Kept
  <2>1. UNCHANGED <<mem, writer, sent, used, refused>> /\ phase' \in {"writing", "reading"}
    BY <1>11 DEF read_find_array, written
  <2> QED  BY <1>0, <1>11, <2>1, FindArrayKeeps, ReadWrites
<1>12. CASE read_next_entry
  <2>1. UNCHANGED <<mem, writer, sent, used, refused>> /\ phase' \in {"writing", "reading"}
    BY <1>12 DEF read_next_entry, written
  <2> QED  BY <1>0, <1>12, <2>1, NextEntryKeeps, ReadWrites
<1>13. CASE reader_reset
  <2>1. UNCHANGED <<mem, writer, sent, used, refused>> /\ phase' \in {"writing", "reading"}
    BY <1>13 DEF reader_reset, written
  <2> QED  BY <1>0, <1>13, <2>1, ResetKeeps, ReadWrites
<1>14. CASE Deliver
  <2>1. UNCHANGED <<mem, writer, sent, used, refused>> /\ phase' \in {"writing", "reading"}
    BY <1>14 DEF Deliver, written
  <2> QED  BY <1>0, <1>14, <2>1, DeliverKeeps, ReadWrites
<1>15. CASE Recycle
  <2>1. Written' /\ sent' = << >>
    BY <1>0, <1>15, RecycleWrites
  <2>2. ~(Len(sent') > Len(sent))
    <3>1. Len(sent') = 0
      BY <2>1
    <3> QED  BY <1>0, <3>1
  <2> QED  BY <1>15, <2>1, <2>2, RecycleKeeps DEF Kept
<1> QED
  BY <1>1, <1>2, <1>3, <1>4, <1>5, <1>6, <1>7, <1>8, <1>9, <1>10, <1>11, <1>12, <1>13, <1>14,
     <1>15 DEF Next

LEMMA StutterInv == IInv /\ UNCHANGED vars => IInv'
<1> SUFFICES ASSUME IInv, UNCHANGED vars
             PROVE  IInv'
  OBVIOUS
<1>1. UNCHANGED <<mem, writer, phase, sent, used, refused, reader, iterator, event,
                  entryCount, seen, walked>>
  BY DEF vars, written, reading
<1>2. Written'
  BY <1>1 DEF IInv, Written
<1>3. Reading'
  <2>1. CASE phase = "writing"
    BY <1>1, <2>1 DEF IInv, Reading, Idle
  <2>2. CASE phase # "writing"
    BY <1>1 DEF IInv, Reading, Idle, ReadSoFar, Complete, ReaderAt, EndOf, Walking, BehindEntries
  <2> QED  BY <2>1, <2>2
<1> QED  BY <1>2, <1>3 DEF IInv

\* What the writer has written is in the buffer one behind the other, and the reader is
\* between two events of it, or at an entry of an array of one, throughout.
THEOREM Invariance == Spec => []IInv
<1>1. IInv /\ [Next]_vars => IInv'
  BY StepInv, StutterInv
<1> QED  BY InitInv, <1>1, PTL DEF Spec

\* The offsets stay within the buffer, and no count goes beyond its bound.
THEOREM TypeCorrect == Spec => []TypeOK
<1>1. IInv => TypeOK
  <2> SUFFICES ASSUME IInv
               PROVE  TypeOK
    OBVIOUS
  <2>1. Written /\ Reading
    BY DEF IInv
  <2>2. MaxBytes \in Nat /\ MaxMembers \in Nat
    <3>1. MaxBytes \in Start..(W32 - 1)
      BY StreamAssumption
    <3>2. MaxMembers \in 0..(W16 - 1) /\ W16 \in Nat /\ W32 \in Nat
      BY StreamAssumption, IdLengths
    <3> QED  BY <3>1, <3>2 DEF Start
  <2>3. DOMAIN mem \subseteq Offset /\ \A o \in DOMAIN mem : mem[o] \in Item
    BY <2>1, WriterIs DEF MemOK
  <2>4. writer \in [data : Offset, request_id : Nat, eventOffset : Offset,
                    arrayOffset : Offset, entryOffset : Offset, event : BOOLEAN,
                    array : BOOLEAN, entry : BOOLEAN, count : 0..MaxMembers]
    <3>1. WriterOK(writer) /\ writer.data \in Offset
      BY <2>1, WriterIs
    <3>2. writer \in WriterSet
      BY <3>1 DEF WriterOK
    <3>3. /\ writer.eventOffset \in Nat /\ writer.arrayOffset \in Nat
          /\ writer.entryOffset \in Nat /\ writer.count \in Nat
      BY <3>2 DEF WriterSet
    <3>4. /\ writer.eventOffset <= MaxBytes /\ writer.arrayOffset <= MaxBytes
          /\ writer.entryOffset <= MaxBytes /\ writer.count <= MaxMembers
      BY <3>1 DEF WriterOK
    <3> DEFINE a == writer.eventOffset
               b == writer.arrayOffset
               c == writer.entryOffset
               n == writer.count
    <3>5. /\ a \in Nat /\ b \in Nat /\ c \in Nat /\ n \in Nat
          /\ a <= MaxBytes /\ b <= MaxBytes /\ c <= MaxBytes /\ n <= MaxMembers
      BY <3>3, <3>4
    <3> HIDE DEF a, b, c, n
    <3>6. a \in Offset /\ b \in Offset /\ c \in Offset /\ n \in 0..MaxMembers
      BY <2>2, <3>5 DEF Offset
    <3> QED  BY <3>1, <3>2, <3>6 DEF WriterSet, a, b, c, n
  <2>5. /\ reader \in [data : Offset, nextEvent : Offset, dataEnd : Offset]
        /\ iterator \in [offset : Offset, size : Offset]
        /\ event \in Events \union {-1, 0} /\ entryCount \in -1..MaxMembers
        /\ seen \in 0..Len(sent)
    <3>1. CASE phase = "writing"
      <4>1. Idle /\ 0 \in Offset
        BY <2>1, <2>2, <3>1 DEF Reading, Offset
      <4>2. Len(sent) \in Nat
        BY <2>1, WriterIs, LenProperties
      <4>3. -1 \in -1..MaxMembers /\ 0 \in 0..Len(sent)
        BY <2>2, <4>2
      <4> QED  BY <4>1, <4>3 DEF Idle, NoReader, NoIterator
    <3>2. CASE phase = "reading"
      <4>1. ReadSoFar /\ Walking /\ Complete
        BY <2>1, <3>2 DEF Reading, ReadSoFar
      <4>2. /\ Len(sent) \in Nat /\ seen \in 0..Len(sent) /\ writer.data \in Nat
            /\ Start <= writer.data /\ writer.data <= MaxBytes
        BY <2>1, <4>1, CompleteStream, WriterIs DEF ReadSoFar
      <4>3. reader \in [data : Offset, nextEvent : Offset, dataEnd : Offset]
        <5>1. writer.data - Start \in Offset /\ 0 \in Offset /\ Start \in Offset
          <6> DEFINE d == writer.data
          <6>1. d \in Nat /\ Start <= d /\ d <= MaxBytes
            BY <4>2
          <6> HIDE DEF d
          <6>2. d - Start \in Offset /\ 0 \in Offset /\ Start \in Offset
            BY <2>2, <6>1 DEF Offset, Start
          <6> QED  BY <6>2 DEF d
        <5>2. seen # 0 => sent[seen].at + 7 \in Offset /\ EndOf(seen) \in Offset
          <6> SUFFICES ASSUME seen # 0
                       PROVE  sent[seen].at + 7 \in Offset /\ EndOf(seen) \in Offset
            OBVIOUS
          <6> DEFINE a == sent[seen].at
                     b == EndOf(seen)
                     d == writer.data
          <6>1. seen \in 1..Len(sent)
            BY <4>2
          <6>2. a \in Nat /\ b \in Nat /\ a + 7 + RequestBytes <= b /\ b <= d
            BY <2>1, <4>1, <6>1, MessageIs
          <6>3. d \in Nat /\ d <= MaxBytes /\ RequestBytes \in Nat
            BY <4>2, IdLengths
          <6> HIDE DEF a, b, d
          <6>4. a + 7 \in Offset /\ b \in Offset
            BY <2>2, <6>2, <6>3 DEF Offset
          <6> QED  BY <6>4 DEF a, b
        <5>3. reader = ReaderAt(seen)
          BY <4>1 DEF ReadSoFar
        <5> QED  BY <5>1, <5>2, <5>3 DEF ReaderAt
      <4>4. CASE iterator = NoIterator
        <5>1. entryCount = -1
          BY <4>1, <4>4 DEF ReadSoFar
        <5>2. 0 \in Offset /\ -1 \in -1..MaxMembers
          BY <2>2 DEF Offset
        <5>3. iterator \in [offset : Offset, size : Offset] /\ entryCount \in -1..MaxMembers
          BY <4>4, <5>1, <5>2 DEF NoIterator
        <5> QED  BY <4>1, <4>2, <4>3, <5>3 DEF ReadSoFar
      <4>5. CASE iterator # NoIterator
        <5> DEFINE j == walked.member
                   e == walked.entries
                   x == sent[seen].members[j]
                   to == BehindEntries(seen, j)
                   l == Len(x.entries)
                   from == x.at + Len(x.id) + 6
        <5>1. event > 0 /\ j \in 1..Len(sent[seen].members) /\ At(x, to, e, iterator, entryCount)
          BY <4>1, <4>5 DEF Walking
        <5>2. seen \in 1..Len(sent)
          BY <4>1, <4>2, <5>1 DEF ReadSoFar
        <5>3. x.type = "Array" /\ e \in 0..(l + 1)
          BY <5>1 DEF At
        <5>4. /\ from \in Nat /\ from <= to /\ to \in Nat /\ to + 7 <= writer.data
              /\ x.entries \in Seq(EntrySet)
          BY <2>1, <4>1, <5>1, <5>2, <5>3, ArrayIs
        <5>5. l \in Nat
          BY <5>4, LenProperties
        <5>6. from \in Offset /\ to + 7 \in Offset /\ 0 \in Offset
          <6> DEFINE d == writer.data
          <6>1. d \in Nat /\ d <= MaxBytes /\ to + 7 <= d
            BY <4>2, <5>4
          <6> HIDE DEF from, to, d
          <6> QED  BY <2>2, <5>4, <6>1 DEF Offset
        <5>7. 0 \in -1..MaxMembers /\ -1 \in -1..MaxMembers
          BY <2>2
        <5>8. iterator \in [offset : Offset, size : Offset] /\ entryCount \in -1..MaxMembers
          <6>1. CASE e = 0
            <7>1. entryCount = -1 /\ iterator = [offset |-> from, size |-> 0]
              BY <5>1, <6>1 DEF At
            <7> HIDE DEF from
            <7> QED  BY <5>6, <5>7, <7>1
          <6>2. CASE e = l + 1
            <7>1. entryCount = 0 /\ iterator = [offset |-> to + 7, size |-> 0]
              BY <5>1, <6>2 DEF At
            <7> HIDE DEF to
            <7> QED  BY <5>6, <5>7, <7>1
          <6>3. CASE e \in 1..l
            <7> DEFINE f == x.entries[e]
                       next == NextAt(x.entries, e, to)
                       a == f.at + 7
                       n == Len(f.fields)
            <7>1. entryCount = n /\ iterator = [offset |-> a, size |-> next - a]
              BY <5>1, <6>3 DEF At
            <7>2. EntryThere(f, next) /\ next <= to
              BY <2>1, <4>1, <5>1, <5>2, <5>3, <6>3, EntriesAre
            <7>3. a \in Nat /\ next \in Nat /\ a <= next /\ n \in 0..MaxMembers
              <8> HIDE DEF f, next
              <8> QED  BY <7>2 DEF EntryThere
            <7>4. a \in Offset /\ next - a \in Offset
              <8> DEFINE d == writer.data
              <8>1. d \in Nat /\ d <= MaxBytes /\ to + 7 <= d /\ to \in Nat
                BY <4>2, <5>4
              <8> HIDE DEF a, next, to, d
              <8> QED  BY <2>2, <7>2, <7>3, <8>1 DEF Offset
            <7>5. n \in -1..MaxMembers
              <8> HIDE DEF n
              <8> QED  BY <2>2, <7>3
            <7> HIDE DEF a, next, n
            <7> QED  BY <7>1, <7>4, <7>5
          <6>4. e = 0 \/ e = l + 1 \/ e \in 1..l
            <7>1. l \in Nat /\ e \in 0..(l + 1)
              BY <5>3, <5>5
            <7> HIDE DEF l, e
            <7> QED  BY <7>1
          <6> QED  BY <6>1, <6>2, <6>3, <6>4, Zenon
        <5> QED  BY <4>1, <4>2, <4>3, <5>8 DEF ReadSoFar
      <4> QED  BY <4>4, <4>5
    <3> QED  BY <2>1, <3>1, <3>2 DEF Written
  <2>6. walked \in [member : Nat, entries : Nat]
    BY <2>1 DEF Reading
  <2>7. phase \in {"writing", "reading"} /\ refused \in BOOLEAN /\ used \subseteq 1..MaxRequests
    BY <2>1 DEF Written
  <2> QED  BY <2>3, <2>4, <2>5, <2>6, <2>7 DEF TypeOK
<1> QED  BY <1>1, Invariance, PTL

-----------------------------------------------------------------------------
(* What the reader finds.                                                   *)

\* read_get_event returns the events as they were written, and 0 behind the last one and
\* nowhere else, for any events, members and sizes: whatever is left behind them in the
\* buffer, and although it takes the buffer to be four bytes shorter.
THEOREM InOrder == Spec => []EventsInOrder
<1>1. IInv => EventsInOrder
  <2> SUFFICES ASSUME IInv, phase = "reading"
               PROVE  /\ event > 0 => seen \in 1..Len(sent) /\ event = sent[seen].event
                      /\ event = 0 => seen = Len(sent)
    BY DEF EventsInOrder
  <2>1. Written /\ ReadSoFar
    BY DEF IInv, Reading
  <2>2. Len(sent) \in Nat
    BY <2>1, WriterIs, LenProperties
  <2> QED  BY <2>1, <2>2 DEF ReadSoFar
<1> QED  BY <1>1, Invariance, PTL

\* findId leads to the first member of the event under the id, and nowhere for an id that
\* was not written, whatever the members, arrays and entries the event is made of.
THEOREM FindsMembers == Spec => []MembersFound
<1>1. IInv => MembersFound
  <2> SUFFICES ASSUME IInv, phase = "reading", event > 0
               PROVE  /\ \A id \in Ids : FoundIs(Find(id, NoIterator), sent[seen].members, id)
                      /\ ItemAt(Find(RequestId, NoIterator)).value = sent[seen].request
    BY DEF MembersFound
  <2>1. Written /\ ReadSoFar /\ Complete
    BY DEF IInv, Reading, ReadSoFar
  <2>2. seen \in 1..Len(sent) /\ seen # 0
    <3>1. Len(sent) \in Nat /\ seen \in 0..Len(sent) /\ seen > 0
      BY <2>1, WriterIs, LenProperties DEF ReadSoFar
    <3> QED  BY <3>1
  <2>3. reader.data = sent[seen].at + 7 /\ reader.nextEvent = EndOf(seen)
    BY <2>1, <2>2 DEF ReadSoFar, ReaderAt
  <2>4. \A id : Find(id, NoIterator) = FindId(id, sent[seen].at + 7, EndOf(seen))
    BY <2>3 DEF Find
  <2> QED  BY <2>1, <2>2, <2>4, MessageWalk
<1> QED  BY <1>1, Invariance, PTL

\* An iterator goes over the entries of its array in order, and the fields found at each
\* are the ones written to it.
THEOREM FindsEntries == Spec => []EntriesFound
<1>1. IInv => EntriesFound
  <2> DEFINE j == walked.member
             e == walked.entries
             x == sent[seen].members[j]
             to == BehindEntries(seen, j)
             f == x.entries[e]
  <2> SUFFICES ASSUME IInv, entryCount >= 0
               PROVE  IF e > Len(x.entries) THEN entryCount = 0
                      ELSE /\ entryCount = Len(f.fields)
                           /\ \A id \in Ids : FoundIs(Find(id, iterator), f.fields, id)
    BY DEF EntriesFound
  <2>1. Written /\ Reading /\ phase \in {"writing", "reading"}
    BY DEF IInv, Written
  <2>2. entryCount # -1
    OBVIOUS
  <2>3. ReadSoFar /\ Walking /\ Complete /\ iterator # NoIterator
    BY <2>1, <2>2 DEF Reading, Idle, ReadSoFar
  <2>4. event > 0 /\ j \in 1..Len(sent[seen].members) /\ At(x, to, e, iterator, entryCount)
    BY <2>3 DEF Walking
  <2>5. seen \in 1..Len(sent)
    <3>1. Len(sent) \in Nat /\ seen \in 0..Len(sent) /\ seen > 0
      BY <2>1, <2>3, <2>4, WriterIs, LenProperties DEF ReadSoFar
    <3> QED  BY <3>1
  <2>6. x.type = "Array" /\ e \in 0..(Len(x.entries) + 1) /\ e # 0
    BY <2>2, <2>4 DEF At
  <2>7. Len(x.entries) \in Nat
    <3>1. x.entries \in Seq(EntrySet)
      BY <2>1, <2>3, <2>4, <2>5, <2>6, ArrayIs
    <3> QED  BY <3>1, LenProperties
  <2>8. CASE e = Len(x.entries) + 1
    <3>1. entryCount = 0
      BY <2>4, <2>8 DEF At
    <3>2. e > Len(x.entries)
      <4> DEFINE l == Len(x.entries)
      <4>1. l \in Nat /\ e = l + 1
        BY <2>7, <2>8
      <4> HIDE DEF l, e
      <4>2. e > l
        BY <4>1
      <4> QED  BY <4>2 DEF l
    <3> QED  BY <3>1, <3>2, Zenon
  <2>9. CASE e # Len(x.entries) + 1
    <3> DEFINE next == NextAt(x.entries, e, to)
               a == f.at + 7
    <3>1. e \in 1..Len(x.entries) /\ ~(e > Len(x.entries))
      <4> DEFINE l == Len(x.entries)
      <4>1. l \in Nat /\ e \in 0..(l + 1) /\ e # l + 1 /\ e # 0
        BY <2>6, <2>7, <2>9
      <4> HIDE DEF l, e
      <4>2. e \in 1..l /\ ~(e > l)
        BY <4>1
      <4> QED  BY <4>2 DEF l
    <3>2. entryCount = Len(f.fields) /\ iterator = [offset |-> a, size |-> next - a]
      BY <2>4, <3>1 DEF At
    <3>3. EntryThere(f, next)
      BY <2>1, <2>3, <2>4, <2>5, <2>6, <3>1, EntriesAre
    <3> HIDE DEF f, next
    <3>4. /\ a \in Nat /\ next \in Nat /\ a > 0 /\ f.fields \in Seq(FieldSet)
          /\ FieldsAt(mem, f.fields, a, next)
      <4>1. f.at \in Nat
        BY <3>3 DEF EntryThere
      <4>2. a \in Nat /\ a > 0
        BY <4>1
      <4> QED  BY <3>3, <4>2 DEF EntryThere
    <3> HIDE DEF a
    <3>5. ASSUME NEW id \in Ids
          PROVE  FoundIs(Find(id, iterator), f.fields, id)
      <4>1. iterator.offset = a /\ iterator.offset + iterator.size = next
        <5>1. iterator.offset = a /\ iterator.size = next - a
          BY <3>2
        <5>2. a + (next - a) = next
          BY <3>4
        <5> QED  BY <5>1, <5>2, Zenon
      <4>2. Find(id, iterator) = FindId(id, a, next)
        BY <2>3, <4>1 DEF Find
      <4> QED  BY <2>1, <3>4, <4>2, FieldsAreFound
    <3> QED  BY <3>1, <3>2, <3>5, Zenon
  <2> QED  BY <2>8, <2>9
<1> QED  BY <1>1, Invariance, PTL

-----------------------------------------------------------------------------
(* The numbers.                                                             *)

LEMMA WidthIs ==
    /\ Width("S8") = Byte /\ Width("U8") = Byte /\ Width("S16") = W16 /\ Width("U16") = W16
    /\ Width("S32") = W32 /\ Width("U32") = W32 /\ Width("S64") = W64 /\ Width("U64") = W64
  BY DEF Width, Bytes

\* The number that the code makes of a field is the one that the field means, as long as
\* the sign of neither half gets in its way.
LEMMA NumberIs ==
    ASSUME NEW t \in IntType, NEW v \in Nat, t \in {"S16", "U32", "S64"} => v < Width(t),
           Means(t, v) >= 0, 2 * (Means(t, v) % W32) < W32
    PROVE  GetNumber(t, v) = Means(t, v)
<1>0. Byte \in Nat /\ W16 \in Nat /\ W32 \in Nat /\ W64 \in Nat /\ W32 > 1
  BY IdLengths
<1>1. CASE t \in {"S8", "S32"}
  BY <1>0, <1>1, WidthIs DEF GetNumber, Means, SignedType
<1>2. CASE t \in {"U8", "U16", "U64"}
  BY <1>0, <1>2, WidthIs DEF GetNumber, Means, SignedType
<1>3. CASE t = "S16"
  BY <1>0, <1>3, WidthIs DEF GetNumber, Means, SignedType
<1>4. CASE t = "U32"
  <2>1. Means(t, v) = v /\ v < W32 /\ v % W32 = v
    BY <1>0, <1>4, WidthIs DEF Means, SignedType
  <2> QED  BY <1>0, <1>4, <2>1, WidthIs DEF GetNumber
<1>5. CASE t = "S64"
  <2>1. Means(t, v) = v
    BY <1>0, <1>5, WidthIs DEF Means, SignedType
  <2> QED  BY <1>0, <1>5, <2>1, WidthIs DEF GetNumber
<1> QED  BY <1>1, <1>2, <1>3, <1>4, <1>5 DEF IntType, SignedType, UnsignedType

LEMMA Represented ==
    ASSUME NEW t \in IntType, NEW n \in Int, n >= 0, Represents(t, n)
    PROVE  n % Width(t) = n
<1> DEFINE w == Width(t)
<1>1. w \in Nat /\ w > 1
  BY WidthIs, IdLengths DEF IntType, SignedType, UnsignedType
<1>2. n < w
  <2> HIDE DEF w
  <2>1. n \in -(w \div 2)..(w \div 2 - 1) \/ n \in 0..(w - 1)
    BY DEF Represents, w
  <2>2. w \div 2 <= w /\ w \div 2 \in Int
    BY <1>1
  <2> QED  BY <1>1, <2>1, <2>2
<1> HIDE DEF w
<1> QED  BY <1>1, <1>2 DEF w

\* Whatever a caller asks for, a number that both types represent is read as it was
\* written, whatever the widths: the conversions of findValue lose nothing that fits.
THEOREM Conversions == Spec => []NumbersConverted
<1>1. IInv => NumbersConverted
  <2> SUFFICES ASSUME IInv, NEW o \in DOMAIN mem, mem[o].type \in IntType,
                      NEW asked \in IntType, NEW t, t = mem[o].type, NEW v, v = mem[o].value,
                      NEW n, n = Means(t, v), n >= 0, 2 * (n % W32) < W32, Represents(asked, n)
               PROVE  Convert(t, v, asked) = n
    BY DEF NumbersConverted
  <2>1. BufferOK(mem)
    BY WriterIs DEF IInv
  <2>2. mem[o] \in Item /\ NumberOK(mem[o])
    BY <2>1 DEF BufferOK, MemOK
  <2>3. v \in Nat /\ (t \in {"S16", "U32", "S64"} => v < Width(t))
    BY <2>2 DEF Item, NumberOK
  <2>4. GetNumber(t, v) = n
    BY <2>3, NumberIs
  <2>5. n \in Int
    <3>1. Width(t) \in Nat
      BY WidthIs, IdLengths DEF IntType, SignedType, UnsignedType
    <3> QED  BY <2>3, <3>1 DEF Means
  <2> QED  BY <2>4, <2>5, Represented DEF Convert
<1> QED  BY <1>1, Invariance, PTL

-----------------------------------------------------------------------------
(* The request ids.                                                         *)

\* No event gets a request id that an event before it was given, whatever is written,
\* refused or reset.
THEOREM IdsUnique == Spec => RequestIdsUnique
<1>1. IInv /\ [Next]_vars => [Len(sent') > Len(sent) => Last(sent').request \notin used]_vars
  BY StepInv DEF Kept
<1> QED  BY <1>1, Invariance, PTL DEF Spec, RequestIdsUnique
=============================================================================
