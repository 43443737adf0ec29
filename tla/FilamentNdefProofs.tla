--------------------------- MODULE FilamentNdefProofs ---------------------------
(***************************************************************************)
(* For every memory of less than 2^16 bytes, whatever they are: the reader *)
(* stays inside it, and every turn of its loops moves on, which with the   *)
(* end of the memory is why they end. And of cards that a writer laid out, *)
(* damaged or cut short anywhere: what lies in front of that place is found*)
(* and the first usable record of it is the one taken.                     *)
(***************************************************************************)
EXTENDS FilamentNdef, SequenceTheorems, TLAPS

\* The part of TypeOK that the offsets rest on.
Offsets ==
  /\ InputOK(in) /\ phase \in {"cc", "tlv", "record", "select", "done"}
  /\ pos \in Nat /\ off \in Nat /\ hi \in Nat

IInv == Offsets /\ StaysInside

\* The loop over the blocks goes forward while there is memory, or is left; the
\* loop over the records goes forward inside the memory, or is left.
MovesOn ==
  [][/\ phase = "tlv" => phase' = "select" \/ (pos + 2 <= Size /\ pos + 2 <= pos')
     /\ phase = "record" => /\ pos' = pos
                            /\ \/ phase' \in {"tlv", "done"}
                               \/ phase' = "record" /\ off + 3 <= off' /\ off' <= Size]_vars

--------------------------------------------------------------------------------

\* A card as a writer of NDEF lays it out: its bytes, the offset of the container,
\* the offsets of the blocks, and for the offset of a record, or of what follows
\* the last one of a message, the end of that message.

\* No record of input i ends behind from and at or before to.
NoneEnds(i, from, to) ==
  \A k \in DOMAIN i.written : ~(from < i.written[k].end /\ i.written[k].end <= to)

\* The container, behind no UID or one of twelve bytes that has no E1.
ContainerLaid(i, card) ==
  /\ card.start \in {0, 12} /\ card.start + 4 <= Len(card.data)
  /\ card.data[card.start + 1] = 225 /\ card.data[card.start + 2] \in {16, 17, 64}
  /\ \A k \in 1 .. card.start : card.data[k] # 225
  /\ card.start + 4 \in card.blocks /\ NoneEnds(i, 0, card.start + 4)
  /\ \A k \in DOMAIN i.written : i.written[k].end > 0

\* Block p: the last, or a tag, the length of its body in one byte or in three, and
\* the body, which is a message or leads to the next block.
BlockLaid(i, card, p) ==
  LET at(k) == card.data[k + 1] IN
  \/ /\ p + 2 > Len(card.data) \/ at(p) = 254
     /\ \A k \in DOMAIN i.written : i.written[k].end <= p
  \/ \E from \in {p + 2, p + 4} :
       LET to == IF from = p + 2 THEN from + at(p + 1)
                 ELSE from + at(p + 2) * 256 + at(p + 3)
       IN  /\ from <= Len(card.data) /\ at(p) # 254
           /\ at(p + 1) = 255 <=> from = p + 4
           /\ NoneEnds(i, p, from)
           /\ IF at(p) = 3
              THEN from \in DOMAIN card.message /\ card.message[from] = to
              ELSE to \in card.blocks /\ NoneEnds(i, from, to)

\* The fields of the record at offset r of data.
HeadEnd(data, r) ==
  (IF Short(data[r + 1]) THEN r + 3 ELSE r + 6) + (IF HasId(data[r + 1]) THEN 1 ELSE 0)
IdLen(data, r) == IF HasId(data[r + 1]) THEN data[HeadEnd(data, r)] ELSE 0
TypeEnd(data, r) == HeadEnd(data, r) + data[r + 2]
PayloadAt(data, r) == TypeEnd(data, r) + IdLen(data, r)
RecordEnd(data, r) ==
  PayloadAt(data, r) +
    (IF Short(data[r + 1]) THEN data[r + 3] ELSE data[r + 5] * 256 + data[r + 6])

\* The record at offset r of data.
RecordAt(data, r) ==
  [type |-> Ascii(SubSeq(data, HeadEnd(data, r) + 1, TypeEnd(data, r))),
   payload |-> SubSeq(data, PayloadAt(data, r) + 1, RecordEnd(data, r))]

\* Record r: the message ends here and the next block follows, or the record lies
\* in the message whole, and is one of those written if its type is a MIME type.
RecordLaid(i, card, r) ==
  LET data == card.data
      end == RecordEnd(data, r)
  IN
  \/ r = card.message[r] /\ r \in card.blocks
  \/ /\ r < card.message[r] /\ HeadEnd(data, r) <= Len(data)
     /\ Short(data[r + 1]) \/ (data[r + 3] = 0 /\ data[r + 4] = 0)
     /\ end <= card.message[r]
     /\ end \in DOMAIN card.message /\ card.message[end] = card.message[r]
     /\ IF data[r + 1] % 8 # 2 THEN NoneEnds(i, r, end)
        ELSE /\ NoneEnds(i, r, end - 1)
             /\ \E k \in DOMAIN i.written :
                  i.written[k] = [rec |-> RecordAt(data, r), end |-> end]

\* Input i is that card up to byte place.
LaidOut(i, card) ==
  /\ card.data \in Bytes /\ card.blocks \subseteq Nat
  /\ DOMAIN card.message \subseteq Nat /\ card.message \in [DOMAIN card.message -> Nat]
  /\ i.place <= Len(card.data) /\ i.place <= Len(i.data)
  /\ i.cut => i.place = Len(i.data)
  /\ \A k \in 1 .. i.place : i.data[k] = card.data[k]
  /\ ContainerLaid(i, card)
  /\ \A p \in card.blocks : BlockLaid(i, card, p)
  /\ \A r \in DOMAIN card.message : RecordLaid(i, card, r)

\* The reader stands at offset p of the card and has found what lies before it.
Read(p) ==
  /\ Len(records) <= Len(in.written)
  /\ \A k \in DOMAIN in.written : k <= Len(records) <=> in.written[k].end <= p
  /\ \A k \in DOMAIN records : records[k] = in.written[k].rec

\* The reader has found what it owes, and in a memory cut short it will find no more.
Found ==
  /\ \A k \in Owed : k \in DOMAIN records /\ records[k] = in.written[k].rec
  /\ in.cut => DOMAIN records \subseteq Owed

\* It follows the card, or has passed the place and is on its own.
Follows(card) ==
  \/ phase = "tlv" /\ pos \in card.blocks /\ Read(pos)
  \/ /\ phase = "record" /\ off \in DOMAIN card.message /\ Read(off)
     /\ hi = Lesser(card.message[off], Size) /\ pos = hi
  \/ /\ phase \in {"tlv", "record"} /\ Found
     /\ in.cut => phase = "tlv" /\ Size < pos + 2
     /\ phase = "tlv" => in.place <= pos
     /\ phase = "record" => in.place <= off /\ pos = hi

\* The answer is what was found: its first usable record, or that there is none.
Judged ==
  \/ result.code = "raises" /\ Owed = {}
  \/ result.code = "err" /\ RefusedAtId
  \/ result.code \in {"not_found", "sign_check_err"} /\ Firsts(records) = {} /\ Found
  \/ /\ Found
     /\ \E k \in Firsts(records) : result = [code |-> "ok", rec |-> records[k]]

\* In every phase the reader stands to the card as it should.
Tracks(card) ==
  /\ LaidOut(in, card)
  /\ phase = "cc" => records = <<>>
  /\ phase \in {"tlv", "record"} => Follows(card)
  /\ phase = "select" => Found
  /\ phase = "done" => Judged

\* The records found, as a set.
Entries == {records[k] : k \in DOMAIN records}

\* Where a usable record was found there is a first.
Sequenced ==
  /\ records \in Seq(Entries)
  /\ (\E k \in DOMAIN records : Usable(records[k])) => Firsts(records) # {}
  /\ in.cut => \A k \in DOMAIN records : k \in Owed

--------------------------------------------------------------------------------

LEMMA SizeNat == ASSUME InputOK(in) PROVE Size \in Nat
  BY DEF InputOK, Bytes, Size

\* A byte is read where there is one.
LEMMA ByteAt == ASSUME InputOK(in), NEW i \in Nat, i < Size PROVE b(i) \in Nat
<1>1. in.data \in Seq(Byte) BY DEF InputOK, Bytes
<1>2. i + 1 \in 1 .. Len(in.data) BY <1>1 DEF Size
<1>3. in.data[i + 1] \in Byte BY <1>1, <1>2
<1> QED BY <1>3 DEF b, Byte

LEMMA Least ==
  ASSUME NEW S \in SUBSET (0 .. 15), S # {}
  PROVE  \E i \in S : \A j \in S : i <= j
<1>1. \A i \in S : i \in 0 .. 15 OBVIOUS
<1> SUFFICES ASSUME \A i \in S : \E j \in S : j < i
             PROVE  FALSE
  BY <1>1
<1>2. PICK i \in S : TRUE OBVIOUS
<1> QED BY <1>1, <1>2, SMTT(30)

LEMMA InitOK == ASSUME Init PROVE IInv
  BY NdefAssumption DEF Init, IInv, Offsets, StaysInside

LEMMA FindContainerOK == ASSUME IInv, FindContainer PROVE IInv'
<1>1. StartOffset \in Nat
  <2> DEFINE at == {i \in 0 .. Size - 5 : i < 16 /\ Container(i)}
  <2>1. at \in SUBSET (0 .. 15) BY SizeNat DEF IInv, Offsets
  <2>2. at # {} => \E i \in at : \A j \in at : i <= j BY <2>1, Least
  <2> QED BY <2>1, <2>2 DEF StartOffset
<1> QED BY <1>1 DEF IInv, Offsets, StaysInside, FindContainer, Return

\* A block starts inside the memory and is not empty.
LEMMA Body ==
  ASSUME InputOK(in), NEW p \in Nat, p + 2 <= Size, LongForm(p) => p + 4 <= Size
  PROVE  BodyAt(p) \in Nat /\ p + 2 <= BodyAt(p) /\ BodyAt(p) <= Size /\ BodyLen(p) \in Nat
<1>1. Size \in Nat BY SizeNat
<1>2. b(p + 1) \in Nat BY <1>1, ByteAt
<1>3. CASE LongForm(p)
  <2>1. b(p + 2) \in Nat /\ b(p + 3) \in Nat BY <1>1, <1>3, ByteAt
  <2> QED BY <1>1, <1>3, <2>1 DEF BodyAt, BodyLen
<1>4. CASE ~LongForm(p) BY <1>1, <1>2, <1>4 DEF BodyAt, BodyLen
<1> QED BY <1>3, <1>4

LEMMA ReadTlvOK ==
  ASSUME IInv, ReadTlv
  PROVE  IInv' /\ (phase' = "select" \/ (pos + 2 <= Size /\ pos + 2 <= pos'))
<1> USE DEF IInv, Offsets
<1>1. Size \in Nat /\ Size' = Size /\ phase = "tlv" /\ in' = in
  BY SizeNat DEF ReadTlv, Size
<1>2. CASE phase' = "select" /\ UNCHANGED <<pos, off, hi>>
  BY <1>1, <1>2 DEF StaysInside
<1> DEFINE from == BodyAt(pos)
           to == from + BodyLen(pos)
<1>3. CASE /\ ~(Size < pos + 2) /\ ~(LongForm(pos) /\ Size < pos + 4)
           /\ IF b(pos) = 3
              THEN phase' = "record" /\ off' = from /\ hi' = Lesser(to, Size) /\ pos' = hi'
              ELSE pos' = to /\ UNCHANGED <<phase, off, hi>>
  <2>1. pos + 2 <= Size /\ (LongForm(pos) => pos + 4 <= Size) BY <1>1, <1>3
  <2>2. from \in Nat /\ pos + 2 <= from /\ from <= Size /\ to \in Nat /\ from <= to
    BY <1>1, <2>1, Body
  <2>3. CASE b(pos) = 3 BY <1>1, <1>3, <2>1, <2>2, <2>3 DEF StaysInside, Lesser
  <2>4. CASE b(pos) # 3 BY <1>1, <1>3, <2>1, <2>2, <2>4 DEF StaysInside
  <2> QED BY <2>3, <2>4
<1> QED BY <1>2, <1>3 DEF ReadTlv

LEMMA ReadRecordOK ==
  ASSUME IInv, ReadRecord
  PROVE  /\ IInv' /\ pos' = pos
         /\ \/ phase' \in {"tlv", "done"}
            \/ phase' = "record" /\ off + 3 <= off' /\ off' <= Size
<1> USE DEF IInv, Offsets
<1>1. /\ Size \in Nat /\ Size' = Size /\ phase = "record" /\ UNCHANGED <<in, pos, hi>>
      /\ off <= hi /\ hi <= Size
  BY SizeNat DEF ReadRecord, Size, StaysInside
<1> DEFINE short == Short(b(off))
           payLen == IF short THEN b(off + 2) ELSE b(off + 4) * 256 + b(off + 5)
           ids == IF short THEN off + 3 ELSE off + 6
           body == IF HasId(b(off)) THEN ids + 1 ELSE ids
           idLen == IF HasId(b(off)) THEN b(ids) ELSE 0
           end == body + b(off + 1) + idLen + payLen
<1>2. CASE Leave \/ (phase' = "done" /\ UNCHANGED off)
  BY <1>1, <1>2 DEF Leave, StaysInside
<1>3. CASE /\ ~(off + 2 >= hi) /\ (short \/ ~(off + 6 > hi))
           /\ ~(HasId(b(off)) /\ ids >= hi) /\ ~Overruns(end)
           /\ off' = end /\ phase' = phase
  <2>1. off + 2 < hi /\ (short \/ off + 6 <= hi) /\ (HasId(b(off)) => ids < hi) /\ end <= hi
    BY <1>1, <1>3 DEF Overruns
  <2> HIDE DEF short
  <2>2. b(off) \in Nat /\ b(off + 1) \in Nat /\ b(off + 2) \in Nat BY <1>1, <2>1, ByteAt
  <2>3. payLen \in Nat
    <3>1. CASE short BY <2>2, <3>1
    <3>2. CASE ~short
      <4>1. b(off + 4) \in Nat /\ b(off + 5) \in Nat BY <1>1, <2>1, <3>2, ByteAt
      <4> QED BY <3>2, <4>1
    <3> QED BY <3>1, <3>2
  <2>4. ids \in Nat /\ off + 3 <= ids OBVIOUS
  <2>5. idLen \in Nat BY <1>1, <2>1, <2>4, ByteAt
  <2>6. end \in Nat /\ off + 3 <= end BY <2>2, <2>3, <2>4, <2>5
  <2> QED BY <1>1, <1>3, <2>1, <2>6 DEF StaysInside
<1> QED BY <1>1, <1>2, <1>3 DEF ReadRecord, Return, IdAt

LEMMA SelectOK == ASSUME IInv, Select PROVE IInv' /\ phase = "select"
  BY DEF IInv, Offsets, StaysInside, Select, Return, Size

LEMMA StepOK == ASSUME IInv, [Next]_vars PROVE IInv'
<1>1. CASE FindContainer BY <1>1, FindContainerOK
<1>2. CASE ReadTlv BY <1>2, ReadTlvOK
<1>3. CASE ReadRecord BY <1>3, ReadRecordOK
<1>4. CASE Select BY <1>4, SelectOK
<1>5. CASE UNCHANGED vars BY <1>5 DEF vars, IInv, Offsets, StaysInside, Size
<1> QED BY <1>1, <1>2, <1>3, <1>4, <1>5 DEF Next

LEMMA Inductive == Spec => []IInv
<1>1. Init => IInv BY InitOK
<1>2. IInv /\ [Next]_vars => IInv' BY StepOK
<1> QED BY <1>1, <1>2, PTL DEF Spec

--------------------------------------------------------------------------------
(* From here on a card that is laid out lies below the place.                *)

LEMMA Written ==
  ASSUME InputOK(in)
  PROVE  /\ Size \in Nat /\ in.place \in Nat /\ in.cut \in BOOLEAN
         /\ Len(in.written) \in Nat /\ DOMAIN in.written = 1 .. Len(in.written)
         /\ \A k \in DOMAIN in.written : in.written[k].end \in Nat
         /\ Owed \subseteq DOMAIN in.written
<1> DEFINE T == [rec : Records, end : Nat]
<1>1. in.written \in Seq(T) BY DEF InputOK
<1>0. Len(in.written) \in Nat /\ DOMAIN in.written = 1 .. Len(in.written) BY <1>1
<1>2. \A k \in DOMAIN in.written : in.written[k] \in T
  <2> HIDE DEF T
  <2> QED BY <1>0, <1>1, ElementOfSeq
<1> QED BY <1>0, <1>2, SizeNat DEF InputOK, Owed

\* Below the place the memory holds what the card does.
LEMMA SameByte ==
  ASSUME InputOK(in), NEW card, LaidOut(in, card), NEW i \in Nat, i < in.place
  PROVE  i < Size /\ b(i) \in Byte /\ b(i) = card.data[i + 1]
<1>1. i + 1 \in 1 .. in.place BY Written
<1>2. i + 1 \in 1 .. Len(in.data) BY Written DEF LaidOut, Size
<1>3. in.data \in Seq(Byte) BY DEF InputOK, Bytes
<1> QED BY <1>1, <1>2, <1>3, Written DEF LaidOut, Size, b

LEMMA CardByte ==
  ASSUME NEW i, NEW card, LaidOut(i, card), NEW k \in 1 .. Len(card.data)
  PROVE  card.data[k] \in Byte
  BY DEF LaidOut, Bytes

LEMMA Indices == ASSUME Sequenced PROVE Len(records) \in Nat /\ DOMAIN records = 1 .. Len(records)
  BY DEF Sequenced

\* What a record adds to those that were found.
LEMMA Appended ==
  ASSUME Sequenced, NEW e, records' = Append(records, e)
  PROVE  /\ records' \in Seq(Entries') /\ Len(records') = Len(records) + 1
         /\ DOMAIN records' = 1 .. Len(records) + 1
         /\ \A k \in DOMAIN records : records'[k] = records[k]
         /\ records'[Len(records) + 1] = e
<1> DEFINE T == Entries \cup {e}
<1>1. records \in Seq(T) BY SeqMonotonic DEF Sequenced
<1>2. e \in T OBVIOUS
<1>3. /\ records' \in Seq(T) /\ Len(records') = Len(records) + 1
      /\ \A k \in 1 .. Len(records) : records'[k] = records[k]
      /\ records'[Len(records) + 1] = e
  BY <1>1, <1>2, AppendProperties
<1>4. Len(records) \in Nat /\ DOMAIN records' = 1 .. Len(records) + 1 /\ DOMAIN records = 1 .. Len(records)
  BY <1>1, <1>3
<1>5. T \subseteq Entries' BY <1>3, <1>4 DEF Entries
<1>6. records' \in Seq(Entries') BY <1>3, <1>5, SeqMonotonic
<1> QED BY <1>3, <1>4, <1>6

LEMMA SequencedGrows ==
  ASSUME Sequenced, InputOK(in), in' = in, NEW e, records' = Append(records, e),
         in.cut => Len(records) + 1 \in Owed
  PROVE  Sequenced'
<1> DEFINE n == Len(records) + 1
<1>1. /\ records' \in Seq(Entries') /\ DOMAIN records' = 1 .. n /\ records'[n] = e
      /\ \A k \in DOMAIN records : records'[k] = records[k]
      /\ n \in Nat \ {0} /\ DOMAIN records = 1 .. n - 1
  BY Appended, Indices
<1>2. \A k \in DOMAIN records' : k \in DOMAIN records \/ k = n BY <1>1
<1>3. ASSUME \E k \in DOMAIN records' : Usable(records'[k]) PROVE Firsts(records') # {}
  <2>1. CASE \E k \in DOMAIN records : Usable(records[k])
    <3>1. PICK k \in DOMAIN records : Usable(records[k]) /\ \A j \in 1 .. k - 1 : ~Usable(records[j])
      BY <2>1 DEF Sequenced, Firsts
    <3>2. \A j \in 1 .. k - 1 : j \in DOMAIN records BY <1>1
    <3>3. k \in Firsts(records') BY <1>1, <3>1, <3>2 DEF Firsts
    <3> QED BY <3>3
  <2>2. CASE ~\E k \in DOMAIN records : Usable(records[k])
    <3>1. Usable(records'[n]) BY <1>1, <1>2, <1>3, <2>2
    <3>2. \A j \in 1 .. n - 1 : ~Usable(records'[j]) BY <1>1, <2>2
    <3>3. n \in Firsts(records') BY <1>1, <3>1, <3>2 DEF Firsts
    <3> QED BY <3>3
  <2> QED BY <2>1, <2>2
<1>4. in.cut => \A k \in DOMAIN records' : k \in Owed' BY <1>1, <1>2 DEF Sequenced, Owed
<1> QED BY <1>1, <1>3, <1>4 DEF Sequenced

LEMMA SequencedKept ==
  ASSUME Sequenced, in' = in, records' = records \/ records' = <<>>
  PROVE  Sequenced'
<1>1. CASE records' = records BY <1>1 DEF Sequenced, Entries, Firsts, Owed
<1>2. CASE records' = <<>>
  <2>1. DOMAIN records' = {} BY <1>2
  <2> QED BY <1>2, <2>1 DEF Sequenced, Entries
<1> QED BY <1>1, <1>2

LEMMA FoundKept == ASSUME in' = in, records' = records PROVE Found' <=> Found
  BY DEF Found, Owed

LEMMA FoundGrows ==
  ASSUME Sequenced, Found, ~in.cut, in' = in, NEW e, records' = Append(records, e)
  PROVE  Found'
  BY Appended, Indices DEF Found, Owed

\* A reader that has passed all records in front of the place is done with the card.
LEMMA FoundAt ==
  ASSUME InputOK(in), Sequenced, NEW p \in Nat, NEW q \in Nat, Read(p), NoneEnds(in, p, q),
         in.place <= q
  PROVE  Found
<1>1. ASSUME NEW k \in Owed PROVE k \in DOMAIN records /\ records[k] = in.written[k].rec
  <2>1. k \in DOMAIN in.written /\ in.written[k].end \in Nat /\ in.written[k].end <= q
    BY Written DEF Owed
  <2>2. in.written[k].end <= p BY <2>1 DEF NoneEnds
  <2>3. k \in 1 .. Len(records) BY <2>1, <2>2, Written, Indices DEF Read
  <2> QED BY <2>3, Indices DEF Read
<1> QED BY <1>1 DEF Found, Sequenced

LEMMA ReadOn ==
  ASSUME InputOK(in), NEW p \in Nat, NEW q \in Nat, p <= q, Read(p), NoneEnds(in, p, q)
  PROVE  Read(q)
<1>1. \A k \in DOMAIN in.written : in.written[k].end <= p <=> in.written[k].end <= q
  BY Written DEF NoneEnds
<1> QED BY <1>1 DEF Read

\* The container is found where it is, or it does not lie before the place. Only
\* then is the card refused.
LEMMA StartFound ==
  ASSUME InputOK(in), NEW card, LaidOut(in, card)
  PROVE  LET refused == Size < StartOffset + 4 \/ b(StartOffset) # 225 IN
         /\ refused => Owed = {}
         /\ ~refused => \/ StartOffset = card.start
                        \/ Owed = {} /\ ~in.cut /\ in.place <= StartOffset + 4
<1> DEFINE at == {i \in 0 .. Size - 5 : i < 16 /\ Container(i)}
           refused == Size < StartOffset + 4 \/ b(StartOffset) # 225
<1>1. /\ Size \in Nat /\ in.place \in Nat /\ in.place <= Size /\ (in.cut => in.place = Size)
      /\ in.cut \in BOOLEAN
  BY Written DEF LaidOut, Size
<1>2. /\ card.start \in {0, 12} /\ card.start + 4 <= Len(card.data)
      /\ card.data[card.start + 1] = 225 /\ card.data[card.start + 2] \in {16, 17, 64}
      /\ \A k \in 1 .. card.start : card.data[k] # 225
  BY DEF LaidOut, ContainerLaid
<1>3. \A i \in Nat : i < in.place => b(i) = card.data[i + 1] BY SameByte
<1>4. \A i \in Nat : i < in.place /\ i < card.start => b(i) # 225
  <2> SUFFICES ASSUME NEW i \in Nat, i < in.place, i < card.start PROVE b(i) # 225 OBVIOUS
  <2>1. card.start \in Nat BY <1>2
  <2>2. i + 1 \in 1 .. card.start BY <2>1
  <2>3. card.data[i + 1] # 225 BY <1>2, <2>2
  <2> QED BY <1>3, <2>3
<1>5. \A k \in Owed : in.written[k].end <= in.place /\ card.start + 4 < in.written[k].end
  BY <1>2, Written DEF LaidOut, ContainerLaid, NoneEnds, Owed
<1>6. at # {} => \E i \in at : \A j \in at : i <= j
  <2>1. at \in SUBSET (0 .. 15) BY <1>1
  <2> QED BY <2>1, Least
<1>7. StartOffset = IF Size > 12 /\ b(0) # 225 /\ at # {}
                    THEN CHOOSE i \in at : \A j \in at : i <= j ELSE 0
  BY DEF StartOffset
<1>10. StartOffset \in Nat
  <2>1. CASE at # {} BY <1>1, <1>6, <1>7, <2>1
  <2>2. CASE at = {} BY <1>7, <2>2
  <2> QED BY <2>1, <2>2
<1> HIDE DEF at
<1>8. CASE card.start = 0
  <2>1. CASE in.place = 0
    <3>1. Owed = {} BY <1>1, <1>5, <1>8, <2>1, Written DEF Owed
    <3>2. in.cut => StartOffset = 0 BY <1>1, <1>7, <2>1
    <3> QED BY <1>8, <1>10, <2>1, <3>1, <3>2
  <2>2. CASE in.place > 0
    <3>1. b(0) = 225 BY <1>1, <1>2, <1>3, <1>8, <2>2
    <3>2. StartOffset = 0 BY <1>7, <3>1
    <3>3. refused => Size < 4 BY <3>1, <3>2
    <3>4. refused => Owed = {} BY <1>1, <1>5, <1>8, <3>3, Written DEF Owed
    <3> QED BY <1>8, <3>2, <3>4
  <2> QED BY <1>1, <2>1, <2>2
<1>9. CASE card.start = 12
  <2>1. CASE in.place < 14
    <3>1. Owed = {} BY <1>1, <1>5, <1>9, <2>1, Written DEF Owed
    <3>2. ASSUME in.cut PROVE refused
      <4>1. at = {}
        <5> SUFFICES ASSUME NEW i \in 0 .. Size - 5, Container(i) PROVE FALSE
          BY DEF at
        <5>1. i \in Nat /\ i < in.place /\ i < card.start BY <1>1, <1>9, <2>1, <3>2
        <5> QED BY <1>4, <5>1 DEF Container
      <4>2. StartOffset = 0 BY <1>7, <4>1
      <4>3. Size < 4 \/ b(0) # 225 BY <1>1, <1>4, <1>9, <3>2
      <4> QED BY <4>2, <4>3
    <3>3. ~refused => in.place <= StartOffset + 4
      <4> SUFFICES ASSUME b(StartOffset) = 225, StartOffset + 4 < in.place PROVE FALSE
        BY <1>1, <1>10
      <4>1. StartOffset < 12 BY <1>1, <1>10, <2>1
      <4> QED BY <1>1, <1>4, <1>9, <1>10, <4>1
    <3> QED BY <1>1, <3>1, <3>2, <3>3
  <2>2. CASE in.place >= 14
    <3>1. b(0) # 225 BY <1>1, <1>4, <1>9, <2>2
    <3>2. \A j \in at : 12 <= j
      <4> SUFFICES ASSUME NEW j \in 0 .. Size - 5, Container(j), j < 12 PROVE FALSE
        BY <1>1 DEF at
      <4>1. j \in Nat /\ j < in.place /\ j < card.start BY <1>1, <1>9, <2>2
      <4> QED BY <1>4, <4>1 DEF Container
    <3>3. Container(12)
      <4>1. b(12) = card.data[13] /\ b(13) = card.data[14] BY <1>3, <1>1, <2>2
      <4> QED BY <1>2, <1>9, <4>1 DEF Container
    <3>4. CASE Size >= 17
      <4>1. 12 \in at BY <1>1, <3>3, <3>4 DEF at
      <4>2. StartOffset \in at /\ \A j \in at : StartOffset <= j BY <1>1, <1>6, <1>7, <3>1, <3>4, <4>1
      <4>3. StartOffset = 12 BY <1>1, <3>2, <4>1, <4>2 DEF at
      <4> QED BY <1>1, <1>9, <3>3, <3>4, <4>3 DEF Container
    <3>5. CASE Size < 17
      <4>1. at = {} BY <1>1, <3>2, <3>5 DEF at
      <4>2. StartOffset = 0 BY <1>7, <4>1
      <4>3. refused BY <3>1, <4>2
      <4>4. Owed = {} BY <1>1, <1>5, <1>9, <3>5, Written DEF Owed
      <4> QED BY <4>3, <4>4
    <3> QED BY <1>1, <3>4, <3>5
  <2> QED BY <1>1, <2>1, <2>2
<1> QED BY <1>2, <1>8, <1>9

LEMMA FindContainerTracks ==
  ASSUME IInv, Sequenced, NEW card, Tracks(card), FindContainer
  PROVE  Sequenced' /\ Tracks(card)'
<1>1. InputOK(in) /\ phase = "cc" /\ records = <<>> /\ LaidOut(in, card) /\ UNCHANGED <<in, records>>
  BY DEF IInv, Offsets, Tracks, FindContainer
<1>2. Sequenced' BY <1>1, SequencedKept
<1>3. LaidOut(in, card)' BY <1>1
<1> DEFINE refused == Size < StartOffset + 4 \/ b(StartOffset) # 225
<1>4. /\ refused => Owed = {}
      /\ ~refused => \/ StartOffset = card.start
                     \/ Owed = {} /\ ~in.cut /\ in.place <= StartOffset + 4
  BY <1>1, StartFound
<1>5. CASE refused
  <2>1. phase' = "done" /\ result' = Answer("raises") /\ Owed' = {}
    BY <1>1, <1>4, <1>5 DEF FindContainer, Return, Owed
  <2>2. Judged' BY <2>1 DEF Judged, Answer
  <2> QED BY <1>2, <1>3, <2>1, <2>2 DEF Tracks
<1>6. CASE ~refused
  <2>1. phase' = "tlv" /\ pos' = StartOffset + 4 BY <1>6 DEF FindContainer
  <2>2. Follows(card)'
    <3>1. CASE Owed = {} /\ ~in.cut /\ in.place <= StartOffset + 4
      <4>1. Found BY <1>1, <3>1 DEF Found
      <4>2. Found' BY <1>1, <4>1, FoundKept
      <4>3. ~in'.cut /\ in'.place <= pos' BY <1>1, <2>1, <3>1
      <4> QED BY <2>1, <4>2, <4>3 DEF Follows
    <3>2. CASE StartOffset = card.start
      <4>1. Read(card.start + 4)
        <5>2. card.start \in Nat BY <1>1 DEF LaidOut, ContainerLaid
        <5>1. \A k \in DOMAIN in.written : in.written[k].end > card.start + 4
          <6>1. /\ NoneEnds(in, 0, card.start + 4)
                /\ \A k \in DOMAIN in.written : in.written[k].end > 0
            BY <1>1 DEF LaidOut, ContainerLaid
          <6>2. \A k \in DOMAIN in.written : in.written[k].end \in Nat BY <1>1, Written
          <6> QED BY <5>2, <6>1, <6>2 DEF NoneEnds
        <5>3. \A k \in DOMAIN in.written : ~(k <= 0) BY <1>1, Written
        <5>4. Len(records) = 0 /\ DOMAIN records = {} BY <1>1
        <5> QED BY <1>1, <5>1, <5>2, <5>3, <5>4, Written DEF Read
      <4>2. card.start + 4 \in card.blocks BY <1>1 DEF LaidOut, ContainerLaid
      <4>3. Read(pos)' BY <1>1, <2>1, <3>2, <4>1 DEF Read
      <4> QED BY <2>1, <3>2, <4>2, <4>3 DEF Follows
    <3> QED BY <1>4, <1>6, <3>1, <3>2
  <2> QED BY <1>2, <1>3, <2>1, <2>2 DEF Tracks
<1> QED BY <1>5, <1>6

LEMMA ReadTlvTracks ==
  ASSUME IInv, Sequenced, NEW card, Tracks(card), ReadTlv
  PROVE  Sequenced' /\ Tracks(card)'
<1>1. /\ InputOK(in) /\ phase = "tlv" /\ pos \in Nat /\ LaidOut(in, card)
      /\ in' = in /\ records' = records /\ Follows(card)
  BY DEF IInv, Offsets, Tracks, ReadTlv
<1>2. Sequenced' /\ LaidOut(in, card)' /\ Size' = Size BY <1>1, SequencedKept DEF Size
<1>3. /\ Size \in Nat /\ in.place \in Nat /\ in.place <= Size /\ (in.cut => in.place = Size)
      /\ in.place <= Len(card.data) /\ Len(card.data) \in Nat /\ in.cut \in BOOLEAN
  BY <1>1, Written DEF LaidOut, Size, Bytes
<1>4. \A i \in Nat : i < in.place => b(i) = card.data[i + 1] BY <1>1, SameByte
<1> DEFINE ends == Size < pos + 2 \/ b(pos) = 254 \/ (LongForm(pos) /\ Size < pos + 4)
           from == BodyAt(pos)
           to == from + BodyLen(pos)
<1>5. IF ends THEN phase' = "select" /\ UNCHANGED <<pos, off, hi>>
      ELSE IF b(pos) = 3
           THEN phase' = "record" /\ off' = from /\ hi' = Lesser(to, Size) /\ pos' = hi'
           ELSE pos' = to /\ UNCHANGED <<phase, off, hi>>
  BY DEF ReadTlv
\* A reader that has found what it owes may go on only where no cut is.
<1>6. ASSUME Found, ends \/ (~in.cut /\ in.place <= from) PROVE Tracks(card)'
  <2>1. Found' BY <1>1, <1>6, FoundKept
  <2>2. CASE ends BY <1>2, <1>5, <2>1, <2>2 DEF Tracks
  <2>3. CASE ~ends
    <3>1. from \in Nat /\ BodyLen(pos) \in Nat BY <1>1, <1>3, <2>3, Body
    <3>2. to \in Nat /\ from <= to BY <3>1
    <3> HIDE DEF from, to
    <3>3. phase' \in {"tlv", "record"} /\ ~in'.cut BY <1>1, <1>5, <1>6, <2>3
    <3>4. /\ phase' = "tlv" => in'.place <= pos'
          /\ phase' = "record" => in'.place <= off' /\ pos' = hi'
      BY <1>1, <1>3, <1>5, <1>6, <2>3, <3>1, <3>2
    <3> QED BY <1>2, <2>1, <3>3, <3>4 DEF Tracks, Follows
  <2> QED BY <2>2, <2>3
<1>7. CASE Found /\ (in.cut => Size < pos + 2) /\ in.place <= pos
  <2>1. ends \/ (~in.cut /\ in.place <= from) BY <1>1, <1>3, <1>7 DEF BodyAt
  <2> HIDE DEF ends, from
  <2> QED BY <1>2, <1>6, <1>7, <2>1
<1>8. CASE pos \in card.blocks /\ Read(pos)
  <2>1. BlockLaid(in, card, pos) BY <1>1, <1>8 DEF LaidOut
  <2>2. CASE /\ pos + 2 > Len(card.data) \/ card.data[pos + 1] = 254
             /\ \A k \in DOMAIN in.written : in.written[k].end <= pos
    <3>1. NoneEnds(in, pos, pos + in.place) BY <1>1, <2>2, Written DEF NoneEnds
    <3>2. Found BY <1>1, <1>3, <1>8, <3>1, FoundAt
    <3>3. in.cut => ends BY <1>1, <1>3, <1>4, <2>2
    <3>4. ends \/ in.place <= from BY <1>1, <1>3, <1>4, <2>2 DEF BodyAt
    <3> QED BY <1>2, <1>3, <1>6, <3>2, <3>3, <3>4
  <2>3. ASSUME NEW body \in {pos + 2, pos + 4}, body <= Len(card.data), card.data[pos + 1] # 254,
               card.data[pos + 2] = 255 <=> body = pos + 4, NoneEnds(in, pos, body),
               NEW next, next = IF body = pos + 2 THEN body + card.data[pos + 2]
                                ELSE body + card.data[pos + 3] * 256 + card.data[pos + 4],
               IF card.data[pos + 1] = 3
               THEN body \in DOMAIN card.message /\ card.message[body] = next
               ELSE next \in card.blocks /\ NoneEnds(in, body, next)
        PROVE  Tracks(card)'
    <3>1. body \in Nat /\ pos <= body BY <1>1
    <3>2. CASE in.place < body
      <4>1. Found BY <1>1, <1>3, <1>8, <2>3, <3>1, <3>2, FoundAt
      <4>2. in.cut => ends BY <1>1, <1>3, <1>4, <2>3, <3>2 DEF LongForm
      <4>3. in.place <= from
        <5>1. CASE body = pos + 2 BY <1>1, <1>3, <3>2, <5>1 DEF BodyAt
        <5>2. CASE body = pos + 4 /\ in.place <= pos + 1 BY <1>1, <1>3, <5>2 DEF BodyAt
        <5>3. CASE body = pos + 4 /\ pos + 1 < in.place
          <6>1. b(pos + 1) = card.data[pos + 2] BY <1>1, <1>3, <1>4, <5>3
          <6>2. LongForm(pos) BY <2>3, <5>3, <6>1 DEF LongForm
          <6> QED BY <1>1, <1>3, <3>2, <5>3, <6>2 DEF BodyAt
        <5> QED BY <1>1, <1>3, <5>1, <5>2, <5>3
      <4> QED BY <1>6, <1>3, <4>1, <4>2, <4>3
    <3>3. CASE body <= in.place
      <4>1. b(pos) = card.data[pos + 1] /\ b(pos + 1) = card.data[pos + 2]
        BY <1>1, <1>3, <1>4, <3>3
      <4>2. body = pos + 4 => b(pos + 2) = card.data[pos + 3] /\ b(pos + 3) = card.data[pos + 4]
        BY <1>1, <1>3, <1>4, <3>3
      <4>3. from = body /\ to = next /\ ~ends
        <5>1. CASE body = pos + 2
          BY <1>1, <1>3, <2>3, <3>3, <4>1, <5>1 DEF LongForm, BodyAt, BodyLen
        <5>2. CASE body = pos + 4
          <6>1. LongForm(pos) /\ body # pos + 2 BY <1>1, <2>3, <4>1, <5>2 DEF LongForm
          <6>2. from = body BY <5>2, <6>1 DEF BodyAt
          <6>3. /\ card.data[pos + 3] \in Byte /\ card.data[pos + 4] \in Byte
            <7>1. pos + 3 \in 1 .. Len(card.data) /\ pos + 4 \in 1 .. Len(card.data)
              BY <1>1, <1>3, <2>3, <5>2
            <7> QED BY <1>1, <7>1, CardByte
          <6>4. to = next
            <7>1. BodyLen(pos) = card.data[pos + 3] * 256 + card.data[pos + 4]
              BY <4>2, <5>2, <6>1 DEF BodyLen
            <7>2. next = body + card.data[pos + 3] * 256 + card.data[pos + 4] BY <2>3, <6>1
            <7>3. \A x, y \in Nat : body + x * 256 + y = body + (x * 256 + y) BY <3>1
            <7>4. card.data[pos + 3] \in Nat /\ card.data[pos + 4] \in Nat BY <6>3 DEF Byte
            <7> QED BY <6>2, <7>1, <7>2, <7>3, <7>4
          <6>5. ~ends BY <1>1, <1>3, <2>3, <3>3, <4>1, <5>2
          <6> QED BY <6>2, <6>4, <6>5
        <5> QED BY <2>3, <5>1, <5>2
      <4>4. Read(body) BY <1>1, <1>8, <2>3, <3>1, ReadOn
      <4>5. next \in Nat /\ body <= next
        <5>1. from \in Nat /\ BodyLen(pos) \in Nat BY <1>1, <1>3, <3>3, <4>3, Body
        <5> QED BY <4>3, <5>1
      <4> HIDE DEF from, to, ends
      <4>6. CASE b(pos) = 3
        <5>1. phase' = "record" /\ off' = body /\ hi' = Lesser(next, Size) /\ pos' = hi'
          BY <1>5, <4>3, <4>6
        <5>2. body \in DOMAIN card.message /\ card.message[body] = next BY <2>3, <4>1, <4>6
        <5>3. Read(off)' BY <1>1, <4>4, <5>1 DEF Read
        <5>4. Follows(card)' BY <1>2, <5>1, <5>2, <5>3 DEF Follows
        <5> QED BY <1>2, <5>1, <5>4 DEF Tracks
      <4>7. CASE b(pos) # 3
        <5>1. phase' = "tlv" /\ pos' = next BY <1>1, <1>5, <4>3, <4>7
        <5>2. next \in card.blocks /\ NoneEnds(in, body, next) BY <2>3, <4>1, <4>7
        <5>3. Read(next) BY <1>1, <3>1, <4>4, <4>5, <5>2, ReadOn
        <5>4. Read(pos)' BY <1>1, <5>1, <5>3 DEF Read
        <5> QED BY <1>2, <5>1, <5>2, <5>4 DEF Tracks, Follows
      <4> QED BY <4>6, <4>7
    <3> QED BY <1>3, <3>1, <3>2, <3>3
  <2>4. ASSUME NEW body \in {pos + 2, pos + 4},
               LET next == IF body = pos + 2 THEN body + card.data[pos + 2]
                           ELSE body + card.data[pos + 3] * 256 + card.data[pos + 4]
               IN  /\ body <= Len(card.data) /\ card.data[pos + 1] # 254
                   /\ card.data[pos + 2] = 255 <=> body = pos + 4
                   /\ NoneEnds(in, pos, body)
                   /\ IF card.data[pos + 1] = 3
                      THEN body \in DOMAIN card.message /\ card.message[body] = next
                      ELSE next \in card.blocks /\ NoneEnds(in, body, next)
        PROVE  Tracks(card)'
    BY <2>3, <2>4
  <2>5. pos + 1 + 1 = pos + 2 /\ pos + 2 + 1 = pos + 3 /\ pos + 3 + 1 = pos + 4 BY <1>1
  <2> QED BY <1>2, <2>1, <2>2, <2>4, <2>5 DEF BlockLaid
<1> QED BY <1>1, <1>2, <1>7, <1>8 DEF Follows

\* The record at off is there in the message whole.
Complete ==
  /\ off + 2 < hi /\ HeadEnd(in.data, off) <= hi /\ RecordEnd(in.data, off) <= hi
  /\ Short(in.data[off + 1]) \/ (in.data[off + 3] = 0 /\ in.data[off + 4] = 0)

LEMMA HeadBounds ==
  ASSUME NEW data, NEW r \in Nat
  PROVE  HeadEnd(data, r) \in Nat /\ r + 3 <= HeadEnd(data, r) /\ (~Short(data[r + 1]) => r + 6 <= HeadEnd(data, r))
  BY DEF HeadEnd

LEMMA RecordBounds ==
  ASSUME NEW data \in Bytes, NEW r \in Nat, HeadEnd(data, r) <= Len(data)
  PROVE  /\ IdLen(data, r) \in Nat /\ TypeEnd(data, r) \in Nat
         /\ PayloadAt(data, r) \in Nat /\ RecordEnd(data, r) \in Nat
         /\ HeadEnd(data, r) <= TypeEnd(data, r) /\ TypeEnd(data, r) <= PayloadAt(data, r)
         /\ PayloadAt(data, r) <= RecordEnd(data, r)
<1>1. data \in Seq(Byte) /\ Len(data) \in Nat BY DEF Bytes
<1>2. \A k \in 1 .. Len(data) : data[k] \in Nat
  <2> SUFFICES ASSUME NEW k \in 1 .. Len(data) PROVE data[k] \in Nat OBVIOUS
  <2>1. data[k] \in Byte BY <1>1, ElementOfSeq
  <2>2. \A x \in Byte : x \in Nat BY DEF Byte
  <2> QED BY <2>1, <2>2, Zenon
<1>3. /\ HeadEnd(data, r) \in Nat /\ r + 3 <= HeadEnd(data, r)
      /\ ~Short(data[r + 1]) => r + 6 <= HeadEnd(data, r)
  BY HeadBounds
<1>4. data[r + 2] \in Nat /\ data[r + 3] \in Nat /\ data[HeadEnd(data, r)] \in Nat
  BY <1>1, <1>2, <1>3
<1>5. ~Short(data[r + 1]) => data[r + 5] \in Nat /\ data[r + 6] \in Nat BY <1>1, <1>2, <1>3
<1>6. IdLen(data, r) \in Nat BY <1>4 DEF IdLen
<1>7. TypeEnd(data, r) \in Nat /\ HeadEnd(data, r) <= TypeEnd(data, r) BY <1>3, <1>4 DEF TypeEnd
<1>8. PayloadAt(data, r) \in Nat /\ TypeEnd(data, r) <= PayloadAt(data, r)
  BY <1>6, <1>7 DEF PayloadAt
<1>9. RecordEnd(data, r) \in Nat /\ PayloadAt(data, r) <= RecordEnd(data, r)
  <2>1. CASE Short(data[r + 1]) BY <1>4, <1>8, <2>1 DEF RecordEnd
  <2>2. CASE ~Short(data[r + 1])
    <3>1. data[r + 5] * 256 + data[r + 6] \in Nat BY <1>5, <2>2
    <3>2. RecordEnd(data, r) = PayloadAt(data, r) + (data[r + 5] * 256 + data[r + 6])
      BY <2>2 DEF RecordEnd
    <3> QED BY <1>8, <3>1, <3>2
  <2> QED BY <2>1, <2>2
<1> QED BY <1>6, <1>7, <1>8, <1>9

\* The turn that refuses the card.
Refuse ==
  /\ Return(Answer("err")) /\ records' = <<>> /\ off' = off
  /\ off + 2 < hi /\ HasId(b(off)) /\ hi <= IdAt

\* What a turn does, by whether the record is complete.
LEMMA RecordTurn ==
  ASSUME IInv, ReadRecord
  PROVE  /\ Complete => /\ off' = RecordEnd(in.data, off) /\ UNCHANGED <<phase, result>>
                        /\ records' = IF in.data[off + 1] % 8 # 2 THEN records
                                      ELSE Append(records, RecordAt(in.data, off))
         /\ ~Complete => Leave \/ Refuse
<1> DEFINE short == Short(b(off))
           ids == IF short THEN off + 3 ELSE off + 6
           body == IF HasId(b(off)) THEN ids + 1 ELSE ids
           idLen == IF HasId(b(off)) THEN b(ids) ELSE 0
           payLen == IF short THEN b(off + 2) ELSE b(off + 4) * 256 + b(off + 5)
           pay == body + b(off + 1) + idLen
           end == pay + payLen
           high == ~short /\ b(off + 2) + b(off + 3) > 0
<1>1. /\ off \in Nat /\ hi \in Nat /\ InputOK(in) /\ off <= hi /\ hi <= Size /\ Size \in Nat
      /\ in.data \in Bytes
  BY Written DEF IInv, Offsets, StaysInside, ReadRecord, InputOK
<1>2. IF off + 2 >= hi \/ (~short /\ off + 6 > hi) THEN Leave
      ELSE IF HasId(b(off)) /\ ids >= hi
      THEN Return(Answer("err")) /\ records' = <<>> /\ UNCHANGED off /\ ids = IdAt
      ELSE IF high \/ Overruns(end) THEN Leave
      ELSE /\ off' = end
           /\ records' = IF b(off) % 8 # 2 THEN records
                         ELSE Append(records, [type |-> Ascii(Slice(body, body + b(off + 1))),
                                               payload |-> Slice(pay, end)])
           /\ UNCHANGED <<phase, result>>
  BY DEF ReadRecord, IdAt
<1>3. \A k \in Nat : b(off + k) = in.data[off + k + 1] BY DEF b
<1>4. /\ b(off) = in.data[off + 1] /\ b(off + 1) = in.data[off + 2] /\ b(off + 2) = in.data[off + 3]
      /\ b(off + 3) = in.data[off + 4] /\ b(off + 4) = in.data[off + 5] /\ b(off + 5) = in.data[off + 6]
      /\ b(ids) = in.data[ids + 1]
  BY <1>1 DEF b
<1>5. body = HeadEnd(in.data, off) BY <1>1, <1>4 DEF HeadEnd
<1>6. idLen = IdLen(in.data, off) BY <1>1, <1>4, <1>5 DEF IdLen
<1>7. body + b(off + 1) = TypeEnd(in.data, off) BY <1>4, <1>5 DEF TypeEnd
<1>8. pay = PayloadAt(in.data, off) BY <1>6, <1>7 DEF PayloadAt
<1>9. end = RecordEnd(in.data, off) BY <1>4, <1>8 DEF RecordEnd
<1>10. RecordAt(in.data, off) = [type |-> Ascii(Slice(body, body + b(off + 1))), payload |-> Slice(pay, end)]
  BY <1>5, <1>7, <1>8, <1>9 DEF RecordAt, Slice
<1>11. (off + 2 >= hi \/ (~short /\ off + 6 > hi) \/ (HasId(b(off)) /\ ids >= hi))
         <=> (off + 2 >= hi \/ body > hi)
  BY <1>1
<1>12. ASSUME off + 2 < hi, body <= hi
       PROVE  /\ high <=> ~(short \/ (b(off + 2) = 0 /\ b(off + 3) = 0))
              /\ end \in Nat
  <2>1. HeadEnd(in.data, off) <= Len(in.data)
    <3>1. body <= Size BY <1>1, <1>12
    <3> QED BY <1>5, <3>1 DEF Size
  <2>2. RecordEnd(in.data, off) \in Nat BY <1>1, <2>1, RecordBounds
  <2>3. end \in Nat BY <1>9, <2>2
  <2>4. b(off + 2) \in Nat BY <1>1, <1>12, ByteAt
  <2>5. ~short => b(off + 3) \in Nat
    <3>1. ~short => off + 3 < Size BY <1>1, <1>12
    <3> QED BY <1>1, <3>1, ByteAt
  <2> HIDE DEF end, body, short
  <2> QED BY <2>3, <2>4, <2>5
<1>13. Complete <=> ~(off + 2 >= hi \/ body > hi) /\ ~high /\ ~Overruns(end)
  <2>1. Complete <=> /\ off + 2 < hi /\ body <= hi /\ end <= hi
                     /\ short \/ (b(off + 2) = 0 /\ b(off + 3) = 0)
    BY <1>4, <1>5, <1>9 DEF Complete
  <2>2. body \in Nat BY <1>1
  <2> HIDE DEF body, end, high, short
  <2> QED BY <1>1, <1>12, <2>1, <2>2 DEF Overruns
<1> HIDE DEF body, end, high, short, ids, pay
<1>14. CASE Complete BY <1>2, <1>4, <1>9, <1>10, <1>11, <1>13, <1>14
<1>15. CASE ~Complete
  <2>1. ids \in Nat BY <1>1 DEF ids
  <2> QED BY <1>1, <1>2, <1>11, <1>13, <1>15, <2>1 DEF Refuse
<1> QED BY <1>14, <1>15

LEMMA SameSlice ==
  ASSUME InputOK(in), NEW card, LaidOut(in, card), NEW m \in Nat, NEW n \in Nat, n <= in.place
  PROVE  SubSeq(in.data, m + 1, n) = SubSeq(card.data, m + 1, n)
<1>1. \A k \in m + 1 .. n : k \in 1 .. in.place BY Written
<1>2. \A k \in m + 1 .. n : in.data[k] = card.data[k] BY <1>1 DEF LaidOut
<1>3. \A k \in m + 1 .. n : card.data[k] \in Byte
  <2>1. \A k \in m + 1 .. n : k \in 1 .. Len(card.data) BY <1>1, Written DEF LaidOut, Bytes
  <2> QED BY <2>1, CardByte
<1> DEFINE s == SubSeq(in.data, m + 1, n)
           t == SubSeq(card.data, m + 1, n)
<1>4. m + 1 \in Int /\ n \in Int OBVIOUS
<1>5. /\ s \in Seq(Byte) /\ Len(s) = IF m + 1 <= n THEN n - (m + 1) + 1 ELSE 0
      /\ \A k \in 1 .. n - (m + 1) + 1 : s[k] = in.data[m + 1 + k - 1]
  BY <1>2, <1>3, <1>4, SubSeqProperties
<1>6. /\ t \in Seq(Byte) /\ Len(t) = IF m + 1 <= n THEN n - (m + 1) + 1 ELSE 0
      /\ \A k \in 1 .. n - (m + 1) + 1 : t[k] = card.data[m + 1 + k - 1]
  BY <1>3, <1>4, SubSeqProperties
<1> HIDE DEF s, t
<1>7. \A k \in 1 .. Len(s) : s[k] = t[k]
  <2> SUFFICES ASSUME NEW k \in 1 .. Len(s) PROVE s[k] = t[k] OBVIOUS
  <2>1. k \in 1 .. n - (m + 1) + 1 /\ m + 1 + k - 1 \in m + 1 .. n BY <1>5
  <2> QED BY <1>2, <1>5, <1>6, <2>1
<1>8. s = t BY <1>5, <1>6, <1>7, SeqEqual
<1> QED BY <1>8 DEF s, t

\* A record whose head lies below the place reads as it was written; of one that is
\* begun there the head has its length.
LEMMA SameHead ==
  ASSUME InputOK(in), NEW card, LaidOut(in, card), NEW r \in Nat, r < in.place
  PROVE  HeadEnd(in.data, r) = HeadEnd(card.data, r)
<1>1. r + 1 \in 1 .. in.place BY Written
<1> QED BY <1>1 DEF LaidOut, HeadEnd

LEMMA SameRecord ==
  ASSUME InputOK(in), NEW card, LaidOut(in, card), NEW r \in Nat, HeadEnd(card.data, r) <= in.place
  PROVE  /\ in.data[r + 1] = card.data[r + 1]
         /\ ~Short(card.data[r + 1]) => /\ in.data[r + 3] = card.data[r + 3]
                                        /\ in.data[r + 4] = card.data[r + 4]
         /\ HeadEnd(in.data, r) = HeadEnd(card.data, r)
         /\ TypeEnd(in.data, r) = TypeEnd(card.data, r)
         /\ PayloadAt(in.data, r) = PayloadAt(card.data, r)
         /\ RecordEnd(in.data, r) = RecordEnd(card.data, r)
<1> DEFINE h == HeadEnd(card.data, r)
<1>1. /\ h \in Nat /\ r + 3 <= h /\ (~Short(card.data[r + 1]) => r + 6 <= h) /\ in.place \in Nat
  BY HeadBounds, Written
<1>2. \A k \in 1 .. in.place : in.data[k] = card.data[k] BY DEF LaidOut
<1>3. /\ in.data[r + 1] = card.data[r + 1] /\ in.data[r + 2] = card.data[r + 2]
      /\ in.data[r + 3] = card.data[r + 3] /\ in.data[h] = card.data[h]
  BY <1>1, <1>2
<1>4. ~Short(card.data[r + 1]) => /\ in.data[r + 4] = card.data[r + 4]
                                  /\ in.data[r + 5] = card.data[r + 5]
                                  /\ in.data[r + 6] = card.data[r + 6]
  BY <1>1, <1>2
<1>5. HeadEnd(in.data, r) = h BY <1>1, SameHead
<1> HIDE DEF h
<1>6. IdLen(in.data, r) = IdLen(card.data, r) BY <1>3, <1>5 DEF IdLen, h
<1>7. TypeEnd(in.data, r) = TypeEnd(card.data, r) BY <1>3, <1>5 DEF TypeEnd, h
<1>8. PayloadAt(in.data, r) = PayloadAt(card.data, r) BY <1>6, <1>7 DEF PayloadAt
<1>9. RecordEnd(in.data, r) = RecordEnd(card.data, r) BY <1>3, <1>4, <1>8 DEF RecordEnd
<1> QED BY <1>3, <1>4, <1>5, <1>7, <1>8, <1>9 DEF h

LEMMA ReadRecordTracks ==
  ASSUME IInv, Sequenced, NEW card, Tracks(card), ReadRecord
  PROVE  Sequenced' /\ Tracks(card)'
<1>1. /\ InputOK(in) /\ phase = "record" /\ off \in Nat /\ hi \in Nat /\ off <= hi /\ hi <= Size
      /\ in' = in /\ pos' = pos /\ hi' = hi /\ LaidOut(in, card) /\ Follows(card)
  BY DEF IInv, Offsets, StaysInside, Tracks, ReadRecord
<1>2. LaidOut(in, card)' /\ Size' = Size BY <1>1 DEF Size
<1>3. /\ Size \in Nat /\ in.place \in Nat /\ in.place <= Size /\ (in.cut => in.place = Size)
      /\ in.place <= Len(card.data) /\ Len(card.data) \in Nat /\ in.cut \in BOOLEAN
  BY <1>1, Written DEF LaidOut, Size, Bytes
<1>4. /\ Complete => /\ off' = RecordEnd(in.data, off) /\ UNCHANGED <<phase, result>>
                     /\ records' = IF in.data[off + 1] % 8 # 2 THEN records
                                   ELSE Append(records, RecordAt(in.data, off))
      /\ ~Complete => Leave \/ Refuse
  BY RecordTurn
\* A card that is refused is refused at or behind the place.
<1>5. ASSUME Refuse, in.place <= IdAt PROVE Sequenced' /\ Tracks(card)'
  <2>1. Sequenced' BY <1>1, <1>5, SequencedKept DEF Refuse
  <2>2. RefusedAtId'
    <3>1. b(off)' = b(off) /\ IdAt' = IdAt BY <1>1, <1>5 DEF Refuse, b, IdAt
    <3> QED BY <1>1, <1>5, <3>1 DEF Refuse, RefusedAtId
  <2>3. Judged' BY <1>5, <2>2 DEF Refuse, Judged, Return, Answer
  <2> QED BY <1>2, <1>5, <2>1, <2>3 DEF Tracks, Refuse, Return
\* What was owed and found stays so; where a cut is, the message is left for good.
<1>6. ASSUME Found, in.cut => ~Complete /\ Size < pos + 2, pos = hi, in.place <= hi,
             Refuse => in.place <= IdAt, Complete => in.place <= off'
      PROVE  Sequenced' /\ Tracks(card)'
  <2>1. CASE Complete
    <3>1. ~in.cut /\ phase' = "record" /\ in'.place <= off' /\ pos' = hi' BY <1>1, <1>4, <1>6, <2>1
    <3>2. CASE records' = records
      <4>1. Sequenced' /\ Found' BY <1>1, <1>6, <3>2, SequencedKept, FoundKept
      <4> QED BY <1>1, <1>2, <3>1, <4>1 DEF Tracks, Follows
    <3>3. CASE records' = Append(records, RecordAt(in.data, off))
      <4>1. Sequenced' /\ Found' BY <1>1, <1>6, <3>1, <3>3, SequencedGrows, FoundGrows
      <4> QED BY <1>1, <1>2, <3>1, <4>1 DEF Tracks, Follows
    <3> QED BY <1>4, <2>1, <3>2, <3>3
  <2>2. CASE Leave
    <3>1. phase' = "tlv" /\ records' = records BY <2>2 DEF Leave
    <3>2. Sequenced' /\ Found' BY <1>1, <1>6, <3>1, SequencedKept, FoundKept
    <3>3. (in'.cut => Size' < pos' + 2) /\ in'.place <= pos' BY <1>1, <1>2, <1>6
    <3> QED BY <1>2, <3>1, <3>2, <3>3 DEF Tracks, Follows
  <2> QED BY <1>4, <1>5, <1>6, <2>1, <2>2
<1>7. CASE Found /\ ~in.cut /\ in.place <= off /\ pos = hi
  <2>1. IdAt \in Nat /\ off <= IdAt BY <1>1 DEF IdAt
  <2>2. Complete => off' \in Nat /\ off <= off'
    <3> SUFFICES ASSUME Complete PROVE off' \in Nat /\ off <= off' OBVIOUS
    <3>1. in.data \in Bytes /\ HeadEnd(in.data, off) <= Len(in.data)
      BY <1>1, HeadBounds, Written DEF Complete, Size, InputOK
    <3> QED BY <1>1, <1>4, <3>1, HeadBounds, RecordBounds
  <2> QED BY <1>1, <1>3, <1>6, <1>7, <2>1, <2>2
<1>8. CASE /\ off \in DOMAIN card.message /\ Read(off)
           /\ hi = Lesser(card.message[off], Size) /\ pos = hi
  <2> DEFINE data == card.data
             end == RecordEnd(data, off)
             last == card.message[off]
  <2>1. RecordLaid(in, card, off) /\ last \in Nat /\ data \in Bytes BY <1>1, <1>8 DEF LaidOut
  <2>2. CASE off = last /\ off \in card.blocks
    <3>1. hi = off BY <1>1, <1>3, <1>8, <2>2 DEF Lesser
    <3>2. ~Complete BY <1>1, <3>1 DEF Complete
    <3>3. ~Refuse BY <1>1, <3>1 DEF Refuse
    <3>4. CASE Leave
      <4>1. phase' = "tlv" /\ records' = records /\ pos' = off BY <1>1, <1>8, <3>1, <3>4 DEF Leave
      <4>2. Sequenced' BY <1>1, <4>1, SequencedKept
      <4>3. Read(pos)' BY <1>1, <1>8, <4>1 DEF Read
      <4> QED BY <1>2, <2>2, <4>1, <4>2, <4>3 DEF Tracks, Follows
    <3> QED BY <1>4, <3>2, <3>3, <3>4
  <2>3. CASE /\ off < last /\ HeadEnd(data, off) <= Len(data)
             /\ Short(data[off + 1]) \/ (data[off + 3] = 0 /\ data[off + 4] = 0)
             /\ end <= last /\ end \in DOMAIN card.message /\ card.message[end] = last
             /\ IF data[off + 1] % 8 # 2 THEN NoneEnds(in, off, end)
                ELSE /\ NoneEnds(in, off, end - 1)
                     /\ \E k \in DOMAIN in.written :
                          in.written[k] = [rec |-> RecordAt(data, off), end |-> end]
    <3>1. /\ HeadEnd(data, off) \in Nat /\ off + 3 <= HeadEnd(data, off) /\ end \in Nat
          /\ TypeEnd(data, off) \in Nat /\ PayloadAt(data, off) \in Nat
          /\ HeadEnd(data, off) <= TypeEnd(data, off) /\ TypeEnd(data, off) <= PayloadAt(data, off)
          /\ PayloadAt(data, off) <= end
      BY <1>1, <2>1, <2>3, HeadBounds, RecordBounds
    <3> HIDE DEF data, end, last
    <3>2. CASE in.place < end
      <4>1. NoneEnds(in, off, end - 1)
        <5> SUFFICES ASSUME NoneEnds(in, off, end) PROVE NoneEnds(in, off, end - 1) BY <2>3
        <5>1. \A k \in DOMAIN in.written : in.written[k].end \in Nat BY <1>1, Written
        <5>2. \A m \in Nat : m <= end - 1 => m <= end BY <3>1
        <5> QED BY <5>1, <5>2 DEF NoneEnds
      <4>2. Found
        <5>1. end - 1 \in Nat /\ in.place <= end - 1 BY <1>1, <1>3, <3>1, <3>2
        <5> QED BY <1>1, <1>8, <4>1, <5>1, FoundAt
      <4>3. ASSUME in.cut PROVE ~Complete /\ Size < pos + 2
        <5>1. hi = Size /\ pos = Size BY <1>3, <1>8, <2>1, <2>3, <3>1, <3>2, <4>3 DEF Lesser, last
        <5>2. SUFFICES ASSUME Complete PROVE FALSE BY <1>3, <5>1
        <5>3. off < in.place /\ HeadEnd(in.data, off) <= in.place /\ RecordEnd(in.data, off) <= in.place
          BY <1>1, <1>3, <4>3, <5>1, <5>2 DEF Complete
        <5>4. HeadEnd(data, off) <= in.place BY <1>1, <5>3, SameHead DEF data
        <5>5. RecordEnd(in.data, off) = end BY <1>1, <5>4, SameRecord DEF data, end
        <5> QED BY <1>3, <3>1, <3>2, <5>3, <5>5
      <4>4. in.place <= hi
        <5>1. end <= last /\ last \in Nat BY <2>1, <2>3 DEF last
        <5>2. in.place <= last BY <1>3, <3>1, <3>2, <5>1
        <5>3. hi \in {last, Size} BY <1>8 DEF Lesser, last
        <5> QED BY <1>3, <5>2, <5>3
      <4>5. ASSUME Refuse PROVE in.place <= IdAt
        <5> SUFFICES ASSUME IdAt < in.place PROVE FALSE BY <1>1, <1>3 DEF IdAt
        <5>1. IdAt \in Nat /\ off <= IdAt /\ off < in.place BY <1>1, <1>3 DEF IdAt
        <5>2. HeadEnd(in.data, off) = HeadEnd(data, off) BY <1>1, <5>1, SameHead DEF data
        <5>3. HeadEnd(in.data, off) = IdAt + 1 BY <1>1, <4>5 DEF Refuse, HeadEnd, IdAt, b
        <5>4. IdAt < last BY <2>3, <2>1, <3>1, <5>1, <5>2, <5>3
        <5>5. hi <= IdAt BY <4>5 DEF Refuse
        <5> QED BY <1>1, <1>3, <1>8, <2>1, <5>1, <5>4, <5>5 DEF Lesser, last
      <4>6. ASSUME Complete PROVE in.place <= off'
        <5>1. off' = RecordEnd(in.data, off) BY <1>4, <4>6
        <5>2. in.data \in Bytes /\ HeadEnd(in.data, off) <= Len(in.data)
          BY <1>1, <4>6, HeadBounds, Written DEF Complete, Size, InputOK
        <5>3. /\ off' \in Nat /\ HeadEnd(in.data, off) <= off' /\ HeadEnd(in.data, off) \in Nat
              /\ off + 3 <= HeadEnd(in.data, off)
          BY <1>1, <5>1, <5>2, HeadBounds, RecordBounds
        <5>4. CASE HeadEnd(in.data, off) >= in.place BY <1>3, <5>3, <5>4
        <5>5. CASE HeadEnd(in.data, off) < in.place
          <6>1. off < in.place BY <1>1, <1>3, <5>3, <5>5
          <6>2. HeadEnd(data, off) <= in.place BY <1>1, <1>3, <3>1, <5>5, <6>1, SameHead DEF data
          <6>3. RecordEnd(in.data, off) = end BY <1>1, <6>2, SameRecord DEF data, end
          <6> QED BY <1>3, <3>1, <3>2, <5>1, <6>3
        <5> QED BY <1>3, <5>3, <5>4, <5>5
      <4> QED BY <1>6, <1>8, <4>2, <4>3, <4>4, <4>5, <4>6
    <3>3. CASE end <= in.place
      <4>1. HeadEnd(data, off) <= in.place BY <1>3, <3>1, <3>3
      <4>2. /\ in.data[off + 1] = data[off + 1]
            /\ ~Short(data[off + 1]) => in.data[off + 3] = data[off + 3] /\ in.data[off + 4] = data[off + 4]
            /\ HeadEnd(in.data, off) = HeadEnd(data, off) /\ TypeEnd(in.data, off) = TypeEnd(data, off)
            /\ PayloadAt(in.data, off) = PayloadAt(data, off) /\ RecordEnd(in.data, off) = end
        BY <1>1, <4>1, SameRecord DEF data, end
      <4>3. end <= hi BY <1>3, <1>8, <2>1, <2>3, <3>1, <3>3 DEF Lesser, last
      <4>4. Complete BY <1>1, <2>3, <3>1, <4>2, <4>3 DEF Complete
      <4>5. RecordAt(in.data, off) = RecordAt(data, off)
        <5>1. SubSeq(in.data, HeadEnd(data, off) + 1, TypeEnd(data, off))
                = SubSeq(data, HeadEnd(data, off) + 1, TypeEnd(data, off))
          <6>1. TypeEnd(data, off) <= in.place BY <1>3, <3>1, <3>3
          <6> QED BY <1>1, <3>1, <6>1, SameSlice DEF data
        <5>2. SubSeq(in.data, PayloadAt(data, off) + 1, end) = SubSeq(data, PayloadAt(data, off) + 1, end)
          BY <1>1, <3>1, <3>3, SameSlice DEF data
        <5> QED BY <4>2, <5>1, <5>2 DEF RecordAt, end
      <4>6. off' = end /\ phase' = "record" BY <1>1, <1>4, <4>2, <4>4
      <4>7. off <= end BY <1>1, <3>1
      <4>8. SUFFICES Sequenced' /\ Read(off)'
        <5>1. hi' = Lesser(card.message[off'], Size') /\ pos' = hi' /\ off' \in DOMAIN card.message
          BY <1>1, <1>2, <1>8, <2>3, <4>6 DEF last
        <5> QED BY <1>2, <4>6, <5>1 DEF Tracks, Follows
      <4>9. CASE data[off + 1] % 8 # 2
        <5>1. records' = records BY <1>4, <4>2, <4>4, <4>9
        <5>2. Read(end) BY <1>1, <1>8, <2>3, <3>1, <4>7, <4>9, ReadOn
        <5> QED BY <1>1, <4>6, <5>1, <5>2, SequencedKept DEF Read
      <4>10. CASE data[off + 1] % 8 = 2
        <5> DEFINE n == Len(records) + 1
        <5>1. records' = Append(records, RecordAt(data, off)) BY <1>4, <4>2, <4>4, <4>5, <4>10
        <5>2. NoneEnds(in, off, end - 1) BY <2>3, <4>10
        <5>3. PICK k \in DOMAIN in.written :
                in.written[k] = [rec |-> RecordAt(data, off), end |-> end]
          BY <2>3, <4>10
        <5>4. /\ Len(in.written) \in Nat /\ DOMAIN in.written = 1 .. Len(in.written)
              /\ \A j \in DOMAIN in.written : in.written[j].end \in Nat
              /\ \A i, j \in DOMAIN in.written : i < j => in.written[i].end < in.written[j].end
          BY <1>1, Written DEF InputOK
        <5>5. Len(records) \in Nat /\ DOMAIN records = 1 .. Len(records) BY Indices
        <5>6. in.written[k].end = end /\ in.written[k].rec = RecordAt(data, off) BY <5>3
        <5>7. off < end BY <1>1, <3>1
        <5>8. n <= k BY <1>1, <1>8, <3>1, <5>4, <5>5, <5>6, <5>7 DEF Read
        <5>9. k = n
          <6> SUFFICES ASSUME n < k PROVE FALSE BY <5>4, <5>5, <5>8
          <6>1. n \in DOMAIN in.written BY <5>4, <5>5
          <6>2. in.written[n].end < end BY <5>4, <5>6, <6>1
          <6>3. ~(in.written[n].end <= off) BY <1>8, <5>4, <5>5, <6>1 DEF Read
          <6>4. in.written[n].end \in Nat BY <5>4, <6>1
          <6> HIDE DEF n
          <6>5. off < in.written[n].end /\ in.written[n].end <= end - 1
            BY <1>1, <3>1, <6>2, <6>3, <6>4
          <6> QED BY <5>2, <6>1, <6>5 DEF NoneEnds
        <5>10. n \in Owed BY <3>3, <5>6, <5>9 DEF Owed
        <5>11. Sequenced' BY <1>1, <5>1, <5>10, SequencedGrows
        <5>12. /\ Len(records') = n /\ DOMAIN records' = 1 .. n
               /\ \A j \in DOMAIN records : records'[j] = records[j]
               /\ records'[n] = RecordAt(data, off)
          BY <5>1, Appended
        <5>13. \A j \in DOMAIN in.written : j <= n <=> in.written[j].end <= end
          <6> SUFFICES ASSUME NEW j \in DOMAIN in.written
                       PROVE  j <= n <=> in.written[j].end <= end
            OBVIOUS
          <6>1. CASE j <= n BY <3>1, <5>4, <5>5, <5>6, <5>9, <6>1
          <6>2. CASE ~(j <= n) BY <3>1, <5>4, <5>5, <5>6, <5>9, <6>2
          <6> QED BY <6>1, <6>2
        <5>14. \A j \in DOMAIN records' : records'[j] = in.written[j].rec
          BY <1>8, <5>5, <5>6, <5>9, <5>12 DEF Read
        <5>15. n <= Len(in.written) BY <5>4, <5>9
        <5>16. Read(off)'
          <6> HIDE DEF n
          <6> QED BY <1>1, <4>6, <5>12, <5>13, <5>14, <5>15 DEF Read
        <5> QED BY <5>11, <5>16
      <4> QED BY <4>9, <4>10
    <3> QED BY <1>3, <3>1, <3>2, <3>3
  <2> QED BY <2>1, <2>2, <2>3 DEF RecordLaid
<1> QED BY <1>1, <1>7, <1>8 DEF Follows

LEMMA SelectTracks ==
  ASSUME IInv, Sequenced, NEW card, Tracks(card), Select
  PROVE  Sequenced' /\ Tracks(card)'
<1>1. phase = "select" /\ Found /\ LaidOut(in, card) /\ in' = in /\ records' = records
  BY DEF Tracks, Select
<1>2. Sequenced' /\ Found' /\ LaidOut(in, card)' /\ Firsts(records') = Firsts(records)
  BY <1>1, SequencedKept, FoundKept
<1>3. phase' = "done" BY DEF Select, Return
<1>4. Judged'
  <2>1. CASE records = <<>> /\ Return(Answer("not_found"))
    <3>1. Firsts(records) = {}
      <4>1. DOMAIN records = {} BY <2>1
      <4> QED BY <4>1 DEF Firsts
    <3> QED BY <1>1, <1>2, <2>1, <3>1 DEF Judged, Return, Answer
  <2>2. CASE Firsts(records) = {} /\ Return(Answer("sign_check_err"))
    BY <1>1, <1>2, <2>2 DEF Judged, Return, Answer
  <2>3. CASE \E k \in Firsts(records) : Return([code |-> "ok", rec |-> records[k]])
    BY <1>1, <1>2, <2>3 DEF Judged, Return
  <2> QED BY <2>1, <2>2, <2>3 DEF Select
<1> QED BY <1>2, <1>3, <1>4 DEF Tracks

\* With the readable cards of a writer, Cards, the reader keeps track of one.
TInv(Cards) == IInv /\ Sequenced /\ \E card \in Cards : Tracks(card)

LEMMA TracksInit ==
  ASSUME NEW Cards, \A i \in Inputs : \E card \in Cards : LaidOut(i, card), Init
  PROVE  TInv(Cards)
<1>1. IInv BY InitOK
<1>2. records = <<>> /\ phase = "cc" /\ in \in Inputs BY DEF Init
<1>3. Sequenced
  <2>1. DOMAIN records = {} BY <1>2
  <2> QED BY <1>2, <2>1 DEF Sequenced, Entries
<1>4. PICK card \in Cards : LaidOut(in, card) BY <1>2
<1>5. Tracks(card) BY <1>2, <1>4 DEF Tracks
<1> QED BY <1>1, <1>3, <1>4, <1>5 DEF TInv

LEMMA TracksStep ==
  ASSUME NEW Cards, TInv(Cards), [Next]_vars
  PROVE  TInv(Cards)'
<1>1. IInv /\ IInv' /\ Sequenced BY StepOK DEF TInv
<1>2. PICK card \in Cards : Tracks(card) BY DEF TInv
<1>3. Sequenced' /\ Tracks(card)'
  <2>1. CASE FindContainer BY <1>1, <1>2, <2>1, FindContainerTracks
  <2>2. CASE ReadTlv BY <1>1, <1>2, <2>2, ReadTlvTracks
  <2>3. CASE ReadRecord BY <1>1, <1>2, <2>3, ReadRecordTracks
  <2>4. CASE Select BY <1>1, <1>2, <2>4, SelectTracks
  <2>5. CASE UNCHANGED vars
    <3>1. UNCHANGED <<in, phase, pos, off, hi, records, result>> BY <2>5 DEF vars
    <3>2. Sequenced' BY <1>1, <3>1, SequencedKept
    <3>3. Tracks(card)'
      BY <1>2, <3>1 DEF Tracks, Follows, Read, Found, Owed, Judged, Size, Lesser, Firsts,
                              RefusedAtId, IdAt, b
    <3> QED BY <3>2, <3>3
  <2> QED BY <2>1, <2>2, <2>3, <2>4, <2>5 DEF Next
<1> QED BY <1>1, <1>3 DEF TInv

LEMMA TracksAlways ==
  ASSUME NEW Cards, \A i \in Inputs : \E card \in Cards : LaidOut(i, card)
  PROVE  Spec => []TInv(Cards)
<1>1. Init => TInv(Cards) BY TracksInit
<1>2. TInv(Cards) /\ [Next]_vars => TInv(Cards)' BY TracksStep
<1> QED BY <1>1, <1>2, PTL DEF Spec

--------------------------------------------------------------------------------

\* A message that is walked lies in the memory and its offset in the message,
\* whatever bytes the card holds.
THEOREM StaysInsideAlways == Spec => []StaysInside
<1>1. IInv => StaysInside BY DEF IInv
<1> QED BY <1>1, Inductive, PTL

\* No turn of a loop leaves its offset where it was: a block takes two bytes or
\* more, a record three, and both loops are left at the end of the memory.
THEOREM TurnsMoveOn == Spec => MovesOn
<1> DEFINE Moves == /\ phase = "tlv" => phase' = "select" \/ (pos + 2 <= Size /\ pos + 2 <= pos')
                    /\ phase = "record" => /\ pos' = pos
                                           /\ \/ phase' \in {"tlv", "done"}
                                              \/ phase' = "record" /\ off + 3 <= off' /\ off' <= Size
<1>1. IInv /\ [Next]_vars => [Moves]_vars
  <2> SUFFICES ASSUME IInv, Next PROVE Moves OBVIOUS
  <2>1. CASE FindContainer BY <2>1 DEF FindContainer
  <2>2. CASE ReadTlv BY <2>2, ReadTlvOK DEF ReadTlv
  <2>3. CASE ReadRecord BY <2>3, ReadRecordOK DEF ReadRecord
  <2>4. CASE Select BY <2>4, SelectOK
  <2> QED BY <2>1, <2>2, <2>3, <2>4 DEF Next
<1> QED BY <1>1, Inductive, PTL DEF Spec, MovesOn

\* Of cards that a writer of NDEF laid out, of any number and size and with any bytes
\* behind the place where the memory is cut or damaged, every record in front of that
\* place is found, and behind a cut none is, whenever the walk comes to its end.
THEOREM FindsWhatIsWritten ==
  ASSUME NEW Cards, \A i \in Inputs : \E card \in Cards : LaidOut(i, card)
  PROVE  Spec => []FindsWhatIsThere
<1>1. TInv(Cards) => FindsWhatIsThere
  <2> SUFFICES ASSUME NEW card, Tracks(card), phase = "done", result.code \in {"ok", "sign_check_err", "not_found"}
               PROVE  Found
    BY DEF TInv, FindsWhatIsThere, Found
  <2>1. Judged BY DEF Tracks
  <2> QED BY <2>1 DEF Judged
<1> QED BY <1>1, TracksAlways, PTL

\* And of these cards the first usable record in front of the place is the one taken,
\* unless an id length at or behind the place has left its message.
THEOREM FirstIsTaken ==
  ASSUME NEW Cards, \A i \in Inputs : \E card \in Cards : LaidOut(i, card)
  PROVE  Spec => []TakesTheFirst
<1>1. TInv(Cards) => TakesTheFirst
  <2> SUFFICES ASSUME InputOK(in), Sequenced, NEW card, Tracks(card), phase = "done",
                      NEW k \in Owed, Usable(in.written[k].rec)
               PROVE  \/ result.code = "err" /\ RefusedAtId
                      \/ \E i \in Owed : /\ result = [code |-> "ok", rec |-> in.written[i].rec]
                                         /\ \A j \in 1 .. i - 1 : ~Usable(in.written[j].rec)
    BY DEF TInv, IInv, Offsets, TakesTheFirst
  <2>1. Judged BY DEF Tracks
  <2>2. CASE Found /\ Firsts(records) = {} BY <2>2 DEF Sequenced, Found
  <2>3. ASSUME Found, NEW i \in Firsts(records), result = [code |-> "ok", rec |-> records[i]]
        PROVE  \E n \in Owed : /\ result = [code |-> "ok", rec |-> in.written[n].rec]
                               /\ \A j \in 1 .. n - 1 : ~Usable(in.written[j].rec)
    <3>1. /\ DOMAIN in.written = 1 .. Len(in.written) /\ Len(in.written) \in Nat /\ in.place \in Nat
          /\ \A m \in DOMAIN in.written : in.written[m].end \in Nat
          /\ \A m, n \in DOMAIN in.written : m < n => in.written[m].end < in.written[n].end
      BY Written DEF InputOK
    <3>2. k \in DOMAIN records /\ Usable(records[k]) /\ k \in DOMAIN in.written
      BY <2>3 DEF Found, Owed
    <3>3. Len(records) \in Nat /\ DOMAIN records = 1 .. Len(records) BY Indices
    <3>4. i \in DOMAIN records /\ Usable(records[i]) /\ \A j \in 1 .. i - 1 : ~Usable(records[j])
      BY <2>3 DEF Firsts
    <3>5. i <= k BY <3>2, <3>3, <3>4
    <3>6. \A m \in 1 .. i : m \in Owed
      <4> SUFFICES ASSUME NEW m \in 1 .. i PROVE m \in Owed OBVIOUS
      <4>1. m \in DOMAIN in.written /\ (m = k \/ m < k) BY <3>1, <3>2, <3>3, <3>4, <3>5
      <4>2. in.written[m].end <= in.written[k].end BY <3>1, <3>2, <4>1
      <4>3. in.written[k].end <= in.place BY DEF Owed
      <4> QED BY <3>1, <3>2, <4>1, <4>2, <4>3 DEF Owed
    <3>7. \A m \in 1 .. i : records[m] = in.written[m].rec BY <2>3, <3>6 DEF Found
    <3>8. i \in 1 .. i /\ \A j \in 1 .. i - 1 : j \in 1 .. i BY <3>3, <3>4
    <3> QED BY <2>3, <3>4, <3>6, <3>7, <3>8
  <2> QED BY <2>1, <2>2, <2>3 DEF Judged
<1> QED BY <1>1, TracksAlways, PTL
================================================================================
