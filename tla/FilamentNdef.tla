----------------------------- MODULE FilamentNdef -----------------------------
(***************************************************************************)
(* How filament_protocol_ndef.py reads the memory of an NTAG card: find the*)
(* capability container, walk the TLV blocks, walk the records of each NDEF*)
(* message, and take the first OpenSpool record. One step is one turn of a *)
(* loop. The memory may end early or hold a wrong byte.                    *)
(***************************************************************************)
EXTENDS Naturals, Sequences

CONSTANTS
  Inputs,         \* memories to read: bytes, and the card they come from
  Json,           \* bytes of the MIME type application/json
  GoodPayload(_)  \* openspool_parse_payload accepts these bytes

Byte == 0 .. 255
Bytes == Seq(Byte)

\* A card as written: its records of known MIME types, and the offset behind
\* each, ascending. Its memory is read whole up to byte "place"; what follows is missing
\* when cut, and else holds one byte at place that may be wrong.
Records == [type : Bytes, payload : Bytes]
InputOK(in) ==
  /\ in.data \in Bytes /\ Len(in.data) < 2^16
  /\ in.written \in Seq([rec : Records, end : Nat])
  /\ \A i, j \in DOMAIN in.written : i < j => in.written[i].end < in.written[j].end
  /\ in.place \in Nat /\ in.cut \in BOOLEAN

ASSUME NdefAssumption == \A in \in Inputs : InputOK(in)

VARIABLES
  in,      \* the input
  phase,   \* the loop that runs
  pos,     \* data_io: offset of the next TLV block
  off, hi, \* ndef_offset in the message and the message's end, as offsets of data
  records, \* the records found
  result   \* what the call ends with: a code, and the record taken

vars == <<in, phase, pos, off, hi, records, result>>

\* ndef_proto_data_parse answers FILAMENT_PROTO_ERR to both NDEF_ERR ("err") and
\* NDEF_NOT_FOUND_ERR of ndef_parse.
Codes == {"", "ok", "err", "not_found", "sign_check_err", "raises"}
NoRecord == [type |-> <<>>, payload |-> <<>>]

Answer(code) == [code |-> code, rec |-> NoRecord]

TypeOK ==
  /\ InputOK(in) /\ phase \in {"cc", "tlv", "record", "select", "done"}
  /\ {pos, off, hi} \subseteq Nat
  /\ records \in Seq(Records)
  /\ result \in [code : Codes, rec : Records]

Init ==
  /\ in \in Inputs /\ phase = "cc"
  /\ pos = 0 /\ off = 0 /\ hi = 0
  /\ records = <<>> /\ result = Answer("")

Size == Len(in.data)
b(i) == in.data[i + 1]
Lesser(m, n) == IF m < n THEN m ELSE n

Return(answer) == phase' = "done" /\ result' = answer

--------------------------------------------------------------------------------

\* Behind the UID pages a container starts with E1 and a known version.
Container(i) == b(i) = 225 /\ b(i + 1) \in {16, 17, 64}

StartOffset ==
  LET at == {i \in 0 .. Size - 5 : i < 16 /\ Container(i)}
  IN  IF Size > 12 /\ b(0) # 225 /\ at # {}
      THEN CHOOSE i \in at : \A j \in at : i <= j ELSE 0

\* Without one the error has two values, and the caller unpacks three.
FindContainer ==
  LET s == StartOffset IN
  /\ phase = "cc"
  /\ IF Size < s + 4 \/ b(s) # 225
     THEN Return(Answer("raises")) /\ UNCHANGED pos
     ELSE phase' = "tlv" /\ pos' = s + 4 /\ UNCHANGED result
  /\ UNCHANGED <<in, off, hi, records>>

(* Mutant of BodyAt: the extended length's own bytes are not skipped.        *)
BodyAt_Short(p) == p + 2

LongForm(p) == b(p + 1) = 255
BodyAt(p) == IF LongForm(p) THEN p + 4 ELSE p + 2
BodyLen(p) == IF LongForm(p) THEN b(p + 2) * 256 + b(p + 3) ELSE b(p + 1)

\* The next TLV block: a message (3), another block, or the end.
ReadTlv ==
  /\ phase = "tlv"
  /\ IF Size < pos + 2 \/ b(pos) = 254 \/ (LongForm(pos) /\ Size < pos + 4)
     THEN phase' = "select" /\ UNCHANGED <<pos, off, hi>>
     ELSE LET from == BodyAt(pos)
              to == from + BodyLen(pos)
          IN  IF b(pos) = 3
              THEN /\ phase' = "record"
                   /\ off' = from /\ hi' = Lesser(to, Size) /\ pos' = hi'
              ELSE pos' = to /\ UNCHANGED <<phase, off, hi>>
  /\ UNCHANGED <<in, records, result>>

Short(header) == (header \div 16) % 2 = 1
HasId(header) == (header \div 8) % 2 = 1

(* Mutant of Overruns: a record may run over the end of its message.         *)
Overruns_Data(end) == end > Size

Overruns(end) == end > hi

\* The type is decoded as ASCII and bytes that are not ASCII are dropped.
Ascii(bytes) == SelectSeq(bytes, LAMBDA x : x < 128)
Slice(from, to) == SubSeq(in.data, from + 1, to)

(* Mutant of Leave: a record that breaks off is tried again.                 *)
Leave_Stays == UNCHANGED <<phase, off, records, result>>

Leave == phase' = "tlv" /\ UNCHANGED <<off, records, result>>

\* Where the id length of the record at off is, if it has one.
IdAt == IF Short(b(off)) THEN off + 3 ELSE off + 6

\* The next record: header, lengths of type, payload and id, then those three.
\* A length of 2^16 and more overruns every card.
ReadRecord ==
  LET short == Short(b(off))
      typeLen == b(off + 1)
      payLen == IF short THEN b(off + 2) ELSE b(off + 4) * 256 + b(off + 5)
      body == IF HasId(b(off)) THEN IdAt + 1 ELSE IdAt
      idLen == IF HasId(b(off)) THEN b(IdAt) ELSE 0
      pay == body + typeLen + idLen
      end == pay + payLen
  IN
  /\ phase = "record"
  /\ IF off + 2 >= hi \/ (~short /\ off + 6 > hi) THEN Leave
     ELSE IF HasId(b(off)) /\ IdAt >= hi
     THEN Return(Answer("err")) /\ records' = <<>> /\ UNCHANGED off   \* IndexError
     ELSE IF (~short /\ b(off + 2) + b(off + 3) > 0) \/ Overruns(end) THEN Leave
     ELSE /\ off' = end
          /\ records' = IF b(off) % 8 # 2 THEN records
                        ELSE Append(records, [type |-> Ascii(Slice(body, body + typeLen)),
                                              payload |-> Slice(pay, end)])
          /\ UNCHANGED <<phase, result>>
  /\ UNCHANGED <<in, pos, hi>>

Usable(rec) == rec.type = Json /\ GoodPayload(rec.payload)

(* Mutant of Firsts: a later spool replaces an earlier one.                  *)
Firsts_Last(recs) == {i \in DOMAIN recs : Usable(recs[i]) /\ \A j \in DOMAIN recs : j > i => ~Usable(recs[j])}

Firsts(recs) == {i \in DOMAIN recs : Usable(recs[i]) /\ \A j \in 1 .. i - 1 : ~Usable(recs[j])}

\* ndef_proto_data_parse over what was found.
Select ==
  /\ phase = "select"
  /\ IF records = <<>> THEN Return(Answer("not_found"))
     ELSE IF Firsts(records) = {} THEN Return(Answer("sign_check_err"))
     ELSE \E i \in Firsts(records) : Return([code |-> "ok", rec |-> records[i]])
  /\ UNCHANGED <<in, pos, off, hi, records>>

Next == FindContainer \/ ReadTlv \/ ReadRecord \/ Select

\* A call runs until it returns.
Spec == Init /\ [][Next]_vars /\ WF_vars(Next)

--------------------------------------------------------------------------------
(* Properties                                                                *)

\* The reader stays inside the memory: a message it walks lies in it and its
\* offset in the message. Only then do the slices of Python hold what they say.
StaysInside == phase = "record" => off <= hi /\ hi <= Size

\* The records that lie before the place, the first ones of those written.
Owed == {i \in DOMAIN in.written : in.written[i].end <= in.place}

\* Records that lie before the place where the memory ends or is damaged are
\* found, in order, and behind the end of a memory cut short nothing is: whenever
\* the walk comes to its end, with a spool, with other records or with none.
FindsWhatIsThere ==
  (phase = "done" /\ result.code \in {"ok", "sign_check_err", "not_found"}) =>
    /\ \A i \in Owed : i \in DOMAIN records /\ records[i] = in.written[i].rec
    /\ in.cut => DOMAIN records \subseteq Owed

\* The walk ended at a record whose id length lies behind its message, and not
\* before the place.
RefusedAtId == HasId(b(off)) /\ hi <= IdAt /\ in.place <= IdAt

\* A usable record that lies before the place is the one taken. Only one thing
\* behind the place can keep it from that: a record whose id length is not in the
\* message any more, for which the parser refuses the card with all it has found.
\* A card that is whole is never refused.
TakesTheFirst ==
  (phase = "done" /\ \E i \in Owed : Usable(in.written[i].rec)) =>
    \/ result.code = "err" /\ RefusedAtId
    \/ \E i \in Owed :
         /\ result = [code |-> "ok", rec |-> in.written[i].rec]
         /\ \A j \in 1 .. i - 1 : ~Usable(in.written[j].rec)

\* Every call returns, whatever the bytes: each turn of a loop moves on.
Returns == <>(phase = "done")
================================================================================
