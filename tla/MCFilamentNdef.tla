---- MODULE MCFilamentNdef ----
EXTENDS FilamentNdefProofs, SequencesExt

\* Stand-ins of two bytes for the MIME types, of one or two for the payloads.
MCJson == <<106, 115>>
MCGood(payload) == payload # <<>> /\ payload[1] = 123

Rec(short, id, tnf, type, payload) ==
  [short |-> short, id |-> id, tnf |-> tnf, type |-> type, payload |-> payload]
Spool == Rec(TRUE, <<>>, 2, MCJson, <<123, 1>>)
Other == Rec(TRUE, <<>>, 2, <<104>>, <<2>>)
Bad == Rec(TRUE, <<7>>, 2, MCJson, <<9>>)
Long == Rec(FALSE, <<>>, 2, MCJson, <<123, 4>>)
LongId == Rec(FALSE, <<3, 3>>, 2, MCJson, <<123, 5>>)
Uri == Rec(TRUE, <<>>, 1, <<85>>, <<123, 3>>)
Empty == Rec(TRUE, <<8>>, 2, MCJson, <<>>)

\* What a writer of NDEF puts down for a record.
RecordBytes(r) ==
  LET flags == 192 + (IF r.short THEN 16 ELSE 0) + (IF r.id # <<>> THEN 8 ELSE 0)
      len == IF r.short THEN <<Len(r.payload)>> ELSE <<0, 0, 0, Len(r.payload)>>
      idLen == IF r.id = <<>> THEN <<>> ELSE <<Len(r.id)>>
  IN  <<flags + r.tnf, Len(r.type)>> \o len \o idLen \o r.type \o r.id \o r.payload

\* A record laid behind the card; one of TNF 2 counts as written, with its end.
Lay(card, r, message) ==
  LET data == card.data \o RecordBytes(r) IN
  [card EXCEPT !.data = data,
               !.written = IF r.tnf # 2 THEN @
                           ELSE Append(@, [rec |-> [type |-> r.type, payload |-> r.payload],
                                           end |-> Len(data)]),
               !.message = @ @@ (Len(data) :> message)]

Message(recs) == [tag |-> 3, long |-> FALSE, recs |-> recs]
LongMessage(recs) == [tag |-> 3, long |-> TRUE, recs |-> recs]
Lock == [tag |-> 1, long |-> FALSE, recs |-> <<>>]

LayBlock(card, block) ==
  LET len == Len(FoldLeft(LAMBDA s, r : s \o RecordBytes(r), <<>>, block.recs))
      head == IF block.tag # 3 THEN <<block.tag, 3, 160, 16, 68>>
              ELSE IF block.long THEN <<3, 255, 0, len>> ELSE <<3, len>>
      from == Len(card.data) + Len(head)
      begun == [card EXCEPT !.data = @ \o head, !.blocks = @ \cup {from + len},
                            !.message = IF block.tag = 3 THEN @ @@ (from :> from + len) ELSE @]
  IN  FoldLeft(LAMBDA c, r : Lay(c, r, from + len), begun, block.recs)

\* A card: the pages of the UID (dumps may lack them), the container, blocks.
Uid == <<4, 17, 2, 99, 5, 6, 7, 8, 12, 72, 0, 0>>
Card(uid, blocks) ==
  LET start == Len(uid)
      laid == FoldLeft(LayBlock,
                [data |-> uid \o <<225, 16, 18, 0>>, written |-> <<>>, start |-> start,
                 blocks |-> {start + 4}, message |-> <<>>], blocks)
  IN  [laid EXCEPT !.data = @ \o <<254, 0>>]

Layouts == {
  <<Message(<<Spool>>)>>,
  <<Lock, Message(<<Uri, Bad, Long, Spool>>)>>,
  <<LongMessage(<<Other, LongId>>), Message(<<Spool>>)>>,
  <<Message(<<Empty, Bad>>), Lock, Message(<<Long, Uri>>)>>,
  <<Message(<<>>), LongMessage(<<Spool, Other, Bad>>)>>}
Cards == {Card(uid, blocks) : uid \in {<<>>, Uid}, blocks \in Layouts}

Whole(c) == [data |-> c.data, written |-> c.written, place |-> Len(c.data), cut |-> TRUE]
Cut(c, n) == [data |-> SubSeq(c.data, 1, n), written |-> c.written, place |-> n, cut |-> TRUE]
Wrong(c, n, v) == [data |-> [c.data EXCEPT ![n + 1] = v], written |-> c.written,
                   place |-> n, cut |-> FALSE]
\* A write broke off at n: behind it is what the card held before.
Over(c, old, n) == [data |-> SubSeq(c.data, 1, n) \o SubSeq(old.data, n + 1, Len(old.data)),
                    written |-> c.written, place |-> n, cut |-> FALSE]

WrongBytes == {0, 1, 3, 8, 26, 254, 255}
MCInputs ==
  {Whole(c) : c \in Cards}
  \cup UNION {{Cut(c, n) : n \in 0 .. Len(c.data) - 1} : c \in Cards}
  \cup UNION {{Wrong(c, n, v) : n \in 0 .. Len(c.data) - 1, v \in WrongBytes} : c \in Cards}
  \cup UNION {{Over(c, old, n) : n \in 0 .. Len(c.data) - 1} : c \in Cards, old \in Cards}

\* The cards are laid out as the theorems assume.
ASSUME CardsAreLaidOut == \A i \in MCInputs : \E card \in Cards : LaidOut(i, card)
====
