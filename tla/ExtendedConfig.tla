---------------------------- MODULE ExtendedConfig ----------------------------
(***************************************************************************)
(* The edits of extended-config.py on the lines of extended2.cfg, and what *)
(* its "get", Python's configparser, reads from them. A line is a header, a*)
(* key, prose or blank; "on" is FALSE when it is commented out.            *)
(***************************************************************************)
EXTENDS Naturals, Sequences
LOCAL INSTANCE FiniteSets
LOCAL INSTANCE FiniteSetsExt

Header(s) == [kind |-> "header", name |-> s, val |-> "", on |-> TRUE]
Key(k, v) == [kind |-> "key", name |-> k, val |-> v, on |-> TRUE]
Prose     == [kind |-> "prose", name |-> "", val |-> "", on |-> FALSE]
Blank     == [kind |-> "blank", name |-> "", val |-> "", on |-> TRUE]
Off(line) == [line EXCEPT !.on = FALSE]

IsHeader(line) == line.kind = "header" /\ line.on
IsKey(line)    == line.kind = "key" /\ line.on

FirstOf(S, otherwise) == IF S = {} THEN otherwise ELSE Min(S)

\* list.insert: before line n.
Inserted(f, n, line) == SubSeq(f, 1, n - 1) \o <<line>> \o SubSeq(f, n, Len(f))

\* An edit ends in new lines to write, in nothing to do, or in exit status 1.
Write(f) == [ok |-> TRUE, write |-> TRUE, lines |-> f]
Nothing  == [ok |-> TRUE, write |-> FALSE, lines |-> <<>>]
Failed   == [ok |-> FALSE, write |-> FALSE, lines |-> <<>>]

--------------------------------------------------------------------------------

\* The section set_value looks at: from its first header (0: none) to the next
\* header or blank line.
SectionAt(f, s) == FirstOf({i \in DOMAIN f : IsHeader(f[i]) /\ f[i].name = s}, 0)
SectionEnd(f, h) ==
  FirstOf({i \in h + 1 .. Len(f) : IsHeader(f[i]) \/ f[i].kind = "blank"}, Len(f) + 1)
KeyLines(f, s, k) ==
  LET h == SectionAt(f, s)
  IN  {i \in h + 1 .. SectionEnd(f, h) - 1 : IsKey(f[i]) /\ f[i].name = k}

(* Mutant of SetValue: a key that is there keeps its value.                  *)
SetValue_KeepsOld(f, s, k, v) ==
  LET h == SectionAt(f, s)
  IN  IF h = 0 THEN Write(f \o <<Blank, Header(s), Key(k, v)>>)
      ELSE IF KeyLines(f, s, k) = {} THEN Write(Inserted(f, SectionEnd(f, h), Key(k, v)))
      ELSE Write(f)

\* set_value for "add": replace the key, or put it at the end of its section.
SetValue(f, s, k, v) ==
  LET h == SectionAt(f, s)
      at == KeyLines(f, s, k)
  IN  IF h = 0
      THEN Write(f \o (IF f = <<>> THEN <<>> ELSE <<Blank>>) \o <<Header(s), Key(k, v)>>)
      ELSE IF at = {} THEN Write(Inserted(f, SectionEnd(f, h), Key(k, v)))
      ELSE IF Cardinality(at) > 1 THEN Failed
      ELSE Write([f EXCEPT ![Min(at)] = Key(k, v)])

(* Mutant of Paragraph: to the end of the file.                              *)
Paragraph_WholeFile(f, h) == h .. Len(f)

\* The paragraph that comment and uncomment work on: to the first blank line.
Paragraph(f, h) == h .. FirstOf({i \in h .. Len(f) : f[i].kind = "blank"}, Len(f) + 1) - 1

CommentSection(f, s) ==
  LET h == SectionAt(f, s)
      par == Paragraph(f, h)
  IN  IF h = 0 THEN Nothing
      ELSE Write([i \in DOMAIN f |-> IF i \in par THEN Off(f[i]) ELSE f[i]])

\* Every commented line of the paragraph, prose too, loses its comment sign.
UncommentSection(f, s) ==
  LET h == FirstOf({i \in DOMAIN f : f[i].kind = "header" /\ ~f[i].on /\ f[i].name = s}, 0)
      par == Paragraph(f, h)
  IN  IF h = 0 THEN Nothing
      ELSE Write([i \in DOMAIN f |-> IF i \in par THEN [f[i] EXCEPT !.on = TRUE] ELSE f[i]])

--------------------------------------------------------------------------------
(* configparser, strict: a section goes on over blank lines.                 *)

SectionOf(f, i) == LET hs == {h \in 1 .. i - 1 : IsHeader(f[h])}
                   IN  IF hs = {} THEN "" ELSE f[Max(hs)].name

Readable(f) ==
  /\ \A i \in DOMAIN f : ~(f[i].kind = "prose" /\ f[i].on)
  /\ \A i \in DOMAIN f : IsKey(f[i]) => SectionOf(f, i) # ""
  /\ \A i, j \in DOMAIN f : i # j =>
       /\ ~(IsHeader(f[i]) /\ IsHeader(f[j]) /\ f[i].name = f[j].name)
       /\ ~(/\ IsKey(f[i]) /\ IsKey(f[j]) /\ f[i].name = f[j].name
            /\ SectionOf(f, i) = SectionOf(f, j))

\* get_value: no output and exit status 1 when the file does not parse.
GetValue(f, s, k, default) ==
  LET at == {i \in DOMAIN f : IsKey(f[i]) /\ f[i].name = k /\ SectionOf(f, i) = s}
  IN  IF ~Readable(f) THEN "" ELSE IF at = {} THEN default ELSE f[Min(at)].val
================================================================================
