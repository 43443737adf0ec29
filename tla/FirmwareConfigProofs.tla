-------------------------- MODULE FirmwareConfigProofs --------------------------
(***************************************************************************)
(* For any number of request threads. Uploads: the installer gets the whole*)
(* file of its own request unless uploads overlapped, and no file is left  *)
(* behind, whether or not clients waited for their installers, but by one  *)
(* that left early. Settings: extended2.cfg stays readable and shows what  *)
(* was set, from any file that is laid out as the delivered one is, until  *)
(* edits overlap or are cut or the metrics setting is used.                *)
(***************************************************************************)
EXTENDS FirmwareConfig, FiniteSetTheorems, SequenceTheorems, WellFoundedInduction, TLAPS
LOCAL INSTANCE FiniteSets
LOCAL INSTANCE FiniteSetsExt

Uploads == {"unlink", "open", "flock", "receive", "close", "start", "run", "remove"}
Changes == {"edit", "truncate", "write"}
Opts == (STRING \X STRING) \cup {<<>>}
Halves == (Threads \cup {None}) \X (Threads \cup {None})

\* A thread's record; what it has got is a list of lines.
Reqs(G) == [at : Uploads \cup Changes \cup {"idle"}, opt : Opts, op : Nat, got : G,
            fd : Files \cup {None}]
Formed == \E G : req \in [Threads -> Reqs(G)]

Insts == [at : {"off", "look", "unzip", "move", "size", "scrap", "small", "install", "installed"},
          full : BOOLEAN, got : Halves \cup {<<>>}]

Types == /\ Formed /\ path \in Files \cup {None} /\ body \in [Files -> Halves]
         /\ inst \in [Threads -> Insts] /\ tmp \subseteq Threads /\ crowd \subseteq Threads

\* What a thread holds open and what its installer does fit what it is at itself: an
\* installer that unpacks while its request no longer listens has left something.
Held(r) ==
  /\ req[r].at \in {"flock", "receive", "close"} => req[r].fd \in Files
  /\ req[r].at = "receive" => req[r].op \in {1, 2}
  /\ inst[r].at # "off" => req[r].at \in {"run", "remove", "idle"}
  /\ inst[r].at = "look" => req[r].at = "run"
  /\ inst[r].at \in {"unzip", "move"} => req[r].at = "run" \/ left

\* Uploads carry no option, changes do.
Kinds ==
  \A r \in Threads :
    /\ req[r].at \in Uploads \cup {"idle"} => req[r].opt = <<>>
    /\ req[r].at \in Changes => req[r].opt # <<>>
    /\ Held(r)

Holding == {"flock", "receive", "close", "start", "run", "remove"}

\* A file at upload_path belongs to an upload under way, or has been left.
Kept == path # None => left \/ \E r \in Threads : req[r].at \in Holding

Busy(r) == req[r].at \in Uploads \/ inst[r].at # "off"

Crowds == \A r, q \in Threads : r # q /\ Busy(r) /\ Busy(q) => r \in crowd

Sent(r) == <<r, "sent">>
ReadsPath == {"look", "unzip", "move", "size", "install"}

\* How far the upload of a thread has come whose upload nobody else's overlaps.
Received(r) ==
  /\ req[r].at = "open" => path = None
  /\ req[r].at \in {"flock", "receive", "close"} => req[r].fd = Sent(r)
  /\ req[r].at \in {"flock", "receive", "close", "start"} =>
       path = Sent(r) /\ body[Sent(r)] \in {None, r} \X {None, r}
  /\ req[r].at = "receive" /\ req[r].op = 2 => body[Sent(r)][1] = r
  /\ req[r].at \in {"close", "start"} /\ req[r].op = 2 => body[Sent(r)] = <<r, r>>

\* And how far its installer has: what it will read is the upload's or, once the
\* request is over, may be gone.
Taken(r) ==
  /\ inst[r].at \in ReadsPath =>
       /\ req[r].at \in {"run", "remove"} => path # None
       /\ path # None => /\ body[path] \in {None, r} \X {None, r}
                         /\ inst[r].full => body[path] = <<r, r>>
  /\ inst[r].at = "unzip" => tmp = {}
  /\ inst[r].at = "move" => tmp = {r}
  /\ inst[r].at = "installed" /\ inst[r].full =>
       inst[r].got = <<r, r>> \/ (inst[r].got = <<>> /\ req[r].at = "idle")

Mine(r) == Received(r) /\ Taken(r)
Own == \A r \in Threads \ crowd : Mine(r)

IInv == Types /\ Kinds /\ Kept /\ Crowds /\ Own

--------------------------------------------------------------------------------

LEMMA PairIs == ASSUME NEW x \in Halves, NEW r, x[1] = r, x[2] = r PROVE x = <<r, r>>
  BY DEF Halves

LEMMA PairSet ==
  ASSUME NEW x \in Halves, NEW n \in {1, 2}, NEW r \in Threads
  PROVE  /\ [x EXCEPT ![n] = r] \in Halves /\ [x EXCEPT ![n] = r][n] = r
         /\ \A m \in {1, 2} \ {n} : [x EXCEPT ![n] = r][m] = x[m]
<1>1. CASE n = 1 BY <1>1 DEF Halves
<1>2. CASE n = 2 BY <1>2 DEF Halves
<1> QED BY <1>1, <1>2

LEMMA PairOpt == ASSUME NEW o \in STRING \X STRING PROVE o # <<>>
  OBVIOUS

\* A step of r gives it the record x and leaves the other threads alone.
Becomes(r, x) == Formed' /\ req'[r] = x /\ \A q \in Threads \ {r} : req'[q] = req[q]

LEMMA BecomesOK ==
  ASSUME NEW G, req \in [Threads -> Reqs(G)], NEW H, NEW r \in Threads, NEW x \in Reqs(H),
         req' = [req EXCEPT ![r] = x]
  PROVE  Becomes(r, x)
<1>1. G \subseteq G \cup H /\ H \subseteq G \cup H OBVIOUS
<1>2. Reqs(G) \subseteq Reqs(G \cup H) /\ Reqs(H) \subseteq Reqs(G \cup H) BY <1>1 DEF Reqs
<1>3. req' \in [Threads -> Reqs(G \cup H)] BY <1>2
<1> QED BY <1>3 DEF Becomes, Formed

LEMMA RestOK == Rest \in Reqs({<<>>}) /\ Rest.at = "idle" /\ Rest.opt = <<>>
  BY DEF Rest, Reqs, Opts

LEMMA EndedOK == Ended \in Insts /\ Ended.at = "off"
  BY DEF Ended, Insts

LEMMA InitOK == ASSUME Init PROVE IInv
<1>1. \A r \in Threads : req[r] = Rest BY DEF Init
<1>2. Formed
  <2>1. req \in [Threads -> Reqs({<<>>})] BY RestOK DEF Init
  <2> QED BY <2>1 DEF Formed
<1>3. \A r \in Threads : inst[r].at = "off" BY DEF Init, Ended
<1>4. Types
  <2>1. inst \in [Threads -> Insts] BY EndedOK DEF Init
  <2> QED BY <1>2, <2>1 DEF Init, Types, Halves
<1>5. \A r \in Threads : req[r].at = "idle" /\ req[r].opt = <<>> BY <1>1, RestOK
<1> QED BY <1>3, <1>4, <1>5
  DEF Init, IInv, Kinds, Held, Kept, Crowds, Own, Mine, Received, Taken, ReadsPath, Busy, Uploads, Changes

\* What each step of an upload does to its thread.
LEMMA UploadMoves ==
  ASSUME IInv, NEW r \in Threads, AskUpload(r) \/ UploadStep(r)
  PROVE  /\ Formed' /\ \A q \in Threads \ {r} : req'[q] = req[q]
         /\ req'[r].at \in Uploads \cup {"idle"} /\ req'[r].opt = <<>>
         /\ req[r].opt = <<>>
<1> PICK G : req \in [Threads -> Reqs(G)] BY DEF IInv, Types, Formed
<1>0. req[r] \in Reqs(G) OBVIOUS
<1>1. req[r].opt = <<>>
  BY DEF IInv, Kinds, AskUpload, UploadStep, Unlink, Open, Flock, Receive, Reset, Close,
     StartStream, StreamEnds, Remove, At, Uploads
<1>2. \A a \in Uploads : [req[r] EXCEPT !.at = a] \in Reqs(G) /\ [req[r] EXCEPT !.at = a].at = a
                         /\ [req[r] EXCEPT !.at = a].opt = <<>>
  BY <1>0, <1>1 DEF Reqs
<1>3. ASSUME NEW a \in Uploads, Go(r, a)
      PROVE  Formed' /\ (\A q \in Threads \ {r} : req'[q] = req[q]) /\ req'[r].at = a /\ req'[r].opt = <<>>
  <2>1. req' = [req EXCEPT ![r] = [req[r] EXCEPT !.at = a]] BY <1>3 DEF Go
  <2> QED BY <1>2, <2>1, BecomesOK DEF Becomes
<1>4. ASSUME End(r)
      PROVE  Formed' /\ (\A q \in Threads \ {r} : req'[q] = req[q]) /\ req'[r] = Rest
  <2>1. req' = [req EXCEPT ![r] = Rest] BY <1>4 DEF End
  <2> QED BY <2>1, RestOK, BecomesOK DEF Becomes
<1> USE DEF Uploads
<1>5. CASE AskUpload(r) \/ Unlink(r) \/ StreamEnds(r)
  BY <1>1, <1>3, <1>5 DEF AskUpload, Unlink, StreamEnds
<1>6. CASE Reset(r) \/ Remove(r) BY <1>1, <1>4, <1>6, RestOK DEF Reset, Remove
<1>7. CASE StartStream(r) BY <1>1, <1>3, <1>4, <1>7, RestOK DEF StartStream
<1>8. CASE Open(r)
  <2>1. PICK f \in Files : req' = [req EXCEPT ![r].at = "flock", ![r].fd = f]
    BY <1>8 DEF Open, IInv, Types, Files
  <2>2. [req[r] EXCEPT !.at = "flock", !.fd = f] \in Reqs(G) BY <1>0 DEF Reqs
  <2>3. req' = [req EXCEPT ![r] = [req[r] EXCEPT !.at = "flock", !.fd = f]] BY <2>1
  <2>4. Becomes(r, [req[r] EXCEPT !.at = "flock", !.fd = f]) BY <2>2, <2>3, BecomesOK
  <2> QED BY <1>0, <1>1, <2>4 DEF Becomes, Reqs
<1>9. CASE Flock(r) \/ Receive(r)
  <2>1. PICK a \in {"receive", "close"}, n \in {0, 1, 2} : req' = [req EXCEPT ![r].at = a, ![r].op = n]
    <3>1. CASE Flock(r) BY <3>1 DEF Flock
    <3>2. CASE Receive(r) /\ req[r].op = 1 BY <3>2 DEF Receive
    <3>3. CASE Receive(r) /\ req[r].op # 1 BY <3>3 DEF Receive
    <3> QED BY <1>9, <3>1, <3>2, <3>3
  <2>5. a \in Uploads /\ n \in Nat OBVIOUS
  <2>2. [req[r] EXCEPT !.at = a, !.op = n] \in Reqs(G) BY <1>0, <2>5 DEF Reqs
  <2>3. req' = [req EXCEPT ![r] = [req[r] EXCEPT !.at = a, !.op = n]] BY <2>1
  <2>4. Becomes(r, [req[r] EXCEPT !.at = a, !.op = n]) BY <2>2, <2>3, BecomesOK
  <2> QED BY <1>0, <1>1, <2>4 DEF Becomes, Reqs
<1>10. CASE Close(r)
  <2>1. req' = [req EXCEPT ![r].at = "start", ![r].fd = None] BY <1>10 DEF Close
  <2>2. [req[r] EXCEPT !.at = "start", !.fd = None] \in Reqs(G) BY <1>0 DEF Reqs
  <2>3. req' = [req EXCEPT ![r] = [req[r] EXCEPT !.at = "start", !.fd = None]] BY <2>1
  <2>4. Becomes(r, [req[r] EXCEPT !.at = "start", !.fd = None]) BY <2>2, <2>3, BecomesOK
  <2> QED BY <1>0, <1>1, <2>4 DEF Becomes, Reqs
<1> QED BY <1>5, <1>6, <1>7, <1>8, <1>9, <1>10 DEF UploadStep

\* What each step of a setting does: it is no upload before or after it.
LEMMA SettingMoves ==
  ASSUME IInv, NEW r \in Threads, SettingStep(r) \/ \E o \in Offered : AskSetting(r, o)
  PROVE  /\ Formed' /\ (\A q \in Threads \ {r} : req'[q] = req[q]) /\ UNCHANGED upload
         /\ req[r].at \in Changes \cup {"idle"} /\ req'[r].at \in Changes \cup {"idle"}
         /\ req'[r].at \in Changes => req'[r].opt # <<>>
         /\ req'[r].at = "idle" => req'[r].opt = <<>>
         /\ inst[r].at = "off"
<1> PICK G : req \in [Threads -> Reqs(G)] BY DEF IInv, Types, Formed
<1>0. req[r] \in Reqs(G) OBVIOUS
<1> DEFINE Moved ==
      /\ Formed' /\ (\A q \in Threads \ {r} : req'[q] = req[q])
      /\ req'[r].at \in Changes \cup {"idle"}
      /\ req'[r].at \in Changes => req'[r].opt # <<>>
      /\ req'[r].at = "idle" => req'[r].opt = <<>>
<1>1. ASSUME NEW H, NEW x \in Reqs(H), x.at \in Changes, x.opt # <<>>, req' = [req EXCEPT ![r] = x]
      PROVE  Moved
  <2>1. Becomes(r, x) BY <1>1, BecomesOK
  <2> QED BY <1>1, <2>1 DEF Becomes, Changes
<1>2. ASSUME End(r) PROVE Moved
  <2>1. req' = [req EXCEPT ![r] = Rest] BY <1>2 DEF End
  <2>2. Becomes(r, Rest) BY <2>1, RestOK, BecomesOK
  <2> QED BY <2>2, RestOK DEF Becomes, Changes
<1>3. ASSUME NEW ok, Exit(r, ok), req[r].at \in Changes PROVE Moved
  <2>1. CASE End(r) BY <2>1, <1>2
  <2>2. CASE req' = [req EXCEPT ![r].at = "edit", ![r].op = @ + 1, ![r].got = <<>>]
    <3> DEFINE x == [req[r] EXCEPT !.at = "edit", !.op = @ + 1, !.got = <<>>]
    <3>0. req[r].op + 1 \in Nat /\ "edit" \in Changes BY <1>0 DEF Reqs, Changes
    <3>1. x \in Reqs({<<>>}) BY <1>0, <3>0 DEF Reqs
    <3>2. x.at \in Changes /\ x.opt # <<>> BY <1>0, <1>3 DEF Reqs, Changes, IInv, Kinds
    <3>3. req' = [req EXCEPT ![r] = x] BY <2>2
    <3> QED BY <1>1, <3>1, <3>2, <3>3
  <2> QED BY <1>3, <2>1, <2>2 DEF Exit
<1> HIDE DEF Moved
<1>4. ASSUME NEW o \in Offered, AskSetting(r, o)
      PROVE  Moved /\ UNCHANGED upload /\ req[r].at = "idle" /\ inst[r].at = "off"
  <2> DEFINE x == [Rest EXCEPT !.at = "edit", !.opt = o, !.op = 1]
  <2>1. o \in STRING \X STRING BY FirmwareConfigAssumption
  <2>2. x \in Reqs({<<>>}) BY <2>1 DEF Rest, Reqs, Opts, Changes
  <2>3. x.at \in Changes /\ x.opt # <<>> BY <2>1, PairOpt DEF Rest, Changes
  <2>4. req' = [req EXCEPT ![r] = x] BY <1>4 DEF AskSetting
  <2> QED BY <1>1, <1>4, <2>2, <2>3, <2>4 DEF AskSetting, At, Installing
<1>5. ASSUME ReadLines(r) PROVE Moved
  <2>0. req[r].at \in Changes BY <1>5 DEF ReadLines, At, Changes
  <2>1. CASE Edit(Op(r), file).write
    <3> DEFINE x == [req[r] EXCEPT !.at = "truncate", !.got = file]
    <3>1. x \in Reqs({file}) BY <1>0 DEF Reqs, Changes
    <3>2. x.at \in Changes /\ x.opt # <<>> BY <1>0, <2>0 DEF Reqs, Changes, IInv, Kinds
    <3>3. req' = [req EXCEPT ![r].at = "truncate", ![r].got = file] BY <1>5, <2>1 DEF ReadLines
    <3>4. req' = [req EXCEPT ![r] = x] BY <3>3
    <3> QED BY <1>1, <1>5, <2>0, <3>1, <3>2, <3>4 DEF ReadLines
  <2>2. CASE ~Edit(Op(r), file).write
    <3>1. PICK heard \in BOOLEAN : Exit(r, Edit(Op(r), file).ok /\ heard) BY <1>5, <2>2 DEF ReadLines
    <3> QED BY <1>3, <1>5, <2>0, <3>1 DEF ReadLines
  <2> QED BY <2>1, <2>2
<1>6. ASSUME Truncate(r) PROVE Moved
  <2> DEFINE x == [req[r] EXCEPT !.at = "write"]
  <2>0. req[r].at \in Changes BY <1>6 DEF Truncate, At, Changes
  <2>1. x \in Reqs(G) BY <1>0 DEF Reqs, Changes
  <2>2. x.at \in Changes /\ x.opt # <<>> BY <1>0, <2>0 DEF Reqs, Changes, IInv, Kinds
  <2>3. req' = [req EXCEPT ![r] = x] BY <1>6 DEF Truncate, Go
  <2> QED BY <1>1, <1>6, <2>0, <2>1, <2>2, <2>3 DEF Truncate
<1>7. ASSUME WriteLines(r) PROVE Moved
  <2>0. req[r].at \in Changes BY <1>7 DEF WriteLines, At, Changes
  <2>1. PICK heard \in BOOLEAN : Exit(r, heard) BY <1>7 DEF WriteLines
  <2> QED BY <1>3, <1>7, <2>0, <2>1 DEF WriteLines
<1>8. Moved /\ UNCHANGED upload /\ req[r].at \in Changes \cup {"idle"} /\ inst[r].at = "off"
  <2>1. CASE SettingStep(r)
    <3>1. req[r].at \in Changes
      BY <2>1 DEF SettingStep, ReadLines, Truncate, WriteLines, At, Changes
    <3>2. UNCHANGED upload BY <2>1 DEF SettingStep, ReadLines, Truncate, WriteLines
    <3>3. inst[r].at = "off" BY <3>1 DEF IInv, Kinds, Held, Changes
    <3> QED BY <1>5, <1>6, <1>7, <2>1, <3>1, <3>2, <3>3 DEF SettingStep
  <2>2. CASE \E o \in Offered : AskSetting(r, o) BY <1>4, <2>2
  <2> QED BY <2>1, <2>2
<1> QED BY <1>8 DEF Moved

--------------------------------------------------------------------------------

LEMMA SettingKeeps ==
  ASSUME IInv, NEW r \in Threads, SettingStep(r) \/ \E o \in Offered : AskSetting(r, o)
  PROVE  IInv'
<1>1. /\ Formed' /\ (\A q \in Threads \ {r} : req'[q] = req[q]) /\ UNCHANGED upload
      /\ req[r].at \in Changes \cup {"idle"} /\ req'[r].at \in Changes \cup {"idle"}
      /\ req'[r].at \in Changes => req'[r].opt # <<>>
      /\ req'[r].at = "idle" => req'[r].opt = <<>>
      /\ inst[r].at = "off"
  BY SettingMoves
<1>2. (Changes \cup {"idle"}) \cap Uploads = {} BY DEF Changes, Uploads
<1>3. UNCHANGED <<path, body, inst, tmp, crowd, left>> BY <1>1 DEF upload
<1>4. Types' BY <1>1, <1>3 DEF IInv, Types
<1>5. Kinds'
  <2>1. Held(r)' BY <1>1, <1>3 DEF Held, Changes
  <2>2. \A q \in Threads \ {r} : Held(q)' BY <1>1, <1>3 DEF IInv, Kinds, Held
  <2> QED BY <1>1, <1>2, <2>1, <2>2 DEF IInv, Kinds
<1>6. Kept' BY <1>1, <1>3 DEF IInv, Kept, Holding, Changes
<1>7. Crowds' BY <1>1, <1>2, <1>3 DEF IInv, Crowds, Busy
<1>8. Own'
  <2> SUFFICES ASSUME NEW q \in Threads, q \notin crowd PROVE Mine(q)'
    BY <1>3 DEF Own
  <2>1. CASE q = r BY <1>1, <1>3, <2>1 DEF Mine, Received, Taken, ReadsPath, Changes
  <2>2. CASE q # r
    <3>1. Mine(q) BY DEF IInv, Own
    <3> QED BY <1>1, <1>3, <2>2, <3>1 DEF Mine, Received, Taken
  <2> QED BY <2>1, <2>2
<1> QED BY <1>4, <1>5, <1>6, <1>7, <1>8 DEF IInv

LEMMA AskUploadKeeps ==
  ASSUME IInv, NEW r \in Threads, AskUpload(r)
  PROVE  IInv'
<1>1. /\ Formed' /\ \A q \in Threads \ {r} : req'[q] = req[q]
      /\ req'[r].opt = <<>> /\ req[r].opt = <<>>
  BY UploadMoves
<1>2. req'[r].at = "unlink" /\ req[r].at = "idle" /\ inst[r].at = "off"
  BY DEF AskUpload, Go, At, Installing, IInv, Types, Formed, Reqs
<1>3. UNCHANGED <<path, body, inst, tmp, left>> BY DEF AskUpload, setup
<1>4. \A q \in Threads : Busy(q) => Uploading(q) \/ Installing(q)
  BY DEF IInv, Kinds, Busy, Uploading, Installing, At, Uploads
<1>5. Types' BY <1>1, <1>3 DEF IInv, Types, AskUpload
<1>6. Kinds'
  <2>1. Held(r)' BY <1>2, <1>3 DEF Held
  <2>2. \A q \in Threads \ {r} : Held(q)' BY <1>1, <1>3 DEF IInv, Kinds, Held
  <2> QED BY <1>1, <1>2, <2>1, <2>2 DEF IInv, Kinds, Changes
<1>7. Kept' BY <1>1, <1>2, <1>3 DEF IInv, Kept, Holding
<1>8. Crowds'
  <2> DEFINE others == {q \in Threads : Uploading(q) \/ Installing(q)}
  <2>1. \A q \in Threads : Busy(q)' => q = r \/ q \in others BY <1>1, <1>3, <1>4 DEF Busy
  <2>2. CASE others = {} BY <2>1, <2>2 DEF Crowds
  <2>3. CASE others # {}
    <3>1. crowd' = crowd \cup others \cup {r} BY <2>3 DEF AskUpload
    <3> QED BY <2>1, <3>1 DEF Crowds
  <2> QED BY <2>2, <2>3
<1>9. Own'
  <2> SUFFICES ASSUME NEW q \in Threads, q \notin crowd' PROVE Mine(q)' BY DEF Own
  <2>1. CASE q = r BY <1>2, <1>3, <2>1 DEF Mine, Received, Taken, ReadsPath
  <2>2. CASE q # r
    <3>1. q \notin crowd BY <2>2 DEF AskUpload
    <3>2. Mine(q) BY <3>1 DEF IInv, Own
    <3> QED BY <1>1, <1>3, <2>2, <3>2 DEF Mine, Received, Taken
  <2> QED BY <2>1, <2>2
<1> QED BY <1>5, <1>6, <1>7, <1>8, <1>9 DEF IInv

\* What is left to show of a step of an upload or of its installer. The others need
\* no look: either their uploads overlap this one, or they have none.
Frame(r) ==
  /\ Busy(r) /\ UNCHANGED crowd /\ Formed'
  /\ \A q \in Threads \ {r} : req'[q] = req[q] /\ inst'[q] = inst[q]
  /\ req'[r].at \in Uploads \cup {"idle"} /\ req'[r].opt = <<>>
  /\ inst' \in [Threads -> Insts] /\ (left => left')

LEMMA FrameKeeps ==
  ASSUME IInv, NEW r \in Threads, Frame(r),
         path' \in Files \cup {None}, body' \in [Files -> Halves], tmp' \subseteq Threads,
         Held(r)', Kept', r \notin crowd => Mine(r)'
  PROVE  IInv'
<1>1. Types' BY DEF Frame, IInv, Types
<1>2. Kinds'
  <2>1. \A q \in Threads \ {r} : Held(q)' BY DEF Frame, IInv, Kinds, Held
  <2> QED BY <2>1 DEF Frame, IInv, Kinds, Changes, Uploads
<1>3. Crowds' BY DEF Frame, IInv, Crowds, Busy
<1>4. Own'
  <2> SUFFICES ASSUME NEW q \in Threads, q \notin crowd PROVE Mine(q)' BY DEF Own, Frame
  <2>1. CASE q = r BY <2>1
  <2>2. CASE q # r
    <3>1. req'[q].at \notin Uploads /\ inst'[q].at = "off" BY <2>2 DEF Frame, IInv, Crowds, Busy
    <3> QED BY <3>1 DEF Mine, Received, Taken, ReadsPath, Uploads
  <2> QED BY <2>1, <2>2
<1> QED BY <1>1, <1>2, <1>3, <1>4 DEF IInv

LEMMA UploadIsFramed ==
  ASSUME IInv, NEW r \in Threads, UploadStep(r)
  PROVE  /\ Frame(r) /\ UNCHANGED tmp
         /\ (inst'[r] = inst[r] \/ StartStream(r))
<1>0. inst \in [Threads -> Insts] BY DEF IInv, Types
<1>1. /\ Formed' /\ \A q \in Threads \ {r} : req'[q] = req[q]
      /\ req'[r].at \in Uploads \cup {"idle"} /\ req'[r].opt = <<>>
  BY UploadMoves
<1>2. UNCHANGED <<crowd, tmp>> /\ (left => left')
  <2>1. CASE StartStream(r)
    <3>1. UNCHANGED <<crowd, tmp>> BY <2>1 DEF StartStream
    <3>2. left => left' BY <2>1, Zenon DEF StartStream
    <3> QED BY <3>1, <3>2
  <2>2. CASE StreamEnds(r) BY <2>2 DEF StreamEnds, setup
  <2>3. CASE ~StartStream(r) /\ ~StreamEnds(r)
    BY <2>3 DEF UploadStep, Unlink, Open, Flock, Receive, Reset, Close, Remove, setup
  <2> QED BY <2>1, <2>2, <2>3
<1>3. Busy(r)
  BY DEF Busy, UploadStep, Unlink, Open, Flock, Receive, Reset, Close, StartStream, StreamEnds, Remove,
     At, Uploads
<1>4. CASE UNCHANGED inst BY <1>0, <1>1, <1>2, <1>3, <1>4 DEF Frame
<1>5. CASE StartStream(r)
  <2> DEFINE x == [Ended EXCEPT !.at = "look", !.full = req[r].op = 2]
  <2>1. x \in Insts BY DEF Ended, Insts
  <2>2. inst' = [inst EXCEPT ![r] = x] \/ UNCHANGED inst BY <1>5 DEF StartStream
  <2> HIDE DEF x
  <2>3. inst' \in [Threads -> Insts] /\ \A q \in Threads \ {r} : inst'[q] = inst[q] BY <1>0, <2>1, <2>2
  <2> QED BY <1>1, <1>2, <1>3, <1>5, <2>3 DEF Frame
<1> QED
  BY <1>4, <1>5 DEF UploadStep, Unlink, Open, Flock, Receive, Reset, Close, StreamEnds, Remove, setup

\* The states of r's installer after a line that it prints.
LEMMA PrintsIs ==
  ASSUME IInv, NEW r \in Threads, NEW a \in {"unzip", "size", "scrap", "small", "install"}, Prints(r, a)
  PROVE  /\ inst' \in [Threads -> Insts] /\ \A q \in Threads \ {r} : inst'[q] = inst[q]
         /\ \/ req[r].at = "run" /\ inst'[r].at = a /\ inst'[r].full = inst[r].full
            \/ req[r].at # "run" /\ inst'[r].at = "off"
<1>0. inst \in [Threads -> Insts] BY DEF IInv, Types
<1>1. CASE req[r].at = "run"
  <2>1. inst' = [inst EXCEPT ![r].at = a] BY <1>1 DEF Prints, Proceed, At
  <2>2. [inst[r] EXCEPT !.at = a] \in Insts BY <1>0 DEF Insts
  <2>3. inst' = [inst EXCEPT ![r] = [inst[r] EXCEPT !.at = a]] BY <2>1
  <2>4. inst'[r] = [inst[r] EXCEPT !.at = a] BY <1>0, <2>3
  <2>5. inst'[r].at = a /\ inst'[r].full = inst[r].full BY <1>0, <2>4 DEF Insts
  <2> QED BY <1>0, <1>1, <2>2, <2>3, <2>5
<1>2. CASE req[r].at # "run"
  <2>1. inst' = [inst EXCEPT ![r] = Ended] BY <1>2 DEF Prints, Stop, At
  <2> QED BY <1>0, <1>2, <2>1, EndedOK
<1> QED BY <1>1, <1>2

LEMMA StopIs ==
  ASSUME IInv, NEW r \in Threads, Stop(r)
  PROVE  /\ inst' \in [Threads -> Insts] /\ \A q \in Threads \ {r} : inst'[q] = inst[q]
         /\ inst'[r].at = "off"
  BY EndedOK DEF IInv, Types, Stop

LEMMA UploadKeeps ==
  ASSUME IInv, NEW r \in Threads, UploadStep(r)
  PROVE  IInv'
<1> PICK G : req \in [Threads -> Reqs(G)] BY DEF IInv, Types, Formed
<1>0. /\ req[r] \in Reqs(G) /\ path \in Files \cup {None} /\ body \in [Files -> Halves]
      /\ tmp \subseteq Threads /\ None \notin Files /\ Sent(r) \in Files
      /\ Held(r) /\ Kept /\ (r \notin crowd => Received(r) /\ Taken(r))
  BY FirmwareConfigAssumption DEF IInv, Types, Kinds, Own, Mine, Files, Sent
<1>1. Frame(r) /\ UNCHANGED tmp /\ (inst'[r] = inst[r] \/ StartStream(r)) BY UploadIsFramed
<1>2. ASSUME End(r) PROVE req'[r].at = "idle"
  <2>1. req'[r] = Rest BY <1>2 DEF End
  <2> QED BY <2>1, RestOK
<1>3. ASSUME req'[r].at \in Holding PROVE Kept' BY <1>3 DEF Kept
<1>4. ASSUME path' = None PROVE Kept' BY <1>4 DEF Kept
\* Before the response is started nothing is installed.
<1>5. ASSUME req[r].at \notin {"run", "remove", "idle"}, inst'[r] = inst[r]
      PROVE  inst'[r].at = "off" /\ Taken(r)'
  <2>1. inst'[r].at = "off" BY <1>0, <1>5 DEF Held
  <2> QED BY <2>1 DEF Taken, ReadsPath
<1>6. CASE Unlink(r)
  <2>1. req'[r].at = "open" /\ req[r].at = "unlink" BY <1>0, <1>6 DEF Unlink, Go, Reqs, At
  <2>2. path' = None /\ UNCHANGED <<body, inst>> BY <1>6 DEF Unlink, setup
  <2>3. Held(r)' /\ Mine(r)' BY <1>5, <2>1, <2>2 DEF Held, Mine, Received
  <2> QED BY <1>0, <1>1, <1>4, <2>2, <2>3, FrameKeeps
<1>7. CASE Open(r)
  <2> DEFINE f == IF path = None THEN Sent(r) ELSE path
  <2>1. f \in Files /\ path' = f /\ UNCHANGED inst /\ req[r].at = "open"
    BY <1>0, <1>7 DEF Open, Sent, At, setup
  <2>2. req'[r].at = "flock" /\ req'[r].fd = f BY <1>0, <1>7 DEF Open, Reqs, Sent
  <2>3. body' = [body EXCEPT ![f] = <<None, None>>] BY <1>7 DEF Open, Sent
  <2>4. body' \in [Files -> Halves] BY <1>0, <2>1, <2>3 DEF Halves
  <2>5. ASSUME r \notin crowd PROVE Mine(r)'
    <3>1. path = None BY <1>0, <2>1, <2>5 DEF Received
    <3>2. body'[Sent(r)] = <<None, None>> BY <1>0, <2>3, <3>1
    <3> QED BY <1>5, <2>1, <2>2, <3>1, <3>2 DEF Mine, Received
  <2>6. Held(r)' /\ req'[r].at \in Holding BY <1>5, <2>1, <2>2 DEF Held, Holding
  <2> QED BY <1>0, <1>1, <1>3, <2>1, <2>4, <2>5, <2>6, FrameKeeps
<1>8. CASE Flock(r)
  <2>1. /\ req'[r].at = "receive" /\ req'[r].fd = req[r].fd /\ req'[r].op = 1
        /\ req[r].at = "flock" /\ UNCHANGED <<path, body, inst>>
    BY <1>0, <1>8 DEF Flock, Reqs, At, setup
  <2>2. Held(r)' /\ req'[r].at \in Holding BY <1>0, <1>5, <2>1 DEF Held, Holding
  <2>3. r \notin crowd => Mine(r)' BY <1>0, <1>5, <2>1 DEF Mine, Received
  <2> QED BY <1>0, <1>1, <1>3, <2>1, <2>2, <2>3, FrameKeeps
<1>9. CASE Receive(r)
  <2> DEFINE n == req[r].op
             f == req[r].fd
  <2>1. req[r].at = "receive" /\ n \in {1, 2} /\ f \in Files BY <1>0, <1>9 DEF Receive, At, Held
  <2>2. UNCHANGED <<path, inst>> BY <1>9 DEF Receive, setup
  <2>3. req'[r].at \in {"receive", "close"} /\ req'[r].fd = f
    <3>1. CASE n = 1 BY <1>0, <1>9, <3>1 DEF Receive, Reqs
    <3>2. CASE n # 1 BY <1>0, <1>9, <3>2 DEF Receive, Reqs
    <3> QED BY <3>1, <3>2
  <2>4. CASE body' = [body EXCEPT ![f][n] = r]
              /\ req' = [req EXCEPT ![r].at = IF n = 1 THEN "receive" ELSE "close", ![r].op = 2]
    <3>1. /\ [body[f] EXCEPT ![n] = r] \in Halves /\ [body[f] EXCEPT ![n] = r][n] = r
          /\ \A m \in {1, 2} \ {n} : [body[f] EXCEPT ![n] = r][m] = body[f][m]
      BY <1>0, <2>1, PairSet
    <3>2. body' = [body EXCEPT ![f] = [body[f] EXCEPT ![n] = r]] BY <2>4
    <3>3. body' \in [Files -> Halves] BY <1>0, <2>1, <3>1, <3>2
    <3>4. req'[r].op = 2 BY <1>0, <2>4 DEF Reqs
    <3>5. req'[r].at = "receive" <=> n = 1 BY <1>0, <2>4 DEF Reqs
    <3>6. Held(r)' /\ req'[r].at \in Holding BY <1>5, <2>1, <2>2, <2>3, <3>4 DEF Held, Holding
    <3>7. ASSUME r \notin crowd PROVE Mine(r)'
      <4>1. f = Sent(r) /\ path = Sent(r) /\ body[Sent(r)] \in {None, r} \X {None, r}
        BY <1>0, <2>1, <3>7 DEF Received
      <4>2. body'[Sent(r)][n] = r /\ \A m \in {1, 2} \ {n} : body'[Sent(r)][m] = body[Sent(r)][m]
        BY <1>0, <3>1, <3>2, <4>1
      <4>3. body'[Sent(r)] \in {None, r} \X {None, r}
        <5>1. body'[Sent(r)] \in Halves BY <1>0, <3>3
        <5>2. body'[Sent(r)][1] \in {None, r} /\ body'[Sent(r)][2] \in {None, r} BY <2>1, <4>1, <4>2
        <5> QED BY <5>1, <5>2 DEF Halves
      <4>4. n = 2 => body'[Sent(r)] = <<r, r>>
        <5> SUFFICES ASSUME n = 2 PROVE body'[Sent(r)] = <<r, r>> OBVIOUS
        <5>1. body[Sent(r)][1] = r BY <1>0, <2>1, <3>7 DEF Received
        <5> QED BY <1>0, <3>3, <4>2, <5>1, PairIs
      <4>5. n = 1 => body'[Sent(r)][1] = r BY <4>2
      <4>6. Received(r)' BY <2>1, <2>2, <2>3, <3>5, <4>1, <4>3, <4>4, <4>5 DEF Received
      <4> QED BY <1>5, <2>1, <2>2, <4>6 DEF Mine
    <3> QED BY <1>0, <1>1, <1>3, <2>2, <3>3, <3>6, <3>7, FrameKeeps
  <2>5. CASE UNCHANGED body /\ req' = [req EXCEPT ![r].at = "close", ![r].op = 0]
    <3>1. req'[r].at = "close" /\ req'[r].op = 0 BY <1>0, <2>5 DEF Reqs
    <3>2. Held(r)' /\ req'[r].at \in Holding BY <1>5, <2>1, <2>2, <2>3, <3>1 DEF Held, Holding
    <3>3. r \notin crowd => Mine(r)' BY <1>0, <1>5, <2>1, <2>2, <2>3, <2>5, <3>1 DEF Mine, Received
    <3> QED BY <1>0, <1>1, <1>3, <2>2, <2>5, <3>2, <3>3, FrameKeeps
  <2> QED BY <1>9, <2>4, <2>5 DEF Receive
<1>10. CASE Reset(r)
  <2>1. path' = None /\ UNCHANGED <<body, inst>> /\ req[r].at = "receive" /\ req'[r].at = "idle"
    BY <1>2, <1>10 DEF Reset, At, setup
  <2>2. Held(r)' /\ Mine(r)' BY <1>5, <2>1 DEF Held, Mine, Received
  <2> QED BY <1>0, <1>1, <1>4, <2>1, <2>2, FrameKeeps
<1>11. CASE Close(r)
  <2>1. /\ req'[r].at = "start" /\ req'[r].op = req[r].op
        /\ req[r].at = "close" /\ UNCHANGED <<path, body, inst>>
    BY <1>0, <1>11 DEF Close, Reqs, At, setup
  <2>2. Held(r)' /\ req'[r].at \in Holding BY <1>5, <2>1 DEF Held, Holding
  <2>3. r \notin crowd => Mine(r)' BY <1>0, <1>5, <2>1 DEF Mine, Received
  <2> QED BY <1>0, <1>1, <1>3, <2>1, <2>2, <2>3, FrameKeeps
<1>12. CASE /\ StartStream(r) /\ Go(r, "run")
             /\ inst' = [inst EXCEPT ![r] = [Ended EXCEPT !.at = "look", !.full = req[r].op = 2]]
  <2>1. req'[r].at = "run" /\ req[r].at = "start" /\ UNCHANGED <<path, body>>
    BY <1>0, <1>12 DEF StartStream, Go, Reqs, At
  <2>2. inst'[r].at = "look" /\ inst'[r].full = (req[r].op = 2) BY <1>12 DEF IInv, Types, Ended
  <2>3. Held(r)' /\ req'[r].at \in Holding BY <2>1, <2>2 DEF Held, Holding
  <2>4. ASSUME r \notin crowd PROVE Mine(r)'
    <3>1. path = Sent(r) /\ body[path] \in {None, r} \X {None, r} /\ (req[r].op = 2 => body[path] = <<r, r>>)
      BY <1>0, <2>1, <2>4 DEF Received
    <3>2. Received(r)' BY <2>1 DEF Received
    <3>3. path # None BY <1>0, <3>1
    <3> QED BY <2>1, <2>2, <3>1, <3>2, <3>3 DEF Mine, Taken, ReadsPath
  <2> QED BY <1>0, <1>1, <1>3, <2>1, <2>3, <2>4, FrameKeeps
<1>13. CASE StartStream(r) /\ End(r) /\ left' /\ UNCHANGED inst
  <2>1. req'[r].at = "idle" /\ req[r].at = "start" /\ UNCHANGED <<path, body>> /\ Kept'
    BY <1>2, <1>13 DEF StartStream, Kept, At
  <2>2. Held(r)' /\ Mine(r)' BY <1>5, <1>13, <2>1 DEF Held, Mine, Received
  <2> QED BY <1>0, <1>1, <2>1, <2>2, FrameKeeps
<1>14. CASE StreamEnds(r)
  <2>1. /\ req'[r].at = "remove" /\ req[r].at = "run" /\ UNCHANGED <<path, body, inst>>
        /\ inst[r].at # "look" /\ (inst[r].at \in {"unzip", "move"} => left')
    BY <1>0, <1>14 DEF StreamEnds, Go, Reqs, At, setup
  <2>2. Held(r)' /\ req'[r].at \in Holding BY <2>1 DEF Held, Holding
  <2>3. ASSUME r \notin crowd PROVE Mine(r)'
    <3>1. Received(r)' BY <2>1 DEF Received
    <3>2. Taken(r)' BY <1>0, <1>1, <2>1, <2>3 DEF Taken
    <3> QED BY <3>1, <3>2 DEF Mine
  <2> QED BY <1>0, <1>1, <1>3, <2>1, <2>2, <2>3, FrameKeeps
<1>15. CASE Remove(r)
  <2>1. path' = None /\ UNCHANGED <<body, inst>> /\ req[r].at = "remove" /\ req'[r].at = "idle"
    BY <1>2, <1>15 DEF Remove, At, setup
  <2>2. Held(r)' BY <1>0, <1>1, <2>1 DEF Held, Frame
  <2>3. ASSUME r \notin crowd PROVE Mine(r)'
    <3>1. Received(r)' BY <2>1 DEF Received
    <3>2. Taken(r)' BY <1>0, <1>1, <2>1, <2>3 DEF Taken
    <3> QED BY <3>1, <3>2 DEF Mine
  <2> QED BY <1>0, <1>1, <1>4, <2>1, <2>2, <2>3, FrameKeeps
<1>16. StartStream(r) =>
         \/ Go(r, "run") /\ inst' = [inst EXCEPT ![r] = [Ended EXCEPT !.at = "look", !.full = req[r].op = 2]]
         \/ End(r) /\ left' /\ UNCHANGED inst
  BY DEF StartStream
<1> QED
  BY <1>6, <1>7, <1>8, <1>9, <1>10, <1>11, <1>12, <1>13, <1>14, <1>15, <1>16 DEF UploadStep

LEMMA InstallerKeeps ==
  ASSUME IInv, NEW r \in Threads, InstallerStep(r)
  PROVE  IInv'
<1>0. /\ inst \in [Threads -> Insts] /\ path \in Files \cup {None} /\ body \in [Files -> Halves]
      /\ tmp \subseteq Threads /\ None \notin Files \cup Threads /\ Held(r) /\ Kept
      /\ (r \notin crowd => Received(r) /\ Taken(r))
  BY FirmwareConfigAssumption DEF IInv, Types, Kinds, Own, Mine
<1>1. /\ UNCHANGED <<req, crowd, left>> /\ inst[r].at # "off"
  BY DEF InstallerStep, Look, Unzip, Move, Size, Discard, Install, Exited, rest, InstallerAt
<1>2. req[r].at \in {"run", "remove", "idle"} /\ req[r].opt = <<>> /\ Formed'
  BY <1>0, <1>1 DEF Held, IInv, Kinds, Uploads, Types, Formed
<1>3. ASSUME inst' \in [Threads -> Insts], \A q \in Threads \ {r} : inst'[q] = inst[q] PROVE Frame(r)
  BY <1>1, <1>2, <1>3 DEF Frame, Busy, Uploads
<1>4. Received(r)' BY <1>1, <1>2 DEF Received
<1>5. ASSUME NEW a \in {"unzip", "size", "scrap", "small", "install"}, Prints(r, a),
             a = "unzip" /\ r \notin crowd => tmp' = {},
             r \notin crowd /\ a \in {"unzip", "size", "install"} /\ req[r].at = "run" =>
               path' # None /\ body'[path'] \in {None, r} \X {None, r} /\ (inst[r].full => body'[path'] = <<r, r>>)
      PROVE  Frame(r) /\ Held(r)' /\ (r \notin crowd => Mine(r)')
  <2>1. /\ inst' \in [Threads -> Insts] /\ \A q \in Threads \ {r} : inst'[q] = inst[q]
        /\ \/ req[r].at = "run" /\ inst'[r].at = a /\ inst'[r].full = inst[r].full
           \/ req[r].at # "run" /\ inst'[r].at = "off"
    BY <1>5, PrintsIs
  <2>2. Held(r)' BY <1>0, <1>1, <1>2, <2>1 DEF Held
  <2>3. ASSUME r \notin crowd PROVE Taken(r)'
    BY <1>1, <1>5, <2>1, <2>3 DEF Taken, ReadsPath
  <2> QED BY <1>3, <1>4, <2>1, <2>2, <2>3 DEF Mine
<1>6. ASSUME Stop(r) PROVE Frame(r) /\ Held(r)' /\ Mine(r)'
  <2>1. inst' \in [Threads -> Insts] /\ (\A q \in Threads \ {r} : inst'[q] = inst[q]) /\ inst'[r].at = "off"
    BY <1>6, StopIs
  <2> QED BY <1>1, <1>2, <1>3, <1>4, <2>1 DEF Held, Mine, Taken, ReadsPath
<1>7. ASSUME UNCHANGED path PROVE Kept' BY <1>0, <1>1, <1>7 DEF Kept
<1>8. ASSUME Sized(r), inst[r].at \in ReadsPath, UNCHANGED <<path, body>>
      PROVE  Frame(r) /\ Held(r)' /\ (r \notin crowd => Mine(r)')
  <2>1. PICK a \in {"small", "install"} : Prints(r, a) BY <1>8 DEF Sized
  <2>2. r \notin crowd /\ req[r].at = "run" =>
          path' # None /\ body'[path'] \in {None, r} \X {None, r} /\ (inst[r].full => body'[path'] = <<r, r>>)
    BY <1>0, <1>8 DEF Taken
  <2> QED BY <1>5, <2>1, <2>2
<1>9. CASE Look(r)
  <2>1. inst[r].at = "look" /\ UNCHANGED <<path, body>> /\ tmp' \subseteq Threads
    BY <1>0, <1>9 DEF Look, InstallerAt
  <2>2. CASE Prints(r, "unzip") /\ tmp' = {}
    <3>1. r \notin crowd /\ req[r].at = "run" =>
            path' # None /\ body'[path'] \in {None, r} \X {None, r} /\ (inst[r].full => body'[path'] = <<r, r>>)
      BY <1>0, <2>1 DEF Taken, ReadsPath
    <3>2. Frame(r) /\ Held(r)' /\ (r \notin crowd => Mine(r)') BY <1>5, <2>2, <3>1
    <3> QED BY <1>0, <1>7, <2>1, <3>2, FrameKeeps
  <2>3. CASE Sized(r)
    <3>1. Frame(r) /\ Held(r)' /\ (r \notin crowd => Mine(r)') BY <1>8, <2>1, <2>3 DEF ReadsPath
    <3> QED BY <1>0, <1>7, <2>1, <3>1, FrameKeeps
  <2> QED BY <1>9, <2>2, <2>3 DEF Look
<1>10. CASE Unzip(r)
  <2>1. inst[r].at = "unzip" /\ UNCHANGED <<path, body>> BY <1>10 DEF Unzip, InstallerAt
  <2>2. CASE \E q \in Threads : /\ path # None /\ body[path] = <<q, q>>
                                /\ tmp' = tmp \cup {q} /\ Proceed(r, "move")
    <3>1. PICK q \in Threads : path # None /\ body[path] = <<q, q>> /\ tmp' = tmp \cup {q} /\ Proceed(r, "move")
      BY <2>2
    <3>2. tmp' \subseteq Threads BY <1>0, <3>1
    <3>3. [inst[r] EXCEPT !.at = "move"] \in Insts BY <1>0 DEF Insts
    <3>4. inst' = [inst EXCEPT ![r] = [inst[r] EXCEPT !.at = "move"]] BY <3>1 DEF Proceed
    <3>5. /\ inst' \in [Threads -> Insts] /\ \A p \in Threads \ {r} : inst'[p] = inst[p]
          /\ inst'[r].at = "move" /\ inst'[r].full = inst[r].full
      <4>1. inst'[r] = [inst[r] EXCEPT !.at = "move"] BY <1>0, <3>4
      <4>2. inst'[r].at = "move" /\ inst'[r].full = inst[r].full BY <1>0, <4>1 DEF Insts
      <4> QED BY <1>0, <3>3, <3>4, <4>2
    <3>6. Held(r)' BY <1>0, <1>1, <1>2, <2>1, <3>5 DEF Held
    <3>7. ASSUME r \notin crowd PROVE Taken(r)'
      <4>1. body[path] \in {None, r} \X {None, r} /\ tmp = {} BY <1>0, <2>1, <3>1, <3>7 DEF Taken, ReadsPath
      <4>2. q \in {None, r} BY <3>1, <4>1
      <4>3. q = r BY <1>0, <4>2
      <4>4. tmp' = {r} BY <3>1, <4>1, <4>3
      <4> QED BY <1>0, <1>1, <2>1, <3>5, <3>7, <4>4 DEF Taken, ReadsPath
    <3> QED BY <1>0, <1>3, <1>4, <1>7, <2>1, <3>2, <3>5, <3>6, <3>7, FrameKeeps DEF Mine
  <2>3. CASE Prints(r, "scrap") /\ UNCHANGED tmp
    <3>1. Frame(r) /\ Held(r)' /\ (r \notin crowd => Mine(r)') BY <1>5, <2>3
    <3> QED BY <1>0, <1>7, <2>1, <2>3, <3>1, FrameKeeps
  <2> QED BY <1>10, <2>2, <2>3 DEF Unzip
<1>11. CASE Move(r)
  <2> DEFINE f == <<r, "unpacked">>
  <2>0. inst[r].at = "move" BY <1>11 DEF Move, InstallerAt
  <2>1. CASE tmp = {} /\ Prints(r, "scrap") /\ UNCHANGED <<path, body, tmp>>
    <3>1. Frame(r) /\ Held(r)' /\ (r \notin crowd => Mine(r)') BY <1>5, <2>1
    <3> QED BY <1>0, <1>7, <2>1, <3>1, FrameKeeps
  <2>2. ASSUME NEW q \in tmp, path' = f, body' = [body EXCEPT ![f] = <<q, q>>], tmp' = {}, Prints(r, "size")
        PROVE  IInv'
    <3>1. f \in Files /\ q \in Threads BY <1>0 DEF Files
    <3>2. body' \in [Files -> Halves] /\ body'[f] = <<q, q>> /\ path' # None
      BY <1>0, <2>2, <3>1 DEF Halves
    <3>3. r \notin crowd => q = r BY <1>0, <2>0 DEF Taken
    <3>4. r \notin crowd =>
            path' # None /\ body'[path'] \in {None, r} \X {None, r} /\ body'[path'] = <<r, r>>
      BY <2>2, <3>2, <3>3
    <3>5. Frame(r) /\ Held(r)' /\ (r \notin crowd => Mine(r)') BY <1>5, <2>2, <3>4
    <3>6. Kept' BY <1>0, <1>1, <2>0 DEF Held, Kept, Holding
    <3> QED BY <2>2, <3>1, <3>2, <3>5, <3>6, FrameKeeps
  <2> QED BY <1>11, <2>1, <2>2 DEF Move
<1>12. CASE Size(r)
  <2>1. inst[r].at = "size" /\ Sized(r) /\ UNCHANGED <<path, body, tmp>> BY <1>12 DEF Size, InstallerAt
  <2>2. Frame(r) /\ Held(r)' /\ (r \notin crowd => Mine(r)') BY <1>8, <2>1 DEF ReadsPath
  <2> QED BY <1>0, <1>7, <2>1, <2>2, FrameKeeps
<1>13. CASE Discard(r)
  <2>1. Stop(r) /\ path' = None /\ UNCHANGED body /\ tmp' \subseteq Threads BY <1>0, <1>13 DEF Discard
  <2>2. Kept' BY <2>1 DEF Kept
  <2> QED BY <1>0, <1>6, <2>1, <2>2, FrameKeeps
<1>14. CASE Install(r)
  <2> DEFINE g == IF path = None THEN <<>> ELSE body[path]
  <2>1. /\ inst[r].at = "install" /\ UNCHANGED <<path, body, tmp>>
        /\ inst' = [inst EXCEPT ![r].at = "installed", ![r].got = g]
    BY <1>14 DEF Install, InstallerAt
  <2>2. g \in Halves \cup {<<>>} BY <1>0
  <2>3. path = None => g = <<>> OBVIOUS
  <2>4. path # None => g = body[path] OBVIOUS
  <2> HIDE DEF g
  <2>5. [inst[r] EXCEPT !.at = "installed", !.got = g] \in Insts BY <1>0, <2>2 DEF Insts
  <2>6. inst' = [inst EXCEPT ![r] = [inst[r] EXCEPT !.at = "installed", !.got = g]] BY <2>1
  <2>7. /\ inst' \in [Threads -> Insts] /\ \A q \in Threads \ {r} : inst'[q] = inst[q]
        /\ inst'[r].at = "installed" /\ inst'[r].full = inst[r].full /\ inst'[r].got = g
    <3>1. inst'[r] = [inst[r] EXCEPT !.at = "installed", !.got = g] BY <1>0, <2>6
    <3>2. inst'[r].at = "installed" /\ inst'[r].full = inst[r].full /\ inst'[r].got = g
      BY <1>0, <3>1 DEF Insts
    <3> QED BY <1>0, <2>5, <2>6, <3>2
  <2>8. Held(r)' BY <1>0, <1>1, <1>2, <2>7 DEF Held
  <2>9. ASSUME r \notin crowd PROVE Taken(r)'
    BY <1>0, <1>1, <1>2, <2>1, <2>3, <2>4, <2>7, <2>9 DEF Taken, ReadsPath
  <2> QED BY <1>0, <1>3, <1>4, <1>7, <2>1, <2>7, <2>8, <2>9, FrameKeeps DEF Mine
<1>15. CASE Exited(r)
  <2>1. Stop(r) /\ UNCHANGED <<path, body, tmp>> BY <1>15 DEF Exited
  <2> QED BY <1>0, <1>6, <1>7, <2>1, FrameKeeps
<1> QED BY <1>9, <1>10, <1>11, <1>12, <1>13, <1>14, <1>15 DEF InstallerStep

LEMMA CutKeeps == ASSUME IInv, PowerCut PROVE IInv'
<1>1. req' = [r \in Threads |-> Rest] /\ inst' = [r \in Threads |-> Ended] BY DEF PowerCut
<1>2. Formed' /\ inst' \in [Threads -> Insts]
  <2>1. req' \in [Threads -> Reqs({<<>>})] BY <1>1, RestOK
  <2> QED BY <1>1, <2>1, EndedOK DEF Formed
<1>3. \A r \in Threads : req'[r].at = "idle" /\ req'[r].opt = <<>> /\ inst'[r].at = "off"
  BY <1>1, RestOK, EndedOK
<1>4. UNCHANGED <<path, body, tmp>> /\ crowd' = {} BY DEF PowerCut
<1>5. Types' BY <1>2, <1>4 DEF IInv, Types
<1>6. Kept' BY DEF PowerCut, Kept
<1>7. Kinds' /\ Crowds' BY <1>3 DEF Kinds, Held, Crowds, Busy, Uploads, Changes
<1>8. Own' BY <1>3 DEF Own, Mine, Received, Taken, ReadsPath
<1> QED BY <1>5, <1>6, <1>7, <1>8 DEF IInv

LEMMA Inductive == ASSUME IInv, [Next]_vars PROVE IInv'
<1>1. ASSUME NEW r \in Threads, Request(r) \/ SettingStep(r) \/ UploadStep(r) \/ InstallerStep(r) PROVE IInv'
  BY <1>1, SettingKeeps, AskUploadKeeps, UploadKeeps, InstallerKeeps DEF Request
<1>2. CASE UNCHANGED vars
  <2>1. UNCHANGED <<req, path, body, inst, tmp, crowd, left>> BY <1>2 DEF vars, upload
  <2>2. Types' /\ Kinds' /\ Kept' /\ Crowds' BY <2>1 DEF IInv, Types, Formed, Kinds, Held, Kept, Crowds, Busy
  <2>3. Own' BY <2>1 DEF IInv, Own, Mine, Received, Taken
  <2> QED BY <2>2, <2>3 DEF IInv
<1> QED BY <1>1, <1>2, CutKeeps DEF Next

LEMMA Invariance == Spec => []IInv
  BY InitOK, Inductive, PTL DEF Spec

--------------------------------------------------------------------------------

\* What is installed is the whole file of the installer's own request, or no file
\* when that request is over, for any number of threads and uploads: unless another
\* upload overlapped it up to the end of its installer, or the connection ended early.
THEOREM InstallerGetsItsOwn == Spec => []InstallsOwn
<1>1. IInv => InstallsOwn BY DEF IInv, Own, Mine, Taken, InstallsOwn, At, InstallerAt
<1> QED BY <1>1, Invariance, PTL

\* When every upload and every installer is over, none is left at upload_path, however
\* they ended and overlapped, unless a client had gone before the response or while
\* its archive was unpacked, or the power failed.
THEOREM UploadsLeaveNothing == Spec => []UploadRemoved
<1>1. IInv => UploadRemoved
  <2>1. Holding \subseteq Uploads BY DEF Holding, Uploads
  <2>2. \A r \in Threads : req[r].at \in Uploads => req[r].at # "idle" BY DEF Uploads
  <2> QED BY <2>1, <2>2 DEF IInv, Kinds, Kept, UploadRemoved, Uploading, At
<1> QED BY <1>1, Invariance, PTL

--------------------------------------------------------------------------------
(* Files that are laid out, and what is read from them.                      *)

\* All strings; the provers do not know the ones of the scripts to be any.
Texts == STRING \cup {"", "web", "frontend", "spoolman", "host", "force_generic_vendor",
                      "url", "true", "false"}
Lines == [kind : {"header", "key", "prose", "blank"}, name : Texts, val : Texts, on : BOOLEAN]

\* Line i is in the section that begins at h, with no blank line before it.
Stops(line) == IsHeader(line) \/ line.kind = "blank"
Under(f, h, i) ==
  /\ h \in DOMAIN f /\ i \in DOMAIN f /\ h < i /\ IsHeader(f[h])
  /\ \A j \in h + 1 .. i - 1 : ~Stops(f[j])

\* Sections have names of their own, as have the keys of each, and their keys
\* come before their first blank line.
ProseOff(f) == \A i \in DOMAIN f : f[i].kind = "prose" => ~f[i].on
HeadersNamed(f) == \A i \in DOMAIN f : IsHeader(f[i]) => f[i].name # ""
HeadersDiffer(f) ==
  \A i, j \in DOMAIN f : IsHeader(f[i]) /\ IsHeader(f[j]) /\ f[i].name = f[j].name => i = j
KeysPlaced(f) == \A i \in DOMAIN f : IsKey(f[i]) => \E h \in DOMAIN f : Under(f, h, i)
KeysDiffer(f) ==
  \A h, i, j \in DOMAIN f :
    Under(f, h, i) /\ Under(f, h, j) /\ IsKey(f[i]) /\ IsKey(f[j]) /\ f[i].name = f[j].name => i = j
Sections(f) ==
  ProseOff(f) /\ HeadersNamed(f) /\ HeadersDiffer(f) /\ KeysPlaced(f) /\ KeysDiffer(f)

\* The section of Spoolman, commented out or not, is a paragraph of keys in the
\* same condition, and its header does not stand in another section.
Joined(f, h, i) == i \in DOMAIN f /\ h <= i /\ \A j \in h .. i : f[j].kind # "blank"
Spoolmans(f) == {h \in DOMAIN f : f[h].kind = "header" /\ f[h].name = "spoolman"}
KeysAlone(f, h) ==
  \A i \in DOMAIN f : Joined(f, h, i) /\ i # h => f[i].kind = "key" /\ f[i].on = f[h].on
NoneTwice(f, h) ==
  \A i, j \in DOMAIN f :
    Joined(f, h, i) /\ Joined(f, h, j) /\ i # h /\ j # h /\ f[i].name = f[j].name => i = j
StandsApart(f, h) ==
  \A g \in DOMAIN f : g < h /\ IsHeader(f[g]) => \E b \in g + 1 .. h - 1 : f[b].kind = "blank"
Block(f, h) ==
  (\A k \in Spoolmans(f) : k = h) /\ KeysAlone(f, h) /\ NoneTwice(f, h) /\ StandsApart(f, h)

LaidOut(f) == f \in Seq(Lines) /\ Sections(f) /\ \A h \in Spoolmans(f) : Block(f, h)

\* The key k of section s is at i; it reads as v.
KeyAt(f, s, k, i) ==
  IsKey(f[i]) /\ f[i].name = k /\ \E h \in DOMAIN f : Under(f, h, i) /\ f[h].name = s
Reads(f, s, k, v) == \E i \in DOMAIN f : KeyAt(f, s, k, i) /\ f[i].val = v

LEMMA LeastNat ==
  ASSUME NEW T \in SUBSET Nat, T # {}
  PROVE  \E x \in T : \A y \in T : x <= y
<1> DEFINE R == OpToRel(<, Nat)
<1>1. IsWellFoundedOn(R, Nat) BY NatLessThanWellFounded
<1>2. \A x, y \in Nat : <<y, x>> \in R <=> y < x
  BY DEF OpToRel
<1> HIDE DEF R
<1>3. PICK x \in T : \A y \in T : ~ (<<y, x>> \in R)
  BY <1>1, WFMin
<1>4. \A y \in T : ~ (y < x) BY <1>2, <1>3
<1>5. \A y \in T : x <= y BY <1>4
<1> QED BY <1>5

LEMMA MinIs == ASSUME NEW T \in SUBSET Nat, NEW x \in T, \A y \in T : x <= y PROVE Min(T) = x
<1>1. Min(T) = CHOOSE z \in T : \A y \in T : z <= y BY DEF Min
<1>2. \A z \in T : (\A y \in T : z <= y) => z = x OBVIOUS
<1> QED BY <1>1, <1>2

LEMMA MaxIs == ASSUME NEW T \in SUBSET Nat, NEW x \in T, \A y \in T : y <= x PROVE Max(T) = x
<1>1. Max(T) = CHOOSE z \in T : \A y \in T : z >= y BY DEF Max
<1>2. \A z \in T : (\A y \in T : z >= y) => z = x OBVIOUS
<1> QED BY <1>1, <1>2

LEMMA MinOf ==
  ASSUME NEW T \in SUBSET Nat, T # {}
  PROVE  Min(T) \in T /\ \A y \in T : Min(T) <= y
<1>1. PICK x \in T : \A y \in T : x <= y BY LeastNat
<1> QED BY <1>1, MinIs

LEMMA FirstIs ==
  ASSUME NEW T \in SUBSET Nat, NEW n
  PROVE  /\ T = {} => FirstOf(T, n) = n
         /\ T # {} => FirstOf(T, n) \in T /\ \A y \in T : FirstOf(T, n) <= y
         /\ \A x : T = {x} => FirstOf(T, n) = x
<1>1. T # {} => FirstOf(T, n) = Min(T) BY DEF FirstOf
<1> QED BY <1>1, MinOf DEF FirstOf

LEMMA Dom == ASSUME NEW f \in Seq(Lines) PROVE /\ Len(f) \in Nat /\ DOMAIN f = 1 .. Len(f)
    /\ \A i \in DOMAIN f : f[i] \in Lines
  BY LenProperties

LEMMA UnderOne ==
  ASSUME NEW f \in Seq(Lines), NEW h, NEW g, NEW i, Under(f, h, i), Under(f, g, i)
  PROVE  g = h
<1> DOMAIN f \in SUBSET Nat BY Dom
<1>1. ASSUME NEW x \in DOMAIN f, NEW y \in DOMAIN f, x < y, Under(f, x, i), Under(f, y, i) PROVE FALSE
  <2>1. y \in x + 1 .. i - 1 BY <1>1 DEF Under
  <2> QED BY <1>1, <2>1 DEF Under, Stops
<1>2. h \in DOMAIN f /\ g \in DOMAIN f BY DEF Under
<1> QED BY <1>1, <1>2

LEMMA SectionIs ==
  ASSUME NEW f \in Seq(Lines), NEW h, NEW i, Under(f, h, i)
  PROVE  SectionOf(f, i) = f[h].name
<1> DEFINE hs == {g \in 1 .. i - 1 : IsHeader(f[g])}
<1>0. DOMAIN f = 1 .. Len(f) /\ Len(f) \in Nat BY Dom
<1>1. h \in hs BY <1>0 DEF Under
<1>2. ASSUME NEW g \in hs PROVE g <= h
  <2>1. g \notin h + 1 .. i - 1 BY DEF Under, Stops
  <2> QED BY <1>0, <2>1 DEF Under
<1>3. hs \in SUBSET Nat BY <1>0 DEF Under
<1>4. SectionOf(f, i) = f[Max(hs)].name BY <1>1 DEF SectionOf
<1> HIDE DEF hs
<1>5. Max(hs) = h BY <1>1, <1>2, <1>3, MaxIs
<1> QED BY <1>4, <1>5

\* Such a file is one that configparser reads ...
LEMMA LaidOutReads == ASSUME NEW f, LaidOut(f) PROVE Readable(f)
<1>1. f \in Seq(Lines) /\ Sections(f) BY DEF LaidOut
<1>2. \A i \in DOMAIN f : ~(f[i].kind = "prose" /\ f[i].on) BY <1>1 DEF Sections, ProseOff
<1>3. ASSUME NEW i \in DOMAIN f, IsKey(f[i]) PROVE SectionOf(f, i) # ""
  <2>1. PICK h \in DOMAIN f : Under(f, h, i) BY <1>1, <1>3 DEF Sections, KeysPlaced
  <2>2. SectionOf(f, i) = f[h].name BY <1>1, <2>1, SectionIs
  <2> QED BY <1>1, <2>1, <2>2 DEF Sections, HeadersNamed, Under
<1>4. \A i, j \in DOMAIN f : i # j => ~(IsHeader(f[i]) /\ IsHeader(f[j]) /\ f[i].name = f[j].name)
  BY <1>1 DEF Sections, HeadersDiffer
<1>5. ASSUME NEW i \in DOMAIN f, NEW j \in DOMAIN f, IsKey(f[i]), IsKey(f[j]), f[i].name = f[j].name,
             SectionOf(f, i) = SectionOf(f, j)
      PROVE  i = j
  <2>1. PICK h \in DOMAIN f : Under(f, h, i) BY <1>1, <1>5 DEF Sections, KeysPlaced
  <2>2. PICK g \in DOMAIN f : Under(f, g, j) BY <1>1, <1>5 DEF Sections, KeysPlaced
  <2>3. f[h].name = f[g].name BY <1>1, <1>5, <2>1, <2>2, SectionIs
  <2>4. h = g BY <1>1, <2>1, <2>2, <2>3 DEF Sections, HeadersDiffer, Under
  <2> QED BY <1>1, <1>5, <2>1, <2>2, <2>4 DEF Sections, KeysDiffer
<1> QED BY <1>2, <1>3, <1>4, <1>5 DEF Readable

\* ... and a key reads as the line there is says.
LEMMA ReadsValue ==
  ASSUME NEW f, LaidOut(f), NEW s, NEW k, NEW d
  PROVE  /\ \A v : Reads(f, s, k, v) => GetValue(f, s, k, d) = v
         /\ (\A v : ~Reads(f, s, k, v)) => GetValue(f, s, k, d) = d
<1> DEFINE at == {i \in DOMAIN f : IsKey(f[i]) /\ f[i].name = k /\ SectionOf(f, i) = s}
<1>1. f \in Seq(Lines) /\ Sections(f) /\ Readable(f) BY LaidOutReads DEF LaidOut
<1>2. \A i \in DOMAIN f : i \in at <=> KeyAt(f, s, k, i)
  <2> SUFFICES ASSUME NEW i \in DOMAIN f, IsKey(f[i])
               PROVE  SectionOf(f, i) = s <=> \E h \in DOMAIN f : Under(f, h, i) /\ f[h].name = s
    BY DEF KeyAt
  <2>1. PICK h \in DOMAIN f : Under(f, h, i) BY <1>1 DEF Sections, KeysPlaced
  <2>2. SectionOf(f, i) = f[h].name BY <1>1, <2>1, SectionIs
  <2>3. \A g \in DOMAIN f : Under(f, g, i) => g = h BY <1>1, <2>1, UnderOne
  <2> QED BY <2>1, <2>2, <2>3
<1>3. \A i, j \in at : i = j
  BY <1>1 DEF Readable
<1>4. at \in SUBSET Nat BY <1>1, Dom
<1>5. at # {} => GetValue(f, s, k, d) = f[Min(at)].val BY <1>1 DEF GetValue
<1>6. at = {} => GetValue(f, s, k, d) = d BY <1>1 DEF GetValue
<1>7. at \subseteq DOMAIN f OBVIOUS
<1> HIDE DEF at
<1>8. ASSUME NEW v, Reads(f, s, k, v) PROVE GetValue(f, s, k, d) = v
  <2>1. PICK i \in DOMAIN f : KeyAt(f, s, k, i) /\ f[i].val = v BY <1>8 DEF Reads
  <2>2. i \in at BY <1>2, <2>1
  <2>3. Min(at) = i BY <1>3, <1>4, <2>2, MinOf
  <2> QED BY <1>5, <2>1, <2>2, <2>3
<1>9. ASSUME \A v : ~Reads(f, s, k, v) PROVE at = {}
  BY <1>2, <1>7, <1>9 DEF Reads
<1> QED BY <1>6, <1>8, <1>9

LEMMA SameValue ==
  ASSUME NEW f, LaidOut(f), NEW g, LaidOut(g), NEW s, NEW k, NEW d,
         \A v : Reads(g, s, k, v) <=> Reads(f, s, k, v)
  PROVE  GetValue(g, s, k, d) = GetValue(f, s, k, d)
<1>1. CASE \E v : Reads(f, s, k, v) BY <1>1, ReadsValue
<1>2. CASE \A v : ~Reads(f, s, k, v)
  <2>1. \A v : ~Reads(g, s, k, v) BY <1>2
  <2> QED BY <1>2, <2>1, ReadsValue
<1> QED BY <1>1, <1>2

--------------------------------------------------------------------------------
(* Sections, paragraphs and new lines as the edits find and make them.       *)

LEMMA LinesOK ==
  ASSUME NEW s \in Texts, NEW k \in Texts, NEW v \in Texts
  PROVE  Header(s) \in Lines /\ Key(k, v) \in Lines /\ Blank \in Lines
<1>1. "" \in Texts BY DEF Texts
<1> QED BY <1>1 DEF Header, Key, Blank, Lines

LEMMA HeaderIs ==
  \A s : Header(s).kind = "header" /\ Header(s).name = s /\ Header(s).on = TRUE
  BY DEF Header

LEMMA KeyIs ==
  \A k, v : Key(k, v).kind = "key" /\ Key(k, v).name = k /\ Key(k, v).val = v /\ Key(k, v).on = TRUE
  BY DEF Key

LEMMA BlankIs == Blank.kind = "blank"
  BY DEF Blank

LEMMA SectionAtIs ==
  ASSUME NEW f, LaidOut(f), NEW s
  PROVE  \/ SectionAt(f, s) = 0 /\ \A i \in DOMAIN f : ~(IsHeader(f[i]) /\ f[i].name = s)
         \/ /\ SectionAt(f, s) \in DOMAIN f /\ SectionAt(f, s) # 0
            /\ IsHeader(f[SectionAt(f, s)]) /\ f[SectionAt(f, s)].name = s
<1> DEFINE T == {i \in DOMAIN f : IsHeader(f[i]) /\ f[i].name = s}
<1>1. DOMAIN f = 1 .. Len(f) /\ Len(f) \in Nat BY Dom DEF LaidOut
<1>2. T \in SUBSET Nat /\ T \subseteq DOMAIN f BY <1>1
<1>3. SectionAt(f, s) = FirstOf(T, 0) BY DEF SectionAt
<1>4. CASE T = {}
  <2>1. FirstOf(T, 0) = 0 BY <1>2, <1>4, FirstIs
  <2> QED BY <1>3, <1>4, <2>1
<1>5. CASE T # {}
  <2>1. FirstOf(T, 0) \in T BY <1>2, <1>5, FirstIs
  <2> QED BY <1>1, <1>3, <2>1
<1> QED BY <1>4, <1>5

LEMMA SectionEndIs ==
  ASSUME NEW f \in Seq(Lines), NEW h \in DOMAIN f
  PROVE  /\ SectionEnd(f, h) \in h + 1 .. Len(f) + 1
         /\ \A j \in h + 1 .. SectionEnd(f, h) - 1 : ~Stops(f[j])
         /\ SectionEnd(f, h) <= Len(f) => Stops(f[SectionEnd(f, h)])
<1> DEFINE T == {i \in h + 1 .. Len(f) : IsHeader(f[i]) \/ f[i].kind = "blank"}
<1>1. DOMAIN f = 1 .. Len(f) /\ Len(f) \in Nat BY Dom
<1>2. T \in SUBSET Nat /\ T \subseteq h + 1 .. Len(f) BY <1>1
<1>3. SectionEnd(f, h) = FirstOf(T, Len(f) + 1) BY DEF SectionEnd
<1>4. \A i \in h + 1 .. Len(f) : i \in T <=> Stops(f[i]) BY DEF Stops
<1> HIDE DEF T
<1>5. CASE T = {}
  <2>1. FirstOf(T, Len(f) + 1) = Len(f) + 1 BY <1>2, <1>5, FirstIs
  <2> QED BY <1>1, <1>3, <1>4, <1>5, <2>1
<1>6. CASE T # {}
  <2> DEFINE n == FirstOf(T, Len(f) + 1)
  <2>1. n \in T /\ \A y \in T : n <= y BY <1>2, <1>6, FirstIs
  <2>2. SectionEnd(f, h) = n BY <1>3
  <2> HIDE DEF n
  <2>3. n \in h + 1 .. Len(f) BY <1>2, <2>1
  <2>4. \A j \in h + 1 .. n - 1 : j \notin T BY <1>1, <2>1, <2>3
  <2>5. \A j \in h + 1 .. n - 1 : ~Stops(f[j]) BY <1>1, <1>4, <2>3, <2>4
  <2> QED BY <1>1, <1>4, <2>1, <2>2, <2>3, <2>5
<1> QED BY <1>5, <1>6

LEMMA ParagraphIs ==
  ASSUME NEW f \in Seq(Lines), NEW h \in DOMAIN f
  PROVE  \A i \in DOMAIN f : i \in Paragraph(f, h) <=> Joined(f, h, i)
<1> DEFINE T == {i \in h .. Len(f) : f[i].kind = "blank"}
           n == FirstOf(T, Len(f) + 1)
<1>1. DOMAIN f = 1 .. Len(f) /\ Len(f) \in Nat BY Dom
<1>2. T \in SUBSET Nat /\ T \subseteq h .. Len(f) BY <1>1
<1>3. Paragraph(f, h) = h .. n - 1 BY DEF Paragraph
<1>4. \A i \in h .. Len(f) : i \in T <=> f[i].kind = "blank" OBVIOUS
<1> HIDE DEF T
<1>5. n \in h .. Len(f) + 1 /\ (\A j \in h .. n - 1 : f[j].kind # "blank")
      /\ (n <= Len(f) => f[n].kind = "blank")
  <2>1. CASE T = {}
    <3>1. n = Len(f) + 1 BY <1>2, <2>1, FirstIs
    <3> QED BY <1>1, <1>4, <2>1, <3>1
  <2>2. CASE T # {}
    <3>1. n \in T /\ \A y \in T : n <= y BY <1>2, <2>2, FirstIs
    <3> HIDE DEF n
    <3>2. n \in h .. Len(f) BY <1>2, <3>1
    <3>3. \A j \in h .. n - 1 : j \notin T BY <1>1, <3>1, <3>2
    <3>4. \A j \in h .. n - 1 : f[j].kind # "blank" BY <1>1, <1>4, <3>2, <3>3
    <3> QED BY <1>1, <1>4, <3>1, <3>2, <3>4
  <2> QED BY <2>1, <2>2
<1> HIDE DEF n
<1> QED BY <1>1, <1>3, <1>5 DEF Joined

LEMMA InsertedIs ==
  ASSUME NEW f \in Seq(Lines), NEW n \in 1 .. Len(f) + 1, NEW x \in Lines
  PROVE  /\ Inserted(f, n, x) \in Seq(Lines) /\ Len(Inserted(f, n, x)) = Len(f) + 1
         /\ \A i \in 1 .. n - 1 : Inserted(f, n, x)[i] = f[i]
         /\ Inserted(f, n, x)[n] = x
         /\ \A i \in n .. Len(f) : Inserted(f, n, x)[i + 1] = f[i]
<1>1. DOMAIN f = 1 .. Len(f) /\ Len(f) \in Nat /\ \A i \in DOMAIN f : f[i] \in Lines BY Dom
<1> DEFINE a == SubSeq(f, 1, n - 1)
           c == SubSeq(f, n, Len(f))
<1>2. a \in Seq(Lines) /\ Len(a) = n - 1 /\ \A i \in 1 .. n - 1 : a[i] = f[i]
  BY <1>1
<1>3. c \in Seq(Lines) /\ Len(c) = Len(f) - n + 1 /\ \A i \in 1 .. Len(f) - n + 1 : c[i] = f[n + i - 1]
  BY <1>1
<1>4. Inserted(f, n, x) = (a \o <<x>>) \o c BY DEF Inserted
<1> HIDE DEF a, c
<1>5. <<x>> \in Seq(Lines) /\ Len(<<x>>) = 1 /\ <<x>>[1] = x OBVIOUS
<1>6. (a \o <<x>>) \in Seq(Lines) /\ Len(a \o <<x>>) = n /\ (\A i \in 1 .. n - 1 : (a \o <<x>>)[i] = f[i])
      /\ (a \o <<x>>)[n] = x
  BY <1>1, <1>2, <1>5
<1> DEFINE d == a \o <<x>>
<1> HIDE DEF d
<1>7. d \in Seq(Lines) /\ Len(d) = n /\ (\A i \in 1 .. n - 1 : d[i] = f[i]) /\ d[n] = x BY <1>6 DEF d
<1>8. Inserted(f, n, x) = d \o c BY <1>4 DEF d
<1>9. (d \o c) \in Seq(Lines) /\ Len(d \o c) = Len(f) + 1
      /\ (\A i \in 1 .. n : (d \o c)[i] = d[i]) /\ (\A i \in n .. Len(f) : (d \o c)[i + 1] = c[i + 1 - n])
  <2> DEFINE w == d \o c
  <2>1. w \in Seq(Lines) /\ Len(w) = Len(d) + Len(c)
        /\ \A i \in 1 .. Len(d) + Len(c) : w[i] = IF i <= Len(d) THEN d[i] ELSE c[i - Len(d)]
    BY <1>3, <1>7, ConcatProperties
  <2> HIDE DEF w
  <2>2. Len(w) = Len(f) + 1 BY <1>1, <1>3, <1>7, <2>1
  <2>3. \A i \in 1 .. Len(f) + 1 : w[i] = IF i <= n THEN d[i] ELSE c[i - n] BY <1>1, <1>3, <1>7, <2>1
  <2>4. \A i \in 1 .. n : w[i] = d[i] BY <1>1, <2>3
  <2>5. ASSUME NEW i \in n .. Len(f) PROVE w[i + 1] = c[i + 1 - n]
    <3>1. i + 1 \in 1 .. Len(f) + 1 /\ ~(i + 1 <= n) BY <1>1
    <3> QED BY <2>3, <3>1
  <2> QED BY <2>1, <2>2, <2>4, <2>5 DEF w
<1>10. \A i \in n .. Len(f) : c[i + 1 - n] = f[i]
  <2> TAKE i \in n .. Len(f)
  <2>1. i + 1 - n \in 1 .. Len(f) - n + 1 /\ n + (i + 1 - n) - 1 = i BY <1>1
  <2> QED BY <1>3, <2>1
<1> QED BY <1>1, <1>7, <1>8, <1>9, <1>10

\* g is f with two lines at its end, after a blank one unless they are the first.
Appended(f, g, m, x, y) ==
  /\ Len(g) = m + 2 /\ m \in {Len(f), Len(f) + 1} /\ (m = Len(f) => Len(f) = 0)
  /\ \A i \in 1 .. Len(f) : g[i] = f[i]
  /\ \A i \in Len(f) + 1 .. m : g[i] = Blank
  /\ g[m + 1] = x /\ g[m + 2] = y

LEMMA AppendedIs ==
  ASSUME NEW f \in Seq(Lines), NEW x \in Lines, NEW y \in Lines, NEW g,
         g = f \o (IF f = <<>> THEN <<>> ELSE <<Blank>>) \o <<x, y>>
  PROVE  g \in Seq(Lines) /\ \E m \in Nat : Appended(f, g, m, x, y)
<1>1. Len(f) \in Nat /\ Blank \in Lines
  <2>1. "" \in Texts BY DEF Texts
  <2> QED BY <2>1, Dom, LinesOK
<1>2. CASE f = <<>>
  <2>1. g = <<x, y>> BY <1>2
  <2>2. g \in Seq(Lines) /\ Len(g) = 2 /\ g[1] = x /\ g[2] = y
    <3>1. <<x, y>> \in Seq(Lines) OBVIOUS
    <3>2. Len(<<x, y>>) = 2 /\ <<x, y>>[1] = x /\ <<x, y>>[2] = y OBVIOUS
    <3> QED BY <2>1, <3>1, <3>2
  <2>3. Len(f) = 0 BY <1>2
  <2>4. Appended(f, g, 0, x, y) BY <2>2, <2>3 DEF Appended
  <2> QED BY <2>2, <2>4
<1>3. CASE f # <<>>
  <2> DEFINE d == f \o <<Blank>>
  <2>1. g = d \o <<x, y>> BY <1>3
  <2>2. d \in Seq(Lines) /\ Len(d) = Len(f) + 1 /\ (\A i \in 1 .. Len(f) : d[i] = f[i]) /\ d[Len(f) + 1] = Blank
    BY <1>1
  <2> HIDE DEF d
  <2> DEFINE e == <<x, y>>
  <2>6. e \in Seq(Lines) /\ Len(e) = 2 /\ e[1] = x /\ e[2] = y OBVIOUS
  <2>7. g = d \o e BY <2>1
  <2> HIDE DEF e
  <2>8. (d \o e) \in Seq(Lines) /\ Len(d \o e) = Len(d) + Len(e)
        /\ \A i \in 1 .. Len(d) + Len(e) : (d \o e)[i] = IF i <= Len(d) THEN d[i] ELSE e[i - Len(d)]
    BY <2>2, <2>6, ConcatProperties
  <2>3. g \in Seq(Lines) /\ Len(g) = Len(f) + 3 /\ (\A i \in 1 .. Len(f) + 1 : g[i] = d[i])
        /\ g[Len(f) + 2] = x /\ g[Len(f) + 3] = y
    <3>1. Len(g) = Len(f) + 3 /\ Len(d) = Len(f) + 1 /\ Len(d) + Len(e) = Len(f) + 3
      BY <1>1, <2>2, <2>6, <2>7, <2>8
    <3>2. \A i \in 1 .. Len(f) + 3 : g[i] = IF i <= Len(f) + 1 THEN d[i] ELSE e[i - (Len(f) + 1)]
      BY <2>7, <2>8, <3>1
    <3>3. \A i \in 1 .. Len(f) + 1 : g[i] = d[i] BY <1>1, <3>2
    <3>4. g[Len(f) + 2] = e[1] /\ g[Len(f) + 3] = e[2]
      <4>1. (Len(f) + 2) - (Len(f) + 1) = 1 /\ (Len(f) + 3) - (Len(f) + 1) = 2 BY <1>1
      <4>2. Len(f) + 2 \in 1 .. Len(f) + 3 /\ Len(f) + 3 \in 1 .. Len(f) + 3
            /\ ~(Len(f) + 2 <= Len(f) + 1) /\ ~(Len(f) + 3 <= Len(f) + 1)
        BY <1>1
      <4>3. g[Len(f) + 2] = e[(Len(f) + 2) - (Len(f) + 1)] BY <3>2, <4>2
      <4>4. g[Len(f) + 3] = e[(Len(f) + 3) - (Len(f) + 1)] BY <3>2, <4>2
      <4> QED BY <4>1, <4>3, <4>4
    <3> QED BY <2>6, <2>7, <2>8, <3>1, <3>3, <3>4
  <2>9. \A i \in Len(f) + 1 .. Len(f) + 1 : g[i] = Blank BY <1>1, <2>2, <2>3
  <2>10. (Len(f) + 1) + 1 = Len(f) + 2 /\ (Len(f) + 1) + 2 = Len(f) + 3 /\ Len(f) + 1 # Len(f) BY <1>1
  <2>11. \A i \in 1 .. Len(f) : g[i] = f[i] BY <1>1, <2>2, <2>3
  <2>4. Appended(f, g, Len(f) + 1, x, y) BY <2>3, <2>9, <2>10, <2>11 DEF Appended
  <2>5. Len(f) + 1 \in Nat BY <1>1
  <2> QED BY <2>3, <2>4, <2>5
<1> QED BY <1>2, <1>3

--------------------------------------------------------------------------------
(* A key is replaced.                                                        *)

\* No section of Spoolman is commented out.
NoneOff(f) == \A h \in Spoolmans(f) : f[h].on

\* What a file reads but for the key k of section s.
OthersRead(f, g, s, k) ==
  \A t, l, v : (t # s \/ l # k) => (Reads(g, t, l, v) <=> Reads(f, t, l, v))

Replaced(f, m, k, v) == [f EXCEPT ![m] = Key(k, v)]

LEMMA ReplaceKeeps ==
  ASSUME NEW f, LaidOut(f), NEW s, NEW k \in Texts, NEW v \in Texts, NEW m \in DOMAIN f,
         KeyAt(f, s, k, m), NEW g, g = Replaced(f, m, k, v)
  PROVE  LaidOut(g) /\ Reads(g, s, k, v) /\ OthersRead(f, g, s, k) /\ (NoneOff(f) => NoneOff(g))
<1>1. f \in Seq(Lines) /\ DOMAIN f = 1 .. Len(f) /\ Len(f) \in Nat /\ \A i \in DOMAIN f : f[i] \in Lines
  BY Dom DEF LaidOut
<1>2. g \in Seq(Lines) /\ DOMAIN g = DOMAIN f
  <2>1. Key(k, v) \in Lines
    <3>1. "" \in Texts BY DEF Texts
    <3> QED BY <3>1, LinesOK
  <2> QED BY <1>1, <2>1, ExceptSeq DEF Replaced
<1>3. /\ g[m] = Key(k, v) /\ \A i \in DOMAIN f : i # m => g[i] = f[i]
      /\ f[m].kind = "key" /\ f[m].on /\ f[m].name = k
  BY <1>1 DEF KeyAt, IsKey, Replaced
<1>4. \A i \in DOMAIN f : g[i].kind = f[i].kind /\ g[i].name = f[i].name /\ g[i].on = f[i].on
  <2>1. f[m].on = TRUE BY <1>1, <1>3 DEF Lines
  <2>2. g[m].kind = "key" /\ g[m].name = k /\ g[m].on = TRUE BY <1>3 DEF Key
  <2> QED BY <1>3, <2>1, <2>2
<1>5. \A i \in DOMAIN f : /\ IsHeader(g[i]) <=> IsHeader(f[i])
                          /\ IsKey(g[i]) <=> IsKey(f[i])
                          /\ Stops(g[i]) <=> Stops(f[i])
  <2> TAKE i \in DOMAIN f
  <2> QED BY <1>4 DEF IsHeader, IsKey, Stops
<1>6. \A h, i : Under(g, h, i) <=> Under(f, h, i)
  <2> SUFFICES ASSUME NEW h \in DOMAIN f, NEW i \in DOMAIN f
               PROVE  Under(g, h, i) <=> Under(f, h, i)
    BY <1>2 DEF Under
  <2>1. \A j \in h + 1 .. i - 1 : j \in DOMAIN f BY <1>1
  <2> QED BY <1>2, <1>5, <2>1 DEF Under
<1>7. \A i : \A h \in DOMAIN f : Joined(g, h, i) <=> Joined(f, h, i)
  BY <1>1, <1>2, <1>4 DEF Joined
<1>8. Spoolmans(g) = Spoolmans(f) /\ Spoolmans(f) \subseteq DOMAIN f BY <1>2, <1>4 DEF Spoolmans
<1>9. Sections(g)
  <2>0. DOMAIN g = DOMAIN f /\ Sections(f) BY <1>2 DEF LaidOut
  <2>1. ProseOff(g) BY <2>0, <1>4 DEF Sections, ProseOff
  <2>2. HeadersNamed(g) BY <2>0, <1>4, <1>5 DEF Sections, HeadersNamed
  <2>3. HeadersDiffer(g) BY <2>0, <1>4, <1>5 DEF Sections, HeadersDiffer
  <2>4. KeysPlaced(g) BY <2>0, <1>5, <1>6 DEF Sections, KeysPlaced
  <2>5. KeysDiffer(g)
    <3> SUFFICES ASSUME NEW h \in DOMAIN g, NEW i \in DOMAIN g, NEW j \in DOMAIN g,
                        Under(g, h, i), IsKey(g[i]), Under(g, h, j), IsKey(g[j]), g[i].name = g[j].name
                 PROVE  i = j
      BY DEF KeysDiffer
    <3>1. Under(f, h, i) /\ IsKey(f[i]) /\ Under(f, h, j) /\ IsKey(f[j]) BY <2>0, <1>5, <1>6
    <3>2. f[i].name = f[j].name BY <2>0, <1>4
    <3> QED BY <2>0, <3>1, <3>2 DEF Sections, KeysDiffer
  <2> QED BY <2>1, <2>2, <2>3, <2>4, <2>5 DEF Sections
<1>10. ASSUME NEW h \in Spoolmans(f) PROVE Block(g, h)
  <2>1. Block(f, h) /\ h \in DOMAIN f /\ DOMAIN g = DOMAIN f BY <1>2, <1>8, <1>10 DEF LaidOut
  <2>2. KeysAlone(g, h) BY <1>4, <1>7, <2>1 DEF Block, KeysAlone
  <2>3. NoneTwice(g, h) BY <1>4, <1>7, <2>1 DEF Block, NoneTwice
  <2>4. StandsApart(g, h)
    <3> SUFFICES ASSUME NEW q \in DOMAIN g, q < h, IsHeader(g[q])
                 PROVE  \E b \in q + 1 .. h - 1 : g[b].kind = "blank"
      BY DEF StandsApart
    <3>1. PICK b \in q + 1 .. h - 1 : f[b].kind = "blank" BY <1>5, <2>1 DEF Block, StandsApart
    <3>2. b \in DOMAIN f BY <1>1, <2>1
    <3> QED BY <1>4, <3>1, <3>2
  <2> QED BY <1>8, <2>1, <2>2, <2>3, <2>4 DEF Block
<1>11. LaidOut(g) BY <1>2, <1>8, <1>9, <1>10 DEF LaidOut
<1>12. \A t, l, i : i \in DOMAIN f => (KeyAt(g, t, l, i) <=> KeyAt(f, t, l, i))
  <2> SUFFICES ASSUME NEW t, NEW l, NEW i \in DOMAIN f PROVE KeyAt(g, t, l, i) <=> KeyAt(f, t, l, i)
    OBVIOUS
  <2>1. \A h \in DOMAIN f : (Under(g, h, i) /\ g[h].name = t) <=> (Under(f, h, i) /\ f[h].name = t)
    BY <1>4, <1>6
  <2> QED BY <1>2, <1>4, <1>5, <2>1 DEF KeyAt
<1>13. Reads(g, s, k, v)
  <2>1. g[m].val = v BY <1>3 DEF Key
  <2> QED BY <1>2, <1>12, <2>1 DEF Reads
<1>14. ASSUME NEW t, NEW l, NEW w, t # s \/ l # k PROVE Reads(g, t, l, w) <=> Reads(f, t, l, w)
  <2>1. ~KeyAt(f, t, l, m)
    BY <1>1, <1>3, <1>14, UnderOne DEF KeyAt
  <2>2. \A i \in DOMAIN f : KeyAt(f, t, l, i) => g[i] = f[i] BY <1>3, <2>1
  <2> QED BY <1>2, <1>12, <2>2 DEF Reads
<1> QED BY <1>4, <1>8, <1>11, <1>13, <1>14 DEF OthersRead, NoneOff

--------------------------------------------------------------------------------
(* A key is inserted at the end of its section.                              *)

\* Where line i goes when a line is inserted before line n.
Up(n, i) == IF i < n THEN i ELSE i + 1

LEMMA InsertKeeps ==
  ASSUME NEW f, LaidOut(f), NEW s, NEW k \in Texts, NEW v \in Texts, NEW h \in DOMAIN f,
         IsHeader(f[h]), f[h].name = s,
         \A i \in DOMAIN f : ~(Under(f, h, i) /\ IsKey(f[i]) /\ f[i].name = k),
         NEW n, n = SectionEnd(f, h), NEW g, g = Inserted(f, n, Key(k, v))
  PROVE  LaidOut(g) /\ Reads(g, s, k, v) /\ OthersRead(f, g, s, k) /\ (NoneOff(f) => NoneOff(g))
<1> DEFINE x == Key(k, v)
<1>1. f \in Seq(Lines) /\ DOMAIN f = 1 .. Len(f) /\ Len(f) \in Nat /\ \A i \in DOMAIN f : f[i] \in Lines
  BY Dom DEF LaidOut
<1>2. /\ n \in h + 1 .. Len(f) + 1 /\ n \in 1 .. Len(f) + 1
      /\ \A j \in h + 1 .. n - 1 : ~Stops(f[j])
      /\ n <= Len(f) => Stops(f[n])
  BY <1>1, SectionEndIs
<1>3. x \in Lines /\ x.kind = "key" /\ x.name = k /\ x.val = v /\ x.on = TRUE
  <2>1. "" \in Texts BY DEF Texts
  <2> QED BY <2>1, LinesOK DEF Key
<1>4. ~Stops(x) /\ ~IsHeader(x) /\ IsKey(x) BY <1>3 DEF Stops, IsHeader, IsKey
<1> HIDE DEF x
<1>5. /\ g \in Seq(Lines) /\ Len(g) = Len(f) + 1 /\ g[n] = x
      /\ \A i \in 1 .. n - 1 : g[i] = f[i]
      /\ \A i \in n .. Len(f) : g[i + 1] = f[i]
  <2>1. g = Inserted(f, n, x) BY DEF x
  <2>2. /\ Inserted(f, n, x) \in Seq(Lines) /\ Len(Inserted(f, n, x)) = Len(f) + 1
        /\ \A i \in 1 .. n - 1 : Inserted(f, n, x)[i] = f[i]
        /\ Inserted(f, n, x)[n] = x
        /\ \A i \in n .. Len(f) : Inserted(f, n, x)[i + 1] = f[i]
    <3> HIDE DEF x
    <3>1. f \in Seq(Lines) /\ n \in 1 .. Len(f) + 1 /\ x \in Lines BY <1>1, <1>2, <1>3
    <3> QED BY <3>1, InsertedIs
  <2> QED BY <2>1, <2>2
<1>6. DOMAIN g = 1 .. Len(f) + 1 /\ n \in DOMAIN g BY <1>1, <1>2, <1>5, Dom
<1>7. \A i \in DOMAIN f : Up(n, i) \in DOMAIN g /\ Up(n, i) # n /\ g[Up(n, i)] = f[i]
  <2> TAKE i \in DOMAIN f
  <2>1. CASE i < n BY <1>1, <1>2, <1>5, <1>6, <2>1 DEF Up
  <2>2. CASE ~(i < n) BY <1>1, <1>2, <1>5, <1>6, <2>2 DEF Up
  <2> QED BY <2>1, <2>2
<1>8. \A i, j \in DOMAIN f : (i < j <=> Up(n, i) < Up(n, j)) /\ (Up(n, i) = Up(n, j) => i = j)
  BY <1>1, <1>2 DEF Up
<1>9. \A j \in DOMAIN g : j # n => \E i \in DOMAIN f : j = Up(n, i)
  <2> SUFFICES ASSUME NEW j \in DOMAIN g, j # n PROVE \E i \in DOMAIN f : j = Up(n, i) OBVIOUS
  <2>1. CASE j < n
    <3>1. j \in DOMAIN f /\ j = Up(n, j) BY <1>1, <1>2, <1>6, <2>1 DEF Up
    <3> QED BY <3>1
  <2>2. CASE ~(j < n)
    <3>1. j - 1 \in DOMAIN f /\ j = Up(n, j - 1) BY <1>1, <1>2, <1>6, <2>2 DEF Up
    <3> QED BY <3>1
  <2> QED BY <2>1, <2>2
<1>10. Up(n, h) = h /\ \A i \in DOMAIN f : Up(n, i) < n <=> i < n BY <1>1, <1>2 DEF Up
\* Between two lines are those that were and perhaps the new one.
<1>11. \A a, i \in DOMAIN f : Under(g, Up(n, a), Up(n, i)) <=> Under(f, a, i)
  <2> TAKE a, i \in DOMAIN f
  <2>0. IsHeader(g[Up(n, a)]) <=> IsHeader(f[a]) BY <1>7
  <2>1. ASSUME Under(g, Up(n, a), Up(n, i)) PROVE Under(f, a, i)
    <3>1. ASSUME NEW j \in a + 1 .. i - 1 PROVE ~Stops(f[j])
      <4>1. j \in DOMAIN f /\ a < j /\ j < i BY <1>1
      <4>2. Up(n, j) \in Up(n, a) + 1 .. Up(n, i) - 1 BY <1>1, <1>6, <1>7, <1>8, <4>1
      <4>3. ~Stops(g[Up(n, j)]) BY <2>1, <4>2 DEF Under
      <4> QED BY <1>7, <4>1, <4>3
    <3> QED BY <1>8, <2>0, <2>1, <3>1 DEF Under
  <2>2. ASSUME Under(f, a, i) PROVE Under(g, Up(n, a), Up(n, i))
    <3>1. ASSUME NEW j \in Up(n, a) + 1 .. Up(n, i) - 1 PROVE ~Stops(g[j])
      <4>1. j \in DOMAIN g /\ Up(n, a) < j /\ j < Up(n, i) BY <1>6, <1>7
      <4>2. CASE j = n BY <1>4, <1>5, <4>2
      <4>3. CASE j # n
        <5>1. PICK m \in DOMAIN f : j = Up(n, m) BY <1>9, <4>1, <4>3
        <5>2. m \in a + 1 .. i - 1 BY <1>1, <1>8, <4>1, <5>1
        <5>3. ~Stops(f[m]) BY <2>2, <5>2 DEF Under
        <5> QED BY <1>7, <5>1, <5>3
      <4> QED BY <4>2, <4>3
    <3> QED BY <1>7, <1>8, <2>0, <2>2, <3>1 DEF Under
  <2> QED BY <2>1, <2>2
<1>12. Under(g, h, n)
  <2>1. h \in DOMAIN g /\ h < n /\ g[h] = f[h] BY <1>1, <1>2, <1>5, <1>6
  <2>2. \A j \in h + 1 .. n - 1 : g[j] = f[j] BY <1>1, <1>2, <1>5
  <2> QED BY <1>2, <1>6, <2>1, <2>2 DEF Under
<1>13. \A i : ~Under(g, n, i) BY <1>4, <1>5 DEF Under
<1>14. \A a : Under(g, a, n) => a = h BY <1>5, <1>12, UnderOne
<1>15. \A a, i \in DOMAIN f : Joined(g, Up(n, a), Up(n, i)) <=> Joined(f, a, i)
  <2> TAKE a, i \in DOMAIN f
  <2>0. Up(n, a) <= Up(n, i) <=> a <= i BY <1>1, <1>2 DEF Up
  <2>1. ASSUME Joined(g, Up(n, a), Up(n, i)) PROVE Joined(f, a, i)
    <3>1. ASSUME NEW j \in a .. i PROVE f[j].kind # "blank"
      <4>1. j \in DOMAIN f /\ a <= j /\ j <= i BY <1>1
      <4>2. Up(n, j) \in Up(n, a) .. Up(n, i) BY <1>1, <1>2, <4>1 DEF Up
      <4>3. g[Up(n, j)].kind # "blank" BY <2>1, <4>2 DEF Joined
      <4> QED BY <1>7, <4>1, <4>3
    <3> QED BY <2>0, <2>1, <3>1 DEF Joined
  <2>2. ASSUME Joined(f, a, i) PROVE Joined(g, Up(n, a), Up(n, i))
    <3>1. ASSUME NEW j \in Up(n, a) .. Up(n, i) PROVE g[j].kind # "blank"
      <4>1. j \in DOMAIN g /\ Up(n, a) <= j /\ j <= Up(n, i) BY <1>6, <1>7
      <4>2. CASE j = n BY <1>3, <1>5, <4>2
      <4>3. CASE j # n
        <5>1. PICK m \in DOMAIN f : j = Up(n, m) BY <1>9, <4>1, <4>3
        <5>2. m \in a .. i BY <1>1, <1>2, <4>1, <5>1 DEF Up
        <5>3. f[m].kind # "blank" BY <2>2, <5>2 DEF Joined
        <5> QED BY <1>7, <5>1, <5>3
      <4> QED BY <4>2, <4>3
    <3> QED BY <1>7, <2>0, <2>2, <3>1 DEF Joined
  <2> QED BY <2>1, <2>2
<1>16. /\ \A a \in DOMAIN f : Up(n, a) \in Spoolmans(g) <=> a \in Spoolmans(f)
       /\ n \notin Spoolmans(g)
  BY <1>3, <1>5, <1>6, <1>7 DEF Spoolmans
<1>17. Sections(f) /\ \A q \in Spoolmans(f) : Block(f, q) BY DEF LaidOut
<1>18. Sections(g)
  <2>1. ProseOff(g)
    <3> SUFFICES ASSUME NEW j \in DOMAIN g, g[j].kind = "prose" PROVE ~g[j].on BY DEF ProseOff
    <3>1. j # n BY <1>3, <1>5
    <3>2. PICK i \in DOMAIN f : j = Up(n, i) BY <1>9, <3>1
    <3> QED BY <1>7, <1>17, <3>2 DEF Sections, ProseOff
  <2>2. HeadersNamed(g)
    <3> SUFFICES ASSUME NEW j \in DOMAIN g, IsHeader(g[j]) PROVE g[j].name # "" BY DEF HeadersNamed
    <3>1. j # n BY <1>4, <1>5
    <3>2. PICK i \in DOMAIN f : j = Up(n, i) BY <1>9, <3>1
    <3> QED BY <1>7, <1>17, <3>2 DEF Sections, HeadersNamed
  <2>3. HeadersDiffer(g)
    <3> SUFFICES ASSUME NEW a \in DOMAIN g, NEW b \in DOMAIN g, IsHeader(g[a]), IsHeader(g[b]), g[a].name = g[b].name
                 PROVE  a = b
      BY DEF HeadersDiffer
    <3>1. a # n /\ b # n BY <1>4, <1>5
    <3>2. PICK i \in DOMAIN f : a = Up(n, i) BY <1>9, <3>1
    <3>3. PICK j \in DOMAIN f : b = Up(n, j) BY <1>9, <3>1
    <3>4. i = j BY <1>7, <1>17, <3>2, <3>3 DEF Sections, HeadersDiffer
    <3> QED BY <3>2, <3>3, <3>4
  <2>4. KeysPlaced(g)
    <3> SUFFICES ASSUME NEW j \in DOMAIN g, IsKey(g[j])
                 PROVE  \E a \in DOMAIN g : Under(g, a, j)
      BY DEF KeysPlaced
    <3>1. CASE j = n BY <1>12, <3>1 DEF Under
    <3>2. CASE j # n
      <4>1. PICK i \in DOMAIN f : j = Up(n, i) BY <1>9, <3>2
      <4>2. PICK a \in DOMAIN f : Under(f, a, i) BY <1>7, <1>17, <4>1 DEF Sections, KeysPlaced
      <4> QED BY <1>7, <1>11, <4>1, <4>2
    <3> QED BY <3>1, <3>2
  <2>5. KeysDiffer(g)
    <3> SUFFICES ASSUME NEW a \in DOMAIN g, NEW i \in DOMAIN g, NEW j \in DOMAIN g,
                        Under(g, a, i), Under(g, a, j), IsKey(g[i]), IsKey(g[j]), g[i].name = g[j].name
                 PROVE  i = j
      BY DEF KeysDiffer
    <3>1. a # n BY <1>13
    <3>2. PICK aa \in DOMAIN f : a = Up(n, aa) BY <1>9, <3>1
    <3>3. ASSUME NEW y \in DOMAIN g, y # n, Under(g, a, y), Under(g, a, n), IsKey(g[y]), g[y].name = g[n].name
          PROVE FALSE
      <4>1. PICK yy \in DOMAIN f : y = Up(n, yy) BY <1>9, <3>3
      <4>2. a = h BY <1>14, <3>3
      <4>3. aa = h BY <1>8, <1>10, <3>2, <4>2
      <4>4. Under(f, h, yy) BY <1>11, <3>2, <3>3, <4>1, <4>3
      <4>5. IsKey(f[yy]) /\ f[yy].name = k BY <1>3, <1>5, <1>7, <3>3, <4>1
      <4> QED BY <4>4, <4>5
    <3>4. CASE i # n /\ j # n
      <4>1. PICK ii \in DOMAIN f : i = Up(n, ii) BY <1>9, <3>4
      <4>2. PICK jj \in DOMAIN f : j = Up(n, jj) BY <1>9, <3>4
      <4>3. Under(f, aa, ii) /\ Under(f, aa, jj) BY <1>11, <3>2, <4>1, <4>2
      <4>4. ii = jj BY <1>7, <1>17, <4>1, <4>2, <4>3 DEF Sections, KeysDiffer
      <4> QED BY <4>1, <4>2, <4>4
    <3> QED BY <3>3, <3>4
  <2> QED BY <2>1, <2>2, <2>3, <2>4, <2>5 DEF Sections
\* Spoolman's paragraph has the new line only if it is the section it goes to.
<1>19. ASSUME NEW q \in Spoolmans(f), Joined(g, Up(n, q), n) PROVE q = h
  <2>1. q \in DOMAIN f /\ f[q].kind = "header" /\ Block(f, q) BY <1>17 DEF Spoolmans
  <2>2. q < n /\ Up(n, q) = q BY <1>1, <1>2, <1>19, <2>1 DEF Joined, Up
  <2>3. \A j \in q .. n - 1 : f[j].kind # "blank"
    <3> TAKE j \in q .. n - 1
    <3>1. g[j] = f[j] /\ j \in q .. n BY <1>1, <1>2, <1>5, <2>1, <2>2
    <3> QED BY <1>19, <2>2, <3>1 DEF Joined
  <2>4. ASSUME q < h PROVE FALSE
    <3>1. Joined(f, q, h)
      <4>1. \A j \in q .. h : j \in q .. n - 1 BY <1>1, <1>2, <2>1
      <4> QED BY <1>1, <2>1, <2>3, <2>4, <4>1 DEF Joined
    <3>2. f[h].kind = "key" BY <1>1, <2>1, <2>4, <3>1 DEF Block, KeysAlone
    <3> QED BY <3>2 DEF IsHeader
  <2>5. ASSUME h < q PROVE FALSE
    <3>1. PICK b \in h + 1 .. q - 1 : f[b].kind = "blank" BY <2>1, <2>5 DEF Block, StandsApart
    <3>2. b \in h + 1 .. n - 1 BY <1>1, <1>2, <2>1, <2>2
    <3> QED BY <1>2, <3>1, <3>2 DEF Stops
  <2> QED BY <1>1, <2>1, <2>4, <2>5
<1>20. ASSUME NEW p \in Spoolmans(g) PROVE Block(g, p)
  <2>1. p # n /\ p \in DOMAIN g BY <1>16, <1>20 DEF Spoolmans
  <2>2. PICK q \in DOMAIN f : p = Up(n, q) BY <1>9, <2>1
  <2>3. q \in Spoolmans(f) /\ Block(f, q) BY <1>16, <1>17, <1>20, <2>2
  <2>4. \A m \in Spoolmans(g) : m = p
    <3> TAKE m \in Spoolmans(g)
    <3>1. m # n /\ m \in DOMAIN g BY <1>16 DEF Spoolmans
    <3>2. PICK mm \in DOMAIN f : m = Up(n, mm) BY <1>9, <3>1
    <3>3. mm \in Spoolmans(f) BY <1>16, <3>2
    <3> QED BY <2>2, <2>3, <3>2, <3>3 DEF Block
  <2>5. \A i \in DOMAIN f : i # q => Up(n, i) # p BY <1>8, <2>2
  \* Every line of the paragraph of h is one of its keys.
  <2>6. ASSUME q = h, NEW i \in DOMAIN f, i # q, Joined(f, q, i) PROVE IsKey(f[i]) /\ Under(f, h, i)
    <3>1. f[h].on BY DEF IsHeader
    <3>2. \A j \in DOMAIN f : Joined(f, h, j) /\ j # h => f[j].kind = "key" /\ f[j].on = f[h].on
      BY <2>3, <2>6 DEF Block, KeysAlone
    <3>3. h < i BY <1>1, <2>6 DEF Joined
    <3>4. ASSUME NEW j \in h + 1 .. i - 1 PROVE ~Stops(f[j])
      <4>1. j \in DOMAIN f /\ j # h BY <1>1
      <4>2. Joined(f, h, j)
        <5>1. \A m \in h .. j : m \in h .. i BY <1>1, <4>1
        <5> QED BY <1>1, <2>6, <4>1, <5>1 DEF Joined
      <4>3. f[j].kind = "key" BY <3>2, <4>1, <4>2
      <4> QED BY <4>3 DEF Stops, IsHeader
    <3> QED BY <2>6, <3>1, <3>2, <3>3, <3>4 DEF Under, IsKey
  <2>7. KeysAlone(g, p)
    <3> SUFFICES ASSUME NEW j \in DOMAIN g, Joined(g, p, j), j # p
                 PROVE  g[j].kind = "key" /\ g[j].on = g[p].on
      BY DEF KeysAlone
    <3>1. CASE j = n
      <4>1. q = h BY <1>19, <2>2, <2>3, <3>1
      <4>2. g[p].on = TRUE
        <5>1. g[p] = f[h] BY <1>7, <2>2, <4>1
        <5> QED BY <1>1, <5>1 DEF IsHeader, Lines
      <4> QED BY <1>3, <1>5, <3>1, <4>2
    <3>2. CASE j # n
      <4>1. PICK i \in DOMAIN f : j = Up(n, i) BY <1>9, <3>2
      <4>2. Joined(f, q, i) /\ i # q BY <1>15, <2>2, <4>1
      <4>3. f[i].kind = "key" /\ f[i].on = f[q].on BY <2>3, <4>2 DEF Block, KeysAlone
      <4> QED BY <1>7, <2>2, <4>1, <4>3
    <3> QED BY <3>1, <3>2
  <2>8. NoneTwice(g, p)
    <3> SUFFICES ASSUME NEW i \in DOMAIN g, NEW j \in DOMAIN g, Joined(g, p, i), Joined(g, p, j), i # p, j # p,
                        g[i].name = g[j].name
                 PROVE  i = j
      BY DEF NoneTwice
    <3>1. ASSUME NEW y \in DOMAIN g, y # n, y # p, Joined(g, p, y), Joined(g, p, n), g[y].name = g[n].name
          PROVE FALSE
      <4>1. PICK yy \in DOMAIN f : y = Up(n, yy) BY <1>9, <3>1
      <4>2. q = h BY <1>19, <2>2, <2>3, <3>1
      <4>3. Joined(f, q, yy) /\ yy # q BY <1>15, <2>2, <3>1, <4>1
      <4>4. IsKey(f[yy]) /\ Under(f, h, yy) BY <2>6, <4>2, <4>3
      <4>5. f[yy].name = k BY <1>3, <1>5, <1>7, <3>1, <4>1
      <4> QED BY <4>4, <4>5
    <3>2. CASE i # n /\ j # n
      <4>1. PICK ii \in DOMAIN f : i = Up(n, ii) BY <1>9, <3>2
      <4>2. PICK jj \in DOMAIN f : j = Up(n, jj) BY <1>9, <3>2
      <4>3. Joined(f, q, ii) /\ Joined(f, q, jj) /\ ii # q /\ jj # q BY <1>15, <2>2, <4>1, <4>2
      <4>4. f[ii].name = f[jj].name BY <1>7, <4>1, <4>2
      <4>5. ii = jj BY <2>3, <4>3, <4>4 DEF Block, NoneTwice
      <4> QED BY <4>1, <4>2, <4>5
    <3> QED BY <3>1, <3>2
  <2>9. StandsApart(g, p)
    <3> SUFFICES ASSUME NEW a \in DOMAIN g, a < p, IsHeader(g[a])
                 PROVE  \E b \in a + 1 .. p - 1 : g[b].kind = "blank"
      BY DEF StandsApart
    <3>1. a # n BY <1>4, <1>5
    <3>2. PICK aa \in DOMAIN f : a = Up(n, aa) BY <1>9, <3>1
    <3>3. aa < q /\ IsHeader(f[aa]) BY <1>7, <1>8, <2>2, <3>2
    <3>4. PICK b \in aa + 1 .. q - 1 : f[b].kind = "blank" BY <2>3, <3>3 DEF Block, StandsApart
    <3>5. b \in DOMAIN f /\ aa < b /\ b < q BY <1>1
    <3>6. Up(n, b) \in a + 1 .. p - 1 /\ g[Up(n, b)].kind = "blank"
      BY <1>6, <1>7, <1>8, <2>2, <3>2, <3>4, <3>5
    <3> QED BY <3>6
  <2> QED BY <2>4, <2>7, <2>8, <2>9 DEF Block
<1>21. LaidOut(g) BY <1>5, <1>18, <1>20 DEF LaidOut
<1>22. Reads(g, s, k, v)
  <2>1. g[h] = f[h] BY <1>7, <1>10
  <2>2. KeyAt(g, s, k, n) BY <1>3, <1>4, <1>5, <1>12, <2>1 DEF KeyAt, Under
  <2> QED BY <1>3, <1>5, <1>6, <2>2 DEF Reads
<1>23. ASSUME NEW t, NEW l, NEW w, t # s \/ l # k PROVE Reads(g, t, l, w) <=> Reads(f, t, l, w)
  <2>1. ~KeyAt(g, t, l, n)
    <3>1. g[h].name = s BY <1>7, <1>10
    <3>2. g[n].name = k BY <1>3, <1>5
    <3> QED BY <1>14, <1>23, <3>1, <3>2 DEF KeyAt
  <2>2. ASSUME NEW i \in DOMAIN f PROVE KeyAt(g, t, l, Up(n, i)) <=> KeyAt(f, t, l, i)
    <3>1. ASSUME NEW a \in DOMAIN g, Under(g, a, Up(n, i)), g[a].name = t
          PROVE  \E b \in DOMAIN f : Under(f, b, i) /\ f[b].name = t
      <4>1. a # n BY <1>13, <3>1
      <4>2. PICK b \in DOMAIN f : a = Up(n, b) BY <1>9, <4>1
      <4> QED BY <1>7, <1>11, <3>1, <4>2
    <3>2. ASSUME NEW b \in DOMAIN f, Under(f, b, i), f[b].name = t
          PROVE  \E a \in DOMAIN g : Under(g, a, Up(n, i)) /\ g[a].name = t
      BY <1>7, <1>11, <3>2
    <3>3. g[Up(n, i)] = f[i] BY <1>7
    <3> QED BY <3>1, <3>2, <3>3 DEF KeyAt
  <2>3. ASSUME Reads(g, t, l, w) PROVE Reads(f, t, l, w)
    <3>1. PICK j \in DOMAIN g : KeyAt(g, t, l, j) /\ g[j].val = w BY <2>3 DEF Reads
    <3>2. j # n BY <2>1, <3>1
    <3>3. PICK i \in DOMAIN f : j = Up(n, i) BY <1>9, <3>2
    <3> QED BY <1>7, <2>2, <3>1, <3>3 DEF Reads
  <2>4. ASSUME Reads(f, t, l, w) PROVE Reads(g, t, l, w)
    <3>1. PICK i \in DOMAIN f : KeyAt(f, t, l, i) /\ f[i].val = w BY <2>4 DEF Reads
    <3> QED BY <1>7, <2>2, <3>1 DEF Reads
  <2> QED BY <2>3, <2>4
<1>24. ASSUME NoneOff(f) PROVE NoneOff(g)
  <2> SUFFICES ASSUME NEW p \in Spoolmans(g) PROVE g[p].on BY DEF NoneOff
  <2>1. p # n /\ p \in DOMAIN g BY <1>16 DEF Spoolmans
  <2>2. PICK q \in DOMAIN f : p = Up(n, q) BY <1>9, <2>1
  <2> QED BY <1>7, <1>16, <1>24, <2>2 DEF NoneOff
<1> QED BY <1>21, <1>22, <1>23, <1>24 DEF OthersRead

--------------------------------------------------------------------------------
(* A section is appended.                                                    *)

Names == Texts \ {""}

LEMMA AppendKeeps ==
  ASSUME NEW f, LaidOut(f), NEW s \in Names, NEW k \in Texts, NEW v \in Texts,
         \A i \in DOMAIN f : ~(IsHeader(f[i]) /\ f[i].name = s),
         s = "spoolman" => NoneOff(f),
         NEW m \in Nat, NEW g \in Seq(Lines), Appended(f, g, m, Header(s), Key(k, v))
  PROVE  LaidOut(g) /\ Reads(g, s, k, v) /\ OthersRead(f, g, s, k) /\ (NoneOff(f) => NoneOff(g))
<1>0. f \in Seq(Lines) /\ DOMAIN f = 1 .. Len(f) /\ Len(f) \in Nat /\ \A i \in DOMAIN f : f[i] \in Lines
  BY Dom DEF LaidOut
<1> PICK N \in Nat : N = Len(f) BY <1>0
<1> DEFINE H == m + 1
           K == m + 2
<1>1. f \in Seq(Lines) /\ DOMAIN f = 1 .. N /\ N \in Nat /\ \A i \in DOMAIN f : f[i] \in Lines
  BY <1>0
<1>2. /\ m \in {N, N + 1} /\ (m = N => N = 0) /\ DOMAIN g = 1 .. m + 2
      /\ \A i \in DOMAIN f : i \in DOMAIN g /\ g[i] = f[i]
      /\ \A i \in N + 1 .. m : g[i] = Blank
      /\ g[H] = Header(s) /\ g[K] = Key(k, v)
  BY <1>1, Dom DEF Appended
<1>3. /\ g[H].kind = "header" /\ g[H].name = s /\ g[H].on = TRUE
      /\ g[K].kind = "key" /\ g[K].name = k /\ g[K].val = v /\ g[K].on = TRUE
  <2>1. /\ Header(s).kind = "header" /\ Header(s).name = s /\ Header(s).on = TRUE
        /\ Key(k, v).kind = "key" /\ Key(k, v).name = k /\ Key(k, v).val = v /\ Key(k, v).on = TRUE
    BY HeaderIs, KeyIs
  <2> QED BY <1>2, <2>1
<1>4. \A i \in N + 1 .. m : g[i].kind = "blank" BY <1>2, BlankIs
<1>5. IsHeader(g[H]) /\ ~IsHeader(g[K]) /\ IsKey(g[K]) /\ ~IsKey(g[H]) BY <1>3 DEF IsHeader, IsKey
<1>6. \A i \in N + 1 .. m : ~IsHeader(g[i]) /\ ~IsKey(g[i]) /\ Stops(g[i]) BY <1>4 DEF IsHeader, IsKey, Stops
<1>7. H \in DOMAIN g /\ K \in DOMAIN g /\ H \notin DOMAIN f /\ K \notin DOMAIN f /\ H # K /\ K = H + 1
      /\ \A i \in DOMAIN g : i \in DOMAIN f \/ i \in N + 1 .. m \/ i = H \/ i = K
  BY <1>1, <1>2
<1>8. \A i \in DOMAIN f : i < H /\ i < K BY <1>1, <1>2
<1>9. ASSUME NEW a \in DOMAIN f PROVE m = N + 1 /\ N + 1 \in a + 1 .. m /\ g[N + 1].kind = "blank"
  BY <1>1, <1>2, <1>4
<1>10. \A a, i \in DOMAIN f : Under(g, a, i) <=> Under(f, a, i)
  <2> TAKE a, i \in DOMAIN f
  <2>1. \A j \in a + 1 .. i - 1 : j \in DOMAIN f BY <1>1
  <2> QED BY <1>2, <2>1 DEF Under
<1>11. \A a \in DOMAIN g, i \in DOMAIN f : Under(g, a, i) => a \in DOMAIN f
  BY <1>1, <1>2 DEF Under
<1>12. Under(g, H, K)
  <2>1. \A j \in H + 1 .. K - 1 : FALSE BY <1>1, <1>2
  <2> QED BY <1>5, <1>7, <2>1 DEF Under
<1>13. \A a : Under(g, a, K) => a = H BY <1>12, UnderOne
<1>14. \A a, i \in DOMAIN f : Joined(g, a, i) <=> Joined(f, a, i)
  <2> TAKE a, i \in DOMAIN f
  <2>1. \A j \in a .. i : j \in DOMAIN f BY <1>1
  <2> QED BY <1>2, <2>1 DEF Joined
<1>15. \A a \in DOMAIN f, i \in DOMAIN g : Joined(g, a, i) => i \in DOMAIN f
  <2> SUFFICES ASSUME NEW a \in DOMAIN f, NEW i \in DOMAIN g, Joined(g, a, i), i \notin DOMAIN f PROVE FALSE
    OBVIOUS
  <2>1. m = N + 1 /\ N + 1 \in a + 1 .. m /\ g[N + 1].kind = "blank" BY <1>9
  <2>2. N + 1 \in a .. i BY <1>1, <1>2, <2>1
  <2> QED BY <2>1, <2>2 DEF Joined
<1>16. Sections(f) /\ \A q \in Spoolmans(f) : Block(f, q) BY DEF LaidOut
<1> HIDE DEF H, K
<1>17. Sections(g)
  <2>1. ProseOff(g)
    <3> SUFFICES ASSUME NEW j \in DOMAIN g, g[j].kind = "prose" PROVE ~g[j].on BY DEF ProseOff
    <3>1. j \in DOMAIN f BY <1>3, <1>4, <1>7
    <3> QED BY <1>2, <1>16, <3>1 DEF Sections, ProseOff
  <2>2. HeadersNamed(g)
    <3> SUFFICES ASSUME NEW j \in DOMAIN g, IsHeader(g[j]) PROVE g[j].name # "" BY DEF HeadersNamed
    <3>0. s # "" BY DEF Names
    <3>1. CASE j = H BY <1>3, <3>0, <3>1
    <3>2. CASE j \in DOMAIN f BY <1>2, <1>16, <3>2 DEF Sections, HeadersNamed
    <3> QED BY <1>5, <1>6, <1>7, <3>1, <3>2
  <2>3. HeadersDiffer(g)
    <3> SUFFICES ASSUME NEW a \in DOMAIN g, NEW b \in DOMAIN g, IsHeader(g[a]), IsHeader(g[b]), g[a].name = g[b].name
                 PROVE  a = b
      BY DEF HeadersDiffer
    <3>1. (a = H \/ a \in DOMAIN f) /\ (b = H \/ b \in DOMAIN f) BY <1>5, <1>6, <1>7
    <3>2. \A c \in DOMAIN f : IsHeader(g[c]) => g[c].name # s BY <1>2
    <3>3. CASE a \in DOMAIN f /\ b \in DOMAIN f BY <1>2, <1>16, <3>3 DEF Sections, HeadersDiffer
    <3> QED BY <1>3, <3>1, <3>2, <3>3
  <2>4. KeysPlaced(g)
    <3> SUFFICES ASSUME NEW j \in DOMAIN g, IsKey(g[j])
                 PROVE  \E a \in DOMAIN g : Under(g, a, j)
      BY DEF KeysPlaced
    <3>1. CASE j = K BY <1>7, <1>12, <3>1
    <3>2. CASE j \in DOMAIN f
      <4>1. PICK a \in DOMAIN f : Under(f, a, j) BY <1>2, <1>16, <3>2 DEF Sections, KeysPlaced
      <4> QED BY <1>2, <1>10, <3>2, <4>1
    <3> QED BY <1>5, <1>6, <1>7, <3>1, <3>2
  <2>5. KeysDiffer(g)
    <3> SUFFICES ASSUME NEW a \in DOMAIN g, NEW i \in DOMAIN g, NEW j \in DOMAIN g,
                        Under(g, a, i), Under(g, a, j), IsKey(g[i]), IsKey(g[j]), g[i].name = g[j].name
                 PROVE  i = j
      BY DEF KeysDiffer
    <3>1. (i = K \/ i \in DOMAIN f) /\ (j = K \/ j \in DOMAIN f) BY <1>5, <1>6, <1>7
    <3>2. \A y \in DOMAIN f : Under(g, a, y) => a \in DOMAIN f BY <1>11
    <3>3. Under(g, a, K) => a \notin DOMAIN f BY <1>7, <1>13
    <3>4. CASE i \in DOMAIN f /\ j \in DOMAIN f
      <4>1. a \in DOMAIN f BY <3>2, <3>4
      <4>2. Under(f, a, i) /\ Under(f, a, j) BY <1>10, <3>4, <4>1
      <4>3. g[i] = f[i] /\ g[j] = f[j] BY <1>2, <3>4
      <4> QED BY <1>16, <3>4, <4>1, <4>2, <4>3 DEF Sections, KeysDiffer
    <3> QED BY <3>1, <3>2, <3>3, <3>4
  <2> QED BY <2>1, <2>2, <2>3, <2>4, <2>5 DEF Sections
<1>18. \A q \in DOMAIN f : q \in Spoolmans(g) <=> q \in Spoolmans(f) BY <1>2 DEF Spoolmans
<1>19. \A q \in Spoolmans(g) : q \in DOMAIN f \/ (q = H /\ s = "spoolman")
  <2> SUFFICES ASSUME NEW q \in Spoolmans(g), q \notin DOMAIN f PROVE q = H /\ s = "spoolman" OBVIOUS
  <2>1. q \in DOMAIN g /\ g[q].kind = "header" /\ g[q].name = "spoolman" BY DEF Spoolmans
  <2> QED BY <1>3, <1>4, <1>7, <2>1
<1>20. ASSUME s = "spoolman", NEW q \in Spoolmans(f) PROVE FALSE
  <2>1. q \in DOMAIN f /\ f[q].kind = "header" /\ f[q].name = s BY <1>20 DEF Spoolmans
  <2>2. f[q].on BY <1>20 DEF NoneOff
  <2> QED BY <2>1, <2>2 DEF IsHeader
<1>21. ASSUME NEW q \in Spoolmans(g), q \in DOMAIN f PROVE Block(g, q)
  <2>1. q \in Spoolmans(f) /\ Block(f, q) BY <1>16, <1>18, <1>21
  <2>2. \A p \in Spoolmans(g) : p = q
    <3> TAKE p \in Spoolmans(g)
    <3>1. p \in DOMAIN f BY <1>19, <1>20, <2>1
    <3> QED BY <1>18, <2>1, <3>1 DEF Block
  <2>3. KeysAlone(g, q)
    <3> SUFFICES ASSUME NEW i \in DOMAIN g, Joined(g, q, i), i # q
                 PROVE  g[i].kind = "key" /\ g[i].on = g[q].on
      BY DEF KeysAlone
    <3>1. i \in DOMAIN f /\ Joined(f, q, i) BY <1>14, <1>15, <1>21
    <3> QED BY <1>2, <1>21, <2>1, <3>1 DEF Block, KeysAlone
  <2>4. NoneTwice(g, q)
    <3> SUFFICES ASSUME NEW i \in DOMAIN g, NEW j \in DOMAIN g, Joined(g, q, i), Joined(g, q, j), i # q, j # q,
                        g[i].name = g[j].name
                 PROVE  i = j
      BY DEF NoneTwice
    <3>1. i \in DOMAIN f /\ Joined(f, q, i) BY <1>14, <1>15, <1>21
    <3>2. j \in DOMAIN f /\ Joined(f, q, j) BY <1>14, <1>15, <1>21
    <3>3. f[i].name = f[j].name BY <1>2, <3>1, <3>2
    <3> QED BY <2>1, <3>1, <3>2, <3>3 DEF Block, NoneTwice
  <2>5. StandsApart(g, q)
    <3> SUFFICES ASSUME NEW a \in DOMAIN g, a < q, IsHeader(g[a])
                 PROVE  \E b \in a + 1 .. q - 1 : g[b].kind = "blank"
      BY DEF StandsApart
    <3>1. a \in DOMAIN f BY <1>1, <1>2, <1>21
    <3>2. PICK b \in a + 1 .. q - 1 : f[b].kind = "blank" BY <1>2, <2>1, <3>1 DEF Block, StandsApart
    <3>3. b \in DOMAIN f BY <1>1, <1>21, <3>1
    <3> QED BY <1>2, <3>2, <3>3
  <2> QED BY <2>2, <2>3, <2>4, <2>5 DEF Block
<1>22. ASSUME H \in Spoolmans(g), s = "spoolman" PROVE Block(g, H)
  <2>1. \A p \in Spoolmans(g) : p = H BY <1>18, <1>19, <1>20, <1>22
  <2>2. \A i \in DOMAIN g : Joined(g, H, i) => i = H \/ i = K BY <1>1, <1>2, <1>7 DEF Joined, H, K
  <2>3. KeysAlone(g, H) BY <1>3, <2>2 DEF KeysAlone
  <2>4. NoneTwice(g, H) BY <2>2 DEF NoneTwice
  <2>5. StandsApart(g, H)
    <3> SUFFICES ASSUME NEW a \in DOMAIN g, a < H, IsHeader(g[a])
                 PROVE  \E b \in a + 1 .. H - 1 : g[b].kind = "blank"
      BY DEF StandsApart
    <3>1. a \in DOMAIN f
      <4>1. a # H /\ a # K BY <1>1, <1>2 DEF H, K
      <4> QED BY <1>6, <1>7, <4>1
    <3>2. N + 1 \in a + 1 .. m /\ g[N + 1].kind = "blank" BY <1>9, <3>1
    <3>3. H - 1 = m BY DEF H
    <3> QED BY <3>2, <3>3
  <2> QED BY <2>1, <2>3, <2>4, <2>5 DEF Block
<1>23. LaidOut(g) BY <1>17, <1>19, <1>21, <1>22 DEF LaidOut
<1>24. Reads(g, s, k, v)
  <2>1. KeyAt(g, s, k, K) BY <1>3, <1>5, <1>7, <1>12 DEF KeyAt
  <2> QED BY <1>3, <1>7, <2>1 DEF Reads
<1>25. ASSUME NEW t, NEW l, NEW w, t # s \/ l # k PROVE Reads(g, t, l, w) <=> Reads(f, t, l, w)
  <2>1. ~KeyAt(g, t, l, K) BY <1>3, <1>13, <1>25 DEF KeyAt
  <2>2. \A i \in DOMAIN f : KeyAt(g, t, l, i) <=> KeyAt(f, t, l, i)
    <3> TAKE i \in DOMAIN f
    <3>1. ASSUME NEW a \in DOMAIN g, Under(g, a, i), g[a].name = t
          PROVE  \E b \in DOMAIN f : Under(f, b, i) /\ f[b].name = t
      <4>1. a \in DOMAIN f BY <1>11, <3>1
      <4> QED BY <1>2, <1>10, <3>1, <4>1
    <3>2. ASSUME NEW b \in DOMAIN f, Under(f, b, i), f[b].name = t
          PROVE  \E a \in DOMAIN g : Under(g, a, i) /\ g[a].name = t
      BY <1>2, <1>10, <3>2
    <3>3. g[i] = f[i] BY <1>2
    <3> QED BY <3>1, <3>2, <3>3 DEF KeyAt
  <2>3. ASSUME Reads(g, t, l, w) PROVE Reads(f, t, l, w)
    <3>1. PICK j \in DOMAIN g : KeyAt(g, t, l, j) /\ g[j].val = w BY <2>3 DEF Reads
    <3>2. j \in DOMAIN f BY <1>5, <1>6, <1>7, <2>1, <3>1 DEF KeyAt
    <3> QED BY <1>2, <2>2, <3>1, <3>2 DEF Reads
  <2>4. ASSUME Reads(f, t, l, w) PROVE Reads(g, t, l, w)
    <3>1. PICK i \in DOMAIN f : KeyAt(f, t, l, i) /\ f[i].val = w BY <2>4 DEF Reads
    <3> QED BY <1>2, <2>2, <3>1 DEF Reads
  <2> QED BY <2>3, <2>4
<1>26. ASSUME NoneOff(f) PROVE NoneOff(g)
  <2> SUFFICES ASSUME NEW q \in Spoolmans(g) PROVE g[q].on BY DEF NoneOff
  <2>1. CASE q = H BY <1>3, <2>1
  <2>2. CASE q \in DOMAIN f BY <1>2, <1>18, <1>26, <2>2 DEF NoneOff
  <2> QED BY <1>19, <2>1, <2>2
<1> QED BY <1>23, <1>24, <1>25, <1>26 DEF OthersRead

--------------------------------------------------------------------------------
(* Spoolman's paragraph is switched on or off.                               *)

\* g is f with the paragraph of h switched to b, on or off.
Switched(f, g, h, b) ==
  /\ DOMAIN g = DOMAIN f /\ f[h].on = ~b
  /\ \A i \in DOMAIN f :
       /\ g[i].kind = f[i].kind /\ g[i].name = f[i].name /\ g[i].val = f[i].val
       /\ g[i].on = IF Joined(f, h, i) THEN b ELSE f[i].on

LEMMA SwitchKeeps ==
  ASSUME NEW f, LaidOut(f), NEW h \in Spoolmans(f), NEW b \in BOOLEAN,
         NEW g \in Seq(Lines), Switched(f, g, h, b)
  PROVE  /\ LaidOut(g) /\ Spoolmans(g) = {h} /\ g[h].on = b
         /\ \A t, l, v : t # "spoolman" => (Reads(g, t, l, v) <=> Reads(f, t, l, v))
<1> DEFINE P(i) == Joined(f, h, i)
<1>1. f \in Seq(Lines) /\ DOMAIN f = 1 .. Len(f) /\ Len(f) \in Nat /\ DOMAIN g = DOMAIN f /\ h \in DOMAIN f
  BY Dom DEF LaidOut, Switched, Spoolmans
<1>2. \A i \in DOMAIN f : g[i].kind = f[i].kind /\ g[i].name = f[i].name /\ g[i].val = f[i].val
  BY DEF Switched
<1>3. \A i \in DOMAIN f : P(i) => g[i].on = b BY DEF Switched
<1>4. \A i \in DOMAIN f : ~P(i) => g[i].on = f[i].on BY DEF Switched
<1>5. Sections(f) /\ Block(f, h) BY DEF LaidOut
<1>6. f[h].kind = "header" /\ f[h].name = "spoolman" /\ f[h].on = ~b BY DEF Spoolmans, Switched
<1>7. P(h)
  <2>1. \A j \in h .. h : f[j].kind # "blank" BY <1>1, <1>6
  <2> QED BY <1>1, <2>1 DEF Joined
<1>8. \A i \in DOMAIN f : P(i) /\ i # h => f[i].kind = "key" /\ f[i].on = ~b
  BY <1>5, <1>6 DEF Block, KeysAlone
<1>9. \A i : P(i) => i \in DOMAIN f /\ h <= i BY DEF Joined
<1>10. \A i, j \in DOMAIN f : P(i) /\ h <= j /\ j <= i => P(j)
  <2> SUFFICES ASSUME NEW i \in DOMAIN f, NEW j \in DOMAIN f, P(i), h <= j, j <= i PROVE P(j) OBVIOUS
  <2>1. \A m \in h .. j : m \in h .. i BY <1>1
  <2> QED BY <2>1 DEF Joined
\* A key that is not in the paragraph has a blank line between, or comes before.
<1>11. \A i \in DOMAIN f : ~P(i) /\ h < i /\ f[i].kind # "blank" => \E m \in h + 1 .. i - 1 : f[m].kind = "blank"
  <2> SUFFICES ASSUME NEW i \in DOMAIN f, ~P(i), h < i, f[i].kind # "blank"
               PROVE  \E m \in h + 1 .. i - 1 : f[m].kind = "blank"
    OBVIOUS
  <2>1. PICK m \in h .. i : f[m].kind = "blank" BY <1>1 DEF Joined
  <2>2. m # h /\ m # i BY <1>6, <2>1
  <2> QED BY <1>1, <2>1, <2>2
<1>12. \A j \in DOMAIN f : ~P(j) => ((IsHeader(g[j]) <=> IsHeader(f[j])) /\ (IsKey(g[j]) <=> IsKey(f[j])))
  BY <1>2, <1>4 DEF IsHeader, IsKey
<1>13. \A j \in DOMAIN f : j # h => ((IsHeader(g[j]) <=> IsHeader(f[j])) /\ (Stops(g[j]) <=> Stops(f[j])))
  <2> SUFFICES ASSUME NEW j \in DOMAIN f, j # h
               PROVE (IsHeader(g[j]) <=> IsHeader(f[j])) /\ (Stops(g[j]) <=> Stops(f[j]))
    OBVIOUS
  <2>1. CASE P(j) BY <1>2, <1>8, <2>1 DEF IsHeader, Stops
  <2>2. CASE ~P(j) BY <1>2, <1>12, <2>2 DEF Stops
  <2> QED BY <2>1, <2>2
<1>14. \A j \in DOMAIN f : P(j) => ~(IsKey(f[j]) /\ IsKey(g[j]))
  BY <1>2, <1>3, <1>6, <1>8 DEF IsKey
<1>15. IsHeader(f[h]) <=> ~b BY <1>6 DEF IsHeader
<1>16. IsHeader(g[h]) <=> b BY <1>1, <1>2, <1>3, <1>6, <1>7 DEF IsHeader
<1> HIDE DEF P
\* Keys outside the paragraph stay where they are ...
<1>17. \A a, i \in DOMAIN f : ~P(i) /\ f[i].kind = "key" => (Under(g, a, i) <=> Under(f, a, i))
  <2> SUFFICES ASSUME NEW a \in DOMAIN f, NEW i \in DOMAIN f, ~P(i), f[i].kind = "key"
               PROVE  Under(g, a, i) <=> Under(f, a, i)
    OBVIOUS
  <2>1. CASE h < i /\ a <= h
    <3>1. PICK m \in h + 1 .. i - 1 : f[m].kind = "blank" BY <1>11, <2>1
    <3>2. m \in a + 1 .. i - 1 /\ m \in DOMAIN f BY <1>1, <2>1
    <3>3. Stops(f[m]) /\ Stops(g[m]) BY <1>2, <3>1, <3>2 DEF Stops
    <3> QED BY <3>2, <3>3 DEF Under
  <2>2. CASE ~(h < i /\ a <= h)
    <3>1. i # h BY <1>7
    <3>2. \A j \in a + 1 .. i - 1 : j \in DOMAIN f /\ j # h BY <1>1, <2>2
    <3>3. \A j \in a + 1 .. i - 1 : Stops(g[j]) <=> Stops(f[j]) BY <1>13, <3>2
    <3>4. CASE a = h
      <4>1. i < h \/ i = h BY <1>1, <2>2, <3>4
      <4> QED BY <1>1, <3>1, <3>4, <4>1 DEF Under
    <3>5. CASE a # h BY <1>1, <1>13, <3>3, <3>5 DEF Under
    <3> QED BY <3>4, <3>5
  <2> QED BY <2>1, <2>2
\* ... and those inside are in the section of h while it is one.
<1>18. \A i \in DOMAIN f : P(i) /\ i # h =>
         /\ IsHeader(f[h]) => Under(f, h, i)
         /\ IsHeader(g[h]) => Under(g, h, i)
  <2> SUFFICES ASSUME NEW i \in DOMAIN f, P(i), i # h
               PROVE  (IsHeader(f[h]) => Under(f, h, i)) /\ (IsHeader(g[h]) => Under(g, h, i))
    OBVIOUS
  <2>1. h < i BY <1>1, <1>9
  <2>2. ASSUME NEW j \in h + 1 .. i - 1 PROVE ~Stops(f[j]) /\ ~Stops(g[j])
    <3>1. j \in DOMAIN f /\ j # h /\ h <= j /\ j <= i BY <1>1
    <3>2. P(j) BY <1>10, <3>1
    <3>3. f[j].kind = "key" BY <1>8, <3>1, <3>2
    <3>4. ~Stops(f[j]) BY <3>3 DEF Stops, IsHeader
    <3> QED BY <1>13, <3>1, <3>4
  <2> QED BY <1>1, <2>1, <2>2 DEF Under
<1>19. Spoolmans(g) = Spoolmans(f) /\ Spoolmans(f) = {h}
  <2>1. Spoolmans(g) = Spoolmans(f) BY <1>1, <1>2 DEF Spoolmans
  <2> QED BY <1>5, <2>1 DEF Block
<1>20. Sections(g)
  <2>1. ProseOff(g)
    <3> SUFFICES ASSUME NEW j \in DOMAIN g, g[j].kind = "prose" PROVE ~g[j].on BY DEF ProseOff
    <3>1. ~P(j) BY <1>1, <1>2, <1>6, <1>8
    <3> QED BY <1>1, <1>2, <1>4, <1>5, <3>1 DEF Sections, ProseOff
  <2>2. HeadersNamed(g)
    <3> SUFFICES ASSUME NEW j \in DOMAIN g, IsHeader(g[j]) PROVE g[j].name # "" BY DEF HeadersNamed
    <3>0. g[j].name = f[j].name BY <1>1, <1>2
    <3>1. CASE j = h BY <1>6, <3>0, <3>1
    <3>2. CASE j # h
      <4>1. IsHeader(f[j]) BY <1>1, <1>13, <3>2
      <4>2. f[j].name # "" BY <1>1, <1>5, <4>1 DEF Sections, HeadersNamed
      <4> QED BY <3>0, <4>2
    <3> QED BY <3>1, <3>2
  <2>3. HeadersDiffer(g)
    <3> SUFFICES ASSUME NEW a \in DOMAIN g, NEW c \in DOMAIN g, IsHeader(g[a]), IsHeader(g[c]), g[a].name = g[c].name
                 PROVE  a = c
      BY DEF HeadersDiffer
    <3>1. a \in DOMAIN f /\ c \in DOMAIN f /\ f[a].name = f[c].name BY <1>1, <1>2
    <3>2. CASE a # h /\ c # h
      <4>1. IsHeader(f[a]) /\ IsHeader(f[c]) BY <1>13, <3>1, <3>2
      <4> QED BY <1>5, <3>1, <4>1 DEF Sections, HeadersDiffer
    <3>3. CASE a = h \/ c = h
      <4>1. g[a].kind = "header" /\ g[c].kind = "header" BY DEF IsHeader
      <4>2. g[a].name = "spoolman" /\ g[c].name = "spoolman" BY <1>2, <1>6, <3>1, <3>3
      <4>3. a \in Spoolmans(g) /\ c \in Spoolmans(g) BY <4>1, <4>2 DEF Spoolmans
      <4> QED BY <1>19, <4>3
    <3> QED BY <3>2, <3>3
  <2>4. KeysPlaced(g)
    <3> SUFFICES ASSUME NEW j \in DOMAIN g, IsKey(g[j])
                 PROVE  \E a \in DOMAIN g : Under(g, a, j)
      BY DEF KeysPlaced
    <3>1. j \in DOMAIN f /\ f[j].kind = "key" BY <1>1, <1>2 DEF IsKey
    <3>2. CASE P(j)
      <4>1. j # h BY <1>6, <3>1
      <4>2. b BY <1>3, <3>1, <3>2 DEF IsKey
      <4> QED BY <1>1, <1>16, <1>18, <3>1, <3>2, <4>1, <4>2
    <3>3. CASE ~P(j)
      <4>1. IsKey(f[j]) BY <1>12, <3>1, <3>3
      <4>2. PICK a \in DOMAIN f : Under(f, a, j) BY <1>5, <3>1, <4>1 DEF Sections, KeysPlaced
      <4> QED BY <1>1, <1>17, <3>1, <3>3, <4>2
    <3> QED BY <3>2, <3>3
  <2>5. KeysDiffer(g)
    <3> SUFFICES ASSUME NEW a \in DOMAIN g, NEW i \in DOMAIN g, NEW j \in DOMAIN g,
                        Under(g, a, i), Under(g, a, j), IsKey(g[i]), IsKey(g[j]), g[i].name = g[j].name
                 PROVE  i = j
      BY DEF KeysDiffer
    <3>1. /\ a \in DOMAIN f /\ i \in DOMAIN f /\ j \in DOMAIN f /\ f[i].name = f[j].name
          /\ f[i].kind = "key" /\ f[j].kind = "key" /\ i # h /\ j # h
      BY <1>1, <1>2, <1>6 DEF IsKey
    <3>2. CASE ~P(i) /\ ~P(j)
      <4>1. IsKey(f[i]) /\ IsKey(f[j]) BY <1>12, <3>1, <3>2
      <4>2. Under(f, a, i) /\ Under(f, a, j) BY <1>17, <3>1, <3>2
      <4> QED BY <1>5, <3>1, <4>1, <4>2 DEF Sections, KeysDiffer
    <3>3. CASE P(i) /\ P(j)
      <4>1. Joined(f, h, i) /\ Joined(f, h, j) BY <3>3 DEF P
      <4> QED BY <1>5, <3>1, <4>1 DEF Block, NoneTwice
    <3>4. ASSUME NEW y \in DOMAIN f, NEW z \in DOMAIN f, P(y), ~P(z), y # h, f[z].kind = "key", IsKey(g[y]),
                 Under(g, a, y), Under(g, a, z)
          PROVE  FALSE
      <4>1. b BY <1>3, <3>4 DEF IsKey
      <4>2. Under(g, h, y) BY <1>16, <1>18, <3>4, <4>1
      <4>3. a = h BY <3>4, <4>2, UnderOne
      <4>4. h < z BY <3>4, <4>3 DEF Under
      <4>5. PICK m \in h + 1 .. z - 1 : f[m].kind = "blank" BY <1>11, <3>4, <4>4
      <4>6. m \in DOMAIN f BY <1>1
      <4>7. Stops(g[m]) BY <1>2, <4>5, <4>6 DEF Stops
      <4> QED BY <3>4, <4>3, <4>5, <4>7 DEF Under
    <3> QED BY <3>1, <3>2, <3>3, <3>4
  <2> QED BY <2>1, <2>2, <2>3, <2>4, <2>5 DEF Sections
<1>21. \A i : Joined(g, h, i) <=> P(i)
  <2>1. \A i \in DOMAIN f : \A j \in h .. i : j \in DOMAIN f BY <1>1
  <2> QED BY <1>1, <1>2, <2>1 DEF Joined, P
<1>22. Block(g, h)
  <2>1. KeysAlone(g, h)
    <3> SUFFICES ASSUME NEW i \in DOMAIN g, Joined(g, h, i), i # h
                 PROVE  g[i].kind = "key" /\ g[i].on = g[h].on
      BY DEF KeysAlone
    <3>1. P(i) BY <1>21
    <3> QED BY <1>1, <1>2, <1>3, <1>7, <1>8, <3>1
  <2>2. NoneTwice(g, h)
    <3> SUFFICES ASSUME NEW i \in DOMAIN g, NEW j \in DOMAIN g, Joined(g, h, i), Joined(g, h, j), i # h, j # h,
                        g[i].name = g[j].name
                 PROVE  i = j
      BY DEF NoneTwice
    <3>1. Joined(f, h, i) /\ Joined(f, h, j) BY <1>21 DEF P
    <3>2. f[i].name = f[j].name BY <1>1, <1>2
    <3> QED BY <1>1, <1>5, <3>1, <3>2 DEF Block, NoneTwice
  <2>3. StandsApart(g, h)
    <3> SUFFICES ASSUME NEW a \in DOMAIN g, a < h, IsHeader(g[a])
                 PROVE  \E m \in a + 1 .. h - 1 : g[m].kind = "blank"
      BY DEF StandsApart
    <3>1. IsHeader(f[a]) /\ a \in DOMAIN f BY <1>1, <1>13
    <3>2. PICK m \in a + 1 .. h - 1 : f[m].kind = "blank" BY <1>5, <3>1 DEF Block, StandsApart
    <3>3. m \in DOMAIN f BY <1>1, <3>1
    <3> QED BY <1>2, <3>2, <3>3
  <2> QED BY <1>19, <2>1, <2>2, <2>3 DEF Block
<1>23. LaidOut(g) BY <1>19, <1>20, <1>22 DEF LaidOut
<1>24. ASSUME NEW t, t # "spoolman", NEW l, NEW i \in DOMAIN f PROVE KeyAt(g, t, l, i) <=> KeyAt(f, t, l, i)
  <2>1. CASE P(i)
    <3>1. ASSUME KeyAt(f, t, l, i) PROVE FALSE
      <4>1. PICK a \in DOMAIN f : Under(f, a, i) /\ f[a].name = t BY <3>1 DEF KeyAt
      <4>2. IsKey(f[i]) /\ i # h BY <1>6, <3>1 DEF KeyAt, IsKey
      <4>3. ~b BY <1>8, <2>1, <4>2 DEF IsKey
      <4>4. Under(f, h, i) BY <1>15, <1>18, <2>1, <4>2, <4>3
      <4>5. a = h BY <1>1, <4>1, <4>4, UnderOne
      <4> QED BY <1>6, <1>24, <4>1, <4>5
    <3>2. ASSUME KeyAt(g, t, l, i) PROVE FALSE
      <4>1. PICK a \in DOMAIN f : Under(g, a, i) /\ g[a].name = t BY <1>1, <3>2 DEF KeyAt
      <4>2. IsKey(g[i]) /\ i # h BY <1>2, <1>6, <3>2 DEF KeyAt, IsKey
      <4>3. b BY <1>3, <2>1, <4>2 DEF IsKey
      <4>4. Under(g, h, i) BY <1>16, <1>18, <2>1, <4>2, <4>3
      <4>5. a = h BY <4>1, <4>4, UnderOne
      <4> QED BY <1>1, <1>2, <1>6, <1>24, <4>1, <4>5
    <3> QED BY <3>1, <3>2
  <2>2. CASE ~P(i) /\ f[i].kind = "key"
    <3>1. \A a \in DOMAIN f : (Under(g, a, i) /\ g[a].name = t) <=> (Under(f, a, i) /\ f[a].name = t)
      BY <1>2, <1>17, <2>2
    <3>2. IsKey(g[i]) <=> IsKey(f[i]) BY <1>12, <2>2
    <3>3. g[i].name = f[i].name /\ DOMAIN g = DOMAIN f BY <1>1, <1>2
    <3> QED BY <3>1, <3>2, <3>3 DEF KeyAt
  <2>3. CASE f[i].kind # "key" BY <1>2, <2>3 DEF KeyAt, IsKey
  <2> QED BY <2>1, <2>2, <2>3
<1>25. ASSUME NEW t, t # "spoolman", NEW l, NEW v PROVE Reads(g, t, l, v) <=> Reads(f, t, l, v)
  BY <1>1, <1>2, <1>24, <1>25 DEF Reads
<1>26. g[h].on = b BY <1>1, <1>3, <1>7
<1> QED BY <1>19, <1>23, <1>25, <1>26

--------------------------------------------------------------------------------
(* The edits.                                                                *)

LEMMA WriteIs == \A g : Write(g).ok = TRUE /\ Write(g).write = TRUE /\ Write(g).lines = g
  BY DEF Write

LEMMA NothingIs == Nothing.ok = TRUE /\ Nothing.write = FALSE /\ Failed.write = FALSE
  BY DEF Nothing, Failed

LEMMA KeyLinesAre ==
  ASSUME NEW f, LaidOut(f), NEW s, NEW k, NEW h, h = SectionAt(f, s), h # 0
  PROVE  /\ KeyLines(f, s, k) = {i \in DOMAIN f : Under(f, h, i) /\ IsKey(f[i]) /\ f[i].name = k}
         /\ h \in DOMAIN f /\ IsHeader(f[h]) /\ f[h].name = s
<1>1. f \in Seq(Lines) /\ DOMAIN f = 1 .. Len(f) /\ Len(f) \in Nat BY Dom DEF LaidOut
<1>2. h \in DOMAIN f /\ IsHeader(f[h]) /\ f[h].name = s BY SectionAtIs
<1> DEFINE n == SectionEnd(f, h)
<1>3. n \in h + 1 .. Len(f) + 1 /\ (\A j \in h + 1 .. n - 1 : ~Stops(f[j])) /\ (n <= Len(f) => Stops(f[n]))
  BY <1>1, <1>2, SectionEndIs
<1>4. KeyLines(f, s, k) = {i \in h + 1 .. n - 1 : IsKey(f[i]) /\ f[i].name = k} BY DEF KeyLines
<1> HIDE DEF n
<1>5. \A i : IsKey(f[i]) => (i \in h + 1 .. n - 1 <=> (i \in DOMAIN f /\ Under(f, h, i)))
  <2> SUFFICES ASSUME NEW i, IsKey(f[i])
               PROVE  i \in h + 1 .. n - 1 <=> (i \in DOMAIN f /\ Under(f, h, i))
    OBVIOUS
  <2>1. ASSUME i \in h + 1 .. n - 1 PROVE i \in DOMAIN f /\ Under(f, h, i)
    <3>1. i \in DOMAIN f /\ h < i BY <1>1, <1>2, <1>3, <2>1
    <3>2. \A j \in h + 1 .. i - 1 : j \in h + 1 .. n - 1 BY <1>1, <1>2, <1>3, <2>1
    <3> QED BY <1>2, <1>3, <3>1, <3>2 DEF Under
  <2>2. ASSUME i \in DOMAIN f, Under(f, h, i), i \notin h + 1 .. n - 1 PROVE FALSE
    <3>1. h < i /\ n <= i /\ n <= Len(f) BY <1>1, <1>2, <1>3, <2>2 DEF Under
    <3>2. Stops(f[n]) BY <1>3, <3>1
    <3>3. n \notin h + 1 .. i - 1 BY <2>2, <3>2 DEF Under
    <3>4. n # i BY <3>2 DEF Stops, IsHeader, IsKey
    <3> QED BY <1>1, <1>2, <1>3, <2>2, <3>1, <3>3, <3>4
  <2> QED BY <2>1, <2>2
<1> QED BY <1>2, <1>4, <1>5

\* "add" leaves a file that is laid out, in which the key reads as it was set and
\* no other key reads as anything else.
LEMMA SetValueKeeps ==
  ASSUME NEW f, LaidOut(f), NEW s \in Names, NEW k \in Texts, NEW v \in Texts,
         s = "spoolman" => NoneOff(f), SetValue(f, s, k, v).write,
         NEW g, g = SetValue(f, s, k, v).lines
  PROVE  LaidOut(g) /\ Reads(g, s, k, v) /\ OthersRead(f, g, s, k) /\ (NoneOff(f) => NoneOff(g))
<1> DEFINE h == SectionAt(f, s)
           at == KeyLines(f, s, k)
<1>1. f \in Seq(Lines) /\ DOMAIN f = 1 .. Len(f) /\ Len(f) \in Nat BY Dom DEF LaidOut
<1>2. CASE h = 0
  <2>1. g = f \o (IF f = <<>> THEN <<>> ELSE <<Blank>>) \o <<Header(s), Key(k, v)>>
    BY <1>2, WriteIs DEF SetValue
  <2>2. Header(s) \in Lines /\ Key(k, v) \in Lines BY LinesOK DEF Names
  <2>3. g \in Seq(Lines) /\ \E m \in Nat : Appended(f, g, m, Header(s), Key(k, v)) BY <1>1, <2>1, <2>2, AppendedIs
  <2>4. \A i \in DOMAIN f : ~(IsHeader(f[i]) /\ f[i].name = s) BY <1>1, <1>2, SectionAtIs
  <2> QED BY <2>3, <2>4, AppendKeeps
<1>3. CASE h # 0
  <2>1. /\ at = {i \in DOMAIN f : Under(f, h, i) /\ IsKey(f[i]) /\ f[i].name = k}
        /\ h \in DOMAIN f /\ IsHeader(f[h]) /\ f[h].name = s
    BY <1>3, KeyLinesAre
  <2>2. CASE at = {}
    <3>1. g = Inserted(f, SectionEnd(f, h), Key(k, v)) BY <1>3, <2>2, WriteIs DEF SetValue
    <3>2. \A i \in DOMAIN f : ~(Under(f, h, i) /\ IsKey(f[i]) /\ f[i].name = k) BY <2>1, <2>2
    <3> HIDE DEF h, at
    <3> QED BY <2>1, <3>1, <3>2, InsertKeeps
  <2>3. CASE at # {}
    <3>1. SetValue(f, s, k, v) = Failed \/ SetValue(f, s, k, v) = Write([f EXCEPT ![Min(at)] = Key(k, v)])
      BY <1>3, <2>3 DEF SetValue
    <3>2. g = [f EXCEPT ![Min(at)] = Key(k, v)] BY <3>1, WriteIs, NothingIs
    <3>3. PICK m \in at : TRUE BY <2>3
    <3> HIDE DEF at, h
    <3>4. m \in DOMAIN f /\ Under(f, h, m) /\ IsKey(f[m]) /\ f[m].name = k BY <2>1, <3>3
    <3>5. \A j \in at : m <= j BY <1>1, <2>1, <3>4 DEF LaidOut, Sections, KeysDiffer
    <3>6. at \in SUBSET Nat BY <1>1, <2>1
    <3>8. Min(at) = m BY <3>3, <3>5, <3>6, MinIs
    <3>9. g = Replaced(f, m, k, v) BY <3>2, <3>8 DEF Replaced
    <3>7. KeyAt(f, s, k, m) BY <2>1, <3>4 DEF KeyAt
    <3> QED BY <3>4, <3>7, <3>9, ReplaceKeeps
  <2> QED BY <2>2, <2>3
<1> QED BY <1>2, <1>3

LEMMA MapSeq ==
  ASSUME NEW f \in Seq(Lines), NEW g, DOMAIN g = DOMAIN f, \A i \in DOMAIN f : g[i] \in Lines,
         g = [i \in DOMAIN f |-> g[i]]
  PROVE  g \in Seq(Lines)
<1>1. DOMAIN f = 1 .. Len(f) /\ Len(f) \in Nat BY Dom
<1>2. g \in [1 .. Len(f) -> Lines] BY <1>1
<1> QED BY <1>1, <1>2, IsASeq

\* Commenting the section of Spoolman out leaves nothing of it to read.
LEMMA CommentKeeps ==
  ASSUME NEW f, LaidOut(f), NEW e, e = CommentSection(f, "spoolman")
  PROVE  /\ e.ok /\ (~e.write => \A l, v : ~Reads(f, "spoolman", l, v))
         /\ e.write => /\ LaidOut(e.lines) /\ \A l, v : ~Reads(e.lines, "spoolman", l, v)
                       /\ \A t, l, v : t # "spoolman" => (Reads(e.lines, t, l, v) <=> Reads(f, t, l, v))
<1> DEFINE h == SectionAt(f, "spoolman")
<1>1. f \in Seq(Lines) /\ \A i \in DOMAIN f : f[i] \in Lines BY Dom DEF LaidOut
<1>2. CASE h = 0
  <2>1. e = Nothing BY <1>2 DEF CommentSection
  <2>2. \A i \in DOMAIN f : ~(IsHeader(f[i]) /\ f[i].name = "spoolman") BY <1>1, <1>2, SectionAtIs
  <2>3. \A l, v : ~Reads(f, "spoolman", l, v) BY <2>2 DEF Reads, KeyAt, Under
  <2> QED BY <2>1, <2>3, NothingIs
<1>3. CASE h # 0
  <2> DEFINE g == [i \in DOMAIN f |-> IF i \in Paragraph(f, h) THEN Off(f[i]) ELSE f[i]]
  <2>1. e = Write(g) BY <1>3 DEF CommentSection
  <2>2. h \in DOMAIN f /\ IsHeader(f[h]) /\ f[h].name = "spoolman" BY <1>3, SectionAtIs
  <2>3. \A i \in DOMAIN f : i \in Paragraph(f, h) <=> Joined(f, h, i) BY <1>1, <2>2, ParagraphIs
  <2>4. \A i \in DOMAIN f : g[i] = IF Joined(f, h, i) THEN Off(f[i]) ELSE f[i] BY <2>3
  <2>5. \A x \in Lines : /\ Off(x) \in Lines /\ Off(x).on = FALSE
                         /\ Off(x).kind = x.kind /\ Off(x).name = x.name /\ Off(x).val = x.val
    BY DEF Off, Lines
  <2>6. DOMAIN g = DOMAIN f /\ g = [i \in DOMAIN f |-> g[i]] OBVIOUS
  <2> HIDE DEF g, h
  <2>7. g \in Seq(Lines)
    <3>1. \A i \in DOMAIN f : g[i] \in Lines BY <1>1, <2>4, <2>5
    <3> QED BY <1>1, <2>6, <3>1, MapSeq
  <2>8. f[h].on = TRUE BY <1>1, <2>2 DEF IsHeader, Lines
  <2>9. Switched(f, g, h, FALSE)
    <3>1. \A i \in DOMAIN f :
            /\ g[i].kind = f[i].kind /\ g[i].name = f[i].name /\ g[i].val = f[i].val
            /\ g[i].on = IF Joined(f, h, i) THEN FALSE ELSE f[i].on
      <4> TAKE i \in DOMAIN f
      <4>1. CASE Joined(f, h, i)
        <5>1. g[i] = Off(f[i]) BY <2>4, <4>1
        <5>2. f[i] \in Lines BY <1>1
        <5>3. g[i].kind = f[i].kind /\ g[i].name = f[i].name /\ g[i].val = f[i].val /\ g[i].on = FALSE
          BY <2>5, <5>1, <5>2
        <5> QED BY <4>1, <5>3
      <4>2. CASE ~Joined(f, h, i) BY <2>4, <4>2
      <4> QED BY <4>1, <4>2
    <3> QED BY <2>6, <2>8, <3>1 DEF Switched
  <2>10. h \in Spoolmans(f) BY <2>2 DEF Spoolmans, IsHeader
  <2>11. /\ LaidOut(g) /\ Spoolmans(g) = {h} /\ g[h].on = FALSE
         /\ \A t, l, v : t # "spoolman" => (Reads(g, t, l, v) <=> Reads(f, t, l, v))
    BY <2>7, <2>9, <2>10, SwitchKeeps
  <2>12. \A l, v : ~Reads(g, "spoolman", l, v)
    <3> SUFFICES ASSUME NEW a \in DOMAIN g, IsHeader(g[a]), g[a].name = "spoolman" PROVE FALSE
      BY DEF Reads, KeyAt, Under
    <3>1. a \in Spoolmans(g) BY DEF Spoolmans, IsHeader
    <3> QED BY <2>11, <3>1 DEF IsHeader
  <2> QED BY <2>1, <2>11, <2>12, WriteIs
<1> QED BY <1>2, <1>3

LEMMA UncommentKeeps ==
  ASSUME NEW f, LaidOut(f), NEW e, e = UncommentSection(f, "spoolman")
  PROVE  /\ e.ok /\ (~e.write => NoneOff(f))
         /\ e.write => /\ LaidOut(e.lines) /\ NoneOff(e.lines)
                       /\ \A t, l, v : t # "spoolman" => (Reads(e.lines, t, l, v) <=> Reads(f, t, l, v))
<1> DEFINE T == {i \in DOMAIN f : f[i].kind = "header" /\ ~f[i].on /\ f[i].name = "spoolman"}
           h == FirstOf(T, 0)
<1>1. f \in Seq(Lines) /\ DOMAIN f = 1 .. Len(f) /\ Len(f) \in Nat /\ \A i \in DOMAIN f : f[i] \in Lines
  BY Dom DEF LaidOut
<1>2. T \in SUBSET Nat /\ T \subseteq DOMAIN f BY <1>1
<1>3. CASE T = {}
  <2>1. h = 0
    <3> HIDE DEF T
    <3> QED BY <1>2, <1>3, FirstIs
  <2>2. e = Nothing BY <2>1 DEF UncommentSection
  <2>3. NoneOff(f) BY <1>3 DEF NoneOff, Spoolmans
  <2> QED BY <2>2, <2>3, NothingIs
<1>4. CASE T # {}
  <2>0. h \in T
    <3> HIDE DEF T
    <3> QED BY <1>2, <1>4, FirstIs
  <2>1. h # 0 BY <1>1, <2>0
  <2> DEFINE g == [i \in DOMAIN f |-> IF i \in Paragraph(f, h) THEN [f[i] EXCEPT !.on = TRUE] ELSE f[i]]
  <2>2. e = Write(g) BY <2>1 DEF UncommentSection
  <2>3. h \in DOMAIN f /\ f[h].kind = "header" /\ ~f[h].on /\ f[h].name = "spoolman" BY <2>0
  <2>4. h \in Spoolmans(f) BY <2>3 DEF Spoolmans
  <2>5. f[h].on = FALSE BY <1>1, <2>3 DEF Lines
  <2>6. DOMAIN g = DOMAIN f /\ g = [i \in DOMAIN f |-> g[i]] OBVIOUS
  <2>7. \A i \in DOMAIN f : g[i] = IF i \in Paragraph(f, h) THEN [f[i] EXCEPT !.on = TRUE] ELSE f[i] OBVIOUS
  <2> HIDE DEF g, h, T
  <2>8. \A i \in DOMAIN f : i \in Paragraph(f, h) <=> Joined(f, h, i) BY <1>1, <2>3, ParagraphIs
  <2>9. \A x \in Lines : /\ [x EXCEPT !.on = TRUE] \in Lines /\ [x EXCEPT !.on = TRUE].on = TRUE
                         /\ [x EXCEPT !.on = TRUE].kind = x.kind /\ [x EXCEPT !.on = TRUE].name = x.name
                         /\ [x EXCEPT !.on = TRUE].val = x.val
    BY DEF Lines
  <2>10. g \in Seq(Lines)
    <3>1. \A i \in DOMAIN f : g[i] \in Lines BY <1>1, <2>7, <2>9
    <3> QED BY <1>1, <2>6, <3>1, MapSeq
  <2>11. Switched(f, g, h, TRUE)
    <3>1. \A i \in DOMAIN f :
            /\ g[i].kind = f[i].kind /\ g[i].name = f[i].name /\ g[i].val = f[i].val
            /\ g[i].on = IF Joined(f, h, i) THEN TRUE ELSE f[i].on
      BY <1>1, <2>7, <2>8, <2>9
    <3> QED BY <2>5, <2>6, <3>1 DEF Switched
  <2>12. /\ LaidOut(g) /\ Spoolmans(g) = {h} /\ g[h].on = TRUE
         /\ \A t, l, v : t # "spoolman" => (Reads(g, t, l, v) <=> Reads(f, t, l, v))
    BY <2>4, <2>10, <2>11, SwitchKeeps
  <2>13. NoneOff(g) BY <2>12 DEF NoneOff
  <2> QED BY <2>2, <2>12, <2>13, WriteIs
<1> QED BY <1>3, <1>4

--------------------------------------------------------------------------------
(* Settings and their scripts.                                               *)

\* The files that the proof is about.
Start == \A f \in Defaults : LaidOut(f)

\* What the page shows of a file.
Shown(s, f) ==
  CASE s = "frontend" -> GetValue(f, "web", "frontend", "fluidd")
    [] s = "spoolman" ->
         IF GetValue(f, "spoolman", "host", "") = "" THEN "disabled"
         ELSE IF GetValue(f, "spoolman", "force_generic_vendor", "false") = "true"
         THEN "force_generic" ELSE "enabled"
    [] s = "metrics" ->
         IF GetValue(f, "monitoring", "klipper_exporter", "") = "" THEN "false" ELSE "true"

\* What the commands before the n-th of a script have done.
Ready(o, n, f) ==
  o[1] = "spoolman" /\ n > 1 => NoneOff(f) /\ (n = 3 => GetValue(f, "spoolman", "host", "") = "url")

SameSection(f, g, t) == \A l, v : Reads(g, t, l, v) <=> Reads(f, t, l, v)

LEMMA ShownSame ==
  ASSUME NEW f, LaidOut(f), NEW g, LaidOut(g)
  PROVE  /\ SameSection(f, g, "web") => Shown("frontend", g) = Shown("frontend", f)
         /\ SameSection(f, g, "spoolman") => Shown("spoolman", g) = Shown("spoolman", f)
         /\ SameSection(f, g, "monitoring") => Shown("metrics", g) = Shown("metrics", f)
<1>1. ASSUME NEW t, NEW k, NEW d, SameSection(f, g, t) PROVE GetValue(g, t, k, d) = GetValue(f, t, k, d)
  BY <1>1, SameValue DEF SameSection
<1>2. ASSUME SameSection(f, g, "web") PROVE Shown("frontend", g) = Shown("frontend", f)
  BY <1>1, <1>2 DEF Shown
<1>3. ASSUME SameSection(f, g, "spoolman") PROVE Shown("spoolman", g) = Shown("spoolman", f)
  <2>1. GetValue(g, "spoolman", "host", "") = GetValue(f, "spoolman", "host", "") BY <1>1, <1>3
  <2>2. GetValue(g, "spoolman", "force_generic_vendor", "false")
        = GetValue(f, "spoolman", "force_generic_vendor", "false")
    BY <1>1, <1>3
  <2> QED BY <2>1, <2>2 DEF Shown
<1>4. ASSUME SameSection(f, g, "monitoring") PROVE Shown("metrics", g) = Shown("metrics", f)
  BY <1>1, <1>4 DEF Shown
<1> QED BY <1>2, <1>3, <1>4

LEMMA AddIs ==
  ASSUME NEW s, NEW k, NEW v, NEW f
  PROVE  /\ Edit(Add(s, k, v), f) = SetValue(f, s, k, v) /\ Add(s, k, v).must
         /\ ~SetValue(f, s, k, v).write => ~SetValue(f, s, k, v).ok
<1>1. Edit(Add(s, k, v), f) = SetValue(f, s, k, v) /\ Add(s, k, v).must BY DEF Edit, Add
<1>2. SetValue(f, s, k, v) = Failed \/ \E g : SetValue(f, s, k, v) = Write(g) BY DEF SetValue
<1> QED BY <1>1, <1>2 DEF Write, Failed

LEMMA SwitchIs ==
  ASSUME NEW s, NEW f
  PROVE  /\ Edit(Ignored(Comment(s)), f) = CommentSection(f, s)
         /\ Edit(Ignored(Uncomment(s)), f) = UncommentSection(f, s)
  BY DEF Edit, Ignored, Comment, Uncomment

LEMMA ScriptIs ==
  ASSUME NEW o \in Offered, o[1] # "metrics"
  PROVE  \/ o[1] = "frontend" /\ Script(o) = <<Add("web", "frontend", o[2])>> /\ o[2] \in Texts
         \/ o[1] = "spoolman" /\ o[2] = "disabled" /\ Script(o) = <<Ignored(Comment("spoolman"))>>
         \/ o[1] = "spoolman" /\ o[2] = "enabled" /\ Script(o) = SpoolmanOn("false")
         \/ o[1] = "spoolman" /\ o[2] = "force_generic" /\ Script(o) = SpoolmanOn("true")
<1>1. o \in STRING \X STRING BY FirmwareConfigAssumption
<1>2. CASE o[1] = "frontend"
  <2>1. o[2] \in Texts BY <1>1 DEF Texts
  <2>2. o # <<"spoolman", "disabled">> /\ o # <<"spoolman", "enabled">> /\ o # <<"spoolman", "force_generic">>
        /\ o # <<"metrics", "true">> /\ o # <<"metrics", "false">>
    BY <1>2
  <2> QED BY <1>2, <2>1, <2>2 DEF Script
<1>3. CASE o[1] = "spoolman" /\ o[2] \in {"disabled", "enabled", "force_generic"}
  <2>1. CASE o[2] = "disabled"
    <3>1. o = <<"spoolman", "disabled">> BY <1>1, <1>3, <2>1
    <3> QED BY <1>3, <2>1, <3>1 DEF Script
  <2>2. CASE o[2] = "enabled"
    <3>1. o = <<"spoolman", "enabled">> BY <1>1, <1>3, <2>2
    <3> QED BY <1>3, <2>2, <3>1 DEF Script
  <2>3. CASE o[2] = "force_generic"
    <3>1. o = <<"spoolman", "force_generic">> BY <1>1, <1>3, <2>3
    <3> QED BY <1>3, <2>3, <3>1 DEF Script
  <2> QED BY <1>3, <2>1, <2>2, <2>3
<1> QED BY <1>2, <1>3, FirmwareConfigAssumption

LEMMA ScriptLength == ASSUME NEW o \in Offered PROVE Len(Script(o)) \in 1 .. 3
<1>1. CASE o[1] # "metrics"
  <2>1. Len(Script(o)) \in {1, 3} BY <1>1, ScriptIs DEF SpoolmanOn
  <2> QED BY <2>1
<1>2. CASE o[1] = "metrics"
  <2>0. o \in STRING \X STRING /\ o[2] \in {"true", "false"} BY <1>2, FirmwareConfigAssumption
  <2>1. o = <<"metrics", "true">> \/ o = <<"metrics", "false">> BY <1>2, <2>0
  <2> QED BY <2>1 DEF Script
<1> QED BY <1>1, <1>2

--------------------------------------------------------------------------------
(* The commands of a script.                                                 *)

After(f, e) == IF e.write THEN e.lines ELSE f

\* What the n-th command of the script of o does to a file: it stays laid out, the
\* other settings are shown as before and their scripts can go on, and its own
\* script can go on or, when it is over, has set the option.
Does(o, n, f, e) ==
  /\ LaidOut(After(f, e)) /\ (e.write => e.ok)
  /\ \A s \in Settings : s # o[1] => Shown(s, After(f, e)) = Shown(s, f)
  /\ \A p \in Offered, m \in Nat : p[1] # o[1] /\ Ready(p, m, f) => Ready(p, m, After(f, e))
  /\ n = Len(Script(o)) /\ e.ok => Shown(o[1], After(f, e)) = o[2]
  /\ n < Len(Script(o)) /\ (e.ok \/ ~Script(o)[n].must) => Ready(o, n + 1, After(f, e))

LEMMA TextsAre ==
  /\ "web" \in Names /\ "spoolman" \in Names /\ "frontend" \in Texts /\ "host" \in Texts
  /\ "force_generic_vendor" \in Texts /\ "url" \in Texts /\ "true" \in Texts /\ "false" \in Texts
  BY DEF Names, Texts

LEMMA SettingsAre == Settings \subseteq {"frontend", "spoolman", "metrics"}
  BY FirmwareConfigAssumption DEF Settings

SameKey(f, g, t, k) == \A v : Reads(g, t, k, v) <=> Reads(f, t, k, v)

LEMMA SameValues ==
  ASSUME NEW f, LaidOut(f), NEW g, LaidOut(g)
  PROVE  \A t, k, d : SameKey(f, g, t, k) => GetValue(g, t, k, d) = GetValue(f, t, k, d)
<1> TAKE t, k, d
<1> QED BY SameValue DEF SameKey

\* The command of the frontend.
LEMMA FrontendDoes ==
  ASSUME NEW o \in Offered, o[1] = "frontend",
         Script(o) = <<Add("web", "frontend", o[2])>>, o[2] \in Texts,
         NEW f, LaidOut(f), NEW e, e = Edit(Script(o)[1], f)
  PROVE  Does(o, 1, f, e)
<1>1. Script(o)[1] = Add("web", "frontend", o[2]) /\ Len(Script(o)) = 1 OBVIOUS
<1>2. e = SetValue(f, "web", "frontend", o[2]) /\ (~e.write => ~e.ok) /\ Script(o)[1].must BY <1>1, AddIs
<1>3. CASE ~e.write
  <2>1. After(f, e) = f BY <1>3 DEF After
  <2> QED BY <1>1, <1>2, <1>3, <2>1 DEF Does
<1>4. CASE e.write
  <2> DEFINE g == e.lines
  <2>1. After(f, e) = g BY <1>4 DEF After
  <2>2. LaidOut(g) /\ Reads(g, "web", "frontend", o[2]) /\ OthersRead(f, g, "web", "frontend")
        /\ (NoneOff(f) => NoneOff(g))
    <3>1. "web" \in Names /\ "frontend" \in Texts /\ "web" # "spoolman" BY TextsAre
    <3> QED BY <1>2, <1>4, <3>1, SetValueKeeps
  <2> HIDE DEF g
  <2>3. SameSection(f, g, "spoolman") /\ SameSection(f, g, "monitoring")
    BY <2>2 DEF OthersRead, SameSection
  <2>4. Shown("spoolman", g) = Shown("spoolman", f) /\ Shown("metrics", g) = Shown("metrics", f)
    BY <2>2, <2>3, ShownSame
  <2>5. GetValue(g, "spoolman", "host", "") = GetValue(f, "spoolman", "host", "")
    <3>1. LaidOut(g) BY <2>2
    <3>2. SameKey(f, g, "spoolman", "host") BY <2>3 DEF SameSection, SameKey
    <3>3. \A d : GetValue(g, "spoolman", "host", d) = GetValue(f, "spoolman", "host", d)
      BY <3>1, <3>2, SameValues
    <3> QED BY <3>3
  <2>6. GetValue(g, "web", "frontend", "fluidd") = o[2] BY <2>2, ReadsValue
  <2>7. Shown("frontend", g) = o[2] BY <2>6 DEF Shown
  <2>8. \A s \in Settings : s # o[1] => Shown(s, g) = Shown(s, f) BY <2>4, SettingsAre
  <2>9. \A p, m : Ready(p, m, f) => Ready(p, m, g) BY <2>2, <2>5 DEF Ready
  <2>10. e.ok BY <1>2, <1>4 DEF SetValue, Write, Failed
  <2> QED BY <1>1, <2>1, <2>2, <2>7, <2>8, <2>9, <2>10 DEF Does
<1> QED BY <1>3, <1>4

LEMMA DisableDoes ==
  ASSUME NEW o \in Offered, o[1] = "spoolman", o[2] = "disabled",
         Script(o) = <<Ignored(Comment("spoolman"))>>,
         NEW f, LaidOut(f), NEW e, e = Edit(Script(o)[1], f)
  PROVE  Does(o, 1, f, e)
<1>1. Script(o)[1] = Ignored(Comment("spoolman")) /\ Len(Script(o)) = 1 OBVIOUS
<1>2. e = CommentSection(f, "spoolman") BY <1>1, SwitchIs
<1> DEFINE g == After(f, e)
<1>3. /\ LaidOut(g) /\ (\A l, v : ~Reads(g, "spoolman", l, v)) /\ e.ok
      /\ SameSection(f, g, "web") /\ SameSection(f, g, "monitoring")
  <2>1. CASE e.write
    <3>1. g = e.lines BY <2>1 DEF After
    <3>2. "web" # "spoolman" /\ "monitoring" # "spoolman" OBVIOUS
    <3> QED BY <1>2, <2>1, <3>1, <3>2, CommentKeeps DEF SameSection
  <2>2. CASE ~e.write
    <3>1. g = f BY <2>2 DEF After
    <3> QED BY <1>2, <2>2, <3>1, CommentKeeps DEF SameSection
  <2> QED BY <2>1, <2>2
<1> HIDE DEF g
<1>4. Shown("frontend", g) = Shown("frontend", f) /\ Shown("metrics", g) = Shown("metrics", f)
  BY <1>3, ShownSame
<1>5. GetValue(g, "spoolman", "host", "") = "" BY <1>3, ReadsValue
<1>6. Shown("spoolman", g) = "disabled" BY <1>5 DEF Shown
<1>7. \A s \in Settings : s # o[1] => Shown(s, g) = Shown(s, f) BY <1>4, SettingsAre
<1>8. \A p, m : p[1] # o[1] => Ready(p, m, g) BY DEF Ready
<1> QED BY <1>1, <1>3, <1>6, <1>7, <1>8 DEF Does, g

\* The commands that enable Spoolman.
LEMMA EnableDoes ==
  ASSUME NEW o \in Offered, o[1] = "spoolman", NEW y \in {"true", "false"}, Script(o) = SpoolmanOn(y),
         o[2] = IF y = "true" THEN "force_generic" ELSE "enabled",
         NEW f, LaidOut(f), NEW n \in 1 .. 3, Ready(o, n, f), NEW e, e = Edit(Script(o)[n], f)
  PROVE  Does(o, n, f, e)
<1>1. /\ Len(Script(o)) = 3
      /\ Script(o)[1] = Ignored(Uncomment("spoolman"))
      /\ Script(o)[2] = Add("spoolman", "host", "url")
      /\ Script(o)[3] = Add("spoolman", "force_generic_vendor", y)
  BY DEF SpoolmanOn
<1> DEFINE g == After(f, e)
<1>2. \A p, m : p[1] # o[1] => Ready(p, m, g) BY DEF Ready
<1>3. ASSUME LaidOut(g), SameSection(f, g, "web"), SameSection(f, g, "monitoring")
      PROVE  \A s \in Settings : s # o[1] => Shown(s, g) = Shown(s, f)
  <2>1. Shown("frontend", g) = Shown("frontend", f) /\ Shown("metrics", g) = Shown("metrics", f)
    BY <1>3, ShownSame
  <2> QED BY <2>1, SettingsAre
<1>4. CASE n = 1
  <2>1. e = UncommentSection(f, "spoolman") BY <1>1, <1>4, SwitchIs
  <2>2. LaidOut(g) /\ NoneOff(g) /\ SameSection(f, g, "web") /\ SameSection(f, g, "monitoring") /\ e.ok
    <3>1. CASE e.write
      <4>1. g = e.lines BY <3>1 DEF After
      <4>2. "web" # "spoolman" /\ "monitoring" # "spoolman" OBVIOUS
      <4> QED BY <2>1, <3>1, <4>1, <4>2, UncommentKeeps DEF SameSection
    <3>2. CASE ~e.write
      <4>1. g = f BY <3>2 DEF After
      <4> QED BY <2>1, <3>2, <4>1, UncommentKeeps DEF SameSection
    <3> QED BY <3>1, <3>2
  <2> HIDE DEF g
  <2>3. Ready(o, 2, g)
    <3>1. 2 # 3 OBVIOUS
    <3> QED BY <2>2, <3>1, Zenon DEF Ready
  <2> QED BY <1>1, <1>2, <1>3, <1>4, <2>2, <2>3 DEF Does, g
<1>5. CASE n # 1 /\ ~e.write
  <2>1. g = f BY <1>5 DEF After
  <2>2. ~e.ok /\ Script(o)[n].must BY <1>1, <1>5, AddIs
  <2> QED BY <1>5, <2>1, <2>2 DEF Does, g
<1>6. ASSUME n # 1, e.write, NEW k \in Texts, NEW v \in Texts, e = SetValue(f, "spoolman", k, v)
      PROVE  /\ LaidOut(g) /\ Reads(g, "spoolman", k, v) /\ OthersRead(f, g, "spoolman", k) /\ NoneOff(g)
             /\ SameSection(f, g, "web") /\ SameSection(f, g, "monitoring")
  <2>1. g = e.lines BY <1>6 DEF After
  <2>2. NoneOff(f)
    <3>1. n > 1 BY <1>6
    <3> QED BY <3>1, Zenon DEF Ready
  <2>3. "spoolman" \in Names BY TextsAre
  <2>4. LaidOut(g) /\ Reads(g, "spoolman", k, v) /\ OthersRead(f, g, "spoolman", k) /\ NoneOff(g)
    BY <1>6, <2>1, <2>2, <2>3, SetValueKeeps
  <2> HIDE DEF g
  <2>5. SameSection(f, g, "web") /\ SameSection(f, g, "monitoring") BY <2>4 DEF OthersRead, SameSection
  <2> QED BY <2>4, <2>5
<1>7. e.write => e.ok \/ n = 1
  <2> SUFFICES ASSUME e.write, n # 1 PROVE e.ok OBVIOUS
  <2>1. \E k, v : e = SetValue(f, "spoolman", k, v) BY <1>1, AddIs
  <2> QED BY <2>1 DEF SetValue, Write, Failed
<1>8. CASE n = 2 /\ e.write
  <2>1. e = SetValue(f, "spoolman", "host", "url") BY <1>1, <1>8, AddIs
  <2>2. LaidOut(g) /\ Reads(g, "spoolman", "host", "url") /\ NoneOff(g)
        /\ SameSection(f, g, "web") /\ SameSection(f, g, "monitoring")
    BY <1>6, <1>8, <2>1, TextsAre
  <2> HIDE DEF g
  <2>3. GetValue(g, "spoolman", "host", "") = "url" BY <2>2, ReadsValue
  <2>4. Ready(o, 3, g) BY <2>2, <2>3 DEF Ready
  <2> QED BY <1>1, <1>2, <1>3, <1>7, <1>8, <2>2, <2>4 DEF Does, g
<1>9. CASE n = 3 /\ e.write
  <2>1. e = SetValue(f, "spoolman", "force_generic_vendor", y) BY <1>1, <1>9, AddIs
  <2>2. y \in Texts /\ "force_generic_vendor" \in Texts BY TextsAre
  <2>3. LaidOut(g) /\ Reads(g, "spoolman", "force_generic_vendor", y)
        /\ SameSection(f, g, "web") /\ SameSection(f, g, "monitoring")
        /\ OthersRead(f, g, "spoolman", "force_generic_vendor")
    BY <1>6, <1>9, <2>1, <2>2
  <2> HIDE DEF g
  <2>4. GetValue(g, "spoolman", "force_generic_vendor", "false") = y BY <2>3, ReadsValue
  <2>5. GetValue(g, "spoolman", "host", "") = GetValue(f, "spoolman", "host", "")
    <3>1. SameKey(f, g, "spoolman", "host") BY <2>3 DEF OthersRead, SameKey
    <3>2. LaidOut(g) BY <2>3
    <3>3. \A d : GetValue(g, "spoolman", "host", d) = GetValue(f, "spoolman", "host", d)
      BY <3>1, <3>2, SameValues
    <3> QED BY <3>3
  <2>6. GetValue(f, "spoolman", "host", "") = "url"
    <3>1. n > 1 /\ n = 3 BY <1>9
    <3> QED BY <3>1, Zenon DEF Ready
  <2>7. Shown("spoolman", g) = o[2]
    <3>1. Shown("spoolman", g) = IF y = "true" THEN "force_generic" ELSE "enabled"
      BY <2>4, <2>5, <2>6 DEF Shown
    <3> QED BY <3>1
  <2> QED BY <1>1, <1>2, <1>3, <1>7, <1>9, <2>3, <2>7 DEF Does, g
<1> QED BY <1>4, <1>5, <1>8, <1>9

LEMMA EditDoes ==
  ASSUME NEW o \in Offered, o[1] # "metrics", NEW f, LaidOut(f), NEW n \in 1 .. Len(Script(o)), Ready(o, n, f),
         NEW e, e = Edit(Script(o)[n], f)
  PROVE  Does(o, n, f, e)
<1>1. CASE o[1] = "frontend" /\ Script(o) = <<Add("web", "frontend", o[2])>> /\ o[2] \in Texts
  <2>1. Len(Script(o)) = 1 BY <1>1
  <2>2. n = 1 BY <2>1
  <2> QED BY <1>1, <2>2, FrontendDoes
<1>2. CASE o[1] = "spoolman" /\ o[2] = "disabled" /\ Script(o) = <<Ignored(Comment("spoolman"))>>
  <2>1. Len(Script(o)) = 1 BY <1>2
  <2>2. n = 1 BY <2>1
  <2> QED BY <1>2, <2>2, DisableDoes
<1>3. ASSUME NEW y \in {"true", "false"}, o[1] = "spoolman", Script(o) = SpoolmanOn(y),
             o[2] = IF y = "true" THEN "force_generic" ELSE "enabled"
      PROVE  Does(o, n, f, e)
  <2>1. Len(Script(o)) = 3 BY <1>3 DEF SpoolmanOn
  <2>2. n \in 1 .. 3 BY <2>1
  <2> QED BY <1>3, <2>2, EnableDoes
<1> QED BY <1>1, <1>2, <1>3, ScriptIs

--------------------------------------------------------------------------------
(* The scripts in progress.                                                  *)

Scripted(r) ==
  /\ req[r].opt \in Offered \cup {<<>>}
  /\ req[r].at \in Changes => req[r].op \in 1 .. Len(Script(req[r].opt))

\* A thread past its reading has something to write, and is alone in writing.
Pending(r) == req[r].at \in {"truncate", "write"} => Edit(Op(r), req[r].got).write
OneWriter ==
  /\ \A r \in Threads : req[r].at = "write" => torn
  /\ \A r, q \in Threads : req[r].at = "write" /\ req[q].at = "write" => r = q

\* One script of a setting at a time; what it will leave is not known.
OneEach == \A r, q \in Threads, s \in Settings : Changing(r, s) /\ Changing(q, s) => r = q
Unset == \A r \in Threads, s \in Settings : Changing(r, s) => expect[s] = Unknown

\* The metrics setting is not in use.
Unmetered == \A r \in Threads : ~Changing(r, "metrics")

\* The file or, while it is written, the one that was read for it.
Version(f) == (~torn /\ f = file) \/ \E r \in Threads : req[r].at = "write" /\ f = req[r].got

Good(f) ==
  /\ LaidOut(f)
  /\ \A r \in Threads : req[r].at \in Changes => Ready(req[r].opt, req[r].op, f)
  /\ \A s \in Settings : expect[s] \in {Unknown, Shown(s, f)}

Calm == /\ \A r \in Threads : Pending(r)
        /\ OneWriter /\ OneEach /\ Unset /\ Unmetered /\ \A f : Version(f) => Good(f)

\* Edits did not overlap, none was cut, and the metrics setting has not been used.
Clear == ~dirty /\ ~metered

Sound == /\ DOMAIN expect = Settings /\ \A r \in Threads : Scripted(r)
         /\ Clear => Calm

\* What a thread does that has no option, or has one.
LEMMA AtChanges ==
  ASSUME IInv, Sound, NEW r \in Threads
  PROVE  /\ req[r].at \in Changes => req[r].opt \in Offered /\ req[r].opt[1] \in Settings
                                     /\ Changing(r, req[r].opt[1]) /\ req[r].op \in 1 .. Len(Script(req[r].opt))
         /\ req[r].at \notin Changes => req[r].opt = <<>>
         /\ \A s : Changing(r, s) => req[r].at \in Changes /\ s = req[r].opt[1]
<1> PICK G : req \in [Threads -> Reqs(G)] BY DEF IInv, Types, Formed
<1>1. req[r].at \in Uploads \cup Changes \cup {"idle"} BY DEF Reqs
<1>2. req[r].at \notin Changes => req[r].opt = <<>> BY <1>1 DEF IInv, Kinds
<1>3. ASSUME req[r].at \in Changes
      PROVE  req[r].opt \in Offered /\ req[r].opt # <<>> /\ req[r].op \in 1 .. Len(Script(req[r].opt))
    BY <1>3 DEF IInv, Kinds, Sound, Scripted
<1>4. \A o \in Offered : o[1] \in Settings BY DEF Settings
<1> QED BY <1>2, <1>3, <1>4 DEF Changing

LEMMA Same ==
  ASSUME NEW q \in Threads, req'[q] = req[q]
  PROVE  /\ Op(q)' = Op(q) /\ Scripted(q)' = Scripted(q) /\ Pending(q)' = Pending(q)
         /\ \A s : Changing(q, s)' = Changing(q, s)
  BY DEF Op, Scripted, Pending, Changing

\* A command is over that read f: the script goes on or ends.
LEMMA ExitIs ==
  ASSUME IInv, Sound, NEW r \in Threads, req[r].at \in Changes, NEW ok \in BOOLEAN, Exit(r, ok)
  PROVE  /\ \A q \in Threads \ {r} : req'[q] = req[q]
         /\ \/ /\ req'[r].at = "edit" /\ req'[r].opt = req[r].opt /\ req'[r].op = req[r].op + 1
               /\ expect' = expect /\ (ok \/ ~Op(r).must) /\ req[r].op < Len(Script(req[r].opt))
            \/ /\ req'[r] = Rest
               /\ \/ ok /\ expect' = [expect EXCEPT ![req[r].opt[1]] = req[r].opt[2]]
                        /\ req[r].op = Len(Script(req[r].opt))
                  \/ ~ok /\ expect' = expect
<1> PICK G : req \in [Threads -> Reqs(G)] BY DEF IInv, Types, Formed
<1>1. req[r].op \in 1 .. Len(Script(req[r].opt)) BY AtChanges
<1>2. CASE (ok \/ ~Op(r).must) /\ req[r].op < Len(Script(req[r].opt))
  <2>1. req' = [req EXCEPT ![r].at = "edit", ![r].op = @ + 1, ![r].got = <<>>] /\ expect' = expect
    BY <1>2 DEF Exit
  <2>2. req[r] \in Reqs(G) OBVIOUS
  <2> QED BY <1>2, <2>1, <2>2 DEF Reqs
<1>3. CASE ~((ok \/ ~Op(r).must) /\ req[r].op < Len(Script(req[r].opt)))
  <2>1. /\ req' = [req EXCEPT ![r] = Rest]
        /\ expect' = IF ok THEN [expect EXCEPT ![req[r].opt[1]] = req[r].opt[2]] ELSE expect
    BY <1>3 DEF Exit, End
  <2>2. req'[r] = Rest /\ \A q \in Threads \ {r} : req'[q] = req[q] BY <2>1
  <2>3. ok => req[r].op = Len(Script(req[r].opt))
    <3> PICK n : n = Len(Script(req[r].opt)) OBVIOUS
    <3> QED BY <1>1, <1>3
  <2> QED BY <2>1, <2>2, <2>3
<1> QED BY <1>2, <1>3

LEMMA RestIs == Rest.at = "idle" /\ Rest.opt = <<>>
  BY DEF Rest

LEMMA ExitKeeps ==
  ASSUME IInv, Sound, Clear, NEW r \in Threads, req[r].at \in Changes, NEW ok \in BOOLEAN, Exit(r, ok),
         NEW f, Good(f), NEW e, e = Edit(Op(r), f), ok => e.ok,
         file' = After(f, e), torn' = FALSE, \A q \in Threads \ {r} : req[q].at # "write"
  PROVE  Sound'
<1> DEFINE o == req[r].opt
           n == req[r].op
           g == After(f, e)
<1>1. o \in Offered /\ o[1] \in Settings /\ Changing(r, o[1]) /\ n \in 1 .. Len(Script(o)) BY AtChanges
<1>2. Calm BY DEF Sound
<1>3. Does(o, n, f, e)
  <2>1. LaidOut(f) /\ Ready(o, n, f) BY DEF Good
  <2>2. e = Edit(Script(o)[n], f) BY DEF Op
  <2>3. o[1] # "metrics" BY <1>1, <1>2 DEF Calm, Unmetered
  <2> HIDE DEF o, n
  <2> QED BY <1>1, <2>1, <2>2, <2>3, EditDoes
<1>4. \A q \in Threads \ {r} : req'[q] = req[q] BY ExitIs
<1>5. \/ /\ req'[r].at = "edit" /\ req'[r].opt = o /\ req'[r].op = n + 1
         /\ expect' = expect /\ (ok \/ ~Op(r).must) /\ n < Len(Script(o))
      \/ /\ req'[r] = Rest
         /\ \/ ok /\ expect' = [expect EXCEPT ![o[1]] = o[2]] /\ n = Len(Script(o))
            \/ ~ok /\ expect' = expect
  BY ExitIs
<1>6. DOMAIN expect' = Settings /\ \A s \in Settings : s # o[1] => expect'[s] = expect[s]
  <2>1. DOMAIN expect = Settings BY DEF Sound
  <2>2. expect' = expect \/ expect' = [expect EXCEPT ![o[1]] = o[2]] BY <1>5
  <2> QED BY <2>1, <2>2
<1>7. req'[r].at \in {"edit", "idle"} /\ (req'[r].at = "idle" => req'[r].opt = <<>>)
  BY <1>5, RestIs
<1>8. \A q \in Threads : \A s : Changing(q, s)' => Changing(q, s)
  <2> SUFFICES ASSUME NEW q \in Threads, NEW s, Changing(q, s)' PROVE Changing(q, s) OBVIOUS
  <2>1. CASE q = r
    <3>1. req'[r].opt = o BY <1>5, <2>1, RestIs DEF Changing
    <3> QED BY <2>1, <3>1 DEF Changing
  <2>2. CASE q # r BY <1>4, <2>2, Same
  <2> QED BY <2>1, <2>2
<1>9. \A q \in Threads : Scripted(q)'
  <2> TAKE q \in Threads
  <2>1. CASE q # r BY <1>4, <2>1, Same DEF Sound
  <2>2. CASE q = r /\ req'[r].at = "edit" /\ req'[r].opt = o /\ req'[r].op = n + 1 /\ n < Len(Script(o))
    <3>1. n + 1 \in 1 .. Len(Script(o)) BY <1>1, <2>2
    <3> QED BY <1>1, <2>2, <3>1 DEF Scripted
  <2>3. CASE q = r /\ req'[r] = Rest BY <2>3, RestIs DEF Scripted, Changes
  <2> QED BY <1>5, <2>1, <2>2, <2>3
<1>10. \A q \in Threads : Pending(q)'
  <2> TAKE q \in Threads
  <2>1. CASE q # r BY <1>2, <1>4, <2>1, Same DEF Calm
  <2>2. CASE q = r BY <1>7, <2>2 DEF Pending
  <2> QED BY <2>1, <2>2
<1>11. \A q \in Threads : req'[q].at # "write" BY <1>4, <1>7
<1>12. OneWriter' BY <1>11 DEF OneWriter
<1>13. OneEach' BY <1>2, <1>8 DEF Calm, OneEach
<1>14. Unset'
  <2> SUFFICES ASSUME NEW q \in Threads, NEW s \in Settings, Changing(q, s)'
               PROVE  expect'[s] = Unknown
    BY DEF Unset
  <2>1. Changing(q, s) /\ expect[s] = Unknown BY <1>2, <1>8 DEF Calm, Unset
  <2>2. CASE expect' = expect BY <2>1, <2>2
  <2>3. CASE req'[r] = Rest
    <3>1. q # r BY <2>3, RestIs DEF Changing
    <3>2. s # o[1] BY <1>1, <1>2, <2>1, <3>1 DEF Calm, OneEach
    <3> QED BY <1>6, <2>1, <3>2
  <2> QED BY <1>5, <2>2, <2>3
<1>15. Good(g)'
  <2>1. LaidOut(g) BY <1>3 DEF Does
  <2>2. ASSUME NEW q \in Threads, req'[q].at \in Changes PROVE Ready(req'[q].opt, req'[q].op, g)
    <3>1. CASE q # r
      <4>1. req'[q] = req[q] /\ req[q].at \in Changes BY <1>4, <2>2, <3>1
      <4>2. req[q].opt \in Offered /\ Changing(q, req[q].opt[1]) /\ req[q].op \in Nat /\ req[q].opt[1] \in Settings
        BY <4>1, AtChanges
      <4>3. req[q].opt[1] # o[1] BY <1>1, <1>2, <3>1, <4>2 DEF Calm, OneEach
      <4>4. Ready(req[q].opt, req[q].op, f) BY <4>1 DEF Good
      <4>5. Ready(req[q].opt, req[q].op, g) BY <1>3, <4>2, <4>3, <4>4 DEF Does
      <4> QED BY <4>1, <4>5
    <3>2. CASE q = r
      <4>1. req'[r].opt = o /\ req'[r].op = n + 1 /\ (ok \/ ~Op(r).must) /\ n < Len(Script(o))
        BY <1>5, <2>2, <3>2, RestIs DEF Changes
      <4>2. Ready(o, n + 1, g) BY <1>3, <4>1 DEF Does, Op
      <4> QED BY <3>2, <4>1, <4>2
    <3> QED BY <3>1, <3>2
  <2>3. ASSUME NEW s \in Settings PROVE expect'[s] \in {Unknown, Shown(s, g)}
    <3>1. CASE s # o[1]
      <4>1. expect[s] \in {Unknown, Shown(s, f)} BY DEF Good
      <4>2. Shown(s, g) = Shown(s, f) BY <1>3, <3>1 DEF Does
      <4> QED BY <1>6, <3>1, <4>1, <4>2
    <3>2. CASE s = o[1]
      <4>1. expect[s] = Unknown BY <1>1, <1>2, <3>2 DEF Calm, Unset
      <4>2. CASE expect' = expect BY <4>1, <4>2
      <4>3. CASE ok /\ expect' = [expect EXCEPT ![o[1]] = o[2]] /\ n = Len(Script(o))
        <5>1. Shown(o[1], g) = o[2] BY <1>3, <4>3 DEF Does
        <5>2. expect'[s] = o[2]
          <6>1. DOMAIN expect = Settings BY DEF Sound
          <6> QED BY <3>2, <4>3, <6>1
        <5> QED BY <3>2, <5>1, <5>2
      <4> QED BY <1>5, <4>2, <4>3
    <3> QED BY <3>1, <3>2
  <2> QED BY <2>1, <2>2, <2>3 DEF Good
<1>16. \A v : Version(v)' => Good(v)'
  <2> SUFFICES ASSUME NEW v, Version(v)' PROVE Good(v)' OBVIOUS
  <2>1. v = g BY <1>11 DEF Version
  <2> QED BY <1>15, <2>1
<1>18. Unmetered' BY <1>2, <1>8 DEF Calm, Unmetered
<1>17. Calm' BY <1>10, <1>12, <1>13, <1>14, <1>16, <1>18 DEF Calm
<1> QED BY <1>6, <1>9, <1>17 DEF Sound

LEMMA CalmInit == ASSUME Start, Init PROVE Sound
<1>1. \A r \in Threads : req[r] = Rest BY DEF Init
<1>2. LaidOut(file) BY DEF Init, Start
<1>3. \A s \in Settings : expect[s] = Shown(s, file)
  <2>1. Readable(file) BY <1>2, LaidOutReads
  <2>2. \A s \in {"frontend", "spoolman", "metrics"} : Current(s) = Shown(s, file) BY <2>1 DEF Current, Shown
  <2>3. \A s \in Settings : expect[s] = Current(s) BY DEF Init
  <2> QED BY <2>2, <2>3, SettingsAre
<1>4. DOMAIN expect = Settings BY DEF Init
<1>5. \A r \in Threads : Scripted(r) /\ Pending(r) /\ req[r].at \notin Changes /\ req[r].opt = <<>>
  BY <1>1, RestIs DEF Scripted, Pending, Changes
<1>6. Good(file) BY <1>2, <1>3, <1>5 DEF Good
<1>7. OneWriter /\ OneEach /\ Unset /\ Unmetered
  BY <1>5 DEF OneWriter, OneEach, Unset, Unmetered, Changing, Changes
<1>8. \A f : Version(f) => f = file BY <1>5 DEF Version, Changes
<1> QED BY <1>4, <1>5, <1>6, <1>7, <1>8 DEF Sound, Calm

\* A step that leaves the file and the options alone and its thread without one.
LEMMA Quiet ==
  ASSUME Sound, UNCHANGED <<file, torn, expect, dirty, metered>>,
         \A q \in Threads : req'[q] = req[q] \/ (req'[q].at \notin Changes /\ req'[q].opt = <<>>)
  PROVE  Sound'
<1>1. \A q \in Threads : req'[q] = req[q] \/ (req'[q].at \notin Changes /\ req'[q].opt = <<>>) OBVIOUS
<1>2. \A q \in Threads : Scripted(q)' BY <1>1, Same DEF Sound, Scripted
<1>3. ASSUME Clear' PROVE Calm'
  <2>1. Calm BY <1>3 DEF Sound, Clear
  <2>2. \A q \in Threads : Pending(q)' BY <1>1, <2>1, Same DEF Calm, Pending, Changes
  <2>3. \A q \in Threads : req'[q].at = "write" => req'[q] = req[q] BY <1>1 DEF Changes
  <2>4. \A q \in Threads : \A s : Changing(q, s)' => Changing(q, s) BY <1>1, Same DEF Changing
  <2>5. OneWriter' BY <2>1, <2>3 DEF Calm, OneWriter
  <2>6. OneEach' BY <2>1, <2>4 DEF Calm, OneEach
  <2>7. Unset' /\ Unmetered' BY <2>1, <2>4 DEF Calm, Unset, Unmetered
  <2>8. ASSUME NEW f, Version(f)' PROVE Good(f)'
    <3>1. Version(f) BY <2>3, <2>8 DEF Version
    <3>2. Good(f) BY <2>1, <3>1 DEF Calm
    <3>3. \A q \in Threads : req'[q].at \in Changes => req'[q] = req[q] BY <1>1
    <3> QED BY <3>2, <3>3 DEF Good
  <2> QED BY <2>2, <2>5, <2>6, <2>7, <2>8 DEF Calm
<1> QED BY <1>2, <1>3 DEF Sound

LEMMA UploadCalm ==
  ASSUME IInv, Sound, NEW r \in Threads, AskUpload(r) \/ UploadStep(r)
  PROVE  Sound'
<1>1. /\ \A q \in Threads \ {r} : req'[q] = req[q]
      /\ req'[r].at \in Uploads \cup {"idle"} /\ req'[r].opt = <<>>
  BY UploadMoves
<1>2. UNCHANGED <<file, torn, expect, dirty, metered>>
  BY DEF AskUpload, UploadStep, Unlink, Open, Flock, Receive, Reset, Close, StartStream, StreamEnds, Remove,
     At, config
<1>3. req'[r].at \notin Changes BY <1>1 DEF Uploads, Changes
<1> QED BY <1>1, <1>2, <1>3, Quiet

LEMMA InstallerCalm ==
  ASSUME Sound, NEW r \in Threads, InstallerStep(r)
  PROVE  Sound'
<1>1. UNCHANGED <<req, file, torn, expect, dirty, metered>>
  BY DEF InstallerStep, Look, Unzip, Move, Size, Discard, Install, Exited, rest, config
<1> QED BY <1>1, Quiet

LEMMA CutCalm == ASSUME IInv, Sound, PowerCut PROVE Sound'
<1>1. \A q \in Threads : req'[q] = Rest BY DEF PowerCut
<1>2. UNCHANGED <<file, expect, metered>> /\ (dirty' <=> dirty \/ torn) /\ (~torn => torn' = FALSE)
  BY DEF PowerCut
<1>3. \A q \in Threads : req'[q].at \notin Changes /\ req'[q].opt = <<>> BY <1>1, RestIs DEF Changes
<1>4. CASE torn \/ ~Clear
  <2>1. ~Clear' BY <1>2, <1>4 DEF Clear
  <2>2. \A q \in Threads : Scripted(q)' BY <1>3 DEF Scripted
  <2> QED BY <1>2, <2>1, <2>2 DEF Sound
<1>5. CASE ~torn /\ Clear
  <2>1. \A q \in Threads : Scripted(q)' /\ Pending(q)' BY <1>3 DEF Scripted, Pending, Changes
  <2>2. OneWriter' /\ OneEach' /\ Unset' /\ Unmetered'
    BY <1>3 DEF OneWriter, OneEach, Unset, Unmetered, Changing, Changes
  <2>3. ASSUME NEW f, Version(f)' PROVE Good(f)'
    <3>1. f = file BY <1>2, <1>3, <2>3 DEF Version, Changes
    <3>2. Version(f) BY <1>5, <3>1 DEF Version
    <3>3. Good(f) BY <1>5, <3>2 DEF Sound, Calm
    <3> QED BY <1>2, <1>3, <3>3 DEF Good
  <2> QED BY <1>2, <2>1, <2>2, <2>3 DEF Sound, Calm
<1> QED BY <1>4, <1>5

LEMMA AskCalm ==
  ASSUME IInv, Sound, NEW r \in Threads, NEW o \in Offered, AskSetting(r, o)
  PROVE  Sound'
<1> DEFINE x == [Rest EXCEPT !.at = "edit", !.opt = o, !.op = 1]
<1>1. /\ At(r, "idle") /\ ~dirty /\ req' = [req EXCEPT ![r] = x]
      /\ expect' = [expect EXCEPT ![o[1]] = Unknown]
      /\ (dirty' <=> \E q \in Threads : Changing(q, o[1]))
      /\ (metered' <=> o[1] = "metrics") /\ (metered => o[1] = "metrics")
      /\ UNCHANGED <<file, torn>>
  BY DEF AskSetting
<1>2. x.at = "edit" /\ x.opt = o /\ x.op = 1 BY DEF Rest
<1> HIDE DEF x
<1>3. req'[r] = x /\ \A q \in Threads \ {r} : req'[q] = req[q]
  <2>1. \E G : req \in [Threads -> Reqs(G)] BY DEF IInv, Types, Formed
  <2> QED BY <1>1, <2>1
<1>4. req[r].at = "idle" /\ req[r].opt = <<>> BY <1>1 DEF At, IInv, Kinds
<1>5. DOMAIN expect' = Settings /\ \A s \in Settings : expect'[s] = IF s = o[1] THEN Unknown ELSE expect[s]
  BY <1>1 DEF Sound
<1>6. o[1] \in Settings /\ 1 \in 1 .. Len(Script(o))
  <2>1. o[1] \in Settings BY DEF Settings
  <2>2. Len(Script(o)) \in 1 .. 3 BY ScriptLength
  <2> QED BY <2>1, <2>2
<1>7. \A q \in Threads : Scripted(q)'
  <2>1. Scripted(r)' BY <1>2, <1>3, <1>6 DEF Scripted
  <2> QED BY <1>3, <2>1, Same DEF Sound
<1>8. ASSUME Clear' PROVE Calm'
  <2>0. Calm /\ o[1] # "metrics" BY <1>1, <1>8 DEF Clear, Sound
  <2>1. \A q \in Threads : ~Changing(q, o[1]) BY <1>1, <1>8 DEF Clear
  <2>2. \A s : Changing(r, s)' <=> (o # <<>> /\ s = o[1]) BY <1>2, <1>3 DEF Changing
  <2>3. \A q \in Threads \ {r} : \A s : Changing(q, s)' <=> Changing(q, s) BY <1>3, Same
  <2>4. \A q \in Threads : Pending(q)'
    <3>1. Pending(r)' BY <1>2, <1>3 DEF Pending
    <3> QED BY <1>3, <2>0, <3>1, Same DEF Calm
  <2>5. \A q \in Threads : req'[q].at = "write" => q # r /\ req'[q] = req[q] BY <1>2, <1>3
  <2>6. OneWriter' BY <1>1, <2>0, <2>5 DEF Calm, OneWriter
  <2>7. OneEach'
    <3> SUFFICES ASSUME NEW p \in Threads, NEW q \in Threads, NEW s \in Settings, Changing(p, s)', Changing(q, s)'
                 PROVE  p = q
      BY DEF OneEach
    <3>1. CASE p # r /\ q # r BY <2>0, <2>3, <3>1 DEF Calm, OneEach
    <3>2. CASE p = r \/ q = r BY <2>1, <2>2, <2>3, <3>2
    <3> QED BY <3>1, <3>2
  <2>8. Unset'
    <3> SUFFICES ASSUME NEW q \in Threads, NEW s \in Settings, Changing(q, s)'
                 PROVE  expect'[s] = Unknown
      BY DEF Unset
    <3>1. CASE q = r BY <1>5, <2>2, <3>1
    <3>2. CASE q # r BY <1>5, <2>0, <2>3, <3>2 DEF Calm, Unset
    <3> QED BY <3>1, <3>2
  <2>9. ASSUME NEW f, Version(f)' PROVE Good(f)'
    <3>1. Version(f) BY <1>1, <2>5, <2>9 DEF Version
    <3>2. Good(f) BY <2>0, <3>1 DEF Calm
    <3>3. Ready(o, 1, f) BY DEF Ready
    <3>4. \A q \in Threads : req'[q].at \in Changes => Ready(req'[q].opt, req'[q].op, f)
      BY <1>2, <1>3, <3>2, <3>3 DEF Good
    <3> QED BY <1>5, <3>2, <3>4 DEF Good
  <2>10. Unmetered' BY <2>0, <2>2, <2>3 DEF Calm, Unmetered
  <2> QED BY <2>4, <2>6, <2>7, <2>8, <2>9, <2>10 DEF Calm
<1> QED BY <1>5, <1>7, <1>8 DEF Sound

\* Steps of a change that has no command to end: its thread's record x but for
\* what it is at and what it has got.
LEMMA MoveCalm ==
  ASSUME IInv, Sound, Clear, NEW r \in Threads, req[r].at \in Changes,
         \A q \in Threads \ {r} : req'[q] = req[q],
         req'[r].opt = req[r].opt, req'[r].op = req[r].op, req'[r].at \in {"truncate", "write"},
         UNCHANGED expect, Pending(r)', OneWriter', \A f : Version(f)' => Version(f)
  PROVE  Sound'
<1>1. Calm BY DEF Sound
<1>2. \A q \in Threads : req'[q].opt = req[q].opt /\ req'[q].op = req[q].op
                          /\ (req'[q].at \in Changes <=> req[q].at \in Changes)
  BY DEF Changes
<1>3. \A q \in Threads : Scripted(q)' BY <1>2 DEF Sound, Scripted
<1>4. \A q \in Threads : \A s : Changing(q, s)' <=> Changing(q, s) BY <1>2 DEF Changing
<1>5. \A q \in Threads : Pending(q)' BY <1>1, Same DEF Calm
<1>6. OneEach' BY <1>1, <1>4 DEF Calm, OneEach
<1>7. Unset' /\ Unmetered' BY <1>1, <1>4 DEF Calm, Unset, Unmetered
<1>8. ASSUME NEW f, Version(f)' PROVE Good(f)'
  <2>1. Good(f) BY <1>1, <1>8 DEF Calm
  <2> QED BY <1>2, <2>1 DEF Good
<1> QED BY <1>3, <1>5, <1>6, <1>7, <1>8 DEF Sound, Calm

\* Once edits have overlapped nothing is claimed but the form of the scripts.
LEMMA DirtyKeeps ==
  ASSUME IInv, Sound, NEW r \in Threads, SettingStep(r), ~Clear'
  PROVE  Sound'
<1> PICK G : req \in [Threads -> Reqs(G)] BY DEF IInv, Types, Formed
<1>0. req[r] \in Reqs(G) OBVIOUS
<1>1. /\ req[r].at \in Changes
      /\ \/ \E ok \in BOOLEAN : Exit(r, ok)
         \/ /\ \A q \in Threads \ {r} : req'[q] = req[q]
            /\ UNCHANGED expect /\ req'[r].opt = req[r].opt /\ req'[r].op = req[r].op
  <2>1. CASE ReadLines(r)
    <3>1. CASE Edit(Op(r), file).write
      <4>1. req' = [req EXCEPT ![r].at = "truncate", ![r].got = file] /\ UNCHANGED expect /\ req[r].at = "edit"
        BY <2>1, <3>1 DEF ReadLines, At
      <4> QED BY <1>0, <4>1 DEF Reqs, Changes
    <3>2. CASE ~Edit(Op(r), file).write
      <4>1. PICK heard \in BOOLEAN : Exit(r, Edit(Op(r), file).ok /\ heard) BY <2>1, <3>2 DEF ReadLines
      <4>2. (Edit(Op(r), file).ok /\ heard) \in BOOLEAN OBVIOUS
      <4> QED BY <2>1, <4>1, <4>2 DEF ReadLines, At, Changes
    <3> QED BY <3>1, <3>2
  <2>2. CASE Truncate(r)
    <3>1. req' = [req EXCEPT ![r].at = "write"] /\ UNCHANGED expect /\ req[r].at = "truncate"
      BY <2>2 DEF Truncate, Go, At
    <3> QED BY <1>0, <3>1 DEF Reqs, Changes
  <2>3. CASE WriteLines(r) BY <2>3 DEF WriteLines, At, Changes
  <2> QED BY <2>1, <2>2, <2>3 DEF SettingStep
<1>2. CASE \E ok \in BOOLEAN : Exit(r, ok)
  <2>1. PICK ok \in BOOLEAN : Exit(r, ok) BY <1>2
  <2>2. /\ \A q \in Threads \ {r} : req'[q] = req[q]
        /\ \/ /\ req'[r].at = "edit" /\ req'[r].opt = req[r].opt /\ req'[r].op = req[r].op + 1
              /\ expect' = expect /\ req[r].op < Len(Script(req[r].opt))
           \/ req'[r] = Rest
        /\ \/ expect' = [expect EXCEPT ![req[r].opt[1]] = req[r].opt[2]]
           \/ expect' = expect
    BY <1>1, <2>1, ExitIs
  <2>3. DOMAIN expect' = Settings BY <2>2 DEF Sound
  <2>4. Scripted(r)'
    <3>1. CASE req'[r] = Rest BY <3>1, RestIs DEF Scripted, Changes
    <3>2. CASE req'[r].opt = req[r].opt /\ req'[r].op = req[r].op + 1 /\ req[r].op < Len(Script(req[r].opt))
      <4>1. req[r].opt \in Offered /\ req[r].op \in 1 .. Len(Script(req[r].opt)) BY <1>1, AtChanges
      <4>2. req[r].op + 1 \in 1 .. Len(Script(req[r].opt)) BY <3>2, <4>1
      <4> QED BY <3>2, <4>1, <4>2 DEF Scripted
    <3> QED BY <2>2, <3>1, <3>2
  <2>5. \A q \in Threads : Scripted(q)' BY <2>2, <2>4, Same DEF Sound
  <2> QED BY <2>3, <2>5 DEF Sound
<1>3. CASE /\ \A q \in Threads \ {r} : req'[q] = req[q]
           /\ UNCHANGED expect /\ req'[r].opt = req[r].opt /\ req'[r].op = req[r].op
  <2>1. Scripted(r)'
    <3>1. req[r].opt \in Offered /\ req[r].op \in 1 .. Len(Script(req[r].opt)) BY <1>1, AtChanges
    <3> QED BY <1>3, <3>1 DEF Scripted
  <2>2. \A q \in Threads : Scripted(q)' BY <1>3, <2>1, Same DEF Sound
  <2> QED BY <1>3, <2>2 DEF Sound
<1> QED BY <1>1, <1>2, <1>3

LEMMA ReadCalm ==
  ASSUME IInv, Sound, NEW r \in Threads, ReadLines(r), Clear'
  PROVE  Sound'
<1> PICK G : req \in [Threads -> Reqs(G)] BY DEF IInv, Types, Formed
<1>0. req[r] \in Reqs(G) OBVIOUS
<1> DEFINE e == Edit(Op(r), file)
<1>1. Clear /\ ~torn /\ UNCHANGED <<file, torn>> /\ req[r].at = "edit" /\ req[r].at \in Changes
  BY DEF ReadLines, At, Changes, Clear
<1>2. Calm BY <1>1 DEF Sound
<1>3. Good(file) BY <1>1, <1>2 DEF Calm, Version
<1>4. \A q \in Threads : req[q].at # "write" BY <1>1, <1>2 DEF Calm, OneWriter
<1>5. CASE e.write
  <2>1. req' = [req EXCEPT ![r].at = "truncate", ![r].got = file] /\ UNCHANGED expect
    BY <1>5 DEF ReadLines
  <2>2. /\ req'[r].at = "truncate" /\ req'[r].got = file /\ req'[r].opt = req[r].opt /\ req'[r].op = req[r].op
        /\ \A q \in Threads \ {r} : req'[q] = req[q]
    BY <1>0, <2>1 DEF Reqs
  <2>3. Op(r)' = Op(r) BY <2>2 DEF Op
  <2>4. Pending(r)' BY <1>5, <2>2, <2>3 DEF Pending
  <2>5. \A q \in Threads : req'[q].at # "write" BY <1>4, <2>2
  <2>6. OneWriter' BY <2>5 DEF OneWriter
  <2>7. \A f : Version(f)' => Version(f) BY <1>1, <2>5 DEF Version
  <2> QED BY <1>1, <2>1, <2>2, <2>4, <2>6, <2>7, MoveCalm
<1>6. CASE ~e.write
  <2>1. PICK heard \in BOOLEAN : Exit(r, e.ok /\ heard) BY <1>6 DEF ReadLines
  <2>2. PICK ok \in BOOLEAN : Exit(r, ok) /\ (ok => e.ok)
    <3>1. (e.ok /\ heard) \in BOOLEAN /\ ((e.ok /\ heard) => e.ok) OBVIOUS
    <3> QED BY <2>1, <3>1
  <2>3. file' = After(file, e) BY <1>1, <1>6 DEF After
  <2>4. torn' = FALSE
    <3>1. torn = FALSE BY <1>1, <1>6 DEF ReadLines
    <3> QED BY <1>1, <3>1
  <2> HIDE DEF e
  <2>5. e = Edit(Op(r), file) BY DEF e
  <2> QED BY <1>1, <1>3, <1>4, <2>2, <2>3, <2>4, <2>5, ExitKeeps
<1> QED BY <1>5, <1>6

LEMMA TruncateCalm ==
  ASSUME IInv, Sound, NEW r \in Threads, Truncate(r), Clear'
  PROVE  Sound'
<1> PICK G : req \in [Threads -> Reqs(G)] BY DEF IInv, Types, Formed
<1>0. req[r] \in Reqs(G) OBVIOUS
<1>1. /\ Clear /\ ~torn /\ file = req[r].got /\ torn' /\ UNCHANGED expect
      /\ req[r].at = "truncate" /\ req[r].at \in Changes /\ req' = [req EXCEPT ![r].at = "write"]
  BY DEF Truncate, Go, At, Changes, Clear
<1>2. Calm BY <1>1 DEF Sound
<1>3. /\ req'[r].at = "write" /\ req'[r].got = req[r].got /\ req'[r].opt = req[r].opt /\ req'[r].op = req[r].op
      /\ \A q \in Threads \ {r} : req'[q] = req[q]
  BY <1>0, <1>1 DEF Reqs
<1>4. Op(r)' = Op(r) BY <1>3 DEF Op
<1>5. Pending(r)' BY <1>1, <1>2, <1>3, <1>4 DEF Calm, Pending
<1>6. \A q \in Threads : req'[q].at = "write" => q = r BY <1>1, <1>2, <1>3 DEF Calm, OneWriter
<1>7. OneWriter' BY <1>1, <1>6 DEF OneWriter
<1>8. \A f : Version(f)' => Version(f) BY <1>1, <1>3, <1>6 DEF Version
<1> QED BY <1>1, <1>3, <1>5, <1>7, <1>8, MoveCalm

LEMMA WriteCalm ==
  ASSUME IInv, Sound, NEW r \in Threads, WriteLines(r), Clear'
  PROVE  Sound'
<1> DEFINE f == req[r].got
           e == Edit(Op(r), f)
<1>1. Clear /\ req[r].at = "write" /\ req[r].at \in Changes BY DEF WriteLines, At, Changes, Clear
<1>2. Calm BY <1>1 DEF Sound
<1>3. torn /\ \A q \in Threads \ {r} : req[q].at # "write" BY <1>1, <1>2 DEF Calm, OneWriter
<1>4. torn' = FALSE BY <1>3 DEF WriteLines
<1>5. e.write BY <1>1, <1>2 DEF Calm, Pending
<1>6. file' = After(f, e)
  <2>1. file' = e.lines BY <1>4 DEF WriteLines
  <2> QED BY <1>5, <2>1 DEF After
<1>7. Good(f) BY <1>1, <1>2 DEF Calm, Version
<1>8. e.ok
  <2>1. req[r].opt \in Offered /\ req[r].op \in 1 .. Len(Script(req[r].opt)) BY <1>1, AtChanges
  <2>2. LaidOut(f) /\ Ready(req[r].opt, req[r].op, f) BY <1>1, <1>7 DEF Good
  <2>3. e = Edit(Script(req[r].opt)[req[r].op], f) BY DEF Op
  <2>5. req[r].opt[1] # "metrics" BY <1>1, <1>2, AtChanges DEF Calm, Unmetered
  <2>4. Does(req[r].opt, req[r].op, f, e)
    <3> HIDE DEF f, e
    <3> QED BY <2>1, <2>2, <2>3, <2>5, EditDoes
  <2> QED BY <1>5, <2>4 DEF Does
<1>9. PICK heard \in BOOLEAN : Exit(r, heard) BY DEF WriteLines
<1> HIDE DEF e, f
<1>10. e = Edit(Op(r), f) BY DEF e
<1> QED BY <1>1, <1>3, <1>4, <1>6, <1>7, <1>8, <1>9, <1>10, ExitKeeps

LEMMA CalmInductive == ASSUME IInv, Sound, [Next]_vars PROVE Sound'
<1>1. ASSUME NEW r \in Threads, SettingStep(r) PROVE Sound'
  <2>1. CASE ~Clear' BY <1>1, <2>1, DirtyKeeps
  <2>2. CASE Clear' BY <1>1, <2>2, ReadCalm, TruncateCalm, WriteCalm DEF SettingStep
  <2> QED BY <2>1, <2>2
<1>2. ASSUME NEW r \in Threads, Request(r) \/ UploadStep(r) \/ InstallerStep(r) PROVE Sound'
  BY <1>2, AskCalm, UploadCalm, InstallerCalm DEF Request
<1>3. CASE UNCHANGED vars BY <1>3, Quiet DEF vars, config
<1> QED BY <1>1, <1>2, <1>3, CutCalm DEF Next

LEMMA CalmInvariance == ASSUME Start PROVE Spec => []Sound
<1>1. Init => Sound BY CalmInit
<1>2. IInv /\ Sound /\ [Next]_vars => Sound' BY CalmInductive
<1> QED BY <1>1, <1>2, Invariance, PTL DEF Spec

LEMMA SoundFile == ASSUME Sound, Clear, ~torn PROVE Good(file) /\ Readable(file)
<1>1. Good(file) BY DEF Sound, Calm, Version
<1> QED BY <1>1, LaidOutReads DEF Good

\* For any number of request threads and any laid out file to begin with: until
\* edits overlap or are cut by a power loss, or the metrics setting is used,
\* extended2.cfg stays a file that configparser reads.
THEOREM FileStaysReadable == ASSUME Start PROVE Spec => []FileReads
<1>1. Sound => FileReads BY SoundFile DEF FileReads, Clear
<1> QED BY <1>1, CalmInvariance, PTL

\* And until then the page shows for every setting, the metrics one too, the option
\* that was last set with success or that the file came with, whatever other settings
\* were changed, failed or were left half way since.
THEOREM SettingsAreShown == ASSUME Start PROVE Spec => []SettingsHold
<1>1. Sound => SettingsHold
  <2> SUFFICES ASSUME Sound, Clear, ~torn, NEW s \in Settings PROVE expect[s] \in {Unknown, Current(s)}
    BY DEF SettingsHold, Clear
  <2>1. Good(file) /\ Readable(file) BY SoundFile
  <2>2. s \in {"frontend", "spoolman", "metrics"} BY SettingsAre
  <2>3. Current(s) = Shown(s, file) BY <2>1, <2>2 DEF Current, Shown
  <2> QED BY <2>1, <2>3 DEF Good
<1> QED BY <1>1, CalmInvariance, PTL
================================================================================
