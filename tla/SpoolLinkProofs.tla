----------------------------- MODULE SpoolLinkProofs -----------------------------
(***************************************************************************)
(* For any spools, cards, channels, coroutines and retries: the types, and *)
(* that no link, cache entry or channel is ever wrong about a card, though *)
(* coroutines work from answers that are out of date. Then: SpoolLink      *)
(* implements CardLinks, with native tags or when calls run one at a time. *)
(* Last, for calls that run one at a time: clearing a card, and what holds *)
(* of card, spool and cache while nothing fails.                           *)
(***************************************************************************)
EXTENDS SpoolLink, FiniteSetTheorems, TLAPS

(* What a coroutine has when it is suspended at each label.                *)
Control(r) ==
  /\ r.call.kind = "unlink" => r.call.card # None /\ r.call.spool = None
  /\ r.byId # None => r.call.kind = "resolve" /\ r.byId.id = r.call.spool
  /\ r.pc \in {"check", "erase", "findByCard", "unbind", "bind", "moveTag", "bindAgain"} =>
       r.call.card # None
  /\ r.pc = "getById" => r.call.spool # None
  /\ r.pc \in {"getById", "decide", "bind", "moveTag", "bindAgain", "save", "push"} =>
       r.call.kind = "resolve"
  /\ r.pc \in {"check", "erase", "getById", "findByCard", "decide"} => r.todo = {}
  /\ r.pc \in {"bind", "moveTag", "bindAgain"} => r.byId # None
  /\ r.pc = "moveTag" => r.holder \in Spools \ {r.byId.id}
  /\ r.pc = "unbind" =>
       r.todo # {} /\ (r.call.kind = "resolve" => r.byId # None)
  /\ \A x \in r.todo : r.byId # None => x.id # r.byId.id

(* Everything a coroutine has read or decided was asked for.               *)
Known(r, a) ==
  /\ r.call.kind = "resolve" /\ r.call.spool # None /\ r.call.card # None =>
       <<r.call.card, r.call.spool>> \in a
  /\ r.spool # None /\ r.call.card # None => <<r.call.card, r.spool>> \in a
  /\ r.byId # None => \A c \in r.byId.uids : <<c, r.byId.id>> \in a
  /\ \A x \in r.byCard \cup r.todo : \A c \in x.uids : <<c, x.id>> \in a
  /\ \A x \in r.byCard : r.call.card \in x.uids

GoodTask(r, a) == r \in Task /\ Control(r) /\ Known(r, a)

IInv ==
  /\ TypeOK
  /\ budget.scans <= MaxScans
  /\ \A t \in Tasks : GoodTask(task[t], asked)
  /\ OnlyAskedFor

TasksGood == \A t \in Tasks : GoodTask(task[t], asked)

--------------------------------------------------------------------------------
(* Helpers                                                                 *)

(* A coroutine that goes on with a good record leaves all of them good.    *)
LEMMA Becomes ==
  ASSUME TypeOK, \A u \in Tasks : GoodTask(task[u], asked),
         NEW t \in Tasks, NEW r, Become(t, r), GoodTask(r, asked'), asked \subseteq asked'
  PROVE  task' \in [Tasks -> Task] /\ \A u \in Tasks : GoodTask(task'[u], asked')
<1>1. task' \in [Tasks -> Task]
  BY DEF TypeOK, Become, GoodTask
<1>2. ASSUME NEW u \in Tasks, u # t PROVE GoodTask(task'[u], asked')
  <2>1. task'[u] = task[u]
    BY <1>2 DEF Become, TypeOK
  <2>2. Known(task[u], asked')
    BY DEF GoodTask, Known
  <2> QED
    BY <2>1, <2>2 DEF GoodTask
<1>3. task'[t] = r
  BY DEF Become, TypeOK
<1> QED
  BY <1>1, <1>2, <1>3

LEMMA FaultType ==
  ASSUME TypeOK, Fault
  PROVE  budget' \in [faults : Nat, calls : Nat, scans : Nat] /\ budget'.scans = budget.scans
BY DEF TypeOK, Fault

LEMMA NoTries == 0 \in 0 .. Retries
BY SpoolLinkAssumption

LEMMA IdleGood == \A a : GoodTask(Idle, a)
BY SpoolLinkAssumption DEF GoodTask, Idle, NoCall, Task, Call, Label, Control, Known

LEMMA RetryGood ==
  ASSUME NEW t \in Tasks, NEW a, GoodTask(task[t], a), task[t].tries < Retries,
         NEW from \in {"getById", "findByCard", "unbind", "bind"},
         from = task[t].pc \/ (from = "bind" /\ task[t].pc \in {"moveTag", "bindAgain"})
  PROVE  GoodTask([task[t] EXCEPT !.pc = from, !.tries = @ + 1], a)
<1>1. task[t].tries + 1 \in 0 .. Retries
  BY SpoolLinkAssumption DEF GoodTask, Task
<1> DEFINE r == [task[t] EXCEPT !.pc = from, !.tries = @ + 1]
<1>2. r \in Task
  BY <1>1 DEF GoodTask, Task, Label
<1>3. Control(r)
  BY DEF GoodTask, Task, Control
<1>4. Known(r, a)
  BY DEF GoodTask, Task, Known
<1> QED
  BY <1>2, <1>3, <1>4 DEF GoodTask

LEMMA RetryOrGood ==
  ASSUME NEW t \in Tasks, GoodTask(task[t], asked),
         NEW from \in {"getById", "findByCard", "unbind", "bind"},
         from = task[t].pc \/ (from = "bind" /\ task[t].pc \in {"moveTag", "bindAgain"}),
         NEW r, GoodTask(r, asked), RetryOr(t, from, r)
  PROVE  \E new : Become(t, new) /\ GoodTask(new, asked)
BY RetryGood DEF RetryOr

LEMMA SnapGood ==
  ASSUME TypeOK, OnlyAskedFor, NEW s \in Spools
  PROVE  /\ Snap(s) \in Snapshot /\ Snap(s) # None /\ Snap(s).id = s
         /\ Snap(s).uids = links[s]
         /\ \A c \in Snap(s).uids : <<c, Snap(s).id>> \in asked
BY SpoolLinkAssumption DEF TypeOK, OnlyAskedFor, Snap, Snapshot

LEMMA AfterGetGood ==
  ASSUME TypeOK, NEW t \in Tasks, GoodTask(task[t], asked), At(t, "getById"),
         NEW ok \in BOOLEAN, NEW got \in Snapshot \cup {None},
         got # None => /\ got.id = task[t].call.spool
                       /\ \A c \in got.uids : <<c, got.id>> \in asked
  PROVE  GoodTask(AfterGet(t, got, ok), asked)
<1>1. AfterGet(t, got, ok) \in Task
  BY NoTries DEF GoodTask, AfterGet, Task, Label
<1>2. Control(AfterGet(t, got, ok))
  BY DEF GoodTask, At, AfterGet, Task, Control
<1>3. Known(AfterGet(t, got, ok), asked)
  BY DEF GoodTask, AfterGet, Task, Known
<1> QED
  BY <1>1, <1>2, <1>3 DEF GoodTask

LEMMA AfterFindGood ==
  ASSUME TypeOK, NEW t \in Tasks, GoodTask(task[t], asked), At(t, "findByCard"),
         NEW ok \in BOOLEAN, NEW found \in SUBSET Snapshot,
         \A x \in found : task[t].call.card \in x.uids /\ \A c \in x.uids : <<c, x.id>> \in asked
  PROVE  GoodTask(AfterFind(t, found, ok), asked)
<1>1. (ok /\ task[t].ok) \in BOOLEAN
  BY Zenon
<1> DEFINE b == ok /\ task[t].ok
<1> HIDE DEF b
<1>2. b \in BOOLEAN
  BY <1>1 DEF b
<1>3. AfterFind(t, found, ok) =
        [task[t] EXCEPT !.byCard = IF task[t].call.kind = "resolve" THEN found ELSE {},
                        !.todo = IF task[t].call.kind = "unlink" THEN found ELSE {},
                        !.ok = b, !.tries = 0,
                        !.pc = IF task[t].call.kind = "resolve" THEN "decide"
                               ELSE IF found # {} THEN "unbind" ELSE "done"]
  BY Zenon DEF AfterFind, b, GoodTask, Task
<1>4. task[t].call.kind \in {"resolve", "unlink"}
  BY DEF GoodTask, Task, Call
<1>5. AfterFind(t, found, ok) \in Task
  BY <1>2, <1>3, <1>4, NoTries DEF GoodTask, Task, Label
<1>6. Control(AfterFind(t, found, ok))
  BY <1>3, <1>4 DEF GoodTask, At, Task, Control
<1>7. Known(AfterFind(t, found, ok), asked)
  BY <1>3, <1>4 DEF GoodTask, Task, Known
<1> QED
  BY <1>5, <1>6, <1>7 DEF GoodTask

LEMMA AfterUnbindGood ==
  ASSUME TypeOK, NEW t \in Tasks, GoodTask(task[t], asked), At(t, "unbind"),
         NEW x, NEW ok \in BOOLEAN
  PROVE  GoodTask(AfterUnbind(t, x, ok), asked)
<1>1. task[t].call.kind \in {"resolve", "unlink"}
  BY DEF GoodTask, Task, Call
<1>2. BindOrSave(t) \in {"save", "bind"}
  BY DEF BindOrSave
<1>3. AfterUnbind(t, x, ok) \in Task
  BY <1>2, NoTries DEF GoodTask, AfterUnbind, Task, Label
<1>4. Control(AfterUnbind(t, x, ok))
  BY <1>1, <1>2 DEF GoodTask, At, AfterUnbind, Task, Control
<1>5. Known(AfterUnbind(t, x, ok), asked)
  BY DEF GoodTask, AfterUnbind, Task, Known
<1> QED
  BY <1>3, <1>4, <1>5 DEF GoodTask

LEMMA AfterBindGood ==
  ASSUME TypeOK, NEW t \in Tasks, GoodTask(task[t], asked),
         task[t].pc \in {"bind", "moveTag", "bindAgain"}
  PROVE  GoodTask(AfterBind(t), asked)
<1>1. AfterBind(t) \in Task
  BY NoTries DEF GoodTask, AfterBind, Task, Label
<1>2. Control(AfterBind(t))
  BY DEF GoodTask, AfterBind, Task, Control
<1>3. Known(AfterBind(t), asked)
  BY DEF GoodTask, AfterBind, Task, Known
<1> QED
  BY <1>1, <1>2, <1>3 DEF GoodTask

--------------------------------------------------------------------------------
(* A step leaves its coroutine with a good record                          *)

LEMMA LookupTask ==
  ASSUME IInv, NEW t \in Tasks,
         \/ CheckTagApi(t) \/ CheckTagApiFails(t) \/ DeleteCache(t)
         \/ GetById(t) \/ GetByIdFails(t) \/ FindByCard(t) \/ FindByCardFails(t)
  PROVE  \E r : Become(t, r) /\ GoodTask(r, asked)
<1> USE DEF IInv
<1>1. GoodTask(task[t], asked) /\ task[t].call \in Call
  BY DEF GoodTask, Task
<1>2. CASE CheckTagApi(t)
  <2> DEFINE new == ~old
             pc == IF old THEN IF task[t].call.kind = "resolve" THEN "push" ELSE "done"
                   ELSE Checked(task[t].call)
             r == [task[t] EXCEPT !.pc = pc, !.ok = new]
  <2>1. Become(t, r) /\ At(t, "check")
    BY <1>2 DEF CheckTagApi
  <2>2. new \in BOOLEAN
    BY Zenon
  <2>3. /\ pc \in {"push", "done", "erase", "getById", "findByCard"}
        /\ pc = "push" => task[t].call.kind = "resolve"
        /\ pc = "getById" => task[t].call.kind = "resolve" /\ task[t].call.spool # None
    BY <1>1 DEF Checked, Call
  <2> HIDE DEF new, pc
  <2>4. r \in Task
    BY <1>1, <2>2, <2>3 DEF GoodTask, Task, Label
  <2>5. Control(r) /\ Known(r, asked)
    BY <1>1, <2>1, <2>3 DEF GoodTask, Task, At, Control, Known
  <2> QED
    BY <2>1, <2>4, <2>5 DEF GoodTask
<1>3. CASE CheckTagApiFails(t)
  <2> DEFINE r == [task[t] EXCEPT !.pc = Checked(task[t].call)]
  <2>1. Become(t, r) /\ At(t, "check")
    BY <1>3 DEF CheckTagApiFails
  <2>2. r \in Task
    BY <1>1 DEF GoodTask, Task, Label, Checked
  <2>3. Control(r) /\ Known(r, asked)
    BY <1>1, <2>1 DEF GoodTask, Task, Call, Checked, At, Control, Known
  <2> QED
    BY <2>1, <2>2, <2>3 DEF GoodTask
<1>4. CASE DeleteCache(t)
  <2> DEFINE r == [task[t] EXCEPT !.pc = "findByCard"]
  <2>1. Become(t, r) /\ At(t, "erase")
    BY <1>4 DEF DeleteCache
  <2>2. r \in Task
    BY <1>1 DEF GoodTask, Task, Label
  <2>3. Control(r) /\ Known(r, asked)
    BY <1>1, <2>1 DEF GoodTask, Task, At, Control, Known
  <2> QED
    BY <2>1, <2>2, <2>3 DEF GoodTask
<1>5. CASE GetById(t)
  <2> DEFINE s == task[t].call.spool
             got == IF s \in Stored THEN Snap(s) ELSE None
  <2>1. Become(t, AfterGet(t, got, TRUE)) /\ At(t, "getById")
    BY <1>5 DEF GetById
  <2>2. got \in Snapshot \cup {None} /\
        (got # None => got.id = s /\ \A c \in got.uids : <<c, got.id>> \in asked)
    BY SnapGood, SpoolLinkAssumption
  <2>3. GoodTask(AfterGet(t, got, TRUE), asked)
    BY <1>1, <2>1, <2>2, AfterGetGood
  <2> QED
    BY <2>1, <2>3
<1>6. CASE GetByIdFails(t)
  <2>1. At(t, "getById") /\ RetryOr(t, "getById", AfterGet(t, None, FALSE))
    BY <1>6 DEF GetByIdFails
  <2>2. GoodTask(AfterGet(t, None, FALSE), asked)
    BY <1>1, <2>1, AfterGetGood
  <2> QED
    BY <1>1, <2>1, <2>2, RetryOrGood DEF At
<1>7. CASE FindByCard(t)
  <2> DEFINE found == {Snap(s) : s \in {x \in Listed : task[t].call.card \in links[x]}}
  <2>1. Become(t, AfterFind(t, found, TRUE)) /\ At(t, "findByCard")
    BY <1>7 DEF FindByCard
  <2>2. ASSUME NEW x \in found
        PROVE  /\ x \in Snapshot /\ task[t].call.card \in x.uids
               /\ \A c \in x.uids : <<c, x.id>> \in asked
    BY SnapGood, SpoolLinkAssumption
  <2>3. GoodTask(AfterFind(t, found, TRUE), asked)
    BY <1>1, <2>1, <2>2, AfterFindGood
  <2> QED
    BY <2>1, <2>3
<1>8. CASE FindByCardFails(t)
  <2>1. At(t, "findByCard") /\ RetryOr(t, "findByCard", AfterFind(t, {}, FALSE))
    BY <1>8 DEF FindByCardFails
  <2>2. GoodTask(AfterFind(t, {}, FALSE), asked)
    BY <1>1, <2>1, AfterFindGood
  <2> QED
    BY <1>1, <2>1, <2>2, RetryOrGood DEF At
<1> QED
  BY <1>2, <1>3, <1>4, <1>5, <1>6, <1>7, <1>8

LEMMA DecideTask ==
  ASSUME IInv, NEW t \in Tasks,
         DecideAmbiguous(t) \/ DecideById(t) \/ DecideByCard(t) \/ DecideNone(t)
  PROVE  \E r : Become(t, r) /\ GoodTask(r, asked)
<1> USE DEF IInv
<1>1. GoodTask(task[t], asked) /\ At(t, "decide")
  BY DEF DecideAmbiguous, DecideById, DecideByCard, DecideNone
<1>2. CASE DecideAmbiguous(t)
  <2> DEFINE r == [task[t] EXCEPT !.pc = "push", !.byId = None, !.byCard = {}]
  <2>1. r \in Task
    BY <1>1 DEF GoodTask, Task, Label
  <2>2. Control(r) /\ Known(r, asked)
    BY <1>1 DEF GoodTask, Task, At, Control, Known
  <2> QED
    BY <1>2, <2>1, <2>2 DEF DecideAmbiguous, GoodTask
<1>3. CASE DecideById(t)
  <2> DEFINE stale == {x \in task[t].byCard : x.id # task[t].byId.id}
             pc == IF task[t].call.card = None THEN "save"
                   ELSE IF stale # {} THEN "unbind" ELSE BindOrSave(t)
             r == [task[t] EXCEPT !.spool = task[t].byId.id, !.todo = stale, !.byCard = {},
                                  !.pc = pc]
  <2>1. Become(t, r) /\ task[t].byId # None
    BY <1>3 DEF DecideById
  <2>2. task[t].byId \in Snapshot /\ task[t].byId.id \in Spools
        /\ task[t].byId.id = task[t].call.spool /\ task[t].call.kind = "resolve"
    BY <1>1, <2>1 DEF GoodTask, Task, Snapshot, Control
  <2>3. pc \in {"save", "unbind", "bind"}
        /\ (pc = "unbind" => stale # {} /\ task[t].call.card # None)
        /\ (pc = "bind" => task[t].call.card # None)
    BY DEF BindOrSave
  <2> HIDE DEF pc
  <2>4. stale \in SUBSET Snapshot
    BY <1>1 DEF GoodTask, Task
  <2>5. r \in Task
    BY <1>1, <2>2, <2>3, <2>4 DEF GoodTask, Task, Label
  <2>6. Control(r)
    BY <1>1, <2>1, <2>2, <2>3 DEF GoodTask, Task, Control
  <2>7. Known(r, asked)
    BY <1>1, <2>1, <2>2, SpoolLinkAssumption DEF GoodTask, Task, Known
  <2> QED
    BY <2>1, <2>5, <2>6, <2>7 DEF GoodTask
<1>4. CASE DecideByCard(t)
  <2>1. PICK x \in task[t].byCard :
          Become(t, [task[t] EXCEPT !.spool = x.id, !.byCard = {}, !.pc = "save"])
    BY <1>4 DEF DecideByCard
  <2> DEFINE r == [task[t] EXCEPT !.spool = x.id, !.byCard = {}, !.pc = "save"]
  <2>2. x \in Snapshot /\ x.id \in Spools
    BY <1>1 DEF GoodTask, Task, Snapshot
  <2>3. r \in Task
    BY <1>1, <2>2 DEF GoodTask, Task, Label
  <2>4. Control(r) /\ Known(r, asked)
    BY <1>1, <2>2 DEF GoodTask, Task, At, Control, Known
  <2> QED
    BY <2>1, <2>3, <2>4 DEF GoodTask
<1>5. CASE DecideNone(t)
  <2> DEFINE c == task[t].call.card
             r == [task[t] EXCEPT !.pc = "push", !.spool = IF task[t].ok THEN None ELSE cache[c]]
  <2>1. Become(t, Idle) \/ (c # None /\ Become(t, r))
    BY <1>5 DEF DecideNone
  <2>2. ASSUME c # None PROVE GoodTask(r, asked)
    <3>1. c \in Cards /\ cache[c] \in Spools \cup {None}
          /\ (cache[c] # None => <<c, cache[c]>> \in asked)
      BY <1>1, <2>2 DEF GoodTask, Task, Call, TypeOK, OnlyAskedFor
    <3>2. r \in Task
      BY <1>1, <3>1 DEF GoodTask, Task, Label
    <3>3. Control(r) /\ Known(r, asked)
      BY <1>1, <3>1 DEF GoodTask, Task, At, Control, Known
    <3> QED
      BY <3>2, <3>3 DEF GoodTask
  <2> QED
    BY <2>1, <2>2, IdleGood
<1> QED
  BY <1>2, <1>3, <1>4, <1>5

LEMMA UnbindTask ==
  ASSUME IInv, NEW t \in Tasks, Unbind(t) \/ UnbindFails(t)
  PROVE  /\ \E r : Become(t, r) /\ GoodTask(r, asked)
         /\ \E x \in task[t].todo : links' \in {links, Removed(x, task[t].call.card)}
<1> USE DEF IInv
<1> DEFINE x == CHOOSE y \in task[t].todo : TRUE
           giveUp == task[t].ok /\ task[t].call.kind = "resolve"
<1>1. GoodTask(task[t], asked) /\ At(t, "unbind")
  BY DEF Unbind, UnbindFails
<1>2. x \in task[t].todo
  BY <1>1 DEF GoodTask, Control, At
<1>3. links' \in {links, Removed(x, task[t].call.card)}
  BY DEF Unbind, UnbindFails
<1>4. CASE Unbind(t)
  <2>1. Become(t, AfterUnbind(t, x, task[t].ok))
    BY <1>4 DEF Unbind
  <2>2. task[t].ok \in BOOLEAN
    BY <1>1 DEF GoodTask, Task
  <2> QED
    BY <1>1, <1>2, <1>3, <2>1, <2>2, AfterUnbindGood
<1>5. CASE UnbindFails(t)
  <2>1. giveUp \in BOOLEAN
    BY Zenon
  <2>2. GoodTask(AfterUnbind(t, x, giveUp), asked)
    BY <1>1, <2>1, AfterUnbindGood
  <2>3. RetryOr(t, "unbind", AfterUnbind(t, x, giveUp))
    BY <1>5 DEF UnbindFails, UnbindGivenUp
  <2> QED
    BY <1>1, <1>2, <1>3, <2>2, <2>3, RetryOrGood DEF At
<1> QED
  BY <1>4, <1>5

LEMMA BindTask ==
  ASSUME IInv, NEW t \in Tasks,
         \/ PatchCardUids(t) \/ PatchCardUidsFails(t)
         \/ LinkTag(t) \/ LinkTagConflict(t) \/ LinkTagRefused(t) \/ LinkTagFails(t)
         \/ MoveTag(t) \/ MoveTagFails(t)
  PROVE  \E r : Become(t, r) /\ GoodTask(r, asked)
<1> USE DEF IInv
<1>1. GoodTask(task[t], asked) /\ task[t].pc \in {"bind", "moveTag", "bindAgain"}
  BY DEF At, PatchCardUids, PatchCardUidsFails, LinkTag, LinkTagConflict, LinkTagRefused,
     LinkTagFails, MoveTag, MoveTagFails
<1>2. CASE PatchCardUids(t) \/ LinkTag(t)
  BY <1>1, <1>2, AfterBindGood DEF PatchCardUids, LinkTag
<1>3. CASE PatchCardUidsFails(t) \/ LinkTagRefused(t) \/ LinkTagFails(t) \/ MoveTagFails(t)
  <2>1. RetryOr(t, "bind", AfterBind(t))
    BY <1>3 DEF PatchCardUidsFails, LinkTagRefused, LinkTagFails, MoveTagFails
  <2> QED
    BY <1>1, <2>1, AfterBindGood, RetryOrGood
<1>4. CASE LinkTagConflict(t)
  <2>1. PICK h \in Spools \ {task[t].byId.id} :
          Become(t, [task[t] EXCEPT !.pc = "moveTag", !.holder = h])
    BY <1>4 DEF LinkTagConflict, Holders
  <2> DEFINE r == [task[t] EXCEPT !.pc = "moveTag", !.holder = h]
  <2>2. r \in Task
    BY <1>1 DEF GoodTask, Task, Label
  <2>3. Control(r) /\ Known(r, asked)
    BY <1>1 DEF GoodTask, Task, Control, Known
  <2> QED
    BY <2>1, <2>2, <2>3 DEF GoodTask
<1>5. CASE MoveTag(t)
  <2> DEFINE r == [task[t] EXCEPT !.pc = "bindAgain", !.holder = None]
  <2>1. r \in Task
    BY <1>1 DEF GoodTask, Task, Label
  <2>2. Control(r) /\ Known(r, asked)
    BY <1>1 DEF GoodTask, Task, Control, Known
  <2> QED
    BY <1>5, <2>1, <2>2 DEF MoveTag, GoodTask
<1> QED
  BY <1>2, <1>3, <1>4, <1>5

LEMMA EndTask ==
  ASSUME IInv, NEW t \in Tasks, SaveCache(t) \/ Push(t) \/ PushFails(t) \/ UnlinkDone(t)
  PROVE  \E r : Become(t, r) /\ GoodTask(r, asked)
<1> USE DEF IInv
<1>1. CASE SaveCache(t)
  <2> DEFINE r == [task[t] EXCEPT !.pc = "push", !.byId = None]
  <2>1. GoodTask(task[t], asked) /\ At(t, "save")
    BY <1>1 DEF SaveCache
  <2>2. r \in Task
    BY <2>1 DEF GoodTask, Task, Label
  <2>3. Control(r) /\ Known(r, asked)
    BY <2>1 DEF GoodTask, Task, At, Control, Known
  <2> QED
    BY <1>1, <2>2, <2>3 DEF SaveCache, GoodTask
<1>2. CASE Push(t) \/ PushFails(t) \/ UnlinkDone(t)
  BY <1>2, IdleGood DEF Push, PushFails, UnlinkDone
<1> QED
  BY <1>1, <1>2

LEMMA StepTask ==
  ASSUME IInv, NEW t \in Tasks, Step(t)
  PROVE  \E r : Become(t, r) /\ GoodTask(r, asked)
BY LookupTask, DecideTask, UnbindTask, BindTask, EndTask DEF Step

--------------------------------------------------------------------------------
(* A step links, caches and applies only what was asked for                *)

(* Which actions change what. *)
LEMMA StepFrame ==
  ASSUME NEW t \in Tasks, Step(t)
  PROVE  /\ UNCHANGED <<old, reader, seen, asked>>
         /\ supported' = supported \/ supported' = ~old
         /\ Fault \/ UNCHANGED budget
         /\ UnlinkDone(t) \/ UNCHANGED history
         /\ DeleteCache(t) \/ DecideNone(t) \/ SaveCache(t) \/ UNCHANGED cache
         /\ Push(t) \/ UNCHANGED ptc
         /\ \/ Unbind(t) \/ UnbindFails(t)
            \/ PatchCardUids(t) \/ PatchCardUidsFails(t)
            \/ LinkTag(t) \/ LinkTagFails(t) \/ MoveTag(t) \/ MoveTagFails(t)
            \/ UNCHANGED links
BY DEF Step, CheckTagApi, CheckTagApiFails, DeleteCache, GetById, GetByIdFails, FindByCard,
   FindByCardFails, DecideAmbiguous, DecideById, DecideByCard, DecideNone, Unbind,
   UnbindFails, PatchCardUids, PatchCardUidsFails, LinkTag, LinkTagConflict,
   LinkTagRefused, LinkTagFails, MoveTag, MoveTagFails, SaveCache, Push, PushFails,
   UnlinkDone, Local, klipper, server, history

LEMMA RemovedAsked ==
  ASSUME IInv, NEW t \in Tasks, NEW x \in task[t].todo
  PROVE  /\ Removed(x, task[t].call.card) \in [Spools -> SUBSET Cards]
         /\ \A s \in Spools, c \in Cards :
              c \in Removed(x, task[t].call.card)[s] => <<c, s>> \in asked
<1>1. x \in Snapshot /\ \A c \in x.uids : <<c, x.id>> \in asked
  BY DEF IInv, GoodTask, Task, Known
<1>2. x.id \in Spools /\ x.uids \in SUBSET Cards
  BY <1>1 DEF Snapshot
<1> QED
  BY <1>1, <1>2 DEF IInv, TypeOK, OnlyAskedFor, Removed

(* The snapshot a coroutine binds to, and its card. *)
LEMMA BindAsked ==
  ASSUME IInv, NEW t \in Tasks, task[t].pc \in {"bind", "moveTag", "bindAgain"}
  PROVE  LET x == task[t].byId
             c == task[t].call.card IN
         /\ c \in Cards /\ x \in Snapshot /\ x.id \in Spools /\ x.uids \in SUBSET Cards
         /\ x.id = task[t].call.spool /\ <<c, x.id>> \in asked
         /\ \A d \in x.uids : <<d, x.id>> \in asked
         /\ task[t].call.kind = "resolve"
<1>1. GoodTask(task[t], asked) /\ task[t].call \in Call
  BY DEF IInv, GoodTask, Task
<1>2. task[t].byId \in Snapshot
  BY <1>1 DEF GoodTask, Task, Control
<1>3. task[t].byId.id \in Spools /\ task[t].byId.uids \in SUBSET Cards
  BY <1>2 DEF Snapshot
<1>4. task[t].byId # None /\ task[t].call.card # None
  BY <1>1 DEF GoodTask, Control
<1> QED
  BY <1>1, <1>2, <1>3, <1>4, SpoolLinkAssumption DEF GoodTask, Control, Known, Call

LEMMA LinksAsked ==
  ASSUME IInv, NEW t \in Tasks, Step(t)
  PROVE  /\ links' \in [Spools -> SUBSET Cards]
         /\ \A s \in Spools, c \in Cards : c \in links'[s] => <<c, s>> \in asked
<1> USE DEF IInv
<1>1. CASE UNCHANGED links
  BY <1>1 DEF TypeOK, OnlyAskedFor
<1>2. CASE Unbind(t) \/ UnbindFails(t)
  <2>1. PICK x \in task[t].todo : links' \in {links, Removed(x, task[t].call.card)}
    BY <1>2, UnbindTask
  <2> QED
    BY <2>1, RemovedAsked DEF TypeOK, OnlyAskedFor
<1>3. CASE PatchCardUids(t) \/ PatchCardUidsFails(t)
  <2>1. links' \in {links, Appended(t)} /\ task[t].pc = "bind"
    BY <1>3 DEF PatchCardUids, PatchCardUidsFails, At
  <2>2. Appended(t) \in [Spools -> SUBSET Cards]
    <3>1. task[t].byId.uids \cup {task[t].call.card} \in SUBSET Cards
      BY <2>1, BindAsked
    <3> QED
      BY <3>1 DEF Appended, TypeOK
  <2>3. \A s \in Spools, c \in Cards : c \in Appended(t)[s] => <<c, s>> \in asked
    BY <2>1, BindAsked DEF Appended, TypeOK, OnlyAskedFor
  <2> QED
    BY <2>1, <2>2, <2>3 DEF TypeOK, OnlyAskedFor
<1>4. CASE LinkTag(t) \/ LinkTagFails(t)
  <2> DEFINE new == Tagged(task[t].byId.id, task[t].call.card)
  <2>1. links' \in {links, new} /\ task[t].pc \in {"bind", "bindAgain"}
    BY <1>4 DEF LinkTag, LinkTagFails
  <2>2. new \in [Spools -> SUBSET Cards]
    <3>1. \A s \in Spools : links[s] \cup {task[t].call.card} \in SUBSET Cards
      BY <2>1, BindAsked DEF TypeOK
    <3> QED
      BY <3>1 DEF Tagged, TypeOK
  <2>3. \A s \in Spools, c \in Cards : c \in new[s] => <<c, s>> \in asked
    BY <2>1, BindAsked DEF Tagged, TypeOK, OnlyAskedFor
  <2> QED
    BY <2>1, <2>2, <2>3 DEF TypeOK, OnlyAskedFor
<1>5. CASE MoveTag(t) \/ MoveTagFails(t)
  BY <1>5 DEF MoveTag, MoveTagFails, TypeOK, OnlyAskedFor
<1> QED
  BY <1>1, <1>2, <1>3, <1>4, <1>5, StepFrame

LEMMA CacheAsked ==
  ASSUME IInv, NEW t \in Tasks, Step(t)
  PROVE  /\ cache' \in [Cards -> Spools \cup {None}]
         /\ \A c \in Cards : cache'[c] # None => <<c, cache'[c]>> \in asked
<1> USE DEF IInv
<1>1. CASE UNCHANGED cache
  BY <1>1 DEF TypeOK, OnlyAskedFor
<1>2. CASE DeleteCache(t) \/ DecideNone(t)
  <2>1. cache' = cache \/ cache' = [cache EXCEPT ![task[t].call.card] = None]
    BY <1>2 DEF DeleteCache, DecideNone
  <2> QED
    BY <2>1 DEF TypeOK, OnlyAskedFor
<1>3. CASE SaveCache(t)
  <2>1. task[t].spool \in Spools \cup {None} /\ Known(task[t], asked)
    BY DEF GoodTask, Task
  <2>2. \/ cache' = cache
        \/ task[t].call.card # None /\ cache' = [cache EXCEPT ![task[t].call.card] = task[t].spool]
    BY <1>3 DEF SaveCache
  <2> QED
    BY <2>1, <2>2 DEF TypeOK, OnlyAskedFor, Known
<1> QED
  BY <1>1, <1>2, <1>3, StepFrame

Ptc == [Channels -> [spool : Spools \cup {None}, card : Cards \cup {None}]]

LEMMA PtcAsked ==
  ASSUME IInv, NEW t \in Tasks, Step(t)
  PROVE  /\ ptc' \in Ptc
         /\ \A ch \in Channels :
              ptc'[ch].spool # None /\ ptc'[ch].card # None =>
                <<ptc'[ch].card, ptc'[ch].spool>> \in asked
<1> USE DEF IInv, Ptc
<1>1. CASE UNCHANGED ptc
  BY <1>1 DEF TypeOK, OnlyAskedFor
<1>2. CASE Push(t)
  <2> DEFINE new == [spool |-> task[t].spool, card |-> task[t].call.card]
  <2>1. /\ task[t].spool \in Spools \cup {None} /\ task[t].call.card \in Cards \cup {None}
        /\ Known(task[t], asked)
    BY DEF GoodTask, Task, Call
  <2>2. ptc' = ptc \/ ptc' = [ptc EXCEPT ![task[t].call.chan] = new]
    BY <1>2 DEF Push
  <2>3. new \in [spool : Spools \cup {None}, card : Cards \cup {None}]
    BY <2>1
  <2>4. ptc' \in Ptc
    BY <2>2, <2>3 DEF TypeOK
  <2>5. \A ch \in Channels : ptc'[ch] = ptc[ch] \/ ptc'[ch] = new
    BY <2>2 DEF TypeOK
  <2> QED
    BY <2>1, <2>4, <2>5 DEF OnlyAskedFor, Known
<1> QED
  BY <1>1, <1>2, StepFrame

(* What else a step may change keeps its type. *)
LEMMA RestTyped ==
  ASSUME IInv, NEW t \in Tasks, Step(t)
  PROVE  /\ UNCHANGED <<old, reader, seen, asked>>
         /\ supported' \in BOOLEAN
         /\ budget' \in [faults : Nat, calls : Nat, scans : Nat]
         /\ budget'.scans <= MaxScans
         /\ clearing' \in [Cards -> Tasks \cup {None}]
         /\ cleared' \in SUBSET Cards
<1> USE DEF IInv
<1>1. supported' \in BOOLEAN
  <2>1. supported \in BOOLEAN /\ (~old) \in BOOLEAN
    BY Zenon DEF TypeOK
  <2> QED
    BY <2>1, StepFrame, Zenon
<1>2. clearing' \in [Cards -> Tasks \cup {None}] /\ cleared' \in SUBSET Cards
  BY StepFrame DEF UnlinkDone, history, TypeOK
<1> QED
  BY <1>1, <1>2, StepFrame, FaultType DEF TypeOK

LEMMA StepInv ==
  ASSUME IInv, NEW t \in Tasks, Step(t)
  PROVE  IInv'
<1>1. task' \in [Tasks -> Task] /\ TasksGood'
  <2>1. PICK r : Become(t, r) /\ GoodTask(r, asked)
    BY StepTask
  <2> QED
    BY <2>1, RestTyped, Becomes DEF IInv, TasksGood
<1>2. TypeOK'
  BY <1>1, LinksAsked, CacheAsked, PtcAsked, RestTyped DEF IInv, TypeOK, Ptc
<1>3. OnlyAskedFor'
  BY LinksAsked, CacheAsked, PtcAsked, RestTyped DEF OnlyAskedFor
<1> QED
  BY <1>1, <1>2, <1>3, RestTyped DEF IInv, TasksGood

--------------------------------------------------------------------------------
(* Steps of the environment                                                *)

(* A call as a remote method is given it makes a good record. *)
LEMMA FireGood ==
  ASSUME TypeOK, NEW call \in Call, NEW a,
         call.kind = "unlink" => call.card # None /\ call.spool = None,
         call.kind = "resolve" => call.card # None \/ call.spool # None,
         call.kind = "resolve" /\ call.spool # None /\ call.card # None =>
           <<call.card, call.spool>> \in a
  PROVE  GoodTask([Idle EXCEPT !.pc = FirstAwait(call), !.call = call], a)
<1> DEFINE r == [Idle EXCEPT !.pc = FirstAwait(call), !.call = call]
<1>1. /\ FirstAwait(call) \in {"check", "erase", "getById", "findByCard"}
      /\ FirstAwait(call) = "check" => call.card # None
      /\ FirstAwait(call) = "erase" => call.kind = "unlink"
      /\ FirstAwait(call) = "getById" => call.kind = "resolve" /\ call.spool # None
      /\ FirstAwait(call) = "findByCard" => call.card # None
  BY DEF FirstAwait, Checked, Call
<1>2. Idle \in Task /\ Known(Idle, a)
  BY IdleGood DEF GoodTask
<1>3. r \in Task
  BY <1>1, <1>2 DEF Task, Label
<1>4. Control(r) /\ Known(r, a)
  BY <1>1 DEF Idle, Control, Known
<1> QED
  BY <1>3, <1>4 DEF GoodTask

LEMMA EnvInv ==
  ASSUME IInv,
         \/ \E ch \in Channels, c \in Cards \cup {None} : Scan(ch, c)
         \/ Upgrade
         \/ Reconnect
         \/ UNCHANGED vars
  PROVE  IInv'
<1> USE DEF IInv
<1>1. ASSUME NEW ch \in Channels, NEW c \in Cards \cup {None}, Scan(ch, c) PROVE IInv'
  <2>1. UNCHANGED <<links, old, supported, cache, seen, task, asked, clearing, cleared>>
    BY <1>1 DEF Scan, server, history
  <2>2. budget' \in [faults : Nat, calls : Nat, scans : Nat] /\ budget'.scans <= MaxScans
    BY <1>1, SpoolLinkAssumption DEF Scan, TypeOK
  <2>3. reader' \in [Channels -> [card : Cards \cup {None}, time : Nat]]
    <3>1. MaxScans - budget.scans + 2 \in Nat
      BY SpoolLinkAssumption DEF TypeOK
    <3> QED
      BY <1>1, <3>1 DEF Scan, TypeOK
  <2>4. ptc' = [ptc EXCEPT ![ch] = NoFilament]
    BY <1>1 DEF Scan
  <2>5. ptc' \in Ptc /\ OnlyAskedFor'
    BY <2>1, <2>4 DEF Ptc, TypeOK, NoFilament, OnlyAskedFor
  <2> QED
    BY <2>1, <2>2, <2>3, <2>5 DEF TypeOK, Ptc
<1>2. CASE Upgrade
  BY <1>2 DEF Upgrade, klipper, history, TypeOK, OnlyAskedFor
<1>3. CASE Reconnect
  BY <1>3 DEF Reconnect, klipper, server, history, TypeOK, OnlyAskedFor
<1>4. CASE UNCHANGED vars
  BY <1>4 DEF vars, TypeOK, OnlyAskedFor
<1> QED
  BY <1>1, <1>2, <1>3, <1>4

LEMMA CallInv ==
  ASSUME IInv, NEW ch \in Channels,
         HandleDetect(ch) \/ ClearSpoolId(ch) \/ \E s \in Spools : SetSpoolId(ch, s)
  PROVE  IInv'
<1> USE DEF IInv
<1> DEFINE card == reader[ch].card
<1>1. card \in Cards \cup {None} /\ reader[ch].time \in Nat
  BY DEF TypeOK
<1>2. ASSUME NEW t \in Tasks, NEW call \in Call, Fire(t, call), asked \subseteq asked',
             call.kind = "unlink" => call.card # None /\ call.spool = None,
             call.kind = "resolve" => call.card # None \/ call.spool # None,
             call.kind = "resolve" /\ call.spool # None /\ call.card # None =>
               <<call.card, call.spool>> \in asked'
      PROVE  task' \in [Tasks -> Task] /\ TasksGood'
  BY <1>2, FireGood, Becomes DEF Fire, Become, TasksGood
<1>3. CASE HandleDetect(ch)
  <2>1. /\ UNCHANGED <<links, old, supported, cache, reader, ptc, budget, asked, clearing, cleared>>
        /\ seen' \in [Channels -> Nat]
    BY <1>1, <1>3 DEF HandleDetect, server, klipper, history, TypeOK
  <2>2. task' \in [Tasks -> Task] /\ TasksGood'
    <3>1. CASE card = None
      BY <1>3, <2>1, <3>1 DEF HandleDetect, TasksGood, TypeOK
    <3>2. CASE card # None
      <4> DEFINE call == [kind |-> "resolve", chan |-> ch, spool |-> None, card |-> card]
      <4>1. PICK t \in Tasks : Fire(t, call)
        BY <1>3, <3>2 DEF HandleDetect
      <4>2. call \in Call
        BY <1>1 DEF Call
      <4> QED
        BY <1>2, <2>1, <3>2, <4>1, <4>2
    <3> QED
      BY <3>1, <3>2
  <2> QED
    BY <2>1, <2>2 DEF TypeOK, OnlyAskedFor, TasksGood
<1>4. ASSUME NEW s \in Spools, SetSpoolId(ch, s) PROVE IInv'
  <2> DEFINE call == [kind |-> "resolve", chan |-> ch, spool |-> s, card |-> card]
  <2>1. /\ UNCHANGED <<links, old, supported, cache, reader, ptc, seen>>
        /\ asked' = IF card = None THEN asked ELSE asked \cup {<<card, s>>}
        /\ clearing' \in [Cards -> Tasks \cup {None}] /\ cleared' \in SUBSET Cards
    BY <1>4 DEF SetSpoolId, server, klipper, TypeOK
  <2>2. budget' \in [faults : Nat, calls : Nat, scans : Nat] /\ budget'.scans <= MaxScans
    BY <1>4 DEF SetSpoolId, TypeOK
  <2>3. asked \subseteq asked' /\ asked' \in SUBSET (Cards \X Spools)
    BY <1>1, <2>1 DEF TypeOK
  <2>4. PICK t \in Tasks : Fire(t, call)
    BY <1>4 DEF SetSpoolId
  <2>5. call \in Call /\ s # None
    BY <1>1, SpoolLinkAssumption DEF Call
  <2>6. task' \in [Tasks -> Task] /\ TasksGood'
    BY <1>2, <2>1, <2>3, <2>4, <2>5
  <2>7. TypeOK' /\ OnlyAskedFor'
    BY <2>1, <2>2, <2>3, <2>6 DEF TypeOK, OnlyAskedFor
  <2> QED
    BY <2>2, <2>6, <2>7 DEF TasksGood
<1>5. CASE ClearSpoolId(ch)
  <2> DEFINE call == [kind |-> "unlink", chan |-> ch, spool |-> None, card |-> card]
  <2>1. UNCHANGED <<links, old, supported, cache, reader, seen, asked>>
    BY <1>5 DEF ClearSpoolId, server, history
  <2>2. budget' \in [faults : Nat, calls : Nat, scans : Nat] /\ budget'.scans <= MaxScans
    BY <1>5 DEF ClearSpoolId, TypeOK
  <2>3. ptc' = [ptc EXCEPT ![ch] = NoFilament]
    BY <1>5 DEF ClearSpoolId
  <2>4. ptc' \in Ptc /\ OnlyAskedFor'
    BY <2>1, <2>3 DEF Ptc, TypeOK, NoFilament, OnlyAskedFor
  <2>5. /\ task' \in [Tasks -> Task] /\ TasksGood'
        /\ clearing' \in [Cards -> Tasks \cup {None}] /\ cleared' \in SUBSET Cards
    <3>1. CASE card = None
      BY <1>5, <2>1, <3>1 DEF ClearSpoolId, history, TasksGood, TypeOK
    <3>2. CASE card # None
      <4>1. PICK t \in Tasks : /\ Fire(t, call)
                               /\ clearing' = [clearing EXCEPT ![card] = t]
                               /\ cleared' = cleared \ {card}
        BY <1>5, <3>2 DEF ClearSpoolId
      <4>2. call \in Call
        BY <1>1 DEF Call
      <4>3. task' \in [Tasks -> Task] /\ TasksGood'
        BY <1>2, <2>1, <3>2, <4>1, <4>2
      <4> QED
        BY <4>1, <4>3 DEF TypeOK
    <3> QED
      BY <3>1, <3>2
  <2>6. TypeOK'
    BY <2>1, <2>2, <2>4, <2>5 DEF TypeOK, Ptc
  <2> QED
    BY <2>2, <2>4, <2>5, <2>6 DEF TasksGood
<1> QED
  BY <1>3, <1>4, <1>5

LEMMA InitInv == Init => IInv
<1> SUFFICES ASSUME Init PROVE IInv
  OBVIOUS
<1>1. \A t \in Tasks : GoodTask(task[t], asked)
  BY IdleGood DEF Init
<1>2. task \in [Tasks -> Task]
  BY <1>1 DEF Init, GoodTask
<1>3. budget \in [faults : Nat, calls : Nat, scans : Nat] /\ budget.scans <= MaxScans
  BY SpoolLinkAssumption DEF Init
<1>4. /\ reader \in [Channels -> [card : Cards \cup {None}, time : Nat]]
      /\ ptc \in Ptc
      /\ old \in BOOLEAN /\ supported \in BOOLEAN
  <2>1. PICK f \in [Channels -> Cards \cup {None}] :
          reader = [ch \in Channels |-> [card |-> f[ch], time |-> IF f[ch] = None THEN 0 ELSE 1]]
    BY DEF Init
  <2>2. reader \in [Channels -> [card : Cards \cup {None}, time : Nat]]
    BY <2>1
  <2>3. ptc \in Ptc
    BY DEF Init, Ptc, NoFilament
  <2>4. old \in BOOLEAN
    BY SpoolLinkAssumption DEF Init
  <2>5. supported \in BOOLEAN
    BY SpoolLinkAssumption, <2>4 DEF Init
  <2> QED
    BY <2>2, <2>3, <2>4, <2>5
<1>5. TypeOK
  BY <1>2, <1>3, <1>4 DEF Init, TypeOK, Ptc
<1>6. OnlyAskedFor
  BY DEF Init, OnlyAskedFor, NoFilament
<1> QED
  BY <1>1, <1>3, <1>5, <1>6 DEF IInv

--------------------------------------------------------------------------------
(* Results                                                                 *)

LEMMA Inductive == Spec => []IInv
<1>1. IInv /\ [Next]_vars => IInv'
  BY StepInv, EnvInv, CallInv DEF Next
<1> QED
  BY InitInv, <1>1, PTL DEF Spec

(* The variables keep their types: every coroutine goes only where it has  *)
(* what the code there uses, and retries no more often than it may.        *)
THEOREM TypeCorrect == Spec => []TypeOK
<1>1. IInv => TypeOK
  BY DEF IInv
<1> QED
  BY Inductive, <1>1, PTL

(* In either store, with any number of calls in flight and any failures,   *)
(* a card is linked, cached or applied only with a spool it was linked to  *)
(* at the start or that a user asked for.                                  *)
THEOREM NothingInvented == Spec => []OnlyAskedFor
<1>1. IInv => OnlyAskedFor
  BY DEF IInv
<1> QED
  BY Inductive, <1>1, PTL

--------------------------------------------------------------------------------
(* A coroutine keeps its call until it ends                                *)

LEMMA Goes ==
  ASSUME IInv, NEW t \in Tasks, Step(t)
  PROVE  /\ task[t].pc # "idle"
         /\ \/ task'[t].pc # "idle" /\ task'[t].call = task[t].call
            \/ /\ task'[t] = Idle
               /\ UnlinkDone(t) \/ (task[t].call.kind = "resolve" /\ task[t].pc \in {"decide", "push"})
<1> DEFINE Keeps(r) == r.pc # "idle" /\ r.call = task[t].call
<1>1. task[t] \in Task /\ GoodTask(task[t], asked) /\ task[t].pc # "idle"
  BY DEF IInv, TypeOK, Step, At, CheckTagApi, CheckTagApiFails, DeleteCache, GetById,
     GetByIdFails, FindByCard, FindByCardFails, DecideAmbiguous, DecideById, DecideByCard,
     DecideNone, Unbind, UnbindFails, PatchCardUids, PatchCardUidsFails, LinkTag,
     LinkTagConflict, LinkTagRefused, LinkTagFails, MoveTag, MoveTagFails, SaveCache, Push,
     PushFails, UnlinkDone
<1>2. ASSUME NEW r, Become(t, r), Keeps(r)
      PROVE  task'[t].pc # "idle" /\ task'[t].call = task[t].call
  BY <1>2 DEF Become, IInv, TypeOK
<1>3. ASSUME NEW from, NEW else, RetryOr(t, from, else), Keeps(else), from # "idle"
      PROVE  task'[t].pc # "idle" /\ task'[t].call = task[t].call
  <2> DEFINE again == [task[t] EXCEPT !.pc = from, !.tries = @ + 1]
  <2>1. Keeps(again)
    BY <1>1, <1>3 DEF Task
  <2>2. Become(t, again) \/ Become(t, else)
    BY <1>3 DEF RetryOr
  <2> HIDE DEF again, Keeps
  <2> QED
    BY <1>2, <1>3, <2>1, <2>2
<1> HIDE DEF Keeps
<1>4. CASE \/ CheckTagApi(t) \/ CheckTagApiFails(t) \/ DeleteCache(t)
           \/ GetById(t) \/ GetByIdFails(t) \/ FindByCard(t) \/ FindByCardFails(t)
  <2> DEFINE To(pc) == [task[t] EXCEPT !.pc = pc]
             Answer(pc, ok) == [task[t] EXCEPT !.pc = pc, !.ok = ok]
  <2>1. /\ \A pc : pc # "idle" => Keeps(To(pc)) /\ \A ok : Keeps(Answer(pc, ok))
        /\ \A got, ok : Keeps(AfterGet(t, got, ok))
        /\ \A found, ok : Keeps(AfterFind(t, found, ok))
    BY <1>1 DEF Keeps, Task, AfterGet, AfterFind
  <2>2. Checked(task[t].call) # "idle"
    BY DEF Checked
  <2>3. CASE CheckTagApi(t) \/ CheckTagApiFails(t) \/ DeleteCache(t)
    <3>1. \E pc : pc # "idle" /\ (Become(t, To(pc)) \/ \E ok : Become(t, Answer(pc, ok)))
      BY <2>2, <2>3 DEF CheckTagApi, CheckTagApiFails, DeleteCache
    <3> HIDE DEF To, Answer
    <3> QED
      BY <1>1, <1>2, <2>1, <3>1
  <2>4. CASE GetById(t) \/ FindByCard(t)
    <3>1. (\E got, ok : Become(t, AfterGet(t, got, ok)))
          \/ \E found, ok : Become(t, AfterFind(t, found, ok))
      BY <2>4 DEF GetById, FindByCard
    <3> QED
      BY <1>1, <1>2, <2>1, <3>1
  <2>5. CASE GetByIdFails(t) \/ FindByCardFails(t)
    <3>1. \/ RetryOr(t, "getById", AfterGet(t, None, FALSE))
          \/ RetryOr(t, "findByCard", AfterFind(t, {}, FALSE))
      BY <2>5 DEF GetByIdFails, FindByCardFails
    <3> QED
      BY <1>1, <1>3, <2>1, <3>1
  <2> QED
    BY <1>1, <1>4, <2>3, <2>4, <2>5
<1>5. CASE DecideAmbiguous(t) \/ DecideById(t) \/ DecideByCard(t) \/ DecideNone(t)
  <2> DEFINE Rebind(id, todo, pc) ==
               [task[t] EXCEPT !.spool = id, !.todo = todo, !.byCard = {}, !.pc = pc]
             Take(id) == [task[t] EXCEPT !.spool = id, !.byCard = {}, !.pc = "save"]
             Recall(id) == [task[t] EXCEPT !.pc = "push", !.spool = id]
             Refuse == [task[t] EXCEPT !.pc = "push", !.byId = None, !.byCard = {}]
  <2>1. /\ \A id, todo, pc : pc # "idle" => Keeps(Rebind(id, todo, pc))
        /\ \A id : Keeps(Take(id)) /\ Keeps(Recall(id))
        /\ Keeps(Refuse)
    BY <1>1 DEF Keeps, Task
  <2>2. task[t].call.kind = "resolve" /\ task[t].pc = "decide"
    BY <1>1, <1>5 DEF GoodTask, Control, At, DecideAmbiguous, DecideById, DecideByCard, DecideNone
  <2>3. \/ Become(t, Idle) \/ Become(t, Refuse)
        \/ \E id : Become(t, Take(id)) \/ Become(t, Recall(id))
        \/ \E id, todo, pc : pc # "idle" /\ Become(t, Rebind(id, todo, pc))
    BY <1>5 DEF DecideAmbiguous, DecideById, DecideByCard, DecideNone, BindOrSave
  <2> HIDE DEF Rebind, Take, Recall, Refuse
  <2>4. CASE Become(t, Idle)
    BY <1>1, <2>2, <2>4 DEF Become, IInv, TypeOK
  <2> QED
    BY <1>1, <1>2, <2>1, <2>3, <2>4
<1>6. CASE Unbind(t) \/ UnbindFails(t)
  <2>1. \A x, ok : Keeps(AfterUnbind(t, x, ok))
    BY <1>1 DEF Keeps, Task, AfterUnbind, BindOrSave
  <2> QED
    BY <1>1, <1>2, <1>3, <1>6, <2>1 DEF Unbind, UnbindFails, UnbindGivenUp
<1>7. CASE \/ PatchCardUids(t) \/ PatchCardUidsFails(t)
           \/ LinkTag(t) \/ LinkTagConflict(t) \/ LinkTagRefused(t) \/ LinkTagFails(t)
           \/ MoveTag(t) \/ MoveTagFails(t)
  <2>1. /\ Keeps(AfterBind(t))
        /\ \A h : Keeps([task[t] EXCEPT !.pc = "moveTag", !.holder = h])
        /\ \A h : Keeps([task[t] EXCEPT !.pc = "bindAgain", !.holder = h])
    BY <1>1 DEF Keeps, Task, AfterBind
  <2> QED
    BY <1>1, <1>2, <1>3, <1>7, <2>1 DEF PatchCardUids, PatchCardUidsFails, LinkTag,
       LinkTagConflict, LinkTagRefused, LinkTagFails, MoveTag, MoveTagFails
<1>8. CASE SaveCache(t)
  <2>1. Keeps([task[t] EXCEPT !.pc = "push", !.byId = None])
    BY <1>1 DEF Keeps, Task
  <2> QED
    BY <1>1, <1>2, <1>8, <2>1 DEF SaveCache
<1>9. CASE Push(t) \/ PushFails(t) \/ UnlinkDone(t)
  BY <1>1, <1>9 DEF Push, PushFails, UnlinkDone, At, GoodTask, Control, Become, IInv, TypeOK
<1> QED
  BY <1>1, <1>4, <1>5, <1>6, <1>7, <1>8, <1>9 DEF Step

--------------------------------------------------------------------------------
(***************************************************************************)
(* One call at a time, in either store: what a coroutine has read and not  *)
(* used yet is what the server holds, but for the card it works on.        *)
(***************************************************************************)

OneAtATime == \A t, u \in Tasks : t = u

Reads(r) == r.byCard \cup r.todo \cup ({r.byId} \ {None})

Looking == {"check", "erase", "getById", "findByCard", "decide"}

(* l is what the server holds. *)
Fresh(r, l) ==
  \A x \in Reads(r) :
    /\ x.uids \ {r.call.card} = l[x.id] \ {r.call.card}
    /\ r.pc \in Looking => x.uids = l[x.id]

AllFresh == \A t \in Tasks : Fresh(task[t], links)

(* Links m and l differ at most in card c. *)
SameBut(m, l, c) == \A s \in Spools : m[s] \ {c} = l[s] \ {c}

LEMMA OneTask ==
  ASSUME IInv, OneAtATime, NEW t \in Tasks, NEW r, Become(t, r)
  PROVE  \A u \in Tasks : u = t /\ task'[u] = r
BY DEF OneAtATime, Become, IInv, TypeOK

LEMMA ReadsTyped ==
  ASSUME IInv, NEW t \in Tasks, NEW x \in Reads(task[t])
  PROVE  x \in Snapshot /\ x.id \in Spools /\ x.uids \in SUBSET Cards
<1>1. x \in Snapshot
  BY DEF IInv, TypeOK, Task, Reads
<1> QED
  BY <1>1 DEF Snapshot

(* A coroutine that reads nothing new stays fresh, whatever happens to its *)
(* own card.                                                               *)
LEMMA StaysFresh ==
  ASSUME IInv, NEW t \in Tasks, Fresh(task[t], links), NEW r, Reads(r) \subseteq Reads(task[t]),
         r.call = task[t].call, NEW l, SameBut(l, links, task[t].call.card),
         r.pc \in Looking => task[t].pc \in Looking /\ l = links
  PROVE  Fresh(r, l)
BY ReadsTyped DEF Fresh, SameBut

LEMMA RetryStaysFresh ==
  ASSUME IInv, NEW t \in Tasks, Fresh(task[t], links),
         NEW from, NEW else, RetryOr(t, from, else), Fresh(else, links'),
         SameBut(links', links, task[t].call.card),
         from \in Looking => task[t].pc \in Looking /\ UNCHANGED links
  PROVE  \E r : Become(t, r) /\ Fresh(r, links')
<1> DEFINE again == [task[t] EXCEPT !.pc = from, !.tries = @ + 1]
<1>1. /\ Reads(again) = Reads(task[t]) /\ again.call = task[t].call
      /\ again.pc = from
  BY DEF IInv, TypeOK, Task, Reads
<1>2. Fresh(again, links')
  <2> HIDE DEF again
  <2> QED
    BY <1>1, StaysFresh
<1> QED
  BY <1>2 DEF RetryOr

LEMMA LookupFresh ==
  ASSUME IInv, NEW t \in Tasks, Fresh(task[t], links),
         \/ CheckTagApi(t) \/ CheckTagApiFails(t) \/ DeleteCache(t)
         \/ GetById(t) \/ GetByIdFails(t) \/ FindByCard(t) \/ FindByCardFails(t)
  PROVE  \E r : Become(t, r) /\ Fresh(r, links')
<1>1. task[t] \in Task /\ GoodTask(task[t], asked) /\ SameBut(links, links, task[t].call.card)
  BY DEF IInv, TypeOK, SameBut
<1>2. UNCHANGED links /\ task[t].pc \in Looking
  BY DEF Looking, At, CheckTagApi, CheckTagApiFails, DeleteCache, GetById, GetByIdFails, FindByCard,
     FindByCardFails, Local, server
<1>3. CASE CheckTagApi(t) \/ CheckTagApiFails(t) \/ DeleteCache(t)
  <2>1. PICK pc, ok : Become(t, [task[t] EXCEPT !.pc = pc, !.ok = ok])
                      \/ Become(t, [task[t] EXCEPT !.pc = pc])
    BY <1>3 DEF CheckTagApi, CheckTagApiFails, DeleteCache
  <2>2. PICK r \in {[task[t] EXCEPT !.pc = pc, !.ok = ok], [task[t] EXCEPT !.pc = pc]} : Become(t, r)
    BY <2>1
  <2>3. Reads(r) = Reads(task[t]) /\ r.call = task[t].call
    BY <1>1 DEF Task, Reads
  <2> QED
    BY <1>1, <1>2, <2>2, <2>3, StaysFresh
<1>4. ASSUME NEW got, NEW ok, At(t, "getById"), got = None \/ got = Snap(task[t].call.spool),
             task[t].call.spool \in Spools
      PROVE  Fresh(AfterGet(t, got, ok), links)
  <2>1. /\ Reads(AfterGet(t, got, ok)) \subseteq Reads(task[t]) \cup ({got} \ {None})
        /\ AfterGet(t, got, ok).call = task[t].call
    BY <1>1 DEF Task, AfterGet, Reads
  <2> QED
    BY <1>2, <1>4, <2>1 DEF Fresh, Snap
<1>5. ASSUME NEW found, NEW ok,  \A x \in found : x.uids = links[x.id]
      PROVE  Fresh(AfterFind(t, found, ok), links)
  <2>1. /\ Reads(AfterFind(t, found, ok)) \subseteq Reads(task[t]) \cup found
        /\ AfterFind(t, found, ok).call = task[t].call
    BY <1>1 DEF Task, AfterFind, Reads
  <2> QED
    BY <1>2, <1>5, <2>1 DEF Fresh
<1>6. CASE GetById(t) \/ GetByIdFails(t)
  <2>1. At(t, "getById") /\ task[t].call.spool \in Spools
    BY <1>1, <1>6 DEF GetById, GetByIdFails, At, GoodTask, Control, Task, Call
  <2> QED
    BY <1>1, <1>2, <1>4, <1>6, <2>1, RetryStaysFresh DEF GetById, GetByIdFails
<1>7. CASE FindByCard(t) \/ FindByCardFails(t)
  <2>1. \A s : Snap(s).uids = links[Snap(s).id]
    BY DEF Snap
  <2> QED
    BY <1>1, <1>2, <1>5, <1>7, <2>1, RetryStaysFresh DEF FindByCard, FindByCardFails
<1> QED
  BY <1>3, <1>6, <1>7

LEMMA DecideFresh ==
  ASSUME IInv, NEW t \in Tasks, Fresh(task[t], links),
         DecideAmbiguous(t) \/ DecideById(t) \/ DecideByCard(t) \/ DecideNone(t)
  PROVE  \E r : Become(t, r) /\ Fresh(r, links')
<1>1. task[t] \in Task /\ SameBut(links, links, task[t].call.card)
  BY DEF IInv, TypeOK, SameBut
<1>2. UNCHANGED links
  BY DEF DecideAmbiguous, DecideById, DecideByCard, DecideNone, Local, server
<1> DEFINE stale == {x \in task[t].byCard : x.id # task[t].byId.id}
           Refuse == [task[t] EXCEPT !.pc = "push", !.byId = None, !.byCard = {}]
           Rebind(id, pc) ==
             [task[t] EXCEPT !.spool = id, !.todo = stale, !.byCard = {}, !.pc = pc]
           Take(id) == [task[t] EXCEPT !.spool = id, !.byCard = {}, !.pc = "save"]
           Recall(id) == [task[t] EXCEPT !.pc = "push", !.spool = id]
           Leaves(r) == /\ Reads(r) \subseteq Reads(task[t]) /\ r.call = task[t].call
                        /\ r.pc \notin Looking
<1>3. /\ Leaves(Refuse)
      /\ \A id, pc : pc \notin Looking => Leaves(Rebind(id, pc))
      /\ \A id : Leaves(Take(id)) /\ Leaves(Recall(id))
  BY <1>1 DEF Task, Reads, Looking
<1>4. \/ Become(t, Idle) \/ Become(t, Refuse)
      \/ \E id, pc : pc \notin Looking /\ Become(t, Rebind(id, pc))
      \/ \E id : Become(t, Take(id)) \/ Become(t, Recall(id))
  <2>1. CASE DecideById(t)
    <3> DEFINE pc == IF task[t].call.card = None THEN "save"
                     ELSE IF stale # {} THEN "unbind" ELSE BindOrSave(t)
    <3>1. pc \notin Looking
      BY DEF BindOrSave, Looking
    <3>2. Become(t, Rebind(task[t].byId.id, pc))
      BY <2>1 DEF DecideById
    <3> HIDE DEF pc, Rebind
    <3> QED
      BY <3>1, <3>2
  <2>2. CASE DecideAmbiguous(t) \/ DecideByCard(t) \/ DecideNone(t)
    BY <2>2 DEF DecideAmbiguous, DecideByCard, DecideNone
  <2> QED
    BY <2>1, <2>2
<1>5. Fresh(Idle, links)
  BY DEF Fresh, Reads, Idle
<1>6. ASSUME NEW r, Leaves(r), Become(t, r) PROVE \E s : Become(t, s) /\ Fresh(s, links')
  BY <1>1, <1>2, <1>6, StaysFresh
<1> HIDE DEF Refuse, Rebind, Take, Recall, Leaves
<1> QED
  BY <1>2, <1>3, <1>4, <1>5, <1>6

(* What Unbind sends changes the card's own link only. *)
LEMMA RemovedSameBut ==
  ASSUME IInv, NEW t \in Tasks, Fresh(task[t], links), NEW x \in task[t].todo
  PROVE  /\ x.id \in Spools
         /\ Removed(x, task[t].call.card) = [links EXCEPT ![x.id] = @ \ {task[t].call.card}]
         /\ SameBut(Removed(x, task[t].call.card), links, task[t].call.card)
<1>1. x \in Reads(task[t])
  BY DEF Reads
<1>2. Removed(x, task[t].call.card) = [links EXCEPT ![x.id] = @ \ {task[t].call.card}]
  BY <1>1, ReadsTyped DEF Removed, Fresh, IInv, TypeOK
<1> QED
  BY <1>1, <1>2, ReadsTyped DEF SameBut, IInv, TypeOK

LEMMA UnbindFresh ==
  ASSUME IInv, NEW t \in Tasks, Fresh(task[t], links), Unbind(t) \/ UnbindFails(t)
  PROVE  \E r : Become(t, r) /\ Fresh(r, links')
<1> DEFINE x == CHOOSE y \in task[t].todo : TRUE
<1>1. task[t] \in Task
  BY DEF IInv, TypeOK
<1>2. SameBut(links', links, task[t].call.card)
  <2>1. PICK y \in task[t].todo : links' \in {links, Removed(y, task[t].call.card)}
    BY UnbindTask
  <2> QED
    BY <2>1, RemovedSameBut DEF SameBut
<1>3. ASSUME NEW ok PROVE Fresh(AfterUnbind(t, x, ok), links')
  <2>1. /\ Reads(AfterUnbind(t, x, ok)) \subseteq Reads(task[t])
        /\ AfterUnbind(t, x, ok).call = task[t].call
        /\ AfterUnbind(t, x, ok).pc \notin Looking
    BY <1>1 DEF AfterUnbind, BindOrSave, Task, Reads, Looking
  <2> QED
    BY <1>2, <2>1, StaysFresh
<1>4. CASE Unbind(t)
  BY <1>3, <1>4 DEF Unbind
<1>5. CASE UnbindFails(t)
  <2>1. PICK ok : RetryOr(t, "unbind", AfterUnbind(t, x, ok))
    BY <1>5 DEF UnbindFails, UnbindGivenUp
  <2>2. "unbind" \notin Looking
    BY DEF Looking
  <2> QED
    BY <1>2, <1>3, <2>1, <2>2, RetryStaysFresh
<1> QED
  BY <1>4, <1>5

(* What a bind sends changes the card's own link only. *)
LEMMA BoundSameBut ==
  ASSUME IInv, NEW t \in Tasks, Fresh(task[t], links),
         \/ PatchCardUids(t) \/ PatchCardUidsFails(t)
         \/ LinkTag(t) \/ LinkTagConflict(t) \/ LinkTagRefused(t) \/ LinkTagFails(t)
         \/ MoveTag(t) \/ MoveTagFails(t)
  PROVE  /\ SameBut(links', links, task[t].call.card)
         /\ Appended(t) = Tagged(task[t].byId.id, task[t].call.card)
<1>1. task[t].pc \in {"bind", "moveTag", "bindAgain"} /\ GoodTask(task[t], asked)
  BY DEF At, PatchCardUids, PatchCardUidsFails, LinkTag, LinkTagConflict, LinkTagRefused,
     LinkTagFails, MoveTag, MoveTagFails, IInv
<1>2. task[t].byId \in Reads(task[t])
  BY <1>1, BindAsked, SpoolLinkAssumption DEF Reads, GoodTask, Control
<1>3. Appended(t) = Tagged(task[t].byId.id, task[t].call.card)
  BY <1>1, <1>2, BindAsked DEF Appended, Tagged, Fresh, IInv, TypeOK
<1>4. SameBut(Tagged(task[t].byId.id, task[t].call.card), links, task[t].call.card)
  BY DEF Tagged, SameBut, IInv, TypeOK
<1>5. SameBut([links EXCEPT ![task[t].holder] = @ \ {task[t].call.card}], links, task[t].call.card)
  BY DEF SameBut, IInv, TypeOK
<1>6. SameBut(links, links, task[t].call.card)
  BY DEF SameBut
<1> QED
  BY <1>3, <1>4, <1>5, <1>6 DEF PatchCardUids, PatchCardUidsFails, LinkTag, LinkTagConflict,
     LinkTagRefused, LinkTagFails, MoveTag, MoveTagFails, Local, server

LEMMA BindFresh ==
  ASSUME IInv, NEW t \in Tasks, Fresh(task[t], links),
         \/ PatchCardUids(t) \/ PatchCardUidsFails(t)
         \/ LinkTag(t) \/ LinkTagConflict(t) \/ LinkTagRefused(t) \/ LinkTagFails(t)
         \/ MoveTag(t) \/ MoveTagFails(t)
  PROVE  \E r : Become(t, r) /\ Fresh(r, links')
<1>1. task[t] \in Task
  BY DEF IInv, TypeOK
<1> DEFINE Move(pc, h) == [task[t] EXCEPT !.pc = pc, !.holder = h]
           Leaves(r) == /\ Reads(r) = Reads(task[t]) /\ r.call = task[t].call
                        /\ r.pc \notin Looking
<1>2. /\ Leaves(AfterBind(t))
      /\ \A h : Leaves(Move("moveTag", h)) /\ Leaves(Move("bindAgain", h))
  BY <1>1 DEF AfterBind, Task, Reads, Looking
<1>3. ASSUME NEW r, Leaves(r) PROVE Fresh(r, links')
  BY <1>3, StaysFresh, BoundSameBut
<1>4. CASE RetryOr(t, "bind", AfterBind(t))
  <2>1. "bind" \notin Looking
    BY DEF Looking
  <2> QED
    BY <1>2, <1>3, <1>4, <2>1, BoundSameBut, RetryStaysFresh
<1>5. CASE \/ Become(t, AfterBind(t))
           \/ \E h : Become(t, Move("moveTag", h)) \/ Become(t, Move("bindAgain", h))
  <2> HIDE DEF Move, Leaves
  <2> QED
    BY <1>2, <1>3, <1>5
<1> QED
  BY <1>4, <1>5 DEF PatchCardUids, PatchCardUidsFails, LinkTag, LinkTagConflict,
     LinkTagRefused, LinkTagFails, MoveTag, MoveTagFails

LEMMA EndFresh ==
  ASSUME IInv, NEW t \in Tasks, Fresh(task[t], links),
         SaveCache(t) \/ Push(t) \/ PushFails(t) \/ UnlinkDone(t)
  PROVE  \E r : Become(t, r) /\ Fresh(r, links')
<1>1. task[t] \in Task /\ SameBut(links, links, task[t].call.card)
  BY DEF IInv, TypeOK, SameBut
<1>2. UNCHANGED links
  BY DEF SaveCache, Push, PushFails, UnlinkDone, server
<1> DEFINE r == [task[t] EXCEPT !.pc = "push", !.byId = None]
<1>3. Reads(r) \subseteq Reads(task[t]) /\ r.call = task[t].call /\ r.pc \notin Looking
  BY <1>1 DEF Task, Reads, Looking
<1>4. Fresh(Idle, links)
  BY DEF Fresh, Reads, Idle
<1>5. Fresh(r, links)
  <2> HIDE DEF r
  <2> QED
    BY <1>1, <1>3, StaysFresh
<1> QED
  BY <1>2, <1>4, <1>5 DEF SaveCache, Push, PushFails, UnlinkDone

LEMMA StepFresh ==
  ASSUME IInv, AllFresh, OneAtATime, NEW t \in Tasks, Step(t)
  PROVE  AllFresh'
<1>1. PICK r : Become(t, r) /\ Fresh(r, links')
  BY LookupFresh, DecideFresh, UnbindFresh, BindFresh, EndFresh DEF Step, AllFresh
<1> QED
  BY <1>1, OneTask DEF AllFresh

(* The environment touches neither the links nor a coroutine that runs; a  *)
(* call starts with nothing read.                                          *)
EnvStep ==
  \/ \E ch \in Channels, c \in Cards \cup {None} : Scan(ch, c)
  \/ Upgrade \/ Reconnect \/ UNCHANGED vars

CallStep(ch) ==
  HandleDetect(ch) \/ ClearSpoolId(ch) \/ \E s \in Spools : SetSpoolId(ch, s)

Fired(call) == [Idle EXCEPT !.pc = FirstAwait(call), !.call = call]

LEMMA CallTask ==
  ASSUME IInv, NEW ch \in Channels, CallStep(ch)
  PROVE  /\ UNCHANGED <<links, old, supported, cache, reader>>
         /\ budget'.faults = budget.faults
         /\ \/ UNCHANGED task
            \/ \E t \in Tasks, call \in Call :
                 task[t].pc = "idle" /\ Become(t, Fired(call))
<1> DEFINE card == reader[ch].card
<1>1. card \in Cards \cup {None}
  BY DEF IInv, TypeOK
<1>2. CASE HandleDetect(ch)
  <2> DEFINE call == [kind |-> "resolve", chan |-> ch, spool |-> None, card |-> card]
  <2>1. call \in Call
    BY <1>1 DEF Call
  <2> QED
    BY <1>2, <2>1 DEF HandleDetect, Fire, Fired, Become, server, klipper
<1>3. ASSUME NEW s \in Spools, SetSpoolId(ch, s)
      PROVE  /\ UNCHANGED <<links, old, supported, cache, reader>>
             /\ budget'.faults = budget.faults
             /\ \E t \in Tasks, call \in Call : task[t].pc = "idle" /\ Become(t, Fired(call))
  <2> DEFINE call == [kind |-> "resolve", chan |-> ch, spool |-> s, card |-> card]
  <2>1. call \in Call
    BY <1>1 DEF Call
  <2> QED
    BY <1>3, <2>1 DEF SetSpoolId, Fire, Fired, Become, server, klipper, IInv, TypeOK
<1>4. CASE ClearSpoolId(ch)
  <2> DEFINE call == [kind |-> "unlink", chan |-> ch, spool |-> None, card |-> card]
  <2>1. call \in Call
    BY <1>1 DEF Call
  <2> QED
    BY <1>4, <2>1 DEF ClearSpoolId, Fire, Fired, Become, server, IInv, TypeOK
<1> QED
  BY <1>2, <1>3, <1>4 DEF CallStep

LEMMA NextFresh ==
  ASSUME OneAtATime, IInv, AllFresh, [Next]_vars
  PROVE  AllFresh'
<1>1. ASSUME NEW t \in Tasks, Step(t) PROVE AllFresh'
  BY <1>1, StepFresh
<1>2. CASE EnvStep
  BY <1>2 DEF EnvStep, Scan, Upgrade, Reconnect, vars, server, AllFresh
<1>3. ASSUME NEW ch \in Channels, CallStep(ch) PROVE AllFresh'
  <2>1. \A call : Reads(Fired(call)) = {}
    BY DEF Reads, Fired, Idle
  <2>2. \A call : Fresh(Fired(call), links)
    BY <2>1 DEF Fresh
  <2>3. UNCHANGED links
    BY <1>3, CallTask
  <2>4. CASE UNCHANGED task
    BY <2>3, <2>4 DEF AllFresh
  <2>5. ASSUME NEW t \in Tasks, NEW call \in Call, Become(t, Fired(call)) PROVE AllFresh'
    BY <2>2, <2>3, <2>5, OneTask DEF AllFresh
  <2> QED
    BY <1>3, <2>4, <2>5, CallTask
<1> QED
  BY <1>1, <1>2, <1>3 DEF Next, EnvStep, CallStep

LEMMA OneInductive ==
  ASSUME OneAtATime
  PROVE  Spec => []AllFresh
<1>1. Init => AllFresh
  BY DEF Init, AllFresh, Fresh, Reads, Idle
<1>2. IInv /\ AllFresh /\ [Next]_vars => AllFresh'
  BY NextFresh
<1> QED
  BY Inductive, <1>1, <1>2, PTL DEF Spec

--------------------------------------------------------------------------------
(***************************************************************************)
(* SpoolLink implements CardLinks: each step changes at most one link, and *)
(* only for a call that names its card. With native tags that is so for    *)
(* any coroutines; with card_uids a step may undo what another coroutine   *)
(* wrote, and it is so when calls run one at a time.                       *)
(***************************************************************************)

Linked == {p \in Cards \X Spools : p[1] \in links[p[2]]}
Calls == [t \in Tasks |-> AbstractCall(t)]

(* The abstract step a link change of coroutine t stands for. *)
LinkStep(t) ==
  /\ task[t].pc # "idle" /\ task'[t].pc # "idle" /\ task'[t].call = task[t].call
  /\ task[t].call.card \in Cards
  /\ task[t].call.spool \in Spools \/ (task[t].call.kind = "unlink" /\ task[t].call.spool = None)
  /\ \/ UNCHANGED links
     \/ /\ task[t].call.spool \in Spools
        /\ links' = Tagged(task[t].call.spool, task[t].call.card)
     \/ \E s \in Spools \ {task[t].call.spool} :
          links' = [links EXCEPT ![s] = @ \ {task[t].call.card}]

--------------------------------------------------------------------------------
(* Links                                                                   *)

(* What Unbind sends removes the card from one spool, and does nothing else. *)
LEMMA TagRemoved ==
  ASSUME IInv, NEW t \in Tasks, Native \/ Fresh(task[t], links), NEW x \in task[t].todo
  PROVE  Removed(x, task[t].call.card) = [links EXCEPT ![x.id] = @ \ {task[t].call.card}]
BY RemovedSameBut DEF Removed

LEMMA UnbindLinks ==
  ASSUME IInv, NEW t \in Tasks, Native \/ Fresh(task[t], links), Unbind(t) \/ UnbindFails(t)
  PROVE  LinkStep(t)
<1>1. GoodTask(task[t], asked) /\ task[t].pc = "unbind" /\ task[t].call \in Call
  BY DEF IInv, GoodTask, Task, Unbind, UnbindFails, At
<1>2. PICK y \in task[t].todo : links' \in {links, Removed(y, task[t].call.card)}
  BY UnbindTask
<1>3. /\ y.id \in Spools /\ y.id # task[t].call.spool
      /\ task[t].call.spool \in Spools \/ (task[t].call.kind = "unlink" /\ task[t].call.spool = None)
  <2>1. y \in Snapshot
    BY <1>1 DEF GoodTask, Task
  <2>2. y.id \in Spools
    BY <2>1 DEF Snapshot
  <2>3. CASE task[t].call.kind = "unlink"
    BY <1>1, <2>2, <2>3, SpoolLinkAssumption DEF GoodTask, Control
  <2>4. CASE task[t].call.kind = "resolve"
    <3>1. /\ task[t].byId \in Snapshot /\ task[t].byId.id = task[t].call.spool
          /\ y.id # task[t].byId.id
      <4>1. task[t].byId # None /\ task[t].byId \in Snapshot \cup {None}
        BY <1>1, <2>4 DEF GoodTask, Control, Task
      <4> QED
        BY <1>1, <4>1 DEF GoodTask, Control
    <3>2. task[t].byId.id \in Spools
      BY <3>1 DEF Snapshot
    <3> QED
      BY <2>2, <3>1, <3>2
  <2> QED
    BY <1>1, <2>2, <2>3, <2>4 DEF Call
<1>4. task'[t].pc # "idle" /\ task'[t].call = task[t].call
  BY <1>1, Goes DEF Step, UnlinkDone, At
<1>5. task[t].call.card \in Cards
  BY <1>1 DEF GoodTask, Control, Call
<1>6. Removed(y, task[t].call.card) = [links EXCEPT ![y.id] = @ \ {task[t].call.card}]
  BY TagRemoved
<1> QED
  BY <1>1, <1>2, <1>3, <1>4, <1>5, <1>6 DEF LinkStep

LEMMA BindLinks ==
  ASSUME IInv, NEW t \in Tasks, Native \/ Fresh(task[t], links),
         \/ PatchCardUids(t) \/ PatchCardUidsFails(t)
         \/ LinkTag(t) \/ LinkTagFails(t) \/ MoveTag(t) \/ MoveTagFails(t)
  PROVE  LinkStep(t)
<1>1. /\ GoodTask(task[t], asked) /\ task[t].pc \in {"bind", "moveTag", "bindAgain"}
  BY DEF IInv, PatchCardUids, PatchCardUidsFails, LinkTag, LinkTagFails, MoveTag, MoveTagFails, At
<1>2. /\ task[t].call.card \in Cards /\ task[t].call.spool \in Spools
      /\ task[t].byId.id = task[t].call.spool /\ task[t].call.kind = "resolve"
  BY <1>1, BindAsked
<1>3. task'[t].pc # "idle" /\ task'[t].call = task[t].call
  BY <1>1, Goes DEF Step, UnlinkDone, At
<1>4. CASE LinkTag(t) \/ LinkTagFails(t) \/ PatchCardUids(t) \/ PatchCardUidsFails(t)
  <2>1. links' = links \/ links' = Tagged(task[t].call.spool, task[t].call.card)
    <3>1. CASE PatchCardUids(t) \/ PatchCardUidsFails(t)
      <4>1. Fresh(task[t], links) /\ links' \in {links, Appended(t)}
        BY <3>1 DEF PatchCardUids, PatchCardUidsFails
      <4> QED
        BY <1>2, <3>1, <4>1, BoundSameBut
    <3> QED
      BY <1>2, <1>4, <3>1 DEF LinkTag, LinkTagFails
  <2> QED
    BY <1>1, <1>2, <1>3, <2>1 DEF LinkStep
<1>5. CASE MoveTag(t) \/ MoveTagFails(t)
  <2>1. task[t].holder \in Spools \ {task[t].call.spool}
    BY <1>1, <1>2, <1>5 DEF GoodTask, Control, MoveTag, MoveTagFails, At
  <2>2. links' = links \/ links' = [links EXCEPT ![task[t].holder] = @ \ {task[t].call.card}]
    BY <1>5 DEF MoveTag, MoveTagFails
  <2> QED
    BY <1>1, <1>2, <1>3, <2>1, <2>2 DEF LinkStep
<1> QED
  BY <1>4, <1>5

--------------------------------------------------------------------------------
(* Steps                                                                   *)

(* A link change is an abstract Link or Unlink for the coroutine's call. *)
LEMMA LinkStepMaps ==
  ASSUME IInv, NEW t \in Tasks, LinkStep(t), NEW r, Become(t, r)
  PROVE  Abstract!Next \/ UNCHANGED Abstract!vars
<1> USE DEF IInv
<1> DEFINE c == task[t].call.card
           s == task[t].call.spool
<1>1. \A u \in Tasks : AbstractCall(u)' = AbstractCall(u)
  <2>1. \A u \in Tasks \ {t} : task'[u] = task[u]
    BY DEF Become, TypeOK
  <2> QED
    BY <2>1 DEF LinkStep, AbstractCall
<1>2. UNCHANGED Calls
  BY <1>1 DEF Calls
<1>3. /\ Calls[t] # None
      /\ Calls[t].card = c /\ Calls[t].spool = s
  <2>1. Calls[t] = [card |-> c, spool |-> s]
    BY SpoolLinkAssumption DEF Calls, AbstractCall, LinkStep
  <2>2. [card |-> c, spool |-> s] \in [card : Cards, spool : Spools \cup {None}]
    BY DEF LinkStep
  <2> QED
    BY <2>1, <2>2, SpoolLinkAssumption
<1>4. CASE UNCHANGED links
  BY <1>2, <1>4 DEF Abstract!vars, Calls
<1>5. CASE s \in Spools /\ links' = Tagged(s, c)
  <2>1. Linked' = Linked \cup {<<c, s>>}
    BY <1>5 DEF Linked, Tagged, TypeOK, LinkStep
  <2>2. Abstract!Link(t)
    BY <1>2, <1>3, <1>5, <2>1, SpoolLinkAssumption DEF Abstract!Link, Calls, Linked
  <2> QED
    BY <2>2 DEF Abstract!Next
<1>6. ASSUME NEW h \in Spools \ {s}, links' = [links EXCEPT ![h] = @ \ {c}]
      PROVE  Abstract!Next \/ UNCHANGED Abstract!vars
  <2>1. Linked' = Linked \ {<<c, h>>}
    BY <1>6 DEF Linked, TypeOK, LinkStep
  <2>2. Abstract!Unlink(t)
    BY <1>2, <1>3, <1>6, <2>1 DEF Abstract!Unlink, Calls, Linked
  <2> QED
    BY <2>2 DEF Abstract!Next
<1> QED
  BY <1>4, <1>5, <1>6 DEF LinkStep

(* A step that changes no link keeps the abstract calls or ends one. *)
LEMMA QuietStepMaps ==
  ASSUME IInv, NEW t \in Tasks, UNCHANGED links, Step(t)
  PROVE  Abstract!Next \/ UNCHANGED Abstract!vars
<1>1. /\ \A u \in Tasks \ {t} : task'[u] = task[u]
      /\ \/ task'[t].pc = "idle"
         \/ task'[t].call = task[t].call /\ task[t].pc # "idle" /\ task'[t].pc # "idle"
  BY StepTask, Goes DEF Become, IInv, TypeOK, Idle
<1>2. \A u \in Tasks \ {t} : AbstractCall(u)' = AbstractCall(u)
  BY <1>1 DEF AbstractCall
<1>3. CASE AbstractCall(t)' = AbstractCall(t)
  BY <1>2, <1>3 DEF Abstract!vars
<1>4. CASE AbstractCall(t)' # AbstractCall(t)
  <2>1. AbstractCall(t)' = None
    BY <1>1, <1>4 DEF AbstractCall
  <2>2. Calls' = [Calls EXCEPT ![t] = None]
    BY <1>2, <2>1 DEF Calls
  <2>3. Calls[t] # None
    BY <1>4, <2>1 DEF Calls
  <2>4. Abstract!End(t)
    BY <2>2, <2>3 DEF Abstract!End, Calls
  <2> QED
    BY <2>4 DEF Abstract!Next
<1> QED
  BY <1>3, <1>4

LEMMA StepMaps ==
  ASSUME IInv, NEW t \in Tasks, Native \/ Fresh(task[t], links), Step(t)
  PROVE  Abstract!Next \/ UNCHANGED Abstract!vars
<1>1. CASE UNCHANGED links
  BY <1>1, QuietStepMaps
<1>2. CASE ~UNCHANGED links
  <2>1. LinkStep(t)
    BY <1>2, StepFrame, UnbindLinks, BindLinks
  <2> QED
    BY <2>1, StepTask, LinkStepMaps
<1> QED
  BY <1>1, <1>2

(* A call that names a card and a spool, or unlinks a card, begins one. *)
LEMMA CallMaps ==
  ASSUME IInv, NEW ch \in Channels,
         HandleDetect(ch) \/ ClearSpoolId(ch) \/ \E s \in Spools : SetSpoolId(ch, s)
  PROVE  Abstract!Next \/ UNCHANGED Abstract!vars
<1> DEFINE card == reader[ch].card
<1>1. card \in Cards \cup {None} /\ UNCHANGED links
  BY DEF IInv, TypeOK, HandleDetect, ClearSpoolId, SetSpoolId, server
<1>2. ASSUME NEW t \in Tasks, NEW call \in Call, Fire(t, call), call.card \in Cards \cup {None}
      PROVE  Abstract!Next \/ UNCHANGED Abstract!vars
  <2>1. /\ task'[t].pc = FirstAwait(call) /\ task'[t].call = call
        /\ \A u \in Tasks \ {t} : task'[u] = task[u]
    BY <1>2 DEF Fire, IInv, TypeOK, Idle
  <2>2. AbstractCall(t) = None /\ \A u \in Tasks \ {t} : AbstractCall(u)' = AbstractCall(u)
    BY <1>2, <2>1 DEF Fire, AbstractCall
  <2>3. CASE AbstractCall(t)' = None
    BY <1>1, <2>2, <2>3 DEF Abstract!vars
  <2>4. CASE AbstractCall(t)' # None
    <3> DEFINE a == [card |-> call.card, spool |-> call.spool]
    <3>1. AbstractCall(t)' = a /\ call.card \in Cards
      BY <1>2, <2>1, <2>4 DEF AbstractCall
    <3>2. a \in Abstract!Call
      BY <3>1 DEF Call, Abstract!Call
    <3>3. Calls' = [Calls EXCEPT ![t] = a] /\ Calls[t] = None
      BY <2>2, <3>1 DEF Calls
    <3>4. Abstract!Begin(t)
      BY <1>1, <3>2, <3>3 DEF Abstract!Begin, Calls
    <3> QED
      BY <3>4 DEF Abstract!Next
  <2> QED
    BY <2>3, <2>4
<1>3. CASE UNCHANGED task
  BY <1>1, <1>3 DEF Abstract!vars, AbstractCall
<1>4. CASE \E t \in Tasks, s \in Spools \cup {None}, kind \in {"resolve", "unlink"} :
             Fire(t, [kind |-> kind, chan |-> ch, spool |-> s, card |-> card])
  <2>1. PICK t \in Tasks, s \in Spools \cup {None}, kind \in {"resolve", "unlink"} :
          Fire(t, [kind |-> kind, chan |-> ch, spool |-> s, card |-> card])
    BY <1>4
  <2>2. [kind |-> kind, chan |-> ch, spool |-> s, card |-> card] \in Call
    BY <1>1 DEF Call
  <2> QED
    BY <1>1, <1>2, <2>1, <2>2
<1>5. CASE HandleDetect(ch)
  BY <1>3, <1>4, <1>5 DEF HandleDetect
<1>6. CASE ClearSpoolId(ch)
  BY <1>3, <1>4, <1>6 DEF ClearSpoolId
<1>7. ASSUME NEW s \in Spools, SetSpoolId(ch, s)
      PROVE  Abstract!Next \/ UNCHANGED Abstract!vars
  BY <1>4, <1>7 DEF SetSpoolId
<1> QED
  BY <1>5, <1>6, <1>7

--------------------------------------------------------------------------------
(* Result                                                                  *)

LEMMA InitMaps == Init => Abstract!Init
<1> SUFFICES ASSUME Init PROVE Abstract!Init
  OBVIOUS
<1>1. \A t \in Tasks : AbstractCall(t) = None
  BY DEF Init, AbstractCall, Idle
<1> QED
  BY <1>1 DEF Abstract!Init

LEMMA NextMaps ==
  ASSUME IInv, Native \/ AllFresh, [Next]_vars
  PROVE  [Abstract!Next]_(Abstract!vars)
<1> SUFFICES Abstract!Next \/ UNCHANGED Abstract!vars
  OBVIOUS
<1>1. CASE EnvStep
  BY <1>1 DEF EnvStep, Scan, Upgrade, Reconnect, vars, server, Abstract!vars, AbstractCall
<1>2. ASSUME NEW t \in Tasks, Step(t)
      PROVE  Abstract!Next \/ UNCHANGED Abstract!vars
  BY <1>2, StepMaps DEF AllFresh
<1>3. ASSUME NEW ch \in Channels, CallStep(ch)
      PROVE  Abstract!Next \/ UNCHANGED Abstract!vars
  BY <1>3, CallMaps DEF CallStep
<1> QED
  BY <1>1, <1>2, <1>3 DEF Next, EnvStep, CallStep

(* With native tags every behaviour is one of CardLinks: whatever fails    *)
(* and however calls interleave, links change one at a time and only for a *)
(* call in flight that names the card; no stale answer undoes a link.      *)
THEOREM NativeImplementsCardLinks ==
  ASSUME Native
  PROVE  Spec => ImplementsCardLinks
<1>1. IInv /\ [Next]_vars => [Abstract!Next]_(Abstract!vars)
  BY NextMaps
<1> QED
  BY Inductive, InitMaps, <1>1, PTL DEF Spec, ImplementsCardLinks, Abstract!Spec

(* With card_uids, where a whole list is written back, so is every         *)
(* behaviour in which calls run one at a time, whatever fails.             *)
THEOREM OneCallImplementsCardLinks ==
  ASSUME OneAtATime
  PROVE  Spec => ImplementsCardLinks
<1>1. IInv /\ AllFresh /\ [Next]_vars => [Abstract!Next]_(Abstract!vars)
  BY NextMaps
<1> QED
  BY Inductive, OneInductive, InitMaps, <1>1, PTL DEF Spec, ImplementsCardLinks, Abstract!Spec

(* A coroutine that may have changed a link has moved on. *)
LEMMA LinkChangeMoves ==
  ASSUME IInv, NEW t \in Tasks, Step(t)
  PROVE  UNCHANGED links \/ task'[t] # task[t]
<1> DEFINE x == CHOOSE y \in task[t].todo : TRUE
           Other(r) == r # task[t]
<1>1. task[t] \in Task /\ GoodTask(task[t], asked) /\ \A r : Become(t, r) => task'[t] = r
  BY DEF IInv, TypeOK, Become
<1>2. ASSUME NEW from PROVE Other([task[t] EXCEPT !.pc = from, !.tries = @ + 1])
  <2>1. [task[t] EXCEPT !.pc = from, !.tries = @ + 1].tries = task[t].tries + 1
    BY <1>1 DEF Task
  <2>2. task[t].tries + 1 # task[t].tries
    BY <1>1, SpoolLinkAssumption DEF Task
  <2> QED
    BY <2>1, <2>2
<1>3. task[t].pc = "unbind" => \A ok : Other(AfterUnbind(t, x, ok))
  <2>1. task[t].pc = "unbind" => x \in task[t].todo
    BY <1>1 DEF GoodTask, Control
  <2>2. \A ok : AfterUnbind(t, x, ok).todo = task[t].todo \ {x}
    BY <1>1 DEF AfterUnbind, Task
  <2> QED
    BY <2>1, <2>2
<1>4. /\ task[t].pc \in {"bind", "moveTag", "bindAgain"} => Other(AfterBind(t))
      /\ task[t].pc = "moveTag" => Other([task[t] EXCEPT !.pc = "bindAgain", !.holder = None])
  BY <1>1 DEF AfterBind, Task
<1> HIDE DEF Other
<1>5. CASE Unbind(t) \/ UnbindFails(t)
  <2> HIDE DEF x
  <2>1. Unbind(t) => Become(t, AfterUnbind(t, x, task[t].ok)) /\ task[t].pc = "unbind"
    BY DEF Unbind, At, x
  <2>2. UnbindFails(t) =>
          /\ task[t].pc = "unbind"
          /\ \/ Become(t, [task[t] EXCEPT !.pc = "unbind", !.tries = @ + 1])
             \/ \E ok : Become(t, AfterUnbind(t, x, ok))
    BY DEF UnbindFails, UnbindGivenUp, RetryOr, At, x
  <2> QED
    BY <1>1, <1>2, <1>3, <1>5, <2>1, <2>2 DEF Other
<1>6. CASE \/ PatchCardUids(t) \/ PatchCardUidsFails(t) \/ LinkTag(t) \/ LinkTagFails(t)
           \/ MoveTagFails(t)
  <2>1. /\ task[t].pc \in {"bind", "moveTag", "bindAgain"}
        /\ \/ Become(t, AfterBind(t))
           \/ Become(t, [task[t] EXCEPT !.pc = "bind", !.tries = @ + 1])
    BY <1>6 DEF PatchCardUids, PatchCardUidsFails, LinkTag, LinkTagFails, MoveTagFails, RetryOr, At
  <2> QED
    BY <1>1, <1>2, <1>4, <2>1 DEF Other
<1>7. CASE MoveTag(t)
  BY <1>1, <1>4, <1>7 DEF MoveTag, At, Other
<1> QED
  BY <1>5, <1>6, <1>7, StepFrame

(* With native tags, or when calls run one at a time, a step never changes *)
(* which spools hold a card other than the one its call names. (With       *)
(* card_uids and overlapping calls it does: a run shows how.)              *)
THEOREM BystandersAreKept ==
  ASSUME Native \/ OneAtATime
  PROVE  Spec => BystandersKept
<1> DEFINE Kept == \A c \in Cards, s \in Spools :
                     (c \in links[s]) # (c \in links[s])' =>
                       \E t \in Tasks :
                         task[t].pc # "idle" /\ task[t].call.card = c /\ task'[t] # task[t]
<1>1. ASSUME IInv, Native \/ AllFresh, [Next]_vars PROVE Kept
  <2>1. CASE UNCHANGED links
    BY <2>1
  <2>2. ASSUME NEW t \in Tasks, Step(t), ~UNCHANGED links PROVE Kept
    <3>1. Native \/ Fresh(task[t], links)
      BY <1>1 DEF AllFresh
    <3>2. LinkStep(t)
      BY <1>1, <2>2, <3>1, StepFrame, UnbindLinks, BindLinks
    <3>3. SameBut(links', links, task[t].call.card) /\ task[t].pc # "idle"
      BY <1>1, <3>2 DEF LinkStep, SameBut, Tagged, IInv, TypeOK
    <3>4. task'[t] # task[t]
      BY <1>1, <2>2, LinkChangeMoves
    <3> QED
      BY <3>3, <3>4 DEF SameBut
  <2>3. CASE EnvStep
    BY <2>1, <2>3 DEF EnvStep, Scan, Upgrade, Reconnect, vars, server
  <2>4. ASSUME NEW ch \in Channels, CallStep(ch) PROVE Kept
    BY <1>1, <2>1, <2>4, CallTask
  <2> QED
    BY <1>1, <2>1, <2>2, <2>3, <2>4 DEF Next, EnvStep, CallStep
<1> HIDE DEF Kept
<1>2. CASE Native
  <2>1. IInv /\ [Next]_vars => Kept
    BY <1>1, <1>2
  <2>2. Spec => [][Kept]_vars
    BY Inductive, <2>1, PTL DEF Spec
  <2> QED
    BY <2>2 DEF BystandersKept, Kept
<1>3. CASE OneAtATime
  <2>1. IInv /\ AllFresh /\ [Next]_vars => Kept
    BY <1>1
  <2>2. Spec => [][Kept]_vars
    BY <1>3, Inductive, OneInductive, <2>1, PTL DEF Spec
  <2> QED
    BY <2>2 DEF BystandersKept, Kept
<1> QED
  BY <1>2, <1>3

--------------------------------------------------------------------------------
(* What a step does to other cards                                         *)

LEMMA OtherCards ==
  ASSUME IInv, NEW t \in Tasks, Fresh(task[t], links), Step(t)
  PROVE  /\ SameBut(links', links, task[t].call.card)
         /\ \A d \in Cards \ {task[t].call.card} : cache'[d] = cache[d]
<1>1. \A d \in Cards \ {task[t].call.card} : cache'[d] = cache[d]
  BY StepFrame DEF IInv, TypeOK, DeleteCache, DecideNone, SaveCache
<1>2. CASE Unbind(t) \/ UnbindFails(t)
  <2>1. PICK x \in task[t].todo : links' \in {links, Removed(x, task[t].call.card)}
    BY <1>2, UnbindTask
  <2>2. SameBut(links', links, task[t].call.card)
    BY <2>1, RemovedSameBut DEF SameBut
  <2> QED
    BY <1>1, <2>2
<1>3. CASE UNCHANGED links
  BY <1>1, <1>3 DEF SameBut
<1> QED
  BY <1>1, <1>2, <1>3, StepFrame, BoundSameBut

--------------------------------------------------------------------------------
(* Clearing a card                                                         *)

(* No listed spool has card c in l. *)
Off(c, l) == \A s \in Listed : c \notin l[s]

(* An unlink on its way: the cache entry goes first, and what a lookup     *)
(* found is all there is to remove.                                        *)
Unlinking(r, h, l) ==
  LET c == r.call.card IN
  r.call.kind = "unlink" =>
    /\ r.pc \in {"findByCard", "unbind"} \/ (r.pc = "done" /\ r.ok) => h[c] = None
    /\ r.pc = "unbind" /\ r.ok => \A s \in Listed : c \in l[s] => \E x \in r.todo : x.id = s
    /\ r.pc = "done" /\ r.ok => Off(c, l)

(* A call for a cleared card can only be a scan of it, which finds nothing. *)
Harmless(r) ==
  /\ r.call.kind = "resolve" /\ r.call.spool = None
  /\ r.byCard = {} /\ r.spool = None
  /\ r.pc \in {"check", "findByCard", "decide", "push"}

Gone(c) == cache[c] = None /\ Off(c, links)

ClearInv ==
  /\ \A t \in Tasks : Unlinking(task[t], cache, links)
  /\ \A c \in Cards, t \in Tasks : clearing[c] = t =>
       task[t].pc # "idle" /\ task[t].call.kind = "unlink" /\ task[t].call.card = c
  /\ \A c \in cleared : Gone(c)
  /\ \A c \in cleared, t \in Tasks :
       task[t].pc # "idle" /\ task[t].call.card = c => Harmless(task[t])

LEMMA LookupUnlinking ==
  ASSUME IInv, NEW t \in Tasks, Unlinking(task[t], cache, links), task[t].call.kind = "unlink",
         \/ CheckTagApi(t) \/ CheckTagApiFails(t) \/ DeleteCache(t)
         \/ GetById(t) \/ GetByIdFails(t) \/ FindByCard(t) \/ FindByCardFails(t)
  PROVE  Unlinking(task'[t], cache', links')
<1>1. /\ task[t] \in Task /\ GoodTask(task[t], asked) /\ task[t].call.card \in Cards
      /\ cache \in [Cards -> Spools \cup {None}]
  BY DEF IInv, GoodTask, Control, TypeOK, Task, Call
<1>2. \A r : Become(t, r) => task'[t] = r
  BY DEF Become, IInv, TypeOK
<1>3. CASE CheckTagApi(t)
  <2> DEFINE pc == IF old THEN "done" ELSE "erase"
             ok == ~old
             r == [task[t] EXCEPT !.pc = pc, !.ok = ok]
  <2>1. Become(t, r)
    BY <1>3 DEF CheckTagApi, Checked
  <2>2. pc = "erase" \/ (pc = "done" /\ ~ok)
    OBVIOUS
  <2> HIDE DEF pc, ok
  <2>3. r.pc = "erase" \/ (r.pc = "done" /\ ~r.ok)
    BY <1>1, <2>2 DEF Task
  <2> QED
    BY <1>2, <2>1, <2>3 DEF Unlinking
<1>4. CASE CheckTagApiFails(t)
  <2>1. task'[t].pc = "erase"
    BY <1>1, <1>2, <1>4 DEF CheckTagApiFails, Checked, Task
  <2> QED
    BY <2>1 DEF Unlinking
<1>5. CASE DeleteCache(t)
  <2>1. task'[t].pc = "findByCard" /\ task'[t].call = task[t].call
    BY <1>1, <1>2, <1>5 DEF DeleteCache, Task
  <2>2. cache'[task[t].call.card] = None
    BY <1>1, <1>5 DEF DeleteCache
  <2> QED
    BY <2>1, <2>2 DEF Unlinking
<1>6. CASE FindByCard(t)
  <2> DEFINE c == task[t].call.card
             found == {Snap(s) : s \in {x \in Listed : c \in links[x]}}
  <2>1. /\ Become(t, AfterFind(t, found, TRUE)) /\ UNCHANGED <<cache, links>>
        /\ cache[c] = None
    BY <1>6 DEF FindByCard, Local, server, At, Unlinking
  <2>2. \A s \in Listed : c \in links[s] => Snap(s) \in found /\ Snap(s).id = s
    BY DEF Snap
  <2>3. /\ AfterFind(t, found, TRUE).call = task[t].call
        /\ AfterFind(t, found, TRUE).todo = found
        /\ AfterFind(t, found, TRUE).pc = IF found # {} THEN "unbind" ELSE "done"
    BY <1>1 DEF AfterFind, Task
  <2> HIDE DEF found
  <2>4. Unlinking(AfterFind(t, found, TRUE), cache, links)
    BY <2>1, <2>2, <2>3 DEF Unlinking, Off
  <2> QED
    BY <1>2, <2>1, <2>4
<1>7. CASE FindByCardFails(t)
  <2> DEFINE again == [task[t] EXCEPT !.pc = "findByCard", !.tries = @ + 1]
  <2>1. /\ UNCHANGED <<cache, links>> /\ cache[task[t].call.card] = None
        /\ Become(t, again) \/ Become(t, AfterFind(t, {}, FALSE))
    BY <1>7 DEF FindByCardFails, RetryOr, server, At, Unlinking
  <2>2. again.pc = "findByCard" /\ again.call = task[t].call
    BY <1>1 DEF Task
  <2>3. AfterFind(t, {}, FALSE).pc = "done" /\ ~AfterFind(t, {}, FALSE).ok
    BY <1>1 DEF AfterFind, Task
  <2> HIDE DEF again
  <2>4. Unlinking(again, cache, links)
    BY <2>1, <2>2 DEF Unlinking
  <2>5. Unlinking(AfterFind(t, {}, FALSE), cache, links)
    BY <2>3 DEF Unlinking
  <2> QED
    BY <1>2, <2>1, <2>4, <2>5
<1>8. ~GetById(t) /\ ~GetByIdFails(t)
  BY <1>1 DEF GetById, GetByIdFails, At, GoodTask, Control
<1> QED
  BY <1>3, <1>4, <1>5, <1>6, <1>7, <1>8

LEMMA UnbindUnlinking ==
  ASSUME IInv, NEW t \in Tasks, Fresh(task[t], links), Unlinking(task[t], cache, links),
         task[t].call.kind = "unlink", Unbind(t) \/ UnbindFails(t)
  PROVE  Unlinking(task'[t], cache', links')
<1> DEFINE x == CHOOSE y \in task[t].todo : TRUE
           c == task[t].call.card
           gone == [links EXCEPT ![x.id] = @ \ {c}]
<1>1. /\ task[t] \in Task /\ GoodTask(task[t], asked) /\ c \in Cards
      /\ links \in [Spools -> SUBSET Cards] /\ UNCHANGED cache /\ At(t, "unbind")
      /\ cache[c] = None
  BY DEF IInv, GoodTask, Control, TypeOK, Task, Call, Unbind, UnbindFails, Unlinking, At
<1>2. \A r : Become(t, r) => task'[t] = r
  BY DEF Become, IInv, TypeOK
<1>3. x \in task[t].todo /\ Removed(x, c) = gone
  <2>1. x \in task[t].todo
    BY <1>1 DEF GoodTask, Control, At
  <2> QED
    BY <2>1, RemovedSameBut
<1> HIDE DEF x
<1>4. /\ AfterUnbind(t, x, TRUE).call = task[t].call
      /\ AfterUnbind(t, x, task[t].ok).call = task[t].call
      /\ AfterUnbind(t, x, task[t].ok).ok = task[t].ok
      /\ AfterUnbind(t, x, task[t].ok).todo = task[t].todo \ {x}
      /\ AfterUnbind(t, x, task[t].ok).pc = IF task[t].todo \ {x} # {} THEN "unbind" ELSE "done"
  BY <1>1 DEF AfterUnbind, Task
<1>5. CASE Unbind(t)
  <2>1. links' = gone /\ Become(t, AfterUnbind(t, x, task[t].ok))
    BY <1>3, <1>5 DEF Unbind, x
  <2>2. \A s \in Listed : s \in Spools /\ (c \in gone[s] => c \in links[s] /\ s # x.id)
    BY <1>1, SpoolLinkAssumption
  <2>3. task[t].ok => \A s \in Listed : c \in gone[s] => \E y \in task[t].todo \ {x} : y.id = s
    BY <1>1, <2>2 DEF Unlinking, At
  <2> HIDE DEF gone
  <2>4. Unlinking(AfterUnbind(t, x, task[t].ok), cache, gone)
    BY <1>1, <1>4, <2>3 DEF Unlinking, Off
  <2> QED
    BY <1>1, <1>2, <2>1, <2>4
<1>6. CASE UnbindFails(t)
  <2> DEFINE again == [task[t] EXCEPT !.pc = "unbind", !.tries = @ + 1]
             ok == task[t].ok /\ task[t].call.kind = "resolve"
  <2>1. /\ links' \in {links, gone}
        /\ Become(t, again) \/ Become(t, AfterUnbind(t, x, ok))
    BY <1>3, <1>6 DEF UnbindFails, RetryOr, UnbindGivenUp, x
  <2>2. again.pc = "unbind" /\ again.call = task[t].call /\ again.todo = task[t].todo
        /\ again.ok = task[t].ok
    BY <1>1 DEF Task
  <2>3. ~ok
    OBVIOUS
  <2> HIDE DEF ok, again
  <2>4. /\ ~AfterUnbind(t, x, ok).ok /\ AfterUnbind(t, x, ok).call = task[t].call
    BY <1>1, <2>3 DEF AfterUnbind, Task
  <2>5. \A s \in Listed : s \in Spools /\ (c \in gone[s] => c \in links[s])
    BY <1>1, SpoolLinkAssumption
  <2>6. \A s \in Listed : c \in links'[s] => c \in links[s]
    BY <2>1, <2>5
  <2>7. Unlinking(again, cache, links')
    BY <1>1, <2>2, <2>6 DEF Unlinking, At
  <2>8. Unlinking(AfterUnbind(t, x, ok), cache, links')
    BY <1>1, <2>4 DEF Unlinking
  <2> QED
    BY <1>1, <1>2, <2>1, <2>7, <2>8
<1> QED
  BY <1>5, <1>6

LEMMA StepUnlinking ==
  ASSUME IInv, NEW t \in Tasks, Fresh(task[t], links), Unlinking(task[t], cache, links), Step(t)
  PROVE  Unlinking(task'[t], cache', links')
<1>1. GoodTask(task[t], asked) /\ task[t].call.kind \in {"resolve", "unlink"}
  BY DEF IInv, GoodTask, Task, Call
<1>2. Unlinking(Idle, cache', links')
  BY DEF Unlinking, Idle, NoCall
<1>3. CASE task[t].call.kind = "resolve"
  BY <1>2, <1>3, Goes DEF Unlinking
<1>4. CASE task[t].call.kind = "unlink"
  <2>1. task[t].pc \notin {"getById", "decide", "bind", "moveTag", "bindAgain", "save", "push"}
    BY <1>1, <1>4 DEF GoodTask, Control
  <2>2. \/ CheckTagApi(t) \/ CheckTagApiFails(t) \/ DeleteCache(t)
        \/ FindByCard(t) \/ FindByCardFails(t)
        \/ Unbind(t) \/ UnbindFails(t) \/ UnlinkDone(t)
    BY <2>1 DEF Step, At, GetById, GetByIdFails, DecideAmbiguous, DecideById, DecideByCard,
       DecideNone, PatchCardUids, PatchCardUidsFails, LinkTag, LinkTagConflict,
       LinkTagRefused, LinkTagFails, MoveTag, MoveTagFails, SaveCache, Push, PushFails
  <2>3. CASE UnlinkDone(t)
    BY <1>2, <2>3 DEF UnlinkDone, Become, IInv, TypeOK
  <2> QED
    BY <1>4, <2>2, <2>3, LookupUnlinking, UnbindUnlinking
<1> QED
  BY <1>1, <1>3, <1>4

(* A call for a cleared card leaves it cleared. *)
LEMMA HarmlessStep ==
  ASSUME IInv, NEW t \in Tasks, Harmless(task[t]), task[t].call.card \in Cards,
         Gone(task[t].call.card), Step(t)
  PROVE  /\ UNCHANGED links /\ cache'[task[t].call.card] = None
         /\ task'[t] = Idle \/ Harmless(task'[t])
<1> DEFINE c == task[t].call.card
           To(pc) == [task[t] EXCEPT !.pc = pc]
           Answer(pc, ok) == [task[t] EXCEPT !.pc = pc, !.ok = ok]
           Again == [task[t] EXCEPT !.pc = "findByCard", !.tries = @ + 1]
           Recall(s) == [task[t] EXCEPT !.pc = "push", !.spool = s]
<1>1. /\ task[t] \in Task /\ GoodTask(task[t], asked) /\ c # None
      /\ cache \in [Cards -> Spools \cup {None}]
  BY SpoolLinkAssumption DEF IInv, TypeOK
<1>2. \A r : Become(t, r) => task'[t] = r
  BY DEF Become, IInv, TypeOK
<1>3. task[t].byId = None
  BY <1>1, SpoolLinkAssumption DEF GoodTask, Control, Harmless, Task, Snapshot
<1>4. /\ \A pc : pc \in {"check", "findByCard", "decide", "push"} =>
           Harmless(To(pc)) /\ \A ok : Harmless(Answer(pc, ok))
      /\ Harmless(Again) /\ Harmless(Recall(None))
      /\ \A ok : Harmless(AfterFind(t, {}, ok))
  BY <1>1 DEF Harmless, Task, AfterFind
<1>5. CASE CheckTagApi(t) \/ CheckTagApiFails(t)
  <2>1. Checked(task[t].call) = "findByCard"
    BY DEF Harmless, Checked
  <2>2. /\ UNCHANGED <<links, cache>>
        /\ \E pc \in {"push", "findByCard"} :
             Become(t, To(pc)) \/ \E ok : Become(t, Answer(pc, ok))
    BY <1>5, <2>1 DEF CheckTagApi, CheckTagApiFails, server, Harmless
  <2> HIDE DEF To, Answer
  <2> QED
    BY <1>2, <1>4, <2>2 DEF Gone
<1>6. CASE FindByCard(t) \/ FindByCardFails(t)
  <2> DEFINE found == {Snap(s) : s \in {x \in Listed : c \in links[x]}}
  <2>1. found = {}
    BY DEF Gone, Off
  <2>2. /\ UNCHANGED <<links, cache>>
        /\ Become(t, Again) \/ \E ok : Become(t, AfterFind(t, {}, ok))
    BY <1>6, <2>1 DEF FindByCard, FindByCardFails, RetryOr, server, Local
  <2> HIDE DEF Again
  <2> QED
    BY <1>2, <1>4, <2>2 DEF Gone
<1>7. CASE DecideNone(t)
  <2>1. /\ UNCHANGED links /\ cache'[c] = None /\ Become(t, Recall(None))
    BY <1>1, <1>7 DEF DecideNone, server, Gone
  <2> HIDE DEF Recall
  <2> QED
    BY <1>2, <1>4, <2>1
<1>8. CASE Push(t) \/ PushFails(t)
  BY <1>2, <1>8 DEF Push, PushFails, server, Gone
<1>9. ~DecideById(t) /\ ~DecideByCard(t) /\ ~DecideAmbiguous(t)
  <2>1. Cardinality(task[t].byCard) = 0
    BY FS_EmptySet DEF Harmless
  <2> QED
    BY <1>3, <2>1 DEF DecideById, DecideByCard, DecideAmbiguous, Harmless
<1> QED
  BY <1>5, <1>6, <1>7, <1>8, <1>9 DEF Step, At, Harmless, DeleteCache, GetById, GetByIdFails,
     Unbind, UnbindFails, PatchCardUids, PatchCardUidsFails, LinkTag, LinkTagConflict,
     LinkTagRefused, LinkTagFails, MoveTag, MoveTagFails, SaveCache, UnlinkDone

LEMMA StepClear ==
  ASSUME OneAtATime, IInv, AllFresh, ClearInv, NEW t \in Tasks, Step(t)
  PROVE  ClearInv'
<1>1. /\ Fresh(task[t], links) /\ Unlinking(task[t], cache, links) /\ GoodTask(task[t], asked)
      /\ task[t].call.kind \in {"resolve", "unlink"}
      /\ \A u \in Tasks : u = t
      /\ cleared \subseteq Cards /\ links \in [Spools -> SUBSET Cards]
  BY DEF AllFresh, ClearInv, IInv, OneAtATime, TypeOK, GoodTask, Task, Call
<1>2. \A u \in Tasks : Unlinking(task'[u], cache', links')
  BY <1>1, StepUnlinking
<1>3. task[t].pc # "idle"
  BY Goes
<1>4. CASE UnlinkDone(t)
  <2>1. /\ UNCHANGED <<links, cache>> /\ task'[t] = Idle
        /\ clearing' = [c \in Cards |-> IF clearing[c] = t THEN None ELSE clearing[c]]
        /\ cleared' \subseteq cleared \cup {c \in Cards : clearing[c] = t /\ task[t].ok}
        /\ task[t].pc = "done"
    BY <1>4 DEF UnlinkDone, server, Become, IInv, TypeOK, At
  <2>2. \A c \in Cards, u \in Tasks : clearing'[c] # u
    BY <1>1, <2>1, SpoolLinkAssumption
  <2>3. \A c \in cleared' : Gone(c)
    BY <1>1, <2>1 DEF ClearInv, Gone, Unlinking
  <2>4. \A c \in cleared' : Gone(c)'
    BY <2>1, <2>3 DEF Gone
  <2> QED
    BY <1>1, <1>2, <2>1, <2>2, <2>4 DEF ClearInv, Idle
<1>5. CASE ~UnlinkDone(t)
  <2>1. UNCHANGED <<clearing, cleared>>
    BY <1>5, StepFrame DEF history
  <2>2. \A c \in Cards, u \in Tasks : clearing[c] = u =>
          task'[u].pc # "idle" /\ task'[u].call.kind = "unlink" /\ task'[u].call.card = c
    BY <1>1, <1>5, Goes DEF ClearInv
  <2>3. ASSUME NEW c \in cleared
        PROVE  /\ Gone(c)'
               /\ task'[t].pc # "idle" /\ task'[t].call.card = c => Harmless(task'[t])
    <3>1. CASE c = task[t].call.card
      <4>1. Harmless(task[t]) /\ Gone(c) /\ c \in Cards
        BY <1>1, <1>3, <3>1 DEF ClearInv
      <4>2. /\ UNCHANGED links /\ cache'[c] = None
            /\ task'[t] = Idle \/ Harmless(task'[t])
        BY <3>1, <4>1, HarmlessStep
      <4> QED
        BY <4>1, <4>2 DEF Gone, Idle
    <3>2. CASE c # task[t].call.card
      <4>1. Gone(c) /\ c \in Cards
        BY <1>1 DEF ClearInv
      <4>2. cache'[c] = None /\ \A s \in Listed : c \notin links'[s]
        BY <1>1, <3>2, <4>1, OtherCards, SpoolLinkAssumption DEF Gone, Off, SameBut
      <4>3. task'[t].pc # "idle" => task'[t].call.card # c
        BY <3>2, Goes DEF Idle
      <4> QED
        BY <4>2, <4>3 DEF Gone, Off
    <3> QED
      BY <3>1, <3>2
  <2> QED
    BY <1>1, <1>2, <2>1, <2>2, <2>3 DEF ClearInv
<1> QED
  BY <1>4, <1>5

LEMMA CallClear ==
  ASSUME OneAtATime, IInv, ClearInv, NEW ch \in Channels, CallStep(ch)
  PROVE  ClearInv'
<1> DEFINE card == reader[ch].card
<1>1. /\ card \in Cards \cup {None} /\ UNCHANGED <<links, cache>>
      /\ cleared \subseteq Cards /\ clearing \in [Cards -> Tasks \cup {None}]
  BY CallTask DEF IInv, TypeOK
<1>2. ASSUME NEW t \in Tasks, NEW call \in Call, Fire(t, call),
             call.kind = "unlink" => call.card # None
      PROVE  /\ \A u \in Tasks : u = t /\ task'[u] = Fired(call)
             /\ Fired(call).pc # "idle" /\ Fired(call).call = call
             /\ Unlinking(Fired(call), cache, links)
             /\ \A c \in Cards : clearing[c] # t
             /\ call.kind = "resolve" /\ call.spool = None /\ call.card # None => Harmless(Fired(call))
  <2>1. \A u \in Tasks : u = t /\ task'[u] = Fired(call)
    BY <1>2, OneTask DEF Fire, Become, Fired
  <2>2. /\ Fired(call).call = call
        /\ Fired(call).byCard = {} /\ Fired(call).spool = None
        /\ Fired(call).pc = FirstAwait(call)
    BY DEF Fired, Idle
  <2>3. /\ FirstAwait(call) # "idle"
        /\ call.kind = "unlink" => FirstAwait(call) \in {"check", "erase"}
        /\ call.kind = "resolve" /\ call.spool = None => FirstAwait(call) \in {"check", "findByCard"}
    BY DEF FirstAwait, Checked
  <2>4. \A c \in Cards : clearing[c] # t
    BY <1>2 DEF Fire, ClearInv
  <2> QED
    BY <2>1, <2>2, <2>3, <2>4 DEF Unlinking, Harmless
<1>3. CASE HandleDetect(ch)
  <2>1. UNCHANGED <<clearing, cleared>>
    BY <1>3 DEF HandleDetect, history
  <2>2. CASE UNCHANGED task
    BY <1>1, <2>1, <2>2 DEF ClearInv, Gone
  <2>3. CASE card # None /\ ~UNCHANGED task
    <3> DEFINE call == [kind |-> "resolve", chan |-> ch, spool |-> None, card |-> card]
    <3>1. PICK t \in Tasks : Fire(t, call)
      BY <1>3, <2>3 DEF HandleDetect
    <3>2. call \in Call
      BY <1>1 DEF Call
    <3>3. call.kind = "resolve" /\ call.spool = None /\ call.card # None
      BY <2>3
    <3> HIDE DEF call
    <3>4. /\ \A u \in Tasks : u = t /\ task'[u] = Fired(call)
          /\ Unlinking(Fired(call), cache, links) /\ Harmless(Fired(call))
          /\ \A c \in Cards : clearing[c] # t
      BY <1>2, <3>1, <3>2, <3>3
    <3> QED
      BY <1>1, <2>1, <3>4 DEF ClearInv, Gone
  <2> QED
    BY <1>3, <2>2, <2>3 DEF HandleDetect
<1>4. ASSUME NEW s \in Spools, SetSpoolId(ch, s) PROVE ClearInv'
  <2> DEFINE call == [kind |-> "resolve", chan |-> ch, spool |-> s, card |-> card]
  <2>1. PICK t \in Tasks : Fire(t, call)
    BY <1>4 DEF SetSpoolId
  <2>2. call \in Call
    BY <1>1 DEF Call
  <2>3. call.kind = "resolve" /\ call.card = card
    OBVIOUS
  <2>4. /\ clearing' = [c \in Cards |-> IF c = card THEN None ELSE clearing[c]]
        /\ cleared' = cleared \ {card}
    BY <1>4 DEF SetSpoolId
  <2> HIDE DEF call
  <2>5. /\ \A u \in Tasks : u = t /\ task'[u] = Fired(call)
        /\ Unlinking(Fired(call), cache, links) /\ Fired(call).call = call
        /\ \A c \in Cards : clearing[c] # t
    BY <1>2, <2>1, <2>2, <2>3
  <2>6. \A c \in Cards : clearing'[c] # t
    BY <2>4, <2>5, SpoolLinkAssumption
  <2> QED
    BY <1>1, <2>3, <2>4, <2>5, <2>6 DEF ClearInv, Gone
<1>5. CASE ClearSpoolId(ch)
  <2>1. CASE card = None
    BY <1>1, <1>5, <2>1 DEF ClearSpoolId, history, ClearInv, Gone
  <2>2. CASE card # None
    <3> DEFINE call == [kind |-> "unlink", chan |-> ch, spool |-> None, card |-> card]
    <3>1. PICK t \in Tasks : /\ Fire(t, call)
                             /\ clearing' = [clearing EXCEPT ![card] = t]
                             /\ cleared' = cleared \ {card}
      BY <1>5, <2>2 DEF ClearSpoolId
    <3>2. call \in Call
      BY <1>1 DEF Call
    <3>3. call.kind = "unlink" /\ call.card = card
      OBVIOUS
    <3> HIDE DEF call
    <3>4. /\ \A u \in Tasks : u = t /\ task'[u] = Fired(call)
          /\ Unlinking(Fired(call), cache, links)
          /\ Fired(call).call = call /\ Fired(call).pc # "idle"
          /\ \A c \in Cards : clearing[c] # t
      BY <1>2, <2>2, <3>1, <3>2, <3>3
    <3>5. \A c \in Cards, u \in Tasks : clearing'[c] = u => c = card
      BY <1>1, <3>1, <3>4
    <3> QED
      BY <1>1, <3>1, <3>3, <3>4, <3>5 DEF ClearInv, Gone
  <2> QED
    BY <2>1, <2>2
<1> QED
  BY <1>3, <1>4, <1>5 DEF CallStep

LEMMA InitClear == Init => ClearInv
BY SpoolLinkAssumption DEF Init, ClearInv, Unlinking, Idle, NoCall

LEMMA NextClear ==
  ASSUME OneAtATime, IInv, AllFresh, ClearInv, [Next]_vars
  PROVE  ClearInv'
<1>1. CASE EnvStep
  BY <1>1 DEF EnvStep, Scan, Upgrade, Reconnect, vars, server, history, ClearInv, Gone
<1> QED
  BY <1>1, StepClear, CallClear DEF Next, EnvStep, CallStep

(* After an unlink that met no error, no listed spool and no cache entry   *)
(* brings the card back until a user assigns it again: for any spools and  *)
(* cards, either store and any failures, when calls run one at a time.     *)
THEOREM OneCallClears ==
  ASSUME OneAtATime
  PROVE  Spec => []ClearedStaysCleared
<1>1. IInv /\ AllFresh /\ ClearInv /\ [Next]_vars => ClearInv'
  BY NextClear
<1>2. ClearInv => ClearedStaysCleared
  BY DEF ClearInv, Gone, Off, ClearedStaysCleared
<1> QED
  BY Inductive, OneInductive, InitClear, <1>1, <1>2, PTL DEF Spec

--------------------------------------------------------------------------------
(* While no request fails                                                  *)

Binding == {"unbind", "bind", "moveTag", "bindAgain", "save"}

(* What a resolve knows while it looks up: nothing has failed, every       *)
(* listed holder of its card is in byCard, and a spool it was given is     *)
(* missing only if Spoolman has none. l is what the server holds.          *)
Looked(r, l, sup) ==
  LET c == r.call.card IN
  /\ r.pc \notin {"erase", "done"}
  /\ r.pc # "push" => r.ok
  /\ r.pc \in Looking => r.spool = None
  /\ Native /\ c # None /\ r.pc \notin {"idle", "check", "push"} => sup
  /\ \A x \in r.byCard : x.id \in Listed
  /\ r.pc = "decide" /\ c # None => \A s \in Listed : c \in l[s] => \E x \in r.byCard : x.id = s
  /\ r.pc \in {"findByCard", "decide"} /\ r.byId = None => r.call.spool \notin Stored

(* What holds on the way from the lookup to Klipper: the listed holders    *)
(* other than the spool to bind to are still to do.                        *)
Bound(r, l, h) ==
  LET c == r.call.card
      b == r.byId.id IN
  /\ r.pc \in Binding /\ c # None /\ r.byId # None =>
       /\ \A s \in Listed \ {b} : c \in l[s] => r.pc = "unbind" /\ \E x \in r.todo : x.id = s
       /\ r.spool = b
       /\ r.pc \in {"unbind", "bind"} => r.byId.uids = l[b]
       /\ r.pc \in {"bind", "moveTag", "bindAgain"} => c \notin l[b]
       /\ r.pc = "moveTag" => Native /\ c \in l[r.holder]
       /\ r.pc = "bindAgain" => \A s \in Spools : c \notin l[s]
  /\ r.pc = "save" /\ c # None => r.spool # None /\ c \in l[r.spool]
  /\ r.pc = "save" /\ r.byId = None => r.spool # r.call.spool
  /\ r.pc = "push" /\ r.spool # None /\ r.spool = r.call.spool /\ c # None =>
       /\ c \in l[r.spool]
       /\ \A x \in Listed \ {r.spool} : c \notin l[x]
       /\ h[c] = r.spool

Sure(r, l, h, sup) == r.call.kind = "resolve" => Looked(r, l, sup) /\ Bound(r, l, h)

(* With native tags no card is on two spools. *)
OneHolder == Native => \A s, u \in Spools : s # u => links[s] \cap links[u] = {}

ServerInv ==
  /\ budget.faults \in Nat /\ budget.faults <= MaxFaults
  /\ supported => ~old
  /\ OneHolder

Quiet == budget.faults = MaxFaults

(* A step with no fault. *)
SureNow(t) ==
  /\ IInv /\ ServerInv /\ Fresh(task[t], links) /\ Sure(task[t], links, cache, supported)
  /\ task[t].call.kind = "resolve"

LEMMA NowFacts ==
  ASSUME NEW t \in Tasks, SureNow(t)
  PROVE  /\ task[t] \in Task /\ GoodTask(task[t], asked) /\ Looked(task[t], links, supported)
         /\ Bound(task[t], links, cache) /\ links \in [Spools -> SUBSET Cards]
         /\ cache \in [Cards -> Spools \cup {None}]
         /\ Listed \subseteq Stored /\ Stored \subseteq Spools /\ None \notin Spools
         /\ None \notin Cards /\ task[t].call \in Call
         /\ task[t].byId # None => /\ task[t].byId \in Snapshot /\ task[t].byId.id \in Spools
                                   /\ task[t].byId.id = task[t].call.spool
         /\ \A r : Become(t, r) => task'[t] = r
<1>1. task[t] \in Task /\ task[t].byId \in Snapshot \cup {None}
  BY DEF SureNow, IInv, TypeOK, Task
<1>2. \A r : Become(t, r) => task'[t] = r
  BY DEF Become, SureNow, IInv, TypeOK
<1> QED
  BY <1>1, <1>2, SpoolLinkAssumption DEF SureNow, Sure, IInv, TypeOK, Task, GoodTask, Control, Snapshot

LEMMA LookupSure ==
  ASSUME NEW t \in Tasks, SureNow(t), CheckTagApi(t) \/ GetById(t) \/ FindByCard(t)
  PROVE  Sure(task'[t], links', cache', supported')
<1> DEFINE c == task[t].call.card
           s == task[t].call.spool
<1>1. CASE CheckTagApi(t)
  <2> DEFINE pc == IF old THEN "push" ELSE Checked(task[t].call)
             ok == ~old
             r == [task[t] EXCEPT !.pc = pc, !.ok = ok]
  <2>1. Become(t, r) /\ UNCHANGED <<links, cache>> /\ task[t].pc = "check"
    BY <1>1 DEF CheckTagApi, server, At, SureNow
  <2>2. ok => supported'
    BY <1>1, Zenon DEF CheckTagApi
  <2>3. /\ pc = "push" \/ (ok /\ pc \in {"getById", "findByCard"})
        /\ pc = "findByCard" => s = None
    BY DEF SureNow, Checked
  <2> HIDE DEF pc, ok
  <2>4. /\ r.pc = pc /\ r.ok = ok /\ r.call = task[t].call /\ r.byCard = task[t].byCard
        /\ r.spool = task[t].spool /\ r.byId = task[t].byId
    BY NowFacts DEF Task
  <2>5. task[t].spool = None
    BY <2>1, NowFacts DEF Looked, Looking
  <2> HIDE DEF r
  <2>6. Looked(r, links, supported')
    BY <2>2, <2>3, <2>4, <2>5, NowFacts DEF Looked
  <2>7. Bound(r, links, cache)
    BY <2>3, <2>4, <2>5 DEF Bound, Binding
  <2> QED
    BY <2>1, <2>6, <2>7, NowFacts DEF Sure
<1>2. CASE GetById(t)
  <2> DEFINE got == IF s \in Stored THEN Snap(s) ELSE None
             r == AfterGet(t, got, TRUE)
  <2>1. Become(t, r) /\ UNCHANGED <<links, cache, supported>> /\ task[t].pc = "getById"
    BY <1>2 DEF GetById, Local, server, At
  <2>2. got = None => s \notin Stored
    BY NowFacts, SnapGood DEF SureNow, IInv
  <2> HIDE DEF got
  <2>3. /\ r.pc = IF c # None THEN "findByCard" ELSE "decide"
        /\ r.ok = TRUE /\ r.call = task[t].call /\ r.byCard = task[t].byCard
        /\ r.spool = task[t].spool /\ r.byId = got
    BY NowFacts DEF Task, AfterGet
  <2>4. task[t].spool = None
    BY <2>1, NowFacts DEF Looked, Looking
  <2> HIDE DEF r
  <2>5. Looked(r, links, supported)
    BY <2>1, <2>2, <2>3, <2>4, NowFacts DEF Looked
  <2>6. Bound(r, links, cache)
    BY <2>3 DEF Bound, Binding
  <2> QED
    BY <2>1, <2>5, <2>6, NowFacts DEF Sure
<1>3. CASE FindByCard(t)
  <2> DEFINE found == {Snap(x) : x \in {y \in Listed : c \in links[y]}}
             r == AfterFind(t, found, TRUE)
  <2>1. Become(t, r) /\ UNCHANGED <<links, cache, supported>> /\ task[t].pc = "findByCard"
    BY <1>3 DEF FindByCard, Local, server, At
  <2>2. /\ \A x \in found : x.id \in Listed
        /\ \A x \in Listed : c \in links[x] => Snap(x) \in found /\ Snap(x).id = x
    BY DEF Snap
  <2> HIDE DEF found
  <2>3. /\ r.pc = "decide" /\ r.call = task[t].call /\ r.byCard = found
        /\ r.spool = task[t].spool /\ r.byId = task[t].byId
    BY NowFacts DEF Task, AfterFind, SureNow
  <2>4. task[t].spool = None /\ task[t].ok
    BY <2>1, NowFacts DEF Looked, Looking
  <2>5. r.ok
    <3>1. r.ok = (TRUE /\ task[t].ok)
      BY NowFacts, Zenon DEF Task, AfterFind
    <3> QED
      BY <2>4, <3>1
  <2> HIDE DEF r
  <2>6. Looked(r, links, supported)
    BY <2>1, <2>2, <2>3, <2>4, <2>5, NowFacts DEF Looked
  <2>7. Bound(r, links, cache)
    BY <2>3 DEF Bound, Binding
  <2> QED
    BY <2>1, <2>6, <2>7, NowFacts DEF Sure
<1> QED
  BY <1>1, <1>2, <1>3

LEMMA DecideSure ==
  ASSUME NEW t \in Tasks, SureNow(t),
         DecideAmbiguous(t) \/ DecideById(t) \/ DecideByCard(t) \/ DecideNone(t)
  PROVE  Sure(task'[t], links', cache', supported')
<1> DEFINE c == task[t].call.card
<1>1. /\ UNCHANGED <<links, supported>> /\ task[t].pc = "decide" /\ task[t].spool = None /\ task[t].ok
      /\ \A x \in Reads(task[t]) : x.uids = links[x.id]
  BY NowFacts DEF DecideAmbiguous, DecideById, DecideByCard, DecideNone, Local, server, At,
     Looked, Looking, Fresh, SureNow
<1>2. CASE DecideAmbiguous(t)
  <2> DEFINE r == [task[t] EXCEPT !.pc = "push", !.byId = None, !.byCard = {}]
  <2>1. /\ r.pc = "push" /\ r.spool = None /\ r.byCard = {}
    BY <1>1, NowFacts DEF Task
  <2>2. Looked(r, links, supported) /\ Bound(r, links, cache')
    BY <2>1 DEF Looked, Bound, Looking, Binding
  <2> QED
    BY <1>1, <1>2, <2>2, NowFacts DEF DecideAmbiguous, Sure
<1>3. CASE DecideById(t)
  <2> DEFINE b == task[t].byId.id
             stale == {x \in task[t].byCard : x.id # b}
             pc == IF c = None THEN "save" ELSE IF stale # {} THEN "unbind" ELSE BindOrSave(t)
             r == [task[t] EXCEPT !.spool = b, !.todo = stale, !.byCard = {}, !.pc = pc]
  <2>1. Become(t, r) /\ task[t].byId # None /\ UNCHANGED cache
    BY <1>3 DEF DecideById, Local
  <2>2. task[t].byId.uids = links[b]
    BY <1>1, <2>1 DEF Reads
  <2>3. /\ pc \in {"save", "unbind", "bind"}
        /\ pc = "save" /\ c # None => c \in links[b]
        /\ pc = "bind" => c \notin links[b]
        /\ c # None /\ pc # "unbind" => stale = {}
    BY <2>2 DEF BindOrSave
  <2>4. c # None => \A s \in Listed \ {b} : c \in links[s] => \E x \in stale : x.id = s
    BY <1>1, NowFacts DEF Looked
  <2> HIDE DEF pc, stale
  <2>5. /\ r.pc = pc /\ r.ok = task[t].ok /\ r.call = task[t].call /\ r.byCard = {}
        /\ r.spool = b /\ r.byId = task[t].byId /\ r.todo = stale
    BY NowFacts DEF Task
  <2> HIDE DEF r
  <2>6. Looked(r, links, supported)
    BY <1>1, <2>3, <2>5, NowFacts DEF Looked, Looking
  <2>7. Bound(r, links, cache)
    BY <2>1, <2>2, <2>3, <2>4, <2>5, NowFacts DEF Bound, Binding
  <2> QED
    BY <1>1, <2>1, <2>6, <2>7, NowFacts DEF Sure
<1>4. CASE DecideByCard(t)
  <2>1. PICK x \in task[t].byCard :
          Become(t, [task[t] EXCEPT !.spool = x.id, !.byCard = {}, !.pc = "save"])
    BY <1>4 DEF DecideByCard
  <2> DEFINE r == [task[t] EXCEPT !.spool = x.id, !.byCard = {}, !.pc = "save"]
  <2>2. /\ r.pc = "save" /\ r.ok = task[t].ok /\ r.call = task[t].call /\ r.byCard = {}
        /\ r.spool = x.id /\ r.byId = task[t].byId /\ task[t].byId = None /\ UNCHANGED cache
    BY <1>4, NowFacts DEF Task, DecideByCard, Local
  <2>3. /\ x.id \in Listed /\ x.uids = links[x.id] /\ c \in x.uids
        /\ task[t].call.spool \notin Stored
    BY <1>1, <2>2, NowFacts DEF Looked, Reads, GoodTask, Known
  <2> HIDE DEF r
  <2>4. Looked(r, links, supported)
    BY <1>1, <2>2, <2>3, NowFacts DEF Looked, Looking
  <2>5. Bound(r, links, cache)
    BY <2>2, <2>3, NowFacts DEF Bound
  <2> QED
    BY <1>1, <2>1, <2>2, <2>4, <2>5, NowFacts DEF Sure, r
<1>5. CASE DecideNone(t)
  <2> DEFINE r == [task[t] EXCEPT !.pc = "push", !.spool = None]
  <2>1. Become(t, Idle) \/ Become(t, r)
    BY <1>1, <1>5 DEF DecideNone
  <2>2. r.pc = "push" /\ r.spool = None /\ r.byCard = task[t].byCard
    BY NowFacts DEF Task
  <2>3. Looked(r, links, supported) /\ Bound(r, links, cache')
    BY <2>2, NowFacts DEF Looked, Bound, Looking, Binding
  <2>4. Sure(Idle, links, cache', supported)
    BY DEF Sure, Looked, Bound, Looking, Binding, Idle, NoCall
  <2> QED
    BY <1>1, <2>1, <2>3, <2>4, NowFacts DEF Sure
<1> QED
  BY <1>2, <1>3, <1>4, <1>5

LEMMA UnbindSure ==
  ASSUME NEW t \in Tasks, SureNow(t), Unbind(t)
  PROVE  Sure(task'[t], links', cache', supported')
<1> DEFINE x == CHOOSE y \in task[t].todo : TRUE
           c == task[t].call.card
           b == task[t].byId.id
           gone == [links EXCEPT ![x.id] = @ \ {c}]
           rest == task[t].todo \ {x}
           r == AfterUnbind(t, x, task[t].ok)
<1>1. /\ task[t].pc = "unbind" /\ UNCHANGED <<cache, supported>>
      /\ Become(t, r) /\ links' = Removed(x, c)
  BY DEF Unbind, At
<1>2. /\ x \in task[t].todo /\ c # None /\ task[t].byId # None /\ c \in Cards
      /\ \A y \in task[t].todo : y.id # b
  BY <1>1, NowFacts DEF GoodTask, Control, SureNow, Call
<1>3. x.id \in Spools /\ links' = gone
  BY <1>1, <1>2, RemovedSameBut DEF SureNow
<1> HIDE DEF x
<1>4. /\ \A s \in Listed \ {b} : c \in links[s] => \E y \in task[t].todo : y.id = s
      /\ task[t].spool = b /\ task[t].byId.uids = links[b]
  BY <1>1, <1>2, NowFacts DEF Bound, Binding
<1>5. gone[b] = links[b]
  BY <1>2, NowFacts
<1>6. \A s \in Listed \ {b} : c \in gone[s] => \E y \in rest : y.id = s
  <2>1. \A s \in Listed : s \in Spools /\ (c \in gone[s] => c \in links[s] /\ s # x.id)
    BY NowFacts
  <2> QED
    BY <1>4, <2>1
<1>7. /\ r.pc = IF rest # {} THEN "unbind" ELSE BindOrSave(t)
      /\ r.todo = rest /\ r.ok = task[t].ok /\ r.call = task[t].call
      /\ r.byCard = task[t].byCard /\ r.spool = task[t].spool /\ r.byId = task[t].byId
  BY NowFacts DEF SureNow, AfterUnbind, Task
<1>8. /\ r.pc \in {"unbind", "bind", "save"}
      /\ r.pc # "unbind" => rest = {}
      /\ r.pc = "bind" => c \notin gone[b]
      /\ r.pc = "save" => c \in gone[b]
  BY <1>4, <1>5, <1>7 DEF BindOrSave
<1> HIDE DEF r, gone, rest
<1>9. Looked(r, links', supported')
  BY <1>1, <1>2, <1>7, <1>8, NowFacts DEF Looked, Looking
<1>10. Bound(r, links', cache')
  BY <1>2, <1>3, <1>4, <1>5, <1>6, <1>7, <1>8, NowFacts DEF Bound, Binding
<1> QED
  BY <1>1, <1>9, <1>10, NowFacts DEF Sure

LEMMA BindSure ==
  ASSUME NEW t \in Tasks, SureNow(t),
         \/ PatchCardUids(t) \/ LinkTag(t) \/ LinkTagConflict(t) \/ LinkTagRefused(t) \/ MoveTag(t)
  PROVE  Sure(task'[t], links', cache', supported')
<1> DEFINE c == task[t].call.card
           b == task[t].byId.id
<1>1. /\ task[t].pc \in {"bind", "moveTag", "bindAgain"} /\ UNCHANGED <<cache, supported>>
      /\ c \in Cards /\ b \in Spools /\ task[t].byId # None /\ c # None
  BY BindAsked, NowFacts DEF At, PatchCardUids, LinkTag, LinkTagConflict, LinkTagRefused, MoveTag,
     Local, SureNow, GoodTask, Control
<1>2. /\ \A s \in Listed \ {b} : c \notin links[s]
      /\ c \notin links[b] /\ task[t].spool = b /\ task[t].ok
      /\ Native => ~old
  BY <1>1, NowFacts DEF Bound, Binding, Looked, SureNow, ServerInv
<1>3. CASE PatchCardUids(t) \/ LinkTag(t)
  <2> DEFINE r == AfterBind(t)
             new == Tagged(b, c)
  <2>1. Become(t, r) /\ links' = new
    <3>1. links' = new
      BY <1>3, BoundSameBut DEF SureNow, PatchCardUids, LinkTag, At
    <3> QED
      BY <1>3, <3>1 DEF PatchCardUids, LinkTag
  <2>2. c \in new[b] /\ \A s \in Listed \ {b} : c \notin new[s]
    BY <1>1, <1>2, NowFacts DEF Tagged
  <2>3. /\ r.pc = "save" /\ r.ok = task[t].ok /\ r.call = task[t].call /\ r.byCard = task[t].byCard
        /\ r.spool = b /\ r.byId = task[t].byId
    BY <1>2, NowFacts DEF AfterBind, Task
  <2> HIDE DEF r, new
  <2>4. Looked(r, links', supported')
    BY <1>1, <1>2, <2>3, NowFacts DEF Looked, Looking
  <2>5. Bound(r, links', cache')
    BY <1>1, <2>1, <2>2, <2>3, NowFacts DEF Bound, Binding
  <2> QED
    BY <2>1, <2>4, <2>5, NowFacts DEF Sure
<1>4. CASE LinkTagConflict(t)
  <2>1. PICK h \in Holders(c) \ {b} : Become(t, [task[t] EXCEPT !.pc = "moveTag", !.holder = h])
    BY <1>4 DEF LinkTagConflict
  <2> DEFINE r == [task[t] EXCEPT !.pc = "moveTag", !.holder = h]
  <2>2. UNCHANGED links /\ Native /\ c \in links[h]
    BY <1>4 DEF LinkTagConflict, Local, server, Holders
  <2>3. /\ r.pc = "moveTag" /\ r.ok = task[t].ok /\ r.call = task[t].call /\ r.byCard = task[t].byCard
        /\ r.spool = b /\ r.byId = task[t].byId /\ r.holder = h
    BY <1>2, NowFacts DEF Task
  <2> HIDE DEF r
  <2>4. Looked(r, links', supported')
    BY <1>1, <1>2, <2>3, NowFacts DEF Looked, Looking
  <2>5. Bound(r, links', cache')
    BY <1>1, <1>2, <2>2, <2>3, NowFacts DEF Bound, Binding
  <2> QED
    BY <2>1, <2>4, <2>5, NowFacts DEF Sure, r
<1>5. ~LinkTagRefused(t)
  <2>1. task[t].pc = "bindAgain" => Holders(c) = {}
    BY <1>1, NowFacts DEF Bound, Binding, Holders
  <2> QED
    BY <1>2, <2>1 DEF LinkTagRefused, At
<1>6. CASE MoveTag(t)
  <2> DEFINE h == task[t].holder
             r == [task[t] EXCEPT !.pc = "bindAgain", !.holder = None]
             new == [links EXCEPT ![h] = @ \ {c}]
  <2>1. Become(t, r) /\ links' = new /\ task[t].pc = "moveTag"
    BY <1>6 DEF MoveTag, At
  <2>2. Native /\ h \in Spools /\ c \in links[h]
    BY <1>1, <2>1, NowFacts DEF Bound, Binding, GoodTask, Control
  <2>3. \A s \in Spools : c \notin new[s]
    BY <2>2, NowFacts DEF SureNow, ServerInv, OneHolder
  <2>4. /\ r.pc = "bindAgain" /\ r.ok = task[t].ok /\ r.call = task[t].call /\ r.byCard = task[t].byCard
        /\ r.spool = b /\ r.byId = task[t].byId
    BY <1>2, NowFacts DEF Task
  <2> HIDE DEF r, new
  <2>5. Looked(r, links', supported')
    BY <1>1, <1>2, <2>4, NowFacts DEF Looked, Looking
  <2>6. Bound(r, links', cache')
    BY <1>1, <2>1, <2>3, <2>4, NowFacts DEF Bound, Binding
  <2> QED
    BY <2>1, <2>5, <2>6, NowFacts DEF Sure
<1> QED
  BY <1>3, <1>4, <1>5, <1>6

LEMMA EndSure ==
  ASSUME NEW t \in Tasks, SureNow(t), SaveCache(t) \/ Push(t)
  PROVE  Sure(task'[t], links', cache', supported')
<1> DEFINE c == task[t].call.card
<1>1. CASE SaveCache(t)
  <2> DEFINE r == [task[t] EXCEPT !.pc = "push", !.byId = None]
  <2>1. /\ Become(t, r) /\ UNCHANGED <<links, supported>> /\ task[t].pc = "save"
        /\ cache' = IF c # None /\ task[t].ok THEN [cache EXCEPT ![c] = task[t].spool] ELSE cache
    BY <1>1 DEF SaveCache, At, server
  <2>2. task[t].ok /\ (c # None => c \in Cards)
    BY <2>1, NowFacts DEF Looked, Call
  <2>3. /\ r.pc = "push" /\ r.call = task[t].call /\ r.byCard = task[t].byCard
        /\ r.spool = task[t].spool
    BY NowFacts DEF Task
  <2> HIDE DEF r
  <2>4. Looked(r, links, supported)
    BY <2>3, NowFacts DEF Looked, Looking
  <2>5. c # None => cache'[c] = task[t].spool
    BY <2>1, <2>2, NowFacts
  <2>6. Bound(r, links, cache')
    BY <2>1, <2>3, <2>5, NowFacts DEF Bound, Binding
  <2> QED
    BY <2>1, <2>4, <2>6, NowFacts DEF Sure
<1>2. CASE Push(t)
  <2>1. Become(t, Idle)
    BY <1>2 DEF Push
  <2>2. Sure(Idle, links', cache', supported')
    BY DEF Sure, Looked, Bound, Looking, Binding, Idle, NoCall
  <2> QED
    BY <2>1, <2>2, NowFacts
<1> QED
  BY <1>1, <1>2

LEMMA StepSure ==
  ASSUME IInv, ServerInv, Quiet', NEW t \in Tasks, Fresh(task[t], links),
         Quiet => Sure(task[t], links, cache, supported), Step(t)
  PROVE  Quiet /\ Sure(task'[t], links', cache', supported')
<1>1. ~Fault /\ UNCHANGED budget
  <2>1. ~Fault
    BY SpoolLinkAssumption DEF Fault, Quiet, ServerInv, IInv, TypeOK
  <2> QED
    BY <2>1, StepFrame
<1>2. Quiet
  BY <1>1 DEF Quiet
<1>3. CASE task[t].call.kind = "resolve"
  <2>1. SureNow(t)
    BY <1>2, <1>3 DEF SureNow
  <2>2. ~DeleteCache(t) /\ ~UnlinkDone(t)
    BY <2>1, NowFacts DEF DeleteCache, UnlinkDone, At, Looked
  <2>3. \/ CheckTagApi(t) \/ GetById(t) \/ FindByCard(t)
        \/ DecideAmbiguous(t) \/ DecideById(t) \/ DecideByCard(t) \/ DecideNone(t)
        \/ Unbind(t) \/ PatchCardUids(t)
        \/ LinkTag(t) \/ LinkTagConflict(t) \/ LinkTagRefused(t)
        \/ MoveTag(t) \/ SaveCache(t) \/ Push(t)
    BY <1>1, <2>2 DEF Step, CheckTagApiFails, GetByIdFails, FindByCardFails, UnbindFails,
       PatchCardUidsFails, LinkTagFails, MoveTagFails, PushFails
  <2> QED
    BY <1>2, <2>1, <2>3, LookupSure, DecideSure, UnbindSure, BindSure, EndSure
<1>4. CASE task[t].call.kind # "resolve"
  <2>1. task'[t].call = task[t].call \/ task'[t] = Idle
    BY Goes
  <2>2. Sure(Idle, links', cache', supported')
    BY DEF Sure, Looked, Bound, Looking, Binding, Idle, NoCall
  <2> QED
    BY <1>2, <1>4, <2>1, <2>2 DEF Sure
<1> QED
  BY <1>3, <1>4

(* Coroutine r is changing the links of card c. *)
Rebinding(r, c) == r.call.kind = "resolve" /\ r.pc \in Binding /\ r.call.card = c

Cached ==
  \A c \in Cards : cache[c] # None =>
    c \in links[cache[c]] \/ \E t \in Tasks : Rebinding(task[t], c)

SureInv ==
  /\ ServerInv
  /\ Quiet => /\ \A t \in Tasks : Sure(task[t], links, cache, supported)
              /\ Cached

(* With native tags a tag is only given to a spool when nobody holds it. *)
LEMMA StepOneHolder ==
  ASSUME IInv, OneHolder, NEW t \in Tasks, Step(t)
  PROVE  OneHolder'
<1> SUFFICES ASSUME Native PROVE \A s, u \in Spools : s # u => links'[s] \cap links'[u] = {}
  BY DEF OneHolder
<1> USE DEF IInv, TypeOK, OneHolder
<1>1. CASE Unbind(t) \/ UnbindFails(t)
  <2>1. PICK x \in task[t].todo : links' \in {links, Removed(x, task[t].call.card)}
    BY <1>1, UnbindTask
  <2>2. \A s \in Spools : links'[s] \subseteq links[s]
    BY <2>1 DEF Removed
  <2> QED
    BY <2>2
<1>2. CASE LinkTag(t) \/ LinkTagFails(t)
  <2> DEFINE b == task[t].byId.id
             c == task[t].call.card
  <2>1. links' = links \/ (Holders(c) = {} /\ links' = Tagged(b, c))
    BY <1>2 DEF LinkTag, LinkTagFails
  <2>2. \A s \in Spools : links'[s] = links[s]
          \/ (s = b /\ links'[s] = links[s] \cup {c} /\ \A u \in Spools : c \notin links[u])
    BY <2>1 DEF Tagged, Holders
  <2>3. \A s, u \in Spools : s # u => links[s] \cap links[u] = {}
    OBVIOUS
  <2> HIDE DEF IInv, TypeOK, OneHolder, b, c
  <2> QED
    BY <2>2, <2>3
<1>3. CASE MoveTag(t) \/ MoveTagFails(t)
  <2>1. \A s \in Spools : links'[s] \subseteq links[s]
    BY <1>3 DEF MoveTag, MoveTagFails
  <2> QED
    BY <2>1
<1>4. CASE UNCHANGED links
  BY <1>4
<1> QED
  BY <1>1, <1>2, <1>3, <1>4, StepFrame DEF PatchCardUids, PatchCardUidsFails

LEMMA StepServer ==
  ASSUME IInv, ServerInv, NEW t \in Tasks, Step(t)
  PROVE  ServerInv'
<1>1. budget'.faults \in Nat /\ budget'.faults <= MaxFaults
  BY StepFrame, SpoolLinkAssumption DEF ServerInv, Fault, IInv, TypeOK
<1>2. supported' => ~old'
  <2>1. supported' = supported \/ supported' = ~old
    BY StepFrame
  <2>2. old' = old
    BY StepFrame
  <2> QED
    BY <2>1, <2>2, Zenon DEF ServerInv
<1> QED
  BY <1>1, <1>2, StepOneHolder DEF ServerInv

(* Where the card itself may leave the agreement of cache and links. *)
LEMMA OwnCard ==
  ASSUME IInv, NEW t \in Tasks, Fresh(task[t], links), Unlinking(task[t], cache, links),
         Sure(task[t], links, cache, supported), Step(t), ~Fault,
         task[t].call.card \in Cards,
         cache[task[t].call.card] # None =>
           \/ task[t].call.card \in links[cache[task[t].call.card]]
           \/ Rebinding(task[t], task[t].call.card)
  PROVE  cache'[task[t].call.card] # None =>
           \/ task[t].call.card \in links'[cache'[task[t].call.card]]
           \/ Rebinding(task'[t], task[t].call.card)
<1> DEFINE c == task[t].call.card
<1>1. /\ task[t] \in Task /\ GoodTask(task[t], asked) /\ c # None
      /\ task[t].call.kind \in {"resolve", "unlink"}
      /\ cache \in [Cards -> Spools \cup {None}]
  BY SpoolLinkAssumption DEF IInv, TypeOK, Task, Call
<1>2. \A r : Become(t, r) => task'[t] = r
  BY DEF Become, IInv, TypeOK
<1>3. CASE task[t].pc \in Binding \ {"save"} /\ task[t].call.kind = "resolve"
  <2> DEFINE x == CHOOSE y \in task[t].todo : TRUE
  <2>1. task'[t].pc \in Binding
    <3>1. /\ \A y, ok : AfterUnbind(t, y, ok).pc \in Binding
          /\ AfterBind(t).pc \in Binding
          /\ \A pc \in Binding : \A h : [task[t] EXCEPT !.pc = pc, !.holder = h].pc \in Binding
          /\ [task[t] EXCEPT !.pc = "bind", !.tries = @ + 1].pc \in Binding
      BY <1>1, <1>3 DEF AfterUnbind, BindOrSave, AfterBind, Binding, Task
    <3>2. CASE Unbind(t)
      BY <1>2, <3>1, <3>2 DEF Unbind
    <3>3. CASE PatchCardUids(t) \/ LinkTag(t)
      BY <1>2, <3>1, <3>3 DEF PatchCardUids, LinkTag
    <3>4. CASE LinkTagConflict(t) \/ MoveTag(t)
      <4>1. "moveTag" \in Binding /\ "bindAgain" \in Binding
        BY DEF Binding
      <4>2. \E pc \in Binding : \E h : Become(t, [task[t] EXCEPT !.pc = pc, !.holder = h])
        BY <3>4, <4>1 DEF LinkTagConflict, MoveTag
      <4> QED
        BY <1>2, <3>1, <4>2
    <3>5. CASE LinkTagRefused(t)
      BY <1>2, <3>1, <3>5 DEF LinkTagRefused, RetryOr
    <3> QED
      BY <1>3, <3>2, <3>3, <3>4, <3>5 DEF Step, At, Binding, CheckTagApi, CheckTagApiFails,
         DeleteCache, GetById, GetByIdFails, FindByCard, FindByCardFails, DecideAmbiguous,
         DecideById, DecideByCard, DecideNone, UnbindFails, PatchCardUidsFails, LinkTagFails,
         MoveTagFails, SaveCache, Push, PushFails, UnlinkDone
  <2>2. task'[t].call = task[t].call
    BY <1>3, Goes DEF Binding, UnlinkDone, At
  <2> QED
    BY <1>3, <2>1, <2>2 DEF Rebinding
<1>4. CASE task[t].pc = "save"
  <2>1. /\ task[t].ok /\ c \in links[task[t].spool]
    BY <1>1, <1>4 DEF Sure, Looked, Bound, GoodTask, Control
  <2>2. SaveCache(t)
    BY <1>4 DEF Step, At, CheckTagApi, CheckTagApiFails,
         DeleteCache, GetById, GetByIdFails, FindByCard, FindByCardFails, DecideAmbiguous,
         DecideById, DecideByCard, DecideNone, Unbind, UnbindFails, PatchCardUids, PatchCardUidsFails,
         LinkTag, LinkTagConflict, LinkTagRefused, LinkTagFails, MoveTag,
         MoveTagFails, SaveCache, Push, PushFails, UnlinkDone
  <2> QED
    BY <1>1, <2>1, <2>2 DEF SaveCache, server
<1>5. CASE task[t].pc \notin Binding
  <2>1. /\ UNCHANGED links
        /\ DeleteCache(t) \/ DecideNone(t) \/ UNCHANGED cache
    BY <1>5, StepFrame DEF Binding, At, Unbind, UnbindFails, PatchCardUids, PatchCardUidsFails,
       LinkTag, LinkTagFails, MoveTag, MoveTagFails, SaveCache
  <2>2. cache'[c] = None \/ cache'[c] = cache[c]
    BY <1>1, <2>1 DEF DeleteCache, DecideNone
  <2> QED
    BY <1>5, <2>1, <2>2 DEF Rebinding
<1>6. CASE task[t].pc \in Binding \ {"save"} /\ task[t].call.kind = "unlink"
  <2>1. task[t].pc = "unbind"
    BY <1>1, <1>6 DEF Binding, GoodTask, Control
  <2>2. cache[c] = None
    BY <1>6, <2>1 DEF Unlinking
  <2>3. UNCHANGED cache
    BY <2>1, StepFrame DEF DeleteCache, DecideNone, SaveCache, At
  <2> QED
    BY <2>2, <2>3
<1> QED
  BY <1>1, <1>3, <1>4, <1>5, <1>6 DEF Binding

LEMMA StepCached ==
  ASSUME OneAtATime, IInv, AllFresh, ClearInv, SureInv, Quiet, NEW t \in Tasks, Step(t), ~Fault
  PROVE  Cached'
<1> SUFFICES ASSUME NEW c \in Cards, cache'[c] # None
             PROVE  c \in links'[cache'[c]] \/ Rebinding(task'[t], c)
  BY DEF Cached
<1>1. /\ Fresh(task[t], links) /\ Unlinking(task[t], cache, links)
      /\ Sure(task[t], links, cache, supported)
      /\ cache[c] # None => c \in links[cache[c]] \/ Rebinding(task[t], c)
      /\ cache \in [Cards -> Spools \cup {None}] /\ links \in [Spools -> SUBSET Cards]
  BY DEF AllFresh, ClearInv, SureInv, Cached, OneAtATime, IInv, TypeOK
<1>2. CASE c = task[t].call.card
  BY <1>1, <1>2, OwnCard
<1>3. CASE c # task[t].call.card
  <2>1. cache'[c] = cache[c] /\ \A s \in Spools : c \in links[s] => c \in links'[s]
    BY <1>1, <1>3, OtherCards DEF SameBut
  <2>2. ~Rebinding(task[t], c)
    BY <1>3 DEF Rebinding
  <2> QED
    BY <1>1, <2>1, <2>2
<1> QED
  BY <1>2, <1>3

LEMMA StepSureInv ==
  ASSUME OneAtATime, IInv, AllFresh, ClearInv, SureInv, NEW t \in Tasks, Step(t)
  PROVE  SureInv'
<1>1. Fresh(task[t], links) /\ (Quiet => Sure(task[t], links, cache, supported)) /\ ServerInv
  BY DEF AllFresh, SureInv
<1>2. ServerInv'
  BY <1>1, StepServer
<1>3. ASSUME Quiet'
      PROVE  (\A u \in Tasks : Sure(task'[u], links', cache', supported')) /\ Cached'
  <2>1. Quiet /\ Sure(task'[t], links', cache', supported')
    BY <1>1, <1>3, StepSure
  <2>2. ~Fault
    BY <1>1, <1>3 DEF Fault, Quiet, ServerInv, IInv, TypeOK
  <2>3. Cached'
    BY <2>1, <2>2, StepCached
  <2> QED
    BY <2>1, <2>3 DEF OneAtATime
<1> QED
  BY <1>2, <1>3 DEF SureInv

LEMMA CallSureInv ==
  ASSUME OneAtATime, IInv, SureInv, NEW ch \in Channels, CallStep(ch)
  PROVE  SureInv'
<1>1. /\ UNCHANGED <<links, old, supported, cache>> /\ budget'.faults = budget.faults
  BY CallTask
<1>2. ServerInv' /\ (Quiet' => Quiet)
  BY <1>1 DEF SureInv, ServerInv, OneHolder, Quiet
<1>3. CASE UNCHANGED task
  BY <1>1, <1>2, <1>3 DEF SureInv, Cached
<1>4. ASSUME NEW t \in Tasks, NEW call \in Call, task[t].pc = "idle", Become(t, Fired(call))
      PROVE  SureInv'
  <2> DEFINE r == Fired(call)
  <2>1. \A u \in Tasks : u = t /\ task'[u] = r
    BY <1>4, OneTask
  <2>2. /\ r.call = call /\ r.byCard = {} /\ r.spool = None /\ r.byId = None /\ r.ok = TRUE
        /\ r.pc = FirstAwait(call)
    BY DEF Fired, Idle
  <2>3. /\ FirstAwait(call) \in {"check", "erase", "getById", "findByCard"}
        /\ call.kind = "resolve" => FirstAwait(call) # "erase"
        /\ FirstAwait(call) = "findByCard" => call.spool = None
        /\ Native /\ call.card # None /\ FirstAwait(call) # "check" => supported
    BY DEF FirstAwait, Checked, Call
  <2> HIDE DEF r
  <2>4. None \notin Stored
    BY SpoolLinkAssumption
  <2>5. Sure(r, links, cache, supported)
    BY <2>2, <2>3, <2>4 DEF Sure, Looked, Bound, Looking, Binding
  <2>6. ASSUME Quiet PROVE Cached'
    <3>1. \A c \in Cards : ~Rebinding(task[t], c)
      BY <1>4 DEF Rebinding, Binding
    <3> QED
      BY <1>1, <2>1, <2>6, <3>1 DEF SureInv, Cached
  <2> QED
    BY <1>1, <1>2, <2>1, <2>5, <2>6 DEF SureInv
<1> QED
  BY <1>3, <1>4, CallTask

LEMMA EnvSureInv ==
  ASSUME IInv, SureInv, EnvStep
  PROVE  SureInv'
<1>1. CASE Upgrade
  BY <1>1 DEF Upgrade, SureInv, ServerInv, OneHolder, Quiet, Cached
<1>2. CASE Reconnect
  <2>1. budget'.faults = budget.faults - 1 /\ budget.faults > 0
    BY <1>2 DEF Reconnect, IInv, TypeOK
  <2>2. budget'.faults \in Nat /\ budget'.faults <= MaxFaults /\ ~Quiet'
    BY <2>1, SpoolLinkAssumption DEF SureInv, ServerInv, Quiet
  <2> QED
    BY <1>2, <2>2 DEF Reconnect, server, SureInv, ServerInv, OneHolder
<1>3. CASE UNCHANGED vars
  BY <1>3 DEF vars, SureInv, ServerInv, OneHolder, Quiet, Cached
<1>4. ASSUME NEW ch \in Channels, NEW c \in Cards \cup {None}, Scan(ch, c) PROVE SureInv'
  <2>1. budget'.faults = budget.faults
    BY <1>4 DEF Scan, IInv, TypeOK
  <2> QED
    BY <1>4, <2>1 DEF Scan, server, SureInv, ServerInv, OneHolder, Quiet, Cached
<1> QED
  BY <1>1, <1>2, <1>3, <1>4 DEF EnvStep

LEMMA InitSureInv == Init => SureInv
<1> SUFFICES ASSUME Init PROVE SureInv
  OBVIOUS
<1>1. ServerInv
  <2>1. supported => ~old
    <3>1. supported = FALSE \/ supported = (Native /\ ~old)
      BY DEF Init
    <3> QED
      BY <3>1, Zenon
  <2>2. budget.faults \in Nat /\ budget.faults <= MaxFaults
    BY SpoolLinkAssumption DEF Init
  <2> QED
    BY <2>1, <2>2 DEF Init, ServerInv, OneHolder
<1>2. \A t \in Tasks : Sure(task[t], links, cache, supported)
  BY DEF Init, Sure, Looked, Bound, Looking, Binding, Idle, NoCall
<1>3. Cached
  BY DEF Init, Cached
<1> QED
  BY <1>1, <1>2, <1>3 DEF SureInv

LEMMA OneCallInductive ==
  ASSUME OneAtATime
  PROVE  Spec => [](IInv /\ SureInv)
<1>1. IInv /\ AllFresh /\ ClearInv /\ [Next]_vars => ClearInv'
  BY NextClear
<1>2. IInv /\ AllFresh /\ ClearInv /\ SureInv /\ [Next]_vars => SureInv'
  BY StepSureInv, CallSureInv, EnvSureInv DEF Next, EnvStep, CallStep
<1> QED
  BY Inductive, OneInductive, InitClear, InitSureInv, <1>1, <1>2, PTL DEF Spec

(* When a named spool is about to be applied and nothing failed, the card  *)
(* is on that spool, on no other listed one, and cached for it: in either  *)
(* store, whatever was linked before, when calls run one at a time.        *)
THEOREM OneCallBinds ==
  ASSUME OneAtATime
  PROVE  Spec => []AssignedCardIsBound
<1>1. IInv /\ SureInv => AssignedCardIsBound
  BY DEF IInv, GoodTask, Control, SureInv, Sure, Bound, AssignedCardIsBound, NoFaults, Quiet, At
<1> QED
  BY OneCallInductive, <1>1, PTL

(* Between calls, as long as nothing failed, the cache says of no card     *)
(* what Spoolman does not: in either store, when calls run one at a time.  *)
THEOREM OneCallCaches ==
  ASSUME OneAtATime
  PROVE  Spec => []CacheAgrees
<1>1. SureInv => CacheAgrees
  BY DEF SureInv, Cached, Rebinding, Binding, CacheAgrees, NoFaults, Quiet, At
<1> QED
  BY OneCallInductive, <1>1, PTL

(* With native tags no card is ever on two spools, however calls interleave *)
(* and whatever fails: a 409 answers the second one. (With card_uids an     *)
(* archived spool keeps the card while it is bound to another.)             *)
THEOREM NativeOneSpoolPerCard ==
  ASSUME Native
  PROVE  Spec => []OneSpoolPerCard
<1>1. Init => OneHolder
  BY DEF Init, OneHolder
<1>2. IInv /\ OneHolder /\ [Next]_vars => OneHolder'
  <2> SUFFICES ASSUME IInv, OneHolder, [Next]_vars PROVE OneHolder'
    OBVIOUS
  <2>1. CASE EnvStep
    BY <2>1 DEF EnvStep, Scan, Upgrade, Reconnect, vars, server, OneHolder
  <2>2. ASSUME NEW ch \in Channels, CallStep(ch) PROVE OneHolder'
    BY <2>2, CallTask DEF OneHolder
  <2> QED
    BY <2>1, <2>2, StepOneHolder DEF Next, EnvStep, CallStep
<1>3. OneHolder => OneSpoolPerCard
  <2> SUFFICES ASSUME OneHolder, NEW c \in Cards PROVE Cardinality(Holders(c)) <= 1
    BY DEF OneSpoolPerCard
  <2>1. CASE Holders(c) = {}
    BY <2>1, FS_EmptySet
  <2>2. CASE Holders(c) # {}
    <3>1. PICK s : s \in Holders(c)
      BY <2>2
    <3>2. Holders(c) = {s}
      BY <3>1 DEF Holders, OneHolder
    <3>3. Cardinality({s}) = 1
      BY FS_Singleton
    <3> QED
      BY <3>2, <3>3
  <2> QED
    BY <2>1, <2>2
<1> QED
  BY Inductive, <1>1, <1>2, <1>3, PTL DEF Spec
================================================================================
