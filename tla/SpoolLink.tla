------------------------------- MODULE SpoolLink -------------------------------
(***************************************************************************)
(* The SpoolLink Moonraker component: resolve a Spoolman spool for the     *)
(* card on an extruder channel, bind and unbind cards, and apply the spool *)
(* to Klipper. Every REST request suspends the coroutine, so calls         *)
(* interleave between requests: each action below is what happens from     *)
(* one request to the next, the server's part of the request included.     *)
(* What a coroutine read before a request it still uses after it (byId,    *)
(* byCard).                                                                *)
(***************************************************************************)
EXTENDS Naturals, FiniteSets

CONSTANTS
  Spools,     \* spool ids a user may name
  Stored,     \* those Spoolman has
  Listed,     \* those its list requests return (not archived)
  Cards,      \* RFID cards, by UID
  Channels,   \* extruder channels
  Tasks,      \* coroutines that can be in flight together
  None,       \* no spool, no card, unknown
  Native,     \* tag_store: native tags (TRUE) or the card_uids field (FALSE)
  MayBeOld,   \* Spoolman may still be older than v0.27.0 at the start
  Retries,    \* attempts after the first, 3 in the code
  MaxFaults, MaxCalls, MaxScans   \* bounds on the environment

ASSUME SpoolLinkAssumption ==
  /\ Stored \subseteq Spools
  /\ Listed \subseteq Stored
  /\ None \notin Spools \cup Cards \cup Tasks
  /\ None \notin [id : Spools, uids : SUBSET Cards]
  /\ None \notin [card : Cards, spool : Spools \cup {None}]
  /\ Channels # {}
  /\ {Native, MayBeOld} \subseteq BOOLEAN
  /\ {Retries, MaxFaults, MaxCalls, MaxScans} \subseteq Nat

VARIABLES
  links,      \* Spoolman: the cards each spool holds in the selected store
  old,        \* Spoolman: still older than v0.27.0
  supported,  \* _tag_api_supported: known to have native tags
  cache,      \* cache_dir: the spool saved for each card
  reader,     \* Klipper filament_detect: card and CARD_EVENT_TIME per channel
  seen,       \* _channel_event_times
  ptc,        \* Klipper print_task_config: the spool applied per channel; the card
              \* it was applied for is kept for the properties only
  task,       \* the coroutines
  budget,     \* environment events left: faults, calls, scans
  asked,      \* history: <<card, spool>> linked at the start or asked for since
  clearing,   \* history: the unlink in flight that is a card's last request
  cleared     \* history: cards whose last request was an unlink that is done

server == <<links, old>>
klipper == <<reader, ptc>>
history == <<asked, clearing, cleared>>
vars == <<links, old, supported, cache, reader, seen, ptc, task, budget,
          asked, clearing, cleared>>

Snapshot == [id : Spools, uids : SUBSET Cards]

(* The snapshot of a spool an answer carries. *)
Snap(s) == [id |-> s, uids |-> links[s]]

(* Arguments of a remote method: "resolve" is _resolve_spool and "unlink"  *)
(* _unlink_card.                                                           *)
Call == [kind : {"resolve", "unlink"}, chan : Channels,
         spool : Spools \cup {None}, card : Cards \cup {None}]

NoCall == [kind |-> "resolve", chan |-> CHOOSE ch \in Channels : TRUE,
           spool |-> None, card |-> None]

(* Where a coroutine is suspended; "decide", "erase", "save" and "done"    *)
(* are local code that touches the cache or the history.                   *)
Label == {"idle", "check", "erase", "getById", "findByCard", "decide",
          "unbind", "bind", "moveTag", "bindAgain", "save", "push", "done"}

Task == [pc : Label, call : Call, tries : 0 .. Retries, ok : BOOLEAN,
         byId : Snapshot \cup {None}, byCard : SUBSET Snapshot,
         todo : SUBSET Snapshot, holder : Spools \cup {None},
         spool : Spools \cup {None}]

Idle == [pc |-> "idle", call |-> NoCall, tries |-> 0, ok |-> TRUE,
         byId |-> None, byCard |-> {}, todo |-> {}, holder |-> None,
         spool |-> None]

TypeOK ==
  /\ links \in [Spools -> SUBSET Cards]
  /\ old \in BOOLEAN
  /\ supported \in BOOLEAN
  /\ cache \in [Cards -> Spools \cup {None}]
  /\ reader \in [Channels -> [card : Cards \cup {None}, time : Nat]]
  /\ seen \in [Channels -> Nat]
  /\ ptc \in [Channels -> [spool : Spools \cup {None}, card : Cards \cup {None}]]
  /\ task \in [Tasks -> Task]
  /\ budget \in [faults : Nat, calls : Nat, scans : Nat]
  /\ asked \in SUBSET (Cards \X Spools)
  /\ clearing \in [Cards -> Tasks \cup {None}]
  /\ cleared \in SUBSET Cards

NoFilament == [spool |-> None, card |-> None]

(* Moonraker starts beside a running Klipper that may have read cards, and *)
(* with any links in Spoolman in which no card is on two spools. An older  *)
(* server has no native tags. component_init has asked for its version,    *)
(* and may not have been answered.                                         *)
Init ==
  /\ links \in [Spools -> SUBSET Cards]
  /\ \A s \in Spools \ Stored : links[s] = {}
  /\ \A s1, s2 \in Spools : s1 # s2 => links[s1] \cap links[s2] = {}
  /\ old \in {FALSE, MayBeOld}
  /\ Native /\ old => \A s \in Spools : links[s] = {}
  /\ supported \in {FALSE, Native /\ ~old}
  /\ cache = [c \in Cards |-> None]
  /\ \E f \in [Channels -> Cards \cup {None}] :
       reader = [ch \in Channels |-> [card |-> f[ch], time |-> IF f[ch] = None THEN 0 ELSE 1]]
  /\ seen = [ch \in Channels |-> 0]
  /\ ptc = [ch \in Channels |-> NoFilament]
  /\ task = [t \in Tasks |-> Idle]
  /\ budget = [faults |-> MaxFaults, calls |-> MaxCalls, scans |-> MaxScans]
  /\ asked = {p \in Cards \X Spools : p[1] \in links[p[2]]}
  /\ clearing = [c \in Cards |-> None]
  /\ cleared = {}

--------------------------------------------------------------------------------
(* Environment                                                             *)

(* A reader reports a card, or that it is gone. A report for a channel     *)
(* with an applied (official) filament replaces it by one with no spool.   *)
Scan(ch, c) ==
  /\ budget.scans > 0
  /\ budget' = [budget EXCEPT !.scans = @ - 1]
  /\ reader' = [reader EXCEPT ![ch] = [card |-> c, time |-> MaxScans - budget.scans + 2]]
  /\ ptc' = [ptc EXCEPT ![ch] = NoFilament]
  /\ UNCHANGED <<server, supported, cache, seen, task, history>>

(* Spoolman is upgraded to a version with native tags. *)
Upgrade ==
  /\ old
  /\ old' = FALSE
  /\ UNCHANGED <<links, supported, cache, klipper, seen, task, budget, history>>

(* Moonraker loses Klipper and connects again: every card counts as new.   *)
Reconnect ==
  /\ budget.faults > 0
  /\ budget' = [budget EXCEPT !.faults = @ - 1]
  /\ seen' = [ch \in Channels |-> 0]
  /\ UNCHANGED <<server, supported, cache, klipper, task, history>>

--------------------------------------------------------------------------------
(* Starting a coroutine                                                    *)

(* The first await of a call whose tag API check passed. *)
Checked(call) ==
  IF call.kind = "unlink" THEN "erase"
  ELSE IF call.spool # None THEN "getById" ELSE "findByCard"

FirstAwait(call) ==
  IF call.card # None /\ Native /\ ~supported THEN "check" ELSE Checked(call)

Fire(t, call) ==
  /\ task[t].pc = "idle"
  /\ task' = [task EXCEPT ![t] = [Idle EXCEPT !.pc = FirstAwait(call), !.call = call]]

(* A status update carries a card event later than the last one handled.   *)
HandleDetect(ch) ==
  LET card == reader[ch].card IN
  /\ reader[ch].time > seen[ch]
  /\ seen' = [seen EXCEPT ![ch] = reader[ch].time]
  /\ IF card = None
     THEN UNCHANGED task
     ELSE \E t \in Tasks :
            Fire(t, [kind |-> "resolve", chan |-> ch, spool |-> None, card |-> card])
  /\ UNCHANGED <<server, supported, cache, klipper, budget, history>>

(* SET_SPOOL_ID CHANNEL=ch SPOOL_ID=s, with the card on the channel.       *)
SetSpoolId(ch, s) ==
  LET card == reader[ch].card IN
  /\ budget.calls > 0
  /\ budget' = [budget EXCEPT !.calls = @ - 1]
  /\ \E t \in Tasks : Fire(t, [kind |-> "resolve", chan |-> ch, spool |-> s, card |-> card])
  /\ asked' = IF card = None THEN asked ELSE asked \cup {<<card, s>>}
  /\ clearing' = [c \in Cards |-> IF c = card THEN None ELSE clearing[c]]
  /\ cleared' = cleared \ {card}
  /\ UNCHANGED <<server, supported, cache, klipper, seen>>

(* SET_SPOOL_ID CHANNEL=ch SPOOL_ID=0 clears the channel, and unlinks the  *)
(* card on it if there is one.                                             *)
ClearSpoolId(ch) ==
  LET card == reader[ch].card IN
  /\ budget.calls > 0
  /\ budget' = [budget EXCEPT !.calls = @ - 1]
  /\ ptc' = [ptc EXCEPT ![ch] = NoFilament]
  /\ IF card = None
     THEN UNCHANGED <<task, history>>
     ELSE \E t \in Tasks :
            /\ Fire(t, [kind |-> "unlink", chan |-> ch, spool |-> None, card |-> card])
            /\ clearing' = [clearing EXCEPT ![card] = t]
            /\ cleared' = cleared \ {card}
            /\ UNCHANGED asked
  /\ UNCHANGED <<server, supported, cache, reader, seen>>

--------------------------------------------------------------------------------
(* Steps of a coroutine                                                    *)

At(t, label) == task[t].pc = label

Become(t, new) == task' = [task EXCEPT ![t] = new]

(* Mutant of RetryOr: one attempt too many. *)
RetryOr_OneMore(t, from, else) ==
  Become(t, IF task[t].tries <= Retries
            THEN [task[t] EXCEPT !.pc = from, !.tries = @ + 1]
            ELSE else)

(* Mutant of RetryOr: attempts are not counted. *)
RetryOr_Forever(t, from, else) ==
  Become(t, IF task[t].tries < Retries THEN [task[t] EXCEPT !.pc = from] ELSE else)

(* _retry: after a failed attempt the request is made again from label     *)
(* "from" until the attempts are used up; "else" is the error path.        *)
RetryOr(t, from, else) ==
  Become(t, IF task[t].tries < Retries
            THEN [task[t] EXCEPT !.pc = from, !.tries = @ + 1]
            ELSE else)

Fault == budget.faults > 0 /\ budget' = [budget EXCEPT !.faults = @ - 1]

Local == UNCHANGED <<server, supported, cache, klipper, seen, budget, history>>

(* _check_tag_api: an answer settles whether the server has native tags,   *)
(* an unreachable server is left to the lookup that follows.               *)
CheckTagApi(t) ==
  LET k == task[t].call.kind
      refused == IF k = "resolve" THEN "push" ELSE "done" IN
  /\ At(t, "check")
  /\ supported' = ~old
  /\ Become(t, [task[t] EXCEPT !.pc = IF old THEN refused ELSE Checked(task[t].call),
                               !.ok = ~old])
  /\ UNCHANGED <<server, cache, klipper, seen, budget, history>>

CheckTagApiFails(t) ==
  /\ At(t, "check")
  /\ Fault
  /\ Become(t, [task[t] EXCEPT !.pc = Checked(task[t].call)])
  /\ UNCHANGED <<server, supported, cache, klipper, seen, history>>

(* Mutant of DeleteCache: the cache file outlives the unlink. *)
DeleteCache_Kept(t) ==
  /\ At(t, "erase")
  /\ Become(t, [task[t] EXCEPT !.pc = "findByCard"])
  /\ Local

(* _unlink_card deletes the cache file before it looks the card up.        *)
DeleteCache(t) ==
  /\ At(t, "erase")
  /\ cache' = [cache EXCEPT ![task[t].call.card] = None]
  /\ Become(t, [task[t] EXCEPT !.pc = "findByCard"])
  /\ UNCHANGED <<server, supported, klipper, seen, budget, history>>

AfterGet(t, got, ok) ==
  [task[t] EXCEPT !.byId = got, !.ok = ok, !.tries = 0,
                  !.pc = IF task[t].call.card # None THEN "findByCard" ELSE "decide"]

GetById(t) ==
  LET s == task[t].call.spool IN
  /\ At(t, "getById")
  /\ Become(t, AfterGet(t, IF s \in Stored THEN Snap(s) ELSE None, TRUE))
  /\ Local

GetByIdFails(t) ==
  /\ At(t, "getById")
  /\ Fault
  /\ RetryOr(t, "getById", AfterGet(t, None, FALSE))
  /\ UNCHANGED <<server, supported, cache, klipper, seen, history>>

(* Unlinking goes on to every spool found. *)
AfterFind(t, found, ok) ==
  [task[t] EXCEPT !.byCard = IF task[t].call.kind = "resolve" THEN found ELSE {},
                  !.todo = IF task[t].call.kind = "unlink" THEN found ELSE {},
                  !.ok = ok /\ @, !.tries = 0,
                  !.pc = IF task[t].call.kind = "resolve" THEN "decide"
                         ELSE IF found # {} THEN "unbind" ELSE "done"]

FindByCard(t) ==
  /\ At(t, "findByCard")
  /\ Become(t, AfterFind(t, {Snap(s) : s \in {x \in Listed : task[t].call.card \in links[x]}},
                         TRUE))
  /\ Local

FindByCardFails(t) ==
  /\ At(t, "findByCard")
  /\ Fault
  /\ RetryOr(t, "findByCard", AfterFind(t, {}, FALSE))
  /\ UNCHANGED <<server, supported, cache, klipper, seen, history>>

(* Mutant of BindOrSave: the card is never bound. *)
BindOrSave_NoBind(t) == "save"

(* Where a resolve goes once no stale spool holds the card. *)
BindOrSave(t) == IF task[t].call.card \in task[t].byId.uids THEN "save" ELSE "bind"

(* A card on several spools is refused, whether or not a spool was named.  *)
DecideAmbiguous(t) ==
  /\ At(t, "decide")
  /\ Cardinality(task[t].byCard) > 1
  /\ Become(t, [task[t] EXCEPT !.pc = "push", !.byId = None, !.byCard = {}])
  /\ Local

(* A spool was named and exists: with a card, rebind the card to it.       *)
DecideById(t) ==
  LET stale == {x \in task[t].byCard : x.id # task[t].byId.id} IN
  /\ At(t, "decide")
  /\ Cardinality(task[t].byCard) <= 1
  /\ task[t].byId # None
  /\ Become(t, [task[t] EXCEPT !.spool = task[t].byId.id, !.todo = stale, !.byCard = {},
                               !.pc = IF task[t].call.card = None THEN "save"
                                      ELSE IF stale # {} THEN "unbind"
                                      ELSE BindOrSave(t)])
  /\ Local

DecideByCard(t) ==
  /\ At(t, "decide")
  /\ task[t].byId = None
  /\ \E x \in task[t].byCard :
       /\ task[t].byCard = {x}
       /\ Become(t, [task[t] EXCEPT !.spool = x.id, !.byCard = {}, !.pc = "save"])
  /\ Local

(* No spool: fall back on the cache if Spoolman failed, forget the card    *)
(* there if Spoolman answered. Either way Klipper is told.                 *)
DecideNone(t) ==
  LET c == task[t].call.card IN
  /\ At(t, "decide")
  /\ task[t].byId = None /\ task[t].byCard = {}
  /\ IF c # None /\ task[t].ok
     THEN cache' = [cache EXCEPT ![c] = None]
     ELSE UNCHANGED cache
  /\ Become(t, IF c = None THEN Idle
               ELSE [task[t] EXCEPT !.pc = "push",
                                    !.spool = IF task[t].ok THEN None ELSE cache[c]])
  /\ UNCHANGED <<server, supported, klipper, seen, budget, history>>

(* Mutant of Removed: the tags are written back from the list read earlier. *)
Removed_WholeList(x, c) == [links EXCEPT ![x.id] = x.uids \ {c}]

(* Removing the card from the next spool: DELETE of the tag, or PATCH of   *)
(* the whole field with the list read earlier less the card.               *)
Removed(x, c) ==
  IF Native THEN [links EXCEPT ![x.id] = @ \ {c}]
            ELSE [links EXCEPT ![x.id] = x.uids \ {c}]

AfterUnbind(t, x, ok) ==
  LET rest == task[t].todo \ {x} IN
  [task[t] EXCEPT !.todo = rest, !.tries = 0, !.ok = ok,
                  !.pc = IF rest # {} THEN "unbind"
                         ELSE IF task[t].call.kind = "unlink" THEN "done"
                         ELSE BindOrSave(t)]

(* Only an unlink remembers that a removal failed. *)
UnbindGivenUp(t, x) == AfterUnbind(t, x, task[t].ok /\ task[t].call.kind = "resolve")

Unbind(t) ==
  LET x == CHOOSE y \in task[t].todo : TRUE IN
  /\ At(t, "unbind")
  /\ links' = Removed(x, task[t].call.card)
  /\ Become(t, AfterUnbind(t, x, task[t].ok))
  /\ UNCHANGED <<old, supported, cache, klipper, seen, budget, history>>

(* The request fails, before or after Spoolman carried it out.             *)
UnbindFails(t) ==
  LET x == CHOOSE y \in task[t].todo : TRUE IN
  /\ At(t, "unbind")
  /\ Fault
  /\ links' \in {links, Removed(x, task[t].call.card)}
  /\ RetryOr(t, "unbind", UnbindGivenUp(t, x))
  /\ UNCHANGED <<old, supported, cache, klipper, seen, history>>

AfterBind(t) == [task[t] EXCEPT !.pc = "save", !.tries = 0, !.holder = None]

(* The spool that holds card c as a native tag. *)
Holders(c) == {s \in Spools : c \in links[s]}

Tagged(s, c) == [links EXCEPT ![s] = @ \cup {c}]

(* Mutant of Appended: the field is set to the new card alone. *)
Appended_Overwrites(t) == [links EXCEPT ![task[t].byId.id] = {task[t].call.card}]

(* The card_uids store: PATCH of the whole field with the list read        *)
(* earlier and the card.                                                   *)
Appended(t) == [links EXCEPT ![task[t].byId.id] = task[t].byId.uids \cup {task[t].call.card}]

PatchCardUids(t) ==
  /\ ~Native
  /\ At(t, "bind")
  /\ links' = Appended(t)
  /\ Become(t, AfterBind(t))
  /\ UNCHANGED <<old, supported, cache, klipper, seen, budget, history>>

PatchCardUidsFails(t) ==
  /\ ~Native
  /\ At(t, "bind")
  /\ Fault
  /\ links' \in {links, Appended(t)}
  /\ RetryOr(t, "bind", AfterBind(t))
  /\ UNCHANGED <<old, supported, cache, klipper, seen, history>>

(* The native store: POST of the tag, answered 409 with the spool that     *)
(* holds it. A second 409 and one naming the same spool are errors, as is  *)
(* a server with no such request. A failed attempt starts over.            *)
LinkTag(t) ==
  LET s == task[t].byId.id
      c == task[t].call.card IN
  /\ Native
  /\ task[t].pc \in {"bind", "bindAgain"}
  /\ ~old /\ Holders(c) = {}
  /\ links' = Tagged(s, c)
  /\ Become(t, AfterBind(t))
  /\ UNCHANGED <<old, supported, cache, klipper, seen, budget, history>>

LinkTagConflict(t) ==
  /\ Native
  /\ At(t, "bind")
  /\ ~old
  /\ \E h \in Holders(task[t].call.card) \ {task[t].byId.id} :
       Become(t, [task[t] EXCEPT !.pc = "moveTag", !.holder = h])
  /\ Local

LinkTagRefused(t) ==
  LET c == task[t].call.card IN
  /\ Native
  /\ \/ old /\ task[t].pc \in {"bind", "bindAgain"}
     \/ At(t, "bind") /\ c \in links[task[t].byId.id]
     \/ At(t, "bindAgain") /\ Holders(c) # {}
  /\ RetryOr(t, "bind", AfterBind(t))
  /\ Local

LinkTagFails(t) ==
  LET s == task[t].byId.id
      c == task[t].call.card IN
  /\ Native
  /\ task[t].pc \in {"bind", "bindAgain"}
  /\ Fault
  /\ \/ UNCHANGED links
     \/ ~old /\ Holders(c) = {} /\ links' = Tagged(s, c)
  /\ RetryOr(t, "bind", AfterBind(t))
  /\ UNCHANGED <<old, supported, cache, klipper, seen, history>>

(* The holder gives the tag up; one that no longer has it answers 404.     *)
MoveTag(t) ==
  /\ At(t, "moveTag")
  /\ links' = [links EXCEPT ![task[t].holder] = @ \ {task[t].call.card}]
  /\ Become(t, [task[t] EXCEPT !.pc = "bindAgain", !.holder = None])
  /\ UNCHANGED <<old, supported, cache, klipper, seen, budget, history>>

MoveTagFails(t) ==
  /\ At(t, "moveTag")
  /\ Fault
  /\ links' \in {links, [links EXCEPT ![task[t].holder] = @ \ {task[t].call.card}]}
  /\ RetryOr(t, "bind", AfterBind(t))
  /\ UNCHANGED <<old, supported, cache, klipper, seen, history>>

(* Mutant of SaveCache: cached for the card the channel holds by now. *)
SaveCache_ForReader(t) ==
  LET c == reader[task[t].call.chan].card IN
  /\ At(t, "save")
  /\ cache' = IF c # None /\ task[t].ok THEN [cache EXCEPT ![c] = task[t].spool] ELSE cache
  /\ Become(t, [task[t] EXCEPT !.pc = "push", !.byId = None])
  /\ UNCHANGED <<server, supported, klipper, seen, budget, history>>

(* The spool is cached for the card when every lookup succeeded, whether   *)
(* or not the card could be bound to it.                                   *)
SaveCache(t) ==
  LET c == task[t].call.card IN
  /\ At(t, "save")
  /\ cache' = IF c # None /\ task[t].ok THEN [cache EXCEPT ![c] = task[t].spool] ELSE cache
  /\ Become(t, [task[t] EXCEPT !.pc = "push", !.byId = None])
  /\ UNCHANGED <<server, supported, klipper, seen, budget, history>>

(* spoollink/set: Klipper applies the spool to the channel, or only shows  *)
(* the error when there is none.                                           *)
Push(t) ==
  LET call == task[t].call IN
  /\ At(t, "push")
  /\ ptc' = IF task[t].spool = None THEN ptc
            ELSE [ptc EXCEPT ![call.chan] = [spool |-> task[t].spool, card |-> call.card]]
  /\ Become(t, Idle)
  /\ UNCHANGED <<server, supported, cache, reader, seen, budget, history>>

PushFails(t) ==
  /\ At(t, "push")
  /\ Fault
  /\ Become(t, Idle)
  /\ UNCHANGED <<server, supported, cache, klipper, seen, history>>

(* An unlink ends; it counts as done when nothing failed on the way.       *)
UnlinkDone(t) ==
  /\ At(t, "done")
  /\ cleared' = IF task[t].ok THEN cleared \cup {c \in Cards : clearing[c] = t} ELSE cleared
  /\ clearing' = [c \in Cards |-> IF clearing[c] = t THEN None ELSE clearing[c]]
  /\ Become(t, Idle)
  /\ UNCHANGED <<server, supported, cache, klipper, seen, budget, asked>>

Step(t) ==
  \/ CheckTagApi(t) \/ CheckTagApiFails(t) \/ DeleteCache(t)
  \/ GetById(t) \/ GetByIdFails(t) \/ FindByCard(t) \/ FindByCardFails(t)
  \/ DecideAmbiguous(t) \/ DecideById(t) \/ DecideByCard(t) \/ DecideNone(t)
  \/ Unbind(t) \/ UnbindFails(t)
  \/ PatchCardUids(t) \/ PatchCardUidsFails(t)
  \/ LinkTag(t) \/ LinkTagConflict(t) \/ LinkTagRefused(t) \/ LinkTagFails(t)
  \/ MoveTag(t) \/ MoveTagFails(t)
  \/ SaveCache(t) \/ Push(t) \/ PushFails(t) \/ UnlinkDone(t)

Next ==
  \/ \E ch \in Channels, c \in Cards \cup {None} : Scan(ch, c)
  \/ Upgrade
  \/ Reconnect
  \/ \E ch \in Channels : HandleDetect(ch) \/ ClearSpoolId(ch)
  \/ \E ch \in Channels, s \in Spools : SetSpoolId(ch, s)
  \/ \E t \in Tasks : Step(t)

(* The event loop runs every coroutine that can go on. *)
Fairness == \A t \in Tasks : WF_vars(Step(t))

Spec == Init /\ [][Next]_vars /\ Fairness

--------------------------------------------------------------------------------
(* Properties                                                              *)

(* Nothing is ever invented: a card is linked to a spool, cached for it or *)
(* applied with it only if it was linked at the start or a user asked for  *)
(* exactly that pair, however stale the answers a coroutine works from.    *)
OnlyAskedFor ==
  /\ \A s \in Spools, c \in Cards : c \in links[s] => <<c, s>> \in asked
  /\ \A c \in Cards : cache[c] # None => <<c, cache[c]>> \in asked
  /\ \A ch \in Channels :
       ptc[ch].spool # None /\ ptc[ch].card # None => <<ptc[ch].card, ptc[ch].spool>> \in asked

(* The call a coroutine works for as an abstract call; a scan changes no   *)
(* link, so it is none.                                                    *)
AbstractCall(t) ==
  LET call == task[t].call IN
  IF \/ task[t].pc = "idle"
     \/ call.card = None
     \/ call.kind = "resolve" /\ call.spool = None
  THEN None
  ELSE [card |-> call.card, spool |-> call.spool]

Abstract == INSTANCE CardLinks WITH
  linked <- {p \in Cards \X Spools : p[1] \in links[p[2]]},
  calls <- [t \in Tasks |-> AbstractCall(t)]

(* Links change one at a time, and only for a call naming the card.        *)
ImplementsCardLinks == Abstract!Spec

(* A step never changes which spools hold a card other than the one its    *)
(* call names: linking card A leaves card B alone.                         *)
BystandersKept ==
  [][\A c \in Cards, s \in Spools :
       (c \in links[s]) # (c \in links[s])' =>
         \E t \in Tasks : task[t].pc # "idle" /\ task[t].call.card = c /\ task'[t] # task[t]]_vars

(* No card is on two spools. *)
OneSpoolPerCard == \A c \in Cards : Cardinality(Holders(c)) <= 1

(* After an unlink that met no error, no listed spool and no cache entry   *)
(* brings the card back, until a user assigns it again.                    *)
ClearedStaysCleared ==
  \A c \in cleared : cache[c] = None /\ \A s \in Listed : c \notin links[s]

NoFaults == budget.faults = MaxFaults /\ (Native => supported)

(* When a named spool is about to be applied, the card on the channel is   *)
(* on that spool, on no other listed one, and cached for it.               *)
AssignedCardIsBound ==
  \A t \in Tasks :
    LET s == task[t].spool
        c == task[t].call.card IN
    At(t, "push") /\ s # None /\ s = task[t].call.spool /\ c # None /\ NoFaults =>
      /\ c \in links[s]
      /\ \A x \in Listed \ {s} : c \notin links[x]
      /\ cache[c] = s

(* Between calls the cache says of no card what Spoolman does not.         *)
CacheAgrees ==
  (\A t \in Tasks : At(t, "idle")) /\ NoFaults =>
    \A c \in Cards : cache[c] # None => c \in links[cache[c]]

(* Once every call and card event is dealt with, a channel shows the spool *)
(* of the card it holds, or of no card: one that was taken away is gone    *)
(* from the channel.                                                       *)
ChannelFollowsReader ==
  (\A t \in Tasks : At(t, "idle")) /\ (\A ch \in Channels : reader[ch].time = seen[ch]) =>
    \A ch \in Channels : ptc[ch].card \in {None, reader[ch].card}

(* Every call ends, whatever fails on the way. *)
CallsEnd == \A t \in Tasks : ~At(t, "idle") ~> At(t, "idle")
================================================================================
