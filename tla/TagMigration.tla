------------------------------ MODULE TagMigration ------------------------------
(***************************************************************************)
(* Moving every card link from one of Spoolman's two tag stores to the     *)
(* other: spoollink_migrate.py and the firmware-config setting that runs   *)
(* it with Moonraker stopped. The script works from one listing of the     *)
(* spools, taken at its start, and changes one spool at a time with        *)
(* requests that may fail; it may also be killed, and be run again in      *)
(* either direction.                                                       *)
(***************************************************************************)
EXTENDS Naturals, FiniteSets

CONSTANTS
  Spools,      \* spool ids
  Cards,       \* card UIDs
  None,
  MixedStart,  \* both stores may hold links at the start
  InfoErrors,  \* GET /info may be answered by an HTTP error
  MaxRuns, MaxFaults, MaxAssigns   \* bounds on the environment

ASSUME TagMigrationAssumption ==
  /\ None \notin Spools /\ IsFiniteSet(Spools)
  /\ {MixedStart, InfoErrors} \subseteq BOOLEAN
  /\ {MaxRuns, MaxFaults, MaxAssigns} \subseteq Nat

Stores == {"card_uids", "native"}

VARIABLES
  field,    \* Spoolman: the card_uids field of each spool
  tags,     \* Spoolman: the native tags of each spool
  old,      \* Spoolman is older than v0.27.0
  store,    \* tag_store in extended2.cfg
  pc,       \* where the script is, "idle" when none runs
  target,   \* the store it moves links into
  fieldAt, tagsAt,   \* the listing it works from
  left,     \* spools it has not come to
  cur,      \* the spool it works on
  todo,     \* cards of that spool it has not come to
  keep,     \* to native: cards that stay in card_uids
  failed,   \* it left a card in place
  budget,
  known,    \* history: cards linked at the start or assigned since
  latest    \* history: the spool the user last assigned each card to

script == <<pc, target, fieldAt, tagsAt, left, cur, todo, keep, failed>>
vars == <<field, tags, old, store, script, budget, known, latest>>
history == <<known, latest>>

Labels == {"idle", "version", "list", "spool", "link", "patch", "unlink", "done"}

Links == [Spools -> SUBSET Cards]
NoLinks == [s \in Spools |-> {}]

(* Spoolman holds a native tag on one spool only. *)
Holders(c) == {s \in Spools : c \in tags[s]}
OneHolder(t) == \A x, y \in Spools : x # y => t[x] \cap t[y] = {}

TypeOK ==
  /\ field \in Links /\ tags \in Links /\ OneHolder(tags)
  /\ old \in BOOLEAN
  /\ store \in Stores
  /\ pc \in Labels
  /\ target \in Stores
  /\ fieldAt \in Links /\ tagsAt \in Links
  /\ left \in SUBSET Spools
  /\ cur \in Spools \cup {None}
  /\ todo \in SUBSET Cards
  /\ keep \in SUBSET Cards
  /\ failed \in BOOLEAN
  /\ budget \in [runs : Nat, faults : Nat, assigns : Nat]
  /\ known \in SUBSET Cards
  /\ latest \in [Cards -> Spools \cup {None}]


Linked(c) == \E s \in Spools : c \in field[s] \/ c \in tags[s]

(* Other apps write card_uids, and users add native tags in Spoolman, so   *)
(* both stores may hold links whichever is set.                            *)
Init ==
  /\ field \in Links
  /\ tags \in Links /\ OneHolder(tags)
  /\ old \in BOOLEAN /\ (old => tags = NoLinks)
  /\ store \in Stores
  /\ MixedStart \/ (IF store = "native" THEN field ELSE tags) = NoLinks
  /\ pc = "idle" /\ target = "native"
  /\ fieldAt = NoLinks /\ tagsAt = NoLinks
  /\ left = {} /\ cur = None /\ todo = {} /\ keep = {} /\ failed = FALSE
  /\ budget = [runs |-> MaxRuns, faults |-> MaxFaults, assigns |-> MaxAssigns]
  /\ known = {c \in Cards : Linked(c)}
  /\ latest = [c \in Cards |-> None]

Spend(kind) == budget[kind] > 0 /\ budget' = [budget EXCEPT ![kind] = @ - 1]

--------------------------------------------------------------------------------
(* Around the script                                                       *)

(* The setting is switched, or the migration into the current store is     *)
(* retried: Moonraker stops and the script starts.                         *)
Start(st) ==
  /\ pc = "idle"
  /\ Spend("runs")
  /\ pc' = "version" /\ target' = st
  /\ fieldAt' = NoLinks /\ tagsAt' = NoLinks
  /\ left' = {} /\ cur' = None /\ todo' = {} /\ keep' = {} /\ failed' = FALSE
  /\ UNCHANGED <<field, tags, old, store, history>>

(* Exit code 0: the setting follows, whether or not cards were left.       *)
SetStore ==
  /\ pc = "done"
  /\ store' = target
  /\ pc' = "idle"
  /\ UNCHANGED <<field, tags, old, target, fieldAt, tagsAt, left, cur, todo, keep,
                 failed, budget, history>>

Stop == pc' = "idle" /\ UNCHANGED <<target, fieldAt, tagsAt, left, cur, todo, keep, failed>>

(* The power goes, or the script is killed, at any point before the        *)
(* setting is written.                                                     *)
Crash ==
  /\ pc # "idle"
  /\ Spend("faults")
  /\ Stop
  /\ UNCHANGED <<field, tags, old, store, history>>

(* With Moonraker running, the user assigns a card: SpoolLink moves it in  *)
(* the store that is set and does not look at the other.                   *)
Moved(l, c, s) == [x \in Spools |-> IF x = s THEN l[x] \cup {c} ELSE l[x] \ {c}]

Assign(c, s) ==
  /\ pc = "idle"
  /\ store = "native" => ~old
  /\ Spend("assigns")
  /\ IF store = "native"
     THEN tags' = Moved(tags, c, s) /\ UNCHANGED field
     ELSE field' = Moved(field, c, s) /\ UNCHANGED tags
  /\ known' = known \cup {c}
  /\ latest' = [latest EXCEPT ![c] = s]
  /\ UNCHANGED <<old, store, script>>

--------------------------------------------------------------------------------
(* The script                                                              *)

Goto(label) == pc' = label
Data == <<target, fieldAt, tagsAt, left, cur, todo, keep, failed>>
World == <<field, tags, old, store, history>>

(* A request that fails outside a try: the script exits with 1 and the     *)
(* setting stays.                                                          *)
Abort(label) ==
  /\ pc = label
  /\ Spend("faults")
  /\ Stop

(* check_native: moving to native needs the version; moving to card_uids   *)
(* from a server that cannot have tags is done already.                    *)
CheckNative ==
  /\ pc = "version"
  /\ Goto(IF ~old THEN "list" ELSE IF target = "native" THEN "idle" ELSE "done")
  /\ UNCHANGED <<Data, World, budget>>

(* An HTTP error raises what a server too old raises. *)
CheckNativeHttpError ==
  /\ pc = "version"
  /\ InfoErrors
  /\ Spend("faults")
  /\ Goto(IF target = "native" THEN "idle" ELSE "done")
  /\ UNCHANGED <<Data, World>>

CheckNativeUnreachable == Abort("version") /\ UNCHANGED World

(* The card_uids field is made sure of before the listing is taken.        *)
ListSpools ==
  /\ pc = "list"
  /\ fieldAt' = field /\ tagsAt' = tags
  /\ left' = Spools
  /\ Goto("spool")
  /\ UNCHANGED <<World, target, cur, todo, keep, failed, budget>>

ListSpoolsFails == Abort("list") /\ UNCHANGED World

(* Cards listed in card_uids on more than one spool. *)
Ambiguous == {c \in Cards : Cardinality({s \in Spools : c \in fieldAt[s]}) > 1}

NextSpool(s) ==
  /\ pc = "spool"
  /\ s \in left
  /\ left' = left \ {s}
  /\ cur' = s
  /\ IF target = "native"
     THEN /\ todo' = fieldAt[s] \ Ambiguous
          /\ keep' = fieldAt[s] \cap Ambiguous
          /\ failed' = (failed \/ fieldAt[s] \cap Ambiguous # {})
          /\ Goto("link")
     ELSE /\ todo' = tagsAt[s]
          /\ Goto("patch")
          /\ UNCHANGED <<keep, failed>>
  /\ UNCHANGED <<World, target, fieldAt, tagsAt, budget>>

LastSpool ==
  /\ pc = "spool"
  /\ left = {}
  /\ Goto("done")
  /\ UNCHANGED <<Data, World, budget>>

(* Mutant of LinkTag: a tag on another spool is not noticed. *)
LinkTag_NoConflict(c) ==
  /\ pc = "link"
  /\ c \in todo
  /\ todo' = todo \ {c}
  /\ tags' = [tags EXCEPT ![cur] = @ \cup {c}]
  /\ UNCHANGED <<field, old, store, history, pc, target, fieldAt, tagsAt, left, cur, keep,
                 failed, budget>>

(* to_native, one card: it is tagged already, is linked now, or is on      *)
(* another spool and dropped.                                              *)
LinkTag(c) ==
  /\ pc = "link"
  /\ c \in todo
  /\ todo' = todo \ {c}
  /\ IF c \in tagsAt[cur] \/ Holders(c) # {}
     THEN UNCHANGED tags
     ELSE tags' = [tags EXCEPT ![cur] = @ \cup {c}]
  /\ UNCHANGED <<field, old, store, history, pc, target, fieldAt, tagsAt, left, cur, keep,
                 failed, budget>>

(* The request fails before or after the tag is linked: the card stays.    *)
LinkTagFails(c) ==
  /\ pc = "link"
  /\ c \in todo \ tagsAt[cur]
  /\ Spend("faults")
  /\ todo' = todo \ {c}
  /\ keep' = keep \cup {c}
  /\ failed' = TRUE
  /\ \/ UNCHANGED tags
     \/ Holders(c) = {} /\ tags' = [tags EXCEPT ![cur] = @ \cup {c}]
  /\ UNCHANGED <<field, old, store, history, pc, target, fieldAt, tagsAt, left, cur>>

AllLinked ==
  /\ pc = "link"
  /\ todo = {}
  /\ Goto(IF keep # fieldAt[cur] THEN "patch" ELSE "spool")
  /\ UNCHANGED <<Data, World, budget>>

(* Mutant of TaggedElsewhere: stale card_uids entries are kept. *)
TaggedElsewhere_Never(c) == FALSE

(* The spool the listing has the tag on. *)
TaggedElsewhere(c) == \E s \in Spools \ {cur} : c \in tagsAt[s]

(* Mutant of NewField: cards that could not be moved are dropped too. *)
NewField_DropsAll ==
  IF target = "native" THEN {}
  ELSE {c \in fieldAt[cur] : ~TaggedElsewhere(c)} \cup tagsAt[cur]

(* What the field is set to: the cards kept, and moving to card_uids the   *)
(* spool's tags.                                                           *)
NewField ==
  IF target = "native" THEN keep
  ELSE {c \in fieldAt[cur] : ~TaggedElsewhere(c)} \cup tagsAt[cur]

SetCardUids ==
  /\ pc = "patch"
  /\ field' = [field EXCEPT ![cur] = NewField]
  /\ Goto(IF target = "native" THEN "spool" ELSE "unlink")
  /\ UNCHANGED <<Data, tags, old, store, history, budget>>

(* Nothing catches this failure: the script exits. No request is made for  *)
(* a field that keeps its value.                                           *)
SetCardUidsFails ==
  /\ Abort("patch")
  /\ NewField # fieldAt[cur]
  /\ field' \in {field, [field EXCEPT ![cur] = NewField]}
  /\ UNCHANGED <<tags, old, store, history>>

UnlinkTag(c) ==
  /\ pc = "unlink"
  /\ c \in todo
  /\ todo' = todo \ {c}
  /\ tags' = [tags EXCEPT ![cur] = @ \ {c}]
  /\ UNCHANGED <<field, old, store, history, pc, target, fieldAt, tagsAt, left, cur, keep,
                 failed, budget>>

UnlinkTagFails(c) ==
  /\ pc = "unlink"
  /\ c \in todo
  /\ Spend("faults")
  /\ todo' = todo \ {c}
  /\ failed' = TRUE
  /\ tags' \in {tags, [tags EXCEPT ![cur] = @ \ {c}]}
  /\ UNCHANGED <<field, old, store, history, pc, target, fieldAt, tagsAt, left, cur, keep>>

AllUnlinked ==
  /\ pc = "unlink"
  /\ todo = {}
  /\ Goto("spool")
  /\ UNCHANGED <<Data, World, budget>>

Script ==
  \/ CheckNative \/ CheckNativeHttpError \/ CheckNativeUnreachable
  \/ ListSpools \/ ListSpoolsFails
  \/ LastSpool \/ AllLinked \/ AllUnlinked
  \/ SetCardUids \/ SetCardUidsFails
  \/ \E s \in Spools : NextSpool(s)
  \/ \E c \in Cards : LinkTag(c) \/ LinkTagFails(c) \/ UnlinkTag(c) \/ UnlinkTagFails(c)

Next ==
  \/ \E st \in Stores : Start(st)
  \/ SetStore
  \/ Crash
  \/ \E c \in Cards, s \in Spools : Assign(c, s)
  \/ Script

Spec == Init /\ [][Next]_vars

--------------------------------------------------------------------------------
(* Properties                                                              *)

(* No card loses its last link: whichever request fails and wherever the   *)
(* script is killed, a card that was linked is linked in one store or the  *)
(* other.                                                                  *)
NoLinkLost == \A c \in known : Linked(c)

(* A run that reports nothing left in place leaves no link in the store it *)
(* empties.                                                                *)
OneStoreAfter ==
  pc = "done" /\ ~failed => IF target = "native" THEN field = NoLinks ELSE tags = NoLinks

(* What one run should make of a listing: a tag wins over a card_uids      *)
(* entry of the same card on another spool.                                *)
Merged(f, t) ==
  [s \in Spools |-> t[s] \cup {c \in f[s] : \A x \in Spools : c \notin t[x]}]

(* A run that has worked through its listing and leaves nothing in place   *)
(* puts every card on the spool it was on, in the other store, and empties *)
(* the one it came from.                                                   *)
EveryCardOnItsSpool ==
  pc = "done" /\ ~failed /\ cur # None =>
    LET to == IF target = "native" THEN tags ELSE field
        from == IF target = "native" THEN field ELSE tags
    IN to = Merged(fieldAt, tagsAt) /\ from = NoLinks

(* After a run that leaves nothing in place a card the user has assigned   *)
(* is on the spool it was assigned to last.                                *)
NewestLinkWins ==
  pc = "done" /\ ~failed =>
    \A c \in Cards : latest[c] # None =>
      c \in (IF target = "native" THEN tags ELSE field)[latest[c]]
================================================================================
