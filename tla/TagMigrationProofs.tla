--------------------------- MODULE TagMigrationProofs ---------------------------
(***************************************************************************)
(* For any spools, cards and number of runs, failures and crashes: the     *)
(* types, with no tag on two spools; that a migration loses no link; and   *)
(* where a run that leaves nothing in place puts every card.               *)
(***************************************************************************)
EXTENDS TagMigration, FiniteSetTheorems, TLAPS

(* The script has its listing and works through the spools. *)
Working == pc \in {"spool", "link", "patch", "unlink"}

(* Spools whose field the script has not rewritten. *)
Pending == left \cup (IF pc \in {"link", "patch"} THEN {cur} ELSE {})

(* To native: tags are only added, and every card the spool listed is      *)
(* still to be looked at, kept, or tagged on some spool.                   *)
NativeInv ==
  /\ pc # "unlink"
  /\ \A s \in Spools : tagsAt[s] \subseteq tags[s]
  /\ pc \in {"link", "patch"} =>
       \A c \in fieldAt[cur] : c \in todo \/ c \in keep \/ Holders(c) # {}
  /\ pc = "patch" => todo = {}

(* To card_uids: a listed tag is still on its spool until that spool's     *)
(* field is rewritten, and in the field from then on.                      *)
CardUidsInv ==
  /\ pc # "link"
  /\ \A s \in Pending : tagsAt[s] \subseteq tags[s]
  /\ \A s \in Spools \ Pending : tagsAt[s] \subseteq field[s]
  /\ pc \in {"patch", "unlink"} => todo \subseteq tagsAt[cur]

RunInv ==
  /\ pc \in {"link", "patch", "unlink"} => cur \in Spools \ left
  /\ Working =>
       /\ \A s \in Pending : field[s] = fieldAt[s]
       /\ target = "native" => NativeInv
       /\ target = "card_uids" => CardUidsInv

IInv == TypeOK /\ RunInv /\ NoLinkLost

--------------------------------------------------------------------------------
(* Types                                                                   *)

LEMMA SpendType ==
  ASSUME TypeOK, NEW k \in {"runs", "faults", "assigns"}, Spend(k)
  PROVE  budget' \in [runs : Nat, faults : Nat, assigns : Nat]
<1>1. budget[k] - 1 \in Nat
  BY DEF TypeOK, Spend
<1> QED
  BY <1>1 DEF TypeOK, Spend

(* Tagging a card nobody holds, or untagging one, leaves one holder. *)
LEMMA TagOne ==
  ASSUME tags \in Links, OneHolder(tags), NEW c \in Cards, Holders(c) = {}
  PROVE  LET t == [tags EXCEPT ![cur] = @ \cup {c}] IN t \in Links /\ OneHolder(t)
<1> DEFINE t == [tags EXCEPT ![cur] = @ \cup {c}]
<1>1. t \in Links
  BY DEF Links
<1>2. ASSUME NEW x \in Spools, NEW y \in Spools, x # y
      PROVE  t[x] \cap t[y] = {}
  <2>1. tags[x] \cap tags[y] = {} /\ c \notin tags[x] /\ c \notin tags[y]
    BY <1>2 DEF OneHolder, Holders
  <2>2. t[x] \subseteq tags[x] \cup {c} /\ t[y] \subseteq tags[y] \cup {c}
    BY DEF Links
  <2>3. c \notin t[x] \/ c \notin t[y]
    BY <1>2, <2>1 DEF Links
  <2> HIDE DEF t
  <2> QED
    BY <2>1, <2>2, <2>3
<1> QED
  BY <1>1, <1>2 DEF OneHolder

LEMMA UntagOne ==
  ASSUME tags \in Links, OneHolder(tags), NEW c \in Cards
  PROVE  LET t == [tags EXCEPT ![cur] = @ \ {c}] IN t \in Links /\ OneHolder(t)
<1> DEFINE t == [tags EXCEPT ![cur] = @ \ {c}]
<1>1. t \in Links /\ \A x \in Spools : t[x] \subseteq tags[x]
  BY DEF Links
<1> HIDE DEF t
<1>2. OneHolder(t)
  BY <1>1 DEF OneHolder
<1> QED
  BY <1>1, <1>2 DEF t

LEMMA MovedType ==
  ASSUME NEW l \in Links, NEW c \in Cards, NEW s \in Spools
  PROVE  Moved(l, c, s) \in Links /\ (OneHolder(l) => OneHolder(Moved(l, c, s)))
BY DEF Links, OneHolder, Moved

LEMMA FieldType ==
  ASSUME TypeOK
  PROVE  NewField \in SUBSET Cards \/ cur = None
BY DEF TypeOK, NewField, Links

LEMMA InitInv == Init => IInv
<1> SUFFICES ASSUME Init PROVE IInv
  OBVIOUS
<1>1. TypeOK
  BY TagMigrationAssumption DEF Init, TypeOK, Labels, Links, NoLinks, Stores, OneHolder
<1>2. RunInv
  BY DEF Init, RunInv, Working
<1>3. NoLinkLost
  BY DEF Init, NoLinkLost
<1> QED
  BY <1>1, <1>2, <1>3 DEF IInv

LEMMA TypeStep ==
  ASSUME TypeOK, [Next]_vars
  PROVE  TypeOK'
<1> USE DEF TypeOK, Labels, Stores, Data, World, history, script
<1>1. ASSUME NEW st \in Stores, Start(st) PROVE TypeOK'
  <2>1. budget' \in [runs : Nat, faults : Nat, assigns : Nat]
    BY <1>1, SpendType DEF Start
  <2> QED
    BY <1>1, <2>1 DEF Start, Links, NoLinks, OneHolder
<1>2. CASE SetStore
  BY <1>2 DEF SetStore, OneHolder
<1>3. CASE Crash
  <2>1. budget' \in [runs : Nat, faults : Nat, assigns : Nat]
    BY <1>3, SpendType DEF Crash
  <2> QED
    BY <1>3, <2>1 DEF Crash, Stop, OneHolder
<1>4. ASSUME NEW c \in Cards, NEW s \in Spools, Assign(c, s) PROVE TypeOK'
  <2>1. budget' \in [runs : Nat, faults : Nat, assigns : Nat]
    BY <1>4, SpendType DEF Assign
  <2>2. field' \in Links /\ tags' \in Links /\ OneHolder(tags')
    BY <1>4, MovedType DEF Assign
  <2> QED
    BY <1>4, <2>1, <2>2 DEF Assign
<1>5. ASSUME NEW l \in Labels, Abort(l), UNCHANGED <<tags, old, store, history>>,
             field' \in Links
      PROVE  TypeOK'
  <2>1. budget' \in [runs : Nat, faults : Nat, assigns : Nat]
    BY <1>5, SpendType DEF Abort
  <2> QED
    BY <1>5, <2>1 DEF Abort, Stop, OneHolder
<1>6. CASE CheckNative
  BY <1>6 DEF CheckNative, Goto, OneHolder
<1>7. CASE CheckNativeHttpError
  <2>1. budget' \in [runs : Nat, faults : Nat, assigns : Nat]
    BY <1>7, SpendType DEF CheckNativeHttpError
  <2> QED
    BY <1>7, <2>1 DEF CheckNativeHttpError, Goto, OneHolder
<1>8. CASE CheckNativeUnreachable
  BY <1>8, <1>5 DEF CheckNativeUnreachable
<1>9. CASE ListSpools
  BY <1>9 DEF ListSpools, Goto, OneHolder
<1>10. CASE ListSpoolsFails
  BY <1>10, <1>5 DEF ListSpoolsFails
<1>11. CASE LastSpool \/ AllLinked \/ AllUnlinked
  BY <1>11 DEF LastSpool, AllLinked, AllUnlinked, Goto, OneHolder
<1>12. CASE SetCardUids
  <2>1. field' \in Links
    BY <1>12, FieldType, TagMigrationAssumption DEF SetCardUids, Links
  <2> QED
    BY <1>12, <2>1 DEF SetCardUids, Goto, OneHolder
<1>13. CASE SetCardUidsFails
  <2>1. field' \in Links
    BY <1>13, FieldType, TagMigrationAssumption DEF SetCardUidsFails, Links
  <2> QED
    BY <1>13, <2>1, <1>5 DEF SetCardUidsFails
<1>14. ASSUME NEW s \in Spools, NextSpool(s) PROVE TypeOK'
  <2>1. todo' \in SUBSET Cards /\ keep' \in SUBSET Cards
    BY <1>14 DEF NextSpool, Links
  <2>2. failed' \in BOOLEAN
    BY <1>14, Zenon DEF NextSpool
  <2>3. pc' \in Labels
    BY <1>14 DEF NextSpool, Goto
  <2> QED
    BY <1>14, <2>1, <2>2, <2>3 DEF NextSpool, OneHolder
<1>15. ASSUME NEW c \in Cards, LinkTag(c) PROVE TypeOK'
  <2>1. tags' \in Links /\ OneHolder(tags')
    BY <1>15, TagOne DEF LinkTag
  <2> QED
    BY <1>15, <2>1 DEF LinkTag
<1>16. ASSUME NEW c \in Cards, LinkTagFails(c) PROVE TypeOK'
  <2>1. tags' \in Links /\ OneHolder(tags')
    BY <1>16, TagOne DEF LinkTagFails
  <2>2. budget' \in [runs : Nat, faults : Nat, assigns : Nat]
    BY <1>16, SpendType DEF LinkTagFails
  <2> QED
    BY <1>16, <2>1, <2>2 DEF LinkTagFails
<1>17. ASSUME NEW c \in Cards, UnlinkTag(c) PROVE TypeOK'
  <2>1. tags' \in Links /\ OneHolder(tags')
    BY <1>17, UntagOne DEF UnlinkTag
  <2> QED
    BY <1>17, <2>1 DEF UnlinkTag
<1>18. ASSUME NEW c \in Cards, UnlinkTagFails(c) PROVE TypeOK'
  <2>1. tags' \in Links /\ OneHolder(tags')
    BY <1>18, UntagOne DEF UnlinkTagFails
  <2>2. budget' \in [runs : Nat, faults : Nat, assigns : Nat]
    BY <1>18, SpendType DEF UnlinkTagFails
  <2> QED
    BY <1>18, <2>1, <2>2 DEF UnlinkTagFails
<1>19. CASE UNCHANGED vars
  BY <1>19 DEF vars, OneHolder
<1> QED
  BY <1>1, <1>2, <1>3, <1>4, <1>6, <1>7, <1>8, <1>9, <1>10, <1>11, <1>12, <1>13,
     <1>14, <1>15, <1>16, <1>17, <1>18, <1>19 DEF Next, Script

--------------------------------------------------------------------------------
(* The run                                                                 *)

LEMMA RunStep ==
  ASSUME TypeOK, TypeOK', RunInv, [Next]_vars
  PROVE  RunInv'
<1> USE DEF RunInv, Working
<1>1. CASE pc' \in {"idle", "version", "list", "done"}
  BY <1>1
<1>2. CASE ListSpools
  BY <1>2 DEF ListSpools, World, Goto, NativeInv, CardUidsInv, Pending
<1>3. ASSUME NEW s \in Spools, NextSpool(s) PROVE RunInv'
  <2> USE <1>3 DEF NextSpool, World, Goto
  <2>1. Pending' = Pending /\ cur' \in Spools \ left'
    BY DEF Pending, TypeOK
  <2>2. ASSUME target = "native" PROVE NativeInv'
    BY <2>2 DEF NativeInv, Holders
  <2>3. ASSUME target = "card_uids" PROVE CardUidsInv'
    BY <2>1, <2>3 DEF CardUidsInv
  <2> QED
    BY <2>1, <2>2, <2>3
<1>4. ASSUME NEW c \in Cards, LinkTag(c) \/ LinkTagFails(c) PROVE RunInv'
  <2> USE <1>4 DEF LinkTag, LinkTagFails, history
  <2>1. target = "native" /\ target' = target /\ cur \in Spools /\ Pending' = Pending
    BY DEF Pending, TypeOK, Stores, CardUidsInv
  <2>2. \A s \in Spools : tags[s] \subseteq tags'[s]
    BY <2>1 DEF TypeOK, Links
  <2>3. c \in keep' \/ Holders(c)' # {}
    <3>1. CASE LinkTagFails(c)
      BY <3>1
    <3>2. CASE LinkTag(c) /\ Holders(c) # {}
      BY <3>2, <2>2 DEF Holders
    <3>3. CASE LinkTag(c) /\ Holders(c) = {} /\ c \in tagsAt[cur]
      BY <3>3, <2>1 DEF NativeInv, Holders
    <3>4. CASE LinkTag(c) /\ Holders(c) = {} /\ c \notin tagsAt[cur]
      BY <3>4, <2>1 DEF Holders, TypeOK, Links
    <3> QED
      BY <3>1, <3>2, <3>3, <3>4
  <2>4. \A d \in fieldAt[cur] : d \in todo' \/ d \in keep' \/ Holders(d)' # {}
    BY <2>1, <2>2, <2>3 DEF NativeInv, Holders
  <2>5. NativeInv'
    BY <2>1, <2>2, <2>4 DEF NativeInv
  <2> QED
    BY <2>1, <2>5
<1>5. CASE AllLinked
  <2> USE <1>5 DEF AllLinked, Data, World, Goto
  <2>1. target = "native" /\ target' = target /\ Pending' \subseteq Pending
    BY DEF Pending, TypeOK, Stores, CardUidsInv
  <2> QED
    BY <2>1 DEF NativeInv, Holders
<1>6. CASE SetCardUids
  <2> USE <1>6 DEF SetCardUids, Data, history, Goto
  <2>1. cur \in Spools /\ Pending' = left /\ cur \notin left /\ Pending = left \cup {cur}
    BY DEF Pending
  <2>2. \A s \in Spools \ {cur} : field'[s] = field[s]
    BY DEF TypeOK, Links
  <2>3. ASSUME target = "native" PROVE NativeInv'
    BY <2>3 DEF NativeInv, Holders
  <2>4. ASSUME target = "card_uids" PROVE CardUidsInv'
    <3>1. field'[cur] = NewField /\ tagsAt[cur] \subseteq NewField
      BY <2>1, <2>4 DEF TypeOK, Links, NewField
    <3>2. \A s \in Spools \ left : tagsAt[s] \subseteq field'[s]
      BY <2>1, <2>2, <2>4, <3>1 DEF CardUidsInv
    <3> QED
      BY <2>1, <2>4, <3>2 DEF CardUidsInv
  <2> QED
    BY <2>1, <2>2, <2>3, <2>4 DEF TypeOK
<1>7. ASSUME NEW c \in Cards, UnlinkTag(c) \/ UnlinkTagFails(c) PROVE RunInv'
  <2> USE <1>7 DEF UnlinkTag, UnlinkTagFails, history
  <2>1. target = "card_uids" /\ target' = target /\ Pending' = Pending /\ cur \notin Pending
    BY DEF Pending, TypeOK, Stores, NativeInv
  <2>2. \A s \in Pending : tags'[s] = tags[s]
    BY <2>1 DEF TypeOK, Links, Pending
  <2>3. CardUidsInv'
    BY <2>1, <2>2 DEF CardUidsInv
  <2> QED
    BY <2>1, <2>3
<1>8. CASE AllUnlinked
  BY <1>8 DEF AllUnlinked, Data, World, Goto, Pending, NativeInv, CardUidsInv, Holders
<1>9. CASE UNCHANGED vars
  BY <1>9 DEF vars, script, Pending, NativeInv, CardUidsInv, Holders
<1>10. ASSUME pc' \notin {"idle", "version", "list", "done"}
       PROVE  \/ ListSpools \/ AllLinked \/ SetCardUids \/ AllUnlinked \/ UNCHANGED vars
              \/ \E s \in Spools : NextSpool(s)
              \/ \E c \in Cards : LinkTag(c) \/ LinkTagFails(c) \/ UnlinkTag(c) \/ UnlinkTagFails(c)
  BY <1>10 DEF Next, Script, Start, SetStore, Crash, Stop, Assign, script, CheckNative,
     CheckNativeHttpError, CheckNativeUnreachable, ListSpoolsFails, LastSpool,
     SetCardUidsFails, Abort, Goto
<1> QED
  BY <1>1, <1>2, <1>3, <1>4, <1>5, <1>6, <1>7, <1>8, <1>9, <1>10

--------------------------------------------------------------------------------
(* The links                                                               *)

(* A card the rewritten field drops is on some spool still.                *)
LEMMA RewriteKeeps ==
  ASSUME TypeOK, RunInv, pc = "patch", UNCHANGED tags,
         field' = [field EXCEPT ![cur] = NewField],
         NEW c \in Cards, Linked(c)
  PROVE  Linked(c)'
<1> USE DEF Linked
<1>1. cur \in Spools /\ field[cur] = fieldAt[cur]
  BY DEF RunInv, Working, Pending
<1>2. field'[cur] = NewField /\ \A s \in Spools \ {cur} : field'[s] = field[s]
  BY <1>1 DEF TypeOK, Links
<1>3. CASE c \notin field[cur]
  BY <1>2, <1>3
<1>4. CASE c \in field[cur] /\ target = "native"
  BY <1>1, <1>2, <1>4 DEF RunInv, Working, NativeInv, NewField, Holders
<1>5. CASE c \in field[cur] /\ target = "card_uids" /\ ~TaggedElsewhere(c)
  BY <1>1, <1>2, <1>5 DEF NewField
<1>6. CASE target = "card_uids" /\ TaggedElsewhere(c)
  <2>1. PICK s \in Spools \ {cur} : c \in tagsAt[s]
    BY <1>6 DEF TaggedElsewhere
  <2>2. c \in tags[s] \/ c \in field[s]
    BY <1>6, <2>1 DEF RunInv, Working, CardUidsInv
  <2> QED
    BY <1>2, <2>1, <2>2
<1> QED
  BY <1>3, <1>4, <1>5, <1>6 DEF TypeOK, Stores

LEMMA KeepStep ==
  ASSUME TypeOK, RunInv, NoLinkLost, [Next]_vars
  PROVE  NoLinkLost'
<1> USE DEF NoLinkLost, Linked
<1>1. CASE UNCHANGED <<field, tags, known>>
  BY <1>1
<1>2. ASSUME NEW c \in Cards, NEW s \in Spools, Assign(c, s) PROVE NoLinkLost'
  BY <1>2 DEF Assign, Moved
<1>3. ASSUME NEW c \in Cards, LinkTag(c) \/ LinkTagFails(c) PROVE NoLinkLost'
  <2>1. \A s \in Spools : tags[s] \subseteq tags'[s]
    BY <1>3 DEF LinkTag, LinkTagFails, TypeOK, Links
  <2>2. UNCHANGED <<field, known>>
    BY <1>3 DEF LinkTag, LinkTagFails, history
  <2> QED
    BY <2>1, <2>2
<1>4. CASE SetCardUids \/ SetCardUidsFails
  <2>1. known \subseteq Cards /\ UNCHANGED <<tags, known>> /\ pc = "patch"
    BY <1>4 DEF SetCardUids, SetCardUidsFails, Abort, history, TypeOK
  <2>2. field' = [field EXCEPT ![cur] = NewField] \/ UNCHANGED field
    BY <1>4 DEF SetCardUids, SetCardUidsFails
  <2>3. \A c \in known : Linked(c) => Linked(c)'
    BY <2>1, <2>2, RewriteKeeps
  <2> QED
    BY <2>1, <2>3
<1>5. ASSUME NEW c \in Cards, UnlinkTag(c) \/ UnlinkTagFails(c) PROVE NoLinkLost'
  <2>1. c \in field[cur] /\ cur \in Spools
    BY <1>5 DEF UnlinkTag, UnlinkTagFails, RunInv, Working, CardUidsInv, NativeInv,
       Pending, TypeOK, Stores
  <2>2. \A s \in Spools : tags[s] \ {c} \subseteq tags'[s]
    BY <1>5 DEF UnlinkTag, UnlinkTagFails, TypeOK, Links
  <2>3. UNCHANGED <<field, known>>
    BY <1>5 DEF UnlinkTag, UnlinkTagFails, history
  <2> QED
    BY <2>1, <2>2, <2>3
<1>6. \/ UNCHANGED <<field, tags, known>>
      \/ \E c \in Cards, s \in Spools : Assign(c, s)
      \/ \E c \in Cards : LinkTag(c) \/ LinkTagFails(c) \/ UnlinkTag(c) \/ UnlinkTagFails(c)
      \/ SetCardUids \/ SetCardUidsFails
  BY DEF Next, Script, Start, SetStore, Crash, CheckNative, CheckNativeHttpError,
     CheckNativeUnreachable, ListSpools, ListSpoolsFails, LastSpool, AllLinked,
     AllUnlinked, NextSpool, World, history, vars
<1> QED
  BY <1>1, <1>2, <1>3, <1>4, <1>5, <1>6

--------------------------------------------------------------------------------
(* Results                                                                 *)

LEMMA Inductive == Spec => []IInv
<1>1. IInv /\ [Next]_vars => IInv'
  BY TypeStep, RunStep, KeepStep DEF IInv
<1> QED
  BY InitInv, <1>1, PTL DEF Spec

(* The variables keep their types and no tag is ever on two spools, though *)
(* the script works from a listing that is out of date.                    *)
THEOREM TypeCorrect == Spec => []TypeOK
<1>1. IInv => TypeOK
  BY DEF IInv
<1> QED
  BY Inductive, <1>1, PTL

(* Whatever request fails, wherever the script is killed and however often *)
(* it is run in either direction, no card loses its last link.             *)
THEOREM MigrationLosesNoLink == Spec => []NoLinkLost
<1>1. IInv => NoLinkLost
  BY DEF IInv
<1> QED
  BY Inductive, <1>1, PTL

--------------------------------------------------------------------------------
(* Where the cards end up                                                  *)

(* The run has its listing and has left no card in place so far. *)
Clean == (Working \/ (pc = "done" /\ cur # None)) /\ ~failed

Untagged(c) == \A x \in Spools : c \notin tagsAt[x]

(* Cards of a spool's field that the script has looked at. *)
Looked(s) ==
  IF s \in left THEN {}
  ELSE IF pc = "link" /\ s = cur THEN fieldAt[s] \ todo ELSE fieldAt[s]

(* To native: tags are those of the listing and those the script has added *)
(* for cards that had none; a spool that is done has an empty field.       *)
ToNative ==
  /\ \A s \in Spools \ left : fieldAt[s] \cap Ambiguous = {}
  /\ pc \in {"link", "patch"} => keep = {}
  /\ pc = "link" => todo \subseteq fieldAt[cur]
  /\ \A s \in Spools \ Pending : field[s] = {}
  /\ \A s \in Spools : tags[s] = tagsAt[s] \cup {c \in Looked(s) : Untagged(c)}

(* To card_uids: a spool whose field is rewritten has what it should, and  *)
(* loses its tags next.                                                    *)
ToCardUids ==
  /\ \A s \in Spools \ Pending : field[s] = tagsAt[s] \cup {c \in fieldAt[s] : Untagged(c)}
  /\ pc = "patch" => todo = tagsAt[cur]
  /\ \A s \in Pending : tags[s] = tagsAt[s]
  /\ \A s \in Spools \ Pending : tags[s] = IF pc = "unlink" /\ s = cur THEN todo ELSE {}

PlaceInv ==
  /\ pc \in {"version", "list"} => cur = None
  /\ pc = "done" /\ cur # None => left = {}
  /\ Clean => /\ target = "native" => ToNative
              /\ target = "card_uids" => ToCardUids

(* A card that is not ambiguous is in the field of one spool. *)
LEMMA OneField ==
  ASSUME NEW c \in Cards, c \notin Ambiguous, NEW x \in Spools, NEW y \in Spools,
         c \in fieldAt[x], c \in fieldAt[y]
  PROVE  x = y
<1> DEFINE S == {s \in Spools : c \in fieldAt[s]}
<1>1. IsFiniteSet(S) BY TagMigrationAssumption, FS_Subset
<1>2. Cardinality(S) \in Nat /\ ~(Cardinality(S) > 1) BY <1>1, FS_CardinalityType DEF Ambiguous
<1>3. Cardinality(S) # 0 BY <1>1, FS_EmptySet
<1>4. Cardinality(S) = 1 BY <1>2, <1>3
<1>5. \E z : S = {z} BY <1>1, <1>4, FS_Singleton
<1> QED BY <1>5

LEMMA LinkPlaces ==
  ASSUME IInv, PlaceInv, NEW c \in Cards, LinkTag(c) PROVE PlaceInv'
<1>1. /\ pc = "link" /\ pc' = "link" /\ c \in todo /\ todo' = todo \ {c}
      /\ UNCHANGED <<field, target, fieldAt, tagsAt, left, cur, keep, failed>>
      /\ IF c \in tagsAt[cur] \/ Holders(c) # {} THEN UNCHANGED tags
         ELSE tags' = [tags EXCEPT ![cur] = @ \cup {c}]
  BY DEF LinkTag
<1>2. SUFFICES ASSUME ~failed PROVE /\ target = "native" => ToNative'
                                    /\ target = "card_uids" => ToCardUids'
  BY <1>1 DEF PlaceInv, Clean
<1>3. cur \in Spools \ left /\ target = "native"
  BY <1>1 DEF IInv, RunInv, Working, CardUidsInv, TypeOK, Stores
<1>4. ToNative BY <1>1, <1>2, <1>3 DEF PlaceInv, Clean, Working
<1>5. c \in fieldAt[cur] /\ c \notin Ambiguous BY <1>1, <1>3, <1>4 DEF ToNative
<1>6. \A s \in Spools : tags[s] = tagsAt[s] \cup {d \in Looked(s) : Untagged(d)} BY <1>4 DEF ToNative
<1>7. Looked(cur)' = Looked(cur) \cup {c} /\ c \notin Looked(cur)
  BY <1>1, <1>3, <1>5 DEF Looked
<1>8. \A s \in Spools \ {cur} : Looked(s)' = Looked(s) BY <1>1 DEF Looked
<1>9. Untagged(c) => Holders(c) = {}
  <2> SUFFICES ASSUME Untagged(c), NEW y \in Spools, c \in tags[y] PROVE FALSE BY DEF Holders
  <2>1. c \in Looked(y) BY <1>6 DEF Untagged
  <2>2. y # cur BY <1>7, <2>1
  <2>3. c \in fieldAt[y] BY <2>1 DEF Looked
  <2> QED BY <1>3, <1>5, <2>2, <2>3, OneField
<1>10. ~Untagged(c) => Holders(c) # {}
  <2> SUFFICES ASSUME NEW y \in Spools, c \in tagsAt[y] PROVE c \in tags[y] BY DEF Untagged, Holders
  <2> QED BY <1>6
<1>11. tags'[cur] = IF Untagged(c) THEN tags[cur] \cup {c} ELSE tags[cur]
  <2>1. tags \in Links BY DEF IInv, TypeOK
  <2>2. Untagged(c) => c \notin tagsAt[cur] BY <1>3 DEF Untagged
  <2> QED BY <1>1, <1>3, <1>9, <1>10, <2>1, <2>2 DEF Links
<1>12. \A s \in Spools \ {cur} : tags'[s] = tags[s] BY <1>1 DEF IInv, TypeOK, Links
<1>13. \A d : Untagged(d)' <=> Untagged(d) BY <1>1 DEF Untagged
<1>14. \A s \in Spools : tags'[s] = tagsAt'[s] \cup {d \in Looked(s)' : Untagged(d)'}
  <2>1. tags'[cur] = tagsAt[cur] \cup {d \in Looked(cur)' : Untagged(d)} BY <1>3, <1>6, <1>7, <1>11
  <2>2. \A s \in Spools \ {cur} : tags'[s] = tagsAt[s] \cup {d \in Looked(s)' : Untagged(d)}
    BY <1>6, <1>8, <1>12
  <2> QED BY <1>1, <1>13, <2>1, <2>2
<1>15. Ambiguous' = Ambiguous /\ Pending' = Pending BY <1>1 DEF Ambiguous, Pending
<1>16. ToNative' BY <1>1, <1>4, <1>14, <1>15 DEF ToNative
<1> QED BY <1>3, <1>16 DEF Stores

(* A step that leaves the listing alone leaves what is read off it alone. *)
LEMMA SameListing ==
  ASSUME UNCHANGED <<fieldAt, tagsAt>>
  PROVE  Ambiguous' = Ambiguous /\ \A c : Untagged(c)' <=> Untagged(c)
  BY DEF Ambiguous, Untagged

LEMMA NextSpoolPlaces ==
  ASSUME IInv, PlaceInv, NEW s \in Spools, NextSpool(s) PROVE PlaceInv'
<1>1. /\ pc = "spool" /\ s \in left /\ left' = left \ {s} /\ cur' = s /\ pc' \in {"link", "patch"}
      /\ UNCHANGED <<field, tags, target, fieldAt, tagsAt>>
      /\ ~failed' => ~failed
  BY DEF NextSpool, World, Goto
<1>2. SUFFICES ASSUME ~failed' PROVE /\ target = "native" => ToNative'
                                     /\ target = "card_uids" => ToCardUids'
  BY <1>1 DEF PlaceInv, Clean
<1>3. Clean BY <1>1, <1>2 DEF Clean, Working
<1>4. Pending' = Pending BY <1>1 DEF Pending
<1>5. CASE target = "native"
  <2>1. /\ pc' = "link" /\ todo' = fieldAt[s] \ Ambiguous /\ keep' = fieldAt[s] \cap Ambiguous
        /\ fieldAt[s] \cap Ambiguous = {}
    BY <1>2, <1>5 DEF NextSpool, Goto
  <2>2. ToNative BY <1>3, <1>5 DEF PlaceInv
  <2>3. \A x \in Spools : {c \in Looked(x)' : Untagged(c)'} = {c \in Looked(x) : Untagged(c)}
    <3>1. Looked(s)' = {} BY <1>1, <2>1 DEF Looked
    <3>2. Looked(s) = {} BY <1>1 DEF Looked
    <3>3. \A x \in Spools \ {s} : Looked(x)' = Looked(x) BY <1>1 DEF Looked
    <3> QED BY <1>1, <3>1, <3>2, <3>3, SameListing
  <2>4. ToNative' BY <1>1, <1>4, <2>1, <2>2, <2>3, SameListing DEF ToNative
  <2> QED BY <1>5, <2>4
<1>6. CASE target = "card_uids"
  <2>1. pc' = "patch" /\ todo' = tagsAt[s] BY <1>6 DEF NextSpool, Goto
  <2>2. ToCardUids BY <1>3, <1>6 DEF PlaceInv
  <2>3. ToCardUids' BY <1>1, <1>4, <2>1, <2>2, SameListing DEF ToCardUids
  <2> QED BY <1>6, <2>3
<1> QED BY <1>5, <1>6 DEF IInv, TypeOK, Stores

LEMMA PatchPlaces ==
  ASSUME IInv, PlaceInv, SetCardUids PROVE PlaceInv'
<1>1. /\ pc = "patch" /\ pc' = IF target = "native" THEN "spool" ELSE "unlink"
      /\ field' = [field EXCEPT ![cur] = NewField]
      /\ UNCHANGED <<target, fieldAt, tagsAt, left, cur, todo, keep, failed, tags>>
  BY DEF SetCardUids, Data, Goto
<1>2. SUFFICES ASSUME ~failed PROVE /\ target = "native" => ToNative'
                                    /\ target = "card_uids" => ToCardUids'
  BY <1>1 DEF PlaceInv, Clean
<1>3. Clean /\ cur \in Spools \ left /\ field \in Links /\ tagsAt \in Links /\ fieldAt \in Links
  BY <1>1, <1>2 DEF Clean, Working, IInv, RunInv, TypeOK
<1>4. Pending = left \cup {cur} /\ Pending' = left BY <1>1 DEF Pending
<1>5. field'[cur] = NewField /\ \A x \in Spools \ {cur} : field'[x] = field[x]
  BY <1>1, <1>3 DEF Links
<1>6. CASE target = "native"
  <2>1. ToNative BY <1>3, <1>6 DEF PlaceInv
  <2>2. NewField = {} BY <1>1, <1>6, <2>1 DEF NewField, ToNative
  <2>3. \A x \in Spools : Looked(x)' = Looked(x) BY <1>1, <1>6 DEF Looked
  <2>4. \A x \in Spools \ Pending' : field'[x] = {}
    BY <1>4, <1>5, <2>1, <2>2 DEF ToNative
  <2>5. pc' = "spool" BY <1>1, <1>6
  <2>6. \A x \in Spools : {c \in Looked(x)' : Untagged(c)'} = {c \in Looked(x) : Untagged(c)}
    BY <1>1, <2>3, SameListing
  <2>7. ToNative' BY <1>1, <2>1, <2>4, <2>5, <2>6, SameListing DEF ToNative
  <2> QED BY <1>6, <2>7
<1>7. CASE target = "card_uids"
  <2>1. ToCardUids BY <1>3, <1>7 DEF PlaceInv
  <2>2. NewField = tagsAt[cur] \cup {c \in fieldAt[cur] : Untagged(c)}
    <3>1. NewField = {c \in fieldAt[cur] : ~TaggedElsewhere(c)} \cup tagsAt[cur]
      BY <1>7 DEF NewField
    <3>2. \A c : c \notin tagsAt[cur] => (~TaggedElsewhere(c) <=> Untagged(c))
      BY <1>3 DEF TaggedElsewhere, Untagged
    <3>3. \A c : Untagged(c) => c \notin tagsAt[cur] BY <1>3 DEF Untagged
    <3> QED BY <3>1, <3>2, <3>3
  <2>3. pc' = "unlink" /\ todo = tagsAt[cur] BY <1>1, <1>7, <2>1 DEF ToCardUids
  <2>4. \A x \in Spools \ Pending' : field'[x] = tagsAt[x] \cup {c \in fieldAt[x] : Untagged(c)}
    BY <1>4, <1>5, <2>1, <2>2 DEF ToCardUids
  <2>5. \A x \in Spools \ Pending' : tags[x] = IF x = cur THEN todo ELSE {}
    <3>1. \A x \in Spools \ Pending : tags[x] = {} BY <1>1, <2>1 DEF ToCardUids
    <3>2. tags[cur] = tagsAt[cur] BY <1>4, <2>1 DEF ToCardUids
    <3> QED BY <1>4, <2>3, <3>1, <3>2
  <2>6. \A x \in Pending' : tags[x] = tagsAt[x] BY <1>4, <2>1 DEF ToCardUids
  <2>7. ToCardUids' BY <1>1, <2>3, <2>4, <2>5, <2>6, SameListing DEF ToCardUids
  <2> QED BY <1>7, <2>7
<1> QED BY <1>6, <1>7 DEF IInv, TypeOK, Stores

LEMMA UnlinkPlaces ==
  ASSUME IInv, PlaceInv, NEW c \in Cards, UnlinkTag(c) PROVE PlaceInv'
<1>1. /\ pc = "unlink" /\ pc' = "unlink" /\ todo' = todo \ {c}
      /\ tags' = [tags EXCEPT ![cur] = @ \ {c}]
      /\ UNCHANGED <<target, fieldAt, tagsAt, left, cur, keep, failed, field>>
  BY DEF UnlinkTag
<1>2. SUFFICES ASSUME ~failed PROVE /\ target = "native" => ToNative'
                                    /\ target = "card_uids" => ToCardUids'
  BY <1>1 DEF PlaceInv, Clean
<1>3. cur \in Spools \ left /\ target = "card_uids" /\ tags \in Links
  BY <1>1 DEF IInv, RunInv, Working, NativeInv, TypeOK, Stores
<1>4. ToCardUids BY <1>1, <1>2, <1>3 DEF PlaceInv, Clean, Working
<1>5. Pending' = Pending /\ cur \notin Pending BY <1>1, <1>3 DEF Pending
<1>6. tags'[cur] = tags[cur] \ {c} /\ \A x \in Spools \ {cur} : tags'[x] = tags[x]
  BY <1>1, <1>3 DEF Links
<1>7. tags[cur] = todo BY <1>1, <1>3, <1>4, <1>5 DEF ToCardUids
<1>8. \A x \in Spools \ Pending' : tags'[x] = IF x = cur THEN todo' ELSE {}
  BY <1>1, <1>4, <1>5, <1>6, <1>7 DEF ToCardUids
<1>9. Pending \subseteq Spools BY <1>1 DEF Pending, IInv, TypeOK
<1>10. \A x \in Pending' : tags'[x] = tagsAt[x] BY <1>4, <1>5, <1>6, <1>9 DEF ToCardUids
<1>11. ToCardUids' BY <1>1, <1>4, <1>5, <1>8, <1>10, SameListing DEF ToCardUids
<1> QED BY <1>3, <1>11

LEMMA ListPlaces == ASSUME IInv, PlaceInv, ListSpools PROVE PlaceInv'
<1>1. /\ pc = "list" /\ pc' = "spool" /\ left' = Spools /\ fieldAt' = field /\ tagsAt' = tags
      /\ UNCHANGED <<field, tags, target, cur>>
  BY DEF ListSpools, World, Goto
<1>2. ToNative' BY <1>1 DEF ToNative, Looked, Pending
<1>3. ToCardUids' BY <1>1 DEF ToCardUids, Pending
<1> QED BY <1>1, <1>2, <1>3 DEF PlaceInv

(* The script goes from one spool to the next, or to its end. *)
LEMMA TurnPlaces ==
  ASSUME IInv, PlaceInv, LastSpool \/ AllLinked \/ AllUnlinked PROVE PlaceInv'
<1>1. UNCHANGED <<target, fieldAt, tagsAt, left, cur, todo, keep, failed, field, tags>>
  BY DEF LastSpool, AllLinked, AllUnlinked, Data, World
<1>2. \/ pc = "spool" /\ left = {} /\ pc' = "done"
      \/ pc = "link" /\ todo = {} /\ pc' = IF keep # fieldAt[cur] THEN "patch" ELSE "spool"
      \/ pc = "unlink" /\ todo = {} /\ pc' = "spool"
  BY DEF LastSpool, AllLinked, AllUnlinked, Goto
<1>3. SUFFICES ASSUME ~failed PROVE /\ target = "native" => ToNative'
                                    /\ target = "card_uids" => ToCardUids'
  BY <1>1, <1>2 DEF PlaceInv, Clean
<1>4. Clean BY <1>2, <1>3 DEF Clean, Working
<1>5. /\ pc = "link" => target = "native" /\ cur \in Spools
      /\ pc = "unlink" => target = "card_uids"
      /\ pc \in {"link", "unlink"} => cur \notin left
  BY DEF IInv, RunInv, Working, NativeInv, CardUidsInv, TypeOK, Stores
<1>6. CASE target = "native"
  <2>1. ToNative BY <1>4, <1>6 DEF PlaceInv
  <2>2. \A x \in Spools : Looked(x)' = Looked(x) BY <1>1, <1>2, <1>5, <1>6 DEF Looked
  <2>3. \A x \in Spools \ Pending' : field[x] = {}
    <3>1. CASE pc' = "spool" /\ pc = "link"
      <4>1. fieldAt[cur] = {} BY <1>2, <2>1, <3>1 DEF ToNative
      <4>2. field[cur] = fieldAt[cur]
        BY <3>1 DEF IInv, RunInv, Working, Pending
      <4> QED BY <1>1, <2>1, <3>1, <4>1, <4>2 DEF ToNative, Pending
    <3>2. CASE ~(pc' = "spool" /\ pc = "link")
      <4>1. Pending' = Pending BY <1>1, <1>2, <1>5, <1>6, <3>2 DEF Pending
      <4> QED BY <2>1, <4>1 DEF ToNative
    <3> QED BY <3>1, <3>2
  <2>4. \A x \in Spools : {c \in Looked(x)' : Untagged(c)'} = {c \in Looked(x) : Untagged(c)}
    BY <1>1, <2>2, SameListing
  <2>5. /\ pc' # "link" /\ (pc' = "patch" => keep = {})
    BY <1>2, <2>1 DEF ToNative
  <2>6. ToNative' BY <1>1, <2>1, <2>3, <2>4, <2>5, SameListing DEF ToNative
  <2> QED BY <1>6, <2>6
<1>7. CASE target = "card_uids"
  <2>1. ToCardUids BY <1>4, <1>7 DEF PlaceInv
  <2>2. Pending' = Pending /\ pc' \notin {"patch", "unlink"} BY <1>1, <1>2, <1>5, <1>7 DEF Pending
  <2>3. \A x \in Spools \ Pending : tags[x] = {} BY <1>2, <2>1 DEF ToCardUids
  <2>4. ToCardUids' BY <1>1, <2>1, <2>2, <2>3, SameListing DEF ToCardUids
  <2> QED BY <1>7, <2>4
<1> QED BY <1>6, <1>7 DEF IInv, TypeOK, Stores

LEMMA PlaceStep == ASSUME IInv, PlaceInv, [Next]_vars PROVE PlaceInv'
<1>1. CASE \E c \in Cards : LinkTag(c) BY <1>1, LinkPlaces
<1>2. CASE \E s \in Spools : NextSpool(s) BY <1>2, NextSpoolPlaces
<1>3. CASE SetCardUids BY <1>3, PatchPlaces
<1>4. CASE \E c \in Cards : UnlinkTag(c) BY <1>4, UnlinkPlaces
<1>5. CASE ListSpools BY <1>5, ListPlaces
<1>6. CASE LastSpool \/ AllLinked \/ AllUnlinked BY <1>6, TurnPlaces
<1>7. CASE \E c \in Cards : LinkTagFails(c) \/ UnlinkTagFails(c)
  <2>1. failed' /\ pc \in {"link", "unlink"} /\ pc' = pc
    BY <1>7 DEF LinkTagFails, UnlinkTagFails
  <2> QED BY <2>1 DEF PlaceInv, Clean
<1>8. CASE SetStore \/ Crash \/ ListSpoolsFails \/ CheckNativeUnreachable \/ SetCardUidsFails
  <2>1. pc' = "idle"
    BY <1>8 DEF SetStore, Crash, ListSpoolsFails, CheckNativeUnreachable, SetCardUidsFails, Abort, Stop
  <2> QED BY <2>1 DEF PlaceInv, Clean, Working
<1>9. CASE \E st \in Stores : Start(st)
  <2>1. pc' = "version" /\ cur' = None BY <1>9 DEF Start
  <2> QED BY <2>1 DEF PlaceInv, Clean, Working
<1>10. CASE CheckNative \/ CheckNativeHttpError
  <2>1. pc = "version" /\ pc' \in {"list", "idle", "done"} /\ cur' = cur
    BY <1>10 DEF CheckNative, CheckNativeHttpError, Goto, Data
  <2> QED BY <2>1 DEF PlaceInv, Clean, Working
<1>11. CASE \E c \in Cards, s \in Spools : Assign(c, s)
  <2>1. pc' = "idle" BY <1>11 DEF Assign, script
  <2> QED BY <2>1 DEF PlaceInv, Clean, Working
<1>12. CASE UNCHANGED vars
  <2>1. UNCHANGED <<pc, target, fieldAt, tagsAt, left, cur, todo, keep, failed, field, tags>>
    BY <1>12 DEF vars, script
  <2>2. Pending' = Pending /\ Ambiguous' = Ambiguous /\ (Clean' <=> Clean)
    BY <2>1 DEF Pending, Ambiguous, Clean, Working
  <2>3. (ToNative' <=> ToNative) /\ (ToCardUids' <=> ToCardUids)
    BY <2>1, <2>2 DEF ToNative, ToCardUids, Looked, Untagged
  <2> QED BY <2>1, <2>2, <2>3 DEF PlaceInv
<1> QED BY <1>1, <1>2, <1>3, <1>4, <1>5, <1>6, <1>7, <1>8, <1>9, <1>10, <1>11, <1>12
        DEF Next, Script

(* A run that works through its listing and leaves nothing in place puts   *)
(* every card on the spool it was on, a tag before a field, and empties    *)
(* the store it came from.                                                 *)
THEOREM MigrationPlacesCards == Spec => []EveryCardOnItsSpool
<1>1. Init => PlaceInv BY DEF Init, PlaceInv, Clean, Working
<1>2. IInv /\ PlaceInv /\ [Next]_vars => PlaceInv' BY PlaceStep
<1>3. IInv /\ PlaceInv => EveryCardOnItsSpool
  <2> SUFFICES ASSUME IInv, PlaceInv, pc = "done", ~failed, cur # None
               PROVE  LET to == IF target = "native" THEN tags ELSE field
                          from == IF target = "native" THEN field ELSE tags
                      IN  to = Merged(fieldAt, tagsAt) /\ from = NoLinks
    BY DEF EveryCardOnItsSpool
  <2>1. left = {} /\ Clean /\ Pending = {} BY DEF PlaceInv, Clean, Pending
  <2>2. field \in Links /\ tags \in Links BY DEF IInv, TypeOK
  <2>3. \A s \in Spools : Merged(fieldAt, tagsAt)[s] = tagsAt[s] \cup {c \in fieldAt[s] : Untagged(c)}
    BY DEF Merged, Untagged
  <2>4. CASE target = "native"
    <3>1. ToNative BY <2>1, <2>4 DEF PlaceInv
    <3>2. \A s \in Spools : Looked(s) = fieldAt[s] BY <2>1 DEF Looked
    <3>3. \A s \in Spools : tags[s] = Merged(fieldAt, tagsAt)[s] /\ field[s] = {}
      BY <2>1, <2>3, <3>1, <3>2 DEF ToNative
    <3>4. tags = Merged(fieldAt, tagsAt) /\ field = NoLinks
      BY <2>2, <3>3 DEF Links, Merged, NoLinks
    <3> QED BY <2>4, <3>4
  <2>5. CASE target = "card_uids"
    <3>1. ToCardUids BY <2>1, <2>5 DEF PlaceInv
    <3>2. \A s \in Spools : field[s] = Merged(fieldAt, tagsAt)[s] /\ tags[s] = {}
      BY <2>1, <2>3, <3>1 DEF ToCardUids
    <3>3. field = Merged(fieldAt, tagsAt) /\ tags = NoLinks
      BY <2>2, <3>2 DEF Links, Merged, NoLinks
    <3> QED BY <2>5, <3>3
  <2> QED BY <2>4, <2>5 DEF IInv, TypeOK, Stores
<1> QED BY <1>1, <1>2, <1>3, Inductive, PTL DEF Spec
================================================================================
