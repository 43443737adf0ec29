--------------------------- MODULE ExtendedPkgProofs ---------------------------
(***************************************************************************)
(* For any number of callers, versions and parts of a package: what counts *)
(* as installed is whole, an upgrade that fails keeps what was installed,  *)
(* and a call that ran alone and reports success has delivered.            *)
(***************************************************************************)
EXTENDS ExtendedPkg, TLAPS

\* The legacy directory is there only for a package that has one.
LegacyKnown == Legacy \in dirs => def.legacy

\* Calls that run together are not alone, and hurt remembers it: a call that
\* finishes a removal clears hurt only when nothing else has run beside it.
Overlaps ==
  /\ \A p \in Callers : Running(p) /\ ~proc[p].alone => hurt
  /\ \A p, q \in Callers : p # q /\ Running(p) /\ Running(q) => ~proc[p].alone

\* Where each command can be.
Courses ==
  \A p \in Callers :
    /\ proc[p].cmd = "upgrade" => proc[p].pc \notin {"check", "wipe", "wipeRest"}
    /\ proc[p].cmd = "clean" => proc[p].pc \in {"idle", "wipe", "wipeRest", "ok"}

WholeDirs == (~hurt /\ ~Removing) => \A d \in dirs : parts[d] = Parts

Alone(p) == proc[p].alone

\* What p found is as it was.
Kept(p) ==
  LET had == proc[p].had IN
  /\ had.dir # None => InstallDir = had.dir /\ parts[had.dir] = had.parts
  /\ proc[p].piped \/ venv = had.venv

\* What a call that runs alone knows of the directories and the virtual environment
\* at each step.
Progress ==
  \A p \in Callers : Alone(p) =>
    /\ proc[p].pc \in {"hook", "pip", "binaries", "remove", "removeRest", "move"} => staged = Parts
    /\ proc[p].pc = "move" => dirs = {}
    /\ proc[p].pc \in {"link", "tidy"} => dirs = {pinned} /\ parts[pinned] = Parts
    /\ proc[p].pc = "tidy" => latest = pinned
    /\ proc[p].pc = "pip" => venv # None
    /\ (proc[p].pc \in {"binaries", "remove", "removeRest", "move", "link", "tidy"} /\ def.hook)
         => venv = pinned

\* Until it removes what is installed, an upgrade has not touched it, nor the
\* environment before its hook.
Untouched ==
  \A p \in Callers :
    (/\ Alone(p) /\ proc[p].cmd = "upgrade"
     /\ proc[p].pc \in {"fresh", "fetch", "verify", "extract", "unpack", "hook", "pip",
                        "binaries", "fail"})
    => Kept(p)

\* A call at pip has noted so.
Noted == \A p \in Callers : proc[p].pc = "pip" => proc[p].piped

IInv == TypeOK /\ LegacyKnown /\ Overlaps /\ Courses /\ Noted /\ WholeDirs /\ Progress /\ Untouched

--------------------------------------------------------------------------------

LEMMA InitOK == ASSUME Init PROVE IInv
<1> USE ExtendedPkgAssumption DEF Init, Rest, Nothing
<1>1. TypeOK BY DEF TypeOK, Commands, Dirs, Venvs
<1>2. LegacyKnown BY DEF LegacyKnown
<1>3. Overlaps BY DEF Overlaps, Running
<1>4. Courses BY DEF Courses
<1>5. WholeDirs BY DEF WholeDirs, Dirs
<1>6. Progress BY DEF Progress
<1>7. Untouched BY DEF Untouched
<1>8. Noted BY DEF Noted
<1> QED BY <1>1, <1>2, <1>3, <1>4, <1>5, <1>6, <1>7, <1>8 DEF IInv

Labels == {"idle", "check", "wipe", "wipeRest", "fresh", "fetch", "verify", "extract", "unpack",
           "hook", "pip", "binaries", "remove", "removeRest", "move", "link", "tidy", "ok", "fail",
           "failed"}
Founds == [dir : Dirs \cup {None}, parts : SUBSET Parts, venv : Venvs]
Procs == [pc : Labels, cmd : Commands, alone : BOOLEAN, piped : BOOLEAN, had : Founds]

LEMMA ProcsType == TypeOK => proc \in [Callers -> Procs]
  BY DEF TypeOK, Procs, Labels, Founds

\* A step of p leaves the other calls and what p remembers as they are.
Others(p) ==
  \A q \in Callers : /\ proc'[q].cmd = proc[q].cmd
                     /\ proc'[q].alone = proc[q].alone
                     /\ proc'[q].had = proc[q].had
                     /\ proc'[q].piped = proc[q].piped \/ (q = p /\ proc'[q].piped)
                     /\ q # p => proc'[q].pc = proc[q].pc

LEMMA GoOK ==
  ASSUME proc \in [Callers -> Procs], NEW p \in Callers, NEW pc \in Labels, Go(p, pc)
  PROVE  proc' \in [Callers -> Procs] /\ proc'[p].pc = pc /\ Others(p)
  BY DEF Go, Procs, Others

\* Where a step of p leads.
Leads(p) ==
  CASE proc[p].pc = "check" -> proc'[p].pc \in {"ok", "wipe"}
    [] proc[p].pc = "wipe" -> proc'[p].pc = "wipeRest"
    [] proc[p].pc = "wipeRest" -> proc'[p].pc = IF proc[p].cmd = "clean" THEN "ok" ELSE "fresh"
    [] proc[p].pc = "fresh" -> proc'[p].pc = "fetch"
    [] proc[p].pc = "fetch" -> proc'[p].pc \in {"verify", "fail"}
    [] proc[p].pc = "verify" -> proc'[p].pc \in {"extract", "fail"}
    [] proc[p].pc = "extract" -> proc'[p].pc = "unpack"
    [] proc[p].pc = "unpack" -> proc'[p].pc \in {"hook", "fail"}
    [] proc[p].pc = "hook" -> proc'[p].pc \in {"pip", "binaries"}
    [] proc[p].pc = "pip" -> proc'[p].pc \in {"binaries", "fail"}
    [] proc[p].pc = "binaries" -> proc'[p].pc \in {"remove", "fail"}
    [] proc[p].pc = "remove" -> proc'[p].pc = "removeRest"
    [] proc[p].pc = "removeRest" -> proc'[p].pc = "move"
    [] proc[p].pc = "move" -> proc'[p].pc = "link"
    [] proc[p].pc = "link" -> proc'[p].pc = "tidy"
    [] proc[p].pc = "tidy" -> proc'[p].pc = "ok"
    [] proc[p].pc = "fail" -> proc'[p].pc = "failed"
    [] OTHER -> FALSE

LEMMA StepLeads ==
  ASSUME IInv, NEW p \in Callers, Step(p)
  PROVE  proc' \in [Callers -> Procs] /\ Others(p) /\ Leads(p)
<1>0. proc \in [Callers -> Procs] BY ProcsType DEF IInv
<1>1. \A pc \in Labels : Go(p, pc) => proc' \in [Callers -> Procs] /\ Others(p) /\ proc'[p].pc = pc
  BY <1>0, GoOK
<1> USE DEF At, Labels
<1>2. CASE Check(p) BY <1>1, <1>2 DEF Check, Leads
<1>3. CASE Wipe(p) BY <1>1, <1>3 DEF Wipe, Leads
<1>4. CASE WipeRest(p) BY <1>1, <1>4 DEF WipeRest, Leads
<1>5. CASE Fresh(p) BY <1>1, <1>5 DEF Fresh, Leads
<1>6. CASE Fetch(p) BY <1>1, <1>6 DEF Fetch, Leads
<1>7. CASE Verify(p) BY <1>1, <1>7 DEF Verify, Leads
<1>8. CASE Extract(p) BY <1>1, <1>8 DEF Extract, Leads
<1>9. CASE Unpack(p) BY <1>1, <1>9 DEF Unpack, Leads
<1>10. CASE Hook(p)
  <2>1. CASE Go(p, "binaries") BY <1>1, <1>10, <2>1 DEF Hook, Leads
  <2>2. CASE proc' = [proc EXCEPT ![p].pc = "pip", ![p].piped = TRUE]
    BY <1>0, <1>10, <2>2 DEF Hook, Leads, Others, Procs
  <2> QED BY <1>10, <2>1, <2>2 DEF Hook
<1>20. CASE Pip(p) BY <1>1, <1>20 DEF Pip, Leads
<1>11. CASE Binaries(p) BY <1>1, <1>11 DEF Binaries, Leads
<1>12. CASE Remove(p) BY <1>1, <1>12 DEF Remove, Leads
<1>13. CASE RemoveRest(p) BY <1>1, <1>13 DEF RemoveRest, Leads
<1>14. CASE Move(p) BY <1>1, <1>14 DEF Move, Leads
<1>15. CASE Link(p) BY <1>1, <1>15 DEF Link, Leads
<1>16. CASE Tidy(p) BY <1>1, <1>16 DEF Tidy, Leads
<1>17. CASE Fail(p) BY <1>1, <1>17 DEF Fail, Leads
<1> QED BY <1>2, <1>3, <1>4, <1>5, <1>6, <1>7, <1>8, <1>9, <1>10, <1>11, <1>12, <1>13, <1>14, <1>15, <1>16, <1>17, <1>20 DEF Step

\* The store as a step leaves it.
LEMMA StoreType ==
  ASSUME IInv, NEW p \in Callers, Step(p)
  PROVE  /\ def' = def /\ pinned' = pinned
         /\ dirs' \subseteq Dirs /\ parts' \in [Dirs -> SUBSET Parts]
         /\ \A d \in Dirs \ dirs' : parts'[d] = {}
         /\ latest' \in Versions \cup {None} /\ venv' \in Venvs
         /\ archive' \in {"none", "good", "bad"} /\ staged' \in SUBSET Parts
         /\ hurt' \in BOOLEAN
<1> USE DEF IInv, TypeOK, store, tmp, Dirs, Venvs
<1>1. pinned \in Dirs /\ dirs \subseteq Dirs OBVIOUS
<1>2. CASE Check(p) BY <1>1, <1>2 DEF Check, Reduced, Removed
<1>3. CASE Wipe(p) BY <1>1, <1>3 DEF Wipe, Reduced, Removed
<1>4. CASE WipeRest(p) BY <1>1, <1>4 DEF WipeRest, Reduced, Removed
<1>5. CASE Fresh(p) BY <1>1, <1>5 DEF Fresh, Reduced, Removed
<1>6. CASE Fetch(p) BY <1>1, <1>6 DEF Fetch, Reduced, Removed
<1>7. CASE Verify(p) BY <1>1, <1>7 DEF Verify, Reduced, Removed
<1>8. CASE Extract(p) BY <1>1, <1>8 DEF Extract, Reduced, Removed
<1>9. CASE Unpack(p) BY <1>1, <1>9 DEF Unpack, Reduced, Removed
<1>10. CASE Hook(p) BY <1>1, <1>10 DEF Hook, Reduced, Removed
<1>20. CASE Pip(p) BY <1>1, <1>20 DEF Pip, Reduced, Removed
<1>11. CASE Binaries(p) BY <1>1, <1>11 DEF Binaries, Reduced, Removed
<1>12. CASE Remove(p) BY <1>1, <1>12 DEF Remove, Reduced, Removed
<1>13. CASE RemoveRest(p) BY <1>1, <1>13 DEF RemoveRest, Reduced, Removed
<1>14. CASE Move(p) BY <1>1, <1>14 DEF Move, Reduced, Removed
<1>15. CASE Link(p) BY <1>1, <1>15 DEF Link, Reduced, Removed
<1>16. CASE Tidy(p) BY <1>1, <1>16 DEF Tidy, Reduced, Removed
<1>17. CASE Fail(p) BY <1>1, <1>17 DEF Fail, Reduced, Removed
<1> QED BY <1>2, <1>3, <1>4, <1>5, <1>6, <1>7, <1>8, <1>9, <1>10, <1>11, <1>12, <1>13, <1>14, <1>15, <1>16, <1>17, <1>20 DEF Step

LEMMA LegacyKnownOK == ASSUME IInv, NEW p \in Callers, Step(p) PROVE LegacyKnown'
<1> USE ExtendedPkgAssumption DEF IInv, LegacyKnown, store
<1>1. pinned # Legacy BY DEF TypeOK
<1>2. CASE Check(p) BY <1>1, <1>2 DEF Check, Reduced, Removed
<1>3. CASE Wipe(p) BY <1>1, <1>3 DEF Wipe, Reduced, Removed
<1>4. CASE WipeRest(p) BY <1>1, <1>4 DEF WipeRest, Reduced, Removed
<1>5. CASE Fresh(p) BY <1>1, <1>5 DEF Fresh, Reduced, Removed
<1>6. CASE Fetch(p) BY <1>1, <1>6 DEF Fetch, Reduced, Removed
<1>7. CASE Verify(p) BY <1>1, <1>7 DEF Verify, Reduced, Removed
<1>8. CASE Extract(p) BY <1>1, <1>8 DEF Extract, Reduced, Removed
<1>9. CASE Unpack(p) BY <1>1, <1>9 DEF Unpack, Reduced, Removed
<1>10. CASE Hook(p) BY <1>1, <1>10 DEF Hook, Reduced, Removed
<1>20. CASE Pip(p) BY <1>1, <1>20 DEF Pip, Reduced, Removed
<1>11. CASE Binaries(p) BY <1>1, <1>11 DEF Binaries, Reduced, Removed
<1>12. CASE Remove(p) BY <1>1, <1>12 DEF Remove, Reduced, Removed
<1>13. CASE RemoveRest(p) BY <1>1, <1>13 DEF RemoveRest, Reduced, Removed
<1>14. CASE Move(p) BY <1>1, <1>14 DEF Move, Reduced, Removed
<1>15. CASE Link(p) BY <1>1, <1>15 DEF Link, Reduced, Removed
<1>16. CASE Tidy(p) BY <1>1, <1>16 DEF Tidy, Reduced, Removed
<1>17. CASE Fail(p) BY <1>1, <1>17 DEF Fail, Reduced, Removed
<1> QED BY <1>2, <1>3, <1>4, <1>5, <1>6, <1>7, <1>8, <1>9, <1>10, <1>11, <1>12, <1>13, <1>14, <1>15, <1>16, <1>17, <1>20 DEF Step

\* hurt is cleared by a call that ran alone, and then nothing else runs.
LEMMA HurtSteps ==
  ASSUME IInv, NEW p \in Callers, Step(p)
  PROVE  Running(p) /\ (hurt => (hurt' \/ (Alone(p) /\ proc[p].pc \in {"wipeRest", "removeRest"})))
<1> USE DEF Running, At, Alone
<1>1. CASE Check(p) BY <1>1 DEF Check
<1>2. CASE Wipe(p) BY <1>2 DEF Wipe
<1>3. CASE WipeRest(p) BY <1>3 DEF WipeRest
<1>4. CASE Fresh(p) BY <1>4 DEF Fresh
<1>5. CASE Fetch(p) BY <1>5 DEF Fetch
<1>6. CASE Verify(p) BY <1>6 DEF Verify
<1>7. CASE Extract(p) BY <1>7 DEF Extract
<1>8. CASE Unpack(p) BY <1>8 DEF Unpack
<1>9. CASE Hook(p) BY <1>9 DEF Hook
<1>20. CASE Pip(p) BY <1>20 DEF Pip
<1>10. CASE Binaries(p) BY <1>10 DEF Binaries
<1>11. CASE Remove(p) BY <1>11 DEF Remove
<1>12. CASE RemoveRest(p) BY <1>12 DEF RemoveRest
<1>13. CASE Move(p) BY <1>13 DEF Move
<1>14. CASE Link(p) BY <1>14 DEF Link
<1>15. CASE Tidy(p) BY <1>15 DEF Tidy
<1>16. CASE Fail(p) BY <1>16 DEF Fail
<1> QED BY <1>1, <1>2, <1>3, <1>4, <1>5, <1>6, <1>7, <1>8, <1>9, <1>10, <1>11, <1>12, <1>13, <1>14, <1>15, <1>16, <1>20 DEF Step

LEMMA OverlapsOK == ASSUME IInv, NEW p \in Callers, Step(p) PROVE Overlaps'
<1>1. Others(p) /\ Running(p) BY StepLeads, HurtSteps
<1>2. \A q \in Callers : /\ Running(q)' => Running(q)
                         /\ proc'[q].alone = proc[q].alone
  BY <1>1 DEF Others, Running
<1>3. ASSUME NEW q \in Callers, Running(q)', ~proc'[q].alone PROVE hurt'
  <2>1. Running(q) /\ ~proc[q].alone BY <1>2, <1>3
  <2>2. hurt BY <2>1 DEF IInv, Overlaps
  <2>3. ~proc[p].alone BY <1>1, <2>1 DEF IInv, Overlaps
  <2> QED BY <2>2, <2>3, HurtSteps DEF Alone
<1>4. ASSUME NEW q \in Callers, NEW r \in Callers, q # r, Running(q)', Running(r)'
      PROVE  ~proc'[q].alone
  <2>1. Running(q) /\ Running(r) /\ proc'[q].alone = proc[q].alone BY <1>2, <1>4
  <2>2. ~proc[q].alone BY <1>4, <2>1 DEF IInv, Overlaps
  <2> QED BY <2>1, <2>2
<1> QED BY <1>3, <1>4 DEF Overlaps

LEMMA CoursesOK == ASSUME IInv, NEW p \in Callers, Step(p) PROVE Courses'
<1>1. Others(p) /\ Leads(p) BY StepLeads
<1>2. \A q \in Callers \ {p} : proc'[q].pc = proc[q].pc /\ proc'[q].cmd = proc[q].cmd
  BY <1>1 DEF Others
<1>3. proc'[p].cmd = "upgrade" => proc'[p].pc \notin {"check", "wipe", "wipeRest"}
  BY <1>1 DEF IInv, Courses, Others, Leads
<1>4. proc'[p].cmd = "clean" => proc'[p].pc \in {"idle", "wipe", "wipeRest", "ok"}
  BY <1>1 DEF IInv, Courses, Others, Leads
<1> QED BY <1>2, <1>3, <1>4 DEF IInv, Courses

\* What a step of a call does to the directories, by where the call is.
LEMMA StoreSteps ==
  ASSUME IInv, NEW p \in Callers, Step(p)
  PROVE  /\ proc[p].pc \notin {"wipe", "wipeRest", "remove", "removeRest", "move", "link", "fail"}
              => UNCHANGED store
         /\ proc[p].pc \notin {"wipe", "wipeRest", "hook", "pip", "fail"} => venv' = venv
         /\ proc[p].pc \in {"wipeRest", "removeRest"} => dirs' = {}
         /\ proc[p].pc = "wipeRest" => latest' = None /\ venv' = None
         /\ proc[p].pc = "move" =>
              \/ UNCHANGED <<dirs, parts>>
              \/ staged # {} /\ dirs' = dirs \cup {pinned} /\ parts' = [parts EXCEPT ![pinned] = staged]
         /\ (proc[p].pc = "move" /\ staged = Parts /\ parts[pinned] = {}) => dirs' = dirs \cup {pinned} /\ parts' = [parts EXCEPT ![pinned] = Parts]
         /\ proc[p].pc = "link" => UNCHANGED <<dirs, parts>> /\ latest' = pinned
         /\ proc[p].pc = "fail" => UNCHANGED store \/ Removed(Versions)
         /\ (proc[p].pc = "fail" /\ proc[p].cmd = "upgrade") => UNCHANGED <<store, venv>>
<1> USE ExtendedPkgAssumption DEF At, store
<1>1. dirs \subseteq Dirs /\ (Legacy \in dirs => def.legacy) BY DEF IInv, TypeOK, LegacyKnown
<1>2. CASE Check(p) BY <1>2 DEF Check
<1>3. CASE Wipe(p) BY <1>3 DEF Wipe
<1>4. CASE WipeRest(p)
  BY <1>1, <1>4 DEF WipeRest, Removed
<1>5. CASE Fresh(p) BY <1>5 DEF Fresh
<1>6. CASE Fetch(p) BY <1>6 DEF Fetch
<1>7. CASE Verify(p) BY <1>7 DEF Verify
<1>8. CASE Extract(p) BY <1>8 DEF Extract
<1>9. CASE Unpack(p) BY <1>9 DEF Unpack
<1>10. CASE Hook(p) BY <1>10 DEF Hook
<1>20. CASE Pip(p) BY <1>20 DEF Pip
<1>11. CASE Binaries(p) BY <1>11 DEF Binaries
<1>12. CASE Remove(p) BY <1>12 DEF Remove
<1>13. CASE RemoveRest(p)
  BY <1>1, <1>13 DEF RemoveRest, Removed, Old, Dirs
<1>14. CASE Move(p) BY <1>14 DEF Move
<1>15. CASE Link(p) BY <1>15 DEF Link
<1>16. CASE Tidy(p) BY <1>16 DEF Tidy
<1>17. CASE Fail(p) BY <1>17 DEF Fail
<1> QED BY <1>2, <1>3, <1>4, <1>5, <1>6, <1>7, <1>8, <1>9, <1>10, <1>11, <1>12, <1>13, <1>14, <1>15, <1>16, <1>17, <1>20 DEF Step

LEMMA StagedSteps ==
  ASSUME IInv, NEW p \in Callers, Step(p)
  PROVE  /\ (proc[p].pc = "unpack" /\ proc'[p].pc = "hook") => staged' = Parts
         /\ proc[p].pc \in {"hook", "pip", "binaries", "remove", "removeRest"} => staged' = staged
<1> USE DEF At, store, tmp
<1>0. proc \in [Callers -> Procs] BY ProcsType DEF IInv
<1>1. CASE Check(p) BY <1>1 DEF Check
<1>2. CASE Wipe(p) BY <1>2 DEF Wipe
<1>3. CASE WipeRest(p) BY <1>3 DEF WipeRest
<1>4. CASE Fresh(p) BY <1>4 DEF Fresh
<1>5. CASE Fetch(p) BY <1>5 DEF Fetch
<1>6. CASE Verify(p) BY <1>6 DEF Verify
<1>7. CASE Extract(p) BY <1>7 DEF Extract
<1>8. CASE Unpack(p)
  <2>1. proc[p].pc = "unpack" BY <1>8 DEF Unpack
  <2>2. Go(p, "fail") => proc'[p].pc = "fail" BY <1>0, GoOK DEF Labels
  <2> QED BY <1>8, <2>1, <2>2 DEF Unpack
<1>9. CASE Hook(p) BY <1>9 DEF Hook
<1>20. CASE Pip(p) BY <1>20 DEF Pip
<1>10. CASE Binaries(p) BY <1>10 DEF Binaries
<1>11. CASE Remove(p) BY <1>11 DEF Remove
<1>12. CASE RemoveRest(p) BY <1>12 DEF RemoveRest
<1>13. CASE Move(p) BY <1>13 DEF Move
<1>14. CASE Link(p) BY <1>14 DEF Link
<1>15. CASE Tidy(p) BY <1>15 DEF Tidy
<1>16. CASE Fail(p) BY <1>16 DEF Fail
<1> QED BY <1>1, <1>2, <1>3, <1>4, <1>5, <1>6, <1>7, <1>8, <1>9, <1>10, <1>11, <1>12, <1>13, <1>14, <1>15, <1>16, <1>20 DEF Step

LEMMA WholeDirsOK == ASSUME IInv, NEW p \in Callers, Step(p) PROVE WholeDirs'
<1> SUFFICES ASSUME ~hurt', ~Removing', NEW d \in dirs' PROVE parts'[d] = Parts
  BY DEF WholeDirs
<1>1. Others(p) /\ Leads(p) /\ Running(p) BY StepLeads, HurtSteps
<1>2. proc[p].pc \notin {"wipe", "wipeRest", "remove", "removeRest"}
  <2>1. proc'[p].pc \notin {"wipeRest", "removeRest"} BY DEF Removing
  <2> QED BY <1>1, <2>1, StoreSteps DEF Leads
<1>3. ~hurt BY <1>2, HurtSteps
<1>4. ~Removing BY <1>1, <1>2 DEF Removing, Others
<1>5. \A e \in dirs : parts[e] = Parts BY <1>3, <1>4 DEF IInv, WholeDirs
<1>6. Alone(p) BY <1>1, <1>3 DEF IInv, Overlaps, Alone
<1>7. CASE proc[p].pc = "move"
  <2>1. staged = Parts BY <1>6, <1>7 DEF IInv, Progress
  <2>2. parts \in [Dirs -> SUBSET Parts] /\ dirs \subseteq Dirs /\ pinned \in Dirs
    BY DEF IInv, TypeOK, Dirs
  <2> QED BY <1>5, <1>7, <2>1, <2>2, StoreSteps
<1>8. CASE proc[p].pc = "link" BY <1>5, <1>8, StoreSteps
<1>9. CASE proc[p].pc = "fail"
  <2>1. dirs \subseteq Dirs BY DEF IInv, TypeOK
  <2> QED BY <1>5, <1>9, <2>1, StoreSteps DEF Removed, store
<1>10. CASE proc[p].pc \notin {"move", "link", "fail"} BY <1>2, <1>5, <1>10, StoreSteps DEF store
<1> QED BY <1>7, <1>8, <1>9, <1>10

\* While p runs, no other call that runs is alone.
LEMMA OnlyP ==
  ASSUME IInv, NEW p \in Callers, Step(p), NEW q \in Callers, q # p, Alone(q)'
  PROVE  ~Running(q)'
<1>1. Others(p) /\ Running(p) BY StepLeads, HurtSteps
<1>2. (Running(q)' => Running(q)) /\ (Alone(q)' <=> Alone(q)) BY <1>1 DEF Others, Running, Alone
<1> QED BY <1>1, <1>2 DEF IInv, Overlaps, Alone

\* What the hook does to the environment.
LEMMA HookSteps ==
  ASSUME IInv, NEW p \in Callers, Step(p)
  PROVE  /\ (proc[p].pc = "hook" /\ proc'[p].pc = "pip") => proc'[p].piped /\ venv' # None
         /\ (proc[p].pc = "hook" /\ proc'[p].pc # "pip") => ~def.hook /\ venv' = venv
         /\ proc[p].pc = "hook" => proc'[p].piped \/ venv' = venv
         /\ proc[p].pc = "pip" /\ Alone(p) /\ venv # None /\ proc'[p].pc = "binaries" => venv' = pinned
         /\ proc[p].pc = "pip" /\ proc[p].piped => proc'[p].piped
<1> USE ExtendedPkgAssumption
<1>0. proc \in [Callers -> Procs] BY ProcsType DEF IInv
<1>1. ASSUME proc[p].pc = "hook" PROVE Hook(p)
  BY <1>1 DEF Step, At, Check, Wipe, WipeRest, Fresh, Fetch, Verify, Extract, Unpack, Pip, Binaries,
     Remove, RemoveRest, Move, Link, Tidy, Fail
<1>2. ASSUME proc[p].pc = "pip" PROVE Pip(p)
  BY <1>2 DEF Step, At, Check, Wipe, WipeRest, Fresh, Fetch, Verify, Extract, Unpack, Hook, Binaries,
     Remove, RemoveRest, Move, Link, Tidy, Fail
<1>3. ASSUME proc[p].pc = "hook", def.hook PROVE proc'[p].pc = "pip" /\ proc'[p].piped /\ venv' # None
  BY <1>0, <1>1, <1>3 DEF Hook, Procs
<1>4. ASSUME proc[p].pc = "hook", ~def.hook PROVE proc'[p].pc = "binaries" /\ venv' = venv
  <2>1. Go(p, "binaries") /\ venv' = venv BY <1>1, <1>4 DEF Hook
  <2> QED BY <1>0, <2>1, GoOK DEF Labels
<1>5. ASSUME proc[p].pc = "pip" PROVE proc'[p].piped = proc[p].piped
  <2>1. Go(p, "binaries") \/ Go(p, "fail") BY <1>2, <1>5 DEF Pip
  <2> QED BY <1>0, <2>1 DEF Go, Procs
<1>6. ASSUME proc[p].pc = "pip", Alone(p), venv # None, proc'[p].pc = "binaries" PROVE venv' = pinned
  <2>1. \A q \in Callers \ {p} : ~Running(q) BY <1>6 DEF IInv, Overlaps, Running, Alone
  <2>2. ~Go(p, "fail") BY <1>0, <1>6, GoOK DEF Labels
  <2> QED BY <1>2, <1>6, <2>1, <2>2 DEF Pip
<1> QED BY <1>3, <1>4, <1>5, <1>6

LEMMA ProgressOK == ASSUME IInv, NEW p \in Callers, Step(p) PROVE Progress'
<1> DEFINE Knows(q) ==
      /\ proc[q].pc \in {"hook", "pip", "binaries", "remove", "removeRest", "move"} => staged = Parts
      /\ proc[q].pc = "move" => dirs = {}
      /\ proc[q].pc \in {"link", "tidy"} => dirs = {pinned} /\ parts[pinned] = Parts
      /\ proc[q].pc = "tidy" => latest = pinned
      /\ proc[q].pc = "pip" => venv # None
      /\ (proc[q].pc \in {"binaries", "remove", "removeRest", "move", "link", "tidy"} /\ def.hook)
           => venv = pinned
<1>1. ASSUME NEW q \in Callers, q # p, Alone(q)' PROVE Knows(q)'
  BY <1>1, OnlyP DEF Running
<1>2. ASSUME Alone(p)' PROVE Knows(p)'
  <2>1. Others(p) /\ Leads(p) /\ pinned' = pinned BY StepLeads, StoreType
  <2>2. Knows(p) BY <1>2, <2>1 DEF IInv, Progress, Others, Alone
  <2>3. proc'[p].pc \in {"hook", "pip", "binaries", "remove", "removeRest", "move"} => staged' = Parts
    BY <2>1, <2>2, StagedSteps DEF Leads
  <2>4. proc'[p].pc = "move" => dirs' = {} BY <2>1, StoreSteps DEF Leads
  <2>5. ASSUME proc'[p].pc = "link" PROVE dirs' = {pinned} /\ parts'[pinned] = Parts
    <3>1. proc[p].pc = "move" BY <2>1, <2>5 DEF Leads
    <3>2. staged = Parts /\ dirs = {} BY <2>2, <3>1
    <3>3. pinned \in Dirs \ dirs /\ parts \in [Dirs -> SUBSET Parts] BY <3>2 DEF IInv, TypeOK, Dirs
    <3>4. parts[pinned] = {} BY <3>3 DEF IInv, TypeOK
    <3> QED BY <3>1, <3>2, <3>3, <3>4, StoreSteps
  <2>6. ASSUME proc'[p].pc = "tidy" PROVE dirs' = {pinned} /\ parts'[pinned] = Parts /\ latest' = pinned
    <3>1. proc[p].pc = "link" BY <2>1, <2>6 DEF Leads
    <3> QED BY <2>2, <3>1, StoreSteps
  <2>7. proc'[p].pc = "pip" => venv' # None BY <1>2, <2>1, HookSteps DEF Leads
  <2>8. ASSUME proc'[p].pc \in {"binaries", "remove", "removeRest", "move", "link", "tidy"}, def.hook
        PROVE  venv' = pinned
    <3>1. proc[p].pc \in {"pip", "binaries", "remove", "removeRest", "move", "link"}
      BY <1>2, <2>1, <2>8, HookSteps DEF Leads
    <3>2. CASE proc[p].pc = "pip"
      <4>1. Alone(p) BY <1>2, <2>1 DEF Others, Alone
      <4> QED BY <2>1, <2>2, <2>8, <3>2, <4>1, HookSteps DEF Leads
    <3>3. CASE proc[p].pc # "pip" BY <2>2, <2>8, <3>1, <3>3, StoreSteps
    <3> QED BY <3>2, <3>3
  <2>9. def' = def BY StoreType
  <2> QED BY <2>1, <2>3, <2>4, <2>5, <2>6, <2>7, <2>8, <2>9
<1>3. \A q \in Callers : Alone(q)' => Knows(q)' BY <1>1, <1>2
<1> QED BY <1>3 DEF Progress

LEMMA UntouchedOK == ASSUME IInv, NEW p \in Callers, Step(p) PROVE Untouched'
<1> DEFINE Early(q) == Alone(q) /\ proc[q].cmd = "upgrade" /\
      proc[q].pc \in {"fresh", "fetch", "verify", "extract", "unpack", "hook", "pip", "binaries", "fail"}
<1>1. ASSUME NEW q \in Callers, q # p, Early(q)' PROVE FALSE BY <1>1, OnlyP DEF Running
<1>2. ASSUME Early(p)' PROVE Kept(p)'
  <2>1. Others(p) /\ Leads(p) /\ def' = def BY StepLeads, StoreType
  <2>2. /\ Alone(p) /\ proc[p].cmd = "upgrade"
        /\ proc[p].pc \in {"fresh", "fetch", "verify", "extract", "unpack", "hook", "pip", "binaries"}
    BY <1>2, <2>1 DEF IInv, Courses, Others, Leads, Alone
  <2>3. Kept(p) /\ proc'[p].had = proc[p].had BY <2>1, <2>2 DEF IInv, Untouched, Others
  <2>4. InstallDir' = InstallDir /\ parts' = parts BY <2>1, <2>2, StoreSteps DEF InstallDir, store
  <2>5. proc'[p].piped \/ venv' = proc'[p].had.venv
    <3>1. proc[p].piped => proc'[p].piped BY <2>1 DEF Others
    <3>2. CASE proc[p].pc = "hook" BY <2>3, <3>1, <3>2, HookSteps DEF Kept
    <3>3. CASE proc[p].pc = "pip" BY <2>1, <3>3 DEF IInv, Noted, Others
    <3>4. CASE proc[p].pc \notin {"hook", "pip"} BY <2>2, <2>3, <3>1, <3>4, StoreSteps DEF Kept
    <3> QED BY <3>2, <3>3, <3>4
  <2> QED BY <2>3, <2>4, <2>5 DEF Kept
<1>3. \A q \in Callers : Early(q)' => Kept(q)' BY <1>1, <1>2
<1> QED BY <1>3 DEF Untouched

LEMMA StepOK == ASSUME IInv, NEW p \in Callers, Step(p) PROVE IInv'
<1>1. TypeOK'
  <2>1. proc' \in [Callers -> Procs] BY StepLeads
  <2>2. def' \in Definitions /\ pinned' \in Versions BY StoreType DEF IInv, TypeOK
  <2> QED BY <2>1, <2>2, StoreType DEF TypeOK, Procs, Labels, Founds
<1>2. Noted'
  <2>1. Others(p) /\ Leads(p) BY StepLeads
  <2>2. \A q \in Callers \ {p} : proc'[q].pc = proc[q].pc /\ proc'[q].piped = proc[q].piped
    BY <2>1 DEF Others
  <2>3. proc'[p].pc = "pip" => proc'[p].piped BY <2>1, HookSteps DEF Leads
  <2> QED BY <2>2, <2>3 DEF IInv, Noted
<1> QED
  BY <1>1, <1>2, LegacyKnownOK, OverlapsOK, CoursesOK, WholeDirsOK, ProgressOK, UntouchedOK DEF IInv

LEMMA AskOK == ASSUME IInv, NEW p \in Callers, NEW cmd \in Commands, Ask(p, cmd) PROVE IInv'
<1> DEFINE others == {q \in Callers \ {p} : Running(q)}
<1>1. /\ ~Running(p) /\ UNCHANGED <<def, pinned, dirs, parts, latest, venv, archive, staged>>
      /\ hurt' = (hurt \/ others # {})
  BY DEF Ask, store, tmp
<1>2. Had \in Founds
  <2>1. InstallDir \in Dirs \cup {None} BY DEF InstallDir, Dirs, IInv, TypeOK
  <2>2. ASSUME Installed PROVE parts[InstallDir] \in SUBSET Parts
    BY <2>1, <2>2 DEF Installed, IInv, TypeOK
  <2>3. venv \in Venvs BY DEF IInv, TypeOK
  <2> QED BY <2>1, <2>2, <2>3 DEF Had, Founds
<1>3. proc \in [Callers -> Procs] BY ProcsType DEF IInv
<1>4. /\ proc'[p].pc = IF cmd = "download" THEN "check" ELSE IF cmd = "clean" THEN "wipe" ELSE "fresh"
      /\ proc'[p].cmd = cmd /\ (proc'[p].alone = (others = {}))
      /\ proc'[p].had = Had /\ proc'[p].piped = FALSE
  BY DEF Ask
<1>5. \A q \in Callers \ {p} : proc'[q] = [proc[q] EXCEPT !.alone = proc[q].alone /\ q \notin others]
  BY DEF Ask
<1>6. \A q \in Callers \ {p} : /\ proc'[q].pc = proc[q].pc /\ proc'[q].cmd = proc[q].cmd
                               /\ proc'[q].had = proc[q].had /\ proc'[q].piped = proc[q].piped
                               /\ proc'[q].alone = (proc[q].alone /\ q \notin others)
                               /\ proc'[q] \in Procs
  <2> SUFFICES ASSUME NEW q \in Callers \ {p}
               PROVE  /\ proc'[q].pc = proc[q].pc /\ proc'[q].cmd = proc[q].cmd
                      /\ proc'[q].had = proc[q].had /\ proc'[q].piped = proc[q].piped
                      /\ proc'[q].alone = (proc[q].alone /\ q \notin others)
                      /\ proc'[q] \in Procs
    OBVIOUS
  <2> DEFINE a == proc[q].alone /\ q \notin others
  <2>1. a \in BOOLEAN OBVIOUS
  <2>2. proc[q] \in Procs /\ proc'[q] = [proc[q] EXCEPT !.alone = a] BY <1>3, <1>5
  <2> HIDE DEF a
  <2>3. /\ proc'[q].pc = proc[q].pc /\ proc'[q].cmd = proc[q].cmd
        /\ proc'[q].had = proc[q].had /\ proc'[q].piped = proc[q].piped
        /\ proc'[q].alone = a /\ proc'[q] \in Procs
    BY <2>1, <2>2 DEF Procs
  <2> QED BY <2>3 DEF a
<1>7. proc' \in [Callers -> Procs]
  <2>1. proc'[p] \in Procs BY <1>2, <1>4 DEF Ask, Procs, Labels, Commands
  <2> QED BY <1>6, <2>1 DEF Ask
<1>8. TypeOK'
  <2>1. hurt' \in BOOLEAN BY <1>1
  <2> QED BY <1>1, <1>7, <2>1 DEF IInv, TypeOK, Procs, Labels, Founds
<1>9. Overlaps'
  <2>1. \A q \in Callers : Running(q)' => q = p \/ q \in others BY <1>6 DEF Running
  <2>2. \A q \in Callers : q \in others => ~proc'[q].alone BY <1>6
  <2>3. proc'[p].alone => others = {} BY <1>4
  <2>4. \A q \in Callers : Running(q)' /\ ~proc'[q].alone => hurt'
    <3>1. ~proc'[p].alone => others # {} BY <1>4
    <3> QED BY <1>1, <2>1, <3>1
  <2> QED BY <2>1, <2>2, <2>3, <2>4 DEF Overlaps
<1>10. LegacyKnown' BY <1>1 DEF IInv, LegacyKnown
<1>11. Courses' BY <1>4, <1>6 DEF IInv, Courses, Commands
<1>12. WholeDirs'
  <2>1. ~hurt' => ~hurt BY <1>1
  <2>2. Removing => Removing' BY <1>1, <1>6 DEF Removing, Running
  <2> QED BY <1>1, <2>1, <2>2 DEF IInv, WholeDirs
<1>13. \A q \in Callers \ {p} : Alone(q)' => Alone(q) BY <1>6 DEF Alone
<1>14. Progress' BY <1>1, <1>4, <1>6, <1>13 DEF IInv, Progress
<1>15. Untouched'
  <2>1. InstallDir' = InstallDir /\ parts' = parts /\ venv' = venv BY <1>1 DEF InstallDir
  <2>2. Kept(p)' BY <1>4, <2>1 DEF Kept, Had
  <2>3. \A q \in Callers \ {p} : Kept(q) => Kept(q)' BY <1>6, <2>1 DEF Kept
  <2> QED BY <1>6, <1>13, <2>2, <2>3 DEF IInv, Untouched
<1>16. Noted' BY <1>4, <1>6 DEF IInv, Noted
<1> QED BY <1>8, <1>9, <1>10, <1>11, <1>12, <1>14, <1>15, <1>16 DEF IInv

LEMMA RestOK ==
  ASSUME IInv, UNCHANGED <<def, store, venv, tmp>>, pinned' \in Versions, hurt' \in BOOLEAN,
         proc' = [p \in Callers |-> Rest], (hurt \/ Removing) => hurt'
  PROVE  IInv'
<1>1. \A p \in Callers : proc'[p] = Rest OBVIOUS
<1>2. TypeOK' BY DEF IInv, TypeOK, Rest, Nothing, store, tmp, Commands, Venvs
<1>3. WholeDirs' BY DEF IInv, WholeDirs, store
<1>4. LegacyKnown' BY DEF IInv, LegacyKnown, store
<1> QED BY <1>1, <1>2, <1>3, <1>4 DEF IInv, Overlaps, Courses, Noted, Progress, Untouched, Running, Rest

LEMMA NextOK == ASSUME IInv, [Next]_vars PROVE IInv'
<1>1. CASE \E p \in Callers : Step(p) BY <1>1, StepOK
<1>2. CASE \E p \in Callers, cmd \in Commands : Ask(p, cmd) BY <1>2, AskOK
<1>3. CASE Cut
  <2>1. hurt' = (hurt \/ Removing) BY <1>3 DEF Cut, Removing
  <2>2. hurt' \in BOOLEAN /\ ((hurt \/ Removing) => hurt') BY <2>1
  <2> QED BY <1>3, <2>2, RestOK DEF Cut, IInv, TypeOK
<1>4. CASE \E v \in Versions : NewFirmware(v)
  <2>1. ~Removing BY <1>4 DEF NewFirmware, Removing, Running
  <2> QED BY <1>4, <2>1, RestOK DEF NewFirmware, IInv, TypeOK
<1>5. CASE UNCHANGED vars
  BY <1>5 DEF vars, store, tmp, IInv, TypeOK, LegacyKnown, Overlaps, Courses, WholeDirs, Progress,
     Untouched, Noted, Kept, Running, Removing, Alone, InstallDir
<1> QED BY <1>1, <1>2, <1>3, <1>4, <1>5 DEF Next

LEMMA Inductive == Spec => []IInv
<1>1. Init => IInv BY InitOK
<1>2. IInv /\ [Next]_vars => IInv' BY NextOK
<1> QED BY <1>1, <1>2, PTL DEF Spec

--------------------------------------------------------------------------------

\* Every variable keeps its type; a directory that is not there holds nothing.
THEOREM TypeCorrect == Spec => []TypeOK
<1>1. IInv => TypeOK BY DEF IInv
<1> QED BY <1>1, Inductive, PTL

\* What extended-pkg calls installed is a whole package, wherever a call fails or
\* is cut, unless a removal was cut or calls overlapped.
THEOREM WhatIsInstalledIsWhole == Spec => []InstalledIsWhole
<1>1. IInv => InstalledIsWhole
  <2> SUFFICES ASSUME IInv, Installed, ~Removing, ~hurt PROVE Whole(InstallDir)
    BY DEF InstalledIsWhole
  <2>1. InstallDir # None BY DEF Installed
  <2>2. InstallDir \in dirs BY <2>1 DEF InstallDir
  <2> QED BY <2>1, <2>2 DEF IInv, WholeDirs, Whole
<1> QED BY <1>1, Inductive, PTL

\* A call comes to its end by a step of its own.
LEMMA EndsByStep ==
  ASSUME IInv, Next, NEW p \in Callers, Running(p), Alone(p), proc'[p].pc \in {"ok", "failed"}
  PROVE  Step(p)
<1>1. ASSUME NEW q \in Callers, Step(q) PROVE q = p
  <2>1. Others(q) BY <1>1, StepLeads
  <2> QED BY <2>1 DEF Others, Running
<1>2. ASSUME NEW q \in Callers, NEW cmd \in Commands, Ask(q, cmd) PROVE FALSE
  <2>1. q # p BY <1>2 DEF Ask
  <2>2. proc \in [Callers -> Procs] BY ProcsType DEF IInv
  <2>3. proc'[p] = [proc[p] EXCEPT !.alone = proc[p].alone /\ p \notin {r \in Callers \ {q} : Running(r)}]
    BY <1>2, <2>1 DEF Ask
  <2>4. proc'[p].pc = proc[p].pc BY <2>2, <2>3 DEF Procs
  <2> QED BY <2>4 DEF Running
<1>3. ~Cut /\ ~(\E v \in Versions : NewFirmware(v)) BY DEF Cut, NewFirmware, Rest
<1> QED BY <1>1, <1>2, <1>3 DEF Next

\* An upgrade that runs alone and fails leaves, after its own cleanup, the directory
\* it found installed and all that was in it; and the virtual environment beside it,
\* unless its hook had begun to install there.
THEOREM FailedUpgradeKeepsOld == Spec => FailedKeepsOld
<1> DEFINE Keeps(p) ==
      /\ proc[p].had.dir # None => /\ InstallDir' = proc[p].had.dir
                                  /\ parts'[proc[p].had.dir] = proc[p].had.parts
      /\ proc[p].piped \/ venv' = proc[p].had.venv
<1> DEFINE K == \A p \in Callers :
                  (/\ Running(p) /\ proc[p].alone /\ proc[p].cmd = "upgrade"
                   /\ proc'[p].pc = "failed") => Keeps(p)
<1>1. IInv /\ [Next]_vars => [K]_vars
  <2> SUFFICES ASSUME IInv, Next, NEW p \in Callers, Running(p), proc[p].alone,
                      proc[p].cmd = "upgrade", proc'[p].pc = "failed"
               PROVE  Keeps(p)
    BY Zenon
  <2>1. Step(p) BY EndsByStep DEF Alone
  <2>2. proc[p].pc = "fail" BY <2>1, StepLeads DEF Leads
  <2>3. UNCHANGED <<store, venv>> /\ def' = def BY <2>1, <2>2, StoreSteps, StoreType
  <2>4. Kept(p) BY <2>2 DEF IInv, Untouched, Alone
  <2>5. InstallDir' = InstallDir /\ parts' = parts BY <2>3 DEF InstallDir, store
  <2> QED BY <2>3, <2>4, <2>5 DEF Kept
<1> QED BY <1>1, Inductive, PTL DEF Spec, FailedKeepsOld

\* How a call that runs alone ends well.
LEMMA EndsWell ==
  ASSUME IInv, NEW p \in Callers, Step(p), Alone(p), proc'[p].pc = "ok"
  PROVE  \/ proc[p].pc = "wipeRest" /\ proc[p].cmd = "clean"
         \/ proc[p].pc = "check" /\ proc[p].cmd = "download" /\ Installed
         \/ proc[p].pc = "tidy" /\ proc[p].cmd # "clean"
<1>1. Leads(p) BY StepLeads
<1>2. proc[p].pc \in {"check", "wipeRest", "tidy"} BY <1>1 DEF Leads
<1>3. proc[p].cmd \in Commands BY DEF IInv, TypeOK
<1>4. CASE proc[p].pc = "check"
  <2>1. proc[p].cmd = "download" BY <1>3, <1>4 DEF IInv, Courses, Commands
  <2>2. Check(p)
    BY <1>4 DEF Step, At, Wipe, WipeRest, Fresh, Fetch, Verify, Extract, Unpack, Hook, Pip, Binaries,
       Remove, RemoveRest, Move, Link, Tidy, Fail
  <2>3. proc \in [Callers -> Procs] BY ProcsType DEF IInv
  <2>4. Go(p, "wipe") => proc'[p].pc = "wipe" BY <2>3, GoOK DEF Labels
  <2> QED BY <1>4, <2>1, <2>2, <2>4 DEF Check
<1>5. CASE proc[p].pc = "wipeRest" BY <1>1, <1>5 DEF Leads
<1>6. CASE proc[p].pc = "tidy" BY <1>6 DEF IInv, Courses
<1> QED BY <1>2, <1>4, <1>5, <1>6

\* A call that ran alone and reports success has done what it was asked for:
\* clean has left nothing, an upgrade the pinned version and nothing else, a
\* download a package that is installed, and whole if nothing was hurt before; and
\* what it installed with a hook has the virtual environment of its version.
THEOREM SuccessDelivers == Spec => Delivers
<1> DEFINE Done(p) ==
      /\ CASE proc[p].cmd = "clean" -> dirs' = {} /\ latest' = None /\ venv' = None
           [] proc[p].cmd = "upgrade" -> /\ InstallDir' = pinned /\ Whole(pinned)'
                                         /\ dirs' = {pinned} /\ ~NeedsUpgrade'
           [] OTHER -> Installed' /\ (hurt \/ Whole(InstallDir)')
      /\ (At(p, "tidy") /\ def.hook) => venv' = pinned
<1> DEFINE D == \A p \in Callers :
                  (Running(p) /\ proc[p].alone /\ proc'[p].pc = "ok") => Done(p)
<1>1. ASSUME IInv, NEW p \in Callers, Running(p), Alone(p), Step(p), proc'[p].pc = "ok"
      PROVE  Done(p)
  <2>1. /\ def' = def /\ pinned' = pinned /\ pinned \in Dirs /\ pinned \in Versions /\ def \in Definitions
    BY <1>1, StoreType DEF IInv, TypeOK, Dirs
  <2>2. CASE proc[p].pc = "wipeRest" /\ proc[p].cmd = "clean" BY <1>1, <2>2, StoreSteps DEF At
  <2>3. CASE proc[p].pc = "check" /\ proc[p].cmd = "download" /\ Installed
    <3>1. UNCHANGED store BY <1>1, <2>3, StoreSteps
    <3>2. Installed' /\ InstallDir' = InstallDir BY <2>1, <2>3, <3>1 DEF Installed, InstallDir, store
    <3>3. ASSUME ~hurt PROVE Whole(InstallDir)
      <4>1. ~Removing BY <1>1, <2>3 DEF IInv, Overlaps, Removing, Running, Alone
      <4>2. InstallDir \in dirs /\ InstallDir # None BY <2>3 DEF Installed, InstallDir
      <4> QED BY <1>1, <3>3, <4>1, <4>2 DEF IInv, WholeDirs, Whole
    <3>4. parts' = parts BY <3>1 DEF store
    <3> QED BY <2>3, <3>2, <3>3, <3>4 DEF Whole, At
  <2>4. CASE proc[p].pc = "tidy" /\ proc[p].cmd # "clean"
    <3>1. dirs = {pinned} /\ parts[pinned] = Parts /\ latest = pinned
      BY <1>1, <2>4 DEF IInv, Progress
    <3>2. dirs' = {pinned} /\ parts'[pinned] = Parts /\ latest' = pinned
      BY <1>1, <2>1, <2>4, <3>1, StoreSteps DEF store
    <3>3. pinned # None BY <2>1, ExtendedPkgAssumption
    <3>4. InstallDir' = pinned BY <3>2 DEF InstallDir
    <3>5. Whole(pinned)' BY <2>1, <3>2, <3>3 DEF Whole
    <3>6. Whole(InstallDir)' BY <2>1, <3>4, <3>5 DEF Whole
    <3>7. ~NeedsUpgrade' BY <2>1, <3>2 DEF NeedsUpgrade
    <3>8. Installed'
      <4>1. def.binaries \subseteq Parts BY <2>1, ExtendedPkgAssumption
      <4> QED BY <2>1, <3>2, <3>3, <3>4, <4>1 DEF Installed
    <3>9. def.hook => venv' = pinned BY <1>1, <2>4, StoreSteps DEF IInv, Progress
    <3> QED BY <2>4, <3>2, <3>4, <3>5, <3>6, <3>7, <3>8, <3>9
  <2> QED BY <1>1, <2>2, <2>3, <2>4, EndsWell
<1>2. IInv /\ [Next]_vars => [D]_vars
  <2> SUFFICES ASSUME IInv, Next, NEW p \in Callers, Running(p), proc[p].alone, proc'[p].pc = "ok"
               PROVE  Done(p)
    BY Zenon
  <2> QED BY <1>1, EndsByStep DEF Alone
<1> QED BY <1>2, Inductive, PTL DEF Spec, Delivers

================================================================================
