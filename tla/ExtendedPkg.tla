------------------------------- MODULE ExtendedPkg -------------------------------
(***************************************************************************)
(* extended-pkg installs an optional app: it stages the pinned version in a*)
(* temporary directory, verifies it, removes what is installed, moves the  *)
(* new directory in and points the link "latest" at it. A hook may prepare *)
(* a virtual environment that all versions share. Settings, quick          *)
(* actions and users call it, more than one at a time; power may be lost   *)
(* between any two steps, and in the middle of a removal.                  *)
(***************************************************************************)
EXTENDS Naturals

CONSTANTS
  Callers,       \* processes that run extended-pkg for one package
  Versions,      \* versions that firmwares pin
  Legacy, None,  \* the install directory of old firmwares; no directory
  Parts,         \* what an unpacked archive holds
  Definitions,   \* [binaries |-> parts that are checked, legacy |-> it has a
                 \* legacy directory, hook |-> it has a pkg_post_install]
  MaxCalls, MaxCuts, MaxFirmwares   \* bounds: calls, power cuts, new firmwares

Dirs == Versions \cup {Legacy}

ASSUME ExtendedPkgAssumption ==
  /\ {MaxCalls, MaxCuts, MaxFirmwares} \subseteq Nat
  /\ Legacy \notin Versions /\ None \notin Dirs /\ Parts # {}
  /\ "part" \notin Versions \cup {None}
  /\ \A d \in Definitions : /\ d.binaries \subseteq Parts
                            /\ d.legacy \in BOOLEAN /\ d.hook \in BOOLEAN

VARIABLES
  def, pinned,      \* the package's definition, and PKG_VERSION in it
  dirs, parts,      \* the install directories, and what is in each
  latest,           \* the directory the link names, there or not
  venv,             \* the hook's virtual environment, beside the directories: for
                    \* which version it is complete, "part", or None
  archive, staged,  \* of TMP_DIR: the archive, the parts in STAGING_DIR
  proc,             \* what each process is doing
  left,             \* calls, cuts and new firmwares left
  hurt              \* history: a removal was cut, or calls overlapped, and
                    \* no call that ran alone has removed all of it since

store == <<dirs, parts, latest>>
tmp == <<archive, staged>>
vars == <<def, pinned, store, venv, tmp, proc, left, hurt>>

Commands == {"download", "upgrade", "clean"}
Nothing == [dir |-> None, parts |-> {}, venv |-> None]
Rest == [pc |-> "idle", cmd |-> "clean", alone |-> TRUE, piped |-> FALSE, had |-> Nothing]
Running(p) == proc[p].pc \notin {"idle", "ok", "failed"}

Venvs == Versions \cup {None, "part"}

TypeOK ==
  /\ def \in Definitions /\ pinned \in Versions
  /\ dirs \subseteq Dirs /\ parts \in [Dirs -> SUBSET Parts]
  /\ \A d \in Dirs \ dirs : parts[d] = {}
  /\ latest \in Versions \cup {None} /\ venv \in Venvs
  /\ archive \in {"none", "good", "bad"} /\ staged \in SUBSET Parts
  /\ proc \in [Callers -> [pc : {"idle", "check", "wipe", "wipeRest", "fresh", "fetch",
                                 "verify", "extract", "unpack", "hook", "pip", "binaries",
                                 "remove", "removeRest", "move", "link", "tidy", "ok", "fail",
                                 "failed"},
                           cmd : Commands, alone : BOOLEAN, piped : BOOLEAN,
                           had : [dir : Dirs \cup {None}, parts : SUBSET Parts, venv : Venvs]]]
  /\ hurt \in BOOLEAN

\* Nothing is installed, or what the firmware of the legacy layout left.
Init ==
  /\ def \in Definitions /\ pinned \in Versions
  /\ dirs \in (IF def.legacy THEN {{}, {Legacy}} ELSE {{}})
  /\ parts = [d \in Dirs |-> IF d \in dirs THEN Parts ELSE {}]
  /\ latest = None /\ venv = None /\ archive = "none" /\ staged = {}
  /\ proc = [p \in Callers |-> Rest]
  /\ left = [calls |-> MaxCalls, cuts |-> MaxCuts, firmwares |-> MaxFirmwares]
  /\ hurt = FALSE

At(p, pc) == proc[p].pc = pc
Go(p, pc) == proc' = [proc EXCEPT ![p].pc = pc]
Spend(what) == left[what] > 0 /\ left' = [left EXCEPT ![what] = @ - 1]

\* INSTALL_DIR: what the link resolves to, or the legacy directory.
InstallDir ==
  IF latest \in dirs THEN latest
  ELSE IF def.legacy /\ Legacy \in dirs THEN Legacy ELSE None

\* installed: the binaries are there, or without any the directory.
Installed == InstallDir # None /\ def.binaries \subseteq parts[InstallDir]

\* What a call finds.
Had ==
  [dir   |-> IF Installed THEN InstallDir ELSE None,
   parts |-> IF Installed THEN parts[InstallDir] ELSE {},
   venv  |-> venv]

Whole(d) == d # None /\ parts[d] = Parts

NeedsUpgrade == IF latest \in dirs THEN latest # pinned ELSE def.legacy /\ Installed

--------------------------------------------------------------------------------

Ask(p, cmd) ==
  LET others == {q \in Callers \ {p} : Running(q)} IN
  /\ ~Running(p) /\ Spend("calls")
  /\ proc' = [q \in Callers |->
       IF q = p
       THEN [pc |-> IF cmd = "download" THEN "check" ELSE IF cmd = "clean" THEN "wipe"
                    ELSE "fresh",
             cmd |-> cmd, alone |-> others = {}, piped |-> FALSE, had |-> Had]
       ELSE [proc[q] EXCEPT !.alone = @ /\ q \notin others]]
  /\ hurt' = (hurt \/ others # {})
  /\ UNCHANGED <<def, pinned, store, venv, tmp>>

Check(p) ==
  /\ At(p, "check") /\ Go(p, IF Installed THEN "ok" ELSE "wipe")
  /\ UNCHANGED <<def, pinned, store, venv, tmp, left, hurt>>

\* rm -rf removes files in some order, and a directory after what is in it.
Reduced(ds) ==
  /\ parts' \in {f \in [Dirs -> SUBSET Parts] :
                   \A d \in Dirs : f[d] \subseteq parts[d] /\ (d \notin ds => f[d] = parts[d])}
  /\ \E gone \in SUBSET {d \in ds : parts'[d] = {}} : dirs' = dirs \ gone

Removed(ds) ==
  /\ dirs' = dirs \ ds
  /\ parts' = [d \in Dirs |-> IF d \in ds THEN {} ELSE parts[d]]

\* clean removes the application's directory, with the link and TMP_DIR in it,
\* and the legacy one; here in any order.
Wipe(p) ==
  /\ At(p, "wipe") /\ Go(p, "wipeRest")
  /\ Reduced(Dirs) /\ latest' \in {latest, None}
  /\ venv' \in {venv, None} \cup (IF venv = None THEN {} ELSE {"part"})
  /\ UNCHANGED <<def, pinned, tmp, left, hurt>>

WipeRest(p) ==
  /\ At(p, "wipeRest") /\ Go(p, IF proc[p].cmd = "clean" THEN "ok" ELSE "fresh")
  /\ Removed(Dirs) /\ latest' = None /\ venv' = None /\ archive' = "none" /\ staged' = {}
  /\ hurt' = (hurt /\ ~proc[p].alone)
  /\ UNCHANGED <<def, pinned, left>>

--------------------------------------------------------------------------------
(* download; a step that fails ends it.                                      *)

(* Mutant of Fresh: what is installed is removed with the old TMP_DIR.       *)
Fresh_RemovesOld(p) ==
  /\ At(p, "fresh") /\ Go(p, "fetch")
  /\ archive' = "none" /\ staged' = {} /\ Removed(Dirs)
  /\ UNCHANGED <<def, pinned, latest, venv, left, hurt>>

Fresh(p) ==
  /\ At(p, "fresh") /\ Go(p, "fetch")
  /\ archive' = "none" /\ staged' = {}
  /\ UNCHANGED <<def, pinned, store, venv, left, hurt>>

\* curl leaves an archive that may not be the pinned one, or fails.
Fetch(p) ==
  /\ At(p, "fetch")
  /\ \/ Go(p, "verify") /\ archive' \in {"good", "bad"}
     \/ Go(p, "fail") /\ UNCHANGED archive
  /\ UNCHANGED <<def, pinned, store, venv, staged, left, hurt>>

\* What another call is fetching into the same place does not match.
Verify(p) ==
  /\ At(p, "verify")
  /\ \/ Go(p, IF archive = "good" THEN "extract" ELSE "fail")
     \/ (\E q \in Callers \ {p} : At(q, "fetch")) /\ Go(p, "fail")
  /\ UNCHANGED <<def, pinned, store, venv, tmp, left, hurt>>

Extract(p) ==
  /\ At(p, "extract") /\ Go(p, "unpack")
  /\ staged' \in SUBSET Parts /\ staged \subseteq staged'
  /\ UNCHANGED <<def, pinned, store, venv, archive, left, hurt>>

(* Mutant of Unpack: the exit status of tar is not looked at.                *)
Unpack_Unchecked(p) ==
  /\ At(p, "unpack") /\ Go(p, "hook")
  /\ \/ archive = "good" /\ staged' = Parts
     \/ UNCHANGED staged
  /\ UNCHANGED <<def, pinned, store, venv, archive, left, hurt>>

\* The rest of the archive, when no other call has replaced it; or the disk is full.
Unpack(p) ==
  /\ At(p, "unpack")
  /\ \/ archive = "good" /\ Go(p, "hook") /\ staged' = Parts
     \/ Go(p, "fail") /\ UNCHANGED staged
  /\ UNCHANGED <<def, pinned, store, venv, archive, left, hurt>>

\* OctoEverywhere's pkg_post_install makes the virtual environment if there is
\* none, and pip replaces in it what the staged version asks for, piece by piece.
Hook(p) ==
  /\ At(p, "hook") /\ archive' = "none"
  /\ IF def.hook
     THEN /\ proc' = [proc EXCEPT ![p].pc = "pip", ![p].piped = TRUE]
          /\ venv' \in {venv, "part"} \ {None}
     ELSE Go(p, "binaries") /\ UNCHANGED venv
  /\ UNCHANGED <<def, pinned, store, staged, left, hurt>>

\* It completes, for all it knows when another call works beside it or has removed
\* the environment; or it fails and leaves what there is.
Pip(p) ==
  /\ At(p, "pip")
  /\ \/ /\ staged # {} /\ Go(p, "binaries")
        /\ \/ venv' = pinned
           \/ venv' = "part" /\ (venv = None \/ \E q \in Callers \ {p} : Running(q))
     \/ Go(p, "fail") /\ UNCHANGED venv
  /\ UNCHANGED <<def, pinned, store, tmp, left, hurt>>

Binaries(p) ==
  /\ At(p, "binaries") /\ Go(p, IF def.binaries \subseteq staged THEN "remove" ELSE "fail")
  /\ UNCHANGED <<def, pinned, store, venv, tmp, left, hurt>>

(* Mutant of Old: a directory of the pinned version is left where it is.     *)
Old_OtherVersions == (Versions \ {pinned}) \cup (IF def.legacy THEN {Legacy} ELSE {})

Old == Versions \cup (IF def.legacy THEN {Legacy} ELSE {})

Remove(p) ==
  /\ At(p, "remove") /\ Go(p, "removeRest")
  /\ Reduced(Old)
  /\ UNCHANGED <<def, pinned, latest, venv, tmp, left, hurt>>

RemoveRest(p) ==
  /\ At(p, "removeRest") /\ Go(p, "move")
  /\ Removed(Old)
  /\ hurt' = (hurt /\ ~proc[p].alone)
  /\ UNCHANGED <<def, pinned, latest, venv, tmp, left>>

(* Mutant of Move: the directory is moved into one that is in its place.     *)
Move_Nested(p) ==
  /\ At(p, "move") /\ Go(p, "link")
  /\ IF staged # {}
     THEN /\ dirs' = dirs \cup {pinned} /\ staged' = {}
          /\ parts' = [parts EXCEPT ![pinned] = IF pinned \in dirs THEN @ \cup {pinned} ELSE staged]
     ELSE UNCHANGED <<dirs, parts, staged>>
  /\ UNCHANGED <<def, pinned, latest, venv, archive, left, hurt>>

\* mv fails, unnoticed, when the staged directory is gone or the place is taken.
Move(p) ==
  /\ At(p, "move") /\ Go(p, "link")
  /\ IF staged # {} /\ parts[pinned] = {}
     THEN dirs' = dirs \cup {pinned} /\ parts' = [parts EXCEPT ![pinned] = staged] /\ staged' = {}
     ELSE UNCHANGED <<dirs, parts, staged>>
  /\ UNCHANGED <<def, pinned, latest, venv, archive, left, hurt>>

Link(p) ==
  /\ At(p, "link") /\ Go(p, "tidy")
  /\ latest' = pinned
  /\ UNCHANGED <<def, pinned, dirs, parts, venv, tmp, left, hurt>>

Tidy(p) ==
  /\ At(p, "tidy") /\ Go(p, "ok")
  /\ archive' = "none" /\ staged' = {}
  /\ UNCHANGED <<def, pinned, store, venv, left, hurt>>

(* Mutant of Fail: a failed upgrade is cleaned up as a failed download is.   *)
Fail_AsDownload(p) ==
  /\ At(p, "fail") /\ Go(p, "failed")
  /\ archive' = "none" /\ staged' = {}
  /\ Removed(Versions) /\ latest' = None /\ venv' = None
  /\ UNCHANGED <<def, pinned, left, hurt>>

\* A failed upgrade removes TMP_DIR, a failed download all of PKG_APP_DIR.
Fail(p) ==
  /\ At(p, "fail") /\ Go(p, "failed")
  /\ archive' = "none" /\ staged' = {}
  /\ IF proc[p].cmd = "download" THEN Removed(Versions) /\ latest' = None /\ venv' = None
     ELSE UNCHANGED <<store, venv>>
  /\ UNCHANGED <<def, pinned, left, hurt>>

--------------------------------------------------------------------------------

\* Power is lost; or the only call is killed, by the output that its client
\* does not read any more.
Cut ==
  /\ Spend("cuts")
  /\ proc' = [p \in Callers |-> Rest]
  /\ hurt' = (hurt \/ \E p \in Callers : proc[p].pc \in {"wipeRest", "removeRest"})
  /\ UNCHANGED <<def, pinned, store, venv, tmp>>

NewFirmware(v) ==
  /\ v # pinned /\ Spend("firmwares") /\ \A p \in Callers : ~Running(p)
  /\ pinned' = v
  /\ proc' = [p \in Callers |-> Rest]
  /\ UNCHANGED <<def, store, venv, tmp, hurt>>

Step(p) ==
  \/ Check(p) \/ Wipe(p) \/ WipeRest(p) \/ Fresh(p) \/ Fetch(p) \/ Verify(p) \/ Extract(p)
  \/ Unpack(p) \/ Hook(p) \/ Pip(p) \/ Binaries(p) \/ Remove(p) \/ RemoveRest(p)
  \/ Move(p) \/ Link(p) \/ Tidy(p) \/ Fail(p)

Next ==
  \/ \E p \in Callers : Step(p) \/ \E cmd \in Commands : Ask(p, cmd)
  \/ Cut \/ \E v \in Versions : NewFirmware(v)

Spec == Init /\ [][Next]_vars

--------------------------------------------------------------------------------
(* Properties                                                                *)

Removing == \E p \in Callers : proc[p].pc \in {"wipeRest", "removeRest"}

\* What check calls installed, and the services run, is a whole package, wherever
\* a call fails or is cut, except in the middle of a removal or after one that was
\* never finished, and after calls that overlapped.
InstalledIsWhole == (Installed /\ ~Removing /\ ~hurt) => Whole(InstallDir)

\* An upgrade that runs alone and fails leaves, when it has cleaned up after itself,
\* the directory that it found installed with all that was in it, and, if it failed
\* before the hook began, the virtual environment which that version runs in. (A hook
\* that fails has installed a part of the new requirements there.)
FailedKeepsOld ==
  [][\A p \in Callers :
       (/\ Running(p) /\ proc[p].alone /\ proc[p].cmd = "upgrade"
        /\ proc'[p].pc = "failed") =>
         /\ proc[p].had.dir # None => /\ InstallDir' = proc[p].had.dir
                                     /\ parts'[proc[p].had.dir] = proc[p].had.parts
         /\ proc[p].piped \/ venv' = proc[p].had.venv]_vars

\* A call that ran alone and reports success delivers: clean leaves nothing,
\* an upgrade the pinned version alone, whatever broken calls had left before,
\* and a download, unless they had left a part with the binaries, a whole package.
\* What was installed with a hook has the environment of its version; a download
\* that finds the package there looks at no environment.
Delivers ==
  [][\A p \in Callers :
       (Running(p) /\ proc[p].alone /\ proc'[p].pc = "ok") =>
         /\ CASE proc[p].cmd = "clean" -> dirs' = {} /\ latest' = None /\ venv' = None
              [] proc[p].cmd = "upgrade" -> /\ InstallDir' = pinned /\ Whole(pinned)'
                                            /\ dirs' = {pinned} /\ ~NeedsUpgrade'
              [] OTHER -> Installed' /\ (hurt \/ Whole(InstallDir)')
         /\ (At(p, "tidy") /\ def.hook) => venv' = pinned]_vars
================================================================================
