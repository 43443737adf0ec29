---------------------------- MODULE FirmwareConfig ----------------------------
(***************************************************************************)
(* The web server firmware-config.py: a thread for every request, and the  *)
(* two kinds of request that change the printer. A setting runs a script of*)
(* extended-config.py edits, each a process that reads the whole file and  *)
(* then rewrites it in place. A firmware upload writes one fixed path under*)
(* a file lock and runs the installer on that path, a process that goes on *)
(* when the client of its request has gone.                                *)
(***************************************************************************)
EXTENDS ExtendedConfig

CONSTANTS
  Threads,      \* request threads
  None,         \* no thread, no file
  Offered,      \* the options of the page, as <<setting, option>>
  Defaults,     \* files the printer may start with
  MaxChanges, MaxUploads, MaxCuts   \* bounds: setting requests, uploads, power cuts

Settings == {o[1] : o \in Offered}
Unknown == "unknown"

\* The files that have been at upload_path: one sent to each thread, and one that
\* the installer of each unpacked from an archive.
Files == Threads \X {"sent", "unpacked"}

ASSUME FirmwareConfigAssumption ==
  /\ None \notin Threads \cup Files /\ {MaxChanges, MaxUploads, MaxCuts} \subseteq Nat
  /\ Offered \subseteq STRING \X STRING /\ \A f \in Defaults : Readable(f)
  /\ \A o \in Offered :
       \/ o[1] = "frontend"
       \/ o[1] = "spoolman" /\ o[2] \in {"disabled", "enabled", "force_generic"}
       \/ o[1] = "metrics" /\ o[2] \in {"true", "false"}

VARIABLES
  file, torn,      \* extended2.cfg: its lines, or unreadable because half written
  req,             \* what each thread is doing
  path,            \* the file at upload_path
  body, lock,      \* of each file: its two halves, the holder of its flock
  inst, tmp,       \* the installer each thread started, and the directory that
                   \* all of them unpack in: whose firmware is there
  budget,          \* requests and power cuts left: changes or uploads, which
                   \* share nothing and are explored apart
  expect, dirty,   \* history: the option last set with success; edits, or scripts
                   \* of one setting, that overlapped or edits that were cut
  metered,         \* history: the metrics setting has been used
  crowd, left      \* history: threads whose uploads, each until its installer has
                   \* ended, overlapped; an upload was left behind

config == <<file, torn, expect, dirty, metered>>
upload == <<path, body, lock, inst, tmp, crowd, left>>
vars == <<config, req, upload, budget>>

Rest == [at |-> "idle", opt |-> <<>>, op |-> 0, got |-> <<>>, fd |-> None]
Ended == [at |-> "off", full |-> FALSE, got |-> <<>>]   \* no installer

--------------------------------------------------------------------------------
(* The scripts of the settings and the commands that read them.              *)

Add(s, k, v) == [do |-> "add", sec |-> s, key |-> k, val |-> v, must |-> TRUE]
Comment(s)   == [do |-> "comment", sec |-> s, key |-> "", val |-> "", must |-> TRUE]
Uncomment(s) == [do |-> "uncomment", sec |-> s, key |-> "", val |-> "", must |-> TRUE]
Ignored(op)  == [op EXCEPT !.must = FALSE]   \* its exit status is not looked at

SpoolmanOn(generic) ==
  <<Ignored(Uncomment("spoolman")), Add("spoolman", "host", "url"),
    Add("spoolman", "force_generic_vendor", generic)>>

Script(o) ==
  CASE o[1] = "frontend" -> <<Add("web", "frontend", o[2])>>
    [] o = <<"spoolman", "disabled">> -> <<Ignored(Comment("spoolman"))>>
    [] o = <<"spoolman", "enabled">> -> SpoolmanOn("false")
    [] o = <<"spoolman", "force_generic">> -> SpoolmanOn("true")
    [] o = <<"metrics", "true">> ->
         <<Uncomment("monitoring"), Add("monitoring", "klipper_exporter", ":9101")>>
    [] o = <<"metrics", "false">> -> <<Comment("monitoring")>>

Edit(op, f) ==
  CASE op.do = "add" -> SetValue(f, op.sec, op.key, op.val)
    [] op.do = "comment" -> CommentSection(f, op.sec)
    [] op.do = "uncomment" -> UncommentSection(f, op.sec)

\* handle_get_settings: what the page shows as the current option.
Current(setting) ==
  CASE setting = "frontend" ->
         IF Readable(file) THEN GetValue(file, "web", "frontend", "fluidd") ELSE "fluidd"
    [] setting = "spoolman" ->
         IF GetValue(file, "spoolman", "host", "") = "" THEN "disabled"
         ELSE IF GetValue(file, "spoolman", "force_generic_vendor", "false") = "true"
         THEN "force_generic" ELSE "enabled"
    [] setting = "metrics" ->
         IF GetValue(file, "monitoring", "klipper_exporter", "") = "" THEN "false" ELSE "true"

Init ==
  /\ file \in Defaults /\ torn = FALSE
  /\ req = [r \in Threads |-> Rest]
  /\ path = None
  /\ body = [f \in Files |-> <<None, None>>] /\ lock = [f \in Files |-> None]
  /\ inst = [r \in Threads |-> Ended] /\ tmp = {}
  /\ budget \in {[changes |-> MaxChanges, uploads |-> 0, cuts |-> MaxCuts],
                 [changes |-> 0, uploads |-> MaxUploads, cuts |-> MaxCuts]}
  /\ budget.uploads > 0 => file = CHOOSE f \in Defaults : TRUE   \* no upload reads it
  /\ expect = [s \in Settings |-> Current(s)] /\ dirty = FALSE /\ metered = FALSE
  /\ crowd = {} /\ left = FALSE

At(r, place) == req[r].at = place
Go(r, place) == req' = [req EXCEPT ![r].at = place]
End(r) == req' = [req EXCEPT ![r] = Rest]
Uploading(r) == ~At(r, "idle") /\ req[r].opt = <<>>
Installing(r) == inst[r].at # "off"
Changing(r, setting) == req[r].opt # <<>> /\ req[r].opt[1] = setting

Spend(kind) == budget[kind] > 0 /\ budget' = [budget EXCEPT ![kind] = @ - 1]

--------------------------------------------------------------------------------
(* handle_update_setting                                                     *)

\* Bound: no further change once edits have overlapped, no other setting once the
\* metrics setting has been used.
AskSetting(r, o) ==
  /\ At(r, "idle") /\ ~Installing(r) /\ ~dirty /\ Spend("changes")
  /\ req' = [req EXCEPT ![r] = [Rest EXCEPT !.at = "edit", !.opt = o, !.op = 1]]
  /\ expect' = [expect EXCEPT ![o[1]] = Unknown]
  /\ dirty' = \E q \in Threads : Changing(q, o[1])
  /\ metered => o[1] = "metrics"
  /\ metered' = (o[1] = "metrics")
  /\ UNCHANGED <<file, torn, upload>>

Op(r) == Script(req[r].opt)[req[r].op]

\* The script goes on after a command, or ends; _stream_command reports it.
Exit(r, ok) ==
  IF (ok \/ ~Op(r).must) /\ req[r].op < Len(Script(req[r].opt))
  THEN /\ req' = [req EXCEPT ![r].at = "edit", ![r].op = @ + 1, ![r].got = <<>>]
       /\ UNCHANGED expect
  ELSE /\ End(r)
       /\ expect' = IF ok THEN [expect EXCEPT ![req[r].opt[1]] = req[r].opt[2]] ELSE expect

\* extended-config.py reads all lines, none of a file that another process is
\* rewriting, and then finds nothing to comment and succeeds. Output that
\* no client hears any more fails.
ReadLines(r) ==
  LET e == Edit(Op(r), file) IN
  /\ At(r, "edit")
  /\ IF e.write
     THEN /\ req' = [req EXCEPT ![r].at = "truncate", ![r].got = file]
          /\ UNCHANGED expect
     ELSE \E heard \in BOOLEAN : Exit(r, e.ok /\ heard)
  /\ dirty' = (dirty \/ torn)
  /\ UNCHANGED <<file, torn, metered, upload, budget>>

Truncate(r) ==
  /\ At(r, "truncate") /\ Go(r, "write")
  /\ file' = <<>> /\ torn' = TRUE
  /\ dirty' = (dirty \/ torn \/ file # req[r].got)
  /\ UNCHANGED <<expect, metered, upload, budget>>

\* Lines written over another process's may leave a mixture that does not parse.
WriteLines(r) ==
  /\ At(r, "write")
  /\ torn' \in (IF torn THEN {FALSE} ELSE BOOLEAN)
  /\ file' = IF torn' THEN <<>> ELSE Edit(Op(r), req[r].got).lines
  /\ \E heard \in BOOLEAN : Exit(r, heard)
  /\ UNCHANGED <<dirty, metered, upload, budget>>

--------------------------------------------------------------------------------
(* handle_upgrade_upload and stream_multipart_to_file                        *)

setup == <<inst, tmp>>

\* Bound: a thread takes no new request while its installer runs.
AskUpload(r) ==
  /\ At(r, "idle") /\ ~Installing(r) /\ Spend("uploads") /\ Go(r, "unlink")
  /\ LET others == {q \in Threads : Uploading(q) \/ Installing(q)}
     IN  crowd' = IF others = {} THEN crowd \ {r} ELSE crowd \cup others \cup {r}
  /\ UNCHANGED <<config, path, body, lock, setup, left>>

Unlink(r) ==
  /\ At(r, "unlink") /\ Go(r, "open")
  /\ path' = None
  /\ UNCHANGED <<config, body, lock, setup, crowd, left, budget>>

\* open(..., "wb"): a new file, or another's emptied before its lock is asked for.
\* Bound: a thread does not create a file while its last one is open.
Open(r) ==
  LET f == IF path = None THEN <<r, "sent">> ELSE path IN
  /\ At(r, "open")
  /\ path = None => \A q \in Threads : req[q].fd # f
  /\ path' = f
  /\ body' = [body EXCEPT ![f] = <<None, None>>]
  /\ req' = [req EXCEPT ![r].at = "flock", ![r].fd = f]
  /\ UNCHANGED <<config, lock, setup, crowd, left, budget>>

Flock(r) ==
  /\ At(r, "flock") /\ lock[req[r].fd] = None
  /\ lock' = [lock EXCEPT ![req[r].fd] = r]
  /\ req' = [req EXCEPT ![r].at = "receive", ![r].op = 1]
  /\ UNCHANGED <<config, path, body, setup, crowd, left, budget>>

(* Mutant of Receive: what is held back for the boundary is never written.   *)
Receive_NoTail(r) ==
  /\ At(r, "receive")
  /\ req' = [req EXCEPT ![r].at = "close", ![r].op = 2]
  /\ body' = [body EXCEPT ![req[r].fd][1] = r]
  /\ UNCHANGED <<config, path, lock, setup, crowd, left, budget>>

\* The body in two halves, each written at the request's own offset. A
\* connection that ends early passes for the end of the file.
Receive(r) ==
  LET n == req[r].op IN
  /\ At(r, "receive")
  /\ \/ /\ req' = [req EXCEPT ![r].at = IF n = 1 THEN "receive" ELSE "close", ![r].op = 2]
        /\ body' = [body EXCEPT ![req[r].fd][n] = r]
     \/ /\ req' = [req EXCEPT ![r].at = "close", ![r].op = 0]
        /\ UNCHANGED body
  /\ UNCHANGED <<config, path, lock, setup, crowd, left, budget>>

Unlock(r) == lock' = [lock EXCEPT ![req[r].fd] = None]

(* Mutant of Reset: the file is neither closed nor removed.                  *)
Reset_KeepsFile(r) ==
  /\ At(r, "receive") /\ End(r)
  /\ Unlock(r) /\ UNCHANGED <<config, path, body, setup, crowd, left, budget>>

(* Mutant of Reset: the file is removed and stays open, its lock with it.    *)
Reset_KeepsLock(r) ==
  /\ At(r, "receive") /\ End(r)
  /\ path' = None
  /\ UNCHANGED <<config, body, lock, setup, crowd, left, budget>>

\* The connection is reset: close, remove whatever is at the path, give up.
Reset(r) ==
  /\ At(r, "receive") /\ End(r)
  /\ Unlock(r) /\ path' = None
  /\ UNCHANGED <<config, body, setup, crowd, left, budget>>

Close(r) ==
  /\ At(r, "close") /\ Unlock(r)
  /\ req' = [req EXCEPT ![r].at = "start", ![r].fd = None]
  /\ UNCHANGED <<config, path, body, setup, crowd, left, budget>>

\* The response is started outside the try that removes the file, the installer
\* inside it.
StartStream(r) ==
  /\ At(r, "start")
  /\ \/ /\ Go(r, "run") /\ UNCHANGED left
        /\ inst' = [inst EXCEPT ![r] = [Ended EXCEPT !.at = "look", !.full = req[r].op = 2]]
     \/ End(r) /\ left' = TRUE /\ UNCHANGED inst   \* the client has gone
  /\ UNCHANGED <<config, path, body, lock, tmp, crowd, budget>>

\* _stream_command is over when the installer is, when a line that it printed does
\* not reach the client, or at the stop token. It waits for no installer then.
StreamEnds(r) ==
  /\ At(r, "run") /\ Go(r, "remove") /\ inst[r].at # "look"
  /\ left' = (left \/ inst[r].at \in {"unzip", "move"})
  /\ UNCHANGED <<config, path, body, lock, setup, crowd, budget>>

Remove(r) ==
  /\ At(r, "remove") /\ End(r)
  /\ path' = None
  /\ UNCHANGED <<config, body, lock, setup, crowd, left, budget>>

--------------------------------------------------------------------------------
(* The installer: the upload's script and unpack_firmware.                   *)

InstallerAt(r, place) == inst[r].at = place
Proceed(r, place) == inst' = [inst EXCEPT ![r].at = place]
Stop(r) == inst' = [inst EXCEPT ![r] = Ended]

\* A line printed when nobody reads it any more kills the script.
Prints(r, next) == IF At(r, "run") THEN Proceed(r, next) ELSE Stop(r)
Sized(r) == \E next \in {"small", "install"} : Prints(r, next)

rest == <<config, req, lock, crowd, left, budget>>

\* An archive is known by its first bytes: the directory is emptied for it.
Look(r) ==
  /\ InstallerAt(r, "look")
  /\ \/ path # None /\ body[path][1] # None /\ Prints(r, "unzip") /\ tmp' = {}
     \/ Sized(r) /\ UNCHANGED tmp
  /\ UNCHANGED <<rest, path, body>>

Unzip(r) ==
  /\ InstallerAt(r, "unzip")
  /\ \/ \E q \in Threads : /\ path # None /\ body[path] = <<q, q>>
                           /\ tmp' = tmp \cup {q} /\ Proceed(r, "move")
     \/ Prints(r, "scrap") /\ UNCHANGED tmp
  /\ UNCHANGED <<rest, path, body>>

\* find takes one of what is there now. Bound: as in Open.
Move(r) ==
  LET f == <<r, "unpacked">> IN
  /\ InstallerAt(r, "move")
  /\ \/ \E q \in tmp : /\ \A p \in Threads : req[p].fd # f
                       /\ path' = f /\ body' = [body EXCEPT ![f] = <<q, q>>] /\ tmp' = {}
                       /\ Prints(r, "size")
     \/ tmp = {} /\ Prints(r, "scrap") /\ UNCHANGED <<path, body, tmp>>
  /\ UNCHANGED rest

Size(r) == InstallerAt(r, "size") /\ Sized(r) /\ UNCHANGED <<rest, path, body, tmp>>

Discard(r) ==
  /\ inst[r].at \in {"scrap", "small"} /\ Stop(r)
  /\ path' = None /\ tmp' = IF InstallerAt(r, "scrap") THEN {} ELSE tmp
  /\ UNCHANGED <<rest, body>>

\* systemUpgrade.sh reads what is at the path now.
Install(r) ==
  /\ InstallerAt(r, "install")
  /\ inst' = [inst EXCEPT ![r].at = "installed",
                          ![r].got = IF path = None THEN <<>> ELSE body[path]]
  /\ UNCHANGED <<rest, path, body, tmp>>

Exited(r) == InstallerAt(r, "installed") /\ Stop(r) /\ UNCHANGED <<rest, path, body, tmp>>

--------------------------------------------------------------------------------

PowerCut ==
  /\ Spend("cuts")
  /\ req' = [r \in Threads |-> Rest] /\ inst' = [r \in Threads |-> Ended]
  /\ lock' = [f \in Files |-> None] /\ crowd' = {}
  /\ dirty' = (dirty \/ torn) /\ left' = (left \/ path # None)
  /\ torn' \in (IF torn THEN BOOLEAN ELSE {FALSE})   \* a mixture, or empty
  /\ UNCHANGED <<file, expect, metered, path, body, tmp>>

SettingStep(r) == ReadLines(r) \/ Truncate(r) \/ WriteLines(r)

UploadStep(r) ==
  \/ Unlink(r) \/ Open(r) \/ Flock(r) \/ Receive(r) \/ Reset(r) \/ Close(r)
  \/ StartStream(r) \/ StreamEnds(r) \/ Remove(r)

InstallerStep(r) ==
  Look(r) \/ Unzip(r) \/ Move(r) \/ Size(r) \/ Discard(r) \/ Install(r) \/ Exited(r)

Request(r) == AskUpload(r) \/ \E o \in Offered : AskSetting(r, o)

Next ==
  \/ \E r \in Threads : Request(r) \/ SettingStep(r) \/ UploadStep(r) \/ InstallerStep(r)
  \/ PowerCut

\* Threads are scheduled, a client sends or hangs up, and the installer ends.
Spec ==
  /\ Init /\ [][Next]_vars
  /\ \A r \in Threads : WF_vars(UploadStep(r)) /\ WF_vars(InstallerStep(r))

--------------------------------------------------------------------------------
(* Properties                                                                *)

TypeOK ==
  /\ \A i \in DOMAIN file : file[i].kind \in {"header", "key", "prose", "blank"}
  /\ {torn, dirty, metered, left} \subseteq BOOLEAN
  /\ \A r \in Threads : /\ req[r].opt \in Offered \cup {<<>>} /\ req[r].op \in 0 .. 3
                         /\ req[r].fd \in Files \cup {None}
  /\ path \in Files \cup {None} /\ lock \in [Files -> Threads \cup {None}]
  /\ body \in [Files -> (Threads \cup {None}) \X (Threads \cup {None})]
  /\ \A r \in Threads : req[r].fd # None => req[r].at \in {"flock", "receive", "close"}
  /\ tmp \subseteq Threads /\ crowd \subseteq Threads

\* As long as edits neither overlap nor are cut by a power loss and the metrics
\* setting, whose script can break the file, is not used, extended2.cfg stays a
\* file that configparser reads.
FileReads == dirty \/ torn \/ metered \/ Readable(file)

\* Then, too, the page shows for every setting the option that was last set
\* with success, whatever other settings were changed, failed or were left
\* half way since.
SettingsHold ==
  dirty \/ torn \/ metered \/ \A s \in Settings : expect[s] \in {Unknown, Current(s)}

\* What is installed is the file that was uploaded with the request, all of it,
\* or no file when its client has gone before, if no other upload overlapped this
\* one up to the end of its installer and the connection did not end early.
InstallsOwn ==
  \A r \in Threads :
    (InstallerAt(r, "installed") /\ r \notin crowd /\ inst[r].full)
      => inst[r].got = <<r, r>> \/ (inst[r].got = <<>> /\ At(r, "idle"))

\* Once every upload and every installer is over, however they ended and
\* overlapped, no file is left at upload_path, unless the client of one had gone
\* before the response started or while its archive was unpacked, or the power
\* failed.
UploadRemoved ==
  (\A r \in Threads : ~Uploading(r) /\ ~Installing(r)) => left \/ path = None

\* Every upload ends: none waits for ever for the lock of another, however that
\* one ended.
UploadsEnd == \A r \in Threads : Uploading(r) ~> ~Uploading(r)
================================================================================
