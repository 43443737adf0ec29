------------------------------- MODULE Timelapse -------------------------------
(***************************************************************************)
(* The timelapse instances of fake-camera-agent.py. The MQTT thread serves *)
(* one request at a time; every stopped timelapse is finished by a thread  *)
(* of its own; at start a sweep thread finishes or deletes what an earlier *)
(* run left behind. They share the instance directories, the "current"     *)
(* link and timelapse.json, without a common lock.                         *)
(***************************************************************************)
EXTENDS Naturals, FiniteSets

CONSTANTS
  Agent, Sweep,   \* the MQTT thread and the startup sweep
  MaxStarts,      \* bound: timelapses started, each in a second of its own
  MaxKills,       \* bound: kills of the process (stop, crash, power loss)
  MaxDeletes,     \* bound: instances whose deletion is asked for
  Early           \* requests are served before the sweep has its listing

Ids == 1 .. MaxStarts            \* date_index of a timelapse
Workers == {Agent, Sweep} \cup Ids   \* Ids: the generate_video thread of one
Files == {"config", "frames"}    \* config.json; an indexNext with a number in it
States == {"none", "empty", "READY", "ACTIVATED", "GENERATING", "FINISHED"}
                                 \* no state file; one opened and not yet written
Nowhere == 0                     \* "current" does not exist
Folder == MaxStarts + 1          \* "current" is a directory, not a link

ASSUME TimelapseAssumption ==
  /\ {MaxStarts, MaxKills, MaxDeletes} \subseteq Nat /\ Early \in BOOLEAN
  /\ Agent # Sweep /\ {Agent, Sweep} \cap Ids = {}

VARIABLES
  dirs, files, state,   \* the instance directories and what is in each
  current,              \* the instance the "current" link names
  index, torn,          \* timelapse.json: its instances, or an unreadable file
  up, job,              \* the process; what each of its threads is doing
  valid, todo,          \* the sweep's copy of the index and its listing
  started, kills,       \* counters of the bounds
  asked, hurt,          \* history: deletions asked for; an index write was cut
                        \* short or overwrote another thread's
  shot, cut             \* history: instances with a counted frame; those of which
                        \* a kill left the state or the count emptied

store == <<dirs, files, state, current, index, torn>>
vars == <<store, up, job, valid, todo, started, kills, asked, hurt, shot, cut>>

Rest == [at |-> "idle", dir |-> Nowhere, add |-> FALSE, seen |-> {}]
Places == {"idle", "mkdir", "ready", "link", "activate", "photo", "count",
           "rm", "rmdir", "gen", "generating", "read", "truncate", "dump",
           "finish", "finished", "valid", "unlink", "list", "visit", "over", "died"}

TypeOK ==
  /\ dirs \subseteq Ids /\ files \in [Ids -> SUBSET Files] /\ state \in [Ids -> States]
  /\ current \in Ids \cup {Nowhere, Folder}
  /\ index \subseteq Ids
  /\ job \in [Workers -> [at : Places, dir : Ids \cup {Nowhere}, add : BOOLEAN,
                          seen : SUBSET Ids]]
  /\ {torn, up, hurt} \subseteq BOOLEAN
  /\ UNION {valid, todo, asked, shot, cut} \subseteq Ids
  /\ started \in 0 .. MaxStarts /\ kills \in 0 .. MaxKills

Init ==
  /\ dirs = {} /\ files = [i \in Ids |-> {}] /\ state = [i \in Ids |-> "none"]
  /\ current = Nowhere /\ index = {} /\ torn = FALSE
  /\ up = FALSE /\ job = [w \in Workers |-> Rest]
  /\ valid = {} /\ todo = {} /\ started = 0 /\ kills = 0
  /\ asked = {} /\ hurt = FALSE /\ shot = {} /\ cut = {}

At(w, place) == up /\ job[w].at = place
Go(w, place) == job' = [job EXCEPT ![w].at = place]
End(w) == job' = [job EXCEPT ![w] = [Rest EXCEPT !.at = IF w = Sweep THEN "visit" ELSE "idle"]]
Die(w) == job' = [job EXCEPT ![w] = [Rest EXCEPT !.at = IF w = Sweep THEN "died" ELSE "idle"]]
Handle(i, place, adds) == [at |-> place, dir |-> i, add |-> adds, seen |-> {}]

\* open(state, "w") empties the file, and what is written later goes to no file
\* at all when it was removed in between.
EmptyState(i) == state' = [state EXCEPT ![i] = "empty"]
WriteState(i, s) == state' = [state EXCEPT ![i] = IF @ = "none" THEN @ ELSE s]

--------------------------------------------------------------------------------
(* Requests. One that is refused changes nothing and is not an action.      *)

Listed == job[Sweep].at \notin {"valid", "unlink", "list"}
Serves == At(Agent, "idle") /\ (Early \/ Listed) /\ ~hurt   \* bound: none after a lost write

\* handle_start_timelapse: close the previous one, make the new directory ...
StartDir ==
  /\ Serves /\ started < MaxStarts
  /\ LET i == started + 1 IN
       /\ started' = i
       /\ dirs' = dirs \cup {i} /\ files' = [files EXCEPT ![i] = {"config"}]
       /\ \/ /\ current \in dirs
             /\ job' = [job EXCEPT ![Agent] = Handle(i, "mkdir", FALSE),
                                   ![current] = Handle(current, "gen", TRUE)]
             /\ current' = Nowhere
          \/ /\ current \notin dirs
             /\ job' = [job EXCEPT ![Agent] = Handle(i, "mkdir", FALSE)]
             /\ UNCHANGED current
  /\ UNCHANGED <<state, index, torn, up, valid, todo, kills, asked, hurt, shot, cut>>

\* ... write its state ...
StartState ==
  /\ At(Agent, "mkdir") /\ Go(Agent, "ready")
  /\ EmptyState(job[Agent].dir)
  /\ UNCHANGED <<dirs, files, current, index, torn, up, valid, todo,
                 started, kills, asked, hurt, shot, cut>>

StartReady ==
  /\ At(Agent, "ready") /\ Go(Agent, "link")
  /\ WriteState(job[Agent].dir, "READY")
  /\ UNCHANGED <<dirs, files, current, index, torn, up, valid, todo,
                 started, kills, asked, hurt, shot, cut>>

\* ... and link it, which fails when a stale "current" is in the way.
StartLink ==
  /\ At(Agent, "link") /\ End(Agent)
  /\ current' = IF current = Nowhere THEN job[Agent].dir ELSE current
  /\ UNCHANGED <<dirs, files, state, index, torn, up, valid, todo,
                 started, kills, asked, hurt, shot, cut>>

\* handle_stop_timelapse
StopTimelapse ==
  /\ Serves /\ current \in dirs
  /\ current' = Nowhere
  /\ job' = [job EXCEPT ![current] = Handle(current, "gen", TRUE)]
  /\ UNCHANGED <<dirs, files, state, index, torn, up, valid, todo,
                 started, kills, asked, hurt, shot, cut>>

\* handle_take_photo for a print: the first photo changes the state ...
PhotoState ==
  /\ Serves /\ current \in dirs
  /\ \/ /\ state[current] = "READY" /\ EmptyState(current)
        /\ job' = [job EXCEPT ![Agent] = Handle(current, "activate", FALSE)]
     \/ /\ state[current] # "READY" /\ UNCHANGED state
        /\ job' = [job EXCEPT ![Agent] = Handle(current, "photo", FALSE)]
  /\ UNCHANGED <<dirs, files, current, index, torn, up, valid, todo,
                 started, kills, asked, hurt, shot, cut>>

(* Mutant of PhotoActivated: a state name that the sweep does not know.      *)
PhotoActivated_Misspelt ==
  /\ At(Agent, "activate") /\ Go(Agent, "photo")
  /\ WriteState(job[Agent].dir, "ACTIVE")
  /\ UNCHANGED <<dirs, files, current, index, torn, up, valid, todo,
                 started, kills, asked, hurt, shot, cut>>

PhotoActivated ==
  /\ At(Agent, "activate") /\ Go(Agent, "photo")
  /\ WriteState(job[Agent].dir, "ACTIVATED")
  /\ UNCHANGED <<dirs, files, current, index, torn, up, valid, todo,
                 started, kills, asked, hurt, shot, cut>>

\* ... every photo then takes its frame and empties indexNext; without the link
\* both go to a directory made in its place ...
PhotoFrame ==
  /\ At(Agent, "photo")
  /\ \/ End(Agent) /\ UNCHANGED <<files, current>>   \* no snapshot
     \/ /\ current \in dirs /\ files' = [files EXCEPT ![current] = @ \ {"frames"}]
        /\ job' = [job EXCEPT ![Agent] = Handle(current, "count", FALSE)]
        /\ UNCHANGED current
     \/ /\ current \notin dirs /\ End(Agent) /\ UNCHANGED files
        /\ current' = IF current = Nowhere THEN Folder ELSE current
  /\ UNCHANGED <<dirs, state, index, torn, up, valid, todo, started,
                 kills, asked, hurt, shot, cut>>

\* ... and writes the number of the next frame.
PhotoCount ==
  LET i == job[Agent].dir IN
  /\ At(Agent, "count") /\ End(Agent)
  /\ files' = [files EXCEPT ![i] = IF i \in dirs THEN @ \cup {"frames"} ELSE @]
  /\ shot' = shot \cup {i}
  /\ UNCHANGED <<dirs, state, current, index, torn, up, valid, todo, started,
                 kills, asked, hurt, cut>>

(* Mutant of AskDelete: the active instance is not refused.                  *)
AskDelete_Active(i) ==
  /\ Serves /\ i \in 1 .. started \ asked /\ Cardinality(asked) < MaxDeletes
  /\ asked' = asked \cup {i}
  /\ job' = [job EXCEPT ![Agent] = Handle(i, "rm", FALSE)]
  /\ UNCHANGED <<store, up, valid, todo, started, kills, hurt, shot, cut>>

\* handle_delete_timelapse_instance: the active instance is refused.
AskDelete(i) ==
  /\ Serves /\ i \in 1 .. started \ asked /\ Cardinality(asked) < MaxDeletes
  /\ current # i
  /\ asked' = asked \cup {i}
  /\ job' = [job EXCEPT ![Agent] = Handle(i, "rm", FALSE)]
  /\ UNCHANGED <<store, up, valid, todo, started, kills, hurt, shot, cut>>

--------------------------------------------------------------------------------
(* delete_timelapse_instance and generate_video, by whichever thread runs    *)
(* them: add tells the second from the first in the steps they share.        *)

\* shutil.rmtree removes the files in some order ...
RemoveFiles(w) ==
  LET i == job[w].dir IN
  /\ At(w, "rm")
  /\ \/ /\ i \in dirs /\ Go(w, "rmdir")
        /\ \E left \in SUBSET files[i] : files' = [files EXCEPT ![i] = left]
        /\ \E s \in {"none", state[i]} : state' = [state EXCEPT ![i] = s]
     \/ /\ i \notin dirs /\ UNCHANGED <<files, state>>
        /\ IF job[w].add THEN End(w) ELSE Go(w, "read")
  /\ UNCHANGED <<dirs, current, index, torn, up, valid, todo, started,
                 kills, asked, hurt, shot, cut>>

(* Mutant of RemoveDir: no return after the cleanup of a frameless instance. *)
RemoveDir_NoReturn(w) ==
  LET i == job[w].dir IN
  /\ At(w, "rmdir") /\ Go(w, "read")
  /\ dirs' = dirs \ {i} /\ files' = [files EXCEPT ![i] = {}]
  /\ state' = [state EXCEPT ![i] = "none"]
  /\ UNCHANGED <<current, index, torn, up, valid, todo, started, kills,
                 asked, hurt, shot, cut>>

\* ... then the directory, unless another thread has put a file in it since.
RemoveDir(w) ==
  LET i == job[w].dir IN
  /\ At(w, "rmdir")
  /\ \/ /\ dirs' = dirs \ {i} /\ files' = [files EXCEPT ![i] = {}]
        /\ state' = [state EXCEPT ![i] = "none"]
     \/ /\ \E v \in Workers \ {w} : job[v].dir = i
        /\ UNCHANGED <<dirs, files, state>>
  /\ IF job[w].add THEN End(w) ELSE Go(w, "read")
  /\ UNCHANGED <<current, index, torn, up, valid, todo, started, kills,
                 asked, hurt, shot, cut>>

\* read_timelapse_data: an unreadable file counts as an empty one.
Contents == IF torn THEN {} ELSE index

ReadIndex(w) ==
  /\ At(w, "read")
  /\ job' = [job EXCEPT ![w].seen = Contents, ![w].at = "truncate"]
  /\ UNCHANGED <<store, up, valid, todo, started, kills, asked, hurt, shot, cut>>

\* write_timelapse_data: open(..., "w") empties the file ...
Truncate(w) ==
  /\ At(w, "truncate") /\ Go(w, "dump")
  /\ index' = {} /\ torn' = TRUE
  /\ hurt' = (hurt \/ torn \/ job[w].seen # index)
  /\ UNCHANGED <<dirs, files, state, current, up, valid, todo, started,
                 kills, asked, shot, cut>>

\* ... and the text is written over whatever another thread wrote meanwhile.
Dump(w) ==
  LET i == job[w].dir
      new == IF job[w].add THEN job[w].seen \cup {i} ELSE job[w].seen \ {i}
  IN
  /\ At(w, "dump")
  /\ IF job[w].add THEN job' = [job EXCEPT ![w] = Handle(i, "finish", TRUE)] ELSE End(w)
  /\ torn' \in (IF torn THEN {FALSE} ELSE BOOLEAN)
  /\ index' = IF torn' THEN {} ELSE new
  /\ UNCHANGED <<dirs, files, state, current, up, valid, todo, started,
                 kills, asked, hurt, shot, cut>>

\* generate_video: an instance without a frame is removed, one without a
\* configuration is left as it is.
Generate(w) ==
  LET i == job[w].dir IN
  /\ At(w, "gen")
  /\ \/ "frames" \notin files[i] /\ Go(w, "rm") /\ UNCHANGED state
     \/ "frames" \in files[i] /\ "config" \notin files[i] /\ End(w) /\ UNCHANGED state
     \/ {"frames", "config"} \subseteq files[i] /\ Go(w, "generating") /\ EmptyState(i)
  /\ UNCHANGED <<dirs, files, current, index, torn, up, valid, todo,
                 started, kills, asked, hurt, shot, cut>>

(* Mutant of Generating: waits for an ffmpeg that hangs, without a timeout.  *)
Generating_NoTimeout(w) ==
  /\ At(w, "generating") /\ UNCHANGED job
  /\ WriteState(job[w].dir, "GENERATING")
  /\ UNCHANGED <<dirs, files, current, index, torn, up, valid, todo,
                 started, kills, asked, hurt, shot, cut>>

(* Mutant of Generating: marked finished before it is in the index.          *)
Generating_FinishedFirst(w) ==
  /\ At(w, "generating") /\ Go(w, "read")
  /\ WriteState(job[w].dir, "FINISHED")
  /\ UNCHANGED <<dirs, files, current, index, torn, up, valid, todo,
                 started, kills, asked, hurt, shot, cut>>

Generating(w) ==
  /\ At(w, "generating") /\ Go(w, "read")
  /\ WriteState(job[w].dir, "GENERATING")
  /\ UNCHANGED <<dirs, files, current, index, torn, up, valid, todo,
                 started, kills, asked, hurt, shot, cut>>

\* The state file cannot be opened in a directory deleted meanwhile.
Finish(w) ==
  LET i == job[w].dir IN
  /\ At(w, "finish")
  /\ \/ i \in dirs /\ EmptyState(i) /\ Go(w, "finished")
     \/ i \notin dirs /\ Die(w) /\ UNCHANGED state
  /\ UNCHANGED <<dirs, files, current, index, torn, up, valid, todo,
                 started, kills, asked, hurt, shot, cut>>

Finished(w) ==
  /\ At(w, "finished") /\ End(w)
  /\ WriteState(job[w].dir, "FINISHED")
  /\ UNCHANGED <<dirs, files, current, index, torn, up, valid, todo,
                 started, kills, asked, hurt, shot, cut>>

--------------------------------------------------------------------------------
(* finish_all_timelapses                                                     *)

SweepIndex ==
  /\ At(Sweep, "valid") /\ Go(Sweep, "unlink")
  /\ valid' = Contents
  /\ UNCHANGED <<store, up, todo, started, kills, asked, hurt, shot, cut>>

\* A dangling link stays, a directory raises.
SweepCurrent ==
  /\ At(Sweep, "unlink")
  /\ IF current = Folder THEN Die(Sweep) ELSE Go(Sweep, "list")
  /\ current' = IF current \in dirs THEN Nowhere ELSE current
  /\ UNCHANGED <<dirs, files, state, index, torn, up, valid, todo, started,
                 kills, asked, hurt, shot, cut>>

SweepList ==
  /\ At(Sweep, "list") /\ Go(Sweep, "visit")
  /\ todo' = dirs
  /\ UNCHANGED <<store, up, valid, started, kills, asked, hurt, shot, cut>>

(* Mutant of Unfinished: an interrupted generation is not taken up again.    *)
Unfinished_NotGenerating == {"READY", "ACTIVATED"}

Unfinished == {"READY", "ACTIVATED", "GENERATING"}

\* An empty state file is neither.
Orphan(i) == state[i] = "none" \/ (state[i] = "FINISHED" /\ i \notin valid)

SweepVisit(i) ==
  /\ At(Sweep, "visit") /\ i \in todo
  /\ todo' = todo \ {i}
  /\ job' = IF i \in dirs /\ state[i] \in Unfinished
            THEN [job EXCEPT ![Sweep] = Handle(i, "gen", TRUE)]
            ELSE IF i \in dirs /\ Orphan(i) /\ current # i
            THEN [job EXCEPT ![Sweep] = Handle(i, "rm", FALSE)]
            ELSE job
  /\ UNCHANGED <<store, up, valid, started, kills, asked, hurt, shot, cut>>

SweepOver ==
  /\ At(Sweep, "visit") /\ todo = {} /\ Go(Sweep, "over")
  /\ valid' = {}
  /\ UNCHANGED <<store, up, todo, started, kills, asked, hurt, shot, cut>>

--------------------------------------------------------------------------------

\* shutdown, a crash or a power cut: every thread is gone, the files stay.
Kill ==
  /\ up /\ kills < MaxKills
  /\ kills' = kills + 1
  /\ up' = FALSE /\ job' = [w \in Workers |-> Rest]
  /\ valid' = {} /\ todo' = {}
  /\ hurt' = (hurt \/ torn)
  /\ cut' = cut \cup {i \in dirs : state[i] = "empty" \/ (i \in shot /\ "frames" \notin files[i])}
  /\ UNCHANGED <<store, started, asked, shot>>

Boot ==
  /\ ~up /\ up' = TRUE
  /\ job' = [job EXCEPT ![Sweep].at = "valid"]
  /\ UNCHANGED <<store, valid, todo, started, kills, asked, hurt, shot, cut>>

Request == StartDir \/ StopTimelapse \/ PhotoState \/ \E i \in Ids : AskDelete(i)

Job(w) ==
  \/ RemoveFiles(w) \/ RemoveDir(w) \/ ReadIndex(w) \/ Truncate(w) \/ Dump(w)
  \/ Generate(w) \/ Generating(w) \/ Finish(w) \/ Finished(w)

AgentStep == StartState \/ StartReady \/ StartLink
             \/ PhotoActivated \/ PhotoFrame \/ PhotoCount
SweepStep == SweepIndex \/ SweepCurrent \/ SweepList \/ SweepOver
             \/ \E i \in Ids : SweepVisit(i)

Step(w) == Job(w) \/ (w = Agent /\ AgentStep) \/ (w = Sweep /\ SweepStep)

Next == Request \/ (\E w \in Workers : Step(w)) \/ Kill \/ Boot

\* Threads are scheduled, ffmpeg has a timeout, the printer is switched on
\* again; nobody has to send a request.
Fairness == (\A w \in Workers : WF_vars(Step(w))) /\ WF_vars(Boot)

Spec == Init /\ [][Next]_vars /\ Fairness

--------------------------------------------------------------------------------
(* Properties                                                                *)

\* The active timelapse keeps its directory and stays open: no thread removes
\* or generates the instance that "current" names; its state file is empty only
\* while a photo changes it, or when a kill fell there.
ActiveKept ==
  current # Nowhere =>
    /\ current \in dirs
    /\ \/ state[current] \in {"READY", "ACTIVATED"}
       \/ state[current] = "empty" /\ (At(Agent, "activate") \/ current \in cut)

\* What the index lists exists and was generated, except for instances whose
\* deletion was asked for: generate_video adds an instance before it is done
\* with it, and delete_timelapse_instance removes the directory before the entry.
CatalogueTrue ==
  hurt \/ \A i \in index \ asked :
            i \in dirs /\ state[i] \in {"GENERATING", "empty", "FINISHED"}

\* While no write of the index was cut short by a kill or has overwritten another
\* one (hurt: then the sweep takes finished timelapses for orphans), a finished
\* timelapse that nobody asked to delete is neither removed nor reopened nor
\* robbed of a file, whatever else was running when the process was killed.
FinishedKept ==
  [][\A i \in dirs : (state[i] = "FINISHED" /\ i \notin asked' /\ ~hurt') =>
       i \in dirs' /\ state'[i] = "FINISHED" /\ files[i] \subseteq files'[i]]_vars

Shown(i) == i \in dirs /\ state[i] = "FINISHED" /\ i \in index

\* When the sweep is over and the threads are done, every directory that nobody
\* asked to delete is the active one, or a finished timelapse that the index
\* lists, or one whose state file a kill has left empty, which the sweep passes
\* over; unless a write of the index was lost.
NothingStranded ==
  (up /\ job[Sweep].at = "over" /\ \A w \in Workers \ {Sweep} : job[w].at = "idle") =>
    hurt \/ \A i \in dirs \ asked :
      i = current \/ Shown(i) \/ (i \in cut /\ state[i] = "empty")

\* A timelapse with a counted frame that is no longer active is finished and
\* listed in the end, over restarts; unless it was deleted, an index write was
\* lost, a deletion under the sweep's hands ended the sweep until the next
\* restart, or a kill fell between the emptying and the writing of its state,
\* which then stays empty, or of its indexNext, which then counts no frame, and
\* the timelapse is removed.
StoppedIsShown ==
  \A i \in Ids :
    (i \in shot /\ current # i) ~>
      \/ Shown(i) \/ i \in asked \/ hurt \/ job[Sweep].at = "died"
      \/ i \in cut /\ (i \notin dirs \/ state[i] = "empty")
================================================================================
