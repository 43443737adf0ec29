---------------------------- MODULE TimelapseProofs ----------------------------
(***************************************************************************)
(* When requests are served only after the sweep has its listing, for any  *)
(* number of timelapses, kills and deletions: the active timelapse is      *)
(* never touched by another thread; and while no write of the index was    *)
(* lost, a finished timelapse stays, the index lists what is there, and no *)
(* directory is left behind. The first is a property of who has which      *)
(* instance in hand (IInv); the others also need what each thread on its   *)
(* way knows of its instance and of the index (CInv).                      *)
(***************************************************************************)
EXTENDS Timelapse, TLAPS

Jobs == [at : Places, dir : Ids \cup {Nowhere}, add : BOOLEAN, seen : SUBSET (Ids \cup {Nowhere})]

\* The part of TypeOK that the proof rests on.
Types ==
  /\ dirs \subseteq Ids /\ state \in [Ids -> States]
  /\ current \in Ids \cup {Nowhere}
  /\ index \subseteq Ids \cup {Nowhere} /\ todo \subseteq Ids
  /\ job \in [Workers -> Jobs]
  /\ started \in Nat

\* Every instance named anywhere has been started.
Begun ==
  /\ \A i \in dirs \cup todo : i <= started
  /\ \A w \in Workers : job[w].dir <= started

\* The thread that makes an instance active is the agent, and nobody else has
\* the instance in hand, now or on the sweep's list.
OnlyAgent(i) ==
  /\ i \in dirs /\ i \notin todo
  /\ \A w \in Workers \ {Agent} : job[w].dir # i

\* The agent touches the active instance for a photo alone, which empties its
\* state for a while; so does a kill there, until the sweep drops the link.
Photos == {"activate", "photo", "count"}
Stale == (~up \/ ~Listed) /\ current \in cut
Active ==
  current # Nowhere =>
    /\ OnlyAgent(current) /\ state[current] \in {"READY", "ACTIVATED", "empty"}
    /\ state[current] = "empty" => job[Agent].at = "activate" \/ Stale
    /\ job[Agent].dir = current => job[Agent].at \in Photos

Starts == {"mkdir", "ready", "link"}
Starting ==
  job[Agent].at \in Starts =>
    /\ current = Nowhere /\ OnlyAgent(job[Agent].dir)
    /\ job[Agent].at = "ready" => state[job[Agent].dir] = "empty"
    /\ job[Agent].at = "link" => state[job[Agent].dir] = "READY"

Photo ==
  job[Agent].at \in Photos =>
    /\ current # Nowhere /\ job[Agent].dir = current
    /\ job[Agent].at = "activate" => state[current] = "empty"

\* Until the sweep has its listing nobody else runs, nor while the agent is down.
Waiting ==
  /\ ~up \/ ~Listed => \A w \in Workers \ {Sweep} : job[w] = Rest
  /\ ~up => job[Sweep] = Rest
  /\ job[Sweep].at \in {"valid", "unlink", "list"} => job[Sweep].dir = Nowhere
  /\ job[Sweep].at = "list" => current = Nowhere

IInv == Types /\ Begun /\ Active /\ Starting /\ Photo /\ Waiting

--------------------------------------------------------------------------------

LEMMA InitOK == ASSUME Init PROVE IInv
<1>1. Types BY TimelapseAssumption DEF Init, Types, Jobs, Places, States, Nowhere, Rest
<1>2. Agent \in Workers /\ Sweep \in Workers BY DEF Workers
<1>3. \A w \in Workers : job[w] = Rest BY DEF Init
<1>4. Rest.at = "idle" /\ Rest.dir = 0 BY DEF Rest, Nowhere
<1>5. Begun
  <2>1. started = 0 /\ dirs = {} /\ todo = {} BY DEF Init
  <2>2. 0 <= started BY <2>1
  <2>3. \A w \in Workers : job[w].dir <= started BY <1>3, <1>4, <2>2
  <2> QED BY <2>1, <2>3 DEF Begun
<1>6. Active /\ Starting /\ Photo BY <1>2, <1>3, <1>4 DEF Init, Active, Starting, Photo, Starts, Photos
<1>7. Waiting BY <1>2, <1>3, <1>4 DEF Init, Waiting
<1> QED BY <1>1, <1>5, <1>6, <1>7 DEF IInv

Hands == {"rm", "rmdir", "read", "truncate", "dump", "gen", "generating", "finish", "finished"}

\* What a thread does that deletes or generates: it touches its own instance alone.
OwnOnly(w) ==
  /\ up /\ job[w].at \in Hands
  /\ UNCHANGED <<current, todo, started, up>>
  /\ job' \in [Workers -> Jobs] /\ \A v \in Workers \ {w} : job'[v] = job[v]
  /\ job'[w].dir \in {job[w].dir, Nowhere}
  /\ job'[w].at \in Hands \cup {"idle", "visit", "died"}
  /\ dirs' \subseteq dirs /\ \A i \in dirs \ dirs' : i = job[w].dir
  /\ state' \in [Ids -> States] /\ \A i \in Ids : i # job[w].dir => state'[i] = state[i]
  /\ index' \subseteq Ids \cup {Nowhere}

LEMMA GoHand ==
  ASSUME job \in [Workers -> Jobs], NEW w \in Workers, NEW place \in Places, Go(w, place)
  PROVE  /\ job' \in [Workers -> Jobs] /\ \A v \in Workers \ {w} : job'[v] = job[v]
         /\ job'[w].dir = job[w].dir /\ job'[w].at = place
  BY DEF Go, Jobs

LEMMA EndHand ==
  ASSUME job \in [Workers -> Jobs], NEW w \in Workers, End(w) \/ Die(w)
  PROVE  /\ job' \in [Workers -> Jobs] /\ \A v \in Workers \ {w} : job'[v] = job[v]
         /\ job'[w].dir = Nowhere /\ job'[w].at \in {"idle", "visit", "died"}
<1> DEFINE r(a) == [Rest EXCEPT !.at = a]
<1>1. \A a \in {"idle", "visit", "died"} : r(a) \in Jobs /\ r(a).dir = Nowhere /\ r(a).at = a
  BY DEF Rest, Jobs, Places
<1>2. PICK a \in {"idle", "visit", "died"} : job' = [job EXCEPT ![w] = r(a)]
  <2>1. CASE w = Sweep
    <3>1. job' = [job EXCEPT ![w] = r("visit")] \/ job' = [job EXCEPT ![w] = r("died")]
      BY <2>1, Zenon DEF End, Die
    <3> QED BY <3>1, Zenon
  <2>2. CASE w # Sweep
    <3>1. job' = [job EXCEPT ![w] = r("idle")] BY <2>2, Zenon DEF End, Die
    <3> QED BY <3>1, Zenon
  <2> QED BY <2>1, <2>2, Zenon
<1> HIDE DEF r
<1> QED BY <1>1, <1>2

\* What a step does to the thread that takes it: it goes on, or is done.
Hand(w) ==
  /\ job' \in [Workers -> Jobs] /\ \A v \in Workers \ {w} : job'[v] = job[v]
  /\ job'[w].dir \in {job[w].dir, Nowhere}
  /\ job'[w].at \in Hands \cup {"idle", "visit", "died"}

LEMMA HandOK ==
  ASSUME job \in [Workers -> Jobs], NEW w \in Workers,
         End(w) \/ Die(w) \/ \E place \in Hands : Go(w, place)
  PROVE  Hand(w)
<1>1. CASE End(w) \/ Die(w) BY <1>1, EndHand DEF Hand
<1>2. CASE \E place \in Hands : Go(w, place)
  <2>1. Hands \subseteq Places BY DEF Hands, Places
  <2> QED BY <1>2, <2>1, GoHand DEF Hand
<1> QED BY <1>1, <1>2

LEMMA JobStep == ASSUME IInv, NEW w \in Workers, Job(w) PROVE OwnOnly(w)
<1> USE DEF IInv, Types
<1>0. job[w].at \in Hands /\ up BY DEF Job, RemoveFiles, RemoveDir, ReadIndex, Truncate, Dump, Generate, Generating,
     Finish, Finished, At, Hands
<1>h. Hand(w)
  <2>1. CASE RemoveFiles(w) BY <2>1, HandOK DEF RemoveFiles, Hands
  <2>2. CASE RemoveDir(w) BY <2>2, HandOK DEF RemoveDir, Hands
  <2>3. CASE ReadIndex(w)
    <3>1. Contents \subseteq Ids \cup {Nowhere} BY DEF Contents
    <3>2. job[w] \in Jobs OBVIOUS
    <3> QED BY <2>3, <3>1, <3>2 DEF ReadIndex, Hand, Hands, Jobs, Places
  <2>4. CASE Truncate(w) BY <2>4, HandOK DEF Truncate, Hands
  <2>5. CASE Dump(w)
    <3>1. CASE job[w].add
      <4>1. job[w].dir \in Ids \cup {Nowhere} BY DEF Jobs
      <4>2. Handle(job[w].dir, "finish", TRUE) \in Jobs BY <4>1 DEF Handle, Jobs, Places
      <4>3. job' = [job EXCEPT ![w] = Handle(job[w].dir, "finish", TRUE)] BY <2>5, <3>1 DEF Dump
      <4>4. job'[w] = Handle(job[w].dir, "finish", TRUE) BY <4>3
      <4>5. job'[w].dir = job[w].dir /\ job'[w].at = "finish" BY <4>4 DEF Handle
      <4> QED BY <4>2, <4>3, <4>5 DEF Hand, Hands
    <3>2. CASE ~job[w].add BY <2>5, <3>2, HandOK DEF Dump
    <3> QED BY <3>1, <3>2
  <2>6. CASE Generate(w) BY <2>6, HandOK DEF Generate, Hands
  <2>7. CASE Finish(w) BY <2>7, HandOK DEF Finish, Hands
  <2>8. CASE Generating(w) BY <2>8, HandOK DEF Generating, Hands
  <2>9. CASE Finished(w) BY <2>9, HandOK DEF Finished
  <2> QED BY <2>1, <2>2, <2>3, <2>4, <2>5, <2>6, <2>7, <2>8, <2>9 DEF Job
<1>s. /\ UNCHANGED <<current, todo, started, up>>
      /\ dirs' \subseteq dirs /\ \A i \in dirs \ dirs' : i = job[w].dir
      /\ state' \in [Ids -> States] /\ \A i \in Ids : i # job[w].dir => state'[i] = state[i]
  <2> USE DEF store, States, EmptyState, WriteState
  <2>1. CASE RemoveFiles(w) BY <2>1 DEF RemoveFiles
  <2>2. CASE RemoveDir(w) BY <2>2 DEF RemoveDir
  <2>3. CASE ReadIndex(w) \/ Truncate(w) \/ Dump(w) BY <2>3 DEF ReadIndex, Truncate, Dump
  <2>4. CASE Generate(w) BY <2>4 DEF Generate
  <2>5. CASE Finish(w) BY <2>5 DEF Finish
  <2>6. CASE Generating(w) BY <2>6 DEF Generating
  <2>7. CASE Finished(w) BY <2>7 DEF Finished
  <2> QED BY <2>1, <2>2, <2>3, <2>4, <2>5, <2>6, <2>7 DEF Job
<1>i. index' \subseteq Ids \cup {Nowhere}
  <2>1. CASE Truncate(w) BY <2>1 DEF Truncate
  <2>2. CASE Dump(w)
    <3>1. job[w].seen \subseteq Ids \cup {Nowhere} /\ job[w].dir \in Ids \cup {Nowhere} BY DEF Jobs
    <3> QED BY <2>2, <3>1 DEF Dump
  <2>3. CASE ~Truncate(w) /\ ~Dump(w)
    BY <2>3 DEF Job, RemoveFiles, RemoveDir, ReadIndex, Generate, Generating, Finish, Finished, store
  <2> QED BY <2>1, <2>2, <2>3
<1> QED BY <1>0, <1>h, <1>s, <1>i DEF OwnOnly, Hand

LEMMA Threads ==
  /\ Agent \in Workers /\ Sweep \in Workers /\ Ids \subseteq Workers
  /\ Agent # Sweep /\ Agent \notin Ids /\ Sweep \notin Ids
  BY TimelapseAssumption DEF Workers

LEMMA Numbers == MaxStarts \in Nat /\ Ids \subseteq Nat \ {0} /\ Nowhere \notin Ids /\ Nowhere = 0
                 /\ Folder \notin Ids /\ Folder # Nowhere
  BY TimelapseAssumption DEF Ids, Nowhere, Folder

LEMMA JobOK == ASSUME IInv, NEW w \in Workers, Job(w) PROVE IInv'
<1>1. OwnOnly(w) BY JobStep
<1>2. Types' BY <1>1 DEF IInv, Types, OwnOnly
<1>3. Begun'
  <2>1. job'[w].dir <= started
    <3>1. started \in Nat /\ job[w].dir <= started BY DEF IInv, Types, Begun
    <3> QED BY <1>1, <3>1, Numbers DEF OwnOnly
  <2>2. \A v \in Workers : job'[v].dir <= started' BY <1>1, <2>1 DEF IInv, Begun, OwnOnly
  <2> QED BY <1>1, <2>2 DEF IInv, Begun, OwnOnly
<1>4. ASSUME NEW i \in Ids, OnlyAgent(i), job[w].dir # i PROVE OnlyAgent(i)' /\ state'[i] = state[i]
  BY <1>1, <1>4, Numbers DEF OwnOnly, OnlyAgent
<1>e. up /\ Listed /\ up' /\ Listed'
  <2>1. CASE w = Sweep BY <1>1, <2>1 DEF OwnOnly, Hands, Listed
  <2>2. CASE w # Sweep
    <3>1. up /\ Listed BY <1>1, <2>2 DEF IInv, Waiting, OwnOnly, Hands, Rest
    <3>2. job'[Sweep] = job[Sweep] BY <1>1, <2>2, Threads DEF OwnOnly
    <3> QED BY <1>1, <3>1, <3>2 DEF OwnOnly, Listed
  <2> QED BY <2>1, <2>2
<1>5. Active'
  <2> SUFFICES ASSUME current # Nowhere
               PROVE  /\ OnlyAgent(current)' /\ state'[current] \in {"READY", "ACTIVATED", "empty"}
                      /\ state'[current] = "empty" => job'[Agent].at = "activate"
                      /\ job'[Agent].dir = current => job'[Agent].at \in Photos
    BY <1>1 DEF Active, OwnOnly
  <2>1. current \in Ids BY DEF IInv, Types
  <2>2. job[w].dir # current
    <3>1. CASE w = Agent BY <1>1, <3>1 DEF IInv, Active, OwnOnly, Hands, Photos
    <3>2. CASE w # Agent BY <3>2 DEF IInv, Active, OnlyAgent
    <3> QED BY <3>1, <3>2
  <2>3. OnlyAgent(current)' /\ state'[current] = state[current]
    <3>1. OnlyAgent(current) BY DEF IInv, Active
    <3>2. current' = current BY <1>1 DEF OwnOnly
    <3> QED BY <1>4, <2>1, <2>2, <3>1, <3>2 DEF OnlyAgent
  <2>4. job'[Agent].dir = current => job'[Agent].at \in Photos
    BY <1>1, <2>1, <2>2, Numbers, Threads DEF IInv, Active, OwnOnly
  <2>5. state[current] = "empty" => job'[Agent].at = "activate"
    <3>1. state[current] = "empty" => job[Agent].at = "activate" BY <1>e DEF IInv, Active, Stale
    <3>2. job[Agent].at = "activate" => job'[Agent] = job[Agent]
      BY <1>1, Threads DEF OwnOnly, Hands
    <3> QED BY <3>1, <3>2
  <2> QED BY <2>3, <2>4, <2>5 DEF IInv, Active
<1>6. Starting' /\ Photo'
  <2>1. CASE w = Agent BY <1>1, <2>1 DEF OwnOnly, Hands, Starting, Photo, Starts, Photos
  <2>2. CASE w # Agent
    <3>1. job'[Agent] = job[Agent] /\ current' = current BY <1>1, <2>2, Threads DEF OwnOnly
    <3>2. Photo'
      <4>1. ASSUME job[Agent].at = "activate" PROVE state'[current] = state[current]
        <5>1. current \in Ids /\ job[w].dir # current
          BY <2>2, <4>1 DEF IInv, Types, Photo, Photos, Active, OnlyAgent
        <5> QED BY <1>1, <5>1 DEF OwnOnly
      <4> QED BY <3>1, <4>1 DEF IInv, Photo, Photos
    <3>3. ASSUME job[Agent].at \in Starts
          PROVE  OnlyAgent(job[Agent].dir)' /\ state'[job[Agent].dir] = state[job[Agent].dir]
      <4>1. OnlyAgent(job[Agent].dir) BY <3>3 DEF IInv, Starting
      <4>2. job[Agent].dir \in Ids BY <4>1 DEF IInv, Types, OnlyAgent
      <4>3. job[w].dir # job[Agent].dir BY <2>2, <4>1 DEF OnlyAgent
      <4> QED BY <1>4, <3>1, <4>1, <4>2, <4>3 DEF OnlyAgent
    <3>4. Starting' BY <3>1, <3>3 DEF IInv, Starting, OnlyAgent
    <3> QED BY <3>2, <3>4
  <2> QED BY <2>1, <2>2
<1>7. Waiting'
  <2>1. CASE w = Sweep
    <3>1. up /\ Listed BY <1>1, <2>1 DEF OwnOnly, Hands, Listed
    <3>2. Listed' /\ up' /\ job'[Sweep].at # "list" BY <1>1, <2>1 DEF OwnOnly, Hands, Listed
    <3>3. job'[Sweep].at \notin {"valid", "unlink", "list"} BY <1>1, <2>1 DEF OwnOnly, Hands
    <3> QED BY <3>2, <3>3 DEF Waiting
  <2>2. CASE w # Sweep
    <3>1. up /\ Listed BY <1>1, <2>2 DEF IInv, Waiting, OwnOnly, Hands, Rest
    <3>2. job'[Sweep] = job[Sweep] BY <1>1, <2>2, Threads DEF OwnOnly
    <3>3. up' /\ current' = current BY <1>1 DEF OwnOnly
    <3> QED BY <3>1, <3>2, <3>3 DEF IInv, Waiting, Listed
  <2> QED BY <2>1, <2>2
<1> QED BY <1>2, <1>3, <1>5, <1>6, <1>7 DEF IInv

--------------------------------------------------------------------------------
(* Requests                                                                  *)

LEMMA HandleOK ==
  ASSUME NEW i \in Ids, NEW place \in Places
  PROVE  /\ Handle(i, place, TRUE) \in Jobs /\ Handle(i, place, FALSE) \in Jobs
         /\ Handle(i, place, TRUE).dir = i /\ Handle(i, place, TRUE).at = place
         /\ Handle(i, place, FALSE).dir = i /\ Handle(i, place, FALSE).at = place
  BY DEF Handle, Jobs

\* A request that is served finds the agent idle and the sweep past its listing.
LEMMA ServesOK ==
  ASSUME IInv, ~Early, Serves
  PROVE  /\ up /\ Listed /\ job[Agent].at = "idle"
         /\ current # Nowhere => job[Agent].dir # current
         /\ current # Nowhere => state[current] \in {"READY", "ACTIVATED"}
  BY DEF Serves, At, IInv, Active, Photos, Stale

\* The agent's own steps and requests leave the sweep and its list alone.
SweepKept == /\ job'[Sweep] = job[Sweep] /\ UNCHANGED <<up, todo>>
             /\ up /\ Listed /\ job[Sweep].at # "list"

LEMMA WaitingKept == ASSUME IInv, SweepKept PROVE Waiting'
  BY DEF SweepKept, IInv, Waiting, Listed

LEMMA StartDirOK == ASSUME IInv, ~Early, StartDir PROVE IInv'
<1>0. PICK i \in Ids : i = started + 1
  <2>1. started + 1 \in Ids BY Numbers DEF StartDir, IInv, Types, Ids
  <2> QED BY <2>1
<1>1. /\ up /\ Listed /\ job[Agent].at = "idle" /\ job[Sweep].at # "list"
      /\ i \in Ids /\ i \in Nat /\ started' = i /\ dirs' = dirs \cup {i}
      /\ UNCHANGED <<state, index, up, todo>>
  <2>2. up /\ Listed /\ job[Agent].at = "idle" BY ServesOK DEF StartDir
  <2> QED BY <1>0, <2>2, Numbers DEF StartDir, Listed
<1> DEFINE h == Handle(i, "mkdir", FALSE)
           g == Handle(current, "gen", TRUE)
<1>2. h \in Jobs /\ h.dir = i /\ h.at = "mkdir"
  <2>1. "mkdir" \in Places BY DEF Places
  <2> QED BY <2>1, HandleOK
<1>3. current \in dirs => /\ current \in Ids /\ current # i /\ g \in Jobs /\ g.dir = current /\ g.at = "gen"
  <2> SUFFICES ASSUME current \in dirs PROVE current \in Ids /\ current # i /\ g \in Jobs /\ g.dir = current /\ g.at = "gen"
    OBVIOUS
  <2>1. current \in Ids /\ current \in Nat /\ current <= started /\ started \in Nat
    BY Numbers DEF IInv, Types, Begun
  <2>2. current # i BY <1>0, <2>1
  <2>3. "gen" \in Places BY DEF Places
  <2> QED BY <2>1, <2>2, <2>3, HandleOK
<1> HIDE DEF h, g
<1>4. /\ current' = Nowhere /\ job'[Agent] = h /\ job' \in [Workers -> Jobs]
      /\ \A w \in Workers \ {Agent} : job'[w] = job[w] \/ (job'[w].dir # i /\ job'[w].dir \in dirs /\ w # Sweep)
  <2>0. job \in [Workers -> Jobs] BY DEF IInv, Types
  <2>1. CASE current \in dirs
    <3>1. /\ job' = [job EXCEPT ![Agent] = h, ![current] = g] /\ current' = Nowhere
      BY <1>0, <2>1 DEF StartDir, h, g, IInv, Active
    <3>2. current \in Workers /\ current # Agent /\ current # Sweep BY <1>3, <2>1, Threads
    <3>3. job' \in [Workers -> Jobs] BY <1>2, <1>3, <2>0, <2>1, <3>1, <3>2
    <3>4. job'[current] = g /\ job'[Agent] = h BY <2>0, <3>1, <3>2, Threads
    <3>5. \A w \in Workers \ {Agent, current} : job'[w] = job[w] BY <2>0, <3>1
    <3> QED BY <1>3, <2>1, <3>1, <3>2, <3>3, <3>4, <3>5
  <2>2. CASE current \notin dirs
    <3>1. current = Nowhere BY <2>2 DEF IInv, Active, OnlyAgent
    <3>2. job' = [job EXCEPT ![Agent] = h] /\ current' = current
      BY <1>0, <2>2 DEF StartDir, h
    <3> QED BY <1>2, <2>0, <3>1, <3>2, Threads
  <2> QED BY <2>1, <2>2
<1>5. Types' BY <1>1, <1>4 DEF IInv, Types
<1>6. \A k \in dirs \cup todo : k <= started /\ k \in Nat BY Numbers DEF IInv, Begun, Types
<1>7. \A w \in Workers : job[w].dir <= started /\ job[w].dir \in Nat
  <2>1. \A w \in Workers : job[w].dir \in Ids \cup {Nowhere} BY DEF IInv, Types, Jobs
  <2>2. Ids \cup {Nowhere} \subseteq Nat BY Numbers
  <2>3. \A w \in Workers : job[w].dir <= started BY DEF IInv, Begun
  <2> QED BY <2>1, <2>2, <2>3
<1>8. started \in Nat /\ i = started + 1 BY <1>0 DEF IInv, Types
<1>9. i \notin dirs \cup todo /\ \A w \in Workers : job[w].dir # i BY <1>6, <1>7, <1>8
<1>10. \A w \in Workers : job'[w].dir <= i
  <2>1. job'[Agent].dir <= i BY <1>2, <1>4, <1>8
  <2>2. ASSUME NEW w \in Workers \ {Agent} PROVE job'[w].dir <= i
    <3>1. CASE job'[w] = job[w] BY <1>7, <1>8, <3>1
    <3>2. CASE job'[w].dir \in dirs BY <1>6, <1>8, <3>2
    <3> QED BY <1>4, <3>1, <3>2
  <2> QED BY <2>1, <2>2
<1>11. Begun'
  <2>1. \A k \in dirs' \cup todo' : k <= i BY <1>1, <1>6, <1>8
  <2> QED BY <1>1, <1>10, <2>1 DEF Begun
<1>12. Starting'
  <2>1. OnlyAgent(i)' BY <1>1, <1>4, <1>9 DEF OnlyAgent
  <2>2. job'[Agent].dir = i /\ job'[Agent].at = "mkdir" BY <1>2, <1>4
  <2>3. OnlyAgent(job[Agent].dir)' BY <2>1, <2>2 DEF OnlyAgent
  <2> QED BY <1>4, <2>2, <2>3 DEF Starting, Starts
<1>13. Active' /\ Photo' BY <1>2, <1>4 DEF Active, Photo, Photos
<1>14. SweepKept
  <2>1. job'[Sweep] = job[Sweep] BY <1>4, Threads
  <2> QED BY <1>1, <2>1 DEF SweepKept
<1> QED BY <1>5, <1>11, <1>12, <1>13, <1>14, WaitingKept DEF IInv

\* A step that leaves the directories, and all threads but one, as they are.
LEMMA BegunKept ==
  ASSUME IInv, NEW v \in Workers, \A w \in Workers \ {v} : job'[w] = job[w],
         job'[v].dir \in dirs \cup todo \cup {job[v].dir, Nowhere}
                         \cup {i \in Ids : i <= started},
         dirs' \subseteq dirs, todo' \subseteq todo \cup dirs, started' = started
  PROVE  Begun'
<1>1. \A i \in dirs \cup todo : i <= started BY DEF IInv, Begun
<1>2. \A w \in Workers : job[w].dir <= started BY DEF IInv, Begun
<1>3. Nowhere <= started BY Numbers DEF IInv, Types
<1>4. job'[v].dir <= started BY <1>1, <1>2, <1>3
<1> QED BY <1>1, <1>2, <1>4 DEF Begun

\* The agent is between two requests, or in one that is not about the active
\* timelapse: the other threads stay away from it as before.
LEMMA AgentStepOK ==
  ASSUME IInv, up, Listed, dirs' = dirs, UNCHANGED <<index, up, todo, started>>,
         NEW r \in Jobs, job' = [job EXCEPT ![Agent] = r],
         r.dir = Nowhere \/ (r.dir \in Ids /\ r.dir <= started)
  PROVE  /\ Begun' /\ Waiting' /\ job' \in [Workers -> Jobs] /\ job'[Agent] = r
         /\ \A w \in Workers \ {Agent} : job'[w] = job[w]
         /\ \A i \in Ids : OnlyAgent(i) <=> OnlyAgent(i)'
<1>1. job \in [Workers -> Jobs] BY DEF IInv, Types
<1>2. /\ job' \in [Workers -> Jobs] /\ job'[Agent] = r
      /\ \A w \in Workers \ {Agent} : job'[w] = job[w]
  BY <1>1, Threads
<1>3. Begun' BY <1>2, BegunKept, Threads
<1>4. SweepKept BY <1>2, Threads DEF SweepKept, Listed
<1>5. \A i \in Ids : OnlyAgent(i) <=> OnlyAgent(i)' BY <1>2 DEF OnlyAgent
<1> QED BY <1>2, <1>3, <1>4, <1>5, WaitingKept

LEMMA EndAgent ==
  ASSUME End(Agent)
  PROVE  \E r \in Jobs : job' = [job EXCEPT ![Agent] = r] /\ r.dir = Nowhere /\ r.at = "idle"
<1> DEFINE r == [Rest EXCEPT !.at = "idle"]
<1>1. r \in Jobs /\ r.dir = Nowhere /\ r.at = "idle" BY DEF Rest, Jobs, Places
<1>2. job' = [job EXCEPT ![Agent] = r] BY Threads, Zenon DEF End
<1> QED BY <1>1, <1>2, Zenon

\* The rest of the invariant speaks of the active and of the starting instance.
LEMMA StartStateOK == ASSUME IInv, ~Early, StartState PROVE IInv'
<1> DEFINE i == job[Agent].dir
           r == [job[Agent] EXCEPT !.at = "ready"]
<1>1. /\ up /\ job[Agent].at = "mkdir" /\ job' = [job EXCEPT ![Agent].at = "ready"]
      /\ state' = [state EXCEPT ![i] = "empty"]
      /\ UNCHANGED <<dirs, current, index, up, todo, started>>
  BY DEF StartState, At, Go, EmptyState
<1>2. current = Nowhere /\ OnlyAgent(i) /\ i \in Ids BY <1>1 DEF IInv, Starting, Starts, OnlyAgent, Types
<1>3. job \in [Workers -> Jobs] /\ state \in [Ids -> States] BY DEF IInv, Types
<1>4. r \in Jobs /\ r.dir = i /\ r.at = "ready" BY <1>3, Threads DEF Jobs, Places
<1>5. job' = [job EXCEPT ![Agent] = r] BY <1>1, <1>3, Threads
<1>6. Listed BY <1>1, Threads DEF IInv, Waiting, Rest
<1>7. i <= started BY <1>2 DEF IInv, Begun, OnlyAgent
<1>8. PICK k \in Ids : k = i BY <1>2
<1> HIDE DEF i, r
<1>9. /\ Begun' /\ Waiting' /\ job' \in [Workers -> Jobs] /\ job'[Agent] = r
      /\ OnlyAgent(k)'
  BY <1>1, <1>2, <1>4, <1>5, <1>6, <1>7, <1>8, AgentStepOK
<1>10. state' \in [Ids -> States] /\ state'[k] = "empty" BY <1>1, <1>3, <1>8 DEF States
<1>11. Types' BY <1>1, <1>9, <1>10 DEF IInv, Types
<1>12. job'[Agent].dir = k /\ job'[Agent].at = "ready" /\ current' = Nowhere BY <1>1, <1>2, <1>4, <1>8, <1>9
<1>13. Active' /\ Starting' /\ Photo'
  BY <1>9, <1>10, <1>12 DEF Active, Starting, Starts, Photo, Photos, OnlyAgent
<1> QED BY <1>9, <1>11, <1>13 DEF IInv

LEMMA StartReadyOK == ASSUME IInv, ~Early, StartReady PROVE IInv'
<1> DEFINE i == job[Agent].dir
           r == [job[Agent] EXCEPT !.at = "link"]
<1>1. /\ up /\ job[Agent].at = "ready" /\ job' = [job EXCEPT ![Agent].at = "link"]
      /\ state' = [state EXCEPT ![i] = IF @ = "none" THEN @ ELSE "READY"]
      /\ UNCHANGED <<dirs, current, index, up, todo, started>>
  BY DEF StartReady, At, Go, WriteState
<1>2. current = Nowhere /\ OnlyAgent(i) /\ i \in Ids BY <1>1 DEF IInv, Starting, Starts, OnlyAgent, Types
<1>3. job \in [Workers -> Jobs] /\ state \in [Ids -> States] BY DEF IInv, Types
<1>4. r \in Jobs /\ r.dir = i /\ r.at = "link" BY <1>3, Threads DEF Jobs, Places
<1>5. job' = [job EXCEPT ![Agent] = r] BY <1>1, <1>3, Threads
<1>6. Listed BY <1>1, Threads DEF IInv, Waiting, Rest
<1>7. i <= started BY <1>2 DEF IInv, Begun, OnlyAgent
<1>8. PICK k \in Ids : k = i BY <1>2
<1>s. state[i] = "empty" BY <1>1 DEF IInv, Starting, Starts
<1> HIDE DEF i, r
<1>9. /\ Begun' /\ Waiting' /\ job' \in [Workers -> Jobs] /\ job'[Agent] = r
      /\ OnlyAgent(k)'
  BY <1>1, <1>2, <1>4, <1>5, <1>6, <1>7, <1>8, AgentStepOK
<1>10. state' \in [Ids -> States] /\ state'[k] = "READY" BY <1>1, <1>3, <1>8, <1>s DEF States
<1>11. Types' BY <1>1, <1>9, <1>10 DEF IInv, Types
<1>12. job'[Agent].dir = k /\ job'[Agent].at = "link" /\ current' = Nowhere BY <1>1, <1>2, <1>4, <1>8, <1>9
<1>13. Active' /\ Starting' /\ Photo'
  BY <1>9, <1>10, <1>12 DEF Active, Starting, Starts, Photo, Photos, OnlyAgent
<1> QED BY <1>9, <1>11, <1>13 DEF IInv

LEMMA StartLinkOK == ASSUME IInv, ~Early, StartLink PROVE IInv'
<1>1. /\ up /\ job[Agent].at = "link" /\ End(Agent)
      /\ current' = IF current = Nowhere THEN job[Agent].dir ELSE current
      /\ UNCHANGED <<dirs, state, index, up, todo, started>>
  BY DEF StartLink, At
<1>2. PICK k \in Ids : k = job[Agent].dir /\ OnlyAgent(k) /\ state[k] = "READY"
  <2>1. OnlyAgent(job[Agent].dir) /\ state[job[Agent].dir] = "READY"
    BY <1>1 DEF IInv, Starting, Starts
  <2>2. job[Agent].dir \in Ids BY <2>1 DEF OnlyAgent, IInv, Types
  <2> QED BY <2>1, <2>2
<1>3. current' = k BY <1>1, <1>2 DEF IInv, Starting, Starts
<1>4. PICK r \in Jobs : job' = [job EXCEPT ![Agent] = r] /\ r.dir = Nowhere /\ r.at = "idle"
  BY <1>1, EndAgent
<1>5. Listed BY <1>1, Threads DEF IInv, Waiting, Rest
<1>6. /\ Begun' /\ Waiting' /\ job' \in [Workers -> Jobs] /\ job'[Agent] = r
      /\ OnlyAgent(k)'
  BY <1>1, <1>2, <1>4, <1>5, AgentStepOK
<1>7. Types' BY <1>1, <1>3, <1>6 DEF IInv, Types
<1>8. OnlyAgent(current)' BY <1>3, <1>6 DEF OnlyAgent
<1>9. job'[Agent].dir # current' BY <1>3, <1>4, <1>6, Numbers
<1>10. Active' /\ Starting' /\ Photo'
  BY <1>1, <1>2, <1>3, <1>4, <1>6, <1>8, <1>9 DEF Active, Starting, Photo, Starts, Photos
<1> QED BY <1>6, <1>7, <1>10 DEF IInv

LEMMA StopTimelapseOK == ASSUME IInv, ~Early, StopTimelapse PROVE IInv'
<1> DEFINE g == Handle(current, "gen", TRUE)
<1>1. /\ up /\ Listed /\ job[Agent].at = "idle" /\ current \in dirs /\ current' = Nowhere
      /\ job' = [job EXCEPT ![current] = g]
      /\ UNCHANGED <<dirs, state, index, up, todo, started>>
  BY ServesOK DEF StopTimelapse
<1>2. PICK k \in Ids : k = current /\ k \in dirs BY <1>1 DEF IInv, Types
<1>3. g \in Jobs /\ g.dir = k
  <2>1. "gen" \in Places BY DEF Places
  <2> QED BY <1>2, <2>1, HandleOK
<1> HIDE DEF g
<1>4. /\ job' \in [Workers -> Jobs] /\ job'[k] = g /\ k \in Workers
      /\ \A w \in Workers \ {k} : job'[w] = job[w]
  BY <1>1, <1>2, <1>3, Threads DEF IInv, Types
<1>5. Begun' BY <1>1, <1>2, <1>3, <1>4, BegunKept
<1>6. Types' BY <1>1, <1>4 DEF IInv, Types
<1>7. job'[Agent] = job[Agent] /\ job'[Sweep] = job[Sweep] BY <1>4, Threads
<1>8. Waiting' BY <1>1, <1>7, WaitingKept DEF SweepKept, Listed
<1>9. Active' /\ Starting' /\ Photo' BY <1>1, <1>7 DEF Active, Starting, Photo, Starts, Photos
<1> QED BY <1>5, <1>6, <1>8, <1>9 DEF IInv

\* The agent has the active instance for a photo, whose state it may change.
LEMMA PhotoOK ==
  ASSUME IInv, up, Listed, NEW k \in Ids, current = k,
         UNCHANGED <<dirs, current, index, up, todo, started>>,
         NEW r \in Jobs, job' = [job EXCEPT ![Agent] = r], r.dir = k, r.at \in Photos,
         state' \in [Ids -> States],
         state'[k] \in {"READY", "ACTIVATED", "empty"}, state'[k] = "empty" <=> r.at = "activate"
  PROVE  IInv'
<1>1. current # Nowhere /\ OnlyAgent(k) BY Numbers DEF IInv, Active
<1>2. k <= started BY <1>1 DEF IInv, Begun, OnlyAgent
<1>3. /\ Begun' /\ Waiting' /\ job' \in [Workers -> Jobs] /\ job'[Agent] = r
      /\ OnlyAgent(k)'
  BY <1>1, <1>2, AgentStepOK
<1>4. Types' BY <1>3 DEF IInv, Types
<1>5. OnlyAgent(current)' BY <1>3 DEF OnlyAgent
<1>6. Active' BY <1>1, <1>3, <1>5 DEF Active
<1>7. Starting' /\ Photo' BY <1>1, <1>3 DEF Starting, Starts, Photo, Photos
<1> QED BY <1>3, <1>4, <1>6, <1>7 DEF IInv

LEMMA PhotoStateOK == ASSUME IInv, ~Early, PhotoState PROVE IInv'
<1>1. /\ up /\ Listed /\ current \in dirs
      /\ UNCHANGED <<dirs, current, index, up, todo, started>>
  BY ServesOK DEF PhotoState
<1>2. PICK k \in Ids : k = current /\ k \in dirs BY <1>1 DEF IInv, Types
<1>3. state[k] \in {"READY", "ACTIVATED"} BY <1>2, ServesOK, Numbers DEF PhotoState
<1>4. state \in [Ids -> States] BY DEF IInv, Types
<1>5. CASE state[k] = "READY"
  <2> DEFINE r == Handle(current, "activate", FALSE)
  <2>1. job' = [job EXCEPT ![Agent] = r] /\ state' = [state EXCEPT ![k] = "empty"]
    BY <1>2, <1>5 DEF PhotoState, EmptyState
  <2>2. r \in Jobs /\ r.dir = k /\ r.at = "activate"
    <3>1. "activate" \in Places BY DEF Places
    <3> QED BY <1>2, <3>1, HandleOK
  <2> HIDE DEF r
  <2>3. state' \in [Ids -> States] /\ state'[k] = "empty" BY <1>4, <2>1 DEF States
  <2>4. "activate" \in Photos BY DEF Photos
  <2> QED BY <1>1, <1>2, <2>1, <2>2, <2>3, <2>4, PhotoOK
<1>6. CASE state[k] # "READY"
  <2> DEFINE r == Handle(current, "photo", FALSE)
  <2>1. job' = [job EXCEPT ![Agent] = r] /\ state' = state
    BY <1>2, <1>6 DEF PhotoState
  <2>2. r \in Jobs /\ r.dir = k /\ r.at = "photo"
    <3>1. "photo" \in Places BY DEF Places
    <3> QED BY <1>2, <3>1, HandleOK
  <2> HIDE DEF r
  <2>3. "photo" \in Photos /\ "photo" # "activate" BY DEF Photos
  <2> QED BY <1>1, <1>2, <1>3, <1>4, <2>1, <2>2, <2>3, PhotoOK
<1> QED BY <1>5, <1>6

\* What the agent finds in the middle of a photo.
LEMMA PhotoNow ==
  ASSUME IInv, up, job[Agent].at \in Photos
  PROVE  /\ Listed /\ current \in Ids /\ current \in dirs /\ job[Agent].dir = current
         /\ job \in [Workers -> Jobs] /\ state \in [Ids -> States]
         /\ state[current] \in {"READY", "ACTIVATED", "empty"}
         /\ state[current] = "empty" <=> job[Agent].at = "activate"
<1>1. Listed BY Threads DEF IInv, Waiting, Rest, Photos
<1>2. current # Nowhere /\ job[Agent].dir = current BY DEF IInv, Photo
<1>3. current \in Ids /\ OnlyAgent(current) BY <1>2 DEF IInv, Types, Active
<1>4. state[current] \in {"READY", "ACTIVATED", "empty"} BY <1>2 DEF IInv, Active
<1>5. state[current] = "empty" <=> job[Agent].at = "activate"
  BY <1>1, <1>2 DEF IInv, Active, Photo, Stale
<1> QED BY <1>1, <1>2, <1>3, <1>4, <1>5 DEF IInv, Types, OnlyAgent

LEMMA PhotoActivatedOK == ASSUME IInv, ~Early, PhotoActivated PROVE IInv'
<1>1. /\ up /\ job[Agent].at = "activate" /\ job[Agent].at \in Photos /\ Go(Agent, "photo")
      /\ UNCHANGED <<dirs, current, index, up, todo, started>>
  BY DEF PhotoActivated, At, Photos
<1>2. PICK k \in Ids : k = current BY <1>1, PhotoNow
<1>3. /\ Listed /\ k \in dirs /\ job[Agent].dir = k /\ state[k] = "empty"
      /\ job \in [Workers -> Jobs] /\ state \in [Ids -> States]
  BY <1>1, <1>2, PhotoNow
<1>4. state' = [state EXCEPT ![k] = "ACTIVATED"]
  BY <1>3 DEF PhotoActivated, WriteState
<1>5. state' \in [Ids -> States] /\ state'[k] = "ACTIVATED" BY <1>3, <1>4 DEF States
<1> DEFINE r == [job[Agent] EXCEPT !.at = "photo"]
<1>6. r \in Jobs /\ r.dir = k /\ r.at = "photo" BY <1>3, Threads DEF Jobs, Places
<1>7. job' = [job EXCEPT ![Agent] = r] BY <1>1, <1>3, Threads DEF Go
<1> HIDE DEF r
<1>8. "photo" \in Photos BY DEF Photos
<1> QED BY <1>1, <1>2, <1>3, <1>5, <1>6, <1>7, <1>8, PhotoOK

\* A request that ends, or deletes another instance: the active one stays.
LEMMA ActiveStays ==
  ASSUME IInv, up, Listed, UNCHANGED <<dirs, state, current, index, up, todo, started>>,
         NEW r \in Jobs, job' = [job EXCEPT ![Agent] = r],
         r.dir = Nowhere \/ (r.dir \in Ids /\ r.dir <= started /\ r.dir # current),
         r.at \in {"idle", "rm"}, current # Nowhere => state[current] # "empty"
  PROVE  IInv'
<1>1. /\ Begun' /\ Waiting' /\ job' \in [Workers -> Jobs] /\ job'[Agent] = r
      /\ \A i \in Ids : OnlyAgent(i) <=> OnlyAgent(i)'
  BY AgentStepOK
<1>2. Types' BY <1>1 DEF IInv, Types
<1>3. ASSUME current # Nowhere PROVE OnlyAgent(current)' /\ state[current] \in {"READY", "ACTIVATED", "empty"}
  <2>1. current \in Ids /\ OnlyAgent(current) BY <1>3 DEF IInv, Types, Active
  <2>2. PICK k \in Ids : k = current BY <2>1
  <2>3. OnlyAgent(k)' BY <1>1, <2>1, <2>2 DEF OnlyAgent
  <2> QED BY <1>3, <2>2, <2>3 DEF OnlyAgent, IInv, Active
<1>4. current # Nowhere => r.dir # current OBVIOUS
<1>5. Active' /\ Starting' /\ Photo' BY <1>1, <1>3, <1>4 DEF Active, Starting, Photo, Starts, Photos
<1> QED BY <1>1, <1>2, <1>5 DEF IInv

LEMMA PhotoFrameOK == ASSUME IInv, ~Early, PhotoFrame PROVE IInv'
<1>1. up /\ job[Agent].at = "photo" /\ job[Agent].at \in Photos BY DEF PhotoFrame, At, Photos
<1>2. PICK k \in Ids : k = current BY <1>1, PhotoNow
<1>3. /\ Listed /\ k \in dirs /\ state[k] \in {"READY", "ACTIVATED"} /\ state \in [Ids -> States]
  BY <1>1, <1>2, PhotoNow
<1>4. UNCHANGED <<dirs, state, current, index, up, todo, started>> BY <1>2, <1>3 DEF PhotoFrame
<1>5. CASE End(Agent) BY <1>1, <1>2, <1>3, <1>4, <1>5, EndAgent, ActiveStays
<1>6. CASE ~End(Agent)
  <2> DEFINE r == Handle(current, "count", FALSE)
  <2>1. job' = [job EXCEPT ![Agent] = r] BY <1>6 DEF PhotoFrame
  <2>2. "count" \in Places /\ "count" \in Photos BY DEF Places, Photos
  <2>3. r \in Jobs /\ r.dir = k /\ r.at = "count" BY <1>2, <2>2, HandleOK
  <2> HIDE DEF r
  <2> QED BY <1>1, <1>2, <1>3, <1>4, <2>1, <2>2, <2>3, PhotoOK
<1> QED BY <1>5, <1>6

LEMMA PhotoCountOK == ASSUME IInv, ~Early, PhotoCount PROVE IInv'
<1>1. /\ up /\ job[Agent].at = "count" /\ job[Agent].at \in Photos /\ End(Agent)
      /\ UNCHANGED <<dirs, state, current, index, up, todo, started>>
  BY DEF PhotoCount, At, Photos
<1>2. Listed /\ state[current] # "empty" BY <1>1, PhotoNow
<1> QED BY <1>1, <1>2, EndAgent, ActiveStays

LEMMA AskDeleteOK == ASSUME IInv, ~Early, NEW i \in Ids, AskDelete(i) PROVE IInv'
<1> DEFINE r == Handle(i, "rm", FALSE)
<1>1. /\ up /\ Listed /\ i <= started /\ current # i /\ job' = [job EXCEPT ![Agent] = r]
      /\ current # Nowhere => state[current] # "empty"
      /\ UNCHANGED <<dirs, state, current, index, up, todo, started>>
  BY ServesOK, Numbers DEF AskDelete, store, IInv, Types
<1>2. r \in Jobs /\ r.dir = i /\ r.at = "rm"
  <2>1. "rm" \in Places BY DEF Places
  <2> QED BY <2>1, HandleOK
<1> HIDE DEF r
<1> QED BY <1>1, <1>2, ActiveStays

--------------------------------------------------------------------------------
(* The sweep, and the process                                                *)

LEMMA GoSweep ==
  ASSUME IInv, NEW place \in Places, Go(Sweep, place)
  PROVE  /\ job' \in [Workers -> Jobs] /\ \A w \in Workers \ {Sweep} : job'[w] = job[w]
         /\ job'[Sweep].dir = job[Sweep].dir /\ job'[Sweep].at = place
         /\ job'[Agent] = job[Agent]
  BY GoHand, Threads DEF IInv, Types

\* The sweep before it has its listing: it is alone, and takes the active
\* instance of an earlier run out of the way.
LEMMA SweepIndexOK == ASSUME IInv, SweepIndex PROVE IInv'
<1>1. /\ up /\ job[Sweep].at = "valid" /\ Go(Sweep, "unlink") /\ "unlink" \in Places
      /\ UNCHANGED <<dirs, state, current, index, up, todo, started, cut>>
  BY DEF SweepIndex, At, store, Places
<1>2. /\ job' \in [Workers -> Jobs] /\ job'[Agent] = job[Agent] /\ job'[Sweep].at = "unlink"
      /\ job'[Sweep].dir = job[Sweep].dir
      /\ \A w \in Workers \ {Sweep} : job'[w] = job[w]
  BY <1>1, GoSweep
<1>3. \A w \in Workers : job'[w].dir = job[w].dir BY <1>2
<1>4. Types' BY <1>1, <1>2 DEF IInv, Types
<1>5. Begun' BY <1>1, <1>3 DEF IInv, Begun
<1>6. Active' /\ Starting' /\ Photo'
  <2>1. Stale => Stale' BY <1>1, <1>2 DEF Stale, Listed
  <2> QED BY <1>1, <1>2, <1>3, <2>1 DEF IInv, Active, Starting, Photo, OnlyAgent
<1>7. Waiting' BY <1>1, <1>2 DEF IInv, Waiting, Listed
<1> QED BY <1>4, <1>5, <1>6, <1>7 DEF IInv

LEMMA SweepCurrentOK == ASSUME IInv, SweepCurrent PROVE IInv'
<1>1. /\ up /\ job[Sweep].at = "unlink" /\ ~Listed /\ "list" \in Places
      /\ UNCHANGED <<dirs, state, index, up, todo, started>>
  BY DEF SweepCurrent, At, Places, Listed
<1>2. current # Folder /\ (current # Nowhere => current \in dirs)
  BY Numbers DEF IInv, Types, Active, OnlyAgent
<1>3. Go(Sweep, "list") /\ current' = Nowhere BY <1>2 DEF SweepCurrent
<1>4. /\ job' \in [Workers -> Jobs] /\ job'[Agent] = job[Agent] /\ job'[Sweep].at = "list"
      /\ job'[Sweep].dir = job[Sweep].dir
      /\ \A w \in Workers \ {Sweep} : job'[w] = job[w]
  BY <1>1, <1>3, GoSweep
<1>5. \A w \in Workers : job'[w].dir = job[w].dir BY <1>4
<1>6. job[Agent].at = "idle" BY <1>1, Threads DEF IInv, Waiting, Rest
<1>7. Types' BY <1>1, <1>3, <1>4 DEF IInv, Types
<1>8. Begun' BY <1>1, <1>5 DEF IInv, Begun
<1>9. Active' /\ Starting' /\ Photo' BY <1>3, <1>4, <1>6 DEF Active, Starting, Photo, Starts, Photos
<1>10. Waiting' BY <1>1, <1>3, <1>4 DEF IInv, Waiting, Listed
<1> QED BY <1>7, <1>8, <1>9, <1>10 DEF IInv

LEMMA SweepListOK == ASSUME IInv, SweepList PROVE IInv'
<1>1. /\ up /\ job[Sweep].at = "list" /\ ~Listed /\ Go(Sweep, "visit") /\ "visit" \in Places
      /\ todo' = dirs /\ UNCHANGED <<dirs, state, current, index, up, started>>
  BY DEF SweepList, At, Places, Listed, store
<1>2. /\ job' \in [Workers -> Jobs] /\ job'[Agent] = job[Agent] /\ job'[Sweep].at = "visit"
      /\ job'[Sweep].dir = job[Sweep].dir
      /\ \A w \in Workers \ {Sweep} : job'[w] = job[w]
  BY <1>1, GoSweep
<1>3. \A w \in Workers : job'[w].dir = job[w].dir BY <1>2
<1>4. current' = Nowhere BY <1>1 DEF IInv, Waiting
<1>5. job[Agent].at = "idle" BY <1>1, Threads DEF IInv, Waiting, Rest
<1>6. Types' BY <1>1, <1>2 DEF IInv, Types
<1>7. Begun' BY <1>1, <1>3 DEF IInv, Begun
<1>8. Active' /\ Starting' /\ Photo' BY <1>2, <1>4, <1>5 DEF Active, Starting, Photo, Starts, Photos
<1>9. Waiting' BY <1>1, <1>2 DEF Waiting, Listed
<1> QED BY <1>6, <1>7, <1>8, <1>9 DEF IInv

\* A step of the sweep that takes up an instance of its list, or nothing: the
\* active instance and the one that starts are not on the list.
LEMMA SweepGoesOn ==
  ASSUME IInv, up, job[Sweep].at = "visit", job' \in [Workers -> Jobs],
         UNCHANGED <<dirs, state, current, index, up, started>>, todo' \subseteq todo,
         \A w \in Workers \ {Sweep} : job'[w] = job[w],
         job'[Sweep].dir \in todo \cup {job[Sweep].dir},
         job'[Sweep].at \notin {"valid", "unlink", "list"}
  PROVE  IInv'
<1>1. job'[Agent] = job[Agent] BY Threads
<1>2. ASSUME NEW i \in Ids, OnlyAgent(i) PROVE OnlyAgent(i)' BY <1>2, Threads DEF OnlyAgent
<1>3. Types' BY DEF IInv, Types
<1>4. Begun' BY BegunKept, Threads
<1>5. Active'
  <2>s. Listed BY DEF Listed
  <2> SUFFICES ASSUME current # Nowhere PROVE OnlyAgent(current)'
    BY <1>1, <2>s DEF IInv, Active, Stale
  <2>1. PICK k \in Ids : k = current /\ OnlyAgent(k) BY DEF IInv, Types, Active
  <2> QED BY <1>2, <2>1 DEF OnlyAgent
<1>6. Starting'
  <2> SUFFICES ASSUME job[Agent].at \in Starts PROVE OnlyAgent(job[Agent].dir)'
    BY <1>1 DEF IInv, Starting
  <2>1. PICK k \in Ids : k = job[Agent].dir /\ OnlyAgent(k) BY DEF IInv, Types, Starting, OnlyAgent
  <2> QED BY <1>1, <1>2, <2>1 DEF OnlyAgent
<1>7. Photo' BY <1>1 DEF IInv, Photo
<1>8. Waiting' BY DEF Waiting, Listed
<1> QED BY <1>3, <1>4, <1>5, <1>6, <1>7, <1>8 DEF IInv

LEMMA SweepVisitOK == ASSUME IInv, NEW i \in Ids, SweepVisit(i) PROVE IInv'
<1>1. /\ up /\ job[Sweep].at = "visit" /\ i \in todo /\ todo' \subseteq todo
      /\ UNCHANGED <<dirs, state, current, index, up, started>>
      /\ \/ job' = [job EXCEPT ![Sweep] = Handle(i, "gen", TRUE)]
         \/ job' = [job EXCEPT ![Sweep] = Handle(i, "rm", FALSE)]
         \/ job' = job
  BY DEF SweepVisit, At, store
<1>2. "gen" \in Places /\ "rm" \in Places BY DEF Places
<1>3. job \in [Workers -> Jobs] BY DEF IInv, Types
<1>4. CASE job' = job BY <1>1, <1>3, <1>4, SweepGoesOn
<1>5. CASE \E r \in Jobs : job' = [job EXCEPT ![Sweep] = r] /\ r.dir = i /\ r.at \in {"gen", "rm"}
  <2>1. /\ job' \in [Workers -> Jobs] /\ \A w \in Workers \ {Sweep} : job'[w] = job[w]
        /\ job'[Sweep].dir = i /\ job'[Sweep].at \in {"gen", "rm"}
    BY <1>3, <1>5, Threads
  <2> QED BY <1>1, <2>1, SweepGoesOn
<1>6. /\ Handle(i, "gen", TRUE) \in Jobs /\ Handle(i, "rm", FALSE) \in Jobs
      /\ Handle(i, "gen", TRUE).dir = i /\ Handle(i, "gen", TRUE).at = "gen"
      /\ Handle(i, "rm", FALSE).dir = i /\ Handle(i, "rm", FALSE).at = "rm"
  BY <1>2, HandleOK
<1> QED BY <1>1, <1>4, <1>5, <1>6

LEMMA SweepOverOK == ASSUME IInv, SweepOver PROVE IInv'
<1>1. /\ up /\ job[Sweep].at = "visit" /\ Go(Sweep, "over") /\ "over" \in Places
      /\ UNCHANGED <<dirs, state, current, index, up, todo, started>>
  BY DEF SweepOver, At, Places, store
<1>2. /\ job' \in [Workers -> Jobs] /\ job'[Sweep].at = "over"
      /\ job'[Sweep].dir = job[Sweep].dir
      /\ \A w \in Workers \ {Sweep} : job'[w] = job[w]
  BY <1>1, GoSweep
<1> QED BY <1>1, <1>2, SweepGoesOn

LEMMA KillOK == ASSUME IInv, Kill PROVE IInv'
<1>1. /\ ~up' /\ todo' = {} /\ job' = [w \in Workers |-> Rest]
      /\ UNCHANGED <<dirs, state, current, index, started>>
      /\ cut' = cut \cup {i \in dirs : state[i] = "empty" \/ (i \in shot /\ "frames" \notin files[i])}
  BY Zenon DEF Kill, store
<1>2. Rest \in Jobs /\ Rest.at = "idle" /\ Rest.dir = Nowhere BY DEF Rest, Jobs, Places
<1>3. \A w \in Workers : job'[w] = Rest BY <1>1
<1>4. Types' BY <1>1, <1>2 DEF IInv, Types
<1>5. Begun'
  <2>1. Nowhere <= started BY Numbers DEF IInv, Types
  <2> QED BY <1>1, <1>2, <1>3, <2>1 DEF IInv, Begun
<1>6. Active' /\ Starting' /\ Photo'
  <2>1. ASSUME current # Nowhere, state[current] = "empty" PROVE Stale'
    <3>1. current \in dirs BY <2>1 DEF IInv, Active, OnlyAgent
    <3>2. current' \in cut' BY <1>1, <2>1, <3>1
    <3> QED BY <1>1, <3>2 DEF Stale
  <2> QED BY <1>1, <1>2, <1>3, <2>1, Threads DEF IInv, Active, Starting, Photo, OnlyAgent, Starts, Photos
<1>7. Waiting' BY <1>1, <1>2, <1>3, Threads DEF Waiting
<1> QED BY <1>4, <1>5, <1>6, <1>7 DEF IInv

LEMMA BootOK == ASSUME IInv, Boot PROVE IInv'
<1> DEFINE r == [Rest EXCEPT !.at = "valid"]
<1>1. /\ ~up /\ up' /\ job' = [job EXCEPT ![Sweep].at = "valid"]
      /\ UNCHANGED <<dirs, state, current, index, todo, started, cut>>
  BY Zenon DEF Boot, store
<1>2. \A w \in Workers : job[w] = Rest BY <1>1 DEF IInv, Waiting
<1>3. r \in Jobs /\ r.dir = Nowhere /\ r.at = "valid" BY DEF Rest, Jobs, Places
<1>4. job \in [Workers -> Jobs] BY DEF IInv, Types
<1>5. job' = [job EXCEPT ![Sweep] = r] BY <1>1, <1>2, Threads
<1> HIDE DEF r
<1>6. /\ job' \in [Workers -> Jobs] /\ job'[Sweep] = r
      /\ \A w \in Workers \ {Sweep} : job'[w] = Rest
  BY <1>2, <1>3, <1>4, <1>5, Threads
<1>7. Rest.dir = Nowhere /\ Rest.at = "idle" BY DEF Rest
<1>8. \A w \in Workers : job'[w].dir = Nowhere /\ job[w].dir = Nowhere BY <1>2, <1>3, <1>6, <1>7
<1>9. Types' BY <1>1, <1>6 DEF IInv, Types
<1>10. Begun' BY <1>1, <1>8 DEF IInv, Begun
<1>11. job'[Agent].at = "idle" BY <1>6, <1>7, Threads
<1>12. Active' /\ Starting' /\ Photo'
  <2>1. job'[Sweep].at = "valid" BY <1>3, <1>6
  <2>2. job[Agent].at = "idle" BY <1>2, <1>7, Threads
  <2>3. current \in cut => Stale' BY <1>1, <2>1 DEF Stale, Listed
  <2>4. current # Nowhere /\ state[current] = "empty" => current \in cut BY <2>2 DEF IInv, Active, Stale
  <2> QED BY <1>1, <1>8, <1>11, <2>3, <2>4, Numbers, Threads
          DEF IInv, Active, Starting, Photo, OnlyAgent, Starts, Photos
<1>13. Waiting' BY <1>1, <1>3, <1>6 DEF Waiting
<1> QED BY <1>9, <1>10, <1>12, <1>13 DEF IInv

LEMMA NextOK == ASSUME IInv, ~Early, [Next]_vars PROVE IInv'
<1>1. CASE Request BY <1>1, StartDirOK, StopTimelapseOK, PhotoStateOK, AskDeleteOK DEF Request
<1>2. CASE \E w \in Workers : Step(w)
  BY <1>2, JobOK, StartStateOK, StartReadyOK, StartLinkOK, PhotoActivatedOK, PhotoFrameOK,
     PhotoCountOK, SweepIndexOK, SweepCurrentOK, SweepListOK, SweepVisitOK, SweepOverOK
  DEF Step, AgentStep, SweepStep
<1>3. CASE Kill BY <1>3, KillOK
<1>4. CASE Boot BY <1>4, BootOK
<1>5. CASE UNCHANGED vars
  BY <1>5 DEF vars, store, IInv, Types, Begun, Active, Stale, Starting, Photo, Waiting, OnlyAgent, Listed
<1> QED BY <1>1, <1>2, <1>3, <1>4, <1>5 DEF Next

--------------------------------------------------------------------------------

\* The active timelapse keeps its directory and stays open: no deletion, no
\* generation and no sweep of an earlier run's leftovers touches it.
THEOREM ActiveIsKept == ASSUME ~Early PROVE Spec => []ActiveKept
<1>1. Init => IInv BY InitOK
<1>2. IInv /\ [Next]_vars => IInv' BY NextOK
<1>3. IInv => ActiveKept
  <2> SUFFICES ASSUME IInv, current # Nowhere
               PROVE  /\ current \in dirs
                      /\ \/ state[current] \in {"READY", "ACTIVATED"}
                         \/ state[current] = "empty" /\ (At(Agent, "activate") \/ current \in cut)
    BY DEF ActiveKept
  <2>1. job[Agent].at = "activate" => up
    <3>1. Rest.at # "activate" BY DEF Rest
    <3> QED BY <3>1, Threads DEF IInv, Waiting
  <2> QED BY <2>1 DEF IInv, Active, OnlyAgent, Stale, At
<1> QED BY <1>1, <1>2, <1>3, PTL DEF Spec
--------------------------------------------------------------------------------
(* What the threads leave of the other timelapses: the index, the files and  *)
(* the instances on their way from one to the other, while no write of the   *)
(* index was lost.                                                           *)

\* An entry of the index: in the file, or in what the thread that has emptied
\* the file is about to write over it.
Lists(i) == i \in index \/ \E w \in Workers : job[w].at = "dump" /\ i \in job[w].seen

\* What TypeOK says besides Types.
Clean ==
  /\ index \subseteq Ids /\ files \in [Ids -> SUBSET Files]
  /\ \A w \in Workers : job[w].seen \subseteq Ids
  /\ {torn, up, hurt} \subseteq BOOLEAN
  /\ UNION {valid, asked, shot, cut} \subseteq Ids
  /\ started <= MaxStarts /\ kills \in 0 .. MaxKills

\* A thread has an instance exactly while it works on it, and the thread of a
\* timelapse works on no other.
Busy == Hands \cup Starts \cup Photos
Held == \A w \in Workers : job[w].dir \in Ids <=> job[w].at \in Busy
Own == \A k \in Ids : job[k].dir \in {k, Nowhere}

\* What is not there is empty; a directory begins without a state and has its
\* configuration while it is active; the sweep ends with its list.
Born == \A i \in Ids \ dirs : files[i] = {} /\ state[i] = "none"
Made ==
  /\ job[Agent].at = "mkdir" => state[job[Agent].dir] = "none"
  /\ job[Agent].at \in Starts => "config" \in files[job[Agent].dir]
  /\ current # Nowhere => "config" \in files[current]
Over == job[Sweep].at = "over" => todo = {}

Form == Clean /\ Held /\ Own /\ Born /\ Made /\ Over

\* One thread at a time writes the index, which is unreadable meanwhile.
Writes ==
  /\ torn => index = {}
  /\ \A w \in Workers : job[w].at = "dump" => torn
  /\ \A w, v \in Workers : job[w].at = "dump" /\ job[v].at = "dump" => w = v

\* What the thread w that has the instance i knows of it.
Route(w, i) ==
  /\ job[w].at \in {"rm", "rmdir"} =>
       state[i] \in {"none", "READY", "ACTIVATED"} /\ (state[i] # "none" => "frames" \notin files[i])
  /\ job[w].at = "gen" => job[w].add /\ state[i] \in Unfinished
  /\ job[w].at = "generating" => job[w].add /\ state[i] = "empty" /\ Files \subseteq files[i]
  /\ job[w].at \in {"ready", "activate"} => ~Lists(i)
  /\ job[w].at \in {"read", "truncate", "dump"} =>
       IF job[w].add THEN state[i] = "GENERATING" ELSE i \notin dirs
  /\ job[w].at = "finish" => state[i] = "GENERATING" /\ Lists(i)
  /\ job[w].at = "finished" => state[i] = "empty" /\ Files \subseteq files[i] /\ Lists(i)

\* Nobody has the instance in hand twice ...
Alone(i) ==
  /\ \A w, v \in Workers : job[w].dir = i /\ job[v].dir = i => w = v
  /\ i \in todo => \A w \in Workers : job[w].dir # i
  /\ \A w \in Workers : job[w].dir = i => Route(w, i)

\* ... its state tells what it holds and whether the index has it, the sweep's
\* copy of the index included ...
Entered(i) ==
  /\ Lists(i) => state[i] \in {"GENERATING", "empty", "FINISHED"}
  /\ state[i] = "FINISHED" => Lists(i)
  /\ state[i] \in {"GENERATING", "FINISHED"} => "frames" \in files[i]
  /\ state[i] # "none" /\ "frames" \in files[i] => "config" \in files[i]
  /\ state[i] = "FINISHED" /\ (i \in todo \/ job[Sweep].at \in {"unlink", "list"}) =>
       i \in valid

\* ... an empty state is on its way or was left by a kill ...
Emptied(i) == state[i] = "empty" => i \in cut \/ \E w \in Workers : job[w].dir = i

\* ... and a directory is active, done, left by a kill, on the sweep's list or in
\* hand.
Found(i) ==
  i \in dirs /\ up /\ Listed =>
    \/ i = current \/ i \in todo \/ state[i] = "FINISHED" \/ (state[i] = "empty" /\ i \in cut)
    \/ \E w \in Workers : job[w].dir = i

SafeOne(i) == Alone(i) /\ Entered(i) /\ Emptied(i) /\ Found(i)

Safe == ~hurt => Writes /\ \A i \in Ids \ asked : SafeOne(i)

CInv == IInv /\ Form /\ Safe

--------------------------------------------------------------------------------

LEMMA CleanTypes == ASSUME Types, Clean PROVE TypeOK
<1>1. job \in [Workers -> [at : Places, dir : Ids \cup {Nowhere}, add : BOOLEAN, seen : SUBSET Ids]]
  BY DEF Types, Clean, Jobs
<1>2. started \in 0 .. MaxStarts BY Numbers DEF Types, Clean
<1> QED BY <1>1, <1>2 DEF Types, Clean, TypeOK

LEMMA CInvInit == ASSUME Init PROVE CInv
<1>1. \A w \in Workers : job[w] = Rest BY DEF Init
<1>2. Rest.at = "idle" /\ Rest.dir = Nowhere /\ Rest.seen = {} BY DEF Rest
<1>3. \A w \in Workers : job[w].at = "idle" /\ job[w].dir = Nowhere /\ job[w].seen = {} BY <1>1, <1>2
<1>4. Clean
  <2>1. MaxStarts \in Nat /\ MaxKills \in Nat BY TimelapseAssumption
  <2>2. files \in [Ids -> SUBSET Files] BY DEF Init
  <2>3. {torn, up, hurt} \subseteq BOOLEAN BY Zenon DEF Init
  <2>4. started <= MaxStarts /\ kills \in 0 .. MaxKills
    <3>1. started = 0 /\ kills = 0 BY DEF Init
    <3> QED BY <2>1, <3>1
  <2>5. UNION {valid, asked, shot, cut} \subseteq Ids BY DEF Init
  <2> QED BY <1>3, <2>2, <2>3, <2>4, <2>5 DEF Clean, Init
<1>5. Held /\ Own /\ Made /\ Over
  <2>1. "idle" \notin Busy BY DEF Busy, Hands, Starts, Photos
  <2>2. current = Nowhere /\ todo = {} BY DEF Init
  <2> QED BY <1>3, <2>1, <2>2, Threads, Numbers DEF Held, Own, Made, Over, Starts
<1>6. Born BY DEF Born, Init
<1>7. Writes BY <1>3 DEF Writes, Init
<1>8. ASSUME NEW i \in Ids PROVE SafeOne(i)
  <2>1. state[i] = "none" /\ dirs = {} /\ index = {} /\ todo = {} BY DEF Init
  <2>2. ~Lists(i) BY <1>3, <2>1 DEF Lists
  <2>3. \A w \in Workers : job[w].dir # i BY <1>3, Numbers
  <2> QED BY <2>1, <2>2, <2>3 DEF SafeOne, Alone, Entered, Emptied, Found
<1> QED BY InitOK, <1>4, <1>5, <1>6, <1>7, <1>8 DEF CInv, Form, Safe

\* The three invariants of the run follow.
LEMMA CInvShows == ASSUME CInv PROVE TypeOK /\ CatalogueTrue /\ NothingStranded
<1>1. TypeOK BY CleanTypes DEF CInv, IInv, Form
<1>2. CatalogueTrue
  <2> SUFFICES ASSUME ~hurt, NEW i \in index \ asked
               PROVE  i \in dirs /\ state[i] \in {"GENERATING", "empty", "FINISHED"}
    BY DEF CatalogueTrue
  <2>1. i \in Ids \ asked BY DEF CInv, Form, Clean
  <2>2. state[i] \in {"GENERATING", "empty", "FINISHED"} BY <2>1 DEF CInv, Safe, SafeOne, Entered, Lists
  <2> QED BY <2>1, <2>2 DEF CInv, Form, Born
<1>3. NothingStranded
  <2> SUFFICES ASSUME up, job[Sweep].at = "over", \A w \in Workers \ {Sweep} : job[w].at = "idle",
                      ~hurt, NEW i \in dirs \ asked
               PROVE  i = current \/ Shown(i) \/ (i \in cut /\ state[i] = "empty")
    BY DEF NothingStranded
  <2>1. i \in Ids \ asked BY DEF CInv, IInv, Types
  <2>2. \A w \in Workers : job[w].at \notin Busy /\ job[w].at # "dump" BY DEF Busy, Hands, Starts, Photos
  <2>3. \A w \in Workers : job[w].dir # i BY <2>1, <2>2 DEF CInv, Form, Held
  <2>4. todo = {} /\ Listed BY DEF CInv, Form, Over, Listed
  <2>5. i = current \/ state[i] = "FINISHED" \/ (state[i] = "empty" /\ i \in cut)
    BY <2>1, <2>3, <2>4 DEF CInv, Safe, SafeOne, Found
  <2>6. state[i] = "FINISHED" => i \in index BY <2>1, <2>2 DEF CInv, Safe, SafeOne, Entered, Lists
  <2> QED BY <2>5, <2>6 DEF Shown
<1> QED BY <1>1, <1>2, <1>3

\* The step of one thread: the others stay where they are.
Turn(w) == job' \in [Workers -> Jobs] /\ \A v \in Workers \ {w} : job'[v] = job[v]

LEMMA GoTurn ==
  ASSUME job \in [Workers -> Jobs], NEW w \in Workers, NEW place \in Places, Go(w, place)
  PROVE  /\ Turn(w) /\ job'[w].dir = job[w].dir /\ job'[w].at = place
         /\ job'[w].add = job[w].add /\ job'[w].seen = job[w].seen
  BY DEF Go, Jobs, Turn

LEMMA EndTurn ==
  ASSUME job \in [Workers -> Jobs], NEW w \in Workers, End(w) \/ Die(w)
  PROVE  /\ Turn(w) /\ job'[w].dir = Nowhere /\ job'[w].seen = {}
         /\ job'[w].at \in {"idle", "visit", "died"}
<1> DEFINE r(a) == [Rest EXCEPT !.at = a]
<1>1. \A a \in {"idle", "visit", "died"} :
        r(a) \in Jobs /\ r(a).dir = Nowhere /\ r(a).at = a /\ r(a).seen = {}
  BY DEF Rest, Jobs, Places
<1>2. PICK a \in {"idle", "visit", "died"} : job' = [job EXCEPT ![w] = r(a)]
  <2>1. CASE w = Sweep
    <3>1. job' = [job EXCEPT ![w] = r("visit")] \/ job' = [job EXCEPT ![w] = r("died")]
      BY <2>1, Zenon DEF End, Die
    <3> QED BY <3>1, Zenon
  <2>2. CASE w # Sweep
    <3>1. job' = [job EXCEPT ![w] = r("idle")] BY <2>2, Zenon DEF End, Die
    <3> QED BY <3>1, Zenon
  <2> QED BY <2>1, <2>2, Zenon
<1> HIDE DEF r
<1> QED BY <1>1, <1>2 DEF Turn

LEMMA HandleTurn ==
  ASSUME job \in [Workers -> Jobs], NEW w \in Workers, NEW i \in Ids, NEW place \in Places,
         NEW adds \in BOOLEAN, job' = [job EXCEPT ![w] = Handle(i, place, adds)]
  PROVE  /\ Turn(w) /\ job'[w].dir = i /\ job'[w].at = place
         /\ job'[w].add = adds /\ job'[w].seen = {}
<1>1. Handle(i, place, adds) \in Jobs BY DEF Handle, Jobs
<1>2. job'[w] = Handle(i, place, adds) OBVIOUS
<1> QED BY <1>1, <1>2 DEF Turn, Handle

\* What a thread's step leaves of the invariant's form.
LEMMA FormKept ==
  ASSUME CInv, NEW w \in Workers, Turn(w), todo' \subseteq todo,
         job'[w].dir \in Ids <=> job'[w].at \in Busy,
         w \in Ids => job'[w].dir \in {w, Nowhere},
         job'[w].seen \subseteq Ids, w = Sweep /\ job'[w].at = "over" => todo = {}
  PROVE  Held' /\ Own' /\ Over' /\ \A v \in Workers : job'[v].seen \subseteq Ids
<1>1. Held' BY DEF CInv, Form, Held, Turn
<1>2. Own' BY Threads DEF CInv, Form, Own, Turn
<1>3. Over' BY Threads DEF CInv, Form, Over, Turn
<1>4. \A v \in Workers : job'[v].seen \subseteq Ids BY DEF CInv, Form, Clean, Turn
<1> QED BY <1>1, <1>2, <1>3, <1>4

\* A step that is not about the instance j.
Aside(j) ==
  /\ state'[j] = state[j] /\ files'[j] = files[j] /\ up' = up
  /\ j \in dirs' <=> j \in dirs
  /\ j \in todo' <=> j \in todo
  /\ j \in todo' \/ job'[Sweep].at \in {"unlink", "list"} => (j \in valid => j \in valid')
  /\ current' = j <=> current = j
  /\ Lists(j)' <=> Lists(j)
  /\ j \in cut => j \in cut'

\* The sweep's place with respect to its listing stays.
Placed ==
  /\ Listed' <=> Listed
  /\ job'[Sweep].at \in {"unlink", "list"} => job[Sweep].at \in {"unlink", "list"}

Elsewhere(j) ==
  \A v \in Workers :
    (job'[v].dir = j <=> job[v].dir = j) /\ (job[v].dir = j => job'[v] = job[v])

LEMMA ApartFromAll ==
  ASSUME CInv, ~hurt, NEW j \in Ids \ asked, Elsewhere(j), Placed, Aside(j)
  PROVE  SafeOne(j)'
<1>1. SafeOne(j) BY DEF CInv, Safe
<1>4. ASSUME NEW v \in Workers, job'[v].dir = j PROVE Route(v, j)'
  <2>1. Route(v, j) /\ job'[v] = job[v] BY <1>1, <1>4 DEF SafeOne, Alone, Elsewhere
  <2> QED BY <2>1 DEF Route, Aside
<1>5. Alone(j)' BY <1>1, <1>4 DEF SafeOne, Alone, Aside, Elsewhere
<1>6. Entered(j)' BY <1>1 DEF SafeOne, Entered, Aside, Placed
<1>7. Found(j)'
  <2> SUFFICES ASSUME j \in dirs', up', Listed'
               PROVE  \/ j = current' \/ j \in todo' \/ state'[j] = "FINISHED"
                      \/ state'[j] = "empty" /\ j \in cut'
                      \/ \E v \in Workers : job'[v].dir = j
    BY DEF Found
  <2>1. j \in dirs /\ up /\ Listed BY DEF Aside, Placed
  <2> QED BY <1>1, <2>1 DEF SafeOne, Found, Aside, Elsewhere
<1>8. Emptied(j)' BY <1>1 DEF SafeOne, Emptied, Aside, Elsewhere
<1> QED BY <1>5, <1>6, <1>7, <1>8 DEF SafeOne

LEMMA Apart ==
  ASSUME CInv, ~hurt, NEW w \in Workers, Turn(w), Placed, NEW j \in Ids \ asked, Aside(j),
         job[w].dir # j, job'[w].dir # j
  PROVE  SafeOne(j)'
<1>1. Elsewhere(j) BY DEF Elsewhere, Turn
<1> QED BY <1>1, ApartFromAll

\* Nobody begins or ends to write the index.
NoWriter ==
  \A v \in Workers :
    (job'[v].at = "dump" <=> job[v].at = "dump") /\ (job[v].at = "dump" => job'[v] = job[v])

LEMMA ListsStay ==
  ASSUME CInv, NoWriter, UNCHANGED <<index, torn>>
  PROVE  /\ \A j \in Ids : Lists(j)' <=> Lists(j)
         /\ Writes => Writes'
<1>1. \A j \in Ids : Lists(j)' <=> Lists(j) BY DEF Lists, NoWriter
<1>2. Writes => Writes' BY DEF Writes, NoWriter
<1> QED BY <1>1, <1>2

LEMMA ListsKept ==
  ASSUME CInv, NEW w \in Workers, Turn(w), job[w].at # "dump", job'[w].at # "dump",
         UNCHANGED <<index, torn>>
  PROVE  /\ \A j \in Ids : Lists(j)' <=> Lists(j)
         /\ Writes => Writes'
<1>1. NoWriter BY DEF NoWriter, Turn
<1> QED BY <1>1, ListsStay

\* The step of an unhurt index keeps Safe when it keeps what each part says.
LEMMA SafeKept ==
  ASSUME ~hurt' => Writes' /\ \A i \in Ids \ asked' : SafeOne(i)'
  PROVE  Safe'
  BY DEF Safe

--------------------------------------------------------------------------------
(* Deleting and generating                                                   *)

JobUnchanged ==
  UNCHANGED <<current, todo, started, up, valid, kills, asked, shot, cut>>

LEMMA JobNow ==
  ASSUME CInv, NEW w \in Workers, Job(w)
  PROVE  /\ IInv' /\ Turn(w) /\ Placed /\ JobUnchanged /\ up
         /\ job[w].dir \in Ids /\ job[w].at \in Hands /\ job[w].add \in BOOLEAN
         /\ job[Agent].at \in Starts => job[Agent].dir # job[w].dir
         /\ current # job[w].dir
         /\ w = Agent => job'[w].at \notin Starts
         /\ Listed /\ Listed'
<1>1. OwnOnly(w) /\ IInv' BY JobStep, JobOK DEF CInv
<1>2. Turn(w) BY <1>1 DEF OwnOnly, Turn
<1>3. JobUnchanged
  <2> USE DEF JobUnchanged, store
  <2>1. CASE RemoveFiles(w) BY <2>1 DEF RemoveFiles
  <2>2. CASE RemoveDir(w) BY <2>2 DEF RemoveDir
  <2>3. CASE ReadIndex(w) \/ Truncate(w) \/ Dump(w) BY <2>3 DEF ReadIndex, Truncate, Dump
  <2>4. CASE Generate(w) BY <2>4 DEF Generate
  <2>5. CASE Finish(w) BY <2>5 DEF Finish
  <2>6. CASE Generating(w) \/ Finished(w) BY <2>6 DEF Generating, Finished
  <2> QED BY <2>1, <2>2, <2>3, <2>4, <2>5, <2>6 DEF Job
<1>4. job[w].dir \in Ids /\ job[w].at \in Hands /\ up
  <2>1. job[w].at \in Hands /\ up BY <1>1 DEF OwnOnly
  <2>2. job[w].at \in Busy BY <2>1 DEF Busy
  <2> QED BY <2>1, <2>2 DEF CInv, Form, Held
<1>5. job[w].add \in BOOLEAN
  <2>1. job[w] \in Jobs BY DEF CInv, IInv, Types
  <2> QED BY <2>1 DEF Jobs
<1>10. current # job[w].dir
  <2>1. CASE w = Agent BY <1>4, <2>1, Numbers DEF Hands, Photos, CInv, IInv, Active
  <2>2. CASE w # Agent BY <1>4, <2>2, Numbers DEF CInv, IInv, Active, OnlyAgent
  <2> QED BY <2>1, <2>2
<1>6. job[Agent].at \in Starts => job[Agent].dir # job[w].dir
  <2>1. CASE w = Agent BY <1>4, <2>1 DEF Hands, Starts
  <2>2. CASE w # Agent BY <2>2 DEF CInv, IInv, Starting, OnlyAgent
  <2> QED BY <2>1, <2>2
<1>7. w = Agent => job'[w].at \notin Starts BY <1>1 DEF OwnOnly, Hands, Starts
<1>8. Listed /\ Listed' /\ job'[Sweep].at \notin {"unlink", "list"}
  <2>1. CASE w = Sweep BY <1>1, <2>1 DEF OwnOnly, Hands, Listed
  <2>2. CASE w # Sweep
    <3>1. up /\ Listed BY <1>1, <2>2 DEF CInv, IInv, Waiting, OwnOnly, Hands, Rest
    <3>2. job'[Sweep] = job[Sweep] BY <1>1, <2>2, Threads DEF OwnOnly
    <3> QED BY <3>1, <3>2 DEF Listed
  <2> QED BY <2>1, <2>2
<1>9. Placed BY <1>8 DEF Placed
<1> QED BY <1>1, <1>2, <1>3, <1>4, <1>5, <1>6, <1>7, <1>8, <1>9, <1>10

\* A thread that deletes or generates goes on with its instance or is done.
LEMMA JobTurn ==
  ASSUME CInv, NEW w \in Workers, Job(w)
  PROVE  /\ \/ job'[w].dir = job[w].dir /\ job'[w].at \in Hands
            \/ job'[w].dir = Nowhere /\ job'[w].at \in {"idle", "visit", "died"}
         /\ job'[w].seen \subseteq Ids
<1>1. job \in [Workers -> Jobs] /\ job[w].seen \subseteq Ids /\ index \subseteq Ids
  BY DEF CInv, IInv, Types, Form, Clean
<1>2. job[w].dir \in Ids /\ job[w].add \in BOOLEAN BY JobNow
<1>3. Hands \subseteq Places BY DEF Hands, Places
<1>4. ASSUME NEW place \in Hands, Go(w, place)
      PROVE  job'[w].dir = job[w].dir /\ job'[w].at \in Hands /\ job'[w].seen \subseteq Ids
  BY <1>1, <1>3, <1>4, GoTurn
<1>5. ASSUME End(w) \/ Die(w)
      PROVE  job'[w].dir = Nowhere /\ job'[w].at \in {"idle", "visit", "died"} /\ job'[w].seen \subseteq Ids
  BY <1>1, <1>5, EndTurn
<1>6. CASE RemoveFiles(w) BY <1>4, <1>5, <1>6 DEF RemoveFiles, Hands
<1>7. CASE RemoveDir(w) BY <1>4, <1>5, <1>7 DEF RemoveDir, Hands
<1>8. CASE ReadIndex(w)
  <2>1. Contents \subseteq Ids BY <1>1 DEF Contents
  <2>2. job' = [job EXCEPT ![w].seen = Contents, ![w].at = "truncate"] BY <1>8 DEF ReadIndex
  <2>3. job'[w].dir = job[w].dir /\ job'[w].at = "truncate" /\ job'[w].seen = Contents
    BY <1>1, <2>2 DEF Jobs
  <2> QED BY <2>1, <2>3 DEF Hands
<1>9. CASE Truncate(w) BY <1>4, <1>9 DEF Truncate, Hands
<1>10. CASE Dump(w)
  <2>1. CASE job[w].add
    <3>1. job' = [job EXCEPT ![w] = Handle(job[w].dir, "finish", TRUE)] BY <1>10, <2>1 DEF Dump
    <3>2. "finish" \in Places BY DEF Places
    <3>3. job'[w].dir = job[w].dir /\ job'[w].at = "finish" /\ job'[w].seen = {}
      BY <1>1, <1>2, <3>1, <3>2, HandleTurn
    <3> QED BY <3>3 DEF Hands
  <2>2. CASE ~job[w].add BY <1>5, <1>10, <2>2 DEF Dump
  <2> QED BY <2>1, <2>2
<1>11. CASE Generate(w) BY <1>4, <1>5, <1>11 DEF Generate, Hands
<1>12. CASE Finish(w) BY <1>4, <1>5, <1>12 DEF Finish, Hands
<1>13. CASE Generating(w) BY <1>4, <1>13 DEF Generating, Hands
<1>14. CASE Finished(w) BY <1>5, <1>14 DEF Finished
<1> QED BY <1>6, <1>7, <1>8, <1>9, <1>10, <1>11, <1>12, <1>13, <1>14 DEF Job

\* ... and changes nothing about another one.
JobData(i) ==
  /\ files' \in [Ids -> SUBSET Files]
  /\ \A j \in Ids \ {i} :
       state'[j] = state[j] /\ files'[j] = files[j] /\ (j \in dirs' <=> j \in dirs)
  /\ i \in dirs' => i \in dirs
  /\ i \notin dirs' => files'[i] = {} /\ state'[i] = "none"

LEMMA JobChanges == ASSUME CInv, NEW w \in Workers, Job(w) PROVE JobData(job[w].dir)
<1> DEFINE i == job[w].dir
<1>1. i \in Ids BY JobNow
<1>2. /\ files \in [Ids -> SUBSET Files] /\ state \in [Ids -> States]
      /\ i \notin dirs => files[i] = {} /\ state[i] = "none"
  BY <1>1 DEF CInv, IInv, Types, Form, Clean, Born
<1>3. CASE RemoveFiles(w)
  <2>1. CASE i \in dirs /\ dirs' = dirs
    <3>1. PICK left \in SUBSET files[i] : files' = [files EXCEPT ![i] = left]
      BY <1>3, <2>1 DEF RemoveFiles
    <3>2. PICK s \in {"none", state[i]} : state' = [state EXCEPT ![i] = s]
      BY <1>3, <2>1 DEF RemoveFiles
    <3>3. files[i] \subseteq Files BY <1>1, <1>2
    <3>4. left \in SUBSET Files BY <3>1, <3>3
    <3> HIDE DEF i
    <3>5. files' \in [Ids -> SUBSET Files] BY <1>1, <1>2, <3>1, <3>4
    <3>6. \A j \in Ids \ {i} : state'[j] = state[j] /\ files'[j] = files[j]
      BY <1>1, <1>2, <3>1, <3>2
    <3> QED BY <2>1, <3>5, <3>6 DEF JobData, i
  <2>2. CASE i \notin dirs BY <1>2, <1>3, <2>2 DEF RemoveFiles, JobData
  <2>3. dirs' = dirs BY <1>3 DEF RemoveFiles
  <2> QED BY <2>1, <2>2, <2>3
<1>4. CASE RemoveDir(w)
  <2>1. CASE UNCHANGED <<dirs, files, state>> BY <1>2, <2>1 DEF JobData
  <2>2. CASE ~ UNCHANGED <<dirs, files, state>>
    <3>1. /\ dirs' = dirs \ {i} /\ files' = [files EXCEPT ![i] = {}]
          /\ state' = [state EXCEPT ![i] = "none"]
      BY <1>4, <2>2 DEF RemoveDir
    <3> HIDE DEF i
    <3>2. files' \in [Ids -> SUBSET Files] /\ files'[i] = {} /\ state'[i] = "none"
      BY <1>1, <1>2, <3>1
    <3>3. \A j \in Ids \ {i} : state'[j] = state[j] /\ files'[j] = files[j]
      BY <1>1, <1>2, <3>1
    <3> QED BY <3>1, <3>2, <3>3 DEF JobData, i
  <2> QED BY <2>1, <2>2
<1>5. CASE ReadIndex(w) \/ Truncate(w) \/ Dump(w)
  <2>1. UNCHANGED <<dirs, files, state>> BY <1>5 DEF ReadIndex, Truncate, Dump, store
  <2> QED BY <1>2, <2>1 DEF JobData
<1>6. CASE Generate(w)
  <2>1. UNCHANGED <<dirs, files>> BY <1>6 DEF Generate
  <2>2. \A j \in Ids \ {i} : state'[j] = state[j] BY <1>1, <1>2, <1>6 DEF Generate, EmptyState
  <2>3. i \notin dirs => state' = state BY <1>2, <1>6 DEF Generate
  <2> QED BY <1>2, <2>1, <2>2, <2>3 DEF JobData
<1>7. CASE Finish(w)
  <2>1. UNCHANGED <<dirs, files>> BY <1>7 DEF Finish
  <2>2. \A j \in Ids \ {i} : state'[j] = state[j] BY <1>1, <1>2, <1>7 DEF Finish, EmptyState
  <2>3. i \notin dirs => state' = state BY <1>7 DEF Finish
  <2> QED BY <1>2, <2>1, <2>2, <2>3 DEF JobData
<1>8. CASE Generating(w) \/ Finished(w)
  <2>1. UNCHANGED <<dirs, files>> BY <1>8 DEF Generating, Finished
  <2>2. \E s : state' = [state EXCEPT ![i] = IF @ = "none" THEN @ ELSE s]
    BY <1>8 DEF Generating, Finished, WriteState
  <2>3. \A j \in Ids \ {i} : state'[j] = state[j] BY <1>1, <1>2, <2>2
  <2>4. state[i] = "none" => state'[i] = "none" BY <1>1, <1>2, <2>2
  <2> QED BY <1>2, <2>1, <2>3, <2>4 DEF JobData
<1> QED BY <1>3, <1>4, <1>5, <1>6, <1>7, <1>8 DEF Job

\* The index: what a thread does to it, and when it stays unhurt.
LEMMA JobIndex ==
  ASSUME CInv, NEW w \in Workers, Job(w)
  PROVE  /\ index' \subseteq Ids /\ {torn', hurt'} \subseteq BOOLEAN
         /\ ~hurt' => ~hurt
<1>1. index \subseteq Ids /\ {torn, hurt} \subseteq BOOLEAN /\ job[w].seen \subseteq Ids
  BY DEF CInv, Form, Clean
<1>2. CASE Truncate(w)
  <2>1. hurt' = (hurt \/ torn \/ job[w].seen # index) /\ index' = {} /\ torn' = TRUE
    BY <1>2 DEF Truncate
  <2>2. hurt' \in BOOLEAN BY <2>1, Zenon
  <2>3. ~hurt' => ~hurt BY <2>1, Zenon
  <2> QED BY <2>1, <2>2, <2>3
<1>3. CASE Dump(w)
  <2>1. job[w].dir \in Ids BY JobNow
  <2>2. torn' \in BOOLEAN BY <1>3 DEF Dump
  <2>3. index' \subseteq Ids BY <1>1, <1>3, <2>1 DEF Dump
  <2>4. hurt' = hurt BY <1>3 DEF Dump
  <2> QED BY <1>1, <2>2, <2>3, <2>4
<1>4. CASE RemoveFiles(w) \/ RemoveDir(w) \/ ReadIndex(w) \/ Generate(w) \/ Generating(w)
           \/ Finish(w) \/ Finished(w)
  <2>1. CASE ReadIndex(w) BY <1>1, <2>1 DEF ReadIndex, store
  <2>2. CASE ~ReadIndex(w)
    <3>1. UNCHANGED <<index, torn, hurt>>
      BY <1>4, <2>2 DEF RemoveFiles, RemoveDir, Generate, Generating, Finish, Finished
    <3> QED BY <1>1, <3>1
  <2> QED BY <2>1, <2>2
<1> QED BY <1>2, <1>3, <1>4 DEF Job

LEMMA JobForm == ASSUME CInv, NEW w \in Workers, Job(w) PROVE Form'
<1> DEFINE i == job[w].dir
<1>1. /\ Turn(w) /\ JobUnchanged /\ i \in Ids /\ job[w].at \in Hands
      /\ job[Agent].at \in Starts => job[Agent].dir # i
      /\ current # i
      /\ w = Agent => job'[w].at \notin Starts
  BY JobNow
<1>2. /\ \/ job'[w].dir = i /\ job'[w].at \in Hands
         \/ job'[w].dir = Nowhere /\ job'[w].at \in {"idle", "visit", "died"}
      /\ job'[w].seen \subseteq Ids
  BY JobTurn
<1>3. JobData(i) BY JobChanges
<1>4. index' \subseteq Ids /\ {torn', hurt'} \subseteq BOOLEAN BY JobIndex
<1>5. w \in Ids => job'[w].dir \in {w, Nowhere} BY <1>1, <1>2, Numbers DEF CInv, Form, Own
<1> HIDE DEF i
<1>6. job'[w].dir \in Ids <=> job'[w].at \in Busy
  <2>1. Hands \subseteq Busy /\ {"idle", "visit", "died"} \cap Busy = {} BY DEF Busy, Hands, Starts, Photos
  <2> QED BY <1>1, <1>2, <2>1, Numbers
<1>7. job'[w].at # "over" BY <1>2 DEF Hands
<1>8. Held' /\ Own' /\ Over' /\ \A v \in Workers : job'[v].seen \subseteq Ids
  BY <1>1, <1>2, <1>5, <1>6, <1>7, FormKept DEF JobUnchanged
<1>9. Clean' BY <1>1, <1>3, <1>4, <1>8 DEF CInv, Form, Clean, JobUnchanged, JobData
<1>10. Born' BY <1>3 DEF CInv, Form, Born, JobData
<1>11. Made'
  <2>1. current # Nowhere => "config" \in files'[current]
    <3>1. current # Nowhere => current \in Ids \ {i} BY <1>1 DEF CInv, IInv, Types
    <3> QED BY <1>3, <3>1 DEF CInv, Form, Made, JobData
  <2>2. CASE w = Agent BY <1>1, <2>1, <2>2 DEF Made, JobUnchanged, Starts
  <2>3. CASE w # Agent
    <3>1. job'[Agent] = job[Agent] BY <1>1, <2>3, Threads DEF Turn
    <3>2. job[Agent].at \in Starts => job[Agent].dir \in Ids \ {i}
      <4>1. Starts \subseteq Busy BY DEF Busy
      <4> QED BY <1>1, <4>1, Threads DEF CInv, Form, Held
    <3>3. job[Agent].at = "mkdir" => state'[job[Agent].dir] = "none"
      BY <1>3, <3>2 DEF CInv, Form, Made, JobData, Starts
    <3>4. job[Agent].at \in Starts => "config" \in files'[job[Agent].dir]
      BY <1>3, <3>2 DEF CInv, Form, Made, JobData
    <3> QED BY <1>1, <2>1, <3>1, <3>3, <3>4 DEF Made, JobUnchanged
  <2> QED BY <2>2, <2>3
<1> QED BY <1>8, <1>9, <1>10, <1>11 DEF Form

\* Nobody loses an entry in an unhurt index: what is listed stays listed, but
\* for the entry that is written or deleted.
LEMMA JobLists ==
  ASSUME CInv, NEW w \in Workers, Job(w), ~hurt', NEW i \in Ids, i = job[w].dir
  PROVE  /\ Writes'
         /\ \A j \in Ids \ {i} : Lists(j)' <=> Lists(j)
         /\ ~Dump(w) => (Lists(i)' <=> Lists(i))
         /\ Dump(w) => (Lists(i)' <=> job[w].add)
<1>1. ~hurt /\ i \in Ids /\ Turn(w) /\ job[w].add \in BOOLEAN BY JobIndex, JobNow
<1>2. Writes BY <1>1 DEF CInv, Safe
<1>0. job \in [Workers -> Jobs] BY DEF CInv, IInv, Types
<1>3. CASE Dump(w)
  <2>1. /\ torn /\ job[w].at = "dump" /\ torn' = FALSE
        /\ index' = IF job[w].add THEN job[w].seen \cup {i} ELSE job[w].seen \ {i}
    BY <1>2, <1>3 DEF Dump, At, Writes
  <2>2. \A v \in Workers \ {w} : job[v].at # "dump" BY <1>2, <2>1 DEF Writes
  <2>3. job'[w].at # "dump"
    <3>1. job[w].add => job'[w].at = "finish"
      BY <1>0, <1>1, <1>3, HandleTurn DEF Dump, Places
    <3>2. ~job[w].add => job'[w].at # "dump" BY <1>0, <1>3, EndTurn DEF Dump
    <3> QED BY <3>1, <3>2
  <2>4. \A v \in Workers : job'[v].at # "dump" BY <1>1, <2>2, <2>3 DEF Turn
  <2>5. Writes' BY <2>1, <2>4 DEF Writes
  <2>6. index = {} BY <1>2, <2>1 DEF Writes
  <2>7. \A j : Lists(j) <=> j \in job[w].seen BY <2>1, <2>2, <2>6 DEF Lists
  <2>8. \A j : Lists(j)' <=> j \in index' BY <2>4 DEF Lists
  <2>9. \A j \in Ids \ {i} : Lists(j)' <=> Lists(j)
    <3>1. \A j \in Ids \ {i} : j \in index' <=> j \in job[w].seen BY <2>1
    <3> QED BY <2>7, <2>8, <3>1
  <2>10. Lists(i)' <=> job[w].add
    <3>1. i \in index' <=> job[w].add BY <1>1, <2>1
    <3> QED BY <2>8, <3>1
  <2> QED BY <1>3, <2>5, <2>9, <2>10
<1>4. CASE Truncate(w)
  <2>1. /\ job[w].at = "truncate" /\ Go(w, "dump") /\ index' = {} /\ torn' = TRUE
        /\ hurt' = (hurt \/ torn \/ job[w].seen # index)
    BY <1>4 DEF Truncate, At
  <2>2. ~torn /\ job[w].seen = index BY <2>1, Zenon
  <2>3. "dump" \in Places BY DEF Places
  <2>4. job'[w].at = "dump" /\ job'[w].seen = index BY <1>0, <2>1, <2>2, <2>3, GoTurn
  <2>5. \A v \in Workers : job[v].at # "dump" BY <1>2, <2>2 DEF Writes
  <2>6. \A v \in Workers \ {w} : job'[v].at # "dump" BY <1>1, <2>5 DEF Turn
  <2>7. Writes' BY <2>1, <2>6 DEF Writes
  <2>8. \A j : Lists(j) <=> j \in index BY <2>5 DEF Lists
  <2>9. \A j : Lists(j)' <=> j \in index BY <2>1, <2>4, <2>6 DEF Lists
  <2>10. ~Dump(w) BY <2>1 DEF Dump, At
  <2> QED BY <2>7, <2>8, <2>9, <2>10
<1>5. CASE RemoveFiles(w) \/ RemoveDir(w) \/ ReadIndex(w) \/ Generate(w) \/ Generating(w)
           \/ Finish(w) \/ Finished(w)
  <2>1. job[w].at # "dump" /\ UNCHANGED <<index, torn>>
    BY <1>5 DEF RemoveFiles, RemoveDir, ReadIndex, Generate, Generating, Finish, Finished, At, store
  <2>2. job'[w].at # "dump"
    <3> DEFINE places == {"rmdir", "read", "rm", "generating", "finished"}
    <3>1. places \subseteq Places /\ "dump" \notin places BY DEF Places
    <3>2. End(w) \/ Die(w) => job'[w].at # "dump" BY <1>0, EndTurn
    <3>3. \A place \in places : Go(w, place) => job'[w].at # "dump" BY <1>0, <3>1, GoTurn
    <3>4. ReadIndex(w) => job'[w].at # "dump" BY <1>0 DEF ReadIndex, Jobs
    <3> QED BY <1>5, <3>2, <3>3, <3>4
            DEF RemoveFiles, RemoveDir, Generate, Generating, Finish, Finished
  <2>3. /\ \A j \in Ids : Lists(j)' <=> Lists(j)
        /\ Writes => Writes'
    BY <1>1, <2>1, <2>2, ListsKept
  <2>4. ~Dump(w) BY <2>1 DEF Dump, At
  <2> QED BY <1>1, <1>2, <2>3, <2>4
<1> QED BY <1>3, <1>4, <1>5 DEF Job

\* The instance of the step: nobody else has it, and it is on its way.
OneHand(w, i) ==
  /\ Turn(w) /\ i \in Ids \ asked /\ i = job[w].dir /\ ~hurt /\ up /\ Listed /\ Listed'
  /\ UNCHANGED <<todo, asked, current, cut>> /\ i \notin todo
  /\ SafeOne(i) /\ Route(w, i)
  /\ \A v \in Workers \ {w} : job'[v].dir # i
  /\ job'[Sweep].at \notin {"unlink", "list"}
  /\ i \notin dirs => files[i] = {} /\ state[i] = "none"
  /\ job \in [Workers -> Jobs] /\ files \in [Ids -> SUBSET Files] /\ state \in [Ids -> States]

LEMMA JobOne ==
  ASSUME CInv, NEW w \in Workers, Job(w), ~hurt', job[w].dir \notin asked
  PROVE  OneHand(w, job[w].dir)
<1> DEFINE i == job[w].dir
<1>1. Turn(w) /\ i \in Ids /\ Listed /\ Listed' /\ JobUnchanged /\ up /\ Placed BY JobNow
<1>2. ~hurt BY JobIndex
<1>3. SafeOne(i) BY <1>1, <1>2 DEF CInv, Safe
<1>4. Route(w, i) /\ i \notin todo BY <1>3 DEF SafeOne, Alone
<1>5. \A v \in Workers \ {w} : job'[v].dir # i BY <1>1, <1>3 DEF SafeOne, Alone, Turn
<1>6. job'[Sweep].at \notin {"unlink", "list"} BY <1>1 DEF Listed
<1>7. i \notin dirs => files[i] = {} /\ state[i] = "none" BY <1>1 DEF CInv, Form, Born
<1>8. job \in [Workers -> Jobs] /\ files \in [Ids -> SUBSET Files] /\ state \in [Ids -> States]
  BY DEF CInv, IInv, Types, Form, Clean
<1> QED BY <1>1, <1>2, <1>3, <1>4, <1>5, <1>6, <1>7, <1>8 DEF OneHand, JobUnchanged

\* It is alone still, and found while its thread has it or it is done.
LEMMA HandSafe ==
  ASSUME NEW w \in Workers, NEW i, OneHand(w, i),
         \/ job'[w].dir = i /\ Route(w, i)'
         \/ job'[w].dir # i /\ (i \in dirs' => state'[i] = "FINISHED") /\ state'[i] # "empty",
         Lists(i)' => state'[i] \in {"GENERATING", "empty", "FINISHED"},
         state'[i] = "FINISHED" => Lists(i)',
         state'[i] \in {"GENERATING", "FINISHED"} => "frames" \in files'[i],
         state'[i] # "none" /\ "frames" \in files'[i] => "config" \in files'[i]
  PROVE  SafeOne(i)'
<1>1. Alone(i)' BY DEF OneHand, Alone
<1>2. Entered(i)' BY DEF OneHand, Entered
<1>3. Found(i)' BY DEF OneHand, Found
<1>4. Emptied(i)' BY DEF OneHand, Emptied
<1> QED BY <1>1, <1>2, <1>3, <1>4 DEF SafeOne

LEMMA GoHandle ==
  ASSUME NEW w \in Workers, NEW i, OneHand(w, i), NEW place \in Places, Go(w, place)
  PROVE  job'[w].dir = i /\ job'[w].at = place /\ job'[w].add = job[w].add
  BY GoTurn DEF OneHand

LEMMA EndHandle ==
  ASSUME NEW w \in Workers, NEW i, OneHand(w, i), End(w) \/ Die(w)
  PROVE  job'[w].dir # i
  BY EndTurn, Numbers DEF OneHand

\* An unfinished instance without frames, or one without a state, is removed.
LEMMA RemoveFilesSafe ==
  ASSUME CInv, NEW w \in Workers, RemoveFiles(w), ~hurt', NEW i \in Ids \ asked, i = job[w].dir
  PROVE  SafeOne(i)'
<1>1. Job(w) BY DEF Job
<1>2. OneHand(w, i) BY <1>1, JobOne
<1>3. ~Dump(w) BY DEF RemoveFiles, Dump, At
<1>4. Lists(i)' <=> Lists(i) BY <1>1, <1>3, JobLists
<1>5. /\ job[w].at = "rm" /\ state[i] \in {"none", "READY", "ACTIVATED"}
      /\ state[i] # "none" => "frames" \notin files[i]
  BY <1>2 DEF OneHand, Route, RemoveFiles, At
<1>6. ~Lists(i) BY <1>2, <1>5 DEF OneHand, SafeOne, Entered
<1>7. CASE i \in dirs
  <2>1. /\ Go(w, "rmdir")
        /\ \E left \in SUBSET files[i] : files' = [files EXCEPT ![i] = left]
        /\ \E s \in {"none", state[i]} : state' = [state EXCEPT ![i] = s]
    BY <1>7 DEF RemoveFiles
  <2>2. files'[i] \subseteq files[i] /\ state'[i] \in {"none", state[i]} BY <1>2, <2>1 DEF OneHand
  <2>3. "rmdir" \in Places BY DEF Places
  <2>4. job'[w].dir = i /\ job'[w].at = "rmdir" BY <1>2, <2>1, <2>3, GoHandle
  <2>5. state'[i] \in {"none", "READY", "ACTIVATED"} /\ (state'[i] # "none" => "frames" \notin files'[i])
    BY <1>5, <2>2
  <2>6. Route(w, i)' BY <2>4, <2>5 DEF Route
  <2> QED BY <1>2, <1>4, <1>6, <2>4, <2>5, <2>6, HandSafe
<1>8. CASE i \notin dirs
  <2>1. /\ UNCHANGED <<files, state, dirs>>
        /\ IF job[w].add THEN End(w) ELSE Go(w, "read")
    BY <1>8 DEF RemoveFiles
  <2>2. files'[i] = {} /\ state'[i] = "none" BY <1>2, <1>8, <2>1 DEF OneHand
  <2>3. CASE job[w].add
    <3>1. job'[w].dir # i BY <1>2, <2>1, <2>3, EndHandle
    <3> QED BY <1>2, <1>4, <1>6, <1>8, <2>1, <2>2, <3>1, HandSafe
  <2>4. CASE ~job[w].add
    <3>1. "read" \in Places BY DEF Places
    <3>2. job'[w].dir = i /\ job'[w].at = "read" /\ job'[w].add = job[w].add
      BY <1>2, <2>1, <2>4, <3>1, GoHandle
    <3>3. Route(w, i)' BY <1>8, <2>1, <2>4, <3>2 DEF Route
    <3> QED BY <1>2, <1>4, <1>6, <2>2, <3>2, <3>3, HandSafe
  <2> QED BY <2>3, <2>4
<1> QED BY <1>7, <1>8

LEMMA RemoveDirSafe ==
  ASSUME CInv, NEW w \in Workers, RemoveDir(w), ~hurt', NEW i \in Ids \ asked, i = job[w].dir
  PROVE  SafeOne(i)'
<1>1. Job(w) BY DEF Job
<1>2. OneHand(w, i) BY <1>1, JobOne
<1>3. ~Dump(w) BY DEF RemoveDir, Dump, At
<1>4. Lists(i)' <=> Lists(i) BY <1>1, <1>3, JobLists
<1>5. job[w].at = "rmdir" /\ state[i] \in {"none", "READY", "ACTIVATED"}
  BY <1>2 DEF OneHand, Route, RemoveDir, At
<1>6. ~Lists(i) BY <1>2, <1>5 DEF OneHand, SafeOne, Entered
<1>7. ~ \E v \in Workers \ {w} : job[v].dir = i BY <1>2 DEF OneHand, SafeOne, Alone
<1>8. /\ dirs' = dirs \ {i} /\ files' = [files EXCEPT ![i] = {}]
      /\ state' = [state EXCEPT ![i] = "none"]
      /\ IF job[w].add THEN End(w) ELSE Go(w, "read")
  BY <1>7 DEF RemoveDir
<1>9. i \notin dirs' /\ files'[i] = {} /\ state'[i] = "none" BY <1>2, <1>8 DEF OneHand
<1>10. CASE job[w].add
  <2>1. job'[w].dir # i BY <1>2, <1>8, <1>10, EndHandle
  <2> QED BY <1>2, <1>4, <1>6, <1>9, <2>1, HandSafe
<1>11. CASE ~job[w].add
  <2>1. "read" \in Places BY DEF Places
  <2>2. job'[w].dir = i /\ job'[w].at = "read" /\ job'[w].add = job[w].add
    BY <1>2, <1>8, <1>11, <2>1, GoHandle
  <2>3. Route(w, i)' BY <1>9, <1>11, <2>2 DEF Route
  <2> QED BY <1>2, <1>4, <1>6, <1>9, <2>2, <2>3, HandSafe
<1> QED BY <1>10, <1>11

\* Reading the index and emptying it.
LEMMA ReadSafe ==
  ASSUME CInv, NEW w \in Workers, ReadIndex(w) \/ Truncate(w), ~hurt',
         NEW i \in Ids \ asked, i = job[w].dir
  PROVE  SafeOne(i)'
<1>1. Job(w) BY DEF Job
<1>2. OneHand(w, i) BY <1>1, JobOne
<1>3. ~Dump(w) BY DEF ReadIndex, Truncate, Dump, At
<1>4. Lists(i)' <=> Lists(i) BY <1>1, <1>3, JobLists
<1>5. UNCHANGED <<dirs, files, state>> /\ job[w].at \in {"read", "truncate"}
  BY DEF ReadIndex, Truncate, At, store
<1>6. job'[w].dir = i /\ job'[w].at \in {"truncate", "dump"} /\ job'[w].add = job[w].add
  <2>1. CASE ReadIndex(w)
    <3>1. job' = [job EXCEPT ![w].seen = Contents, ![w].at = "truncate"] BY <2>1 DEF ReadIndex
    <3> QED BY <1>2, <3>1 DEF OneHand, Jobs
  <2>2. CASE Truncate(w)
    <3>1. "dump" \in Places /\ Go(w, "dump") BY <2>2 DEF Truncate, Places
    <3> QED BY <1>2, <3>1, GoHandle
  <2> QED BY <2>1, <2>2
<1>7. IF job[w].add THEN state[i] = "GENERATING" ELSE i \notin dirs
  BY <1>2, <1>5 DEF OneHand, Route
<1>8. Route(w, i)' BY <1>5, <1>6, <1>7 DEF Route
<1>9. Entered(i) BY <1>2 DEF OneHand, SafeOne
<1> QED BY <1>2, <1>4, <1>5, <1>6, <1>8, <1>9, HandSafe DEF Entered

LEMMA DumpSafe ==
  ASSUME CInv, NEW w \in Workers, Dump(w), ~hurt', NEW i \in Ids \ asked, i = job[w].dir
  PROVE  SafeOne(i)'
<1>1. Job(w) BY DEF Job
<1>2. OneHand(w, i) /\ job[w].add \in BOOLEAN BY <1>1, JobOne, JobNow
<1>3. Lists(i)' <=> job[w].add BY <1>1, JobLists
<1>4. UNCHANGED <<dirs, files, state>> /\ job[w].at = "dump" BY DEF Dump, At
<1>5. IF job[w].add THEN state[i] = "GENERATING" ELSE i \notin dirs
  BY <1>2, <1>4 DEF OneHand, Route
<1>6. Entered(i) BY <1>2 DEF OneHand, SafeOne
<1>7. CASE job[w].add
  <2>1. job' = [job EXCEPT ![w] = Handle(i, "finish", TRUE)] BY <1>7 DEF Dump
  <2>2. "finish" \in Places BY DEF Places
  <2>3. job'[w].dir = i /\ job'[w].at = "finish" BY <1>2, <2>1, <2>2, HandleTurn DEF OneHand
  <2>4. Route(w, i)' BY <1>3, <1>4, <1>5, <1>7, <2>3 DEF Route
  <2> QED BY <1>2, <1>3, <1>4, <1>5, <1>6, <1>7, <2>3, <2>4, HandSafe DEF Entered
<1>8. CASE ~job[w].add
  <2>1. End(w) BY <1>8 DEF Dump
  <2>2. job'[w].dir # i BY <1>2, <2>1, EndHandle
  <2>3. state'[i] = "none" /\ files'[i] = {} /\ i \notin dirs'
    BY <1>2, <1>4, <1>5, <1>8 DEF OneHand
  <2> QED BY <1>2, <1>3, <1>8, <2>2, <2>3, HandSafe
<1> QED BY <1>2, <1>7, <1>8

LEMMA GenerateSafe ==
  ASSUME CInv, NEW w \in Workers, Generate(w), ~hurt', NEW i \in Ids \ asked, i = job[w].dir
  PROVE  SafeOne(i)'
<1>1. Job(w) BY DEF Job
<1>2. OneHand(w, i) BY <1>1, JobOne
<1>3. ~Dump(w) BY DEF Generate, Dump, At
<1>4. Lists(i)' <=> Lists(i) BY <1>1, <1>3, JobLists
<1>5. job[w].add /\ state[i] \in Unfinished BY <1>2 DEF OneHand, Route, Generate, At
<1>6. Entered(i) BY <1>2 DEF OneHand, SafeOne
<1>7. UNCHANGED <<dirs, files>> BY DEF Generate
<1>8. "rm" \in Places /\ "generating" \in Places BY DEF Places
<1>9. CASE "frames" \notin files[i]
  <2>1. Go(w, "rm") /\ state' = state BY <1>9 DEF Generate
  <2>2. job'[w].dir = i /\ job'[w].at = "rm" BY <1>2, <1>8, <2>1, GoHandle
  <2>3. state[i] \in {"READY", "ACTIVATED"} BY <1>5, <1>6, <1>9 DEF Entered, Unfinished
  <2>4. Route(w, i)' BY <1>7, <1>9, <2>1, <2>2, <2>3 DEF Route
  <2> QED BY <1>2, <1>4, <1>6, <1>7, <2>1, <2>2, <2>4, HandSafe DEF Entered
<1>10. CASE "frames" \in files[i]
  <2>1. "config" \in files[i] BY <1>5, <1>6, <1>10 DEF Entered, Unfinished
  <2>2. Go(w, "generating") /\ state' = [state EXCEPT ![i] = "empty"]
    BY <1>10, <2>1 DEF Generate, EmptyState
  <2>3. job'[w].dir = i /\ job'[w].at = "generating" /\ job'[w].add = job[w].add
    BY <1>2, <1>8, <2>2, GoHandle
  <2>4. state'[i] = "empty" BY <1>2, <2>2 DEF OneHand
  <2>5. Route(w, i)' BY <1>5, <1>7, <1>10, <2>1, <2>3, <2>4 DEF Route, Files
  <2> QED BY <1>2, <1>4, <1>7, <1>10, <2>1, <2>3, <2>4, <2>5, HandSafe
<1> QED BY <1>9, <1>10

LEMMA GeneratingSafe ==
  ASSUME CInv, NEW w \in Workers, Generating(w), ~hurt', NEW i \in Ids \ asked, i = job[w].dir
  PROVE  SafeOne(i)'
<1>1. Job(w) BY DEF Job
<1>2. OneHand(w, i) BY <1>1, JobOne
<1>3. ~Dump(w) BY DEF Generating, Dump, At
<1>4. Lists(i)' <=> Lists(i) BY <1>1, <1>3, JobLists
<1>5. job[w].add /\ state[i] = "empty" /\ Files \subseteq files[i]
  BY <1>2 DEF OneHand, Route, Generating, At
<1>6. UNCHANGED <<dirs, files>> /\ Go(w, "read") BY DEF Generating
<1>7. state'[i] = "GENERATING" BY <1>2, <1>5 DEF Generating, WriteState, OneHand
<1>8. "read" \in Places BY DEF Places
<1>9. job'[w].dir = i /\ job'[w].at = "read" /\ job'[w].add = job[w].add
  BY <1>2, <1>6, <1>8, GoHandle
<1>10. Route(w, i)' BY <1>5, <1>7, <1>9 DEF Route
<1>11. "frames" \in files'[i] /\ "config" \in files'[i] BY <1>5, <1>6 DEF Files
<1> QED BY <1>2, <1>7, <1>9, <1>10, <1>11, HandSafe

LEMMA FinishSafe ==
  ASSUME CInv, NEW w \in Workers, Finish(w), ~hurt', NEW i \in Ids \ asked, i = job[w].dir
  PROVE  SafeOne(i)'
<1>1. Job(w) BY DEF Job
<1>2. OneHand(w, i) BY <1>1, JobOne
<1>3. ~Dump(w) BY DEF Finish, Dump, At
<1>4. Lists(i)' <=> Lists(i) BY <1>1, <1>3, JobLists
<1>5. state[i] = "GENERATING" /\ Lists(i) BY <1>2 DEF OneHand, Route, Finish, At
<1>6. i \in dirs BY <1>2, <1>5 DEF OneHand
<1>7. state' = [state EXCEPT ![i] = "empty"] /\ Go(w, "finished") /\ UNCHANGED <<dirs, files>>
  BY <1>6 DEF Finish, EmptyState
<1>8. state'[i] = "empty" BY <1>2, <1>7 DEF OneHand
<1>9. "finished" \in Places BY DEF Places
<1>10. job'[w].dir = i /\ job'[w].at = "finished" BY <1>2, <1>7, <1>9, GoHandle
<1>11. "frames" \in files[i] /\ "config" \in files[i] BY <1>2, <1>5 DEF OneHand, SafeOne, Entered
<1>12. Files \subseteq files'[i] BY <1>7, <1>11 DEF Files
<1>13. Route(w, i)' BY <1>4, <1>5, <1>8, <1>10, <1>12 DEF Route
<1> QED BY <1>2, <1>7, <1>8, <1>10, <1>11, <1>13, HandSafe

LEMMA FinishedSafe ==
  ASSUME CInv, NEW w \in Workers, Finished(w), ~hurt', NEW i \in Ids \ asked, i = job[w].dir
  PROVE  SafeOne(i)'
<1>1. Job(w) BY DEF Job
<1>2. OneHand(w, i) BY <1>1, JobOne
<1>3. ~Dump(w) BY DEF Finished, Dump, At
<1>4. Lists(i)' <=> Lists(i) BY <1>1, <1>3, JobLists
<1>5. state[i] = "empty" /\ Files \subseteq files[i] /\ Lists(i)
  BY <1>2 DEF OneHand, Route, Finished, At
<1>6. UNCHANGED <<dirs, files>> /\ End(w) BY DEF Finished
<1>7. state'[i] = "FINISHED" BY <1>2, <1>5 DEF Finished, WriteState, OneHand
<1>8. job'[w].dir # i BY <1>2, <1>6, EndHandle
<1>9. "frames" \in files'[i] /\ "config" \in files'[i] BY <1>5, <1>6 DEF Files
<1> QED BY <1>2, <1>4, <1>5, <1>7, <1>8, <1>9, HandSafe

\* Another instance is none of the thread's business.
LEMMA JobAside ==
  ASSUME CInv, NEW w \in Workers, Job(w), ~hurt', NEW j \in Ids \ asked, j # job[w].dir
  PROVE  SafeOne(j)'
<1>1. /\ Turn(w) /\ JobUnchanged /\ Placed /\ Listed /\ Listed' /\ job[w].dir \in Ids
  BY JobNow
<1>2. ~hurt BY JobIndex
<1>3. PICK i \in Ids : i = job[w].dir BY <1>1
<1>4. Lists(j)' <=> Lists(j) BY <1>3, JobLists
<1>5. JobData(i) BY <1>3, JobChanges
<1>6. Aside(j) BY <1>1, <1>3, <1>4, <1>5 DEF Aside, JobData, JobUnchanged
<1>7. job'[w].dir # j BY <1>3, JobTurn, Numbers
<1> QED BY <1>1, <1>2, <1>6, <1>7, Apart

LEMMA JobSafe == ASSUME CInv, NEW w \in Workers, Job(w) PROVE CInv'
<1>1. IInv' /\ JobUnchanged /\ job[w].dir \in Ids BY JobNow
<1>2. Form' BY JobForm
<1>3. PICK i \in Ids : i = job[w].dir BY <1>1
<1>4. Safe'
  <2> SUFFICES ASSUME ~hurt' PROVE Writes' /\ \A j \in Ids \ asked' : SafeOne(j)'
    BY SafeKept
  <2>1. Writes' BY <1>3, JobLists
  <2>2. ASSUME NEW j \in Ids \ asked PROVE SafeOne(j)'
    <3>1. CASE j # i BY <1>3, <3>1, JobAside
    <3>2. CASE j = i
      BY <1>3, <3>2, RemoveFilesSafe, RemoveDirSafe, ReadSafe, DumpSafe, GenerateSafe,
         GeneratingSafe, FinishSafe, FinishedSafe DEF Job
    <3> QED BY <3>1, <3>2
  <2> QED BY <1>1, <2>1, <2>2 DEF JobUnchanged
<1> QED BY <1>1, <1>2, <1>4 DEF CInv

--------------------------------------------------------------------------------
(* Requests, and the steps of the agent                                      *)

\* What a request finds: nobody else has the active timelapse, its own thread
\* included.
LEMMA Free ==
  ASSUME CInv, current # Nowhere
  PROVE  /\ current \in Ids \cap dirs /\ current \in Workers \ {Agent, Sweep} /\ current \notin todo
         /\ \A w \in Workers \ {Agent} : job[w].dir # current
         /\ job[current].dir = Nowhere /\ job[current].at # "dump"
         /\ state[current] \in {"READY", "ACTIVATED", "empty"}
         /\ up /\ Listed /\ job[Agent].at # "activate" => state[current] # "empty"
<1>1. current \in Ids BY DEF CInv, IInv, Types
<1>2. /\ OnlyAgent(current) /\ state[current] \in {"READY", "ACTIVATED", "empty"}
      /\ up /\ Listed /\ job[Agent].at # "activate" => state[current] # "empty"
  BY DEF CInv, IInv, Active, Stale
<1>3. current \in Workers \ {Agent, Sweep} BY <1>1, Threads
<1>4. job[current].dir = Nowhere BY <1>1, <1>2, <1>3 DEF CInv, Form, Own, OnlyAgent
<1>5. job[current].at # "dump"
  <2>1. job[current].at \notin Busy BY <1>3, <1>4, Numbers DEF CInv, Form, Held
  <2> QED BY <2>1 DEF Busy, Hands, Starts, Photos
<1> QED BY <1>1, <1>2, <1>3, <1>4, <1>5 DEF OnlyAgent

\* An active timelapse handed to its thread, all else about it unchanged.
LEMMA HandedOver ==
  ASSUME CInv, NEW k \in Ids \ asked, current = k, k \in dirs', todo' = todo,
         NEW w \in Workers, job'[w].dir = k, \A v \in Workers \ {w} : job'[v].dir # k,
         \/ job'[w].at = "gen" /\ job'[w].add /\ state'[k] \in {"READY", "ACTIVATED"}
         \/ job'[w].at \in Photos,
         state'[k] \in {"READY", "ACTIVATED", "empty"}, ~Lists(k)', "config" \in files'[k]
  PROVE  SafeOne(k)'
<1>1. k \notin todo BY Free, Numbers
<1>2. Route(w, k)' BY DEF Route, Unfinished, Photos
<1>3. Alone(k)' BY <1>1, <1>2 DEF Alone
<1>4. Entered(k)' BY DEF Entered
<1>5. Found(k)' BY DEF Found
<1>6. Emptied(k)' BY DEF Emptied
<1> QED BY <1>3, <1>4, <1>5, <1>6 DEF SafeOne

\* A timelapse that was never generated is not in the index.
LEMMA Unlisted ==
  ASSUME CInv, ~hurt, NEW k \in Ids \ asked, state[k] \in {"none", "READY", "ACTIVATED"}
  PROVE  ~Lists(k)
  BY DEF CInv, Safe, SafeOne, Entered

LEMMA StartDirNow ==
  ASSUME CInv, ~Early, StartDir, NEW i \in Ids, i = started + 1
  PROVE  /\ job' \in [Workers -> Jobs] /\ current' = Nowhere
         /\ job'[Agent].dir = i /\ job'[Agent].at = "mkdir" /\ job'[Agent].seen = {}
         /\ job[Agent].at = "idle" /\ job[Agent].dir = Nowhere
         /\ i \notin dirs \cup todo /\ \A w \in Workers : job[w].dir # i
         /\ current # Nowhere =>
              job'[current].dir = current /\ job'[current].at = "gen" /\ job'[current].add
              /\ job'[current].seen = {} /\ current # i
         /\ \A w \in Workers \ {Agent} : (current # Nowhere /\ w = current) \/ job'[w] = job[w]
<1>0. job \in [Workers -> Jobs] /\ job[Agent].at = "idle" BY DEF CInv, IInv, Types, StartDir, Serves, At
<1>1. job[Agent].dir = Nowhere
  <2>1. "idle" \notin Busy BY DEF Busy, Hands, Starts, Photos
  <2>2. job[Agent].dir \in Ids \cup {Nowhere} BY <1>0, Threads DEF Jobs
  <2> QED BY <1>0, <2>1, <2>2, Threads DEF CInv, Form, Held
<1>2. i \notin dirs \cup todo /\ \A w \in Workers : job[w].dir # i
  <2>1. started \in Nat /\ dirs \cup todo \subseteq Nat BY Numbers DEF CInv, IInv, Types
  <2>2. \A k \in dirs \cup todo : k <= started BY DEF CInv, IInv, Begun
  <2>3. \A w \in Workers : job[w].dir <= started BY DEF CInv, IInv, Begun
  <2>4. ~(started + 1 <= started) BY <2>1
  <2> QED BY <2>1, <2>2, <2>3, <2>4
<1> DEFINE h == Handle(i, "mkdir", FALSE)
           g == Handle(current, "gen", TRUE)
<1>3. h \in Jobs /\ h.dir = i /\ h.at = "mkdir" /\ h.seen = {}
  BY DEF Handle, Jobs, Places
<1>4. ASSUME current # Nowhere
      PROVE  g \in Jobs /\ g.dir = current /\ g.at = "gen" /\ g.add /\ g.seen = {}
  <2>1. current \in Ids BY <1>4, Free
  <2> QED BY <2>1 DEF Handle, Jobs, Places
<1>5. CASE current # Nowhere
  <2>1. current \in dirs /\ current \in Workers \ {Agent} BY <1>5, Free
  <2>2. job' = [job EXCEPT ![Agent] = h, ![current] = g] /\ current' = Nowhere
    BY <2>1 DEF StartDir
  <2> HIDE DEF h, g
  <2>3. /\ job' \in [Workers -> Jobs] /\ job'[Agent] = h /\ job'[current] = g
        /\ \A w \in Workers \ {Agent, current} : job'[w] = job[w]
    BY <1>0, <1>3, <1>4, <1>5, <2>1, <2>2, Threads
  <2>4. current # i BY <1>2, <2>1
  <2> QED BY <1>0, <1>1, <1>2, <1>3, <1>4, <1>5, <2>2, <2>3, <2>4
<1>6. CASE current = Nowhere
  <2>1. current \notin dirs BY <1>6, Numbers DEF CInv, IInv, Types
  <2>2. job' = [job EXCEPT ![Agent] = h] /\ current' = Nowhere BY <1>6, <2>1 DEF StartDir
  <2> HIDE DEF h, g
  <2>3. /\ job' \in [Workers -> Jobs] /\ job'[Agent] = h
        /\ \A w \in Workers \ {Agent} : job'[w] = job[w]
    BY <1>0, <1>3, <2>2, Threads
  <2> QED BY <1>0, <1>1, <1>2, <1>3, <1>6, <2>2, <2>3
<1> QED BY <1>5, <1>6

LEMMA StartDirSafe == ASSUME CInv, ~Early, StartDir PROVE CInv'
<1>1. PICK i \in Ids : i = started + 1
  <2>1. started + 1 \in Ids BY Numbers DEF StartDir, CInv, IInv, Types, Ids
  <2> QED BY <2>1
<1>2. /\ started' = i /\ dirs' = dirs \cup {i} /\ files' = [files EXCEPT ![i] = {"config"}]
      /\ UNCHANGED <<state, index, torn, up, valid, todo, kills, asked, hurt, shot, cut>>
      /\ ~hurt /\ up /\ Listed
  BY <1>1 DEF StartDir, Serves, At
<1>3. /\ job' \in [Workers -> Jobs] /\ current' = Nowhere
      /\ job'[Agent].dir = i /\ job'[Agent].at = "mkdir" /\ job'[Agent].seen = {}
      /\ job[Agent].at = "idle" /\ job[Agent].dir = Nowhere
      /\ i \notin dirs \cup todo /\ \A w \in Workers : job[w].dir # i
      /\ current # Nowhere =>
           job'[current].dir = current /\ job'[current].at = "gen" /\ job'[current].add
           /\ job'[current].seen = {} /\ current # i
      /\ \A w \in Workers \ {Agent} : (current # Nowhere /\ w = current) \/ job'[w] = job[w]
  BY <1>1, StartDirNow
<1>4. IInv' BY StartDirOK DEF CInv
<1>5. current # Nowhere =>
        /\ current \in Ids \cap dirs /\ current \in Workers \ {Agent, Sweep} /\ current \notin todo
        /\ \A w \in Workers \ {Agent} : job[w].dir # current
        /\ job[current].dir = Nowhere /\ job[current].at # "dump"
        /\ state[current] \in {"READY", "ACTIVATED"} /\ "config" \in files[current]
  <2>1. job[Agent].at # "activate" BY <1>3
  <2>2. current # Nowhere => "config" \in files[current] BY DEF CInv, Form, Made
  <2> QED BY <1>2, <2>1, <2>2, Free
<1>6. current = Nowhere \/ current \in Workers \ {Agent, Sweep} BY <1>5
<1>7. job'[Sweep] = job[Sweep] BY <1>3, <1>5, Threads, Numbers
<1>8. files \in [Ids -> SUBSET Files] BY DEF CInv, Form, Clean
<1>9. files' \in [Ids -> SUBSET Files] /\ files'[i] = {"config"}
      /\ \A j \in Ids \ {i} : files'[j] = files[j]
  BY <1>2, <1>8 DEF Files
<1>10. state[i] = "none" BY <1>3 DEF CInv, Form, Born
<1>11. Form'
  <2>1. \A w \in Workers : w = Agent \/ (current # Nowhere /\ w = current) \/ job'[w] = job[w] BY <1>3
  <2>2. Clean'
    <3>1. started' <= MaxStarts BY <1>1, <1>2, Numbers DEF Ids
    <3>2. \A w \in Workers : job'[w].seen \subseteq Ids BY <1>3, <2>1 DEF CInv, Form, Clean
    <3> QED BY <1>2, <1>9, <3>1, <3>2 DEF CInv, Form, Clean
  <2>3. Held'
    <3>1. {"mkdir", "gen"} \subseteq Busy BY DEF Busy, Hands, Starts, Photos
    <3> QED BY <1>3, <1>5, <2>1, <3>1 DEF CInv, Form, Held
  <2>4. Own' BY <1>3, <1>5, <2>1, Threads DEF CInv, Form, Own
  <2>5. Born' BY <1>2, <1>9 DEF CInv, Form, Born
  <2>6. Made' BY <1>2, <1>3, <1>9, <1>10 DEF Made, Starts
  <2>7. Over' BY <1>2, <1>7 DEF CInv, Form, Over
  <2> QED BY <2>2, <2>3, <2>4, <2>5, <2>6, <2>7 DEF Form
<1>12. NoWriter BY <1>3, <1>5, <1>6 DEF NoWriter
<1>13. (\A j \in Ids : Lists(j)' <=> Lists(j)) /\ (Writes => Writes') BY <1>2, <1>12, ListsStay
<1>14. Placed BY <1>7 DEF Placed, Listed
<1>15. ASSUME NEW j \in Ids \ asked PROVE SafeOne(j)'
  <2>1. SafeOne(j) BY <1>2 DEF CInv, Safe
  <2>2. CASE j = i
    <3>1. \A w \in Workers \ {Agent} : job'[w].dir # i BY <1>3
    <3>2. Route(Agent, i)' BY <1>3 DEF Route
    <3>3. ~Lists(i) BY <1>10, <2>1, <2>2 DEF SafeOne, Entered
    <3>4. ~Lists(i)' BY <1>13, <3>3
    <3>5. Alone(i)' BY <1>2, <1>3, <3>1, <3>2 DEF Alone
    <3>6. Entered(i)' BY <1>2, <1>9, <1>10, <3>4 DEF Entered
    <3>7. Found(i)' BY <1>3, Threads DEF Found
    <3>8. Emptied(i)' BY <1>2, <1>10 DEF Emptied
    <3> QED BY <2>2, <3>5, <3>6, <3>7, <3>8 DEF SafeOne
  <2>3. CASE current # Nowhere /\ j = current
    <3>1. PICK w \in Workers : w = current BY <1>5, <2>3
    <3>2. \A v \in Workers \ {w} : job'[v].dir # j BY <1>3, <1>5, <2>3, <3>1
    <3>3. j # i BY <1>3, <2>3
    <3>4. ~Lists(j)' BY <1>2, <1>5, <1>13, <2>3, Unlisted
    <3> QED BY <1>2, <1>3, <1>5, <1>9, <2>3, <3>1, <3>2, <3>3, <3>4, HandedOver
  <2>4. CASE j # i /\ j # current
    <3>1. Elsewhere(j) BY <1>3, <1>5, <1>6, <2>4, Numbers DEF Elsewhere
    <3>2. j # Nowhere BY Numbers
    <3>3. Aside(j) BY <1>2, <1>3, <1>9, <1>13, <2>4, <3>2 DEF Aside
    <3> QED BY <1>2, <1>14, <3>1, <3>3, ApartFromAll
  <2> QED BY <2>2, <2>3, <2>4, Numbers
<1>16. Writes BY <1>2 DEF CInv, Safe
<1>17. Safe' BY <1>2, <1>13, <1>15, <1>16, SafeKept
<1> QED BY <1>4, <1>11, <1>17 DEF CInv

\* One thread's step about one instance i, or about none, outside the writing of
\* the index: what is left to show is what becomes of i.
Around(i) ==
  /\ \A j \in Ids \ {i} :
       /\ state'[j] = state[j] /\ files'[j] = files[j] /\ (j \in dirs' <=> j \in dirs)
       /\ (current' = j <=> current = j) /\ (j \in todo' <=> j \in todo)
       /\ j \in todo' \/ job'[Sweep].at \in {"unlink", "list"} => (j \in valid => j \in valid')
  /\ UNCHANGED <<index, torn, up, hurt, cut>> /\ asked \subseteq asked' /\ asked' \subseteq asked \cup {i}

LEMMA OneStep ==
  ASSUME CInv, NEW w \in Workers, Turn(w), Placed, IInv', Form',
         NEW i \in Ids \cup {Nowhere}, Around(i), {job[w].dir, job'[w].dir} \subseteq {i, Nowhere},
         job[w].at # "dump", job'[w].at # "dump",
         ~hurt /\ i \in Ids \ asked' => SafeOne(i)'
  PROVE  CInv'
<1>1. (\A j \in Ids : Lists(j)' <=> Lists(j)) /\ (Writes => Writes') BY ListsKept DEF Around
<1>2. ASSUME ~hurt, NEW j \in Ids \ asked', j # i PROVE SafeOne(j)'
  <2>1. j \in Ids \ asked /\ j # Nowhere BY <1>2, Numbers DEF Around
  <2>2. Aside(j) BY <1>1, <1>2 DEF Around, Aside
  <2> QED BY <1>2, <2>1, <2>2, Apart
<1>3. Safe'
  <2> SUFFICES ASSUME ~hurt' PROVE Writes' /\ \A j \in Ids \ asked' : SafeOne(j)'
    BY SafeKept
  <2>1. ~hurt BY DEF Around
  <2>2. Writes' BY <1>1, <2>1 DEF CInv, Safe
  <2> QED BY <1>2, <2>1, <2>2
<1> QED BY <1>3 DEF CInv

\* The agent's own steps.
LEMMA AgentKeeps ==
  ASSUME CInv, Turn(Agent)
  PROVE  Placed /\ job'[Sweep] = job[Sweep]
  BY Threads DEF Turn, Placed, Listed

LEMMA StopTimelapseSafe == ASSUME CInv, ~Early, StopTimelapse PROVE CInv'
<1>1. /\ current \in dirs /\ current' = Nowhere /\ job[Agent].at = "idle" /\ ~hurt /\ up /\ Listed
      /\ job' = [job EXCEPT ![current] = Handle(current, "gen", TRUE)]
      /\ UNCHANGED <<dirs, files, state, index, torn, up, valid, todo, started, kills, asked, hurt, shot, cut>>
  BY DEF StopTimelapse, Serves, At
<1>2. IInv' BY StopTimelapseOK DEF CInv
<1>3. current # Nowhere BY <1>1, Numbers DEF CInv, IInv, Types
<1>4. PICK k \in Ids : k = current BY <1>3, Free
<1>5. /\ k \in dirs /\ k \in Workers \ {Agent, Sweep} /\ k \notin todo
      /\ \A w \in Workers \ {Agent} : job[w].dir # k
      /\ job[k].dir = Nowhere /\ job[k].at # "dump"
      /\ state[k] \in {"READY", "ACTIVATED"}
  <2>1. job[Agent].at # "activate" BY <1>1
  <2> QED BY <1>1, <1>3, <1>4, <2>1, Free
<1>6. /\ Turn(k) /\ job'[k].dir = k /\ job'[k].at = "gen" /\ job'[k].add /\ job'[k].seen = {}
  <2>1. "gen" \in Places /\ job \in [Workers -> Jobs] BY DEF Places, CInv, IInv, Types
  <2>2. job' = [job EXCEPT ![k] = Handle(k, "gen", TRUE)] BY <1>1, <1>4
  <2>3. k \in Workers BY <1>5
  <2> QED BY <2>1, <2>2, <2>3, HandleTurn
<1>7. job'[Sweep] = job[Sweep] /\ job'[Agent] = job[Agent] BY <1>5, <1>6, Threads DEF Turn
<1>8. Placed BY <1>7 DEF Placed, Listed
<1>9. Form'
  <2>1. "gen" \in Busy BY DEF Busy, Hands, Starts, Photos
  <2>2. Held' /\ Own' /\ Over' /\ \A v \in Workers : job'[v].seen \subseteq Ids
    BY <1>1, <1>4, <1>5, <1>6, <2>1, FormKept
  <2> QED BY <1>1, <1>7, <2>2 DEF CInv, Form, Clean, Born, Made
<1>10. Around(k) BY <1>1, <1>4, Numbers DEF Around
<1>11. job[Agent].dir # k
  <2>1. "idle" \notin Busy BY DEF Busy, Hands, Starts, Photos
  <2> QED BY <1>1, <2>1, Threads DEF CInv, Form, Held
<1>12. ASSUME k \notin asked PROVE SafeOne(k)'
  <2>1. Lists(k)' <=> Lists(k) BY <1>1, <1>5, <1>6, ListsKept
  <2>2. \A v \in Workers \ {k} : job'[v].dir # k BY <1>5, <1>6, <1>11 DEF Turn
  <2>3. ~Lists(k)' BY <1>1, <1>5, <1>12, <2>1, Unlisted
  <2>4. "config" \in files'[k] BY <1>1, <1>3, <1>4 DEF CInv, Form, Made
  <2> QED BY <1>1, <1>4, <1>5, <1>6, <1>12, <2>2, <2>3, <2>4, HandedOver
<1> QED BY <1>1, <1>2, <1>5, <1>6, <1>8, <1>9, <1>10, <1>12, OneStep

LEMMA PhotoStateSafe == ASSUME CInv, ~Early, PhotoState PROVE CInv'
<1> DEFINE place == IF state[current] = "READY" THEN "activate" ELSE "photo"
<1>1. /\ current \in dirs /\ job[Agent].at = "idle" /\ ~hurt /\ up /\ Listed
      /\ state' = state \/ state' = [state EXCEPT ![current] = "empty"]
      /\ job' = [job EXCEPT ![Agent] = Handle(current, place, FALSE)]
      /\ UNCHANGED <<dirs, files, current, index, torn, up, valid, todo, started, kills, asked, hurt, shot, cut>>
  BY DEF PhotoState, Serves, At, EmptyState
<1>2. IInv' BY PhotoStateOK DEF CInv
<1>3. current # Nowhere BY <1>1, Numbers DEF CInv, IInv, Types
<1>4. PICK k \in Ids : k = current BY <1>3, Free
<1>5. /\ k \in dirs /\ k \notin todo
      /\ \A w \in Workers \ {Agent} : job[w].dir # k
      /\ state[k] \in {"READY", "ACTIVATED"}
  <2>1. job[Agent].at # "activate" BY <1>1
  <2> QED BY <1>1, <1>3, <1>4, <2>1, Free
<1>6. /\ Turn(Agent) /\ job'[Agent].dir = k /\ job'[Agent].at \in {"activate", "photo"}
      /\ job'[Agent].seen = {}
  <2>1. place \in Places \cap {"activate", "photo"} /\ job \in [Workers -> Jobs] BY DEF Places, CInv, IInv, Types
  <2> QED BY <1>1, <1>4, <2>1, HandleTurn, Threads
<1>7. state \in [Ids -> States] BY DEF CInv, IInv, Types
<1>8. state'[k] \in {"READY", "ACTIVATED", "empty"} /\ \A j \in Ids \ {k} : state'[j] = state[j]
  BY <1>1, <1>4, <1>5, <1>7
<1>9. Placed BY <1>6, AgentKeeps
<1>10. Form'
  <2>1. {"activate", "photo"} \subseteq Busy BY DEF Busy, Hands, Starts, Photos
  <2>2. Held' /\ Own' /\ Over' /\ \A v \in Workers : job'[v].seen \subseteq Ids
    BY <1>1, <1>6, <2>1, Threads, FormKept
  <2>3. Born' BY <1>1, <1>5, <1>8 DEF CInv, Form, Born
  <2>4. Made' BY <1>1, <1>6 DEF CInv, Form, Made, Starts
  <2> QED BY <1>1, <2>2, <2>3, <2>4 DEF CInv, Form, Clean
<1>11. Around(k) BY <1>1, <1>4, <1>8, Numbers DEF Around
<1>12. job[Agent].dir = Nowhere
  <2>1. "idle" \notin Busy BY DEF Busy, Hands, Starts, Photos
  <2>2. job[Agent].dir \in Ids \cup {Nowhere} BY Threads DEF CInv, IInv, Types, Jobs
  <2> QED BY <1>1, <2>1, <2>2, Threads DEF CInv, Form, Held
<1>13. ASSUME k \notin asked PROVE SafeOne(k)'
  <2>1. Lists(k)' <=> Lists(k) BY <1>1, <1>6, Threads, ListsKept
  <2>2. \A v \in Workers \ {Agent} : job'[v].dir # k BY <1>5, <1>6 DEF Turn
  <2>3. ~Lists(k)' BY <1>1, <1>5, <1>13, <2>1, Unlisted
  <2>4. "config" \in files'[k] BY <1>1, <1>3, <1>4 DEF CInv, Form, Made
  <2>5. job'[Agent].at \in Photos BY <1>6 DEF Photos
  <2> QED BY <1>1, <1>4, <1>5, <1>6, <1>8, <1>13, <2>2, <2>3, <2>4, <2>5, Threads, HandedOver
<1> QED BY <1>1, <1>2, <1>6, <1>9, <1>10, <1>11, <1>12, <1>13, Threads, OneStep

LEMMA AskDeleteSafe == ASSUME CInv, ~Early, NEW i \in Ids, AskDelete(i) PROVE CInv'
<1>1. /\ job[Agent].at = "idle" /\ asked' = asked \cup {i}
      /\ job' = [job EXCEPT ![Agent] = Handle(i, "rm", FALSE)]
      /\ UNCHANGED <<dirs, files, state, current, index, torn, up, valid, todo, started, kills, hurt, shot, cut>>
  BY DEF AskDelete, Serves, At, store
<1>2. IInv' BY AskDeleteOK DEF CInv
<1>3. /\ Turn(Agent) /\ job'[Agent].dir = i /\ job'[Agent].at = "rm" /\ job'[Agent].seen = {}
  <2>1. "rm" \in Places /\ job \in [Workers -> Jobs] BY DEF Places, CInv, IInv, Types
  <2> QED BY <1>1, <2>1, HandleTurn, Threads
<1>4. Placed BY <1>3, AgentKeeps
<1>5. Form'
  <2>1. "rm" \in Busy BY DEF Busy, Hands, Starts, Photos
  <2>2. Held' /\ Own' /\ Over' /\ \A v \in Workers : job'[v].seen \subseteq Ids
    BY <1>1, <1>3, <2>1, Threads, FormKept
  <2>3. Made' BY <1>1, <1>3 DEF CInv, Form, Made, Starts
  <2> QED BY <1>1, <2>2, <2>3 DEF CInv, Form, Clean, Born
<1>6. Around(i) BY <1>1 DEF Around
<1>7. job[Agent].dir = Nowhere
  <2>1. "idle" \notin Busy BY DEF Busy, Hands, Starts, Photos
  <2>2. job[Agent].dir \in Ids \cup {Nowhere} BY Threads DEF CInv, IInv, Types, Jobs
  <2> QED BY <1>1, <2>1, <2>2, Threads DEF CInv, Form, Held
<1> QED BY <1>1, <1>2, <1>3, <1>4, <1>5, <1>6, <1>7, Threads, OneStep

LEMMA StartStateSafe == ASSUME CInv, ~Early, StartState PROVE CInv'
<1>1. /\ job[Agent].at = "mkdir" /\ Go(Agent, "ready")
      /\ state' = [state EXCEPT ![job[Agent].dir] = "empty"]
      /\ UNCHANGED <<dirs, files, current, index, torn, up, valid, todo, started, kills, asked, hurt, shot, cut>>
  BY DEF StartState, At, EmptyState
<1>2. IInv' BY StartStateOK DEF CInv
<1>3. /\ OnlyAgent(job[Agent].dir) /\ state[job[Agent].dir] = "none"
      /\ "config" \in files[job[Agent].dir]
  BY <1>1 DEF CInv, IInv, Starting, Form, Made, Starts
<1>4. PICK i \in Ids : i = job[Agent].dir BY <1>3 DEF OnlyAgent, CInv, IInv, Types
<1>5. /\ i \in dirs /\ i \notin todo /\ state[i] = "none" /\ "config" \in files[i]
      /\ \A w \in Workers \ {Agent} : job[w].dir # i
  BY <1>3, <1>4 DEF OnlyAgent
<1>6. job \in [Workers -> Jobs] /\ state \in [Ids -> States] BY DEF CInv, IInv, Types
<1>7. /\ Turn(Agent) /\ job'[Agent].dir = i /\ job'[Agent].at = "ready"
      /\ job'[Agent].seen = job[Agent].seen
  <2>1. "ready" \in Places BY DEF Places
  <2> QED BY <1>1, <1>4, <1>6, <2>1, GoTurn, Threads
<1>8. state'[i] = "empty" /\ \A j \in Ids \ {i} : state'[j] = state[j] BY <1>1, <1>4, <1>6
<1>9. Placed BY <1>7, AgentKeeps
<1>10. Form'
  <2>1. "ready" \in Busy BY DEF Busy, Hands, Starts, Photos
  <2>2. job[Agent].seen \subseteq Ids BY Threads DEF CInv, Form, Clean
  <2>3. Held' /\ Own' /\ Over' /\ \A v \in Workers : job'[v].seen \subseteq Ids
    BY <1>1, <1>7, <2>1, <2>2, Threads, FormKept
  <2>4. Born' BY <1>1, <1>5, <1>8 DEF CInv, Form, Born
  <2>5. Made' BY <1>1, <1>5, <1>7 DEF CInv, Form, Made, Starts
  <2> QED BY <1>1, <2>3, <2>4, <2>5 DEF CInv, Form, Clean
<1>11. Around(i) BY <1>1, <1>8 DEF Around
<1>12. ASSUME ~hurt, i \notin asked PROVE SafeOne(i)'
  <2>1. SafeOne(i) BY <1>12 DEF CInv, Safe
  <2>2. ~Lists(i) BY <1>5, <2>1 DEF SafeOne, Entered
  <2>3. ~Lists(i)' BY <1>1, <1>7, <2>2, Threads, ListsKept
  <2>4. Route(Agent, i)' BY <1>7, <2>3 DEF Route
  <2>5. \A w \in Workers \ {Agent} : job'[w].dir # i BY <1>5, <1>7 DEF Turn
  <2>6. Alone(i)' BY <1>1, <1>5, <2>4, <2>5 DEF Alone
  <2>7. Entered(i)' BY <1>1, <1>5, <1>8, <2>3 DEF Entered
  <2>8. Found(i)' BY <1>7, Threads DEF Found
  <2>9. Emptied(i)' BY <1>7, Threads DEF Emptied
  <2> QED BY <2>6, <2>7, <2>8, <2>9 DEF SafeOne
<1> QED BY <1>1, <1>2, <1>4, <1>7, <1>9, <1>10, <1>11, <1>12, Threads, OneStep

LEMMA StartReadySafe == ASSUME CInv, ~Early, StartReady PROVE CInv'
<1>1. /\ job[Agent].at = "ready" /\ Go(Agent, "link")
      /\ state' = [state EXCEPT ![job[Agent].dir] = IF @ = "none" THEN @ ELSE "READY"]
      /\ UNCHANGED <<dirs, files, current, index, torn, up, valid, todo, started, kills, asked, hurt, shot, cut>>
  BY DEF StartReady, At, WriteState
<1>2. IInv' BY StartReadyOK DEF CInv
<1>3. /\ OnlyAgent(job[Agent].dir) /\ state[job[Agent].dir] = "empty"
      /\ "config" \in files[job[Agent].dir]
  BY <1>1 DEF CInv, IInv, Starting, Form, Made, Starts
<1>4. PICK i \in Ids : i = job[Agent].dir BY <1>3 DEF OnlyAgent, CInv, IInv, Types
<1>5. /\ i \in dirs /\ i \notin todo /\ state[i] = "empty" /\ "config" \in files[i]
      /\ \A w \in Workers \ {Agent} : job[w].dir # i
  BY <1>3, <1>4 DEF OnlyAgent
<1>6. job \in [Workers -> Jobs] /\ state \in [Ids -> States] BY DEF CInv, IInv, Types
<1>7. /\ Turn(Agent) /\ job'[Agent].dir = i /\ job'[Agent].at = "link"
      /\ job'[Agent].seen = job[Agent].seen
  <2>1. "link" \in Places BY DEF Places
  <2> QED BY <1>1, <1>4, <1>6, <2>1, GoTurn, Threads
<1>8. state'[i] = "READY" /\ \A j \in Ids \ {i} : state'[j] = state[j] BY <1>1, <1>4, <1>5, <1>6
<1>9. Placed BY <1>7, AgentKeeps
<1>10. Form'
  <2>1. "link" \in Busy BY DEF Busy, Hands, Starts, Photos
  <2>2. job[Agent].seen \subseteq Ids BY Threads DEF CInv, Form, Clean
  <2>3. Held' /\ Own' /\ Over' /\ \A v \in Workers : job'[v].seen \subseteq Ids
    BY <1>1, <1>7, <2>1, <2>2, Threads, FormKept
  <2>4. Born' BY <1>1, <1>5, <1>8 DEF CInv, Form, Born
  <2>5. Made' BY <1>1, <1>5, <1>7 DEF CInv, Form, Made, Starts
  <2> QED BY <1>1, <2>3, <2>4, <2>5 DEF CInv, Form, Clean
<1>11. Around(i) BY <1>1, <1>8 DEF Around
<1>12. ASSUME ~hurt, i \notin asked PROVE SafeOne(i)'
  <2>1. SafeOne(i) BY <1>12 DEF CInv, Safe
  <2>2. ~Lists(i) BY <1>1, <1>4, <2>1, Threads DEF SafeOne, Alone, Route
  <2>3. ~Lists(i)' BY <1>1, <1>7, <2>2, Threads, ListsKept
  <2>4. Route(Agent, i)' BY <1>7, <2>3 DEF Route
  <2>5. \A w \in Workers \ {Agent} : job'[w].dir # i BY <1>5, <1>7 DEF Turn
  <2>6. Alone(i)' BY <1>1, <1>5, <2>4, <2>5 DEF Alone
  <2>7. Entered(i)' BY <1>1, <1>5, <1>8, <2>3 DEF Entered
  <2>8. Found(i)' BY <1>7, Threads DEF Found
  <2>9. Emptied(i)' BY <1>7, Threads DEF Emptied
  <2> QED BY <2>6, <2>7, <2>8, <2>9 DEF SafeOne
<1> QED BY <1>1, <1>2, <1>4, <1>7, <1>9, <1>10, <1>11, <1>12, Threads, OneStep

LEMMA StartLinkSafe == ASSUME CInv, ~Early, StartLink PROVE CInv'
<1>1. /\ job[Agent].at = "link" /\ End(Agent)
      /\ current' = IF current = Nowhere THEN job[Agent].dir ELSE current
      /\ UNCHANGED <<dirs, files, state, index, torn, up, valid, todo, started, kills, asked, hurt, shot, cut>>
  BY DEF StartLink, At
<1>2. IInv' BY StartLinkOK DEF CInv
<1>3. current = Nowhere /\ OnlyAgent(job[Agent].dir) /\ state[job[Agent].dir] = "READY"
  BY <1>1 DEF CInv, IInv, Starting, Starts
<1>4. PICK i \in Ids : i = job[Agent].dir BY <1>3 DEF OnlyAgent, CInv, IInv, Types
<1>5. /\ i \in dirs /\ i \notin todo /\ state[i] = "READY" /\ current' = i
      /\ \A w \in Workers \ {Agent} : job[w].dir # i
  BY <1>1, <1>3, <1>4 DEF OnlyAgent
<1>6. job \in [Workers -> Jobs] BY DEF CInv, IInv, Types
<1>7. /\ Turn(Agent) /\ job'[Agent].dir = Nowhere /\ job'[Agent].seen = {}
      /\ job'[Agent].at \in {"idle", "visit", "died"}
  BY <1>1, <1>6, EndTurn, Threads
<1>8. Placed BY <1>7, AgentKeeps
<1>9. Form'
  <2>1. {"idle", "visit", "died"} \cap Busy = {} BY DEF Busy, Hands, Starts, Photos
  <2>2. Held' /\ Own' /\ Over' /\ \A v \in Workers : job'[v].seen \subseteq Ids
    BY <1>1, <1>7, <2>1, Threads, Numbers, FormKept
  <2>3. Made'
    <3>1. "config" \in files[i] BY <1>1, <1>4 DEF CInv, Form, Made, Starts
    <3> QED BY <1>1, <1>5, <1>7, <3>1 DEF Made, Starts
  <2> QED BY <1>1, <2>2, <2>3 DEF CInv, Form, Clean, Born
<1>10. Around(i) BY <1>1, <1>3, <1>5, Numbers DEF Around
<1>11. ASSUME ~hurt, i \notin asked PROVE SafeOne(i)'
  <2>1. Entered(i) BY <1>11 DEF CInv, Safe, SafeOne
  <2>2. Lists(i)' <=> Lists(i) BY <1>1, <1>7, Threads, ListsKept
  <2>3. \A w \in Workers : job'[w].dir # i BY <1>5, <1>7, Numbers DEF Turn
  <2>4. Alone(i)' BY <2>3 DEF Alone
  <2>5. Entered(i)' BY <1>1, <1>5, <2>1, <2>2 DEF Entered
  <2>6. Found(i)' BY <1>5 DEF Found
  <2>7. Emptied(i)' BY <1>1, <1>5 DEF Emptied
  <2> QED BY <2>4, <2>5, <2>6, <2>7 DEF SafeOne
<1> QED BY <1>1, <1>2, <1>4, <1>7, <1>8, <1>9, <1>10, <1>11, Threads, OneStep

\* A photo finds the active timelapse in the agent's hand alone.
LEMMA PhotoHas ==
  ASSUME CInv, job[Agent].at \in Photos
  PROVE  /\ current \in Ids \cap dirs /\ current # Nowhere /\ job[Agent].dir = current
         /\ current \notin todo /\ \A w \in Workers \ {Agent} : job[w].dir # current
         /\ state[current] \in {"READY", "ACTIVATED", "empty"} /\ "config" \in files[current]
         /\ job[Agent].at # "activate" => state[current] # "empty"
         /\ job[Agent].at = "activate" => state[current] = "empty"
         /\ job[Agent].seen \subseteq Ids
<1>1. /\ current # Nowhere /\ job[Agent].dir = current
      /\ job[Agent].at = "activate" => state[current] = "empty"
  BY DEF CInv, IInv, Photo
<1>2. "config" \in files[current] BY <1>1 DEF CInv, Form, Made
<1>3. up /\ Listed
  <2>1. job[Agent] # Rest BY DEF Photos, Rest
  <2> QED BY <2>1, Threads DEF CInv, IInv, Waiting
<1>4. job[Agent].seen \subseteq Ids BY Threads DEF CInv, Form, Clean
<1> QED BY <1>1, <1>2, <1>3, <1>4, Free

LEMMA PhotoActivatedSafe == ASSUME CInv, ~Early, PhotoActivated PROVE CInv'
<1>1. /\ job[Agent].at = "activate" /\ Go(Agent, "photo")
      /\ state' = [state EXCEPT ![job[Agent].dir] = IF @ = "none" THEN @ ELSE "ACTIVATED"]
      /\ UNCHANGED <<dirs, files, current, index, torn, up, valid, todo, started, kills, asked,
                     hurt, shot, cut>>
  BY DEF PhotoActivated, At, WriteState
<1>2. IInv' BY PhotoActivatedOK DEF CInv
<1>3. job[Agent].at \in Photos BY <1>1 DEF Photos
<1>4. PICK k \in Ids : k = current BY <1>3, PhotoHas
<1>5. /\ k \in dirs /\ k \notin todo /\ job[Agent].dir = k /\ "config" \in files[k]
      /\ state[k] = "empty" /\ \A w \in Workers \ {Agent} : job[w].dir # k
      /\ job[Agent].seen \subseteq Ids
  BY <1>1, <1>3, <1>4, PhotoHas
<1>6. job \in [Workers -> Jobs] /\ state \in [Ids -> States] BY DEF CInv, IInv, Types
<1>7. /\ Turn(Agent) /\ job'[Agent].dir = k /\ job'[Agent].at = "photo"
      /\ job'[Agent].seen = job[Agent].seen
  <2>1. "photo" \in Places BY DEF Places
  <2> QED BY <1>1, <1>5, <1>6, <2>1, GoTurn, Threads
<1>8. state'[k] = "ACTIVATED" /\ \A j \in Ids \ {k} : state'[j] = state[j] BY <1>1, <1>5, <1>6
<1>9. Placed BY <1>7, AgentKeeps
<1>10. Form'
  <2>1. "photo" \in Busy BY DEF Busy, Photos
  <2>2. Held' /\ Own' /\ Over' /\ \A v \in Workers : job'[v].seen \subseteq Ids
    BY <1>1, <1>5, <1>7, <2>1, Threads, FormKept
  <2>3. Born' BY <1>1, <1>5, <1>8 DEF CInv, Form, Born
  <2>4. Made' BY <1>1, <1>7 DEF CInv, Form, Made, Starts
  <2> QED BY <1>1, <2>2, <2>3, <2>4 DEF CInv, Form, Clean
<1>11. Around(k) BY <1>1, <1>8 DEF Around
<1>12. ASSUME ~hurt, k \notin asked PROVE SafeOne(k)'
  <2>1. SafeOne(k) BY <1>12 DEF CInv, Safe
  <2>2. ~Lists(k) BY <1>1, <1>5, <2>1, Threads DEF SafeOne, Alone, Route
  <2>3. ~Lists(k)' BY <1>1, <1>7, <2>2, Threads, ListsKept
  <2>4. \A v \in Workers \ {Agent} : job'[v].dir # k BY <1>5, <1>7 DEF Turn
  <2>5. job'[Agent].at \in Photos BY <1>7 DEF Photos
  <2> QED BY <1>1, <1>4, <1>5, <1>7, <1>8, <1>12, <2>3, <2>4, <2>5, Threads, HandedOver
<1> QED BY <1>1, <1>2, <1>5, <1>7, <1>9, <1>10, <1>11, <1>12, Threads, OneStep

LEMMA PhotoFrameSafe == ASSUME CInv, ~Early, PhotoFrame PROVE CInv'
<1>1. job[Agent].at = "photo" BY DEF PhotoFrame, At
<1>2. IInv' BY PhotoFrameOK DEF CInv
<1>3. job[Agent].at \in Photos BY <1>1 DEF Photos
<1>4. PICK k \in Ids : k = current BY <1>3, PhotoHas
<1>5. /\ k \in dirs /\ k \notin todo /\ job[Agent].dir = k /\ "config" \in files[k]
      /\ state[k] \in {"READY", "ACTIVATED"} /\ \A w \in Workers \ {Agent} : job[w].dir # k
  BY <1>1, <1>3, <1>4, PhotoHas
<1>6. job \in [Workers -> Jobs] /\ files \in [Ids -> SUBSET Files]
  BY DEF CInv, IInv, Types, Form, Clean
<1>7. UNCHANGED <<dirs, state, current, index, torn, up, valid, todo, started, kills, asked, hurt,
                  shot, cut>>
  BY <1>4, <1>5 DEF PhotoFrame
<1>8. \/ End(Agent) /\ files' = files
      \/ /\ job' = [job EXCEPT ![Agent] = Handle(k, "count", FALSE)]
         /\ files' = [files EXCEPT ![k] = @ \ {"frames"}]
  BY <1>4, <1>5 DEF PhotoFrame
<1>9. /\ Turn(Agent) /\ job'[Agent].seen = {}
      /\ \/ job'[Agent].dir = Nowhere /\ job'[Agent].at \in {"idle", "visit", "died"}
         \/ job'[Agent].dir = k /\ job'[Agent].at = "count"
  <2>1. CASE End(Agent) BY <1>6, <2>1, EndTurn, Threads
  <2>2. CASE job' = [job EXCEPT ![Agent] = Handle(k, "count", FALSE)]
    <3>1. "count" \in Places BY DEF Places
    <3> QED BY <1>6, <2>2, <3>1, HandleTurn, Threads
  <2> QED BY <1>8, <2>1, <2>2
<1>10. /\ files' \in [Ids -> SUBSET Files] /\ files'[k] \subseteq files[k] /\ "config" \in files'[k]
       /\ \A j \in Ids \ {k} : files'[j] = files[j]
  <2>1. files' = files \/ files' = [files EXCEPT ![k] = @ \ {"frames"}] BY <1>8
  <2>2. files[k] \ {"frames"} \in SUBSET Files /\ files[k] \ {"frames"} \subseteq files[k]
        /\ "config" \in files[k] \ {"frames"}
    BY <1>5, <1>6
  <2> QED BY <1>5, <1>6, <2>1, <2>2
<1>11. Placed BY <1>9, AgentKeeps
<1>12. Form'
  <2>1. {"idle", "visit", "died"} \cap Busy = {} /\ "count" \in Busy
    BY DEF Busy, Hands, Starts, Photos
  <2>2. Held' /\ Own' /\ Over' /\ \A v \in Workers : job'[v].seen \subseteq Ids
    BY <1>7, <1>9, <2>1, Threads, Numbers, FormKept
  <2>3. Made' BY <1>4, <1>7, <1>9, <1>10 DEF Made, Starts
  <2>4. Born' BY <1>5, <1>7, <1>10 DEF CInv, Form, Born
  <2> QED BY <1>7, <1>10, <2>2, <2>3, <2>4 DEF CInv, Form, Clean
<1>13. Around(k) BY <1>7, <1>10 DEF Around
<1>14. ASSUME ~hurt, k \notin asked PROVE SafeOne(k)'
  <2>1. Lists(k)' <=> Lists(k) BY <1>1, <1>7, <1>9, Threads, ListsKept
  <2>2. ~Lists(k)' BY <1>5, <1>14, <2>1, Unlisted
  <2>3. \A w \in Workers \ {Agent} : job'[w].dir # k BY <1>5, <1>9 DEF Turn
  <2>4. Alone(k)' BY <1>5, <1>7, <1>9, <2>3, Numbers DEF Alone, Route
  <2>5. Entered(k)' BY <1>5, <1>7, <1>10, <2>2 DEF Entered
  <2>6. Found(k)' BY <1>4, <1>7 DEF Found
  <2>7. Emptied(k)' BY <1>5, <1>7 DEF Emptied
  <2> QED BY <2>4, <2>5, <2>6, <2>7 DEF SafeOne
<1>15. job'[Agent].dir \in {k, Nowhere} /\ job'[Agent].at # "dump" BY <1>9
<1> QED BY <1>1, <1>2, <1>5, <1>7, <1>9, <1>11, <1>12, <1>13, <1>14, <1>15, Threads, OneStep

LEMMA PhotoCountSafe == ASSUME CInv, ~Early, PhotoCount PROVE CInv'
<1>1. job[Agent].at = "count" /\ End(Agent) BY DEF PhotoCount, At
<1>2. IInv' BY PhotoCountOK DEF CInv
<1>3. job[Agent].at \in Photos BY <1>1 DEF Photos
<1>4. PICK k \in Ids : k = current BY <1>3, PhotoHas
<1>5. /\ k \in dirs /\ k \notin todo /\ job[Agent].dir = k /\ "config" \in files[k]
      /\ state[k] \in {"READY", "ACTIVATED"} /\ \A w \in Workers \ {Agent} : job[w].dir # k
  BY <1>1, <1>3, <1>4, PhotoHas
<1>6. job \in [Workers -> Jobs] /\ files \in [Ids -> SUBSET Files] /\ shot \subseteq Ids
  BY DEF CInv, IInv, Types, Form, Clean
<1>7. /\ UNCHANGED <<dirs, state, current, index, torn, up, valid, todo, started, kills, asked, hurt, cut>>
      /\ files' = [files EXCEPT ![k] = @ \cup {"frames"}] /\ shot' = shot \cup {k}
  BY <1>5 DEF PhotoCount
<1>8. /\ Turn(Agent) /\ job'[Agent].dir = Nowhere /\ job'[Agent].seen = {}
      /\ job'[Agent].at \in {"idle", "visit", "died"}
  BY <1>1, <1>6, EndTurn, Threads
<1>9. /\ files' \in [Ids -> SUBSET Files] /\ "config" \in files'[k]
      /\ \A j \in Ids \ {k} : files'[j] = files[j]
  BY <1>5, <1>6, <1>7 DEF Files
<1>10. Placed BY <1>8, AgentKeeps
<1>11. Form'
  <2>1. {"idle", "visit", "died"} \cap Busy = {} BY DEF Busy, Hands, Starts, Photos
  <2>2. Held' /\ Own' /\ Over' /\ \A v \in Workers : job'[v].seen \subseteq Ids
    BY <1>7, <1>8, <2>1, Threads, Numbers, FormKept
  <2>3. Made' BY <1>4, <1>7, <1>8, <1>9 DEF Made, Starts
  <2>4. Born' BY <1>5, <1>7, <1>9 DEF CInv, Form, Born
  <2>5. Clean' BY <1>6, <1>7, <1>9, <2>2 DEF CInv, Form, Clean
  <2> QED BY <2>2, <2>3, <2>4, <2>5 DEF Form
<1>12. Around(k) BY <1>7, <1>9 DEF Around
<1>13. ASSUME ~hurt, k \notin asked PROVE SafeOne(k)'
  <2>1. Lists(k)' <=> Lists(k) BY <1>1, <1>7, <1>8, Threads, ListsKept
  <2>2. ~Lists(k)' BY <1>5, <1>13, <2>1, Unlisted
  <2>3. \A w \in Workers : job'[w].dir # k BY <1>5, <1>8, Numbers DEF Turn
  <2>4. Alone(k)' BY <2>3 DEF Alone
  <2>5. Entered(k)' BY <1>5, <1>7, <1>9, <2>2 DEF Entered
  <2>6. Found(k)' BY <1>4, <1>7 DEF Found
  <2>7. Emptied(k)' BY <1>5, <1>7 DEF Emptied
  <2> QED BY <2>4, <2>5, <2>6, <2>7 DEF SafeOne
<1> QED BY <1>1, <1>2, <1>5, <1>7, <1>8, <1>10, <1>11, <1>12, <1>13, Threads, OneStep

--------------------------------------------------------------------------------
(* The sweep, and the process, once more                                     *)

\* Before the sweep has its listing, and while the agent is down, no thread has
\* an instance and nobody writes the index.
LEMMA Alone0 ==
  ASSUME CInv, ~up \/ ~Listed
  PROVE  \A w \in Workers : job[w].dir = Nowhere /\ job[w].at # "dump" /\ job[w].seen \subseteq Ids
<1>1. \A w \in Workers \ {Sweep} : job[w] = Rest BY DEF CInv, IInv, Waiting
<1>2. Rest.dir = Nowhere /\ Rest.at = "idle" BY DEF Rest
<1>3. job[Sweep].dir = Nowhere /\ job[Sweep].at # "dump"
  <2>1. CASE ~up BY <1>2, <2>1 DEF CInv, IInv, Waiting
  <2>2. CASE ~Listed BY <2>2 DEF CInv, IInv, Waiting, Listed
  <2> QED BY <2>1, <2>2
<1>4. \A w \in Workers : job[w].seen \subseteq Ids BY DEF CInv, Form, Clean
<1> QED BY <1>1, <1>2, <1>3, <1>4

LEMMA GoSweepTurn ==
  ASSUME CInv, NEW place \in Places, place \notin Busy, Go(Sweep, place), job[Sweep].dir = Nowhere
  PROVE  /\ Turn(Sweep) /\ job'[Sweep].at = place /\ job'[Sweep].dir = Nowhere
         /\ job'[Sweep].seen \subseteq Ids /\ job'[Sweep].at # "dump" /\ job'[Agent] = job[Agent]
<1>1. job \in [Workers -> Jobs] /\ job[Sweep].seen \subseteq Ids
  BY Threads DEF CInv, IInv, Types, Form, Clean
<1>2. /\ Turn(Sweep) /\ job'[Sweep].at = place /\ job'[Sweep].dir = job[Sweep].dir
      /\ job'[Sweep].seen = job[Sweep].seen
  BY <1>1, GoTurn, Threads
<1>3. place # "dump" BY DEF Busy, Hands, Starts, Photos
<1> QED BY <1>1, <1>2, <1>3, Threads DEF Turn

\* The sweep's own steps leave the form of the rest alone.
LEMMA SweepForm ==
  ASSUME CInv, Turn(Sweep),
         UNCHANGED <<dirs, files, state, index, torn, up, started, kills, asked, hurt, shot, cut>>,
         current' \in {current, Nowhere}, todo' \subseteq Ids, valid' \subseteq Ids,
         job'[Sweep].dir \in Ids <=> job'[Sweep].at \in Busy, job'[Sweep].seen \subseteq Ids,
         job'[Sweep].at = "over" => todo' = {}
  PROVE  Form'
<1>1. job'[Agent] = job[Agent] BY Threads DEF Turn
<1>2. Held' BY DEF CInv, Form, Held, Turn
<1>3. Own' BY Threads DEF CInv, Form, Own, Turn
<1>4. Over' BY DEF Over
<1>5. Made' BY <1>1 DEF CInv, Form, Made
<1>6. \A v \in Workers : job'[v].seen \subseteq Ids BY DEF CInv, Form, Clean, Turn
<1>7. Clean' BY <1>6 DEF CInv, Form, Clean
<1> QED BY <1>2, <1>3, <1>4, <1>5, <1>7 DEF CInv, Form, Born

LEMMA SweepIndexSafe == ASSUME CInv, SweepIndex PROVE CInv'
<1>1. /\ up /\ job[Sweep].at = "valid" /\ Go(Sweep, "unlink") /\ valid' = Contents
      /\ UNCHANGED <<dirs, files, state, current, index, torn, up, todo, started, kills, asked, hurt, shot, cut>>
  BY DEF SweepIndex, At, store
<1>2. IInv' BY SweepIndexOK DEF CInv
<1>3. ~Listed /\ \A w \in Workers : job[w].dir = Nowhere /\ job[w].at # "dump"
  BY <1>1, Alone0 DEF Listed
<1>4. "unlink" \in Places \ Busy BY DEF Places, Busy, Hands, Starts, Photos
<1>5. /\ Turn(Sweep) /\ job'[Sweep].at = "unlink" /\ job'[Sweep].dir = Nowhere
      /\ job'[Sweep].seen \subseteq Ids /\ job'[Sweep].at # "dump"
  BY <1>1, <1>3, <1>4, GoSweepTurn, Threads
<1>6. Contents \subseteq Ids BY DEF Contents, CInv, Form, Clean
<1>7. Form'
  <2>1. todo \subseteq Ids BY DEF CInv, IInv, Types
  <2> QED BY <1>1, <1>4, <1>5, <1>6, <2>1, Numbers, SweepForm
<1>8. (\A j \in Ids : Lists(j)' <=> Lists(j)) /\ (Writes => Writes')
  BY <1>1, <1>3, <1>5, Threads, ListsKept
<1>9. ASSUME ~hurt, NEW j \in Ids \ asked PROVE SafeOne(j)'
  <2>1. SafeOne(j) /\ Writes BY <1>9 DEF CInv, Safe
  <2>2. \A w \in Workers : job'[w].dir # j BY <1>3, <1>5, Numbers DEF Turn
  <2>3. Lists(j) => j \in index BY <1>3 DEF Lists
  <2>4. Lists(j) => j \in valid' BY <1>1, <2>1, <2>3 DEF Writes, Contents
  <2>5. Alone(j)' BY <2>2 DEF Alone
  <2>6. Entered(j)' BY <1>1, <1>8, <2>1, <2>4 DEF SafeOne, Entered
  <2>7. Found(j)' BY <1>5 DEF Found, Listed
  <2>8. Emptied(j)' BY <1>1, <1>3, <2>1, Numbers DEF SafeOne, Emptied
  <2> QED BY <2>5, <2>6, <2>7, <2>8 DEF SafeOne
<1>10. Safe' BY <1>1, <1>8, <1>9 DEF CInv, Safe
<1> QED BY <1>2, <1>7, <1>10 DEF CInv

LEMMA SweepCurrentSafe == ASSUME CInv, SweepCurrent PROVE CInv'
<1>1. /\ up /\ job[Sweep].at = "unlink"
      /\ UNCHANGED <<dirs, files, state, index, torn, up, valid, todo, started, kills, asked, hurt, shot, cut>>
  BY DEF SweepCurrent, At
<1>2. IInv' BY SweepCurrentOK DEF CInv
<1>3. current \in Ids \cup {Nowhere} /\ (current # Nowhere => current \in dirs)
  BY Free DEF CInv, IInv, Types
<1>4. Go(Sweep, "list") /\ current' = Nowhere BY <1>3, Numbers DEF SweepCurrent
<1>5. ~Listed /\ \A w \in Workers : job[w].dir = Nowhere /\ job[w].at # "dump"
  BY <1>1, Alone0 DEF Listed
<1>6. "list" \in Places \ Busy BY DEF Places, Busy, Hands, Starts, Photos
<1>7. /\ Turn(Sweep) /\ job'[Sweep].at = "list" /\ job'[Sweep].dir = Nowhere
      /\ job'[Sweep].seen \subseteq Ids /\ job'[Sweep].at # "dump"
  BY <1>4, <1>5, <1>6, GoSweepTurn, Threads
<1>8. Form'
  <2>1. todo \subseteq Ids /\ valid \subseteq Ids BY DEF CInv, IInv, Types, Form, Clean
  <2> QED BY <1>1, <1>4, <1>6, <1>7, <2>1, Numbers, SweepForm
<1>9. Placed BY <1>1, <1>5, <1>7 DEF Placed, Listed
<1>10. PICK k \in Ids \cup {Nowhere} : k = current BY <1>3
<1>11. Around(k) BY <1>1, <1>4, <1>10, Numbers DEF Around
<1>12. ASSUME ~hurt, k \in Ids \ asked PROVE SafeOne(k)'
  <2>1. SafeOne(k) BY <1>12 DEF CInv, Safe
  <2>2. Lists(k)' <=> Lists(k) BY <1>1, <1>5, <1>7, <1>12, Threads, ListsKept
  <2>3. \A w \in Workers : job'[w].dir # k BY <1>5, <1>7, <1>12, Numbers DEF Turn
  <2>4. Alone(k)' BY <2>3 DEF Alone
  <2>5. Entered(k)' BY <1>1, <1>7, <2>1, <2>2 DEF SafeOne, Entered
  <2>6. Found(k)' BY <1>7 DEF Found, Listed
  <2>7. Emptied(k)' BY <1>1, <1>5, <1>12, <2>1, Numbers DEF SafeOne, Emptied
  <2> QED BY <2>4, <2>5, <2>6, <2>7 DEF SafeOne
<1> QED BY <1>1, <1>2, <1>5, <1>7, <1>8, <1>9, <1>10, <1>11, <1>12, Threads, OneStep

LEMMA SweepListSafe == ASSUME CInv, SweepList PROVE CInv'
<1>1. /\ up /\ job[Sweep].at = "list" /\ Go(Sweep, "visit") /\ todo' = dirs
      /\ UNCHANGED <<dirs, files, state, current, index, torn, up, valid, started, kills, asked, hurt, shot, cut>>
  BY DEF SweepList, At, store
<1>2. IInv' BY SweepListOK DEF CInv
<1>3. \A w \in Workers : job[w].dir = Nowhere /\ job[w].at # "dump" BY <1>1, Alone0 DEF Listed
<1>4. "visit" \in Places \ Busy BY DEF Places, Busy, Hands, Starts, Photos
<1>5. /\ Turn(Sweep) /\ job'[Sweep].at = "visit" /\ job'[Sweep].dir = Nowhere
      /\ job'[Sweep].seen \subseteq Ids /\ job'[Sweep].at # "dump"
  BY <1>1, <1>3, <1>4, GoSweepTurn, Threads
<1>6. Form'
  <2>1. dirs \subseteq Ids /\ valid \subseteq Ids BY DEF CInv, IInv, Types, Form, Clean
  <2> QED BY <1>1, <1>4, <1>5, <2>1, Numbers, SweepForm
<1>7. (\A j \in Ids : Lists(j)' <=> Lists(j)) /\ (Writes => Writes')
  BY <1>1, <1>3, <1>5, Threads, ListsKept
<1>8. ASSUME ~hurt, NEW j \in Ids \ asked PROVE SafeOne(j)'
  <2>1. SafeOne(j) BY <1>8 DEF CInv, Safe
  <2>2. \A w \in Workers : job'[w].dir # j BY <1>3, <1>5, Numbers DEF Turn
  <2>3. Alone(j)' BY <2>2 DEF Alone
  <2>4. Entered(j)' BY <1>1, <1>7, <2>1 DEF SafeOne, Entered
  <2>5. Found(j)' BY <1>1 DEF Found
  <2>6. Emptied(j)' BY <1>1, <1>3, <2>1, Numbers DEF SafeOne, Emptied
  <2> QED BY <2>3, <2>4, <2>5, <2>6 DEF SafeOne
<1>9. Safe' BY <1>1, <1>7, <1>8 DEF CInv, Safe
<1> QED BY <1>2, <1>6, <1>9 DEF CInv

\* The sweep visits an instance nobody has in hand. A finished one is in the
\* sweep's copy of the index, so what it deletes has no state.
LEMMA SweepVisitSafe == ASSUME CInv, NEW i \in Ids, SweepVisit(i) PROVE CInv'
<1>1. /\ up /\ job[Sweep].at = "visit" /\ i \in todo /\ todo' = todo \ {i}
      /\ job' = IF i \in dirs /\ state[i] \in Unfinished
                THEN [job EXCEPT ![Sweep] = Handle(i, "gen", TRUE)]
                ELSE IF i \in dirs /\ Orphan(i) /\ current # i
                THEN [job EXCEPT ![Sweep] = Handle(i, "rm", FALSE)]
                ELSE job
      /\ UNCHANGED <<dirs, files, state, current, index, torn, up, valid, started, kills, asked, hurt, shot, cut>>
  BY Zenon DEF SweepVisit, At, store
<1>2. IInv' BY SweepVisitOK DEF CInv
<1>3. job \in [Workers -> Jobs] /\ todo \subseteq Ids /\ valid \subseteq Ids /\ state[i] \in States
  BY DEF CInv, IInv, Types, Form, Clean
<1>4. job[Sweep].dir = Nowhere
  <2>1. "visit" \notin Busy BY DEF Busy, Hands, Starts, Photos
  <2>2. job[Sweep].dir \in Ids \cup {Nowhere} BY <1>3, Threads DEF Jobs
  <2> QED BY <1>1, <2>1, <2>2, Threads DEF CInv, Form, Held
<1>5. {"gen", "rm"} \subseteq Places \cap Busy /\ "visit" \notin Busy BY DEF Places, Busy, Hands, Starts, Photos
<1>6. /\ Turn(Sweep) /\ job'[Sweep].dir \in {i, Nowhere} /\ job'[Sweep].seen \subseteq Ids
      /\ job'[Sweep].dir \in Ids <=> job'[Sweep].at \in Busy
      /\ job'[Sweep].at \in {"gen", "rm", "visit"}
  <2>1. CASE job' = [job EXCEPT ![Sweep] = Handle(i, "gen", TRUE)]
    <3>1. Turn(Sweep) /\ job'[Sweep].dir = i /\ job'[Sweep].at = "gen" /\ job'[Sweep].seen = {}
      BY <1>3, <1>5, <2>1, Threads, HandleTurn
    <3> QED BY <1>5, <3>1
  <2>2. CASE job' = [job EXCEPT ![Sweep] = Handle(i, "rm", FALSE)]
    BY <1>3, <1>5, <2>2, Threads, HandleTurn
  <2>3. CASE job' = job
    BY <1>1, <1>3, <1>4, <1>5, <2>3, Threads, Numbers DEF Turn, CInv, Form, Clean
  <2> QED BY <1>1, <2>1, <2>2, <2>3
<1>7. Form' BY <1>1, <1>3, <1>6, SweepForm
<1>8. Placed BY <1>1, <1>6 DEF Placed, Listed
<1>9. Around(i) BY <1>1 DEF Around
<1>10. ASSUME ~hurt, i \notin asked PROVE SafeOne(i)'
  <2>1. SafeOne(i) BY <1>10 DEF CInv, Safe
  <2>2. \A w \in Workers \ {Sweep} : job'[w].dir # i
    BY <1>1, <1>6, <2>1 DEF SafeOne, Alone, Turn
  <2>3. current # i BY <1>1, Free, Numbers
  <2>4. Lists(i)' <=> Lists(i) BY <1>1, <1>6, Threads, ListsKept
  <2>5. state[i] = "FINISHED" => i \in valid BY <1>1, <2>1 DEF SafeOne, Entered
  <2>6. Entered(i)' BY <1>1, <1>6, <2>1, <2>4 DEF SafeOne, Entered
  <2>e. /\ \A w \in Workers : job[w].dir # i
        /\ state[i] = "empty" => i \in cut
    BY <1>1, <2>1 DEF SafeOne, Alone, Emptied
  <2>f. Emptied(i)' BY <1>1, <2>e DEF Emptied
  <2>7. CASE i \in dirs /\ state[i] \in Unfinished
    <3>1. job' = [job EXCEPT ![Sweep] = Handle(i, "gen", TRUE)] BY <1>1, <2>7
    <3>2. job'[Sweep].dir = i /\ job'[Sweep].at = "gen" /\ job'[Sweep].add
      BY <1>3, <1>5, <3>1, Threads, HandleTurn
    <3>3. Route(Sweep, i)' BY <1>1, <2>7, <3>2 DEF Route
    <3>4. Alone(i)' BY <1>1, <2>2, <3>3 DEF Alone
    <3>5. Found(i)' BY <3>2, Threads DEF Found
    <3> QED BY <2>6, <2>f, <3>4, <3>5 DEF SafeOne
  <2>8. CASE i \in dirs /\ state[i] \notin Unfinished \cup {"FINISHED", "empty"}
    <3>1. state[i] = "none" BY <1>3, <2>8 DEF States, Unfinished
    <3>2. job' = [job EXCEPT ![Sweep] = Handle(i, "rm", FALSE)]
      BY <1>1, <2>3, <2>8, <3>1 DEF Orphan
    <3>3. job'[Sweep].dir = i /\ job'[Sweep].at = "rm"
      BY <1>3, <1>5, <3>2, Threads, HandleTurn
    <3>4. Route(Sweep, i)' BY <1>1, <3>1, <3>3 DEF Route
    <3>5. Alone(i)' BY <1>1, <2>2, <3>4 DEF Alone
    <3>6. Found(i)' BY <3>3, Threads DEF Found
    <3> QED BY <2>6, <2>f, <3>5, <3>6 DEF SafeOne
  <2>9. CASE i \notin dirs \/ state[i] \in {"FINISHED", "empty"}
    <3>1. ~(i \in dirs /\ state[i] \in Unfinished) /\ ~(i \in dirs /\ Orphan(i))
      BY <2>5, <2>9 DEF Unfinished, Orphan
    <3>2. job' = job BY <1>1, <3>1
    <3>3. \A w \in Workers : job'[w].dir # i BY <1>4, <2>2, <3>2, Numbers
    <3>4. Alone(i)' BY <3>3 DEF Alone
    <3>5. Found(i)' BY <1>1, <2>9, <2>e DEF Found
    <3> QED BY <2>6, <2>f, <3>4, <3>5 DEF SafeOne
  <2> QED BY <2>7, <2>8, <2>9
<1>11. job[Sweep].at # "dump" /\ job'[Sweep].at # "dump" BY <1>1, <1>6
<1> QED BY <1>1, <1>2, <1>4, <1>6, <1>7, <1>8, <1>9, <1>10, <1>11, Threads, OneStep

LEMMA SweepOverSafe == ASSUME CInv, SweepOver PROVE CInv'
<1>1. /\ up /\ job[Sweep].at = "visit" /\ todo = {} /\ Go(Sweep, "over") /\ valid' = {}
      /\ UNCHANGED <<dirs, files, state, current, index, torn, up, todo, started, kills, asked, hurt, shot, cut>>
  BY DEF SweepOver, At, store
<1>2. IInv' BY SweepOverOK DEF CInv
<1>3. "over" \in Places \ Busy /\ "visit" \notin Busy BY DEF Places, Busy, Hands, Starts, Photos
<1>4. job[Sweep].dir = Nowhere
  <2>1. job[Sweep].dir \in Ids \cup {Nowhere} BY Threads DEF CInv, IInv, Types, Jobs
  <2> QED BY <1>1, <1>3, <2>1, Threads DEF CInv, Form, Held
<1>5. /\ Turn(Sweep) /\ job'[Sweep].at = "over" /\ job'[Sweep].dir = Nowhere
      /\ job'[Sweep].seen \subseteq Ids /\ job'[Sweep].at # "dump"
  BY <1>1, <1>3, <1>4, GoSweepTurn, Threads
<1>6. Form' BY <1>1, <1>3, <1>5, Numbers, SweepForm
<1>7. Placed BY <1>1, <1>5 DEF Placed, Listed
<1>8. Around(Nowhere) BY <1>1, <1>5 DEF Around
<1> QED BY <1>1, <1>2, <1>4, <1>5, <1>6, <1>7, <1>8, Threads, Numbers, OneStep

LEMMA KillSafe == ASSUME CInv, Kill PROVE CInv'
<1>1. /\ ~up' /\ kills < MaxKills /\ kills' = kills + 1 /\ valid' = {} /\ todo' = {}
      /\ job' = [w \in Workers |-> Rest] /\ up' = FALSE
      /\ UNCHANGED <<dirs, files, state, current, index, torn, started, asked, shot>>
  BY Zenon DEF Kill, store
<1>c. /\ cut \subseteq cut' /\ cut' \subseteq cut \cup dirs
      /\ \A j \in dirs : state[j] = "empty" => j \in cut'
  BY DEF Kill
<1>2. IInv' BY KillOK DEF CInv
<1>3. (~hurt' => ~hurt /\ ~torn) /\ hurt' \in BOOLEAN
  <2>1. hurt' = (hurt \/ torn) BY Zenon DEF Kill
  <2> QED BY <2>1, Zenon
<1>4. Rest.dir = Nowhere /\ Rest.at = "idle" /\ Rest.seen = {} BY DEF Rest
<1>5. \A w \in Workers : job'[w].dir = Nowhere /\ job'[w].at = "idle" /\ job'[w].seen = {}
  BY <1>1, <1>4
<1>6. Form'
  <2>1. "idle" \notin Busy BY DEF Busy, Hands, Starts, Photos
  <2>2. kills' \in 0 .. MaxKills BY <1>1, TimelapseAssumption DEF CInv, Form, Clean
  <2>3. Clean'
    <3>1. {torn', up', hurt'} \subseteq BOOLEAN BY <1>1, <1>3 DEF CInv, Form, Clean
    <3>2. dirs \subseteq Ids BY DEF CInv, IInv, Types
    <3> QED BY <1>1, <1>5, <1>c, <2>2, <3>1, <3>2 DEF CInv, Form, Clean
  <2>4. Held' /\ Own' BY <1>5, <2>1, Threads, Numbers DEF Held, Own
  <2>5. Made' /\ Over' BY <1>1, <1>5, Threads DEF CInv, Form, Made, Over, Starts
  <2>6. Born' BY <1>1 DEF CInv, Form, Born
  <2> QED BY <2>3, <2>4, <2>5, <2>6 DEF Form
<1>7. Safe'
  <2> SUFFICES ASSUME ~hurt' PROVE Writes' /\ \A j \in Ids \ asked' : SafeOne(j)'
    BY SafeKept
  <2>1. ~hurt /\ ~torn /\ Writes BY <1>3 DEF CInv, Safe
  <2>2. Writes' BY <1>1, <1>5, <2>1 DEF Writes
  <2>3. \A w \in Workers : job[w].at # "dump" BY <2>1 DEF Writes
  <2>4. ASSUME NEW j \in Ids \ asked PROVE SafeOne(j)'
    <3>1. SafeOne(j) BY <2>1, <2>4 DEF CInv, Safe
    <3>2. Lists(j) <=> j \in index BY <2>3 DEF Lists
    <3>3. Lists(j)' <=> j \in index BY <1>1, <1>5 DEF Lists
    <3>4. Alone(j)' BY <1>5, Numbers DEF Alone
    <3>5. Entered(j)' BY <1>1, <1>5, <3>1, <3>2, <3>3, Threads DEF SafeOne, Entered
    <3>6. Found(j)' BY <1>1 DEF Found
    <3>7. Emptied(j)' BY <1>1, <1>c DEF Emptied, CInv, Form, Born
    <3> QED BY <3>4, <3>5, <3>6, <3>7 DEF SafeOne
  <2> QED BY <1>1, <2>2, <2>4
<1> QED BY <1>2, <1>6, <1>7 DEF CInv

LEMMA BootSafe == ASSUME CInv, Boot PROVE CInv'
<1>1. /\ ~up /\ up' = TRUE /\ job' = [job EXCEPT ![Sweep].at = "valid"]
      /\ UNCHANGED <<dirs, files, state, current, index, torn, valid, todo, started, kills, asked, hurt, shot, cut>>
  BY Zenon DEF Boot, store
<1>2. IInv' BY BootOK DEF CInv
<1>3. \A w \in Workers : job[w].dir = Nowhere /\ job[w].at # "dump" /\ job[w].seen \subseteq Ids
  BY <1>1, Alone0
<1>4. job \in [Workers -> Jobs] BY DEF CInv, IInv, Types
<1>5. /\ Turn(Sweep) /\ job'[Sweep].dir = Nowhere /\ job'[Sweep].at = "valid"
      /\ job'[Sweep].seen = job[Sweep].seen
  <2>1. "valid" \in Places BY DEF Places
  <2>2. Go(Sweep, "valid") BY <1>1 DEF Go
  <2> QED BY <1>3, <1>4, <2>1, <2>2, GoTurn, Threads
<1>6. Form'
  <2>1. "valid" \notin Busy BY DEF Busy, Hands, Starts, Photos
  <2>2. Held' /\ Own' /\ Over' /\ \A v \in Workers : job'[v].seen \subseteq Ids
    BY <1>1, <1>3, <1>5, <2>1, Threads, Numbers, FormKept
  <2>3. job'[Agent] = job[Agent] BY <1>5, Threads DEF Turn
  <2>4. Clean' BY <1>1, <2>2 DEF CInv, Form, Clean
  <2>5. Born' /\ Made' BY <1>1, <2>3 DEF CInv, Form, Born, Made
  <2> QED BY <2>2, <2>4, <2>5 DEF Form
<1>7. (\A j \in Ids : Lists(j)' <=> Lists(j)) /\ (Writes => Writes')
  <2>1. job'[Sweep].at # "dump" /\ job[Sweep].at # "dump" BY <1>3, <1>5, Threads
  <2> QED BY <1>1, <1>5, <2>1, Threads, ListsKept
<1>8. ASSUME ~hurt, NEW j \in Ids \ asked PROVE SafeOne(j)'
  <2>1. SafeOne(j) BY <1>8 DEF CInv, Safe
  <2>2. \A w \in Workers : job'[w].dir # j BY <1>3, <1>5, Numbers DEF Turn
  <2>3. Alone(j)' BY <2>2 DEF Alone
  <2>4. Entered(j)' BY <1>1, <1>5, <1>7, <2>1 DEF SafeOne, Entered
  <2>5. Found(j)' BY <1>5 DEF Found, Listed
  <2>6. Emptied(j)' BY <1>1, <1>3, <2>1, Numbers DEF SafeOne, Emptied
  <2> QED BY <2>3, <2>4, <2>5, <2>6 DEF SafeOne
<1>9. Safe' BY <1>1, <1>7, <1>8 DEF CInv, Safe
<1> QED BY <1>2, <1>6, <1>9 DEF CInv

LEMMA CInvNext == ASSUME CInv, ~Early, [Next]_vars PROVE CInv'
<1>1. CASE Request
  BY <1>1, StartDirSafe, StopTimelapseSafe, PhotoStateSafe, AskDeleteSafe DEF Request
<1>2. CASE \E w \in Workers : Step(w)
  BY <1>2, JobSafe, StartStateSafe, StartReadySafe, StartLinkSafe, PhotoActivatedSafe,
     PhotoFrameSafe, PhotoCountSafe, SweepIndexSafe,
     SweepCurrentSafe, SweepListSafe, SweepVisitSafe, SweepOverSafe
  DEF Step, AgentStep, SweepStep
<1>3. CASE Kill BY <1>3, KillSafe
<1>4. CASE Boot BY <1>4, BootSafe
<1>5. CASE UNCHANGED vars
  <2>1. UNCHANGED <<dirs, files, state, current, index, torn, up, job, valid, todo, started, kills,
                    asked, hurt, shot, cut>>
    BY <1>5 DEF vars, store
  <2>2. IInv' BY <1>5, NextOK DEF CInv
  <2>3. Form' BY <2>1 DEF CInv, Form, Clean, Held, Own, Born, Made, Over
  <2>4. \A j \in Ids : Lists(j)' <=> Lists(j) BY <2>1 DEF Lists
  <2>5. Writes => Writes' BY <2>1 DEF Writes
  <2>6. ASSUME NEW j \in Ids, SafeOne(j) PROVE SafeOne(j)'
    <3>1. \A w \in Workers : Route(w, j) => Route(w, j)' BY <2>1, <2>4 DEF Route
    <3>2. Alone(j)' BY <2>1, <2>6, <3>1 DEF SafeOne, Alone
    <3>3. Entered(j)' BY <2>1, <2>4, <2>6 DEF SafeOne, Entered
    <3>4. Found(j)' BY <2>1, <2>6 DEF SafeOne, Found, Listed
    <3>5. Emptied(j)' BY <2>1, <2>6 DEF SafeOne, Emptied
    <3> QED BY <3>2, <3>3, <3>4, <3>5 DEF SafeOne
  <2>7. Safe' BY <2>1, <2>5, <2>6 DEF CInv, Safe
  <2> QED BY <2>2, <2>3, <2>7 DEF CInv
<1> QED BY <1>1, <1>2, <1>3, <1>4, <1>5 DEF Next

--------------------------------------------------------------------------------

\* A step leaves the finished timelapse i as it is, or adds to its files.
Kept(i) == i \in dirs' /\ state'[i] = "FINISHED" /\ files[i] \subseteq files'[i]

LEMMA JobKeepsFinished ==
  ASSUME CInv, NEW w \in Workers, Job(w), ~hurt', NEW i \in dirs \ asked, state[i] = "FINISHED"
  PROVE  Kept(i)
<1>1. i \in Ids BY DEF CInv, IInv, Types
<1>2. JobData(job[w].dir) /\ job[w].dir \in Ids BY JobChanges, JobNow
<1>3. CASE job[w].dir # i BY <1>1, <1>2, <1>3 DEF JobData, Kept
<1>4. CASE job[w].dir = i
  <2>1. ~hurt BY JobIndex
  <2>2. Route(w, i) BY <1>1, <1>4, <2>1 DEF CInv, Safe, SafeOne, Alone
  <2>3. job[w].at \in {"read", "truncate", "dump"} => FALSE
    BY <2>2 DEF Route
  <2>4. job[w].at \notin {"rm", "rmdir", "gen", "generating", "finish", "finished",
                          "read", "truncate", "dump"}
    BY <2>2, <2>3 DEF Route, Unfinished
  <2>5. job[w].at \in Hands BY JobNow
  <2> QED BY <2>4, <2>5 DEF Hands
<1> QED BY <1>3, <1>4

LEMMA FinishedStays ==
  ASSUME CInv, ~Early, [Next]_vars, NEW i \in dirs, state[i] = "FINISHED", i \notin asked', ~hurt'
  PROVE  Kept(i)
<1>0. i \in Ids /\ files \in [Ids -> SUBSET Files] /\ state \in [Ids -> States]
  BY DEF CInv, IInv, Types, Form, Clean
<1>1. ASSUME UNCHANGED <<dirs, files, state>> PROVE Kept(i) BY <1>1 DEF Kept
<1>a. current # i BY <1>0, Free, Numbers
<1>b. job[Agent].at \in Photos => job[Agent].dir # i BY <1>a DEF CInv, IInv, Photo
<1>2. CASE StartDir
  <2>1. i # started + 1
    <3>1. started \in Nat /\ i \in Nat BY <1>0, Numbers DEF CInv, IInv, Types
    <3>2. i <= started BY DEF CInv, IInv, Begun
    <3> QED BY <3>1, <3>2
  <2>2. /\ dirs' = dirs \cup {started + 1} /\ state' = state
        /\ files' = [files EXCEPT ![started + 1] = {"config"}]
    BY <1>2 DEF StartDir
  <2> QED BY <1>0, <2>1, <2>2 DEF Kept
<1>3. CASE PhotoState
  <2>1. current # i BY <1>a
  <2>2. /\ UNCHANGED <<dirs, files>>
        /\ state' = state \/ state' = [state EXCEPT ![current] = "empty"]
    BY <1>3 DEF PhotoState, EmptyState
  <2> QED BY <1>0, <2>1, <2>2 DEF Kept
<1>4. CASE PhotoFrame
  <2>1. UNCHANGED <<dirs, state>> BY <1>4 DEF PhotoFrame
  <2>2. files' = files \/ files' = [files EXCEPT ![current] = @ \ {"frames"}]
    BY <1>4 DEF PhotoFrame
  <2>3. files'[i] = files[i] BY <1>0, <1>a, <2>2
  <2> QED BY <2>1, <2>3 DEF Kept
<1>9. CASE PhotoCount
  <2>1. UNCHANGED <<dirs, state>> BY <1>9 DEF PhotoCount
  <2>2. job[Agent].dir # i BY <1>9, <1>b DEF PhotoCount, At, Photos
  <2>3. files' = [files EXCEPT ![job[Agent].dir] =
                   IF job[Agent].dir \in dirs THEN @ \cup {"frames"} ELSE @]
    BY <1>9 DEF PhotoCount
  <2>4. files'[i] = files[i] BY <1>0, <2>2, <2>3
  <2> QED BY <2>1, <2>4 DEF Kept
<1>5. CASE StartState \/ StartReady \/ PhotoActivated
  <2>1. job[Agent].dir # i
    <3>1. CASE StartState BY <3>1 DEF StartState, At, CInv, Form, Made
    <3>2. CASE StartReady BY <3>2 DEF StartReady, At, CInv, IInv, Starting, Starts
    <3>3. CASE PhotoActivated BY <1>b, <3>3 DEF PhotoActivated, At, Photos
    <3> QED BY <1>5, <3>1, <3>2, <3>3
  <2>2. UNCHANGED <<dirs, files>> BY <1>5 DEF StartState, StartReady, PhotoActivated
  <2>3. \E s : state' = [state EXCEPT ![job[Agent].dir] = s]
    <3>1. CASE StartState BY <3>1 DEF StartState, EmptyState
    <3>2. CASE StartReady BY <3>2 DEF StartReady, WriteState
    <3>3. CASE PhotoActivated BY <3>3 DEF PhotoActivated, WriteState
    <3> QED BY <1>5, <3>1, <3>2, <3>3
  <2> QED BY <1>0, <2>1, <2>2, <2>3 DEF Kept
<1>6. ASSUME NEW w \in Workers, Job(w) PROVE Kept(i)
  <2>1. i \notin asked BY <1>6, JobNow DEF JobUnchanged
  <2> QED BY <1>6, <2>1, JobKeepsFinished
<1>7. CASE StopTimelapse \/ (\E k \in Ids : AskDelete(k)) \/ StartLink \/ SweepStep \/ Kill \/ Boot
  BY <1>1, <1>7 DEF StopTimelapse, AskDelete, StartLink, SweepStep, SweepIndex, SweepCurrent,
     SweepList, SweepOver, SweepVisit, Kill, Boot, store
<1>8. CASE UNCHANGED vars BY <1>1, <1>8 DEF vars, store
<1> QED BY <1>2, <1>3, <1>4, <1>5, <1>6, <1>7, <1>8, <1>9 DEF Next, Request, Step, AgentStep

\* Every variable keeps its type.
THEOREM TypesHold == ASSUME ~Early PROVE Spec => []TypeOK
<1>1. Init => CInv BY CInvInit
<1>2. CInv /\ [Next]_vars => CInv' BY CInvNext
<1>3. CInv => TypeOK BY CInvShows
<1> QED BY <1>1, <1>2, <1>3, PTL DEF Spec

\* What the index lists and nobody asked to delete is there and generated.
THEOREM CatalogueIsTrue == ASSUME ~Early PROVE Spec => []CatalogueTrue
<1>1. Init => CInv BY CInvInit
<1>2. CInv /\ [Next]_vars => CInv' BY CInvNext
<1>3. CInv => CatalogueTrue BY CInvShows
<1> QED BY <1>1, <1>2, <1>3, PTL DEF Spec

\* When the sweep is over and every thread is done, no directory is left that
\* is neither active nor a finished timelapse in the index, except one whose
\* state file a kill has left empty; while no write of the index was lost.
THEOREM NobodyIsStranded == ASSUME ~Early PROVE Spec => []NothingStranded
<1>1. Init => CInv BY CInvInit
<1>2. CInv /\ [Next]_vars => CInv' BY CInvNext
<1>3. CInv => NothingStranded BY CInvShows
<1> QED BY <1>1, <1>2, <1>3, PTL DEF Spec

\* While no write of the index was cut by a kill or lost to another one, no
\* deletion, generation, kill or sweep touches a finished timelapse that nobody
\* asked to delete.
THEOREM FinishedIsKept == ASSUME ~Early PROVE Spec => FinishedKept
<1> DEFINE step == \A i \in dirs : (state[i] = "FINISHED" /\ i \notin asked' /\ ~hurt') => Kept(i)
<1>1. Init => CInv BY CInvInit
<1>2. CInv /\ [Next]_vars => CInv' BY CInvNext
<1>3. CInv /\ [Next]_vars => [step]_vars BY FinishedStays
<1>4. Spec => [][step]_vars BY <1>1, <1>2, <1>3, PTL DEF Spec
<1> QED BY <1>4, PTL DEF FinishedKept, Kept
================================================================================
