-------------------------------- MODULE Watch --------------------------------
(***************************************************************************)
(* The --watch loop (watch.rs): an initial pass, the registration of the   *)
(* OS watches, then one iteration per debounced batch of events, which is  *)
(* ignored, reloads the configuration, or runs a pass of the session with  *)
(* or without a hint of what changed.                                      *)
(*                                                                         *)
(* A session reports what the batch engine would report on the texts it    *)
(* last read (module Session), so it is abstracted here to those texts:    *)
(* what is on the screen is stale when one of them is.  Editors, the       *)
(* notify debouncer and the loop run concurrently, and a pass reads files  *)
(* one at a time.                                                          *)
(***************************************************************************)
EXTENDS Naturals, Sequences

CONSTANTS
    File,           \* project files
    Stub,           \* stub files and facade alias sources
    ConfigFile,
    BaselineFile,
    Elsewhere,      \* any path that matters to nobody: a directory, a temp file
    Text,           \* file contents
    Empty,          \* the text of an unreadable file
    Setting,        \* effective configurations (overrides and baseline merged)
    None            \* "not there"

CONSTANTS
    Texts,          \* Texts[p]: the texts path p may be given
    Loads,          \* Loads[c][b]: the setting config c and baseline b give
    HasBaseline,    \* the settings that name the baseline file
    Selected,       \* Selected[s]: the files the discovery of s takes, if there
    Matched,        \* Matched[s]: the paths with an analyzed extension that are
                    \* not excluded
    Aux,            \* Aux[s]: the stubs and alias sources s reads
    Watched         \* the paths under the directories registered at startup

CONSTANTS
    ReadsReported,  \* whether the platform reports reads (inotify does)
    EditsWhenUnwatched, \* whether files are edited before the registration
    MaxEdits,       \* bound: edits and watcher errors of a behavior
    MaxQueue        \* bound: undelivered batches

Path == File \cup Stub \cup {ConfigFile, BaselineFile}

Event == [path : Path \cup {Elsewhere},
          kind : {"modify", "structure", "access", "error"}]

ASSUME WatchAssumption ==
    /\ Empty \in Text
    /\ None \notin Text \cup Setting
    /\ Elsewhere \notin Path
    /\ File \cap Stub = {}
    /\ {ConfigFile, BaselineFile} \cap (File \cup Stub) = {}
    /\ ConfigFile # BaselineFile
    /\ Texts \in [Path -> SUBSET Text]
    /\ Loads \in [Text \cup {None} -> [Text \cup {None} -> Setting \cup {None}]]
    /\ HasBaseline \subseteq Setting
    /\ Selected \in [Setting -> SUBSET File]
    /\ Matched \in [Setting -> SUBSET Path]
    /\ Aux \in [Setting -> SUBSET Stub]
    /\ Watched \subseteq Path
    /\ ReadsReported \in BOOLEAN
    /\ EditsWhenUnwatched \in BOOLEAN
    /\ MaxEdits \in Nat /\ MaxQueue \in Nat

VARIABLES
    disk,       \* the text of every path, or None
    pending,    \* events the debouncer holds back
    queue,      \* the channel: batches of events, or error batches
    watching,   \* whether the OS watches are registered
    conf,       \* the configuration in effect
    draft,      \* the config text a reload has read
    known,      \* the texts the session last read, None for a file not in it
    pc,         \* where the loop is
    look,       \* paths the diff of the pass has still to look at
    todo,       \* paths the pass has still to read
    edits       \* edits and watcher errors so far

loop == <<watching, conf, draft, known, pc, look, todo>>
vars == <<disk, pending, queue, loop, edits>>

\* What the channel carries when the watcher reports an error.
ErrorBatch == {[path |-> Elsewhere, kind |-> "error"]}

Init ==
    /\ disk \in [Path -> Text \cup {None}]
    /\ \A p \in Path : disk[p] \in Texts[p] \cup {None}
    /\ conf = Loads[disk[ConfigFile]][disk[BaselineFile]]
    /\ conf # None
    /\ pending = {}
    /\ queue = <<>>
    /\ watching = FALSE
    /\ draft = None
    /\ known = [p \in Path |-> None]
    /\ pc = "start"
    /\ look = {}
    /\ todo = {}
    /\ edits = 0

-----------------------------------------------------------------------------
\* What the OS tells the debouncer of something that happened to path p,
\* reported as path q.
Notify(p, q, kind) ==
    IF watching /\ p \in Watched /\ (kind = "access" => ReadsReported)
    THEN pending \cup {[path |-> q, kind |-> kind]}
    ELSE pending

\* Somebody saves a file (in place, or by renaming a new one over it), creates
\* or removes it.  A directory that is moved is reported by its own path only.
Edit(p) ==
    /\ edits < MaxEdits
    /\ watching \/ EditsWhenUnwatched
    /\ \E t \in (Texts[p] \cup {None}) \ {disk[p]} :
         /\ disk' = [disk EXCEPT ![p] = t]
         /\ \/ /\ t # None /\ disk[p] # None
               /\ pending' = Notify(p, p, "modify")
            \/ pending' = Notify(p, p, "structure")
            \/ /\ p \in File
               /\ t = None \/ disk[p] = None
               /\ pending' = Notify(p, Elsewhere, "structure")
    /\ edits' = edits + 1
    /\ UNCHANGED <<queue, loop>>

\* The debouncer delivers the events that have been quiet for the delay.
Debounce ==
    /\ Len(queue) < MaxQueue
    /\ \E batch \in SUBSET pending :
         /\ batch # {}
         /\ pending' = pending \ batch
         /\ queue' = Append(queue, batch)
    /\ UNCHANGED <<disk, loop, edits>>

\* The debouncer reports that something went wrong.
WatchError ==
    /\ watching
    /\ edits < MaxEdits
    /\ Len(queue) < MaxQueue
    /\ queue' = Append(queue, ErrorBatch)
    /\ edits' = edits + 1
    /\ UNCHANGED <<disk, pending, loop>>

-----------------------------------------------------------------------------
\* A pass that walks the tree; whatever it does, it reads the stubs again.
BeginWalk(s) ==
    /\ pc' = "walk"
    /\ look' = File
    /\ todo' = Aux[s]

\* A pass told which paths changed.
BeginHinted(hint) ==
    /\ pc' = "probe"
    /\ look' = hint
    /\ todo' = Aux[conf]

\* The pass before anything is watched.
InitialPass ==
    /\ pc = "start"
    /\ BeginWalk(conf)
    /\ UNCHANGED <<disk, pending, queue, watching, conf, draft, known, edits>>

\* The watches are registered once that pass is on the screen.
Register ==
    /\ pc = "register"
    /\ watching' = TRUE
    /\ pc' = "wait"
    /\ UNCHANGED <<disk, pending, queue, conf, draft, known, look, todo, edits>>

-----------------------------------------------------------------------------
\* Faulty: reading a file counts as a change of it.
TellsAll(batch) == {e \in batch : e.kind # "error"}

\* The events of a batch that tell of a change.
Tells(batch) == {e \in batch : e.kind \in {"modify", "structure"}}

\* Faulty: a regenerated baseline is not noticed.
FeedsReloadConfigOnly(p) == p = ConfigFile

\* The paths that feed reload().
FeedsReload(p) == p = ConfigFile \/ (p = BaselineFile /\ conf \in HasBaseline)

\* is_relevant
Relevant(p) ==
    \/ p = ConfigFile
    \/ p = BaselineFile /\ conf \in HasBaseline
    \/ p \in Aux[conf]
    \/ p \in Matched[conf]

ConfigChanged(batch) == \E e \in Tells(batch) : FeedsReload(e.path)

Changed(batch) ==
    {p \in {e.path : e \in Tells(batch)} : Relevant(p) /\ ~FeedsReload(p)}

\* Faulty: a batch that names no relevant path says nothing.
StructuralIgnored(batch) ==
    Changed(batch) # {} /\ \E e \in Tells(batch) : e.kind = "structure"

\* Files may have appeared or disappeared.
Structural(batch) == \E e \in Tells(batch) : e.kind = "structure"

\* One iteration of the loop: ignore the batch, reload the configuration, or
\* start a pass.  The session walks the tree when the file set may have moved.
Receive ==
    /\ pc = "wait"
    /\ queue # <<>>
    /\ queue' = Tail(queue)
    /\ LET batch == Head(queue)
       IN \/ /\ ConfigChanged(batch)
             /\ pc' = "reload"
             /\ UNCHANGED <<look, todo>>
          \/ /\ ~ConfigChanged(batch)
             /\ Structural(batch)
             /\ BeginWalk(conf)
          \/ /\ ~ConfigChanged(batch) /\ ~Structural(batch)
             /\ Changed(batch) # {}
             /\ BeginHinted(Changed(batch))
          \/ /\ ~ConfigChanged(batch) /\ ~Structural(batch)
             /\ Changed(batch) = {}
             /\ UNCHANGED <<pc, look, todo>>
    /\ UNCHANGED <<disk, pending, watching, conf, draft, known, edits>>

\* When the config or its baseline does not load, the configuration in effect
\* stays as it was.
Effective(s) == IF s = None THEN conf ELSE s

\* reload() reads the config, then the baseline; a walk follows either way.
ReloadConfig ==
    /\ pc = "reload"
    /\ draft' = disk[ConfigFile]
    /\ pending' = Notify(ConfigFile, ConfigFile, "access")
    /\ pc' = "merge"
    /\ UNCHANGED <<disk, queue, watching, conf, known, look, todo, edits>>

MergeBaseline ==
    /\ pc = "merge"
    /\ conf' = Effective(Loads[draft][disk[BaselineFile]])
    /\ BeginWalk(conf')
    /\ draft' = None
    /\ pending' = Notify(BaselineFile, BaselineFile, "access")
    /\ UNCHANGED <<disk, queue, watching, known, edits>>

-----------------------------------------------------------------------------
\* Faulty: an unreadable file stays out.
ReadIfThere(p) == disk[p]

\* read_source_lossy
ReadSource(p) == IF disk[p] = None THEN Empty ELSE disk[p]

\* diff_hinted looks at a reported path; one the session does not know, or
\* cannot read, makes the pass walk the tree after all.
Probe(p) ==
    /\ pc = "probe"
    /\ p \in look
    /\ IF p \notin File \/ known[p] = None \/ disk[p] = None
       THEN BeginWalk(conf)
       ELSE /\ look' = look \ {p}
            /\ todo' = IF disk[p] = known[p] THEN todo ELSE todo \cup {p}
            /\ UNCHANGED pc
    /\ pending' = Notify(p, p, "access")
    /\ UNCHANGED <<disk, queue, watching, conf, draft, known, edits>>

\* diff_full comes to a path: it is discovered, or dropped from the session.
Visit(p) ==
    /\ pc = "walk"
    /\ p \in look
    /\ look' = look \ {p}
    /\ IF p \in Selected[conf] /\ disk[p] # None
       THEN todo' = todo \cup {p} /\ UNCHANGED known
       ELSE known' = [known EXCEPT ![p] = None] /\ UNCHANGED todo
    /\ UNCHANGED <<disk, pending, queue, watching, conf, draft, pc, edits>>

\* The pass reads a file (to compare it, and again if it changed: only the
\* last read counts) or a stub.
Read(p) ==
    /\ pc \in {"probe", "walk"}
    /\ look = {}
    /\ p \in todo
    /\ todo' = todo \ {p}
    /\ known' = [known EXCEPT ![p] = ReadSource(p)]
    /\ pending' = Notify(p, p, "access")
    /\ UNCHANGED <<disk, queue, watching, conf, draft, pc, look, edits>>

\* The report of the pass is rendered.
Render ==
    /\ pc \in {"probe", "walk"}
    /\ look = {}
    /\ todo = {}
    /\ pc' = IF watching THEN "wait" ELSE "register"
    /\ UNCHANGED <<disk, pending, queue, watching, conf, draft, known, look, todo,
                   edits>>

\* The steps of the thread that runs run_watch.
Loop ==
    \/ InitialPass \/ Register \/ Receive \/ ReloadConfig \/ MergeBaseline
    \/ \E p \in Path : Probe(p) \/ Visit(p) \/ Read(p)
    \/ Render

Next == (\E p \in Path : Edit(p)) \/ Debounce \/ WatchError \/ Loop

\* The debouncer's thread and the loop keep running; nobody has to edit.
Spec == Init /\ [][Next]_vars /\ WF_vars(Debounce) /\ WF_vars(Loop)
-----------------------------------------------------------------------------
\* Every variable keeps its type; a stub that is configured always has a text.
TypeOK ==
    /\ disk \in [Path -> Text \cup {None}]
    /\ pending \subseteq Event
    /\ queue \in Seq(SUBSET Event)
    /\ Len(queue) <= MaxQueue
    /\ watching \in BOOLEAN
    /\ conf \in Setting
    /\ draft \in Text \cup {None}
    /\ known \in [Path -> Text \cup {None}]
    /\ pc \in {"register", "wait"} => \A p \in Aux[conf] : known[p] \in Text
    /\ pc \in {"start", "register", "wait", "reload", "merge", "probe", "walk"}
    /\ look \subseteq Path
    /\ todo \subseteq File \cup Stub
    /\ edits \in 0..MaxEdits

\* What a fresh pass under the configuration in effect would read of p.
Current(p) ==
    IF p \in File
    THEN IF p \in Selected[conf] THEN disk[p] ELSE None
    ELSE ReadSource(p)

Stale(p) ==
    /\ p \in (File \cup Aux[conf]) \cap Watched
    /\ known[p] # Current(p)

\* The events not yet handled that tell of a change.
Undelivered == pending \cup UNION {queue[i] : i \in DOMAIN queue}

\* Waiting for a batch, the loop shows something stale only if an event it has
\* yet to receive will make it look again: a hint never makes a pass skip, and
\* no filter ever drops, a change that nothing else tells of.
NoChangeForgotten ==
    pc = "wait" => \A p \in Path : Stale(p) =>
        \E e \in Tells(Undelivered) : e.path = p \/ e.kind = "structure"

\* Likewise of the configuration: whenever the files on the disk load, they are
\* the ones in effect, or an event that makes the loop reload them is coming.
\* "it is called whenever the config file changes so edits [...] take effect
\* without a restart".
NoReloadForgotten ==
    pc = "wait" /\ {ConfigFile, BaselineFile} \subseteq Watched
        => \/ Loads[disk[ConfigFile]][disk[BaselineFile]] \in {conf, None}
           \/ \E e \in Tells(Undelivered) : e.path \in {ConfigFile, BaselineFile}

\* Once the edits stop, so do the passes: the events caused by the loop's own
\* reads do not keep it busy.
Settles == <>[](pc = "wait" /\ queue = <<>> /\ pending = {})
=============================================================================
