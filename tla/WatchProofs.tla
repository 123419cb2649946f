----------------------------- MODULE WatchProofs -----------------------------
(***************************************************************************)
(* Proofs about the watch loop: in the scope of WatchScope it forgets no   *)
(* change of a file or of the configuration, for any project, any number   *)
(* of edits and any order of events, deliveries and reads.                 *)
(***************************************************************************)
EXTENDS WatchScope, TLAPS

\* An event on its way will make the loop look at p again.
Signal(p) == \E e \in Tells(Undelivered) : e.path = p \/ e.kind = "structure"

\* An event on its way will make it reload the configuration.
ReloadSignal ==
    \E e \in Tells(Undelivered) :
        e.path = ConfigFile \/ (e.path = BaselineFile /\ HasBaseline = Setting)

Between == {"start", "register", "wait", "reload", "merge"}
Showing == {"walk", "probe", "register", "wait"}

\* A pass has paths to look at only while it runs, and reads only what the
\* configuration selects; the watches are registered once the first pass ends.
Phase ==
    /\ pc \in Between => look = {} /\ todo = {}
    /\ pc = "walk" => look \subseteq File
    /\ todo \cap File \subseteq Selected[conf]
    /\ pc \in {"start", "register"} => ~watching
    /\ ~watching => pc \in {"start", "walk", "register"}

\* The session holds only files that are selected, or that the walk has yet to
\* come to.
HoldsSelected ==
    pc \notin {"reload", "merge"} =>
        \A p \in File : known[p] # None =>
            p \in Selected[conf] \/ (pc = "walk" /\ p \in look)

StubsRead ==
    pc \in Showing => \A p \in Aux[conf] : p \in todo \/ known[p] \in Text

\* A file that is gone since the pass found it is one that an event tells of.
GoneIsTold ==
    \A p \in todo \cap File \cap Watched : disk[p] = None => Signal(p)

\* What is stale is still to be looked at, or told of by an event.
StaleIsTold ==
    pc \in Showing => \A p \in Path : Stale(p) => p \in look \cup todo \/ Signal(p)

\* The same of the configuration: a reload under way has the text that is on
\* the disk, or an event tells that it has not.
ReloadIsTold ==
    {ConfigFile, BaselineFile} \subseteq Watched =>
        /\ pc \notin {"reload", "merge"} =>
              \/ Loads[disk[ConfigFile]][disk[BaselineFile]] \in {conf, None}
              \/ ReloadSignal
        /\ pc = "merge" => draft = disk[ConfigFile] \/ ReloadSignal

Types ==
    /\ disk \in [Path -> Text \cup {None}]
    /\ pending \subseteq Event
    /\ queue \in Seq(SUBSET Event)
    /\ Len(queue) <= MaxQueue
    /\ watching \in BOOLEAN
    /\ conf \in Setting
    /\ draft \in Text \cup {None}
    /\ known \in [Path -> Text \cup {None}]
    /\ pc \in Between \cup Showing
    /\ look \subseteq Path
    /\ todo \subseteq File \cup Stub
    /\ edits \in 0..MaxEdits

LoopInv ==
    /\ Types /\ Phase /\ HoldsSelected /\ StubsRead
    /\ GoneIsTold /\ StaleIsTold /\ ReloadIsTold

-----------------------------------------------------------------------------
\* Events.
LEMMA SignalsStay ==
    ASSUME Undelivered \subseteq Undelivered'
    PROVE  /\ \A p : Signal(p) => Signal(p)'
           /\ ReloadSignal => ReloadSignal'
BY DEF Signal, ReloadSignal, Tells

LEMMA QueueStays ==
    ASSUME pending \subseteq pending', UNCHANGED queue
    PROVE  Undelivered \subseteq Undelivered'
BY DEF Undelivered

LEMMA NotifyAdds ==
    ASSUME NEW p \in Path, NEW q \in Path \cup {Elsewhere},
           NEW kind \in {"modify", "structure", "access"}, pending \subseteq Event
    PROVE  /\ pending \subseteq Notify(p, q, kind)
           /\ Notify(p, q, kind) \subseteq Event
           /\ watching /\ p \in Watched /\ kind # "access"
                => [path |-> q, kind |-> kind] \in Notify(p, q, kind)
BY DEF Notify, Event

LEMMA DebounceKeeps ==
    ASSUME Types, Debounce
    PROVE  Undelivered' = Undelivered
<1>1. PICK batch \in SUBSET pending :
        pending' = pending \ batch /\ queue' = Append(queue, batch)
  BY DEF Debounce
<1>2. /\ DOMAIN queue' = DOMAIN queue \cup {Len(queue) + 1}
      /\ \A i \in DOMAIN queue : queue'[i] = queue[i]
      /\ queue'[Len(queue) + 1] = batch
  BY <1>1 DEF Types
<1>3. UNION {queue'[i] : i \in DOMAIN queue'} = batch \cup UNION {queue[i] : i \in DOMAIN queue}
  BY <1>2, Zenon
<1> QED  BY <1>1, <1>3 DEF Undelivered

LEMMA ErrorKeeps ==
    ASSUME Types, WatchError
    PROVE  Undelivered \subseteq Undelivered'
<1>1. queue' = Append(queue, ErrorBatch) /\ pending' = pending
  BY DEF WatchError
<1>2. DOMAIN queue \subseteq DOMAIN queue' /\ \A i \in DOMAIN queue : queue'[i] = queue[i]
  BY <1>1 DEF Types
<1>3. UNION {queue[i] : i \in DOMAIN queue} \subseteq UNION {queue'[i] : i \in DOMAIN queue'}
  BY <1>2, Zenon
<1> QED  BY <1>1, <1>3 DEF Undelivered

\* Receiving a batch takes only its events out of what is on its way.
LEMMA ReceiveTakes ==
    ASSUME Types, queue # <<>>, queue' = Tail(queue), pending' = pending
    PROVE  Undelivered \subseteq Undelivered' \cup Head(queue)
<1>1. ASSUME NEW i \in DOMAIN queue
      PROVE  queue[i] = Head(queue) \/ \E j \in DOMAIN queue' : queue'[j] = queue[i]
  <2>1. CASE i = 1
    BY <2>1 DEF Types
  <2>2. CASE i # 1
    <3>1. i - 1 \in DOMAIN queue' /\ queue'[i - 1] = queue[i]
      BY <2>2 DEF Types
    <3> QED  BY <3>1
  <2> QED  BY <2>1, <2>2
<1> QED  BY <1>1 DEF Undelivered

-----------------------------------------------------------------------------
LEMMA InitInv == Init => LoopInv
<1> SUFFICES ASSUME Init PROVE LoopInv
  OBVIOUS
<1>1. conf \in Setting
  <2>1. disk[ConfigFile] \in Text \cup {None} /\ disk[BaselineFile] \in Text \cup {None}
    BY DEF Init, Path
  <2>2. conf = Loads[disk[ConfigFile]][disk[BaselineFile]] /\ conf # None
    BY DEF Init
  <2> QED  BY <2>1, <2>2, WatchAssumption
<1>2. Types
  <2>1. queue \in Seq(SUBSET Event) /\ Len(queue) <= MaxQueue /\ edits \in 0..MaxEdits
    BY WatchAssumption DEF Init
  <2> QED  BY <1>1, <2>1 DEF Init, Types, Between
<1>3. Phase /\ HoldsSelected /\ StubsRead /\ GoneIsTold
  BY DEF Init, Phase, HoldsSelected, StubsRead, GoneIsTold, Showing, Path
<1>4. StaleIsTold /\ ReloadIsTold
  BY DEF Init, StaleIsTold, ReloadIsTold, Showing
<1> QED  BY <1>2, <1>3, <1>4 DEF LoopInv

\* A step of the OS or of the debouncer that loses no event and changes no file
\* leaves everything told.
LEMMA EventsOnly ==
    ASSUME LoopInv, UNCHANGED <<disk, loop>>, Undelivered \subseteq Undelivered',
           Types'
    PROVE  LoopInv'
<1> USE DEF loop
<1>1. (\A p : Signal(p) => Signal(p)') /\ (ReloadSignal => ReloadSignal')
  BY SignalsStay
<1>2. Phase' /\ HoldsSelected' /\ StubsRead'
  BY DEF LoopInv, Phase, HoldsSelected, StubsRead
<1>3. GoneIsTold'
  BY <1>1 DEF LoopInv, GoneIsTold
<1>4. StaleIsTold'
  BY <1>1 DEF LoopInv, StaleIsTold, Stale, Current, ReadSource
<1>5. ReloadIsTold'
  BY <1>1 DEF LoopInv, ReloadIsTold
<1> QED  BY <1>2, <1>3, <1>4, <1>5 DEF LoopInv

LEMMA DebounceStep ==
    ASSUME LoopInv, Debounce
    PROVE  LoopInv'
<1>1. PICK batch \in SUBSET pending :
        pending' = pending \ batch /\ queue' = Append(queue, batch)
  BY DEF Debounce
<1>2. Len(queue) < MaxQueue /\ UNCHANGED <<disk, loop, edits>>
  BY DEF Debounce
<1>3. Types'
  <2>1. queue' \in Seq(SUBSET Event) /\ Len(queue') <= MaxQueue
    BY <1>1, <1>2, WatchAssumption DEF LoopInv, Types
  <2> QED  BY <1>1, <1>2, <2>1 DEF LoopInv, Types, loop
<1>4. Undelivered \subseteq Undelivered'
  BY DebounceKeeps DEF LoopInv
<1> QED  BY <1>2, <1>3, <1>4, EventsOnly

LEMMA WatchErrorStep ==
    ASSUME LoopInv, WatchError
    PROVE  LoopInv'
<1>1. /\ edits < MaxEdits /\ Len(queue) < MaxQueue
      /\ queue' = Append(queue, ErrorBatch) /\ edits' = edits + 1
      /\ UNCHANGED <<disk, pending, loop>>
  BY DEF WatchError
<1>2. Types'
  <2>1. ErrorBatch \in SUBSET Event
    BY DEF ErrorBatch, Event
  <2>2. queue' \in Seq(SUBSET Event) /\ Len(queue') <= MaxQueue /\ edits' \in 0..MaxEdits
    BY <1>1, <2>1, WatchAssumption DEF LoopInv, Types
  <2> QED  BY <1>1, <2>2 DEF LoopInv, Types, loop
<1>3. Undelivered \subseteq Undelivered'
  BY ErrorKeeps DEF LoopInv
<1> QED  BY <1>1, <1>2, <1>3, EventsOnly

LEMMA StutterStep ==
    ASSUME LoopInv, UNCHANGED vars
    PROVE  LoopInv'
<1>1. UNCHANGED <<disk, loop, pending, queue, edits>>
  BY DEF vars
<1>2. Types'
  BY <1>1 DEF LoopInv, Types, loop
<1>3. Undelivered \subseteq Undelivered'
  BY <1>1 DEF Undelivered
<1> QED  BY <1>1, <1>2, <1>3, EventsOnly

\* An edit is told of, because nobody edits before the watches are registered.
LEMMA EditStep ==
    ASSUME LoopInv, NEW p \in Path, Edit(p)
    PROVE  LoopInv'
<1> USE DEF loop
<1>1. /\ watching /\ edits < MaxEdits /\ edits' = edits + 1
      /\ UNCHANGED <<queue, loop>>
  BY QuietStart DEF Edit
<1>2. PICK t \in Text \cup {None} :
        /\ disk' = [disk EXCEPT ![p] = t]
        /\ \/ pending' = Notify(p, p, "modify")
           \/ pending' = Notify(p, p, "structure")
           \/ p \in File /\ pending' = Notify(p, Elsewhere, "structure")
  BY WatchAssumption DEF Edit
<1>3. /\ pending \subseteq pending' /\ pending' \subseteq Event
      /\ p \in Watched =>
           \/ \E e \in Tells(pending') : e.path = p
           \/ p \in File /\ \E e \in Tells(pending') : e.kind = "structure"
  <2>1. pending \subseteq Event
    BY DEF LoopInv, Types
  <2>2. ASSUME NEW q \in Path \cup {Elsewhere}, NEW kind \in {"modify", "structure"},
               pending' = Notify(p, q, kind)
        PROVE  /\ pending \subseteq pending' /\ pending' \subseteq Event
               /\ p \in Watched => \E e \in Tells(pending') : e.path = q /\ e.kind = kind
    <3>1. /\ pending \subseteq pending' /\ pending' \subseteq Event
          /\ p \in Watched => [path |-> q, kind |-> kind] \in pending'
      BY <1>1, <2>1, <2>2, NotifyAdds
    <3> QED  BY <3>1 DEF Tells
  <2>3. CASE pending' = Notify(p, p, "modify") \/ pending' = Notify(p, p, "structure")
    BY <2>2, <2>3
  <2>4. CASE p \in File /\ pending' = Notify(p, Elsewhere, "structure")
    BY <2>2, <2>4
  <2> QED  BY <1>2, <2>3, <2>4
<1>4. Undelivered \subseteq Undelivered' /\ pending' \subseteq Undelivered'
  BY <1>1, <1>3 DEF Undelivered
<1>5. /\ \A q : Signal(q) => Signal(q)'
      /\ ReloadSignal => ReloadSignal'
      /\ p \in Watched => Signal(p)'
  BY <1>3, <1>4, SignalsStay DEF Signal, Tells
<1>6. /\ disk' \in [Path -> Text \cup {None}]
      /\ \A q \in Path \ {p} : disk'[q] = disk[q]
  BY <1>2 DEF LoopInv, Types
<1>7. Types'
  <2>1. edits' \in 0..MaxEdits
    BY <1>1, WatchAssumption DEF LoopInv, Types
  <2> QED  BY <1>1, <1>3, <1>6, <2>1 DEF LoopInv, Types
<1>8. Phase' /\ HoldsSelected' /\ StubsRead'
  BY <1>1 DEF LoopInv, Phase, HoldsSelected, StubsRead
<1>9. GoneIsTold'
  BY <1>1, <1>5, <1>6 DEF LoopInv, GoneIsTold, Path
<1>10. StaleIsTold'
  <2> SUFFICES ASSUME pc \in Showing, NEW q \in Path, Stale(q)'
               PROVE  q \in look \cup todo \/ Signal(q)'
    BY <1>1 DEF StaleIsTold
  <2>1. CASE q = p
    BY <1>1, <1>5, <2>1 DEF Stale
  <2>2. CASE q # p
    <3>1. Stale(q)
      BY <1>1, <1>6, <2>2 DEF Stale, Current, ReadSource
    <3> QED  BY <1>5, <3>1 DEF LoopInv, StaleIsTold
  <2> QED  BY <2>1, <2>2
<1>11. ReloadIsTold'
  <2> SUFFICES ASSUME {ConfigFile, BaselineFile} \subseteq Watched
               PROVE  ReloadIsTold'
    BY DEF ReloadIsTold
  <2>1. CASE p = ConfigFile
    <3>1. p \notin File
      BY <2>1, WatchAssumption
    <3>2. ReloadSignal'
      BY <1>3, <1>4, <2>1, <3>1 DEF ReloadSignal, Tells
    <3> QED  BY <3>2 DEF ReloadIsTold
  <2>2. CASE p = BaselineFile /\ HasBaseline = Setting
    <3>1. p \notin File
      BY <2>2, WatchAssumption
    <3>2. ReloadSignal'
      BY <1>3, <1>4, <2>2, <3>1 DEF ReloadSignal, Tells
    <3> QED  BY <3>2 DEF ReloadIsTold
  <2>3. CASE p # ConfigFile /\ ~(p = BaselineFile /\ HasBaseline = Setting)
    <3>1. disk'[ConfigFile] = disk[ConfigFile]
      BY <1>6, <2>3 DEF Path
    <3>2. Loads[disk'[ConfigFile]][disk'[BaselineFile]]
            = Loads[disk[ConfigFile]][disk[BaselineFile]]
      BY <1>6, <2>3, <3>1, BaselineIsNamed DEF LoopInv, Types, Path
    <3> QED  BY <1>1, <1>5, <3>1, <3>2 DEF LoopInv, ReloadIsTold
  <2> QED  BY <2>1, <2>2, <2>3
<1> QED  BY <1>7, <1>8, <1>9, <1>10, <1>11 DEF LoopInv

-----------------------------------------------------------------------------
\* A pass that begins with a walk looks at everything.
LEMMA WalkTells ==
    ASSUME Types', BeginWalk(conf'), ReloadIsTold'
    PROVE  LoopInv'
<1>1. pc' = "walk" /\ look' = File /\ todo' = Aux[conf']
  BY DEF BeginWalk
<1>2. conf' \in Setting /\ Aux[conf'] \subseteq Stub /\ File \cap Stub = {}
  BY WatchAssumption DEF Types
<1>3. Phase' /\ HoldsSelected'
  BY <1>1, <1>2 DEF Phase, HoldsSelected, Between
<1>4. StubsRead' /\ GoneIsTold'
  BY <1>1, <1>2 DEF StubsRead, GoneIsTold
<1>5. StaleIsTold'
  BY <1>1 DEF StaleIsTold, Stale
<1> QED  BY <1>3, <1>4, <1>5 DEF LoopInv

LEMMA WalkTyped ==
    ASSUME conf' \in Setting, BeginWalk(conf')
    PROVE  /\ pc' \in Between \cup Showing
           /\ look' \subseteq Path
           /\ todo' \subseteq File \cup Stub
BY WatchAssumption DEF BeginWalk, Path, Showing

\* Outside a reload, the configuration stays told of while its files stay.
LEMMA ReloadStaysTold ==
    ASSUME LoopInv, UNCHANGED <<disk, conf>>, Undelivered \subseteq Undelivered',
           pc \notin {"reload", "merge"}, pc' \notin {"reload", "merge"}
    PROVE  ReloadIsTold'
BY SignalsStay DEF LoopInv, ReloadIsTold

\* A read of a path, which the OS may report.
LEMMA ReadTells ==
    ASSUME Types, NEW p \in Path, pending' = Notify(p, p, "access"), UNCHANGED queue
    PROVE  /\ pending' \subseteq Event
           /\ Undelivered \subseteq Undelivered'
BY NotifyAdds, QueueStays DEF Types

LEMMA InitialPassStep ==
    ASSUME LoopInv, InitialPass
    PROVE  LoopInv'
<1>1. /\ pc = "start" /\ BeginWalk(conf)
      /\ UNCHANGED <<disk, pending, queue, watching, conf, draft, known, edits>>
  BY DEF InitialPass
<1>2. BeginWalk(conf') /\ conf' \in Setting
  BY <1>1 DEF LoopInv, Types, BeginWalk
<1>3. Types'
  BY <1>1, <1>2, WalkTyped DEF LoopInv, Types
<1>4. ReloadIsTold'
  <2>1. Undelivered \subseteq Undelivered'
    BY <1>1 DEF Undelivered
  <2> QED  BY <1>1, <2>1, ReloadStaysTold DEF BeginWalk
<1> QED  BY <1>2, <1>3, <1>4, WalkTells

LEMMA RegisterStep ==
    ASSUME LoopInv, Register
    PROVE  LoopInv'
<1>1. /\ pc = "register" /\ watching' = TRUE /\ pc' = "wait"
      /\ UNCHANGED <<disk, pending, queue, conf, draft, known, look, todo, edits>>
  BY DEF Register
<1>2. Undelivered \subseteq Undelivered'
  BY <1>1 DEF Undelivered
<1>3. Types'
  BY <1>1 DEF LoopInv, Types, Between
<1>4. Phase' /\ HoldsSelected' /\ StubsRead'
  BY <1>1 DEF LoopInv, Phase, HoldsSelected, StubsRead, Between, Showing
<1>5. GoneIsTold'
  BY <1>1 DEF LoopInv, Phase, GoneIsTold, Between
<1>6. StaleIsTold'
  BY <1>1, <1>2, SignalsStay
     DEF LoopInv, StaleIsTold, Stale, Current, ReadSource, Showing
<1>7. ReloadIsTold'
  BY <1>1, <1>2, ReloadStaysTold
<1> QED  BY <1>3, <1>4, <1>5, <1>6, <1>7 DEF LoopInv

LEMMA RenderStep ==
    ASSUME LoopInv, Render
    PROVE  LoopInv'
<1>1. /\ pc \in {"probe", "walk"} /\ look = {} /\ todo = {}
      /\ pc' = IF watching THEN "wait" ELSE "register"
      /\ UNCHANGED <<disk, pending, queue, watching, conf, draft, known, look, todo, edits>>
  BY DEF Render
<1>2. Undelivered \subseteq Undelivered'
  BY <1>1 DEF Undelivered
<1>3. Types'
  BY <1>1 DEF LoopInv, Types, Between
<1>4. Phase' /\ HoldsSelected' /\ StubsRead'
  BY <1>1 DEF LoopInv, Phase, HoldsSelected, StubsRead, Between, Showing
<1>5. GoneIsTold'
  BY <1>1 DEF GoneIsTold
<1>6. StaleIsTold'
  BY <1>1, <1>2, SignalsStay
     DEF LoopInv, StaleIsTold, Stale, Current, ReadSource, Showing
<1>7. ReloadIsTold'
  BY <1>1, <1>2, ReloadStaysTold
<1> QED  BY <1>3, <1>4, <1>5, <1>6, <1>7 DEF LoopInv

LEMMA ReloadConfigStep ==
    ASSUME LoopInv, ReloadConfig
    PROVE  LoopInv'
<1>1. /\ pc = "reload" /\ draft' = disk[ConfigFile] /\ pc' = "merge"
      /\ pending' = Notify(ConfigFile, ConfigFile, "access")
      /\ UNCHANGED <<disk, queue, watching, conf, known, look, todo, edits>>
  BY DEF ReloadConfig
<1>2. ConfigFile \in Path
  BY DEF Path
<1>3. pending' \subseteq Event /\ Undelivered \subseteq Undelivered'
  BY <1>1, <1>2, ReadTells DEF LoopInv
<1>4. Types'
  BY <1>1, <1>2, <1>3 DEF LoopInv, Types, Between
<1>5. Phase' /\ HoldsSelected' /\ StubsRead' /\ GoneIsTold' /\ StaleIsTold'
  BY <1>1 DEF LoopInv, Phase, HoldsSelected, StubsRead, GoneIsTold, StaleIsTold,
              Between, Showing
<1>6. ReloadIsTold'
  BY <1>1 DEF ReloadIsTold
<1> QED  BY <1>4, <1>5, <1>6 DEF LoopInv

LEMMA MergeBaselineStep ==
    ASSUME LoopInv, MergeBaseline
    PROVE  LoopInv'
<1>1. /\ pc = "merge" /\ conf' = Effective(Loads[draft][disk[BaselineFile]])
      /\ BeginWalk(conf') /\ draft' = None
      /\ pending' = Notify(BaselineFile, BaselineFile, "access")
      /\ UNCHANGED <<disk, queue, watching, known, edits>>
  BY DEF MergeBaseline
<1>2. BaselineFile \in Path
  BY DEF Path
<1>3. pending' \subseteq Event /\ Undelivered \subseteq Undelivered'
  BY <1>1, <1>2, ReadTells DEF LoopInv
<1>4. conf' \in Setting
  BY <1>1, <1>2, WatchAssumption DEF LoopInv, Types, Effective
<1>5. Types'
  BY <1>1, <1>3, <1>4, WalkTyped DEF LoopInv, Types
<1>6. ReloadIsTold'
  <2>1. draft = disk[ConfigFile]
          => Loads[disk'[ConfigFile]][disk'[BaselineFile]] \in {conf', None}
    BY <1>1 DEF Effective
  <2>2. ReloadSignal => ReloadSignal'
    BY <1>3, SignalsStay
  <2> QED  BY <1>1, <2>1, <2>2 DEF LoopInv, ReloadIsTold, BeginWalk
<1> QED  BY <1>1, <1>5, <1>6, WalkTells

\* What the loop receives and does not act on told it of nothing.
LEMMA ReceiveStep ==
    ASSUME LoopInv, Receive
    PROVE  LoopInv'
<1> DEFINE batch == Head(queue)
<1>1. /\ pc = "wait" /\ queue # <<>> /\ queue' = Tail(queue)
      /\ UNCHANGED <<disk, pending, watching, conf, draft, known, edits>>
  BY DEF Receive
<1>2. look = {} /\ todo = {}
  BY <1>1 DEF LoopInv, Phase, Between
<1>3. queue' \in Seq(SUBSET Event) /\ Len(queue') <= MaxQueue /\ batch \in SUBSET Event
  BY <1>1, WatchAssumption DEF LoopInv, Types
<1>4. Undelivered \subseteq Undelivered' \cup batch
  BY <1>1, ReceiveTakes DEF LoopInv
<1>5. conf \in Setting
  BY DEF LoopInv, Types
<1>6. ASSUME ConfigChanged(batch), pc' = "reload", UNCHANGED <<look, todo>>
      PROVE  LoopInv'
  <2>1. Types'
    BY <1>1, <1>3, <1>6 DEF LoopInv, Types, Between
  <2>2. Phase' /\ HoldsSelected' /\ StubsRead' /\ GoneIsTold' /\ StaleIsTold' /\ ReloadIsTold'
    BY <1>1, <1>2, <1>6 DEF LoopInv, Phase, HoldsSelected, StubsRead, GoneIsTold,
                            StaleIsTold, ReloadIsTold, Between, Showing
  <2> QED  BY <2>1, <2>2 DEF LoopInv
<1>7. ASSUME ~ConfigChanged(batch), pc' \notin {"reload", "merge"}
      PROVE  ReloadIsTold'
  <2>1. ReloadSignal => ReloadSignal'
    BY <1>4, <1>5, <1>7 DEF ReloadSignal, Tells, ConfigChanged, FeedsReload
  <2> QED  BY <1>1, <1>7, <2>1 DEF LoopInv, ReloadIsTold
<1>8. ASSUME ~ConfigChanged(batch), BeginWalk(conf)
      PROVE  LoopInv'
  <2>1. BeginWalk(conf')
    BY <1>1, <1>8 DEF BeginWalk
  <2>2. Types'
    BY <1>1, <1>3, <1>5, <2>1, WalkTyped DEF LoopInv, Types
  <2>3. ReloadIsTold'
    BY <1>7, <1>8 DEF BeginWalk
  <2> QED  BY <2>1, <2>2, <2>3, WalkTells
<1>9. ASSUME ~ConfigChanged(batch), ~Structural(batch), NEW p \in Path, Stale(p)
      PROVE  p \in Changed(batch) \/ Signal(p)'
  <2>1. Signal(p)
    BY <1>1, <1>2, <1>9 DEF LoopInv, StaleIsTold, Showing
  <2>2. CASE \E e \in Tells(batch) : e.path = p
    <3>1. ~FeedsReload(p)
      BY <1>9, <2>2 DEF ConfigChanged
    <3>2. CASE p \in File
      <4>1. p \in Selected[conf]
        BY <1>1, <1>9, <3>2 DEF LoopInv, HoldsSelected, Stale, Current
      <4>2. p \in Matched[conf]
        BY <1>5, <4>1, SelectedIsMatched
      <4> QED  BY <2>2, <3>1, <4>2 DEF Changed, Relevant
    <3>3. CASE p \in Aux[conf]
      BY <2>2, <3>1, <3>3 DEF Changed, Relevant
    <3> QED  BY <1>9, <3>2, <3>3 DEF Stale
  <2>3. CASE ~\E e \in Tells(batch) : e.path = p
    BY <1>4, <1>9, <2>1, <2>3 DEF Signal, Tells, Structural
  <2> QED  BY <2>2, <2>3
<1>10. \A p : Stale(p)' <=> Stale(p)
  BY <1>1 DEF Stale, Current, ReadSource
<1>11. ASSUME ~ConfigChanged(batch), ~Structural(batch), BeginHinted(Changed(batch))
       PROVE  LoopInv'
  <2>1. pc' = "probe" /\ look' = Changed(batch) /\ todo' = Aux[conf]
    BY <1>11 DEF BeginHinted
  <2>2. Changed(batch) \subseteq Path /\ Aux[conf] \subseteq Stub
    BY <1>5, WatchAssumption DEF Changed, Relevant, Path
  <2>3. Types'
    BY <1>1, <1>3, <2>1, <2>2 DEF LoopInv, Types, Showing
  <2>4. Phase' /\ HoldsSelected' /\ StubsRead' /\ GoneIsTold'
    BY <1>1, <2>1, <2>2, WatchAssumption
       DEF LoopInv, Phase, HoldsSelected, StubsRead, GoneIsTold, Between
  <2>5. StaleIsTold'
    BY <1>9, <1>10, <1>11, <2>1 DEF StaleIsTold
  <2>6. ReloadIsTold'
    BY <1>7, <1>11, <2>1
  <2> QED  BY <2>3, <2>4, <2>5, <2>6 DEF LoopInv
<1>12. ASSUME ~ConfigChanged(batch), ~Structural(batch), Changed(batch) = {},
              UNCHANGED <<pc, look, todo>>
       PROVE  LoopInv'
  <2>1. Types'
    BY <1>1, <1>3, <1>12 DEF LoopInv, Types
  <2>2. Phase' /\ HoldsSelected' /\ StubsRead' /\ GoneIsTold'
    BY <1>1, <1>2, <1>12 DEF LoopInv, Phase, HoldsSelected, StubsRead, GoneIsTold, Showing
  <2>3. StaleIsTold'
    BY <1>9, <1>10, <1>12 DEF StaleIsTold
  <2>4. ReloadIsTold'
    BY <1>1, <1>7, <1>12
  <2> QED  BY <2>1, <2>2, <2>3, <2>4 DEF LoopInv
<1> QED  BY <1>6, <1>8, <1>11, <1>12 DEF Receive

\* Where the session has the text that is on the disk, nothing is stale.
LEMMA ProbeStep ==
    ASSUME LoopInv, NEW p \in Path, Probe(p)
    PROVE  LoopInv'
<1>1. /\ pc = "probe" /\ p \in look /\ pending' = Notify(p, p, "access")
      /\ UNCHANGED <<disk, queue, watching, conf, draft, known, edits>>
  BY DEF Probe
<1>2. pending' \subseteq Event /\ Undelivered \subseteq Undelivered'
  BY <1>1, ReadTells DEF LoopInv
<1>3. \A q : Signal(q) => Signal(q)'
  BY <1>2, SignalsStay
<1>4. CASE p \notin File \/ known[p] = None \/ disk[p] = None
  <2>1. BeginWalk(conf') /\ conf' \in Setting
    BY <1>1, <1>4 DEF LoopInv, Types, Probe, BeginWalk
  <2>2. Types'
    BY <1>1, <1>2, <2>1, WalkTyped DEF LoopInv, Types
  <2>3. ReloadIsTold'
    BY <1>1, <1>2, <2>1, ReloadStaysTold DEF BeginWalk
  <2> QED  BY <2>1, <2>2, <2>3, WalkTells
<1>5. CASE p \in File /\ known[p] # None /\ disk[p] # None
  <2>1. /\ pc' = pc /\ look' = look \ {p}
        /\ todo' = IF disk[p] = known[p] THEN todo ELSE todo \cup {p}
    BY <1>5 DEF Probe
  <2>2. p \in Selected[conf]
    BY <1>1, <1>5 DEF LoopInv, HoldsSelected
  <2>3. Types'
    BY <1>1, <1>2, <1>5, <2>1 DEF LoopInv, Types
  <2>4. Phase' /\ HoldsSelected' /\ StubsRead'
    BY <1>1, <2>1, <2>2 DEF LoopInv, Phase, HoldsSelected, StubsRead, Between
  <2>5. GoneIsTold'
    BY <1>1, <1>3, <1>5, <2>1 DEF LoopInv, GoneIsTold
  <2>6. StaleIsTold'
    <3> SUFFICES ASSUME NEW q \in Path, Stale(q)
                 PROVE  q \in look' \cup todo' \/ Signal(q)'
      BY <1>1, <2>1 DEF StaleIsTold, Stale, Current, ReadSource
    <3>1. q \in look \cup todo \/ Signal(q)
      BY <1>1 DEF LoopInv, StaleIsTold, Showing
    <3>2. q = p => disk[p] # known[p]
      BY <1>5, <2>2 DEF Stale, Current
    <3> QED  BY <1>3, <2>1, <3>1, <3>2
  <2>7. ReloadIsTold'
    BY <1>1, <1>2, <2>1, ReloadStaysTold
  <2> QED  BY <2>3, <2>4, <2>5, <2>6, <2>7 DEF LoopInv
<1> QED  BY <1>4, <1>5

LEMMA VisitStep ==
    ASSUME LoopInv, NEW p \in Path, Visit(p)
    PROVE  LoopInv'
<1>1. /\ pc = "walk" /\ p \in look /\ look' = look \ {p}
      /\ UNCHANGED <<disk, pending, queue, watching, conf, draft, pc, edits>>
  BY DEF Visit
<1>2. p \in File /\ p \notin Stub
  BY <1>1, WatchAssumption DEF LoopInv, Phase
<1>3. Undelivered \subseteq Undelivered'
  BY <1>1 DEF Undelivered
<1>4. \A q : Signal(q) => Signal(q)'
  BY <1>3, SignalsStay
<1>5. ReloadIsTold'
  BY <1>1, <1>3, ReloadStaysTold
<1>6. CASE p \in Selected[conf] /\ disk[p] # None
  <2>1. todo' = todo \cup {p} /\ known' = known
    BY <1>6 DEF Visit
  <2>2. Types'
    BY <1>1, <1>2, <2>1 DEF LoopInv, Types
  <2>3. Phase' /\ HoldsSelected' /\ StubsRead'
    BY <1>1, <1>6, <2>1 DEF LoopInv, Phase, HoldsSelected, StubsRead, Between
  <2>4. GoneIsTold'
    BY <1>1, <1>4, <1>6, <2>1 DEF LoopInv, GoneIsTold
  <2>5. StaleIsTold'
    BY <1>1, <1>4, <2>1 DEF LoopInv, StaleIsTold, Stale, Current, ReadSource
  <2> QED  BY <1>5, <2>2, <2>3, <2>4, <2>5 DEF LoopInv
<1>7. CASE ~(p \in Selected[conf] /\ disk[p] # None)
  <2>1. todo' = todo /\ known' = [known EXCEPT ![p] = None]
    BY <1>7 DEF Visit
  <2>2. /\ known' \in [Path -> Text \cup {None}] /\ known'[p] = None
        /\ \A q \in Path \ {p} : known'[q] = known[q]
    BY <2>1 DEF LoopInv, Types
  <2>3. Types'
    BY <1>1, <2>1, <2>2 DEF LoopInv, Types
  <2>4. Phase'
    BY <1>1, <2>1 DEF LoopInv, Phase, Between
  <2>5. HoldsSelected'
    BY <1>1, <2>2 DEF LoopInv, HoldsSelected, Path
  <2>6. StubsRead'
    <3>1. \A q \in Aux[conf] : q \in Path /\ q # p
      BY <1>2, WatchAssumption DEF LoopInv, Types, Path
    <3> QED  BY <1>1, <2>1, <2>2, <3>1 DEF LoopInv, StubsRead
  <2>7. GoneIsTold'
    BY <1>1, <1>4, <2>1 DEF LoopInv, GoneIsTold
  <2>8. StaleIsTold'
    <3> SUFFICES ASSUME NEW q \in Path, Stale(q)'
                 PROVE  q \in look' \cup todo' \/ Signal(q)'
      BY DEF StaleIsTold
    <3>1. q # p
      BY <1>1, <1>2, <1>7, <2>2 DEF Stale, Current
    <3>2. Stale(q)
      BY <1>1, <2>2, <3>1 DEF Stale, Current, ReadSource
    <3> QED  BY <1>1, <1>4, <2>1, <3>1, <3>2 DEF LoopInv, StaleIsTold, Showing
  <2> QED  BY <1>5, <2>3, <2>4, <2>5, <2>6, <2>7, <2>8 DEF LoopInv
<1> QED  BY <1>6, <1>7

\* What is read is no longer stale, unless the file is gone, which is told of.
LEMMA ReadStep ==
    ASSUME LoopInv, NEW p \in Path, Read(p)
    PROVE  LoopInv'
<1>1. /\ pc \in {"probe", "walk"} /\ look = {} /\ p \in todo
      /\ todo' = todo \ {p} /\ known' = [known EXCEPT ![p] = ReadSource(p)]
      /\ pending' = Notify(p, p, "access")
      /\ UNCHANGED <<disk, queue, watching, conf, draft, pc, look, edits>>
  BY DEF Read
<1>2. pending' \subseteq Event /\ Undelivered \subseteq Undelivered'
  BY <1>1, ReadTells DEF LoopInv
<1>3. \A q : Signal(q) => Signal(q)'
  BY <1>2, SignalsStay
<1>4. ReadSource(p) \in Text
  BY WatchAssumption DEF LoopInv, Types, ReadSource
<1>5. /\ known' \in [Path -> Text \cup {None}] /\ known'[p] = ReadSource(p)
      /\ \A q \in Path \ {p} : known'[q] = known[q]
  BY <1>1, <1>4 DEF LoopInv, Types
<1>6. p \in File => p \in Selected[conf]
  BY <1>1 DEF LoopInv, Phase
<1>7. Types'
  BY <1>1, <1>2, <1>5 DEF LoopInv, Types
<1>8. Phase'
  BY <1>1 DEF LoopInv, Phase, Between
<1>9. HoldsSelected'
  BY <1>1, <1>5, <1>6 DEF LoopInv, HoldsSelected, Path
<1>10. StubsRead'
  <2>1. \A q \in Aux[conf] : q \in Path
    BY WatchAssumption DEF LoopInv, Types, Path
  <2> QED  BY <1>1, <1>4, <1>5, <2>1 DEF LoopInv, StubsRead
<1>11. GoneIsTold'
  BY <1>1, <1>3 DEF LoopInv, GoneIsTold
<1>12. StaleIsTold'
  <2> SUFFICES ASSUME NEW q \in Path, Stale(q)'
               PROVE  q \in look' \cup todo' \/ Signal(q)'
    BY DEF StaleIsTold
  <2>1. CASE q = p
    <3>1. p \in File \cap Watched /\ disk[p] = None
      BY <1>1, <1>5, <1>6, <2>1 DEF Stale, Current, ReadSource
    <3> QED  BY <1>1, <1>3, <2>1, <3>1 DEF LoopInv, GoneIsTold
  <2>2. CASE q # p
    <3>1. Stale(q)
      BY <1>1, <1>5, <2>2 DEF Stale, Current, ReadSource
    <3> QED  BY <1>1, <1>3, <2>2, <3>1 DEF LoopInv, StaleIsTold, Showing
  <2> QED  BY <2>1, <2>2
<1>13. ReloadIsTold'
  BY <1>1, <1>2, ReloadStaysTold
<1> QED  BY <1>7, <1>8, <1>9, <1>10, <1>11, <1>12, <1>13 DEF LoopInv

-----------------------------------------------------------------------------
LEMMA NextInv == LoopInv /\ [Next]_vars => LoopInv'
<1> SUFFICES ASSUME LoopInv, [Next]_vars PROVE LoopInv'
  OBVIOUS
<1>1. CASE UNCHANGED vars
  BY <1>1, StutterStep
<1>2. CASE Debounce \/ WatchError
  BY <1>2, DebounceStep, WatchErrorStep
<1>3. CASE \E p \in Path : Edit(p)
  BY <1>3, EditStep
<1>4. CASE InitialPass \/ Register \/ Render
  BY <1>4, InitialPassStep, RegisterStep, RenderStep
<1>5. CASE Receive \/ ReloadConfig \/ MergeBaseline
  BY <1>5, ReceiveStep, ReloadConfigStep, MergeBaselineStep
<1>6. CASE \E p \in Path : Probe(p) \/ Visit(p) \/ Read(p)
  BY <1>6, ProbeStep, VisitStep, ReadStep
<1> QED  BY <1>1, <1>2, <1>3, <1>4, <1>5, <1>6 DEF Next, Loop

\* Whatever is stale is still to be looked at or told of by an event on its way:
\* the invariant the loop of run_watch keeps through every edit, delivery,
\* error, reload and read.
THEOREM LoopInvariance == Spec => []LoopInv
BY InitInv, NextInv, PTL DEF Spec

\* The state of the loop is of its type, and every stub that is configured has
\* been read whenever it waits.
THEOREM WatchTyped == Spec => []TypeOK
<1>1. LoopInv => TypeOK
  BY DEF LoopInv, Types, Phase, StubsRead, TypeOK, Between, Showing
<1> QED  BY <1>1, LoopInvariance, PTL

\* While the loop waits for a batch, what it shows is what a fresh pass would
\* read, or an event it has not received will make it look again: no filter of
\* is_relevant and no hint given to the session forgets a change.
THEOREM NothingForgotten == Spec => []NoChangeForgotten
<1>1. LoopInv => NoChangeForgotten
  BY DEF LoopInv, Phase, StaleIsTold, NoChangeForgotten, Signal, Between, Showing
<1> QED  BY <1>1, LoopInvariance, PTL

\* While the loop waits for a batch, the configuration in effect is the one on
\* the disk, or that one does not load, or an event will make the loop reload.
THEOREM ReloadsNotForgotten == Spec => []NoReloadForgotten
<1>1. LoopInv => NoReloadForgotten
  BY DEF LoopInv, ReloadIsTold, NoReloadForgotten, ReloadSignal
<1> QED  BY <1>1, LoopInvariance, PTL
=============================================================================
