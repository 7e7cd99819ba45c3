--------------------------- MODULE QueryCacheProofs ---------------------------
(***************************************************************************)
(* Proofs about QueryCache, for every table of queries and calls.  That a  *)
(* page shows the user's own changes rests on one fact of the tables,      *)
(* TablesCover, which MCQueryCache assumes of the tables of the source and  *)
(* TLC evaluates there.                                                    *)
(***************************************************************************)
EXTENDS QueryCache, TLAPS

USE BoundAssumption

Entry == [has : BOOLEAN, holds : Asks, ver : Nat, marked : BOOLEAN, fn : Asks,
          busy : BOOLEAN, asks : Asks, seen : Nat, floor : Nat, behind : BOOLEAN]

\* A fetch that is not behind began after all the changes the user was told of,
\* and what it read is no older than that.
FetchOK(x, due) ==
    /\ x.floor <= due
    /\ x.busy /\ ~x.behind => x.floor >= due
    /\ x.busy /\ x.seen # 0 => x.seen >= x.floor

\* The same of a fetch that may miss the newest of them.
LateOK(x, due) ==
    /\ x.floor <= due
    /\ x.busy /\ x.seen # 0 => x.seen >= x.floor

\* Data that are used as they are have those changes.
DataOK(x, used, due) ==
    used /\ x.has /\ ~x.busy /\ ~x.marked /\ ~x.behind => x.ver >= due

\* Data are used by who shows them now, and by who mounts within a staleTime.
Lasting == \E q \in scene.observers : "fresh" \in q.how

Used == Mounted # {} \/ Lasting

\* What the entry stores, fetches and would fetch has the shape of an observer.
Shapes == {q.holds : q \in scene.observers}

ShapeOK(x, mounted) ==
    /\ mounted => x.fn \in Shapes
    /\ x.busy => x.asks \in Shapes
    /\ x.has => x.holds \in Shapes

SceneOK == \E k \in Keys : scene = Scene(k)

CallsOK == \A c \in calls : c.at <= ver

CacheIInv ==
    /\ SceneOK /\ CacheTypeOK /\ CallsOK
    /\ query.seen <= ver
    /\ FetchOK(query, owed) /\ DataOK(query, Used, owed)
    /\ ShapeOK(query, Mounted # {})

-----------------------------------------------------------------------------
\* What a scene is made of.
LEMMA SceneFacts ==
    ASSUME SceneOK
    PROVE  /\ scene.observers \subseteq Queries
           /\ "elsewhere" \in scene.pages /\ "frame" \notin scene.pages
           /\ scene.key \in Keys /\ scene.observers = Observers(scene.key)
           /\ Shapes \subseteq Asks
           /\ TablesCover => CoveredIn(scene)
<1>1. PICK k \in Keys : scene = Scene(k)
  BY DEF SceneOK
<1>2. scene.key = k /\ scene.observers = Observers(k)
  BY <1>1 DEF Scene
<1>3. "elsewhere" \in scene.pages /\ "frame" \notin scene.pages
  BY <1>1 DEF Scene
<1>4. scene.observers \subseteq Queries /\ Shapes \subseteq Asks
  BY <1>2 DEF Observers, Shapes, Asks
<1>5. TablesCover => CoveredIn(scene)
  BY <1>1 DEF TablesCover
<1> QED
  BY <1>2, <1>3, <1>4, <1>5

\* A request for data of shape h leaves a fetch on the way that covers due or
\* is known not to, and the data as they are.
Asked(x, y, h, due) ==
    /\ y \in Entry
    /\ y.busy /\ FetchOK(y, due)
    /\ y.seen \in {0, x.seen}
    /\ y.ver = x.ver /\ y.has = x.has /\ y.holds = x.holds /\ y.fn = x.fn
    /\ y.asks = h \/ (x.busy /\ y.asks = x.asks)

\* A request leaves an entry that has been asked for.
LEMMA RequestEntry ==
    ASSUME NEW x \in Entry, NEW h \in Asks, NEW b \in BOOLEAN, NEW due \in Nat,
           LateOK(x, due)
    PROVE  Asked(x, Request(x, h, b, due), h, due)
<1> DEFINE y == Request(x, h, b, due)
<1> SUFFICES Asked(x, y, h, due)
  OBVIOUS
<1>0. x.floor <= due /\ (x.busy /\ x.seen # 0 => x.seen >= x.floor)
  BY DEF LateOK
<1>1. CASE ~x.busy \/ (b /\ x.has)
  <2> DEFINE u == [x EXCEPT !.busy = TRUE, !.asks = h]
             v == [u EXCEPT !.seen = 0, !.floor = due]
  <2>1. y = [v EXCEPT !.behind = FALSE]
    BY <1>1 DEF Request
  <2>2. u \in Entry /\ u.busy = TRUE /\ u.asks = h
        /\ u.ver = x.ver /\ u.has = x.has /\ u.holds = x.holds /\ u.fn = x.fn
    BY DEF Entry
  <2> HIDE DEF u
  <2>3. v \in Entry /\ v.seen = 0 /\ v.floor = due /\ v.busy = u.busy /\ v.asks = u.asks
        /\ v.ver = u.ver /\ v.has = u.has /\ v.holds = u.holds /\ v.fn = u.fn
    BY <2>2 DEF Entry
  <2> HIDE DEF v, y
  <2>4. y \in Entry /\ y.behind = FALSE
        /\ y.seen = v.seen /\ y.floor = v.floor /\ y.busy = v.busy /\ y.asks = v.asks
        /\ y.ver = v.ver /\ y.has = v.has /\ y.holds = v.holds /\ y.fn = v.fn
    BY <2>1, <2>3 DEF Entry
  <2> QED
    BY <2>2, <2>3, <2>4 DEF FetchOK, Asked
<1>2. CASE ~(~x.busy \/ (b /\ x.has))
  <2>1. y = [x EXCEPT !.behind = x.behind \/ x.floor < due]
    BY <1>2 DEF Request
  <2> HIDE DEF y
  <2>2. x.busy
    BY <1>2
  <2>3. y \in Entry
    BY <2>1 DEF Entry
  <2>4. ~y.behind => x.floor >= due
    <3>1. y.behind = (x.behind \/ x.floor < due)
      BY <2>1 DEF Entry
    <3>2. x.floor < due => y.behind
      BY <3>1
    <3> QED
      BY <3>2 DEF Entry
  <2>5. y.busy = x.busy /\ y.floor = x.floor /\ y.seen = x.seen /\ y.asks = x.asks
        /\ y.ver = x.ver /\ y.has = x.has /\ y.holds = x.holds /\ y.fn = x.fn
    BY <2>1 DEF Entry
  <2>6. x.floor \in Nat /\ x.seen \in Nat
    BY DEF Entry
  <2>7. FetchOK(y, due)
    BY <2>2, <2>4, <2>5, <2>6, <1>0 DEF FetchOK
  <2> QED
    BY <2>2, <2>3, <2>5, <2>7 DEF Asked
<1> QED
  BY <1>1, <1>2

\* A busy entry shows nothing that DataOK speaks of.
LEMMA BusyData ==
    ASSUME NEW x, x.busy, NEW used, NEW due
    PROVE  DataOK(x, used, due)
BY DEF DataOK

\* What mounting needs of the entry, and what it leaves.
Mountable(x, new, used, after, due) ==
    /\ x \in Entry /\ new \in SUBSET scene.observers /\ due \in Nat
    /\ FetchOK(x, due)
    /\ DataOK(x, used, due) \/ \E q \in new : MustFetch(x, q)
    /\ ShapeOK(x, after /\ new = {})

Sound(x, y, used, after, due) ==
    /\ y \in Entry /\ FetchOK(y, due) /\ DataOK(y, used, due) /\ ShapeOK(y, after)
    /\ y.ver = x.ver /\ y.seen \in {0, x.seen}

\* Observers that mount find data that are good, or fetch.
LEMMA MountEntry ==
    ASSUME SceneOK, NEW x, NEW new, NEW used, NEW after, NEW due,
           Mountable(x, new, used, after, due), NEW y \in Mount(x, new, due)
    PROVE  Sound(x, y, used, after, due)
<1>0. /\ x \in Entry /\ new \in SUBSET scene.observers /\ due \in Nat
      /\ FetchOK(x, due)
      /\ DataOK(x, used, due) \/ \E q \in new : MustFetch(x, q)
      /\ ShapeOK(x, after /\ new = {})
  BY DEF Mountable
<1>1. CASE new = {}
  <2>1. y = x
    BY <1>1 DEF Mount
  <2> QED
    BY <1>0, <1>1, <2>1 DEF ShapeOK, Sound
<1>2. CASE new # {}
  <2>1. PICK q \in new :
          \/ y = Request(Renders(x, q), q.holds, FALSE, due)
          \/ y = Renders(x, q) /\ ~\E r \in new : MustFetch(x, r)
    BY <1>2 DEF Mount
  <2> DEFINE z == Renders(x, q)
  <2>2. q.holds \in Shapes /\ q.holds \in Asks
    BY <1>0, SceneFacts DEF Shapes
  <2>3. z \in Entry /\ z.fn = q.holds
        /\ z.has = x.has /\ z.holds = x.holds /\ z.ver = x.ver /\ z.marked = x.marked
        /\ z.busy = x.busy /\ z.asks = x.asks /\ z.seen = x.seen /\ z.floor = x.floor
        /\ z.behind = x.behind
    BY <1>0, <2>2 DEF Entry, Renders
  <2> HIDE DEF z
  <2>4. FetchOK(z, due)
    BY <1>0, <2>3 DEF FetchOK
  <2>5. CASE y = Request(z, q.holds, FALSE, due)
    <3>1. Asked(z, y, q.holds, due)
      <4>1. LateOK(z, due)
        BY <2>4 DEF FetchOK, LateOK
      <4> QED
        BY <1>0, <4>1, <2>2, <2>3, <2>5, RequestEntry
    <3>2. DataOK(y, used, due)
      BY <3>1, BusyData DEF Asked
    <3>3. ShapeOK(y, after)
      BY <1>0, <3>1, <2>2, <2>3 DEF ShapeOK, Asked
    <3> QED
      BY <3>1, <3>2, <3>3, <2>3 DEF Asked, Sound
  <2>6. CASE y = z /\ ~\E r \in new : MustFetch(x, r)
    <3>1. DataOK(y, used, due)
      BY <1>0, <2>6, <2>3 DEF DataOK
    <3>2. ShapeOK(y, after)
      BY <1>0, <2>6, <2>2, <2>3 DEF ShapeOK
    <3> QED
      BY <3>1, <3>2, <2>3, <2>4, <2>6 DEF Sound
  <2> QED
    BY <2>1, <2>5, <2>6 DEF z
<1> QED
  BY <1>1, <1>2

\* What is shown, asked again, is on the way in the shape of an observer; what
\* nobody shows is marked.
LEMMA InvalidateEntry ==
    ASSUME SceneOK, NEW x \in Entry, NEW due \in Nat, LateOK(x, due),
           ShapeOK(x, Mounted # {}), NEW used,
           NEW y, y = Invalidate(x, Mounted, due)
    PROVE  /\ y \in Entry /\ FetchOK(y, due) /\ DataOK(y, used, due)
           /\ ShapeOK(y, Mounted # {})
           /\ y.ver = x.ver /\ y.seen \in {0, x.seen}
           /\ y.busy \/ y.marked
<1> DEFINE z == [x EXCEPT !.marked = TRUE]
<1>1. z \in Entry /\ z.marked = TRUE /\ z.fn = x.fn
      /\ z.has = x.has /\ z.holds = x.holds /\ z.ver = x.ver
      /\ z.busy = x.busy /\ z.asks = x.asks /\ z.seen = x.seen /\ z.floor = x.floor
  BY DEF Entry
<1>2. CASE Mounted # {}
  <2>1. y = Request(z, x.fn, TRUE, due)
    BY <1>2 DEF Invalidate
  <2>2. x.fn \in Asks /\ x.fn \in Shapes
    BY <1>2 DEF Entry, ShapeOK
  <2> HIDE DEF z
  <2>3. LateOK(z, due)
    BY <1>1 DEF LateOK
  <2>4. Asked(z, y, x.fn, due)
    BY <1>1, <2>1, <2>2, <2>3, RequestEntry
  <2>5. DataOK(y, used, due)
    BY <2>4, BusyData DEF Asked
  <2>6. ShapeOK(y, Mounted # {})
    BY <2>4, <1>1, <2>2 DEF ShapeOK, Asked
  <2> QED
    BY <2>4, <2>5, <2>6, <1>1 DEF Asked
<1>3. CASE Mounted = {}
  <2>1. y = [x EXCEPT !.marked = TRUE, !.behind = x.behind \/ (x.busy /\ x.floor < due)]
    BY <1>3 DEF Invalidate
  <2>2. y \in Entry
    BY <2>1 DEF Entry
  <2>3. y.marked = TRUE /\ y.behind = (x.behind \/ (x.busy /\ x.floor < due))
    BY <2>1 DEF Entry
  <2>4. y.has = x.has /\ y.holds = x.holds /\ y.ver = x.ver /\ y.fn = x.fn
        /\ y.busy = x.busy /\ y.asks = x.asks /\ y.seen = x.seen /\ y.floor = x.floor
    BY <2>1 DEF Entry
  <2>5. x.busy /\ ~y.behind => ~(x.floor < due)
    BY <2>3
  <2>6. FetchOK(y, due)
    <3>1. x.floor \in Nat
      BY DEF Entry
    <3> QED
      BY <2>4, <2>5, <3>1 DEF FetchOK, LateOK
  <2>7. DataOK(y, used, due) /\ ShapeOK(y, Mounted # {})
    BY <1>3, <2>3, <2>4 DEF DataOK, ShapeOK
  <2> QED
    BY <2>2, <2>3, <2>4, <2>6, <2>7
<1> QED
  BY <1>2, <1>3

-----------------------------------------------------------------------------
\* Where the user goes, something is used that was not before only if it
\* mounts there and must fetch.
LEMMA GoneTo ==
    ASSUME CacheIInv, NEW x, NEW p \in scene.pages, p # page,
           page' = p, opened' = {q \in opened : q.page = "frame"}, scene' = scene
    PROVE  /\ NewOn(p) \in SUBSET scene.observers
           /\ Mounted' # {} => Mounted # {} \/ NewOn(p) # {}
           /\ Used' => Used \/ \E q \in NewOn(p) : MustFetch(x, q)
<1>1. NewOn(p) \in SUBSET scene.observers
  BY DEF NewOn
<1>2. ASSUME NEW q \in Mounted', q \notin Mounted
      PROVE  q \in NewOn(p)
  <2>1. q \in scene.observers /\ q.page \in {"frame", p} /\ (Ungated(q) \/ q \in opened')
    BY <1>2 DEF Mounted, Shown, Ungated
  <2> QED
    BY <1>2, <2>1, SceneFacts DEF CacheIInv, Mounted, Shown, NewOn
<1>3. Mounted' # {} => Mounted # {} \/ NewOn(p) # {}
  BY <1>2
<1>4. ASSUME Used', ~Used PROVE \E q \in NewOn(p) : MustFetch(x, q)
  <2>1. Lasting' <=> Lasting
    BY DEF Lasting
  <2>2. Mounted' # {} /\ Mounted = {} /\ ~Lasting
    BY <1>4, <2>1 DEF Used
  <2>3. PICK q \in NewOn(p) : TRUE
    BY <1>3, <2>2
  <2>4. "fresh" \notin q.how
    BY <1>1, <2>2 DEF Lasting
  <2> QED
    BY <2>3, <2>4 DEF MustFetch
<1> QED
  BY <1>1, <1>3, <1>4

-----------------------------------------------------------------------------
\* What does not depend on the page and the entry.
LEMMA SameScene ==
    ASSUME scene' = scene
    PROVE  /\ SceneOK => SceneOK'
           /\ Shapes' = Shapes
           /\ Lasting' <=> Lasting
BY DEF SceneOK, Shapes, Lasting

\* What is on the page stays when place and page do.
LEMMA SameShown ==
    ASSUME scene' = scene, page' = page, opened' = opened
    PROVE  /\ SceneOK => SceneOK'
           /\ Shapes' = Shapes
           /\ Mounted' = Mounted
           /\ Used' <=> Used
<1>1. Mounted' = Mounted
  BY DEF Mounted, Shown
<1> QED
  BY <1>1, SameScene DEF Used

\* The parts of the type invariant that only the page and the calls change.
PlaceOK ==
    /\ page \in scene.pages
    /\ opened \subseteq {q \in scene.observers : q.page \in {"frame", page} /\ ~Ungated(q)}

CallTypeOK == calls \subseteq [slot : Slots, does : scene.effects, at : Nat]

\* The types of the cache, in the parts its steps change.
LEMMA TypeParts ==
    CacheTypeOK <=> /\ PlaceOK /\ CallTypeOK
                    /\ query \in Entry
                    /\ ver \in Nat /\ owed \in Nat /\ owed <= ver /\ query.ver <= ver
BY DEF CacheTypeOK, PlaceOK, CallTypeOK, Entry

\* The same after a step.
LEMMA TypePartsPrime ==
    ASSUME PlaceOK', CallTypeOK', query' \in Entry,
           ver' \in Nat, owed' \in Nat, owed' <= ver', query'.ver <= ver'
    PROVE  CacheTypeOK'
BY DEF CacheTypeOK, PlaceOK, CallTypeOK, Entry

\* A step that leaves the page keeps the places, one that leaves the calls
\* keeps the calls.
LEMMA SamePlace ==
    ASSUME CacheIInv, scene' = scene, page' = page, opened' = opened
    PROVE  PlaceOK'
BY DEF CacheIInv, CacheTypeOK, PlaceOK, Ungated

\* Calls that stay keep their types.
LEMMA SameCalls ==
    ASSUME CacheIInv, scene' = scene, calls' = calls
    PROVE  CallTypeOK'
BY DEF CacheIInv, CacheTypeOK, CallTypeOK

\* A step that leaves the places and the calls, and what the entry becomes.
LEMMA EntryStep ==
    ASSUME CacheIInv, UNCHANGED <<scene, page, opened, calls, ver, owed>>,
           query' \in Entry, query'.ver <= ver, query'.seen <= ver,
           FetchOK(query', owed), DataOK(query', Used, owed), ShapeOK(query', Mounted # {})
    PROVE  CacheIInv'
<1>1. PlaceOK' /\ CallTypeOK'
  BY SamePlace, SameCalls
<1>2. CacheTypeOK'
  BY <1>1, TypePartsPrime DEF CacheIInv, CacheTypeOK
<1>3. FetchOK(query', owed') /\ DataOK(query', Used', owed')
  <2>1. Used' <=> Used
    BY SameShown
  <2> QED
    BY <2>1 DEF DataOK
<1>4. ShapeOK(query, Mounted # {})'
  <2>1. Mounted' = Mounted /\ Shapes' = Shapes
    BY SameShown
  <2> QED
    BY <2>1 DEF ShapeOK
<1>5. SceneOK' /\ CallsOK'
  BY SameShown DEF CacheIInv, CallsOK
<1> QED
  BY <1>2, <1>3, <1>4, <1>5 DEF CacheIInv

\* Rendering changes the function the entry would ask with, to another
\* observer's.
LEMMA RenderStep ==
    ASSUME CacheIInv, NEW q \in scene.observers, Render(q)
    PROVE  CacheIInv'
<1>1. q.holds \in Shapes /\ q.holds \in Asks
  BY SceneFacts DEF Shapes, CacheIInv
<1>2. query \in Entry /\ query' = [query EXCEPT !.fn = q.holds]
  BY DEF Render, Renders, CacheIInv, CacheTypeOK, Entry
<1>3. query' \in Entry /\ query'.fn = q.holds
      /\ query'.has = query.has /\ query'.holds = query.holds /\ query'.ver = query.ver
      /\ query'.marked = query.marked /\ query'.busy = query.busy
      /\ query'.asks = query.asks /\ query'.seen = query.seen
      /\ query'.floor = query.floor /\ query'.behind = query.behind
  BY <1>1, <1>2 DEF Entry
<1>4. FetchOK(query', owed) /\ DataOK(query', Used, owed)
  BY <1>3 DEF CacheIInv, FetchOK, DataOK
<1>5. ShapeOK(query', Mounted # {})
  BY <1>1, <1>3 DEF CacheIInv, ShapeOK
<1> QED
  BY <1>3, <1>4, <1>5, EntryStep DEF Render, CacheIInv, CacheTypeOK

\* A poll asks for what is shown, and for all the user was told.
LEMMA PollStep == ASSUME CacheIInv, Poll PROVE CacheIInv'
<1>1. query \in Entry /\ owed \in Nat
  BY DEF CacheIInv, CacheTypeOK, Entry
<1>2. Mounted # {} /\ query.fn \in Shapes /\ query.fn \in Asks
  BY <1>1 DEF Poll, CacheIInv, ShapeOK, Entry
<1>3. LateOK(query, owed)
  BY DEF CacheIInv, FetchOK, LateOK
<1>4. Asked(query, query', query.fn, owed)
  BY <1>1, <1>2, <1>3, RequestEntry DEF Poll
<1>5. DataOK(query', Used, owed)
  BY <1>4, BusyData DEF Asked
<1>6. ShapeOK(query', Mounted # {})
  BY <1>2, <1>4 DEF Asked, ShapeOK, CacheIInv
<1>7. query'.ver <= ver /\ query'.seen <= ver
  BY <1>4 DEF Asked, CacheIInv, CacheTypeOK
<1> QED
  BY <1>4, <1>5, <1>6, <1>7, EntryStep DEF Asked, Poll

\* Data that are dropped are not shown, and owe nothing.
LEMMA CollectStep == ASSUME CacheIInv, Collect PROVE CacheIInv'
<1>1. Empty \in Entry
  BY DEF Empty, Entry, Asks
<1>2. query' = Empty /\ Mounted = {}
  BY DEF Collect
<1>3. FetchOK(Empty, owed) /\ DataOK(Empty, Used, owed) /\ ShapeOK(Empty, FALSE)
  BY DEF Empty, FetchOK, DataOK, ShapeOK, CacheIInv, CacheTypeOK
<1>4. query'.ver <= ver /\ query'.seen <= ver
  BY <1>2 DEF Empty, CacheIInv, CacheTypeOK
<1>5. ShapeOK(query', Mounted # {})
  BY <1>2, <1>3
<1> QED
  BY <1>1, <1>2, <1>3, <1>4, <1>5, EntryStep DEF Collect

\* What a fetch reads is the newest there is.
LEMMA ReadStep == ASSUME CacheIInv, Read PROVE CacheIInv'
<1>1. query \in Entry /\ ver \in Nat /\ owed \in Nat /\ owed <= ver /\ query.floor <= owed
  BY DEF CacheIInv, CacheTypeOK, Entry, FetchOK
<1>2. query.floor \in Nat
  BY <1>1 DEF Entry
<1>3. query' = [query EXCEPT !.seen = ver] /\ query.busy
  BY DEF Read
<1>4. query' \in Entry /\ query'.seen = ver
      /\ query'.has = query.has /\ query'.holds = query.holds /\ query'.ver = query.ver
      /\ query'.marked = query.marked /\ query'.busy = query.busy
      /\ query'.asks = query.asks /\ query'.fn = query.fn
      /\ query'.floor = query.floor /\ query'.behind = query.behind
  BY <1>1, <1>3 DEF Entry
<1>5. FetchOK(query', owed)
  BY <1>1, <1>2, <1>4 DEF CacheIInv, FetchOK
<1>6. DataOK(query', Used, owed) /\ ShapeOK(query', Mounted # {})
  BY <1>3, <1>4 DEF CacheIInv, DataOK, ShapeOK
<1> QED
  BY <1>1, <1>4, <1>5, <1>6, EntryStep DEF Read, CacheIInv, CacheTypeOK

\* What arrives and is not known to miss a change has them all.
LEMMA ArriveStep == ASSUME CacheIInv, Arrive PROVE CacheIInv'
<1>1. query \in Entry /\ owed \in Nat /\ query.seen <= ver
  BY DEF CacheIInv, CacheTypeOK, Entry
<1>2. query.floor \in Nat /\ query.seen \in Nat /\ query.seen >= query.floor
      /\ query.floor <= owed /\ (~query.behind => query.floor >= owed)
      /\ query.asks \in Shapes /\ query.asks \in Asks
  BY <1>1 DEF Arrive, CacheIInv, FetchOK, ShapeOK, Entry
<1> DEFINE u == [query EXCEPT !.has = TRUE, !.holds = query.asks, !.ver = query.seen]
<1>3. query' = [u EXCEPT !.marked = FALSE, !.busy = FALSE, !.seen = 0]
  BY DEF Arrive
<1>4. u \in Entry /\ u.ver = query.seen /\ u.holds = query.asks
      /\ u.asks = query.asks /\ u.fn = query.fn
      /\ u.floor = query.floor /\ u.behind = query.behind
  BY <1>1, <1>2 DEF Entry
<1> HIDE DEF u
<1>5. query' \in Entry /\ query'.busy = FALSE /\ query'.seen = 0
      /\ query'.holds = u.holds /\ query'.ver = u.ver
      /\ query'.asks = u.asks /\ query'.fn = u.fn
      /\ query'.floor = u.floor /\ query'.behind = u.behind
  BY <1>3, <1>4 DEF Entry
<1>6. FetchOK(query', owed)
  BY <1>2, <1>4, <1>5 DEF FetchOK
<1>7. DataOK(query', Used, owed)
  BY <1>1, <1>2, <1>4, <1>5 DEF DataOK
<1>8. ShapeOK(query', Mounted # {})
  BY <1>2, <1>4, <1>5 DEF CacheIInv, ShapeOK
<1>9. query'.ver <= ver /\ query'.seen <= ver
  BY <1>1, <1>4, <1>5 DEF CacheIInv, CacheTypeOK
<1> QED
  BY <1>5, <1>6, <1>7, <1>8, <1>9, EntryStep DEF Arrive

\* After a failure the data are known to be behind.
LEMMA FetchFailsStep == ASSUME CacheIInv, FetchFails PROVE CacheIInv'
<1>1. query \in Entry
  BY DEF CacheIInv, CacheTypeOK, Entry
<1>2. query' = [query EXCEPT !.busy = FALSE, !.seen = 0, !.behind = TRUE]
  BY DEF FetchFails
<1>3. query' \in Entry /\ query'.busy = FALSE /\ query'.seen = 0 /\ query'.behind = TRUE
      /\ query'.has = query.has /\ query'.holds = query.holds /\ query'.ver = query.ver
      /\ query'.fn = query.fn /\ query'.floor = query.floor
  BY <1>1, <1>2 DEF Entry
<1>4. FetchOK(query', owed) /\ DataOK(query', Used, owed) /\ ShapeOK(query', Mounted # {})
  BY <1>3 DEF CacheIInv, FetchOK, DataOK, ShapeOK
<1>5. query'.ver <= ver /\ query'.seen <= ver
  BY <1>3 DEF CacheIInv, CacheTypeOK
<1> QED
  BY <1>3, <1>4, <1>5, EntryStep DEF FetchFails

\* Steps that leave the entry and the page, and only add to the versions.
LEMMA ServerStep ==
    ASSUME CacheIInv, UNCHANGED <<scene, page, opened, query, owed>>,
           ver' \in Nat, ver' >= ver, CallTypeOK', CallsOK'
    PROVE  CacheIInv'
<1>1. query \in Entry /\ owed \in Nat /\ ver \in Nat /\ query.ver \in Nat /\ query.seen \in Nat
      /\ owed <= ver /\ query.ver <= ver /\ query.seen <= ver
  BY DEF CacheIInv, CacheTypeOK, Entry
<1>2. CacheTypeOK'
  <2>1. PlaceOK'
    BY SamePlace
  <2>2. owed' <= ver' /\ query'.ver <= ver'
    BY <1>1
  <2> QED
    BY <1>1, <2>1, <2>2, TypePartsPrime
<1>3. FetchOK(query, owed)' /\ query'.seen <= ver'
  BY <1>1 DEF CacheIInv, FetchOK
<1>4. DataOK(query, Used, owed)' /\ ShapeOK(query, Mounted # {})' /\ SceneOK'
  BY SameShown DEF CacheIInv, DataOK, ShapeOK
<1> QED
  BY <1>2, <1>3, <1>4 DEF CacheIInv

\* Others write.
LEMMA OthersWriteStep == ASSUME CacheIInv, OthersWrite PROVE CacheIInv'
<1>1. ver \in Nat /\ CallsOK /\ CallTypeOK
  BY DEF CacheIInv, CacheTypeOK, CallTypeOK
<1>2. CallTypeOK'
  BY SameCalls DEF OthersWrite
<1>3. CallsOK'
  BY <1>1 DEF CallsOK, CallTypeOK, OthersWrite
<1> QED
  BY <1>1, <1>2, <1>3, ServerStep DEF OthersWrite

\* A call is sent, done, or lost: the versions it carries are of the past.
LEMMA SendStep ==
    ASSUME CacheIInv, NEW s \in Slots, NEW e \in scene.effects, Send(s, e)
    PROVE  CacheIInv'
<1>1. ver \in Nat /\ CallsOK /\ CallTypeOK
  BY DEF CacheIInv, CacheTypeOK, CallTypeOK
<1>2. CallTypeOK'
  BY <1>1 DEF Send, CallTypeOK
<1>3. CallsOK'
  BY <1>1 DEF CallsOK, Send
<1> QED
  BY <1>1, <1>2, <1>3, ServerStep DEF Send

\* A call that lands keeps the invariant.
LEMMA LandStep ==
    ASSUME CacheIInv, NEW c \in calls, Land(c)
    PROVE  CacheIInv'
<1>1. ver \in Nat /\ CallsOK /\ CallTypeOK
  BY DEF CacheIInv, CacheTypeOK, CallTypeOK
<1>2. ver' \in Nat /\ ver' >= ver
  BY <1>1 DEF Land
<1>3. c \in [slot : Slots, does : scene.effects, at : Nat]
  BY <1>1 DEF CallTypeOK
<1> DEFINE d == [c EXCEPT !.at = ver']
<1>4. d \in [slot : Slots, does : scene.effects, at : Nat] /\ d.at = ver'
  BY <1>2, <1>3
<1>5. calls' = (calls \ {c}) \cup {d}
  BY DEF Land
<1> HIDE DEF d
<1>6. CallTypeOK'
  BY <1>1, <1>4, <1>5 DEF CallTypeOK, Land
<1>7. CallsOK'
  BY <1>1, <1>2, <1>4, <1>5 DEF CallsOK, CallTypeOK
<1> QED
  BY <1>2, <1>6, <1>7, ServerStep DEF Land

\* So does a call that fails.
LEMMA CallFailsStep ==
    ASSUME CacheIInv, NEW c \in calls, CallFails(c)
    PROVE  CacheIInv'
<1>1. ver \in Nat /\ CallsOK /\ CallTypeOK
  BY DEF CacheIInv, CacheTypeOK, CallTypeOK
<1>2. CallTypeOK' /\ CallsOK'
  BY <1>1 DEF CallFails, CallTypeOK, CallsOK
<1> QED
  BY <1>1, <1>2, ServerStep DEF CallFails

-----------------------------------------------------------------------------
\* A step that moves the user or an observer: x is the entry after the answer
\* that moved them, or as it was, and new are the observers that mount.
LEMMA MountStep ==
    ASSUME CacheIInv, scene' = scene, ver' = ver, PlaceOK', CallTypeOK', CallsOK',
           owed' \in Nat, owed' <= ver,
           NEW x \in Entry, x.ver <= ver, x.seen <= ver, FetchOK(x, owed'),
           DataOK(x, Used, owed'), ShapeOK(x, Mounted # {}),
           NEW new \in SUBSET scene.observers,
           Used' => Used \/ \E q \in new : MustFetch(x, q),
           Mounted' # {} => Mounted # {} \/ new # {},
           query' \in Mount(x, new, owed')
    PROVE  CacheIInv'
<1>1. ver \in Nat /\ SceneOK
  BY DEF CacheIInv, CacheTypeOK
<1>2. Sound(x, query', Used', Mounted' # {}, owed')
  <2>1. DataOK(x, Used', owed') \/ \E q \in new : MustFetch(x, q)
    BY DEF DataOK
  <2>2. ShapeOK(x, Mounted' # {} /\ new = {})
    BY DEF ShapeOK
  <2>3. Mountable(x, new, Used', Mounted' # {}, owed')
    BY <2>1, <2>2 DEF Mountable
  <2> QED
    BY <1>1, <2>3, MountEntry
<1>3. query' \in Entry /\ query'.ver <= ver' /\ query'.seen <= ver'
  BY <1>1, <1>2 DEF Sound
<1>4. CacheTypeOK'
  BY <1>1, <1>3, TypePartsPrime
<1>5. ShapeOK(query, Mounted # {})' /\ SceneOK'
  BY <1>1, <1>2, SameScene DEF ShapeOK, Sound
<1>6. FetchOK(query', owed') /\ DataOK(query', Used', owed')
  BY <1>2 DEF Sound
<1> QED
  BY <1>3, <1>4, <1>5, <1>6 DEF CacheIInv

\* The entry as it is, in the terms of MountStep.
LEMMA EntryNow ==
    ASSUME CacheIInv
    PROVE  /\ query \in Entry /\ query.ver <= ver /\ query.seen <= ver
           /\ FetchOK(query, owed) /\ DataOK(query, Used, owed)
           /\ ShapeOK(query, Mounted # {})
           /\ owed \in Nat /\ ver \in Nat /\ owed <= ver /\ SceneOK /\ CallsOK /\ CallTypeOK
BY DEF CacheIInv, CacheTypeOK, Entry, CallTypeOK

\* Going to a page of the scene leaves open what is open in the frame.
LEMMA GonePlace ==
    ASSUME CacheIInv, scene' = scene, page' \in scene.pages,
           opened' = {q \in opened : q.page = "frame"}
    PROVE  PlaceOK'
BY DEF CacheIInv, CacheTypeOK, PlaceOK, Ungated

\* So does a move to another page.
LEMMA VisitStep ==
    ASSUME CacheIInv, NEW p \in scene.pages, Visit(p)
    PROVE  CacheIInv'
<1>1. PlaceOK' /\ CallTypeOK' /\ CallsOK'
  BY GonePlace, SameCalls DEF Visit, CacheIInv, CallsOK
<1>2. /\ NewOn(p) \in SUBSET scene.observers
      /\ Mounted' # {} => Mounted # {} \/ NewOn(p) # {}
      /\ Used' => Used \/ \E q \in NewOn(p) : MustFetch(query, q)
  BY GoneTo DEF Visit
<1>3. scene' = scene /\ ver' = ver /\ owed' = owed /\ query' \in Mount(query, NewOn(p), owed')
  BY DEF Visit
<1> QED
  BY <1>1, <1>2, <1>3, EntryNow, MountStep

\* So does an observer that is mounted.
LEMMA OpenStep ==
    ASSUME CacheIInv, NEW q \in scene.observers, Open(q)
    PROVE  CacheIInv'
<1>1. PlaceOK' /\ CallTypeOK' /\ CallsOK'
  <2>1. PlaceOK'
    BY DEF Open, CacheIInv, CacheTypeOK, PlaceOK, Ungated
  <2> QED
    BY <2>1, SameCalls DEF Open, CacheIInv, CallsOK
<1>2. {q} \in SUBSET scene.observers
  OBVIOUS
<1>3. Used' => Used \/ \E r \in {q} : MustFetch(query, r)
  <2> SUFFICES ASSUME Used', ~Used PROVE MustFetch(query, q)
    OBVIOUS
  <2>1. ~Lasting
    BY DEF Used
  <2> QED
    BY <2>1 DEF Lasting, MustFetch
<1>4. Mounted' # {} => Mounted # {} \/ {q} # {}
  OBVIOUS
<1>5. scene' = scene /\ ver' = ver /\ owed' = owed /\ query' \in Mount(query, {q}, owed')
  BY DEF Open
<1> QED
  BY <1>1, <1>2, <1>3, <1>4, <1>5, EntryNow, MountStep

\* So does one that is unmounted.
LEMMA CloseStep ==
    ASSUME CacheIInv, NEW q \in opened, Close(q)
    PROVE  CacheIInv'
<1>1. PlaceOK' /\ CallTypeOK' /\ CallsOK'
  <2>1. PlaceOK'
    BY DEF Close, CacheIInv, CacheTypeOK, PlaceOK, Ungated
  <2> QED
    BY <2>1, SameCalls DEF Close, CacheIInv, CallsOK
<1>2. Mounted' \subseteq Mounted
  BY DEF Close, Mounted, Shown, Ungated
<1>3. Used' => Used
  BY <1>2, SameScene DEF Used, Close
<1>4. scene' = scene /\ ver' = ver /\ owed' = owed /\ query' \in Mount(query, {}, owed')
  BY DEF Close, Mount
<1>5. {} \in SUBSET scene.observers
  OBVIOUS
<1> QED
  BY <1>1, <1>2, <1>3, <1>4, <1>5, EntryNow, MountStep

\* What an answer leaves of the entry: a key that is told is asked again or
\* marked; one that is not is known to be behind where it is shown, or is
\* fetched again by who comes back to it.
LEMMA AnsweredEntry ==
    ASSUME CacheIInv, TablesCover, NEW e \in scene.effects, NEW due \in Nat,
           owed <= due, ~e.changes => due = owed,
           NEW x, x = Answered(query, e, due)
    PROVE  /\ x \in Entry /\ FetchOK(x, due) /\ DataOK(x, Used, due)
           /\ ShapeOK(x, Mounted # {})
           /\ x.ver <= ver /\ x.seen <= ver
<1>1. query \in Entry /\ query.ver <= ver /\ query.seen <= ver /\ SceneOK
      /\ FetchOK(query, owed) /\ DataOK(query, Used, owed) /\ ShapeOK(query, Mounted # {})
      /\ owed \in Nat /\ ver \in Nat
  BY EntryNow
<1>2. query.floor \in Nat /\ query.seen \in Nat /\ query.ver \in Nat
  BY <1>1 DEF Entry
<1>3. LateOK(query, due)
  BY <1>1, <1>2 DEF FetchOK, LateOK
<1>4. CASE e.told
  <2>1. x = Invalidate(query, Mounted, due)
    BY <1>4 DEF Answered
  <2>2. /\ x \in Entry /\ FetchOK(x, due) /\ DataOK(x, Used, due)
        /\ ShapeOK(x, Mounted # {})
        /\ x.ver = query.ver /\ x.seen \in {0, query.seen}
    BY <1>1, <1>3, <2>1, InvalidateEntry
  <2> QED
    BY <1>1, <2>2
<1>5. CASE ~e.told
  <2> DEFINE missed == Misses(query, e)
  <2>1. x = [query EXCEPT !.behind = query.behind \/ missed]
    BY <1>5 DEF Answered
  <2>2. x \in Entry
    BY <1>1, <2>1 DEF Entry
  <2>3. x.has = query.has /\ x.holds = query.holds /\ x.ver = query.ver
        /\ x.marked = query.marked /\ x.fn = query.fn /\ x.busy = query.busy
        /\ x.asks = query.asks /\ x.seen = query.seen /\ x.floor = query.floor
    BY <1>1, <2>1 DEF Entry
  <2>4. x.behind = (query.behind \/ missed)
    BY <1>1, <2>1 DEF Entry
  <2>5. ~x.behind => ~query.behind /\ ~missed
    BY <2>4
  <2>6. FetchOK(x, due) /\ DataOK(x, Used, due)
    <3>1. CASE ~e.changes
      BY <1>1, <2>3, <2>5, <3>1 DEF FetchOK, DataOK
    <3>2. CASE e.changes
      <4>1. Covered(e, scene.observers)
        BY <1>1, SceneFacts DEF CoveredIn
      <4>2. e.untold \/ (e.unseen /\ ~Lasting)
        BY <4>1, <1>5, <3>2 DEF Covered, Lasting
      <4>3. ~missed => e.unseen /\ ~Lasting /\ ~query.busy /\ Mounted = {}
        BY <3>2, <4>2 DEF Misses
      <4>4. ~x.behind => ~query.busy /\ ~Used
        BY <2>5, <4>3 DEF Used
      <4>5. FetchOK(x, due)
        BY <1>3, <2>3, <4>4 DEF FetchOK, LateOK
      <4>6. DataOK(x, Used, due)
        BY <4>4 DEF DataOK
      <4> QED
        BY <4>5, <4>6
    <3> QED
      BY <3>1, <3>2
  <2>7. ShapeOK(x, Mounted # {})
    BY <1>1, <2>3 DEF ShapeOK
  <2> QED
    BY <1>1, <2>2, <2>3, <2>6, <2>7
<1> QED
  BY <1>4, <1>5

\* An answer: the entry it leaves, and where it takes the user.
LEMMA AnswerStep ==
    ASSUME CacheIInv, TablesCover, NEW c \in calls, Answer(c)
    PROVE  CacheIInv'
<1> DEFINE e == c.does
           x == Answered(query, e, owed')
           new == IF page' = page THEN {} ELSE NewOn(page')
<1>1. c \in [slot : Slots, does : scene.effects, at : Nat] /\ c.at <= ver
  BY EntryNow DEF CallTypeOK, CallsOK
<1>2. e \in scene.effects
  BY <1>1
<1>3. owed' = IF e.changes /\ c.at > owed THEN c.at ELSE owed
  BY DEF Answer
<1>4. owed' \in Nat /\ owed' <= ver /\ owed <= owed' /\ (~e.changes => owed' = owed)
  BY <1>1, <1>3, EntryNow
<1>5. /\ x \in Entry /\ FetchOK(x, owed') /\ DataOK(x, Used, owed')
      /\ ShapeOK(x, Mounted # {})
      /\ x.ver <= ver /\ x.seen <= ver
  BY <1>2, <1>4, AnsweredEntry
<1>6. query' \in Mount(x, new, owed')
  BY DEF Answer
<1> HIDE DEF x
<1>7. page' \in scene.pages
  BY <1>2, EntryNow, SceneFacts DEF Answer, Target, CacheIInv, CacheTypeOK
<1>8. scene' = scene /\ ver' = ver
  BY DEF Answer
<1>9. CallTypeOK' /\ CallsOK'
  BY <1>8, EntryNow DEF Answer, CallTypeOK, CallsOK
<1>10. CASE page' = page
  <2>1. opened' = opened /\ new = {}
    BY <1>10 DEF Answer
  <2>2. PlaceOK' /\ Mounted' = Mounted /\ (Used' <=> Used)
    BY <1>8, <1>10, <2>1, SamePlace, SameShown
  <2>3. {} \in SUBSET scene.observers
    OBVIOUS
  <2> QED
    BY <1>4, <1>5, <1>6, <1>8, <1>9, <2>1, <2>2, <2>3, MountStep
<1>11. CASE page' # page
  <2>1. opened' = {q \in opened : q.page = "frame"} /\ new = NewOn(page')
    BY <1>11 DEF Answer
  <2>2. PlaceOK'
    BY <1>7, <1>8, <2>1, GonePlace
  <2>3. /\ NewOn(page') \in SUBSET scene.observers
        /\ Mounted' # {} => Mounted # {} \/ NewOn(page') # {}
        /\ Used' => Used \/ \E q \in NewOn(page') : MustFetch(x, q)
    BY <1>7, <1>8, <1>11, <2>1, GoneTo
  <2> QED
    BY <1>4, <1>5, <1>6, <1>8, <1>9, <2>1, <2>2, <2>3, MountStep
<1> QED
  BY <1>10, <1>11

-----------------------------------------------------------------------------
\* The first mounting finds nothing in the cache.
LEMMA InitCacheIInv == CacheInit => CacheIInv
<1> SUFFICES ASSUME CacheInit PROVE CacheIInv
  OBVIOUS
<1>1. SceneOK /\ CallsOK /\ CallTypeOK
  BY DEF CacheInit, SceneOK, CallsOK, CallTypeOK
<1>2. PlaceOK
  BY <1>1, SceneFacts DEF CacheInit, PlaceOK
<1>3. Empty \in Entry
  BY DEF Empty, Entry, Asks
<1>4. FetchOK(Empty, 0) /\ DataOK(Empty, Used, 0)
      /\ ShapeOK(Empty, Mounted # {} /\ Mounted = {})
  BY DEF Empty, FetchOK, DataOK, ShapeOK
<1>5. Mountable(Empty, Mounted, Used, Mounted # {}, 0)
  <2>1. Mounted \in SUBSET scene.observers
    BY DEF Mounted, Shown
  <2> QED
    BY <1>3, <1>4, <2>1 DEF Mountable
<1>6. query \in Mount(Empty, Mounted, 0) /\ owed = 0 /\ ver = 1
  BY DEF CacheInit
<1>7. Sound(Empty, query, Used, Mounted # {}, 0)
  BY <1>1, <1>5, <1>6, MountEntry
<1>8. query.ver <= ver /\ query.seen <= ver
  BY <1>6, <1>7 DEF Sound, Empty
<1> QED
  BY <1>1, <1>2, <1>6, <1>7, <1>8, TypeParts DEF CacheIInv, Sound

\* A step that changes nothing preserves the invariant.
LEMMA CacheStutter == ASSUME CacheIInv, UNCHANGED cacheVars PROVE CacheIInv'
<1>1. UNCHANGED <<scene, page, opened, query, calls, ver, owed>>
  BY DEF cacheVars
<1>2. CallTypeOK' /\ CallsOK'
  BY <1>1, SameCalls DEF CallsOK, CacheIInv
<1> QED
  BY <1>1, <1>2, EntryNow, ServerStep

\* The invariant is one, whatever the tables are: what they must say is only
\* that calls are covered.
THEOREM CacheInvariance == ASSUME TablesCover PROVE CacheSpec => []CacheIInv
<1>1. CacheIInv /\ [CacheNext]_cacheVars => CacheIInv'
  <2> SUFFICES ASSUME CacheIInv, [CacheNext]_cacheVars PROVE CacheIInv'
    OBVIOUS
  <2>1. CASE \E p \in scene.pages : Visit(p)
    BY <2>1, VisitStep
  <2>2. CASE \E q \in scene.observers : Open(q) \/ Close(q) \/ Render(q)
    BY <2>2, OpenStep, CloseStep, RenderStep DEF Close
  <2>3. CASE Poll \/ Collect \/ Read \/ Arrive \/ FetchFails \/ OthersWrite
    BY <2>3, PollStep, CollectStep, ReadStep, ArriveStep, FetchFailsStep, OthersWriteStep
  <2>4. CASE \E s \in Slots, e \in scene.effects : Send(s, e)
    BY <2>4, SendStep
  <2>5. CASE \E c \in calls : Land(c) \/ CallFails(c) \/ Answer(c)
    BY <2>5, LandStep, CallFailsStep, AnswerStep
  <2>6. CASE UNCHANGED cacheVars
    BY <2>6, CacheStutter
  <2> QED
    BY <2>1, <2>2, <2>3, <2>4, <2>5, <2>6 DEF CacheNext
<1> QED
  BY <1>1, InitCacheIInv, PTL DEF CacheSpec

\* The variables of the cache keep their types.
THEOREM CacheTypes == ASSUME TablesCover PROVE CacheSpec => []CacheTypeOK
<1>1. CacheIInv => CacheTypeOK
  BY DEF CacheIInv
<1> QED
  BY <1>1, CacheInvariance, PTL

\* A user reads what they wrote: what a page shows without fetching, and does
\* not know to be out of date, has every change that a call of this user made
\* and that was answered, whatever fetches and calls are in flight, fail or
\* overtake each other and wherever the user goes meanwhile.
THEOREM UsersReadTheirWrites == ASSUME TablesCover PROVE CacheSpec => []ReadYourWrites
<1>1. CacheIInv => ReadYourWrites
  BY DEF CacheIInv, DataOK, Used, ReadYourWrites
<1> QED
  BY <1>1, CacheInvariance, PTL

\* Pages that share a key agree on the shape of what they store under it, if
\* their queries do: no fetch, joined, retried or asked for by another page,
\* brings the shape of a third.
ShapesAgree == \A k \in Keys \ Mixed : \A q, r \in Observers(k) : q.holds = r.holds

\* Queries that agree on a key's shape find no other shape under it.
THEOREM SharedKeysAgree ==
    ASSUME TablesCover, ShapesAgree
    PROVE  CacheSpec => []KeysAgree
<1>1. CacheIInv => KeysAgree
  <2> SUFFICES ASSUME CacheIInv, scene.key \notin Mixed, NEW q \in Mounted, query.has
               PROVE  query.holds = q.holds
    BY DEF KeysAgree
  <2>1. q \in scene.observers
    BY DEF Mounted, Shown
  <2>2. PICK r \in scene.observers : query.holds = r.holds
    BY DEF CacheIInv, ShapeOK, Shapes
  <2>3. scene.key \in Keys /\ scene.observers = Observers(scene.key)
    BY SceneFacts DEF CacheIInv
  <2> QED
    BY <2>1, <2>2, <2>3 DEF ShapesAgree
<1> QED
  BY <1>1, CacheInvariance, PTL
=============================================================================
