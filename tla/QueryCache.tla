----------------------------- MODULE QueryCache -----------------------------
(* The cache of server data in the browser (TanStack Query 5 as App.tsx       *)
(* configures it: one retry, no refetch on focus) and the pages that read it. *)
(* A behaviour follows one key: its observers come and go with the pages,     *)
(* a fetch reads the server and answers later, calls change the server, are   *)
(* answered, invalidate the keys they tell and may navigate.  ver numbers the *)
(* states of the data under the key on the server; the tables of ClientTables *)
(* are the constants.                                                         *)
EXTENDS Naturals, Sequences

CONSTANTS Queries, Writes,  \* what pages read and change: tables Q and W
          Untold,           \* pairs of a key and a call on a page that shows the
                            \* data the call changes and is not told
          Mixed,            \* keys under which two shapes are stored
          Slots,            \* calls that may be in flight together
          MaxVer            \* bound on the changes of the data on the server

ASSUME BoundAssumption == MaxVer \in Nat \ {0}

VARIABLES scene,   \* the key that is followed and what concerns it
          page,    \* the page that is shown
          opened,  \* gated observers that are mounted or enabled now
          query,   \* the cache entry and its fetch
          calls,   \* the calls in flight, each in a slot of its own
          ver,     \* the current state of the data on the server
          owed     \* the newest state made by a call that was answered here

cacheVars == <<scene, page, opened, query, calls, ver, owed>>

-----------------------------------------------------------------------------
Keys == {q.key : q \in Queries}

Observers(k) == {q \in Queries : q.key = k}

Ungated(q) == "gated" \notin q.how

(* invalidateQueries matches the keys that start with the one it is given.    *)
Told(w, k) == \E p \in w.tells : Len(p) <= Len(k) /\ SubSeq(k, 1, Len(p)) = p

(* What a call means for a key: whether it changes the data, whether its      *)
(* onSuccess tells the key, and whether it need not: neither the page that    *)
(* calls nor the frame shows the key; or that it is one of Untold.  Calls     *)
(* that mean the same are one.                                                *)
Changes(w, obs) == \E q \in obs : w.writes \cap q.reads # {}

Effect(w, k, obs) ==
    [page |-> w.page, goes |-> w.goes, here |-> "here" \in w.ends,
     changes |-> Changes(w, obs),
     told    |-> Told(w, k),
     unseen  |-> \A q \in obs : q.page # w.page /\ (q.page = "frame" => ~Ungated(q)),
     untold  |-> <<k, w.call>> \in Untold]

Scene(k) ==
    LET obs == Observers(k)
        effects == {Effect(w, k, obs) : w \in {v \in Writes : Changes(v, obs) \/ Told(v, k)}}
    IN [key |-> k, observers |-> obs, effects |-> effects,
        pages |-> ( {q.page : q \in obs} \cup {e.page : e \in effects} \cup {"elsewhere"} )
                  \ {"frame"}]

Shown(p, open) ==
    {q \in scene.observers : q.page \in {"frame", p} /\ (Ungated(q) \/ q \in open)}

Mounted == Shown(page, opened)

-----------------------------------------------------------------------------
(* Query.fetch: a running fetch is joined, unless it is asked to be cancelled *)
(* and there is data to show meanwhile.  behind marks an entry that may miss  *)
(* a change this user was told is done: its fetch began before, or failed.    *)
Request(x, holds, cancels, due) ==
    IF ~x.busy \/ (cancels /\ x.has)
    THEN [x EXCEPT !.busy = TRUE, !.asks = holds, !.seen = 0, !.floor = due, !.behind = FALSE]
    ELSE [x EXCEPT !.behind = @ \/ x.floor < due]

(* invalidateQueries: mark, and refetch what is shown with the query function *)
(* of the observer that rendered last.  A fetch nobody shows runs on, and its *)
(* answer clears the mark.                                                    *)
Invalidate(x, shown, due) ==
    IF shown # {} THEN Request([x EXCEPT !.marked = TRUE], x.fn, TRUE, due)
    ELSE [x EXCEPT !.marked = TRUE, !.behind = @ \/ (x.busy /\ x.floor < due)]

(* Mutant: the client has a default staleTime.                                *)
MutantMustFetch(x, q) == ~x.has \/ x.marked

(* An observer that mounts fetches what is missing, marked or has no          *)
(* staleTime; with one, it fetches when the time is over.                     *)
MustFetch(x, q) == ~x.has \/ x.marked \/ "fresh" \notin q.how

Renders(x, q) == [x EXCEPT !.fn = q.holds]

Mount(x, new, due) ==
    IF new = {} THEN {x}
    ELSE {Request(Renders(x, q), q.holds, FALSE, due) : q \in new}
         \cup IF \E q \in new : MustFetch(x, q) THEN {} ELSE {Renders(x, q) : q \in new}

Empty == [has |-> FALSE, holds |-> "nothing", ver |-> 0, marked |-> FALSE, fn |-> "nothing",
          busy |-> FALSE, asks |-> "nothing", seen |-> 0, floor |-> 0, behind |-> FALSE]

CacheInit ==
    /\ scene \in {Scene(k) : k \in Keys}
    /\ page = "elsewhere"
    /\ opened = {}
    /\ query \in Mount(Empty, Mounted, 0)
    /\ calls = {}
    /\ ver = 1
    /\ owed = 0

-----------------------------------------------------------------------------
(* The user goes to a page: its queries mount, those of the frame stay.       *)
NewOn(p) == {q \in scene.observers : q.page = p /\ Ungated(q)}

(* Mutant: what is open on the page stays open behind the next one.           *)
MutantVisit(p) ==
    /\ p # page
    /\ page' = p
    /\ query' \in Mount(query, NewOn(p), owed)
    /\ UNCHANGED <<scene, opened, calls, ver, owed>>

Visit(p) ==
    /\ p # page
    /\ page' = p
    /\ opened' = {q \in opened : q.page = "frame"}
    /\ query' \in Mount(query, NewOn(p), owed)
    /\ UNCHANGED <<scene, calls, ver, owed>>

Open(q) ==
    /\ ~Ungated(q) /\ q \notin opened /\ q.page \in {"frame", page}
    /\ opened' = opened \cup {q}
    /\ query' \in Mount(query, {q}, owed)
    /\ UNCHANGED <<scene, page, calls, ver, owed>>

Close(q) ==
    /\ q \in opened
    /\ opened' = opened \ {q}
    /\ UNCHANGED <<scene, page, query, calls, ver, owed>>

(* Rendering an observer gives its query function to the entry.               *)
Render(q) ==
    /\ q \in Mounted /\ query.fn # q.holds
    /\ query' = Renders(query, q)
    /\ UNCHANGED <<scene, page, opened, calls, ver, owed>>

(* Mutant: polls until there is an answer.                                    *)
MutantPoll ==
    /\ \E q \in Mounted : "polled" \in q.how
    /\ ~query.busy /\ ~query.has
    /\ query' = Request(query, query.fn, FALSE, owed)
    /\ UNCHANGED <<scene, page, opened, calls, ver, owed>>

(* refetchInterval.                                                           *)
Poll ==
    /\ \E q \in Mounted : "polled" \in q.how
    /\ ~query.busy
    /\ query' = Request(query, query.fn, FALSE, owed)
    /\ UNCHANGED <<scene, page, opened, calls, ver, owed>>

(* gcTime: data nobody shows is dropped after five minutes.                   *)
Collect ==
    /\ Mounted = {} /\ query.has /\ ~query.busy
    /\ query' = Empty
    /\ UNCHANGED <<scene, page, opened, calls, ver, owed>>

-----------------------------------------------------------------------------
(* A fetch reads the server, then its answer arrives; or both tries fail.     *)
Read ==
    /\ query.busy /\ query.seen = 0
    /\ query' = [query EXCEPT !.seen = ver]
    /\ UNCHANGED <<scene, page, opened, calls, ver, owed>>

Arrive ==
    /\ query.busy /\ query.seen # 0
    /\ query' = [query EXCEPT !.has = TRUE, !.holds = query.asks, !.ver = query.seen,
                              !.marked = FALSE, !.busy = FALSE, !.seen = 0]
    /\ UNCHANGED <<scene, page, opened, calls, ver, owed>>

FetchFails ==
    /\ query.busy
    /\ query' = [query EXCEPT !.busy = FALSE, !.seen = 0, !.behind = TRUE]
    /\ UNCHANGED <<scene, page, opened, calls, ver, owed>>

(* Others, and the jobs on the server, change the data too.                   *)
OthersWrite ==
    /\ ver < MaxVer
    /\ ver' = ver + 1
    /\ UNCHANGED <<scene, page, opened, query, calls, owed>>

-----------------------------------------------------------------------------
(* A call is sent, done by the server, and answered, or it fails on the way.  *)
Send(s, e) ==
    /\ e.page \in {"frame", page}
    /\ \A c \in calls : c.slot # s
    /\ calls' = calls \cup {[slot |-> s, does |-> e, at |-> 0]}
    /\ UNCHANGED <<scene, page, opened, query, ver, owed>>

Land(c) ==
    /\ c.at = 0
    /\ ver' = IF c.does.changes THEN ver + 1 ELSE ver
    /\ ver' <= MaxVer
    /\ calls' = (calls \ {c}) \cup {[c EXCEPT !.at = ver']}
    /\ UNCHANGED <<scene, page, opened, query, owed>>

CallFails(c) ==
    /\ calls' = calls \ {c}
    /\ UNCHANGED <<scene, page, opened, query, ver, owed>>

(* What the answer of a call does to the entry.  A change of another page, of *)
(* which the key is not told, is missed by what shows the key by then, and    *)
(* one of Untold is missed until the next fetch begins.                       *)
Misses(x, e) ==
    e.changes /\ (e.untold \/ (e.unseen /\ (x.busy \/ Mounted # {})))

Answered(x, e, due) ==
    IF e.told THEN Invalidate(x, Mounted, due)
    ELSE [x EXCEPT !.behind = @ \/ Misses(x, e)]

(* Callbacks given to useMutation run wherever the user is by then, the ones  *)
(* given to mutate only on the page that called.                              *)
Target(e) ==
    IF e.goes = "stays" \/ (e.here /\ e.page \notin {"frame", page}) THEN page
    ELSE IF e.goes \in scene.pages THEN e.goes ELSE "elsewhere"

Answer(c) ==
    LET due == IF c.does.changes /\ c.at > owed THEN c.at ELSE owed
    IN /\ c.at # 0
       /\ calls' = calls \ {c}
       /\ owed' = due
       /\ page' = Target(c.does)
       /\ opened' = IF page' = page THEN opened ELSE {q \in opened : q.page = "frame"}
       /\ query' \in Mount(Answered(query, c.does, due),
                           IF page' = page THEN {} ELSE NewOn(page'), due)
       /\ UNCHANGED <<scene, ver>>

CacheNext ==
    \/ \E p \in scene.pages : Visit(p)
    \/ \E q \in scene.observers : Open(q) \/ Close(q) \/ Render(q)
    \/ Poll \/ Collect \/ Read \/ Arrive \/ FetchFails \/ OthersWrite
    \/ \E s \in Slots, e \in scene.effects : Send(s, e)
    \/ \E c \in calls : Land(c) \/ CallFails(c) \/ Answer(c)

(* The interval timer of a mounted observer fires, a fetch gets to the server *)
(* and does not fail every time.                                              *)
CacheFairness == WF_cacheVars(Poll) /\ SF_cacheVars(Read) /\ SF_cacheVars(Arrive)

CacheSpec == CacheInit /\ [][CacheNext]_cacheVars /\ CacheFairness

-----------------------------------------------------------------------------
Asks == {"nothing"} \cup {q.holds : q \in Queries}

CacheTypeOK ==
    /\ page \in scene.pages
    /\ opened \subseteq {q \in scene.observers : q.page \in {"frame", page} /\ ~Ungated(q)}
    /\ query \in [has : BOOLEAN, holds : Asks, ver : Nat, marked : BOOLEAN, fn : Asks,
                  busy : BOOLEAN, asks : Asks, seen : Nat, floor : Nat, behind : BOOLEAN]
    /\ calls \subseteq [slot : Slots, does : scene.effects, at : Nat]
    /\ ver \in Nat /\ owed \in Nat
    /\ owed <= ver /\ query.ver <= ver

(* What a page shows, once it is neither fetching nor known to be out of      *)
(* date, has every change this user made and was told is done: onSuccess      *)
(* invalidates, or coming back to the page fetches again.                     *)
ReadYourWrites ==
    Mounted # {} /\ query.has /\ ~query.busy /\ ~query.marked /\ ~query.behind
    => query.ver >= owed

(* Why it can: a call that changes what a key shows tells the key, or its     *)
(* page does not show the key and coming back to the key fetches again; the   *)
(* pairs of Untold are the exceptions.                                        *)
Covered(e, obs) ==
    e.changes => e.told \/ e.untold \/ (e.unseen /\ \A q \in obs : "fresh" \notin q.how)

CoveredIn(s) == \A e \in s.effects : Covered(e, s.observers)

TablesCover == \A k \in Keys : CoveredIn(Scene(k))

(* Components that share a key store the same shape under it ("Reuse existing *)
(* queries (shared cache keys)", PinnedServices.tsx:26), but for Mixed.       *)
KeysAgree ==
    scene.key \notin Mixed => \A q \in Mounted : query.has => query.holds = q.holds

(* A page that polls ends up showing what the server has, whoever changed it. *)
PolledCatchesUp ==
    <>[](\E q \in Mounted : "polled" \in q.how) => []<>(query.has /\ query.ver = ver)
=============================================================================
