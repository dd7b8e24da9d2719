------------------------- MODULE SecretToolsProofs -------------------------
(***************************************************************************)
(* Theorems about the secret client and the servers on top of it, for any  *)
(* number of processes, requests, items, edits, crashes and expiries.      *)
(*                                                                         *)
(*   ClientInv     types, and what a request at a label can rely on        *)
(*   FreshInv      nothing cached, or about to be, is older than it says   *)
(*   HousedInv     who holds an id of the folder, holds one that has been  *)
(*                 there                                                   *)
(*   WithdrawnInv  what is known to be gone from a folder is in no file,   *)
(*                 no memory and no request from which it could come back  *)
(*                                                                         *)
(* Each comes with its lemmas: first what kinds of step do, then the       *)
(* actions one by one, then the initial states, a step and the theorem.    *)
(***************************************************************************)
EXTENDS SecretTools, TLAPS

(* The types of TypeOK, those of a request and of a process by name.       *)
Label ==
  Loading \cup Refreshing \cup
  {"idle", "path", "cache", "reading", "fetch", "object", "fill", "save", "maps",
   "names", "create", "read", "edit", "remove", "sync", "cred"}

Operation ==
  {"none", "get", "fields", "list", "info", "service", "credential", "ranked",
   "object", "primary", "refresh", "create", "update", "delete", "clear", "cred"}

Request ==
  [pc : Label, at : Proc \cup {None}, op : Operation, name : Name \cup {None},
   path : Name \cup {None}, scoped : BOOLEAN, names : SUBSET Name,
   snap : Listing \cup {None}, id : Id \cup {None},
   item : Item \cup {None}, gone : SUBSET Name, barred : SUBSET Name,
   given : SUBSET Name, lag : 0 .. TTL + 1]

Cache == [loaded : BOOLEAN, entry : Entries]
Server == [kind : {"mcp", "mcp2", "rest", "proxy"}, up : BOOLEAN,
           folder : BOOLEAN, names : SUBSET Name]

ExternalOK == /\ vault \in [Id -> Item \cup {None}] /\ edits \in 0 .. MaxEdits
              /\ since \in [Name -> [Value -> 0 .. TTL + 1]] /\ housed \subseteq Id
CachesOK == disk \in Entries \cup {None, Torn} /\ mem \in [Proc -> Cache]
SnapshotsOK == /\ snapDisk \in Listing \cup {None} /\ snapTmp \in Listing \cup {None}
               /\ snapMem \in [Proc -> Listing \cup {None}]
ServerOK == server \in [Proc -> Server]
BoundsOK == races \in 0 .. MaxRaces /\ crashes \in 0 .. MaxCrashes /\ ticks \in 0 .. MaxTicks
HistoryOK == withdrawn \in [Proc -> SUBSET Name] /\ filed \subseteq Name

TheRest == /\ ExternalOK /\ CachesOK /\ SnapshotsOK /\ ServerOK /\ BoundsOK /\ HistoryOK

(* What a request at a label can rely on: a live process, a name, a path   *)
(* made of it, an item it has fetched, an id it has found, a file to read. *)
Placed(q, srv, file) ==
  /\ q.pc # "idle" => q.at \in Proc /\ srv[q.at].up
  /\ q.pc = "create" => q.name \in Name
  /\ \/ q.pc \in {"fetch", "object", "fallback", "fill"}
     \/ q.pc \in {"cache", "reading", "save"} /\ q.op # "clear"
     => q.path \in Name
  /\ q.pc \in {"fill", "edit"} => q.item \in Item
  /\ q.pc \in {"read", "edit", "remove"} => q.id \in Id
  /\ q.pc = "reading" => file # None

InFlight == \A r \in Req : Placed(req[r], server, disk)

ClientInv == TheRest /\ req \in [Req -> Request] /\ InFlight

(* The types of TypeOK, sorted.                                            *)
LEMMA TypesSorted == TypeOK <=> TheRest /\ req \in [Req -> Request]
BY DEF TypeOK, TheRest, ExternalOK, CachesOK, SnapshotsOK, ServerOK, BoundsOK, HistoryOK,
       Request, Label, Operation, Cache, Server

-----------------------------------------------------------------------------
(* One request moves on.                                                   *)
Turns(r, new) == req' = [req EXCEPT ![r] = new]

(* The others stay what they are ...                                       *)
LEMMA TurnOfOne ==
  ASSUME req \in [Req -> Request], NEW r \in Req, NEW new \in Request, Turns(r, new)
  PROVE  /\ req' \in [Req -> Request] /\ req'[r] = new
         /\ \A q \in Req : q # r => req'[q] = req[q]
BY DEF Turns

(* ... and what they rely on stays true.                                   *)
LEMMA TurnKeeps ==
  ASSUME ClientInv, NEW r \in Req, NEW new \in Request, Turns(r, new), TheRest',
         Placed(new, server', disk'), disk # None => disk' # None,
         \A p \in Proc : server[p].up => server'[p].up
  PROVE  ClientInv'
<1>1. req' \in [Req -> Request] /\ req'[r] = new /\ \A q \in Req : q # r => req'[q] = req[q]
  BY TurnOfOne DEF ClientInv
<1>2. ASSUME NEW q \in Req PROVE Placed(req'[q], server', disk')
  <2>1. CASE q = r
    BY <1>1, <2>1
  <2>2. CASE q # r
    <3>1. Placed(req[q], server, disk) /\ req'[q] = req[q]
      BY <1>1, <2>2 DEF ClientInv, InFlight
    <3> QED
      BY <3>1 DEF Placed
  <2> QED
    BY <2>1, <2>2
<1> QED
  BY <1>1, <1>2 DEF ClientInv, InFlight

(* A step that changes nothing but its request.                            *)
Only(r, new) == Turns(r, new) /\ UNCHANGED <<external, files, memory, bounds, history>>

(* What no step of the request touches keeps its types.                    *)
LEMMA RestUnchanged ==
  ASSUME TheRest, UNCHANGED <<external, files, memory, bounds, history>> PROVE TheRest'
BY DEF external, files, memory, bounds, history, TheRest, ExternalOK, CachesOK, SnapshotsOK,
       ServerOK, BoundsOK, HistoryOK

(* A step that changes nothing but its own request.                        *)
LEMMA OnlyKeeps ==
  ASSUME ClientInv, NEW r \in Req, NEW new \in Request, Only(r, new), Placed(new, server, disk)
  PROVE  ClientInv'
<1>1. TheRest' /\ server' = server /\ disk' = disk
  BY RestUnchanged DEF ClientInv, Only, memory, files
<1> QED
  BY <1>1, TurnKeeps DEF Only

(* Forms that a request takes: at another label, ...                       *)
LEMMA Relabelled ==
  ASSUME NEW q \in Request, NEW label \in Label
  PROVE  LET new == [q EXCEPT !.pc = label] IN
         /\ new \in Request /\ new.pc = label /\ new.at = q.at /\ new.op = q.op
         /\ new.name = q.name /\ new.path = q.path /\ new.item = q.item /\ new.id = q.id
BY DEF Request

(* ... at rest, ...                                                        *)
LEMMA IdleForm == Idle \in Request
BY SecretClientAssumption DEF Idle, Request, Label, Operation

(* ... answered, ...                                                       *)
IsAnswer(q, given, lag) ==
  /\ q \in Request /\ q.pc = "idle" /\ q.at = None /\ q.op = "none" /\ q.scoped = FALSE
  /\ q.snap = None /\ q.gone = {} /\ q.barred = {} /\ q.given = given /\ q.lag = lag

(* An answer is an idle request with what was given and how old it was.    *)
LEMMA AnsweredForm ==
  ASSUME NEW r \in Req, req[r] \in Request, NEW names, NEW lag \in 0 .. TTL + 1
  PROVE  IsAnswer(Answered(r, names, lag), names \cap req[r].barred, lag)
<1>1. req[r].barred \subseteq Name
  BY DEF Request
<1>2. /\ Idle.pc = "idle" /\ Idle.at = None /\ Idle.op = "none" /\ Idle.snap = None
      /\ Idle.gone = {} /\ Idle.barred = {} /\ Idle.scoped = FALSE
  BY DEF Idle
<1> DEFINE given == names \cap req[r].barred
<1>3. given \subseteq Name
  BY <1>1
<1> HIDE DEF given
<1> DEFINE new == [Idle EXCEPT !.given = given, !.lag = lag]
<1>4. new \in Request
  BY <1>3, IdleForm DEF Request
<1>5. /\ new.pc = Idle.pc /\ new.at = Idle.at /\ new.op = Idle.op /\ new.snap = Idle.snap
      /\ new.gone = Idle.gone /\ new.barred = Idle.barred /\ new.scoped = Idle.scoped
      /\ new.given = given /\ new.lag = lag
  BY DEF Idle
<1>6. new = Answered(r, names, lag)
  BY DEF Answered, given
<1> HIDE DEF new
<1> QED
  BY <1>2, <1>4, <1>5, <1>6 DEF given, IsAnswer

(* ... which leaves nothing to rely on.                                    *)
LEMMA ReplyKeeps ==
  ASSUME ClientInv, NEW r \in Req, NEW names, NEW lag \in 0 .. TTL + 1, Reply(r, names, lag),
         TheRest', disk # None => disk' # None,
         \A p \in Proc : server[p].up => server'[p].up
  PROVE  ClientInv'
<1>1. req[r] \in Request
  BY DEF ClientInv
<1> DEFINE new == Answered(r, names, lag)
<1>2. IsAnswer(new, names \cap req[r].barred, lag)
  BY <1>1, AnsweredForm
<1>3. Turns(r, new)
  BY DEF Reply, Turns
<1> HIDE DEF new
<1>4. Placed(new, server', disk') /\ new \in Request
  BY <1>2 DEF Placed, IsAnswer
<1> QED
  BY <1>3, <1>4, TurnKeeps

(* A step that does nothing but answer ...                                 *)
LEMMA OnlyReplyKeeps ==
  ASSUME ClientInv, NEW r \in Req, NEW names, NEW lag \in 0 .. TTL + 1, Reply(r, names, lag),
         UNCHANGED <<external, files, memory, bounds, history>>
  PROVE  ClientInv'
<1>1. TheRest' /\ server' = server /\ disk' = disk
  BY RestUnchanged DEF ClientInv, memory, files
<1> QED
  BY <1>1, ReplyKeeps

(* ... or give up.                                                         *)
LEMMA FailKeeps ==
  ASSUME ClientInv, NEW r \in Req, Fail(r),
         UNCHANGED <<external, files, memory, bounds, history>>
  PROVE  ClientInv'
<1>1. Reply(r, {}, 0) /\ 0 \in 0 .. TTL + 1
  BY SecretClientAssumption DEF Fail
<1> QED
  BY <1>1, OnlyReplyKeeps

(* A request that goes to another label with all it has.                   *)
LEMMA GotoKeeps ==
  ASSUME ClientInv, NEW r \in Req, NEW label \in Label, Goto(r, label),
         Placed([req[r] EXCEPT !.pc = label], server', disk'),
         TheRest', disk # None => disk' # None,
         \A p \in Proc : server[p].up => server'[p].up
  PROVE  ClientInv'
<1> DEFINE new == [req[r] EXCEPT !.pc = label]
<1>1. new \in Request
  BY Relabelled DEF ClientInv
<1>2. Turns(r, new)
  BY DEF Goto, Turns
<1> HIDE DEF new
<1>3. Placed(new, server', disk')
  BY DEF new
<1> QED
  BY <1>1, <1>2, <1>3, TurnKeeps

-----------------------------------------------------------------------------
(* Steps that change the cache of their process.                           *)
LEMMA MemChanges ==
  ASSUME TheRest, mem' \in [Proc -> Cache],
         UNCHANGED <<external, files, snapMem, server, bounds, history>>
  PROVE  TheRest'
BY DEF external, files, bounds, history, TheRest, ExternalOK, CachesOK, SnapshotsOK,
       ServerOK, BoundsOK, HistoryOK

(* load() of the cache.                                                    *)
LEMMA OpenKeeps ==
  ASSUME ClientInv, NEW r \in Req, OpenMissing(r) \/ Open(r) PROVE ClientInv'
<1>1. /\ req \in [Req -> Request] /\ Placed(req[r], server, disk) /\ req[r].pc = "cache"
      /\ TheRest
  BY DEF ClientInv, InFlight, OpenMissing, Open, At
<1>2. CASE OpenMissing(r)
  <2>1. Home(r) \in Proc /\ mem' = [mem EXCEPT ![Home(r)].loaded = TRUE]
    BY <1>1, <1>2 DEF OpenMissing, Placed, Home
  <2>2. mem' \in [Proc -> Cache]
    BY <1>1, <2>1 DEF TheRest, CachesOK, Cache
  <2>3. TheRest'
    BY <1>1, <1>2, <2>2, MemChanges DEF OpenMissing
  <2> QED
    BY <1>2, <2>3 DEF OpenMissing, ClientInv, InFlight, files
<1>3. CASE Open(r)
  <2>1. Goto(r, "reading") /\ disk # None /\ UNCHANGED <<external, files, memory, bounds, history>>
    BY <1>3 DEF Open
  <2>2. TheRest' /\ server' = server /\ disk' = disk
    BY <1>1, <2>1, RestUnchanged DEF memory, files
  <2>3. Placed([req[r] EXCEPT !.pc = "reading"], server', disk')
    BY <1>1, <2>1, <2>2, Relabelled DEF Placed, Label
  <2>4. "reading" \in Label
    BY DEF Label
  <2> QED
    BY <2>1, <2>2, <2>3, <2>4, GotoKeeps
<1> QED
  BY <1>2, <1>3

(* load() reads the cache file, which may be torn or missing.              *)
LEMMA ReadCacheKeeps ==
  ASSUME ClientInv, NEW r \in Req, ReadCache(r) PROVE ClientInv'
<1> DEFINE p == Home(r)
           merged == [n \in Name |-> IF disk[n] # None THEN disk[n] ELSE mem[p].entry[n]]
<1>1. /\ req \in [Req -> Request] /\ Placed(req[r], server, disk) /\ req[r].pc = "reading"
      /\ TheRest /\ UNCHANGED <<external, files, snapMem, server, bounds, history>>
  BY DEF ClientInv, InFlight, ReadCache, At
<1>2. p \in Proc /\ disk # None
  BY <1>1 DEF Placed, Home
<1>3. CASE Fail(r) /\ mem' = mem
  BY <1>1, <1>3, FailKeeps DEF memory
<1>4. CASE disk # Torn /\ Goto(r, "cache")
           /\ mem' = [mem EXCEPT ![p] = [loaded |-> TRUE, entry |-> merged]]
  <2>1. disk \in Entries /\ mem[p].entry \in Entries
    BY <1>1, <1>2, <1>4 DEF TheRest, CachesOK, Cache
  <2>2. merged \in Entries
    BY <2>1 DEF Entries
  <2> HIDE DEF merged
  <2>3. mem' \in [Proc -> Cache]
    BY <1>1, <1>2, <1>4, <2>2 DEF TheRest, CachesOK, Cache
  <2>4. TheRest' /\ server' = server /\ disk' = disk
    BY <1>1, <2>3, MemChanges DEF files
  <2>5. Placed([req[r] EXCEPT !.pc = "cache"], server', disk')
    BY <1>1, <2>4, Relabelled DEF Placed, Label
  <2>6. "cache" \in Label
    BY DEF Label
  <2> QED
    BY <1>4, <2>4, <2>5, <2>6, GotoKeeps
<1> QED
  BY <1>3, <1>4 DEF ReadCache

(* What a request that looks into the cache finds there: types.            *)
LEMMA LooksAt ==
  ASSUME ClientInv, NEW r \in Req, Looks(r)
  PROVE  /\ Home(r) \in Proc /\ req[r].path \in Name /\ req[r] \in Request /\ req[r].pc = "cache"
         /\ Entry(r) \in [val : Value, age : 0 .. TTL + 1] \cup {None}
         /\ Placed(req[r], server, disk)
BY DEF ClientInv, InFlight, Looks, At, Home, Placed, Entry, TheRest, CachesOK, Cache, Entries

(* get() answers from the cache ...                                        *)
LEMMA HitKeeps ==
  ASSUME ClientInv, NEW r \in Req, Hit(r) PROVE ClientInv'
<1>1. since[req[r].path][Entry(r).val] \in 0 .. TTL + 1
  BY LooksAt DEF Hit, Live, ClientInv, TheRest, ExternalOK
<1> QED
  BY <1>1, OnlyReplyKeeps DEF Hit

(* ... or drops an expired entry and goes on.                              *)
LEMMA MissKeeps ==
  ASSUME ClientInv, NEW r \in Req, Miss(r) PROVE ClientInv'
<1>1. /\ Home(r) \in Proc /\ req[r].path \in Name /\ req[r] \in Request /\ req[r].pc = "cache"
      /\ Placed(req[r], server, disk)
      /\ mem' = [mem EXCEPT ![Home(r)].entry[req[r].path] = None] /\ Goto(r, "fetch")
      /\ UNCHANGED <<external, files, snapMem, server, bounds, history>>
  BY LooksAt DEF Miss
<1>2. mem' \in [Proc -> Cache]
  BY <1>1 DEF ClientInv, TheRest, CachesOK, Cache, Entries
<1>3. TheRest' /\ server' = server /\ disk' = disk
  BY <1>1, <1>2, MemChanges DEF ClientInv, files
<1>4. Placed([req[r] EXCEPT !.pc = "fetch"], server', disk')
  BY <1>1, <1>3, Relabelled DEF Placed, Label
<1>5. "fetch" \in Label
  BY DEF Label
<1> QED
  BY <1>1, <1>3, <1>4, <1>5, GotoKeeps

(* set() of what was fetched.                                              *)
LEMMA FillKeeps ==
  ASSUME ClientInv, NEW r \in Req, Fill(r) PROVE ClientInv'
<1> DEFINE n == req[r].path
           new == [req[r] EXCEPT !.pc = "save", !.item = None]
<1>1. /\ Home(r) \in Proc /\ n \in Name /\ req[r] \in Request /\ req[r].pc = "fill"
      /\ req[r].item \in Item /\ Placed(req[r], server, disk) /\ TheRest
      /\ UNCHANGED <<external, files, snapMem, server, bounds, history>>
  BY DEF Fill, ClientInv, InFlight, At, Home, Placed
<1>2. PICK evicted \in Evictable(n) :
        mem' = [mem EXCEPT ![Home(r)].entry = [x \in Name |->
          IF x = n THEN [val |-> req[r].item.val, age |-> 0]
          ELSE IF x \in evicted THEN None ELSE @[x]]]
  BY DEF Fill
<1>3. mem' \in [Proc -> Cache]
  BY <1>1, <1>2, SecretClientAssumption DEF TheRest, CachesOK, Cache, Entries, Item
<1>4. TheRest' /\ server' = server /\ disk' = disk
  BY <1>1, <1>3, MemChanges DEF files
<1>5. new \in Request /\ Placed(new, server', disk')
  BY <1>1, <1>4 DEF Request, Label, Placed
<1>6. Turns(r, new)
  BY DEF Fill, Turns
<1> QED
  BY <1>4, <1>5, <1>6, TurnKeeps

(* POST /cache/clear empties the cache in memory.                          *)
LEMMA ClearKeeps ==
  ASSUME ClientInv, NEW r \in Req, Clear(r) PROVE ClientInv'
<1>1. /\ Home(r) \in Proc /\ req[r] \in Request /\ req[r].pc = "cache" /\ req[r].op = "clear"
      /\ Placed(req[r], server, disk) /\ TheRest /\ Goto(r, "save")
      /\ mem' = [mem EXCEPT ![Home(r)].entry = [n \in Name |-> None]]
      /\ UNCHANGED <<external, files, snapMem, server, bounds, history>>
  BY DEF Clear, ClientInv, InFlight, At, Home, Placed
<1>2. mem' \in [Proc -> Cache]
  BY <1>1 DEF TheRest, CachesOK, Cache, Entries
<1>3. TheRest' /\ server' = server /\ disk' = disk
  BY <1>1, <1>2, MemChanges DEF files
<1>4. Placed([req[r] EXCEPT !.pc = "save"], server', disk')
  BY <1>1, <1>3, Relabelled DEF Placed, Label
<1>5. "save" \in Label
  BY DEF Label
<1> QED
  BY <1>1, <1>3, <1>4, <1>5, GotoKeeps

(* saveToDisk writes the file, or a part of it before the process dies.    *)
LEMMA SaveKeeps ==
  ASSUME ClientInv, NEW r \in Req, Save(r) PROVE ClientInv'
<1>1. /\ Home(r) \in Proc /\ req[r] \in Request /\ req[r].pc = "save"
      /\ Placed(req[r], server, disk) /\ TheRest
      /\ disk' = mem[Home(r)].entry
      /\ UNCHANGED <<external, snapDisk, snapTmp, memory, bounds, history>>
  BY DEF Save, ClientInv, InFlight, At, Home, Placed
<1>2. disk' \in Entries
  BY <1>1 DEF TheRest, CachesOK, Cache
<1>3. TheRest' /\ server' = server /\ disk' # None
  BY <1>1, <1>2, NoneAssumption
     DEF external, memory, bounds, history, TheRest, ExternalOK, CachesOK, SnapshotsOK,
         ServerOK, BoundsOK, HistoryOK
<1>4. CASE Goto(r, "maps")
  <2>1. Placed([req[r] EXCEPT !.pc = "maps"], server', disk')
    BY <1>1, <1>3, Relabelled DEF Placed, Label
  <2>2. "maps" \in Label
    BY DEF Label
  <2> QED
    BY <1>3, <1>4, <2>1, <2>2, GotoKeeps
<1>5. CASE Reply(r, {}, 0)
  BY <1>3, <1>5, ReplyKeeps, SecretClientAssumption
<1> QED
  BY <1>4, <1>5 DEF Save
-----------------------------------------------------------------------------
(* A listing of the vault has the type of a snapshot.                      *)
LEMMA SeenTyped == ExternalOK => Seen(vault) \in Listing
BY DEF ExternalOK, Seen, Listing, Item

(* Steps that change snapshots, or count a race, and nothing else.         *)
LEMMA SnapshotsChange ==
  ASSUME TheRest, SnapshotsOK', HistoryOK', BoundsOK',
         UNCHANGED <<external, disk, mem, server>>
  PROVE  TheRest' /\ server' = server /\ disk' = disk
BY DEF external, TheRest, ExternalOK, CachesOK, ServerOK

(* A race that is counted stays within the bound on races.                 *)
LEMMA RaceCounts == ASSUME BoundsOK, NEW hit, Race(hit) PROVE BoundsOK' /\ races' >= races
<1>1. races' = races \/ (races < MaxRaces /\ races' = races + 1)
  BY DEF Race
<1> QED
  BY <1>1, SecretClientAssumption DEF Race, BoundsOK

(* A first load of the snapshot reads the file.                            *)
LEMMA ReadSnapshotKeeps ==
  ASSUME ClientInv, NEW r \in Req, ReadSnapshot(r) PROVE ClientInv'
<1> DEFINE gone == IF server[Home(r)].folder THEN filed ELSE {}
           new == [req[r] EXCEPT !.snap = snapDisk, !.gone = gone]
<1>1. /\ req[r] \in Request /\ Placed(req[r], server, disk) /\ TheRest
      /\ req[r].pc \in Loading
      /\ UNCHANGED <<external, files, memory, history>>
  BY DEF ReadSnapshot, Loads, Held, ClientInv, InFlight
<1>2. gone \subseteq Name /\ snapDisk \in Listing \cup {None} /\ BoundsOK'
  BY <1>1, RaceCounts DEF ReadSnapshot, TheRest, HistoryOK, SnapshotsOK
<1>3. TheRest' /\ server' = server /\ disk' = disk
  BY <1>1, <1>2, SnapshotsChange
     DEF files, memory, history, TheRest, SnapshotsOK, HistoryOK
<1> HIDE DEF gone
<1>4. /\ new \in Request /\ new.pc = req[r].pc /\ new.at = req[r].at /\ new.op = req[r].op
      /\ new.name = req[r].name /\ new.path = req[r].path /\ new.item = req[r].item
      /\ new.id = req[r].id
  BY <1>1, <1>2 DEF Request
<1>5. Turns(r, new)
  BY DEF ReadSnapshot, Turns, gone
<1> HIDE DEF new
<1>6. Placed(new, server', disk')
  BY <1>1, <1>3, <1>4 DEF Placed
<1> QED
  BY <1>3, <1>4, <1>5, <1>6, TurnKeeps

(* What load() comes to is a listing, and it changes no more than memory.  *)
LEMMA LoadedTypes ==
  ASSUME ClientInv, NEW r \in Req, Loaded(r)
  PROVE  /\ req[r] \in Request /\ Placed(req[r], server, disk) /\ req[r].pc \in Loading
         /\ Home(r) \in Proc /\ server[Home(r)].up
         /\ Snapshot(r) \in Listing \cup {None}
         /\ TheRest' /\ server' = server /\ disk' = disk
<1>1. /\ req[r] \in Request /\ Placed(req[r], server, disk) /\ req[r].pc \in Loading /\ TheRest
  BY DEF Loaded, Keeps, Loads, Held, ClientInv, InFlight
<1>2. Home(r) \in Proc /\ server[Home(r)].up
  BY <1>1 DEF Placed, Home, Loading
<1>3. Snapshot(r) \in Listing \cup {None} /\ req[r].gone \subseteq Name
  BY <1>1, <1>2 DEF Snapshot, Request, TheRest, SnapshotsOK
<1>4. /\ snapMem' = [snapMem EXCEPT ![Home(r)] = Snapshot(r)]
      /\ withdrawn' = [withdrawn EXCEPT ![Home(r)] = @ \cup req[r].gone]
      /\ UNCHANGED <<external, files, mem, server, bounds, filed>>
  BY DEF Loaded
<1>5. SnapshotsOK' /\ HistoryOK' /\ BoundsOK'
  <2>1. SnapshotsOK /\ HistoryOK /\ BoundsOK
    BY <1>1 DEF TheRest
  <2>2. SnapshotsOK'
    BY <1>3, <1>4, <2>1 DEF files, SnapshotsOK
  <2>3. HistoryOK'
    BY <1>3, <1>4, <2>1 DEF HistoryOK
  <2>4. BoundsOK'
    BY <1>4, <2>1 DEF bounds, BoundsOK
  <2> QED
    BY <2>2, <2>3, <2>4
<1> QED
  BY <1>1, <1>2, <1>3, <1>4, <1>5, SnapshotsChange DEF files

(* The vault is listed, for a snapshot or for the folders of clients.      *)
LEMMA ListVaultKeeps ==
  ASSUME ClientInv, NEW r \in Req, ListVault(r) \/ ListFolders(r) PROVE ClientInv'
<1> DEFINE gone == Name \ InFolder(vault)
           label == IF req[r].pc = "sync" THEN "write" ELSE "apply"
           new == [req[r] EXCEPT !.pc = label, !.snap = Seen(vault), !.gone = gone]
<1>1. /\ req[r] \in Request /\ Placed(req[r], server, disk) /\ TheRest
      /\ req[r].pc \in {"sync", "maps"}
      /\ UNCHANGED <<external, files, memory, history>>
  BY DEF ListVault, ListFolders, At, ClientInv, InFlight
<1>2. gone \subseteq Name /\ Seen(vault) \in Listing /\ BoundsOK'
  BY <1>1, SeenTyped, RaceCounts DEF ListVault, ListFolders, TheRest
<1>3. TheRest' /\ server' = server /\ disk' = disk
  BY <1>1, <1>2, SnapshotsChange
     DEF files, memory, history, TheRest, SnapshotsOK, HistoryOK
<1>4. Turns(r, new)
  BY DEF ListVault, ListFolders, At, Turns
<1>5. label \in {"write", "apply"} /\ label \in Label
  BY DEF Label, Refreshing
<1> HIDE DEF gone, label
<1>6. new \in Request /\ new.pc = label /\ new.at = req[r].at
  BY <1>1, <1>2, <1>5 DEF Request
<1> HIDE DEF new
<1>7. Placed(new, server', disk')
  BY <1>1, <1>3, <1>5, <1>6 DEF Placed
<1> QED
  BY <1>3, <1>4, <1>6, <1>7, TurnKeeps

(* A refresh writes the temporary file ...                                 *)
LEMMA WriteSnapshotKeeps ==
  ASSUME ClientInv, NEW r \in Req, WriteSnapshot(r) PROVE ClientInv'
<1>1. /\ req[r] \in Request /\ Placed(req[r], server, disk) /\ TheRest
      /\ req[r].pc = "write" /\ Goto(r, "rename") /\ snapTmp' = req[r].snap
      /\ UNCHANGED <<external, disk, snapDisk, memory, bounds, history>>
  BY DEF WriteSnapshot, At, ClientInv, InFlight
<1>2. SnapshotsOK' /\ HistoryOK' /\ BoundsOK'
  BY <1>1 DEF memory, bounds, history, TheRest, SnapshotsOK, HistoryOK, BoundsOK, Request
<1>3. TheRest' /\ server' = server /\ disk' = disk
  BY <1>1, <1>2, SnapshotsChange DEF memory
<1>4. Placed([req[r] EXCEPT !.pc = "rename"], server', disk')
  BY <1>1, <1>3, Relabelled DEF Placed, Label, Refreshing
<1>5. "rename" \in Label
  BY DEF Label, Refreshing
<1> QED
  BY <1>1, <1>3, <1>4, <1>5, GotoKeeps

(* ... and renames it.                                                     *)
LEMMA RenameSnapshotKeeps ==
  ASSUME ClientInv, NEW r \in Req, RenameSnapshot(r) PROVE ClientInv'
<1>1. /\ req[r] \in Request /\ Placed(req[r], server, disk) /\ TheRest
      /\ req[r].pc = "rename" /\ Reply(r, {}, 0)
      /\ UNCHANGED <<external, disk, mem, server, bounds>>
  BY DEF RenameSnapshot, At, ClientInv, InFlight
<1>2. Home(r) \in Proc /\ req[r].snap \in Listing \cup {None} /\ req[r].gone \subseteq Name
  BY <1>1 DEF Placed, Home, Request
<1>3. SnapshotsOK' /\ HistoryOK'
  <2>1. SnapshotsOK /\ HistoryOK
    BY <1>1 DEF TheRest
  <2>2. CASE UNCHANGED <<snapDisk, snapTmp, snapMem, withdrawn, filed>>
    BY <2>1, <2>2 DEF SnapshotsOK, HistoryOK
  <2>3. CASE /\ snapDisk' = snapTmp /\ snapTmp' = None
             /\ snapMem' = [snapMem EXCEPT ![Home(r)] = req[r].snap]
             /\ withdrawn' = [withdrawn EXCEPT ![Home(r)] =
                  @ \cup IF server[Home(r)].folder THEN req[r].gone ELSE {}]
             /\ filed' = req[r].gone
    BY <1>2, <2>1, <2>3 DEF SnapshotsOK, HistoryOK
  <2> QED
    BY <2>2, <2>3 DEF RenameSnapshot
<1>4. TheRest' /\ server' = server /\ disk' = disk
  BY <1>1, <1>3, SnapshotsChange DEF bounds, TheRest, BoundsOK
<1> QED
  BY <1>1, <1>4, ReplyKeeps, SecretClientAssumption
-----------------------------------------------------------------------------
(* Steps that leave processes and the cache file as they are.              *)
Quiet == TheRest' /\ server' = server /\ disk' = disk

(* Such a step may move a request, ...                                     *)
LEMMA QuietTurn ==
  ASSUME ClientInv, Quiet, NEW r \in Req, NEW new \in Request, Turns(r, new),
         Placed(new, server, disk)
  PROVE  ClientInv'
BY TurnKeeps DEF Quiet

(* ... answer it, ...                                                      *)
LEMMA QuietReply ==
  ASSUME ClientInv, Quiet, NEW r \in Req, NEW names, Reply(r, names, 0) PROVE ClientInv'
BY ReplyKeeps, SecretClientAssumption DEF Quiet

(* ... give it up ...                                                      *)
LEMMA QuietFail == ASSUME ClientInv, Quiet, NEW r \in Req, Fail(r) PROVE ClientInv'
BY QuietReply DEF Fail

(* ... or send it to another label.                                        *)
LEMMA QuietGoto ==
  ASSUME ClientInv, Quiet, NEW r \in Req, NEW label \in Label, Goto(r, label),
         Placed([req[r] EXCEPT !.pc = label], server, disk)
  PROVE  ClientInv'
BY GotoKeeps DEF Quiet

(* A step that changes nothing but requests is quiet.                      *)
LEMMA UnchangedIsQuiet ==
  ASSUME ClientInv, UNCHANGED <<external, files, memory, bounds, history>> PROVE Quiet
BY RestUnchanged DEF ClientInv, Quiet, memory, files

(* The name becomes the path that is asked for.                            *)
LEMMA ResolveKeeps == ASSUME ClientInv, NEW r \in Req, Resolve(r) PROVE ClientInv'
<1>1. PICK m \in Name :
        req' = [req EXCEPT ![r].path = m,
                  ![r].pc = IF req[r].op \in {"get", "primary"} THEN "cache" ELSE "object"]
  BY DEF Resolve
<1> DEFINE label == IF req[r].op \in {"get", "primary"} THEN "cache" ELSE "object"
           new == [req[r] EXCEPT !.path = m, !.pc = label]
<1>2. req[r] \in Request /\ Placed(req[r], server, disk) /\ req[r].pc = "path" /\ Quiet
  BY UnchangedIsQuiet DEF Resolve, At, ClientInv, InFlight
<1>3. label \in {"cache", "object"} /\ label \in Label
  BY DEF Label
<1>4. Turns(r, new)
  BY <1>1 DEF Turns
<1> HIDE DEF label
<1>5. new \in Request /\ new.pc = label /\ new.path = m /\ new.at = req[r].at
  BY <1>2, <1>3 DEF Request
<1> HIDE DEF new
<1>6. Placed(new, server, disk)
  BY <1>2, <1>3, <1>5 DEF Placed
<1> QED
  BY <1>2, <1>4, <1>5, <1>6, QuietTurn

(* What is found is in the vault.                                          *)
LEMMA FoundIsItem ==
  ASSUME ExternalOK, NEW n, NEW i \in Found(vault, n) PROVE i \in Id /\ vault[i] \in Item
BY DEF ExternalOK, Found, Find

(* getItemByName, whose item is the next thing to be cached ...            *)
LEMMA FetchKeeps == ASSUME ClientInv, NEW r \in Req, Fetch(r) PROVE ClientInv'
<1>1. PICK i \in Found(vault, req[r].path) :
        req' = [req EXCEPT ![r].pc = "fill", ![r].item = vault[i]]
  BY DEF Fetch
<1> DEFINE new == [req[r] EXCEPT !.pc = "fill", !.item = vault[i]]
<1>2. /\ req[r] \in Request /\ Placed(req[r], server, disk) /\ req[r].pc = "fetch" /\ Quiet
      /\ i \in Id /\ vault[i] \in Item
  BY <1>1, UnchangedIsQuiet, FoundIsItem DEF Fetch, At, ClientInv, InFlight, TheRest
<1>3. new \in Request /\ Placed(new, server, disk)
  BY <1>2 DEF Request, Label, Placed
<1>4. Turns(r, new)
  BY <1>1 DEF Turns
<1> QED
  BY <1>2, <1>3, <1>4, QuietTurn

(* ... or the answer.                                                      *)
LEMMA GotKeeps ==
  ASSUME ClientInv, Quiet, NEW r \in Req, req[r].pc \in {"object", "fallback"}, Got(r)
  PROVE  ClientInv'
<1>1. req[r] \in Request /\ Placed(req[r], server, disk)
  BY DEF ClientInv, InFlight
<1>2. CASE req[r].op = "object"
  <2> DEFINE new == [req[r] EXCEPT !.pc = "path", !.op = "primary", !.path = None,
                       !.snap = None, !.gone = {}]
  <2>1. Turns(r, new)
    BY <1>2 DEF Got, Turns
  <2>2. /\ "path" \in Label /\ "primary" \in Operation
        /\ req[r].at \in Proc /\ server[req[r].at].up
    BY <1>1 DEF Label, Operation, Placed
  <2>3. new \in Request /\ new.pc = "path" /\ new.at = req[r].at
    BY <1>1, <2>2 DEF Request
  <2> HIDE DEF new
  <2>4. Placed(new, server, disk)
    BY <2>2, <2>3 DEF Placed
  <2> QED
    BY <2>1, <2>3, <2>4, QuietTurn
<1>3. CASE req[r].op # "object"
  BY <1>3, QuietReply DEF Got
<1> QED
  BY <1>2, <1>3

(* `bw get item` finds the item, ...                                       *)
LEMMA FetchObjectKeeps == ASSUME ClientInv, NEW r \in Req, FetchObject(r) PROVE ClientInv'
BY GotKeeps, UnchangedIsQuiet DEF FetchObject, At

(* ... finds none ...                                                      *)
LEMMA FetchNoneKeeps ==
  ASSUME ClientInv, NEW r \in Req, FetchNone(r) \/ CliFails(r) PROVE ClientInv'
BY QuietFail, UnchangedIsQuiet DEF FetchNone, CliFails

(* ... or fails.                                                           *)
LEMMA FetchFailsKeeps ==
  ASSUME ClientInv, NEW r \in Req, FetchFails(r) \/ ListFails(r) PROVE ClientInv'
<1>1. req[r] \in Request /\ Placed(req[r], server, disk) /\ Quiet
  BY UnchangedIsQuiet DEF ClientInv, InFlight, FetchFails, ListFails
<1>2. CASE FetchFails(r)
  <2>1. Placed([req[r] EXCEPT !.pc = "fallback"], server, disk)
    BY <1>1, <1>2, Relabelled DEF FetchFails, At, Placed, Label, Loading
  <2>2. "fallback" \in Label /\ Goto(r, "fallback")
    BY <1>2 DEF FetchFails, Label, Loading
  <2> QED
    BY <1>1, <2>1, <2>2, QuietGoto
<1>3. CASE ListFails(r)
  <2>1. Placed([req[r] EXCEPT !.pc = "listing"], server, disk)
    BY <1>1, <1>3, Relabelled DEF ListFails, At, Placed, Label, Loading
  <2>2. "listing" \in Label /\ Goto(r, "listing")
    BY <1>3 DEF ListFails, Label, Loading
  <2> QED
    BY <1>1, <2>1, <2>2, QuietGoto
<1> QED
  BY <1>2, <1>3

(* A get that found nothing looks for the name in the snapshot.            *)
LEMMA FallbackKeeps == ASSUME ClientInv, NEW r \in Req, Fallback(r) PROVE ClientInv'
<1>1. Quiet
  BY LoadedTypes DEF Fallback, Quiet
<1> QED
  BY <1>1, GotKeeps, QuietFail DEF Fallback, At

(* A list of names as an answer, or for its best candidate.                *)
LEMMA DeliverKeeps ==
  ASSUME ClientInv, Quiet, NEW r \in Req, req[r].pc # "idle", NEW names \in SUBSET Name,
         Deliver(r, names)
  PROVE  ClientInv'
<1>1. req[r] \in Request /\ Placed(req[r], server, disk)
  BY DEF ClientInv, InFlight
<1>2. ASSUME NEW n \in names,
             req' = [req EXCEPT ![r] = [@ EXCEPT !.pc = "scope", !.op = "ranked", !.name = n,
                                          !.names = {}, !.snap = None, !.gone = {}]]
      PROVE  ClientInv'
  <2> DEFINE new == [req[r] EXCEPT !.pc = "scope", !.op = "ranked", !.name = n,
                       !.names = {}, !.snap = None, !.gone = {}]
  <2>1. Turns(r, new)
    BY <1>2 DEF Turns
  <2>2. /\ "scope" \in Label /\ "ranked" \in Operation /\ n \in Name
        /\ req[r].at \in Proc /\ server[req[r].at].up
    BY <1>1 DEF Label, Loading, Operation, Placed
  <2>3. new \in Request /\ new.pc = "scope" /\ new.at = req[r].at
    BY <1>1, <2>2 DEF Request
  <2> HIDE DEF new
  <2>4. Placed(new, server, disk)
    BY <2>2, <2>3 DEF Placed
  <2> QED
    BY <2>1, <2>3, <2>4, QuietTurn
<1> QED
  BY <1>2, QuietReply DEF Deliver

(* `list` hands on the names of the items.                                 *)
LEMMA ListedKeeps == ASSUME ClientInv, NEW r \in Req, Listed(r) PROVE ClientInv'
<1>1. PICK names \in SUBSET Name :
        /\ List(r, names)
        /\ \/ \E ns \in SUBSET Name : Deliver(r, ns)
           \/ req' = [req EXCEPT ![r].pc = "filter", ![r].names = names,
                                 ![r].snap = None, ![r].gone = {}]
  BY DEF Listed
<1>2. Quiet
  BY <1>1, UnchangedIsQuiet, LoadedTypes DEF List, Quiet
<1>3. req[r] \in Request /\ Placed(req[r], server, disk) /\ req[r].pc \in {"names", "listing"}
  BY <1>1 DEF List, At, ClientInv, InFlight
<1>4. CASE \E ns \in SUBSET Name : Deliver(r, ns)
  BY <1>2, <1>3, <1>4, DeliverKeeps
<1>5. CASE req' = [req EXCEPT ![r].pc = "filter", ![r].names = names,
                              ![r].snap = None, ![r].gone = {}]
  <2> DEFINE new == [req[r] EXCEPT !.pc = "filter", !.names = names, !.snap = None, !.gone = {}]
  <2>1. Turns(r, new)
    BY <1>5 DEF Turns
  <2>2. new \in Request
    <3>1. "filter" \in Label /\ None \in Listing \cup {None}
      BY DEF Label, Loading
    <3> QED
      BY <1>3, <3>1 DEF Request
  <2>3. /\ new.pc = "filter" /\ new.at = req[r].at /\ new.op = req[r].op
        /\ new.name = req[r].name /\ new.scoped = req[r].scoped /\ new.snap = None
    BY <1>3 DEF Request
  <2> HIDE DEF new
  <2>4. Placed(new, server, disk)
    BY <1>3, <2>3 DEF Placed, Loading
  <2> QED
    BY <1>2, <2>1, <2>2, <2>4, QuietTurn
<1> QED
  BY <1>1, <1>4, <1>5

(* A scoped list keeps the names of the snapshot.                          *)
LEMMA FilterKeeps == ASSUME ClientInv, NEW r \in Req, FilterByScope(r) PROVE ClientInv'
<1> DEFINE names == IF Snapshot(r) = None THEN req[r].names
                    ELSE req[r].names \cap InFolder(Snapshot(r))
<1>1. Quiet /\ req[r].names \subseteq Name /\ req[r].pc = "filter"
  BY LoadedTypes DEF FilterByScope, At, Quiet, Request
<1>2. names \in SUBSET Name /\ Deliver(r, names)
  BY <1>1 DEF FilterByScope
<1> HIDE DEF names
<1> QED
  BY <1>1, <1>2, DeliverKeeps

(* findScopedItem hands on a name that is the name of an item.             *)
LEMMA FoundIsNamed ==
  ASSUME NEW l \in Listing \cup {None}, NEW n, NEW i \in Find(l, n) PROVE i \in Id /\ n \in Name
BY DEF Find, Listing

(* findScopedItem: the name is one of the snapshot's, or the call is       *)
(* refused.                                                                *)
LEMMA FindScopedKeeps == ASSUME ClientInv, NEW r \in Req, FindScoped(r) PROVE ClientInv'
<1>1. /\ Quiet /\ req[r] \in Request /\ Placed(req[r], server, disk) /\ req[r].pc = "scope"
      /\ Snapshot(r) \in Listing \cup {None}
  BY LoadedTypes DEF FindScoped, At, Quiet
<1>2. ASSUME NEW i \in Find(Snapshot(r), req[r].name), NEW c \in Continuation,
             req' = [req EXCEPT ![r] = [@ EXCEPT !.op = c[2], !.pc = c[3],
                                          !.id = IF c[3] = "path" THEN None ELSE i,
                                          !.given = {req[r].name} \cap req[r].barred,
                                          !.snap = None, !.gone = {}, !.barred = {}]]
      PROVE  ClientInv'
  <2> DEFINE id == IF c[3] = "path" THEN None ELSE i
             given == {req[r].name} \cap req[r].barred
             new == [req[r] EXCEPT !.op = c[2], !.pc = c[3], !.id = id, !.given = given,
                                   !.snap = None, !.gone = {}, !.barred = {}]
  <2>1. Turns(r, new)
    BY <1>2 DEF Turns
  <2>2. i \in Id /\ given \subseteq Name
    BY <1>1, FoundIsNamed DEF Request
  <2>3. /\ c[2] \in {"get", "fields", "update", "delete", "object"}
        /\ c[3] \in {"path", "read", "remove"}
    BY DEF Continuation
  <2>4. id \in Id \cup {None} /\ (c[3] # "path" => id = i)
    BY <2>2
  <2>5. /\ c[2] \in Operation /\ c[3] \in Label
        /\ req[r].at \in Proc /\ server[req[r].at].up
    BY <1>1, <2>3 DEF Label, Operation, Placed
  <2> HIDE DEF id, given
  <2>6. new \in Request /\ new.pc = c[3] /\ new.id = id /\ new.at = req[r].at
    BY <1>1, <2>2, <2>4, <2>5 DEF Request
  <2> HIDE DEF new
  <2>7. Placed(new, server, disk)
    BY <2>2, <2>3, <2>4, <2>5, <2>6 DEF Placed
  <2> QED
    BY <1>1, <2>1, <2>6, <2>7, QuietTurn
<1>3. CASE req' = [req EXCEPT ![r].pc = "names", ![r].snap = None, ![r].gone = {}]
  <2> DEFINE new == [req[r] EXCEPT !.pc = "names", !.snap = None, !.gone = {}]
  <2>1. Turns(r, new)
    BY <1>3 DEF Turns
  <2>2. new \in Request /\ Placed(new, server, disk)
    BY <1>1 DEF Request, Label, Placed
  <2> QED
    BY <1>1, <2>1, <2>2, QuietTurn
<1>4. CASE Fail(r)
  BY <1>1, <1>4, QuietFail
<1> QED
  BY <1>2, <1>3, <1>4 DEF FindScoped

(* The items of a service, and what is known of the snapshot.              *)
LEMMA ServiceKeeps ==
  ASSUME ClientInv, NEW r \in Req, ServiceItems(r) \/ Metadata(r) PROVE ClientInv'
BY LoadedTypes, QuietReply DEF ServiceItems, Metadata, Quiet

(* A credential of the proxy.                                              *)
LEMMA CredentialKeeps == ASSUME ClientInv, NEW r \in Req, Credential(r) PROVE ClientInv'
BY UnchangedIsQuiet, QuietReply DEF Credential
-----------------------------------------------------------------------------
(* The vault changes, and with it what is known to be gone.                *)
LEMMA VaultBecomesKeeps ==
  ASSUME ClientInv, NEW v \in [Id -> Item \cup {None}], NEW reqs \in [Req -> Request],
         \A q \in Req : Placed(reqs[q], server, disk),
         VaultBecomes(v, reqs), UNCHANGED <<files, memory>>
  PROVE  ClientInv'
<1> DEFINE back == InFolder(v)
           moved(q) == [reqs[q] EXCEPT !.gone = @ \ back, !.barred = @ \ back]
<1>1. /\ edits < MaxEdits /\ edits' = edits + 1 /\ vault' = v
      /\ since' = [n \in Name |-> [x \in Value |-> IF Has(v, n, x) THEN 0 ELSE since[n][x]]]
      /\ withdrawn' = [p \in Proc |-> withdrawn[p] \ back] /\ filed' = filed \ back
      /\ req' = [q \in Req |-> moved(q)] /\ housed' = housed \cup InPlace(v)
      /\ BoundsOK' /\ TheRest
  BY DEF VaultBecomes, ClientInv, TheRest, BoundsOK, bounds
<1> HIDE DEF back
<1>2. ExternalOK'
  <2>1. edits \in 0 .. MaxEdits /\ since \in [Name -> [Value -> 0 .. TTL + 1]]
    BY DEF ClientInv, TheRest, ExternalOK
  <2>2. edits' \in 0 .. MaxEdits
    <3>1. edits < MaxEdits /\ edits' = edits + 1
      BY <1>1
    <3> QED
      BY <2>1, <3>1, SecretClientAssumption
  <2>3. ASSUME NEW n \in Name, NEW x \in Value
        PROVE  (IF Has(v, n, x) THEN 0 ELSE since[n][x]) \in 0 .. TTL + 1
    BY <2>1, SecretClientAssumption
  <2>4. since' \in [Name -> [Value -> 0 .. TTL + 1]]
    BY <1>1, <2>3
  <2>5. housed' \subseteq Id
    BY <1>1 DEF ClientInv, TheRest, ExternalOK, InPlace
  <2> QED
    BY <1>1, <2>2, <2>4, <2>5 DEF ExternalOK
<1>3. HistoryOK'
  BY <1>1 DEF TheRest, HistoryOK
<1>4. TheRest' /\ server' = server /\ disk' = disk
  BY <1>1, <1>2, <1>3 DEF files, memory, TheRest, CachesOK, SnapshotsOK, ServerOK
<1>5. ASSUME NEW q \in Req PROVE moved(q) \in Request /\ Placed(moved(q), server, disk)
  <2>1. /\ moved(q) \in Request /\ moved(q).pc = reqs[q].pc /\ moved(q).at = reqs[q].at
        /\ moved(q).op = reqs[q].op /\ moved(q).name = reqs[q].name
        /\ moved(q).path = reqs[q].path
        /\ moved(q).item = reqs[q].item /\ moved(q).id = reqs[q].id
    <3>1. reqs[q] \in Request
      OBVIOUS
    <3>2. reqs[q].gone \ back \in SUBSET Name /\ reqs[q].barred \ back \in SUBSET Name
      BY <3>1 DEF Request
    <3> QED
      BY <3>1, <3>2 DEF Request
  <2> HIDE DEF moved
  <2>2. Placed(reqs[q], server, disk)
    OBVIOUS
  <2> QED
    BY <2>1, <2>2 DEF Placed
<1> HIDE DEF moved
<1>6. req' \in [Req -> Request] /\ \A q \in Req : req'[q] = moved(q)
  BY <1>1, <1>5
<1> QED
  BY <1>4, <1>5, <1>6 DEF ClientInv, InFlight

(* Someone edits the vault by other means.                                 *)
LEMMA OperatorKeeps == ASSUME ClientInv, Operator PROVE ClientInv'
<1>1. PICK i \in Id, new \in Item \cup {None} : VaultBecomes([vault EXCEPT ![i] = new], req)
  BY DEF Operator
<1>2. [vault EXCEPT ![i] = new] \in [Id -> Item \cup {None}]
  BY DEF ClientInv, TheRest, ExternalOK
<1>3. /\ req \in [Req -> Request] /\ \A q \in Req : Placed(req[q], server, disk)
      /\ UNCHANGED <<files, memory>>
  BY DEF Operator, ClientInv, InFlight
<1> QED
  BY <1>1, <1>2, <1>3, VaultBecomesKeeps

(* A change made by a tool, which goes on to refresh the snapshot.         *)
Synced(r) == [Idle EXCEPT !.pc = "sync", !.at = Home(r), !.op = req[r].op]

(* What a request that has written becomes: it synchronises.               *)
LEMMA SyncedForm ==
  ASSUME ClientInv, NEW r \in Req, req[r].pc # "idle"
  PROVE  /\ Synced(r) \in Request /\ Synced(r).pc = "sync" /\ Synced(r).at = Home(r)
         /\ Synced(r).op = req[r].op /\ Synced(r).snap = None /\ Synced(r).gone = {}
         /\ Synced(r).barred = {} /\ Synced(r).scoped = FALSE /\ Synced(r).given = {}
         /\ Synced(r).lag = 0
         /\ Placed(Synced(r), server, disk)
<1>1. Home(r) \in Proc /\ server[Home(r)].up /\ req[r].op \in Operation
  BY DEF ClientInv, InFlight, Placed, Home, Request
<1>2. "sync" \in Label
  BY DEF Label
<1>3. /\ Synced(r).pc = "sync" /\ Synced(r).at = Home(r) /\ Synced(r).op = req[r].op
      /\ Synced(r).snap = None /\ Synced(r).gone = {} /\ Synced(r).barred = {}
      /\ Synced(r).scoped = FALSE /\ Synced(r).given = {} /\ Synced(r).lag = 0
  BY DEF Synced, Idle
<1>4. Synced(r) \in Request
  BY <1>1, <1>2, IdleForm DEF Synced, Request
<1>5. Placed(Synced(r), server, disk)
  BY <1>1, <1>3 DEF Placed
<1> QED
  BY <1>3, <1>4, <1>5

(* A request writes to the vault.                                          *)
LEMMA WroteKeeps ==
  ASSUME ClientInv, NEW r \in Req, req[r].pc # "idle", NEW v \in [Id -> Item \cup {None}],
         Wrote(r, v)
  PROVE  ClientInv'
<1> DEFINE reqs == [req EXCEPT ![r] = Synced(r)]
<1>1. VaultBecomes(v, reqs) /\ UNCHANGED <<files, memory>>
  BY DEF Wrote, Synced
<1>2. /\ req \in [Req -> Request] /\ \A q \in Req : Placed(req[q], server, disk)
      /\ Synced(r) \in Request /\ Placed(Synced(r), server, disk)
  BY SyncedForm DEF ClientInv, InFlight
<1>3. reqs \in [Req -> Request] /\ \A q \in Req : Placed(reqs[q], server, disk)
  BY <1>2
<1> HIDE DEF reqs
<1> QED
  BY <1>1, <1>3, VaultBecomesKeeps

(* A tool's change is a change of one item.                                *)
LEMMA ChangeTypes ==
  ASSUME ClientInv, NEW r \in Req, Create(r) \/ Edit(r) \/ Remove(r)
  PROVE  /\ req[r].pc \in {"create", "edit", "remove"}
         /\ \E i \in Id, item \in Item \cup {None} : Wrote(r, [vault EXCEPT ![i] = item])
<1>0. Placed(req[r], server, disk)
  BY DEF ClientInv, InFlight
<1>1. CASE Create(r)
  <2>1. req[r].pc = "create" /\ req[r].name \in Name
    BY <1>0, <1>1 DEF Create, At, Placed
  <2>2. PICK i \in Id, v \in Value :
          Wrote(r, [vault EXCEPT ![i] = [name |-> req[r].name, val |-> v, in |-> TRUE]])
    BY <1>1 DEF Create
  <2> DEFINE item == [name |-> req[r].name, val |-> v, in |-> TRUE]
  <2>3. item \in Item /\ Wrote(r, [vault EXCEPT ![i] = item])
    BY <2>1, <2>2 DEF Item
  <2> HIDE DEF item
  <2> QED
    BY <2>1, <2>3
<1>2. CASE Edit(r)
  <2>1. req[r].pc = "edit" /\ req[r].item \in Item /\ req[r].id \in Id
    BY <1>0, <1>2 DEF Edit, At, Placed
  <2>2. PICK v \in Value : Wrote(r, [vault EXCEPT ![req[r].id] = Merged(req[r].item, v)])
    BY <1>2 DEF Edit
  <2>3. Merged(req[r].item, v) \in Item
    BY <2>1 DEF Merged, Item
  <2> QED
    BY <2>1, <2>2, <2>3
<1>3. CASE Remove(r)
  BY <1>0, <1>3 DEF Remove, At, Placed
<1> QED
  BY <1>1, <1>2, <1>3

(* create, edit and remove.                                                *)
LEMMA ChangesKeep ==
  ASSUME ClientInv, NEW r \in Req, Create(r) \/ Edit(r) \/ Remove(r) PROVE ClientInv'
<1>1. PICK i \in Id, item \in Item \cup {None} : Wrote(r, [vault EXCEPT ![i] = item])
  BY ChangeTypes
<1>2. req[r].pc # "idle"
  BY ChangeTypes
<1>3. [vault EXCEPT ![i] = item] \in [Id -> Item \cup {None}]
  BY DEF ClientInv, TheRest, ExternalOK
<1> QED
  BY <1>1, <1>2, <1>3, WroteKeeps

(* update_secret reads the item it has found.                              *)
LEMMA ReadItemKeeps == ASSUME ClientInv, NEW r \in Req, ReadItem(r) PROVE ClientInv'
<1> DEFINE new == [req[r] EXCEPT !.pc = "edit", !.item = vault[req[r].id]]
<1>1. /\ req[r] \in Request /\ Placed(req[r], server, disk) /\ req[r].pc = "read" /\ Quiet
      /\ vault[req[r].id] \in Item /\ req[r].id \in Id
  BY UnchangedIsQuiet DEF ReadItem, At, ClientInv, InFlight, Placed, TheRest, ExternalOK
<1>2. new \in Request /\ new.pc = "edit" /\ new.item = vault[req[r].id]
      /\ new.id = req[r].id /\ new.at = req[r].at
  BY <1>1 DEF Request, Label
<1>3. Turns(r, new)
  BY DEF ReadItem, Turns
<1> HIDE DEF new
<1>4. Placed(new, server, disk)
  BY <1>1, <1>2 DEF Placed
<1> QED
  BY <1>1, <1>2, <1>3, <1>4, QuietTurn

(* loadFrom replaces the map of names.                                     *)
LEMMA LoadFromKeeps == ASSUME ClientInv, NEW r \in Req, LoadFrom(r) PROVE ClientInv'
<1>1. /\ req[r] \in Request /\ Placed(req[r], server, disk) /\ req[r].pc = "apply" /\ TheRest
      /\ UNCHANGED <<external, files, mem, snapMem, bounds, filed>> /\ Reply(r, {}, 0)
  BY DEF LoadFrom, At, ClientInv, InFlight
<1>2. Home(r) \in Proc /\ req[r].gone \subseteq Name
  BY <1>1 DEF Placed, Home, Request
<1>3. PICK ns \in SUBSET Name : server' = [server EXCEPT ![Home(r)].names = ns]
  BY DEF LoadFrom, Mapped, Names
<1>4. ServerOK' /\ \A p \in Proc : server[p].up => server'[p].up
  BY <1>1, <1>2, <1>3 DEF TheRest, ServerOK, Server
<1>5. HistoryOK'
  BY <1>1, <1>2 DEF LoadFrom, TheRest, HistoryOK
<1>6. TheRest' /\ disk' = disk
  BY <1>1, <1>4, <1>5
     DEF external, files, bounds, TheRest, ExternalOK, CachesOK, SnapshotsOK, BoundsOK
<1> QED
  BY <1>1, <1>4, <1>6, ReplyKeeps, SecretClientAssumption
-----------------------------------------------------------------------------
(* How a handler starts a request: with what, and of which kind of server. *)
Opens(p, op, label, n, scoped) ==
  LET kind == server[p].kind IN
  /\ server[p].up /\ op \in Operation \ {"none", "ranked", "object", "primary"}
  /\ label \in {"scope", "names", "info", "service", "sync", "create", "cache", "path", "cred"}
  /\ n \in Name \cup {None} /\ scoped \in BOOLEAN
  /\ label \in {"create", "path"} => n \in Name
  /\ label = "cache" => op = "clear"
  /\ label \in {"scope", "service"} => kind # "rest"
  /\ label = "names" => op = "list"
  /\ op = "clear" => kind = "rest" /\ ~scoped
  /\ label = "cred" => ~scoped
  /\ label = "path" /\ scoped => kind = "rest" /\ n \in server[p].names

Barred(p, label, scoped) == IF scoped /\ label # "path" THEN withdrawn[p] ELSE {}
Given(p, label, n, scoped) == IF scoped /\ label = "path" THEN {n} \cap withdrawn[p] ELSE {}

Opening(r, p, op, label, n, scoped) ==
  /\ At(r, "idle") /\ Opens(p, op, label, n, scoped)
  /\ IF label = "path"
     THEN Only(r, [Idle EXCEPT !.pc = label, !.at = p, !.op = op, !.name = n, !.scoped = scoped,
                               !.given = Given(p, label, n, scoped)])
     ELSE Only(r, [Idle EXCEPT !.pc = label, !.at = p, !.op = op, !.name = n, !.scoped = scoped,
                               !.barred = Barred(p, label, scoped)])

(* A call that may start is opened as Opening says, ...                    *)
LEMMA StartOpens ==
  ASSUME NEW r \in Req, NEW p \in Proc, NEW kinds, NEW op, NEW label, NEW n, NEW scoped,
         Start(r, p, kinds, op, label, n, scoped),
         label # "path",
         server[p].up /\ server[p].kind \in kinds => Opens(p, op, label, n, scoped)
  PROVE  Opening(r, p, op, label, n, scoped)
<1>1. Barred(p, label, scoped) = IF scoped THEN withdrawn[p] ELSE {}
  BY DEF Barred
<1> QED
  BY <1>1 DEF Start, Opening, Only, Turns

(* ... and so is a read that REST lets through, ...                        *)
LEMMA RestGetOpens ==
  ASSUME NEW r \in Req, NEW p \in Proc, NEW op \in {"get", "fields"}, NEW n \in Name,
         NEW scoped \in BOOLEAN, RestGet(r, p, op, n, scoped)
  PROVE  Opening(r, p, op, "path", n, scoped)
<1>1. Given(p, "path", n, scoped) = {n} \cap IF scoped THEN withdrawn[p] ELSE {}
  BY DEF Given
<1>2. Opens(p, op, "path", n, scoped)
  BY DEF RestGet, Opens, Operation
<1> QED
  BY <1>1, <1>2 DEF RestGet, Opening, Only, Turns

(* ... every call that reads, ...                                          *)
LEMMA ReadOpens ==
  ASSUME NEW r \in Req, NEW p \in Proc, Read(r, p)
  PROVE  \E op, label, n, scoped : Opening(r, p, op, label, n, scoped)
<1> USE StartOpens, SecretToolsAssumption DEF Opens, Operation
<1>1. CASE \/ ListSecrets(r, p) \/ SearchSecrets(r, p) \/ ListSecretsV2(r, p)
           \/ SearchSecretsV2(r, p)
  <2>1. CASE ListSecrets(r, p) \/ SearchSecrets(r, p)
    BY <2>1 DEF ListSecrets, SearchSecrets
  <2>2. CASE ListSecretsV2(r, p) \/ SearchSecretsV2(r, p)
    BY <2>2 DEF ListSecretsV2, SearchSecretsV2
  <2> QED
    BY <1>1, <2>1, <2>2
<1>2. CASE SnapshotInfo(r, p) \/ SnapshotInfoV2(r, p) \/ RestInfo(r, p)
  <2>1. CASE SnapshotInfo(r, p) \/ SnapshotInfoV2(r, p)
    BY <2>1 DEF SnapshotInfo, SnapshotInfoV2
  <2>2. CASE RestInfo(r, p)
    BY <2>2 DEF RestInfo
  <2> QED
    BY <1>2, <2>1, <2>2
<1>3. ASSUME NEW scoped \in Clients, RestList(r, p, scoped) \/ RestSearch(r, p, scoped)
      PROVE  \E op, label, n, scp : Opening(r, p, op, label, n, scp)
  BY <1>3 DEF RestList, RestSearch
<1>4. ASSUME NEW q \in Name \cup {None}, GetCredential(r, p, q) \/ GetCredentialV2(r, p, q)
      PROVE  \E op, label, n, scoped : Opening(r, p, op, label, n, scoped)
  BY <1>4 DEF GetCredential, GetCredentialV2
<1>5. ASSUME NEW n \in Name,
             \/ GetSecret(r, p, n) \/ GetSecretFields(r, p, n) \/ GetService(r, p, n)
             \/ GetSecretV2(r, p, n) \/ GetSecretFieldsV2(r, p, n) \/ GetServiceV2(r, p, n)
      PROVE  \E op, label, m, scoped : Opening(r, p, op, label, m, scoped)
  BY <1>5 DEF GetSecret, GetSecretFields, GetService, GetSecretV2, GetSecretFieldsV2, GetServiceV2
<1>6. ASSUME NEW n \in Name, NEW scoped \in Clients,
             RestSecret(r, p, n, scoped) \/ RestFields(r, p, n, scoped)
      PROVE  \E op, label, m, scp : Opening(r, p, op, label, m, scp)
  BY <1>6, RestGetOpens DEF RestSecret, RestFields
<1>7. ASSUME NEW n \in Name, Cred(r, p, n)
      PROVE  \E op, label, m, scoped : Opening(r, p, op, label, m, scoped)
  BY <1>7 DEF Cred
<1> QED
  BY <1>1, <1>2, <1>3, <1>4, <1>5, <1>6, <1>7 DEF Read

(* ... and every call that changes something.                              *)
LEMMA ChangeOpens ==
  ASSUME NEW r \in Req, NEW p \in Proc, Change(r, p)
  PROVE  \E op, label, n, scoped : Opening(r, p, op, label, n, scoped)
<1> USE StartOpens DEF Opens, Operation
<1>1. CASE RefreshSnapshot(r, p) \/ CreateSnapshot(r, p)
  BY <1>1 DEF RefreshSnapshot, CreateSnapshot
<1>2. CASE CacheClear(r, p)
  BY <1>2 DEF CacheClear
<1>3. ASSUME NEW n \in Name, CreateSecret(r, p, n) \/ UpdateSecret(r, p, n) \/ DeleteSecret(r, p, n)
      PROVE  \E op, label, m, scoped : Opening(r, p, op, label, m, scoped)
  BY <1>3 DEF CreateSecret, UpdateSecret, DeleteSecret
<1> QED
  BY <1>1, <1>2, <1>3 DEF Change

(* What it then is.                                                        *)
LEMMA OpenedForm ==
  ASSUME ClientInv, NEW r \in Req, NEW p \in Proc, NEW op, NEW label, NEW n, NEW scoped,
         Opening(r, p, op, label, n, scoped)
  PROVE  \E new \in Request :
           /\ Only(r, new) /\ Placed(new, server, disk)
           /\ new.pc = label /\ new.at = p /\ new.op = op /\ new.name = n /\ new.scoped = scoped
           /\ new.barred = Barred(p, label, scoped)
           /\ new.given = Given(p, label, n, scoped)
           /\ new.snap = None /\ new.gone = {} /\ new.lag = 0
<1> DEFINE barred == Barred(p, label, scoped)
           given == Given(p, label, n, scoped)
           got == [Idle EXCEPT !.pc = label, !.at = p, !.op = op, !.name = n, !.scoped = scoped,
                               !.given = given]
           other == [Idle EXCEPT !.pc = label, !.at = p, !.op = op, !.name = n, !.scoped = scoped,
                                 !.barred = barred]
           new == IF label = "path" THEN got ELSE other
<1>1. /\ label \in Label /\ op \in Operation /\ n \in Name \cup {None} /\ scoped \in BOOLEAN
      /\ barred \subseteq Name /\ given \subseteq Name
  BY DEF Opening, Opens, Label, Loading, ClientInv, TheRest, HistoryOK, Barred, Given
<1>2. /\ Only(r, new)
      /\ IF label = "path" THEN barred = {} ELSE given = {}
  BY DEF Opening, Barred, Given
<1> HIDE DEF barred, given
<1>3. new \in Request
  <2>1. got \in Request
    BY <1>1, IdleForm DEF Request
  <2>2. other \in Request
    BY <1>1, IdleForm DEF Request
  <2> HIDE DEF got, other
  <2> QED
    BY <2>1, <2>2
<1>4. /\ new.pc = label /\ new.at = p /\ new.op = op /\ new.name = n /\ new.scoped = scoped
      /\ new.barred = barred /\ new.given = given
      /\ new.snap = None /\ new.gone = {} /\ new.lag = 0
  BY <1>2 DEF Idle
<1> HIDE DEF new
<1>5. Placed(new, server, disk)
  <2>1. Opens(p, op, label, n, scoped)
    BY DEF Opening
  <2> QED
    BY <1>4, <2>1 DEF Opens, Placed
<1>6. new.barred = Barred(p, label, scoped) /\ new.given = Given(p, label, n, scoped)
  BY <1>4 DEF barred, given
<1> QED
  BY <1>2, <1>3, <1>4, <1>5, <1>6
-----------------------------------------------------------------------------
(* A process starts ...                                                    *)
LEMMA BootKeeps ==
  ASSUME ClientInv, NEW p \in Proc, NEW kind, NEW folder \in BOOLEAN, NEW names \in SUBSET Name,
         Boot(p, kind, folder, names)
  PROVE  ClientInv'
<1>1. /\ server' = [server EXCEPT ![p].up = TRUE, ![p].folder = folder, ![p].names = names]
      /\ UNCHANGED <<external, files, mem, snapMem, req, bounds, history>>
  BY DEF Boot
<1>2. ServerOK' /\ \A q \in Proc : server[q].up => server'[q].up
  <2> DEFINE new == [server[p] EXCEPT !.up = TRUE, !.folder = folder, !.names = names]
  <2>1. server \in [Proc -> Server]
    BY DEF ClientInv, TheRest, ServerOK
  <2>2. new \in Server /\ new.up
    BY <2>1 DEF Server
  <2>3. server' = [server EXCEPT ![p] = new]
    BY <1>1
  <2> HIDE DEF new
  <2>4. ServerOK'
    BY <2>1, <2>2, <2>3 DEF ServerOK
  <2>5. \A q \in Proc : server[q].up => server'[q].up
    BY <2>1, <2>2, <2>3
  <2> QED
    BY <2>4, <2>5
<1>3. TheRest'
  BY <1>1, <1>2
     DEF external, files, bounds, history, ClientInv, TheRest, ExternalOK, CachesOK,
         SnapshotsOK, BoundsOK, HistoryOK
<1>4. ASSUME NEW q \in Req PROVE Placed(req'[q], server', disk')
  <2>1. Placed(req[q], server, disk) /\ req' = req /\ disk' = disk
    BY <1>1 DEF ClientInv, InFlight, files
  <2> QED
    BY <1>2, <2>1 DEF Placed
<1> QED
  BY <1>1, <1>3, <1>4 DEF ClientInv, InFlight

Booting(p) == \/ InitProfileFolderScope(p) \/ InitProfileFolderScopeV2(p)
              \/ ResolveFolderFallback(p) \/ LoadFolderScopes(p)

(* Each way of starting a server starts one.                               *)
LEMMA BootingBoots ==
  ASSUME NEW p \in Proc, Booting(p)
  PROVE  \E folder \in BOOLEAN, names \in SUBSET Name :
           /\ Boot(p, server[p].kind, folder, names)
           /\ server[p].kind = "rest" => ~folder
<1>1. ASSUME NEW kind \in {"mcp", "mcp2", "proxy"}, NEW folder \in BOOLEAN,
             Boot(p, kind, folder, {})
      PROVE  \E f \in BOOLEAN, names \in SUBSET Name :
               Boot(p, server[p].kind, f, names) /\ (server[p].kind = "rest" => ~f)
  <2>1. server[p].kind = kind /\ kind # "rest" /\ {} \in SUBSET Name
    BY <1>1 DEF Boot
  <2> QED
    BY <1>1, <2>1
<1>2. CASE LoadFolderScopes(p)
  <2>1. PICK ns \in SUBSET Name : Boot(p, "rest", FALSE, ns)
    BY <1>2 DEF LoadFolderScopes, Mapped, Names
  <2>2. server[p].kind = "rest"
    BY <2>1 DEF Boot
  <2> QED
    BY <2>1, <2>2
<1> QED
  BY <1>1, <1>2
     DEF Booting, InitProfileFolderScope, InitProfileFolderScopeV2, ResolveFolderFallback

(* ... and dies with its requests.                                         *)
LEMMA CrashKeeps == ASSUME ClientInv, NEW p \in Proc, Crash(p) PROVE ClientInv'
<1>1. /\ crashes < MaxCrashes /\ crashes' = crashes + 1
      /\ server' = [server EXCEPT ![p] = Off(server[p].kind)]
      /\ mem' = [mem EXCEPT ![p] = [loaded |-> FALSE, entry |-> [n \in Name |-> None]]]
      /\ snapMem' = [snapMem EXCEPT ![p] = None]
      /\ disk' \in {disk, Torn}
      /\ withdrawn' = [withdrawn EXCEPT ![p] = {}]
      /\ UNCHANGED <<external, snapDisk, snapTmp, races, ticks, filed>>
  BY DEF Crash
<1>2. req' = [r \in Req |-> IF Home(r) = p THEN Idle ELSE req[r]]
  BY DEF Crash
<1>3. TheRest /\ req \in [Req -> Request]
  BY DEF ClientInv
<1>4. /\ ExternalOK' /\ CachesOK' /\ SnapshotsOK'
  BY <1>1, <1>3
     DEF external, TheRest, ExternalOK, CachesOK, SnapshotsOK, Cache, Entries
<1>5. ServerOK' /\ HistoryOK'
  BY <1>1, <1>3 DEF TheRest, ServerOK, Server, Off, HistoryOK
<1>6. BoundsOK'
  <2>1. crashes < MaxCrashes /\ crashes' = crashes + 1 /\ races' = races /\ ticks' = ticks
    BY <1>1
  <2> QED
    BY <1>3, <2>1, SecretClientAssumption DEF TheRest, BoundsOK
<1>7. req' \in [Req -> Request]
  BY <1>2, <1>3, IdleForm
<1>8. ASSUME NEW r \in Req PROVE Placed(req'[r], server', disk')
  <2>1. CASE Home(r) = p
    BY <1>2, <2>1 DEF Placed, Idle
  <2>2. CASE Home(r) # p
    <3>1. req'[r] = req[r] /\ Placed(req[r], server, disk)
      BY <1>2, <2>2 DEF ClientInv, InFlight
    <3>2. \A q \in Proc : q # p => server'[q] = server[q]
      BY <1>1, <1>3 DEF TheRest, ServerOK
    <3>3. disk # None => disk' # None
      BY <1>1, NoneAssumption
    <3> QED
      BY <2>2, <3>1, <3>2, <3>3 DEF Placed, Home
  <2> QED
    BY <2>1, <2>2
<1> QED
  BY <1>4, <1>5, <1>6, <1>7, <1>8 DEF ClientInv, TheRest, InFlight

(* Time passes.                                                            *)
LEMMA OlderTyped ==
  ASSUME NEW e \in Entries
  PROVE  /\ Older(e) \in Entries
         /\ \A n \in Name : Older(e)[n] # None =>
              /\ e[n] # None /\ Older(e)[n].val = e[n].val
              /\ Older(e)[n].age = IF e[n].age <= TTL THEN e[n].age + 1 ELSE e[n].age
<1> DEFINE entry == [val : Value, age : 0 .. TTL + 1]
<1>1. ASSUME NEW n \in Name, e[n] # None, e[n].age <= TTL
      PROVE  /\ [e[n] EXCEPT !.age = @ + 1] \in entry
             /\ [e[n] EXCEPT !.age = @ + 1].val = e[n].val
             /\ [e[n] EXCEPT !.age = @ + 1].age = e[n].age + 1
  <2>1. e[n] \in entry
    BY <1>1 DEF Entries
  <2>2. e[n].age + 1 \in 0 .. TTL + 1
    BY <1>1, <2>1, SecretClientAssumption
  <2> QED
    BY <2>1, <2>2
<1>2. \A n \in Name : Older(e)[n] = IF e[n] # None /\ e[n].age <= TTL
                                    THEN [e[n] EXCEPT !.age = @ + 1] ELSE e[n]
  BY DEF Older
<1>3. Older(e) \in Entries
  BY <1>1, <1>2 DEF Older, Entries
<1> QED
  BY <1>1, <1>2, <1>3

(* Time passes: what is cached gets older, and what is out of date more    *)
(* so.                                                                     *)
LEMMA TickKeeps == ASSUME ClientInv, Tick PROVE ClientInv'
<1>1. /\ ticks < MaxTicks /\ ticks' = ticks + 1
      /\ since' = [n \in Name |-> [v \in Value |->
           IF Has(vault, n, v) \/ since[n][v] > TTL THEN since[n][v] ELSE since[n][v] + 1]]
      /\ mem' = [p \in Proc |-> [mem[p] EXCEPT !.entry = Older(mem[p].entry)]]
      /\ disk' = IF disk \in {None, Torn} THEN disk ELSE Older(disk)
      /\ UNCHANGED <<vault, edits, housed, snapDisk, snapTmp, snapMem, server, req>>
      /\ UNCHANGED <<races, crashes, history>>
  BY DEF Tick
<1>2. TheRest /\ req \in [Req -> Request]
  BY DEF ClientInv
<1>3. ExternalOK'
  <2>1. since \in [Name -> [Value -> 0 .. TTL + 1]]
    BY <1>2 DEF TheRest, ExternalOK
  <2>2. ASSUME NEW n \in Name, NEW v \in Value
        PROVE  (IF Has(vault, n, v) \/ since[n][v] > TTL THEN since[n][v] ELSE since[n][v] + 1)
                 \in 0 .. TTL + 1
    <3>1. since[n][v] \in 0 .. TTL + 1
      BY <2>1
    <3>2. TTL \in Nat
      BY SecretClientAssumption
    <3> QED
      BY <3>1, <3>2
  <2>3. since' \in [Name -> [Value -> 0 .. TTL + 1]]
    BY <1>1, <2>2
  <2> QED
    BY <1>1, <1>2, <2>3 DEF TheRest, ExternalOK
<1>4. CachesOK'
  <2>1. mem' \in [Proc -> Cache]
    BY <1>1, <1>2, OlderTyped DEF TheRest, CachesOK, Cache
  <2>2. disk' \in Entries \cup {None, Torn}
    BY <1>1, <1>2, OlderTyped DEF TheRest, CachesOK
  <2> QED
    BY <2>1, <2>2 DEF CachesOK
<1>5. SnapshotsOK' /\ ServerOK' /\ HistoryOK'
  BY <1>1, <1>2 DEF history, TheRest, SnapshotsOK, ServerOK, HistoryOK
<1>6. BoundsOK'
  <2>1. ticks \in 0 .. MaxTicks /\ ticks < MaxTicks /\ ticks' = ticks + 1 /\ MaxTicks \in Nat
    BY <1>1, <1>2, SecretClientAssumption DEF TheRest, BoundsOK
  <2>2. ticks' \in 0 .. MaxTicks
    BY <2>1
  <2> QED
    BY <1>1, <1>2, <2>2 DEF TheRest, BoundsOK
<1>7. ASSUME NEW r \in Req PROVE Placed(req'[r], server', disk')
  <2>1. Placed(req[r], server, disk) /\ req' = req /\ server' = server
    BY <1>1 DEF ClientInv, InFlight
  <2>2. disk # None => disk' # None
    BY <1>1, <1>2, OlderTyped, NoneAssumption DEF TheRest, CachesOK
  <2> QED
    BY <2>1, <2>2 DEF Placed
<1> QED
  BY <1>1, <1>2, <1>3, <1>4, <1>5, <1>6, <1>7 DEF ClientInv, TheRest, InFlight
-----------------------------------------------------------------------------
(* The invariant holds before the first request.                           *)
LEMMA InitHolds == Init => ClientInv
<1> SUFFICES ASSUME Init PROVE ClientInv
  OBVIOUS
<1>0. 0 \in 0 .. TTL + 1 /\ TTL + 1 \in 0 .. TTL + 1
  BY SecretClientAssumption
<1>1. ExternalOK
  BY <1>0, SecretClientAssumption DEF Init, ExternalOK, Item, InPlace
<1>2. CachesOK
  BY DEF Init, CachesOK, Cache, Entries
<1>3. SnapshotsOK
  BY <1>1, SeenTyped DEF Init, SnapshotsOK
<1>4. ServerOK
  <2>1. \A kind \in Programs : Off(kind) \in Server
    BY SecretToolsAssumption DEF Off, Server
  <2> QED
    BY <2>1 DEF Init, ServerOK
<1>5. BoundsOK /\ HistoryOK
  BY SecretClientAssumption DEF Init, BoundsOK, HistoryOK
<1>6. req \in [Req -> Request]
  BY IdleForm DEF Init
<1>7. \A r \in Req : Placed(req[r], server, disk)
  BY DEF Init, Placed, Idle
<1> QED
  BY <1>1, <1>2, <1>3, <1>4, <1>5, <1>6, <1>7 DEF ClientInv, TheRest, InFlight

(* A request in flight takes a step.                                       *)
LEMMA StepKeeps == ASSUME ClientInv, NEW r \in Req, Step(r) PROVE ClientInv'
<1>1. CASE Resolve(r) \/ OpenMissing(r) \/ Open(r) \/ ReadCache(r) \/ Hit(r) \/ Miss(r) \/ Fill(r)
           \/ Save(r) \/ Clear(r)
  BY <1>1, ResolveKeeps, OpenKeeps, ReadCacheKeeps, HitKeeps, MissKeeps, FillKeeps, SaveKeeps,
     ClearKeeps
<1>2. CASE ReadSnapshot(r) \/ ListVault(r) \/ WriteSnapshot(r) \/ RenameSnapshot(r)
  BY <1>2, ReadSnapshotKeeps, ListVaultKeeps, WriteSnapshotKeeps, RenameSnapshotKeeps
<1>3. CASE Fetch(r) \/ FetchObject(r) \/ FetchNone(r) \/ FetchFails(r) \/ Fallback(r)
  BY <1>3, FetchKeeps, FetchObjectKeeps, FetchNoneKeeps, FetchFailsKeeps, FallbackKeeps
<1>4. CASE ListFails(r) \/ Listed(r) \/ FilterByScope(r) \/ FindScoped(r)
           \/ ServiceItems(r) \/ Metadata(r)
  BY <1>4, FetchFailsKeeps, ListedKeeps, FilterKeeps, FindScopedKeeps, ServiceKeeps
<1>5. CASE CliFails(r) \/ Create(r) \/ ReadItem(r) \/ Edit(r) \/ Remove(r)
  BY <1>5, FetchNoneKeeps, ChangesKeep, ReadItemKeeps
<1>6. CASE ListFolders(r) \/ LoadFrom(r) \/ Credential(r)
  BY <1>6, ListVaultKeeps, LoadFromKeeps, CredentialKeeps
<1> QED
  BY <1>1, <1>2, <1>3, <1>4, <1>5, <1>6 DEF Step

(* A handler starts one.                                                   *)
LEMMA OpeningKeeps ==
  ASSUME ClientInv, NEW r \in Req, NEW p \in Proc, Read(r, p) \/ Change(r, p) PROVE ClientInv'
<1>1. PICK op, label, n, scoped : Opening(r, p, op, label, n, scoped)
  BY ReadOpens, ChangeOpens
<1>2. PICK new \in Request : Only(r, new) /\ Placed(new, server, disk)
  BY <1>1, OpenedForm
<1> QED
  BY <1>2, OnlyKeeps

(* Every step keeps it.                                                    *)
LEMMA NextKeeps == ASSUME ClientInv, [Next]_vars PROVE ClientInv'
<1>1. CASE \E r \in Req : Step(r)
  BY <1>1, StepKeeps
<1>2. CASE \E r \in Req, p \in Proc : Read(r, p) \/ Change(r, p)
  BY <1>2, OpeningKeeps
<1>3. CASE \E p \in Proc : Crash(p)
  BY <1>3, CrashKeeps
<1>4. CASE \E p \in Proc : Booting(p)
  <2>1. PICK p \in Proc, folder \in BOOLEAN, names \in SUBSET Name :
          Boot(p, server[p].kind, folder, names)
    BY <1>4, BootingBoots
  <2> QED
    BY <2>1, BootKeeps
<1>5. CASE Operator \/ Tick
  BY <1>5, OperatorKeeps, TickKeeps
<1>6. CASE UNCHANGED vars
  <2>1. UNCHANGED <<external, files, memory, bounds, history>> /\ req' = req
    BY <1>6 DEF vars
  <2> QED
    BY <2>1, RestUnchanged DEF ClientInv, InFlight, files, memory
<1> QED
  BY <1>1, <1>2, <1>3, <1>4, <1>5, <1>6 DEF Next, Booting

(* Wherever requests, servers and the operator have got to, everything is  *)
(* of its type, every request that is under way is at a live process, and  *)
(* what its label lets it rely on - a name, an item that was fetched, an   *)
(* id that was found, a file to read - is there.                           *)
THEOREM ClientInvariant == Spec => []ClientInv
<1>1. Init => ClientInv
  BY InitHolds
<1>2. ClientInv /\ [Next]_vars => ClientInv'
  BY NextKeeps
<1> QED
  BY <1>1, <1>2, PTL DEF Spec

(* Every variable has its type.                                            *)
THEOREM ClientTypeCorrect == Spec => []TypeOK
<1>1. ClientInv => TypeOK
  BY TypesSorted DEF ClientInv
<1> QED
  BY <1>1, ClientInvariant, PTL
(* What a step makes of its request, and of no other.                      *)
Moved(r) == \A q \in Req : q # r => req'[q] = req[q]
Same(r) ==
  /\ Moved(r) /\ req'[r].at = req[r].at /\ req'[r].scoped = req[r].scoped
  /\ req'[r].barred = req[r].barred /\ req'[r].given = req[r].given /\ req'[r].lag = req[r].lag
Cleared(r) == req'[r].snap = None /\ req'[r].gone = {}
Ends(r, names, lag) == Moved(r) /\ IsAnswer(req'[r], names \cap req[r].barred, lag)

(* It goes to another label, ...                                           *)
LEMMA Goes ==
  ASSUME req \in [Req -> Request], NEW r \in Req, NEW label, Goto(r, label)
  PROVE  /\ Same(r) /\ req'[r].pc = label /\ req'[r].op = req[r].op /\ req'[r].name = req[r].name
         /\ req'[r].snap = req[r].snap /\ req'[r].gone = req[r].gone
BY DEF Goto, Same, Moved, Request

(* ... ends, ...                                                           *)
LEMMA EndsWith ==
  ASSUME req \in [Req -> Request], NEW r \in Req, NEW names, NEW lag \in 0 .. TTL + 1,
         Reply(r, names, lag)
  PROVE  Ends(r, names, lag)
<1>1. IsAnswer(Answered(r, names, lag), names \cap req[r].barred, lag)
  BY AnsweredForm
<1>2. req'[r] = Answered(r, names, lag) /\ Moved(r)
  BY DEF Reply, Moved
<1> QED
  BY <1>1, <1>2 DEF Ends

(* A reply without a delay is one that ends the request.                   *)
LEMMA EndsAtOnce ==
  ASSUME req \in [Req -> Request], NEW r \in Req, NEW names, Reply(r, names, 0)
  PROVE  Ends(r, names, 0)
BY EndsWith, SecretClientAssumption

(* Giving up gives nothing out.                                            *)
LEMMA FailsWith ==
  ASSUME req \in [Req -> Request], NEW r \in Req, Fail(r) PROVE Ends(r, {}, 0)
BY EndsAtOnce DEF Fail

(* ... or, for the primary value, starts over.                             *)
LEMMA Gets ==
  ASSUME req \in [Req -> Request], NEW r \in Req, Got(r)
  PROVE  \/ Same(r) /\ Cleared(r) /\ req'[r].pc = "path" /\ req'[r].op = "primary"
         \/ Ends(r, {}, 0)
<1>1. CASE req[r].op = "object"
  BY <1>1 DEF Got, Same, Moved, Cleared, Request
<1>2. CASE req[r].op # "object"
  BY <1>2, EndsAtOnce DEF Got
<1> QED
  BY <1>1, <1>2

(* What becomes of the names a list has found: get_credential ranks them,  *)
(* every other call answers.                                               *)
LEMMA Delivers ==
  ASSUME req \in [Req -> Request], NEW r \in Req, NEW names, Deliver(r, names)
  PROVE  \/ /\ Same(r) /\ Cleared(r) /\ req'[r].pc = "scope" /\ req'[r].op = "ranked"
            /\ req[r].op # "list"
         \/ Ends(r, names, 0)
<1>1. CASE req[r].op = "list" \/ names = {}
  BY <1>1, EndsAtOnce DEF Deliver
<1>2. CASE ~(req[r].op = "list" \/ names = {})
  <2>1. PICK n \in names :
          req' = [req EXCEPT ![r] = [req[r] EXCEPT !.pc = "scope", !.op = "ranked", !.name = n,
                                       !.names = {}, !.snap = None, !.gone = {}]]
    BY <1>2 DEF Deliver
  <2> QED
    BY <1>2, <2>1 DEF Same, Moved, Cleared, Request
<1> QED
  BY <1>1, <1>2

(* What findScopedItem finds lets the request through, under its name, or  *)
(* there is an error, or the search for candidates.                        *)
Passes(r) ==
  /\ Moved(r) /\ req'[r].at = req[r].at /\ req'[r].scoped = req[r].scoped
  /\ req'[r].lag = req[r].lag /\ req'[r].name = req[r].name
  /\ req'[r].barred = {} /\ req'[r].given = {req[r].name} \cap req[r].barred
  /\ req'[r].pc \in {"path", "read", "remove"}
  /\ req'[r].op \in {"get", "object", "fields", "update", "delete"}

(* One of the three it is, each time.                                      *)
LEMMA Scopes ==
  ASSUME req \in [Req -> Request], NEW r \in Req, FindScoped(r)
  PROVE  \/ /\ Passes(r) /\ Cleared(r)
            /\ \E i \in Find(Snapshot(r), req[r].name) :
                 /\ Allowed(Home(r), Snapshot(r)[i])
                 /\ req'[r].pc \in {"read", "remove"} => req'[r].id = i
         \/ /\ Same(r) /\ Cleared(r) /\ req'[r].pc = "names" /\ req'[r].op = "credential"
         \/ Fail(r)
<1>1. ASSUME NEW i \in Find(Snapshot(r), req[r].name), NEW c \in Continuation,
             Allowed(Home(r), Snapshot(r)[i]),
             req' = [req EXCEPT ![r] = [@ EXCEPT !.op = c[2], !.pc = c[3],
                                          !.id = IF c[3] = "path" THEN None ELSE i,
                                          !.given = {req[r].name} \cap req[r].barred,
                                          !.snap = None, !.gone = {}, !.barred = {}]]
      PROVE  /\ Passes(r) /\ Cleared(r)
             /\ req'[r].pc \in {"read", "remove"} => req'[r].id = i
  <2>1. /\ c[2] \in {"get", "object", "fields", "update", "delete"}
        /\ c[3] \in {"path", "read", "remove"}
    BY DEF Continuation
  <2> DEFINE id == IF c[3] = "path" THEN None ELSE i
             given == {req[r].name} \cap req[r].barred
             new == [req[r] EXCEPT !.op = c[2], !.pc = c[3], !.id = id, !.given = given,
                                   !.snap = None, !.gone = {}, !.barred = {}]
  <2>2. req' = [req EXCEPT ![r] = new]
    BY <1>1
  <2>3. c[3] # "path" => id = i
    OBVIOUS
  <2> HIDE DEF id, given
  <2>4. /\ new.op = c[2] /\ new.pc = c[3] /\ new.id = id /\ new.given = given
        /\ new.snap = None /\ new.gone = {} /\ new.barred = {} /\ new.at = req[r].at
        /\ new.scoped = req[r].scoped /\ new.lag = req[r].lag /\ new.name = req[r].name
    BY DEF Request
  <2> HIDE DEF new
  <2>5. req'[r] = new /\ Moved(r)
    BY <2>2 DEF Moved
  <2> QED
    BY <2>1, <2>3, <2>4, <2>5 DEF Passes, Cleared, given
<1>2. CASE /\ req[r].op = "credential"
           /\ req' = [req EXCEPT ![r].pc = "names", ![r].snap = None, ![r].gone = {}]
  BY <1>2 DEF Same, Moved, Cleared, Request
<1> QED
  BY <1>1, <1>2 DEF FindScoped

(* What a request in flight does without a change of the vault, as far as  *)
(* the age of secrets goes.                                                *)
Ages(r) == /\ Moved(r) /\ req'[r].pc \notin {"fill", "edit"}
           /\ At(r, "edit") => req'[r].pc # "sync"
           /\ req'[r].lag = req[r].lag \/ req'[r].lag = 0

(* A request that moves on, ...                                            *)
LEMMA MovesAge ==
  ASSUME NEW r \in Req, Same(r), req'[r].pc \notin {"fill", "edit", "sync"} PROVE Ages(r)
BY DEF Same, Ages

(* ... ends ...                                                            *)
LEMMA EndsAge == ASSUME NEW r \in Req, NEW names, Ends(r, names, 0) PROVE Ages(r)
BY DEF Ends, IsAnswer, Ages

(* ... or has got its secret gives out nothing that is out of date,        *)
LEMMA GotAges ==
  ASSUME req \in [Req -> Request], NEW r \in Req, NEW names,
         Got(r) \/ Fail(r) \/ Deliver(r, names) \/ Reply(r, names, 0)
  PROVE  Ages(r)
BY Gets, FailsWith, Delivers, EndsAtOnce, MovesAge, EndsAge
-----------------------------------------------------------------------------
(* The steps that neither use nor fill the cache nor change the vault.     *)
Calm(r) ==
  \/ Resolve(r) \/ OpenMissing(r) \/ Open(r) \/ ReadCache(r) \/ Miss(r) \/ Save(r) \/ Clear(r)
  \/ ReadSnapshot(r) \/ ListVault(r) \/ WriteSnapshot(r) \/ RenameSnapshot(r)
  \/ FetchObject(r) \/ FetchNone(r) \/ FetchFails(r) \/ Fallback(r)
  \/ ListFails(r) \/ Listed(r) \/ FilterByScope(r) \/ FindScoped(r)
  \/ ServiceItems(r) \/ Metadata(r) \/ CliFails(r)
  \/ ListFolders(r) \/ LoadFrom(r) \/ Credential(r)

(* and so for every step that neither uses nor fills the cache.            *)
LEMMA CalmAges == ASSUME req \in [Req -> Request], NEW r \in Req, Calm(r) PROVE Ages(r)
<1>1. CASE OpenMissing(r) \/ Resolve(r)
  <2>1. CASE OpenMissing(r)
    BY <2>1 DEF OpenMissing, Ages, Moved, At
  <2>2. CASE Resolve(r)
    BY <2>2 DEF Resolve, Ages, Moved, Request, At
  <2> QED
    BY <1>1, <2>1, <2>2
<1>2. CASE \/ Open(r) \/ ReadCache(r) \/ Miss(r) \/ Save(r) \/ Clear(r) \/ WriteSnapshot(r)
           \/ FetchFails(r) \/ ListFails(r)
  <2>1. \/ Fail(r) \/ Reply(r, {}, 0)
        \/ \E label \in {"reading", "cache", "maps", "fetch", "save", "rename", "fallback", "listing"} :
             Goto(r, label)
    BY <1>2 DEF Open, ReadCache, Miss, Save, Clear, WriteSnapshot, FetchFails, ListFails
  <2> QED
    BY <2>1, Goes, MovesAge, GotAges
<1>3. CASE ReadSnapshot(r)
  BY <1>3 DEF ReadSnapshot, Loads, Held, Loading, Ages, Moved, Request
<1>4. CASE ListVault(r) \/ ListFolders(r)
  <2>1. CASE ListVault(r)
    BY <2>1 DEF ListVault, Ages, Moved, Request
  <2>2. CASE ListFolders(r)
    BY <2>2 DEF ListFolders, Ages, Moved, Request
  <2> QED
    BY <1>4, <2>1, <2>2
<1>5. CASE \/ RenameSnapshot(r) \/ FetchObject(r) \/ FetchNone(r) \/ Fallback(r)
           \/ FilterByScope(r) \/ ServiceItems(r) \/ Metadata(r) \/ CliFails(r)
           \/ LoadFrom(r) \/ Credential(r)
  <2>1. \E names : Got(r) \/ Fail(r) \/ Deliver(r, names) \/ Reply(r, names, 0)
    BY <1>5 DEF RenameSnapshot, FetchObject, FetchNone, Fallback, FilterByScope, ServiceItems,
                Metadata, CliFails, LoadFrom, Credential
  <2> QED
    BY <2>1, GotAges
<1>6. CASE Listed(r)
  <2>1. \/ \E names : Deliver(r, names)
        \/ \E names : req' = [req EXCEPT ![r].pc = "filter", ![r].names = names,
                                          ![r].snap = None, ![r].gone = {}]
    BY <1>6 DEF Listed
  <2>2. CASE \E names : req' = [req EXCEPT ![r].pc = "filter", ![r].names = names,
                                            ![r].snap = None, ![r].gone = {}]
    BY <2>2 DEF Ages, Moved, Request
  <2> QED
    BY <2>1, <2>2, GotAges
<1>7. CASE FindScoped(r)
  <2>1. CASE Passes(r)
    BY <1>7, <2>1 DEF Passes, Ages, FindScoped, At
  <2>2. ASSUME Same(r), req'[r].pc = "names" PROVE Ages(r)
    BY <2>2, MovesAge
  <2> QED
    BY <1>7, <2>1, <2>2, Scopes, GotAges
<1> QED
  BY <1>1, <1>2, <1>3, <1>4, <1>5, <1>6, <1>7 DEF Calm

-----------------------------------------------------------------------------
(* How long a secret has been out of date is no more than the age of what  *)
(* the caches say of it; what is about to be cached is not out of date.    *)
Recent(entry) == \A n \in Name : entry[n] # None => since[n][entry[n].val] <= entry[n].age

VaultFresh == \A n \in Name, v \in Value : Has(vault, n, v) => since[n][v] = 0
EntriesRecent == /\ \A p \in Proc : Recent(mem[p].entry)
                 /\ disk \notin {None, Torn} => Recent(disk)
FillsFresh == \A r \in Req : At(r, "fill") => since[req[r].path][req[r].item.val] = 0

FreshInv == VaultFresh /\ EntriesRecent /\ FillsFresh /\ CachedIsRecent

(* Steps of others, and of a request that does not fill the cache.         *)
LEMMA RequestsAge ==
  ASSUME FreshInv, NEW r \in Req, Ages(r), UNCHANGED <<vault, since>>
  PROVE  VaultFresh' /\ FillsFresh' /\ CachedIsRecent'
<1>1. VaultFresh'
  BY DEF FreshInv, VaultFresh
<1>2. FillsFresh'
  BY DEF FreshInv, FillsFresh, Ages, Moved, At
<1>3. CachedIsRecent'
  BY SecretClientAssumption DEF FreshInv, CachedIsRecent, Ages, Moved
<1> QED
  BY <1>1, <1>2, <1>3

(* The caches are as recent as they were if they are left alone.           *)
LEMMA CachesStay ==
  ASSUME EntriesRecent, UNCHANGED <<mem, disk, since>> PROVE EntriesRecent'
BY DEF EntriesRecent, Recent

(* The caches through load, get, clear and save.                           *)
LEMMA CalmEntries ==
  ASSUME ClientInv, EntriesRecent, NEW r \in Req, Calm(r) PROVE EntriesRecent'
<1>0. /\ Placed(req[r], server, disk) /\ mem \in [Proc -> Cache]
      /\ disk \in Entries \cup {None, Torn}
  BY DEF ClientInv, InFlight, TheRest, CachesOK
<1>1. CASE OpenMissing(r)
  <2>1. /\ Home(r) \in Proc /\ mem' = [mem EXCEPT ![Home(r)].loaded = TRUE]
        /\ UNCHANGED <<since, disk>>
    BY <1>0, <1>1 DEF OpenMissing, Placed, Home, At, external, files
  <2>2. \A p \in Proc : mem'[p].entry = mem[p].entry
    BY <1>0, <2>1 DEF Cache
  <2> QED
    BY <2>1, <2>2 DEF EntriesRecent, Recent
<1>2. CASE ReadCache(r)
  <2>1. CASE mem' = mem
    BY <1>2, <2>1, CachesStay DEF ReadCache, external, files
  <2>2. CASE mem' # mem
    <3> DEFINE p == Home(r)
               merged == [n \in Name |-> IF disk[n] # None THEN disk[n] ELSE mem[p].entry[n]]
    <3>1. /\ disk \notin {None, Torn}
          /\ mem' = [mem EXCEPT ![p] = [loaded |-> TRUE, entry |-> merged]]
          /\ UNCHANGED <<since, disk>> /\ p \in Proc
      BY <1>0, <1>2, <2>2 DEF ReadCache, At, Placed, Home, external, files
    <3>2. \A n \in Name : merged[n] # None => since[n][merged[n].val] <= merged[n].age
      BY <3>1 DEF EntriesRecent, Recent
    <3> HIDE DEF merged
    <3>3. mem'[p].entry = merged /\ \A q \in Proc : q # p => mem'[q] = mem[q]
      BY <1>0, <3>1
    <3> QED
      BY <3>1, <3>2, <3>3 DEF EntriesRecent, Recent
  <2> QED
    BY <2>1, <2>2
<1>3. CASE Miss(r)
  <2>1. /\ Home(r) \in Proc /\ mem' = [mem EXCEPT ![Home(r)].entry[req[r].path] = None]
        /\ UNCHANGED <<since, disk>>
    BY <1>3, LooksAt DEF Miss, external, files
  <2>2. \A p \in Proc, n \in Name :
          mem'[p].entry[n] = mem[p].entry[n] \/ mem'[p].entry[n] = None
    BY <1>0, <2>1 DEF Cache, Entries
  <2> QED
    BY <2>1, <2>2 DEF EntriesRecent, Recent
<1>4. CASE Clear(r)
  <2>1. /\ Home(r) \in Proc /\ mem' = [mem EXCEPT ![Home(r)].entry = [n \in Name |-> None]]
        /\ UNCHANGED <<since, disk>>
    BY <1>0, <1>4 DEF Clear, Placed, Home, At, external, files
  <2>2. \A p \in Proc, n \in Name :
          mem'[p].entry[n] = mem[p].entry[n] \/ mem'[p].entry[n] = None
    BY <1>0, <2>1 DEF Cache
  <2> QED
    BY <2>1, <2>2 DEF EntriesRecent, Recent
<1>5. CASE Save(r)
  <2>1. Home(r) \in Proc /\ disk' = mem[Home(r)].entry /\ UNCHANGED <<since, mem>>
    BY <1>0, <1>5 DEF Save, Placed, Home, At, external, memory
  <2> QED
    BY <2>1 DEF EntriesRecent, Recent
<1>6. CASE ~(OpenMissing(r) \/ ReadCache(r) \/ Miss(r) \/ Clear(r) \/ Save(r))
  <2>1. UNCHANGED <<since, mem, disk>>
    BY <1>6
       DEF Calm, Resolve, Open, ReadSnapshot, ListVault, WriteSnapshot, RenameSnapshot, FetchObject,
           FetchNone, FetchFails, Fallback, ListFails, Listed, List, FilterByScope, FindScoped,
           ServiceItems, Metadata, CliFails, ListFolders, LoadFrom, Credential, Loaded,
           external, files, memory
  <2> QED
    BY <2>1, CachesStay
<1> QED
  BY <1>1, <1>2, <1>3, <1>4, <1>5, <1>6

(* A step that neither fills a cache nor answers from one.                 *)
LEMMA CalmFresh == ASSUME ClientInv, FreshInv, NEW r \in Req, Calm(r) PROVE FreshInv'
<1>1. UNCHANGED <<vault, since>>
  BY DEF Calm, Resolve, OpenMissing, Open, ReadCache, Miss, Save, Clear,
         ReadSnapshot, ListVault, WriteSnapshot, RenameSnapshot, FetchObject,
         FetchNone, FetchFails, Fallback, ListFails, Listed, List, FilterByScope, FindScoped,
         ServiceItems, Metadata, CliFails, ListFolders, LoadFrom, Credential, Loaded,
         external
<1>2. Ages(r)
  BY CalmAges DEF ClientInv
<1> QED
  BY <1>1, <1>2, RequestsAge, CalmEntries DEF FreshInv

(* get() answers with an entry that is not older than it says ...          *)
LEMMA HitFresh == ASSUME ClientInv, FreshInv, NEW r \in Req, Hit(r) PROVE FreshInv'
<1> DEFINE lag == since[req[r].path][Entry(r).val]
<1>1. /\ Home(r) \in Proc /\ req[r].path \in Name
      /\ Entry(r) \in [val : Value, age : 0 .. TTL + 1] /\ Entry(r) # None /\ Entry(r).age <= TTL
      /\ Reply(r, {}, lag) /\ UNCHANGED <<vault, since, mem, disk>>
  <2>1. /\ Looks(r) /\ Entry(r) # None /\ Entry(r).age <= TTL
        /\ Reply(r, {}, lag) /\ UNCHANGED <<vault, since, mem, disk>>
    BY DEF Hit, Live, external, files, memory
  <2>2. /\ Home(r) \in Proc /\ req[r].path \in Name
        /\ Entry(r) \in [val : Value, age : 0 .. TTL + 1] \cup {None}
    BY <2>1, LooksAt
  <2> QED
    BY <2>1, <2>2
<1>2. lag \in 0 .. TTL + 1 /\ lag <= TTL
  <2>1. lag <= Entry(r).age
    <3>1. Recent(mem[Home(r)].entry)
      BY <1>1 DEF FreshInv, EntriesRecent
    <3> QED
      BY <1>1, <3>1 DEF Recent, Entry
  <2>2. lag \in 0 .. TTL + 1
    BY <1>1 DEF ClientInv, TheRest, ExternalOK
  <2>3. Entry(r).age \in Nat /\ TTL \in Nat
    BY <1>1, SecretClientAssumption
  <2> HIDE DEF lag
  <2> QED
    BY <1>1, <2>1, <2>2, <2>3
<1> HIDE DEF lag
<1>3. Moved(r) /\ req'[r].pc # "fill" /\ req'[r].lag = lag
  <2>1. req \in [Req -> Request]
    BY DEF ClientInv
  <2>2. Ends(r, {}, lag)
    BY <1>1, <1>2, <2>1, EndsWith
  <2> QED
    BY <2>2 DEF Ends, IsAnswer
<1>4. VaultFresh' /\ EntriesRecent'
  <2>1. VaultFresh /\ EntriesRecent /\ UNCHANGED <<vault, since, mem, disk>>
    BY <1>1 DEF FreshInv
  <2>2. EntriesRecent'
    BY <2>1, CachesStay
  <2> QED
    BY <2>1, <2>2 DEF VaultFresh
<1>5. FillsFresh' /\ CachedIsRecent'
  <2>1. FillsFresh /\ CachedIsRecent /\ since' = since
    BY <1>1 DEF FreshInv
  <2>2. FillsFresh'
    BY <1>3, <2>1 DEF FillsFresh, Moved, At
  <2>3. CachedIsRecent'
    BY <1>2, <1>3, <2>1 DEF CachedIsRecent, Moved
  <2> QED
    BY <2>2, <2>3
<1> QED
  BY <1>4, <1>5 DEF FreshInv

(* ... and set() makes one of a secret that nothing has happened to since. *)
LEMMA FillFresh == ASSUME ClientInv, FreshInv, NEW r \in Req, Fill(r) PROVE FreshInv'
<1>1. /\ req[r] \in Request /\ Placed(req[r], server, disk) /\ req[r].pc = "fill"
      /\ mem \in [Proc -> Cache] /\ UNCHANGED <<vault, since, disk>>
  BY DEF Fill, At, ClientInv, InFlight, TheRest, CachesOK, external, files
<1>2. Home(r) \in Proc /\ req[r].path \in Name
  BY <1>1 DEF Placed, Home
<1>3. Ages(r)
  BY DEF Fill, Ages, Moved, Request, ClientInv
<1>4. PICK evicted \in Evictable(req[r].path) :
        mem' = [mem EXCEPT ![Home(r)].entry = [x \in Name |->
          IF x = req[r].path THEN [val |-> req[r].item.val, age |-> 0]
          ELSE IF x \in evicted THEN None ELSE @[x]]]
  BY DEF Fill
<1>5. since[req[r].path][req[r].item.val] = 0
  BY <1>1 DEF FreshInv, FillsFresh, At
<1>6. \A p \in Proc, n \in Name :
        \/ mem'[p].entry[n] = mem[p].entry[n] \/ mem'[p].entry[n] = None
        \/ n = req[r].path /\ mem'[p].entry[n] = [val |-> req[r].item.val, age |-> 0]
  BY <1>1, <1>2, <1>4 DEF Cache
<1>7. EntriesRecent'
  BY <1>1, <1>5, <1>6 DEF FreshInv, EntriesRecent, Recent
<1> QED
  BY <1>1, <1>3, <1>7, RequestsAge DEF FreshInv

(* An edit or removal reads its item.                                      *)
LEMMA ReadItemFresh == ASSUME ClientInv, FreshInv, NEW r \in Req, ReadItem(r) PROVE FreshInv'
<1>1. /\ Moved(r) /\ req'[r].pc = "edit" /\ req'[r].lag = req[r].lag
      /\ UNCHANGED <<vault, since, mem, disk>>
  BY DEF ReadItem, Moved, Request, ClientInv, external, files, memory
<1>2. VaultFresh' /\ EntriesRecent'
  BY <1>1, CachesStay DEF FreshInv, VaultFresh
<1>3. FillsFresh' /\ CachedIsRecent'
  BY <1>1 DEF FreshInv, FillsFresh, CachedIsRecent, Moved, At
<1> QED
  BY <1>2, <1>3 DEF FreshInv

(* What `bw get item` returns has not been out of date for any time.       *)
LEMMA FetchFresh == ASSUME ClientInv, FreshInv, NEW r \in Req, Fetch(r) PROVE FreshInv'
<1>1. PICK i \in Found(vault, req[r].path) :
        req' = [req EXCEPT ![r].pc = "fill", ![r].item = vault[i]]
  BY DEF Fetch
<1>2. /\ req[r].path \in Name /\ req \in [Req -> Request] /\ vault[i] \in Item
      /\ Has(vault, req[r].path, vault[i].val) /\ UNCHANGED <<vault, since, mem, disk>>
  BY <1>1, FoundIsItem
     DEF Fetch, At, ClientInv, InFlight, Placed, TheRest, Has, external, files, memory
<1>3. /\ Moved(r) /\ req'[r].path = req[r].path /\ req'[r].item = vault[i]
      /\ req'[r].lag = req[r].lag
  BY <1>1, <1>2 DEF Moved, Request
<1>4. since[req[r].path][vault[i].val] = 0
  BY <1>2 DEF FreshInv, VaultFresh, Item
<1>5. VaultFresh' /\ EntriesRecent'
  BY <1>2, CachesStay DEF FreshInv, VaultFresh
<1>6. FillsFresh' /\ CachedIsRecent'
  BY <1>2, <1>3, <1>4 DEF FreshInv, FillsFresh, CachedIsRecent, Moved, At
<1> QED
  BY <1>5, <1>6 DEF FreshInv

(* A change of the vault makes the time since a name had a secret no more. *)
LEMMA VaultBecomesFresh ==
  ASSUME ClientInv, FreshInv, NEW v, NEW reqs \in [Req -> Request], VaultBecomes(v, reqs),
         UNCHANGED <<mem, disk>>,
         \A q \in Req : reqs[q] = req[q] \/ (reqs[q].pc # "fill" /\ reqs[q].lag = 0)
  PROVE  FreshInv'
<1>1. /\ vault' = v
      /\ since' = [n \in Name |-> [x \in Value |-> IF Has(v, n, x) THEN 0 ELSE since[n][x]]]
      /\ req' = [q \in Req |-> [reqs[q] EXCEPT !.gone = @ \ InFolder(v),
                                               !.barred = @ \ InFolder(v)]]
      /\ since \in [Name -> [Value -> 0 .. TTL + 1]]
      /\ CachesOK
  BY DEF VaultBecomes, ClientInv, TheRest, ExternalOK
<1>2. \A n \in Name, x \in Value :
        /\ since'[n][x] = 0 \/ since'[n][x] = since[n][x]
        /\ Has(v, n, x) => since'[n][x] = 0
  BY <1>1
<1>3. \A q \in Req : /\ req'[q].pc = reqs[q].pc /\ req'[q].path = reqs[q].path
                     /\ req'[q].item = reqs[q].item /\ req'[q].lag = reqs[q].lag
  BY <1>1 DEF Request
<1>4. VaultFresh'
  BY <1>1, <1>2 DEF VaultFresh
<1>5. ASSUME NEW entry \in Entries, Recent(entry), NEW n \in Name, entry[n] # None
      PROVE  since'[n][entry[n].val] <= entry[n].age
  <2>1. entry[n].val \in Value /\ entry[n].age \in 0 .. TTL + 1
    BY <1>5 DEF Entries
  <2>2. since[n][entry[n].val] <= entry[n].age
    BY <1>5 DEF Recent
  <2> QED
    BY <1>2, <2>1, <2>2, SecretClientAssumption
<1>6. EntriesRecent'
  BY <1>1, <1>5 DEF FreshInv, EntriesRecent, Recent, CachesOK, Cache
<1>7. ASSUME NEW q \in Req, At(q, "fill")' PROVE since'[req'[q].path][req'[q].item.val] = 0
  <2>1. req'[q].pc = "fill"
    BY <1>7 DEF At
  <2>2. /\ reqs[q] = req[q] /\ req[q].pc = "fill"
        /\ req'[q].path = req[q].path /\ req'[q].item = req[q].item
    BY <1>3, <2>1
  <2>3. since[req[q].path][req[q].item.val] = 0
    BY <2>2 DEF FreshInv, FillsFresh, At
  <2>4. req[q].path \in Name /\ req[q].item \in Item
    BY <2>2 DEF ClientInv, InFlight, Placed
  <2>5. req[q].item.val \in Value
    BY <2>4 DEF Item
  <2> QED
    BY <1>2, <2>2, <2>3, <2>4, <2>5
<1>8. FillsFresh'
  BY <1>7 DEF FillsFresh
<1>9. CachedIsRecent'
  BY <1>3, SecretClientAssumption DEF FreshInv, CachedIsRecent
<1> QED
  BY <1>4, <1>6, <1>8, <1>9 DEF FreshInv

(* A write makes what it replaces out of date from now on, ...             *)
LEMMA ChangesFresh ==
  ASSUME ClientInv, FreshInv, NEW r \in Req, Create(r) \/ Edit(r) \/ Remove(r) PROVE FreshInv'
<1>1. PICK v : Wrote(r, v)
  BY ChangeTypes
<1>2. req[r].pc # "idle"
  BY ChangeTypes
<1> DEFINE reqs == [req EXCEPT ![r] = Synced(r)]
<1>3. VaultBecomes(v, reqs) /\ UNCHANGED <<mem, disk>>
  BY <1>1 DEF Wrote, Synced, files, memory
<1>4. /\ req \in [Req -> Request] /\ Synced(r) \in Request
      /\ Synced(r).pc # "fill" /\ Synced(r).lag = 0
  BY <1>2, SyncedForm DEF ClientInv
<1>5. /\ reqs \in [Req -> Request]
      /\ \A q \in Req : reqs[q] = req[q] \/ (reqs[q].pc # "fill" /\ reqs[q].lag = 0)
  BY <1>4
<1> HIDE DEF reqs
<1> QED
  BY <1>3, <1>5, VaultBecomesFresh

(* ... as the operator's edits do.                                         *)
LEMMA OperatorFresh == ASSUME ClientInv, FreshInv, Operator PROVE FreshInv'
<1>1. PICK v : VaultBecomes(v, req)
  BY DEF Operator
<1>2. req \in [Req -> Request] /\ UNCHANGED <<mem, disk>>
  BY DEF ClientInv, Operator, files, memory
<1> QED
  BY <1>1, <1>2, VaultBecomesFresh

(* A process that starts has no entries, and a torn file says nothing.     *)
LEMMA CrashFresh == ASSUME ClientInv, FreshInv, NEW p \in Proc, Crash(p) PROVE FreshInv'
<1>1. /\ mem' = [mem EXCEPT ![p] = [loaded |-> FALSE, entry |-> [n \in Name |-> None]]]
      /\ disk' \in {disk, Torn} /\ UNCHANGED <<vault, since>>
      /\ req' = [r \in Req |-> IF Home(r) = p THEN Idle ELSE req[r]]
      /\ mem \in [Proc -> Cache]
  BY DEF Crash, ClientInv, TheRest, CachesOK, external
<1>2. \A q \in Proc, n \in Name : mem'[q].entry[n] = mem[q].entry[n] \/ mem'[q].entry[n] = None
  BY <1>1
<1>3. VaultFresh' /\ EntriesRecent'
  BY <1>1, <1>2 DEF FreshInv, VaultFresh, EntriesRecent, Recent
<1>4. \A r \in Req : req'[r] = req[r] \/ (req'[r].pc # "fill" /\ req'[r].lag = 0)
  BY <1>1 DEF Idle
<1>5. FillsFresh' /\ CachedIsRecent'
  BY <1>1, <1>4, SecretClientAssumption DEF FreshInv, FillsFresh, CachedIsRecent, At
<1> QED
  BY <1>3, <1>5 DEF FreshInv

(* As time passes, entries age with what they say.                         *)
LEMMA TickFresh == ASSUME ClientInv, FreshInv, Tick PROVE FreshInv'
<1>1. /\ \A r \in Req : ~At(r, "fill")
      /\ since' = [n \in Name |-> [v \in Value |->
           IF Has(vault, n, v) \/ since[n][v] > TTL THEN since[n][v] ELSE since[n][v] + 1]]
      /\ mem' = [p \in Proc |-> [mem[p] EXCEPT !.entry = Older(mem[p].entry)]]
      /\ disk' = IF disk \in {None, Torn} THEN disk ELSE Older(disk)
      /\ UNCHANGED <<vault, req>>
      /\ since \in [Name -> [Value -> 0 .. TTL + 1]] /\ CachesOK
  BY DEF Tick, ClientInv, TheRest, ExternalOK
<1>2. VaultFresh'
  BY <1>1 DEF FreshInv, VaultFresh
<1>3. ASSUME NEW e \in Entries, Recent(e), NEW n \in Name, Older(e)[n] # None
      PROVE  since'[n][Older(e)[n].val] <= Older(e)[n].age
  <2>1. /\ e[n] # None /\ Older(e)[n].val = e[n].val
        /\ Older(e)[n].age = IF e[n].age <= TTL THEN e[n].age + 1 ELSE e[n].age
    BY <1>3, OlderTyped
  <2>2. e[n].val \in Value /\ e[n].age \in 0 .. TTL + 1
    BY <2>1 DEF Entries
  <2>3. since[n][e[n].val] \in 0 .. TTL + 1 /\ since[n][e[n].val] <= e[n].age
    BY <1>1, <1>3, <2>1, <2>2 DEF Recent
  <2>4. since'[n][e[n].val] = IF Has(vault, n, e[n].val) \/ since[n][e[n].val] > TTL
                              THEN since[n][e[n].val] ELSE since[n][e[n].val] + 1
    BY <1>1, <2>2
  <2> QED
    BY <2>1, <2>2, <2>3, <2>4, SecretClientAssumption
<1>4. EntriesRecent'
  <2>1. \A p \in Proc : mem'[p].entry = Older(mem[p].entry)
    BY <1>1 DEF CachesOK, Cache
  <2>2. disk' \notin {None, Torn} =>
          disk \in Entries /\ disk \notin {None, Torn} /\ disk' = Older(disk)
    BY <1>1 DEF CachesOK
  <2> QED
    BY <1>1, <1>3, <2>1, <2>2 DEF FreshInv, EntriesRecent, Recent, CachesOK, Cache
<1>5. FillsFresh' /\ CachedIsRecent'
  BY <1>1 DEF FreshInv, FillsFresh, CachedIsRecent, At
<1> QED
  BY <1>2, <1>4, <1>5 DEF FreshInv

(* A request that starts has given nothing yet.                            *)
LEMMA OpeningFresh ==
  ASSUME ClientInv, FreshInv, NEW r \in Req, NEW p \in Proc, Read(r, p) \/ Change(r, p)
  PROVE  FreshInv'
<1>1. PICK op, label, n, scoped : Opening(r, p, op, label, n, scoped)
  BY ReadOpens, ChangeOpens
<1>2. PICK new \in Request : /\ Only(r, new) /\ new.pc = label /\ new.lag = 0
  BY <1>1, OpenedForm
<1>3. label \notin {"fill", "edit"} /\ At(r, "idle")
  BY <1>1 DEF Opening, Opens
<1>4. Moved(r) /\ req'[r] = new /\ UNCHANGED <<vault, since, mem, disk>>
  BY <1>2, TurnOfOne DEF ClientInv, Only, Moved, external, files, memory
<1>5. Ages(r)
  BY <1>2, <1>3, <1>4 DEF Ages, At
<1> QED
  BY <1>4, <1>5, RequestsAge, CachesStay DEF FreshInv

(* At first nothing is cached.                                             *)
LEMMA InitFresh == Init => FreshInv
<1> SUFFICES ASSUME Init PROVE FreshInv
  OBVIOUS
<1>1. VaultFresh
  BY DEF Init, VaultFresh
<1>2. EntriesRecent
  BY DEF Init, EntriesRecent, Recent
<1>3. \A r \in Req : req[r].pc = "idle" /\ req[r].lag = 0
  BY DEF Init, Idle
<1>4. FillsFresh /\ CachedIsRecent
  BY <1>3, SecretClientAssumption DEF FillsFresh, CachedIsRecent, At
<1> QED
  BY <1>1, <1>2, <1>4 DEF FreshInv

(* Every step keeps what is cached as recent as it says.                   *)
LEMMA NextFresh == ASSUME ClientInv, FreshInv, [Next]_vars PROVE FreshInv'
<1>1. ASSUME NEW r \in Req, Step(r) PROVE FreshInv'
  BY <1>1, CalmFresh, HitFresh, FillFresh, FetchFresh, ReadItemFresh, ChangesFresh DEF Step, Calm
<1>2. CASE \E r \in Req, p \in Proc : Read(r, p) \/ Change(r, p)
  BY <1>2, OpeningFresh
<1>3. CASE \E p \in Proc : Crash(p)
  BY <1>3, CrashFresh
<1>4. CASE (\E p \in Proc : Booting(p)) \/ UNCHANGED vars
  <2>1. UNCHANGED <<vault, since, mem, disk, req>>
    BY <1>4, BootingBoots DEF Boot, vars, external, files, memory
  <2> QED
    BY <2>1, CachesStay DEF FreshInv, VaultFresh, FillsFresh, CachedIsRecent, At
<1>5. CASE Operator \/ Tick
  BY <1>5, OperatorFresh, TickFresh
<1> QED
  BY <1>1, <1>2, <1>3, <1>4, <1>5 DEF Next, Booting

(* A secret answered from the cache has been out of date no longer than    *)
(* its time to live.                                                       *)
THEOREM CachedSecretsAreRecent == Spec => []CachedIsRecent
<1>1. Init => ClientInv /\ FreshInv
  BY InitHolds, InitFresh
<1>2. ClientInv /\ FreshInv /\ [Next]_vars => (ClientInv /\ FreshInv)'
  BY NextKeeps, NextFresh
<1>3. FreshInv => CachedIsRecent
  BY DEF FreshInv
<1> QED
  BY <1>1, <1>2, <1>3, PTL DEF Spec
-----------------------------------------------------------------------------
(* What a listing puts in the folder has lain there, and so has what a     *)
(* server with a folder is about to read, edit or remove.                  *)
Housed(l) == l # None => InPlace(l) \subseteq housed
Holds(q, srv, kept) ==
  q.pc \in {"read", "edit", "remove"} /\ srv[q.at].folder => q.id \in kept

ListingsHoused == /\ Housed(vault) /\ Housed(snapDisk) /\ Housed(snapTmp)
                  /\ \A p \in Proc : Housed(snapMem[p])
RequestsHoused == \A r \in Req : Housed(req[r].snap) /\ Holds(req[r], server, housed)

HousedInv == ListingsHoused /\ RequestsHoused

(* A listing of the vault has what is in the folder now.                   *)
LEMMA SeenHoused == ASSUME ClientInv, Housed(vault) PROVE Housed(Seen(vault))
<1>1. vault \in [Id -> Item \cup {None}]
  BY DEF ClientInv, TheRest, ExternalOK
<1>2. vault # None
  BY <1>1, NoneAssumption
<1>3. ASSUME NEW i \in Id, Seen(vault)[i] # None
      PROVE  vault[i] # None /\ Seen(vault)[i].in = vault[i].in
  BY <1>3 DEF Seen
<1> QED
  BY <1>2, <1>3 DEF Housed, InPlace

(* Steps of a request that do not change the vault.                        *)
Reads(r) == Calm(r) \/ Hit(r) \/ Fill(r) \/ Fetch(r) \/ ReadItem(r)

(* The vault stays, and so do the folders of servers.                      *)
LEMMA ReadsStay ==
  ASSUME ClientInv, NEW r \in Req, Reads(r)
  PROVE  UNCHANGED <<vault, housed>> /\ \A p \in Proc : server'[p].folder = server[p].folder
<1>1. UNCHANGED <<vault, housed>>
  BY DEF Reads, Calm, Resolve, OpenMissing, Open, ReadCache, Hit, Miss, Fill, Save, Clear,
         ReadSnapshot, ListVault, WriteSnapshot, RenameSnapshot, Fetch, FetchObject,
         FetchNone, FetchFails, Fallback, ListFails, Listed, List, FilterByScope, FindScoped,
         ServiceItems, Metadata, CliFails, ReadItem, ListFolders, LoadFrom, Credential, Loaded,
         external
<1>2. server \in [Proc -> Server]
  BY DEF ClientInv, TheRest, ServerOK
<1>3. CASE LoadFrom(r)
  <2>1. PICK ns : server' = [server EXCEPT ![Home(r)].names = ns]
    BY <1>3 DEF LoadFrom
  <2> QED
    BY <1>1, <1>2, <2>1 DEF Server
<1>4. CASE ~LoadFrom(r)
  <2>1. server' = server
    BY <1>4
       DEF Reads, Calm, Resolve, OpenMissing, Open, ReadCache, Hit, Miss, Fill, Save, Clear,
           ReadSnapshot, ListVault, WriteSnapshot, RenameSnapshot, Fetch, FetchObject,
           FetchNone, FetchFails, Fallback, ListFails, Listed, List, FilterByScope, FindScoped,
           ServiceItems, Metadata, CliFails, ReadItem, ListFolders, Credential, Loaded, memory
  <2> QED
    BY <1>1, <2>1
<1> QED
  BY <1>3, <1>4

(* What load() comes to is in memory or was read from the file.            *)
LEMMA SnapshotHoused ==
  ASSUME ClientInv, HousedInv, NEW r \in Req, Home(r) \in Proc PROVE Housed(Snapshot(r))
BY DEF HousedInv, ListingsHoused, RequestsHoused, Snapshot

(* Where snapshots go, they take nothing along that was never there.       *)
LEMMA ReadsFiles ==
  ASSUME ClientInv, HousedInv, NEW r \in Req, Reads(r)
  PROVE  Housed(snapDisk') /\ Housed(snapTmp') /\ \A p \in Proc : Housed(snapMem'[p])
<1>1. /\ Housed(snapDisk) /\ Housed(snapTmp) /\ \A p \in Proc : Housed(snapMem[p])
      /\ Housed(req[r].snap) /\ Housed(None)
      /\ snapMem \in [Proc -> Listing \cup {None}]
  BY DEF HousedInv, ListingsHoused, RequestsHoused, Housed, ClientInv, TheRest, SnapshotsOK
<1>2. CASE WriteSnapshot(r) \/ RenameSnapshot(r)
  <2>1. /\ snapDisk' \in {snapDisk, snapTmp} /\ snapTmp' \in {snapTmp, None, req[r].snap}
        /\ snapMem' = snapMem \/ snapMem' = [snapMem EXCEPT ![Home(r)] = req[r].snap]
    BY <1>2 DEF WriteSnapshot, RenameSnapshot, memory
  <2>2. Housed(snapDisk') /\ Housed(snapTmp')
    <3> HIDE DEF Housed
    <3> QED
      BY <1>1, <2>1
  <2>3. ASSUME NEW p \in Proc PROVE snapMem'[p] \in {snapMem[p], req[r].snap}
    BY <1>1, <2>1
  <2>4. \A p \in Proc : Housed(snapMem'[p])
    BY <1>1, <2>3
  <2> QED
    BY <2>2, <2>4
<1>3. CASE Loaded(r)
  <2>1. /\ Home(r) \in Proc /\ UNCHANGED <<snapDisk, snapTmp>>
        /\ snapMem' = [snapMem EXCEPT ![Home(r)] = Snapshot(r)]
    BY <1>3, LoadedTypes DEF Loaded, files
  <2>2. Housed(Snapshot(r))
    BY <2>1, SnapshotHoused
  <2>3. ASSUME NEW p \in Proc PROVE snapMem'[p] \in {snapMem[p], Snapshot(r)}
    BY <1>1, <2>1
  <2>4. \A p \in Proc : Housed(snapMem'[p])
    BY <1>1, <2>2, <2>3
  <2> QED
    BY <1>1, <2>1, <2>4
<1>4. CASE ~(WriteSnapshot(r) \/ RenameSnapshot(r) \/ Loaded(r))
  <2>1. UNCHANGED <<snapDisk, snapTmp, snapMem>>
    BY <1>4
       DEF Reads, Calm, Resolve, OpenMissing, Open, ReadCache, Hit, Miss, Fill, Save, Clear,
           ReadSnapshot, ListVault, Fetch, FetchObject,
           FetchNone, FetchFails, Fallback, ListFails, Listed, List, FilterByScope, FindScoped,
           ServiceItems, Metadata, CliFails, ReadItem, ListFolders, LoadFrom, Credential,
           files, memory
  <2> QED
    BY <1>1, <2>1
<1> QED
  BY <1>2, <1>3, <1>4

(* What a request has of a listing and of an item's id after such a step.  *)
Carries(r) ==
  /\ Moved(r) /\ req'[r].snap \in {None, req[r].snap, snapDisk, Seen(vault)}
  /\ req'[r].pc \in {"read", "edit", "remove"} =>
       /\ req'[r].at = req[r].at
       /\ \/ req[r].pc \in {"read", "edit", "remove"} /\ req'[r].id = req[r].id
          \/ /\ req[r].pc \in Loading
             /\ req'[r].id \in Find(Snapshot(r), req[r].name)
             /\ Allowed(Home(r), Snapshot(r)[req'[r].id])

(* A request that moves on to another label, ends, or gets its secret.     *)
LEMMA MovesOn ==
  ASSUME req \in [Req -> Request], NEW r \in Req, NEW names,
         \/ Fail(r) \/ Reply(r, names, 0) \/ Got(r) \/ Deliver(r, names)
         \/ \E label \in {"reading", "cache", "maps", "fetch", "save", "rename", "fallback",
                          "listing"} : Goto(r, label)
  PROVE  Carries(r)
<1>1. ASSUME NEW ns, NEW lag, Ends(r, ns, lag) PROVE Carries(r)
  BY <1>1 DEF Ends, IsAnswer, Carries
<1>2. ASSUME Same(r), Cleared(r), req'[r].pc \in {"path", "scope"} PROVE Carries(r)
  BY <1>2 DEF Same, Cleared, Carries
<1>3. ASSUME NEW label \in {"reading", "cache", "maps", "fetch", "save", "rename", "fallback",
                            "listing"}, Goto(r, label)
      PROVE  Carries(r)
  BY <1>3, Goes DEF Carries, Same
<1>4. CASE Fail(r) \/ Reply(r, names, 0)
  BY <1>1, <1>4, FailsWith, EndsAtOnce
<1>5. CASE Got(r) \/ Deliver(r, names)
  BY <1>1, <1>2, <1>5, Gets, Delivers
<1> QED
  BY <1>3, <1>4, <1>5

(* So does every step that leaves the vault as it is.                      *)
LEMMA ReadsCarry == ASSUME ClientInv, NEW r \in Req, Reads(r) PROVE Carries(r)
<1>0. req \in [Req -> Request]
  BY DEF ClientInv
<1>1. CASE OpenMissing(r) \/ Resolve(r)
  <2>1. CASE OpenMissing(r)
    BY <2>1 DEF OpenMissing, Carries, Moved, At
  <2>2. CASE Resolve(r)
    <3>1. PICK m, label : /\ label \in {"cache", "object"}
                          /\ req' = [req EXCEPT ![r].path = m, ![r].pc = label]
      BY <2>2 DEF Resolve
    <3> QED
      BY <1>0, <3>1 DEF Carries, Moved, Request
  <2> QED
    BY <1>1, <2>1, <2>2
<1>2. CASE \/ Open(r) \/ ReadCache(r) \/ Miss(r) \/ Save(r) \/ Clear(r) \/ WriteSnapshot(r)
           \/ FetchFails(r) \/ ListFails(r)
  <2>1. \/ Fail(r) \/ Reply(r, {}, 0)
        \/ \E label \in {"reading", "cache", "maps", "fetch", "save", "rename", "fallback",
                         "listing"} : Goto(r, label)
    BY <1>2 DEF Open, ReadCache, Miss, Save, Clear, WriteSnapshot, FetchFails, ListFails
  <2> QED
    BY <1>0, <2>1, MovesOn
<1>3. CASE ReadSnapshot(r)
  <2>1. PICK gone : req' = [req EXCEPT ![r].snap = snapDisk, ![r].gone = gone]
    BY <1>3 DEF ReadSnapshot
  <2>2. req[r].pc \in Loading
    BY <1>3 DEF ReadSnapshot, Loads, Held
  <2> QED
    BY <1>0, <2>1, <2>2 DEF Carries, Moved, Request, Loading
<1>4. CASE ListVault(r) \/ ListFolders(r)
  <2>1. ASSUME NEW label \in {"write", "apply"}, NEW gone,
               req' = [req EXCEPT ![r].pc = label, ![r].snap = Seen(vault), ![r].gone = gone]
        PROVE  Carries(r)
    BY <1>0, <2>1 DEF Carries, Moved, Request
  <2> QED
    BY <1>4, <2>1 DEF ListVault, ListFolders
<1>5. CASE \/ RenameSnapshot(r) \/ FetchObject(r) \/ FetchNone(r) \/ Fallback(r)
           \/ FilterByScope(r) \/ ServiceItems(r) \/ Metadata(r) \/ CliFails(r)
           \/ LoadFrom(r) \/ Credential(r)
  <2>1. \E names : Got(r) \/ Fail(r) \/ Deliver(r, names) \/ Reply(r, names, 0)
    BY <1>5 DEF RenameSnapshot, FetchObject, FetchNone, Fallback, FilterByScope, ServiceItems,
                Metadata, CliFails, LoadFrom, Credential
  <2> QED
    BY <1>0, <2>1, MovesOn
<1>6. CASE Listed(r)
  <2>1. \/ \E names : Deliver(r, names)
        \/ \E names : req' = [req EXCEPT ![r].pc = "filter", ![r].names = names,
                                          ![r].snap = None, ![r].gone = {}]
    BY <1>6 DEF Listed
  <2>2. CASE \E names : req' = [req EXCEPT ![r].pc = "filter", ![r].names = names,
                                            ![r].snap = None, ![r].gone = {}]
    BY <1>0, <2>2 DEF Carries, Moved, Request
  <2> QED
    BY <1>0, <2>1, <2>2, MovesOn
<1>7. CASE FindScoped(r)
  <2>1. req[r].pc = "scope"
    BY <1>7 DEF FindScoped, At
  <2>2. ASSUME Passes(r), Cleared(r), NEW i \in Find(Snapshot(r), req[r].name),
               Allowed(Home(r), Snapshot(r)[i]), req'[r].pc \in {"read", "remove"} => req'[r].id = i
        PROVE  Carries(r)
    BY <2>1, <2>2 DEF Passes, Cleared, Carries, Loading
  <2>3. ASSUME Same(r), Cleared(r), req'[r].pc = "names" PROVE Carries(r)
    BY <2>3 DEF Same, Cleared, Carries
  <2> QED
    BY <1>0, <1>7, <2>2, <2>3, Scopes, MovesOn
<1>8. CASE Hit(r)
  <2>1. since[req[r].path][Entry(r).val] \in 0 .. TTL + 1
    BY <1>8, LooksAt DEF Hit, Live, ClientInv, TheRest, ExternalOK
  <2>2. \E lag : Ends(r, {}, lag)
    BY <1>0, <1>8, <2>1, EndsWith DEF Hit
  <2> QED
    BY <2>2 DEF Ends, IsAnswer, Carries
<1>9. CASE Fill(r) \/ Fetch(r)
  <2>1. CASE Fill(r)
    BY <1>0, <2>1 DEF Fill, Carries, Moved, Request
  <2>2. CASE Fetch(r)
    BY <1>0, <2>2 DEF Fetch, Carries, Moved, Request
  <2> QED
    BY <1>9, <2>1, <2>2
<1>10. CASE ReadItem(r)
  BY <1>0, <1>10 DEF ReadItem, At, Carries, Moved, Request
<1> QED
  BY <1>1, <1>2, <1>3, <1>4, <1>5, <1>6, <1>7, <1>8, <1>9, <1>10 DEF Reads, Calm

(* They hand on only ids that a server with a folder found in it.          *)
LEMMA ReadsHoused ==
  ASSUME ClientInv, HousedInv, NEW r \in Req, Reads(r) PROVE HousedInv'
<1>1. UNCHANGED <<vault, housed>> /\ \A p \in Proc : server'[p].folder = server[p].folder
  BY ReadsStay
<1>3. ListingsHoused'
  BY <1>1, ReadsFiles DEF HousedInv, ListingsHoused, Housed, InPlace
<1>4. Carries(r)
  BY ReadsCarry
<1>5. /\ Housed(vault) /\ Housed(snapDisk) /\ Housed(Seen(vault)) /\ Housed(None)
      /\ Housed(req[r].snap) /\ Holds(req[r], server, housed)
  BY SeenHoused DEF HousedInv, ListingsHoused, RequestsHoused, Housed
<1>6. Housed(req'[r].snap)
  BY <1>4, <1>5 DEF Carries
<1>7. \A q \in Req : req[q].pc # "idle" => req[q].at \in Proc
  BY DEF ClientInv, InFlight, Placed
<1>8. Holds(req'[r], server, housed)
  <2> SUFFICES ASSUME req'[r].pc \in {"read", "edit", "remove"}, server[req'[r].at].folder
               PROVE  req'[r].id \in housed
    BY DEF Holds
  <2>1. CASE req[r].pc \in {"read", "edit", "remove"} /\ req'[r].id = req[r].id
    BY <1>4, <1>5, <2>1 DEF Carries, Holds
  <2>2. CASE /\ req[r].pc \in Loading
             /\ req'[r].id \in Find(Snapshot(r), req[r].name)
             /\ Allowed(Home(r), Snapshot(r)[req'[r].id])
    <3>1. Home(r) \in Proc /\ req'[r].at = Home(r)
      BY <1>4, <1>7, <2>2 DEF Carries, Home, Loading
    <3>2. Housed(Snapshot(r))
      BY <3>1, SnapshotHoused
    <3>3. Snapshot(r) # None /\ req'[r].id \in InPlace(Snapshot(r))
      BY <2>2, <3>1 DEF Find, Allowed, InPlace
    <3> QED
      BY <3>2, <3>3 DEF Housed
  <2> QED
    BY <1>4, <2>1, <2>2 DEF Carries
<1>2. \A q \in Req : req'[q].pc # "idle" => req'[q].at \in Proc
  <2>1. ClientInv'
    BY StepKeeps DEF Reads, Calm, Step
  <2> QED
    BY <2>1 DEF ClientInv, InFlight, Placed
<1>9. ASSUME NEW q \in Req PROVE Housed(req'[q].snap) /\ Holds(req'[q], server', housed)
  <2>1. Housed(req'[q].snap) /\ Holds(req'[q], server, housed)
    BY <1>4, <1>6, <1>8 DEF Carries, Moved, HousedInv, RequestsHoused
  <2>2. req'[q].pc # "idle" => req'[q].at \in Proc
    BY <1>2
  <2> QED
    BY <1>1, <2>1, <2>2 DEF Holds
<1>10. RequestsHoused'
  BY <1>1, <1>9 DEF RequestsHoused, Housed, InPlace
<1> QED
  BY <1>3, <1>10 DEF HousedInv

(* The vault changes: what comes to lie in the folder counts from then on. *)
LEMMA VaultBecomesHoused ==
  ASSUME ClientInv, HousedInv, NEW v, NEW reqs \in [Req -> Request], VaultBecomes(v, reqs),
         UNCHANGED <<files, memory>>,
         \A q \in Req : reqs[q] = req[q] \/ (reqs[q].pc = "sync" /\ reqs[q].snap = None)
  PROVE  HousedInv'
<1>1. /\ vault' = v /\ housed' = housed \cup InPlace(v)
      /\ req' = [q \in Req |->
           [reqs[q] EXCEPT !.gone = @ \ InFolder(v), !.barred = @ \ InFolder(v)]]
      /\ UNCHANGED <<snapDisk, snapTmp, snapMem, server>>
  BY DEF VaultBecomes, files, memory
<1>2. ListingsHoused'
  BY <1>1 DEF HousedInv, ListingsHoused, Housed
<1>3. ASSUME NEW q \in Req
      PROVE  /\ req'[q].pc = reqs[q].pc /\ req'[q].at = reqs[q].at /\ req'[q].id = reqs[q].id
             /\ req'[q].snap = reqs[q].snap
  BY <1>1 DEF Request
<1>4. ASSUME NEW q \in Req PROVE Housed(reqs[q].snap) /\ Holds(reqs[q], server, housed)
  BY DEF HousedInv, RequestsHoused, Housed, Holds
<1>5. ASSUME NEW q \in Req
      PROVE  /\ req'[q].snap # None => InPlace(req'[q].snap) \subseteq housed'
             /\ Holds(req'[q], server', housed')
  <2>1. housed \subseteq housed' /\ server' = server
    BY <1>1
  <2>2. Housed(req'[q].snap) /\ Holds(req'[q], server, housed)
    BY <1>3, <1>4 DEF Holds
  <2> QED
    BY <2>1, <2>2 DEF Housed, Holds
<1>6. RequestsHoused'
  BY <1>5 DEF RequestsHoused, Housed
<1> QED
  BY <1>2, <1>6 DEF HousedInv

(* The operator's edits ...                                                *)
LEMMA OperatorHoused == ASSUME ClientInv, HousedInv, Operator PROVE HousedInv'
<1>1. PICK v : VaultBecomes(v, req)
  BY DEF Operator
<1>2. req \in [Req -> Request] /\ UNCHANGED <<files, memory>>
  BY DEF Operator, ClientInv
<1> QED
  BY <1>1, <1>2, VaultBecomesHoused

(* ... and the tools', which refresh the snapshot next.                    *)
LEMMA ChangesHoused ==
  ASSUME ClientInv, HousedInv, NEW r \in Req, Create(r) \/ Edit(r) \/ Remove(r)
  PROVE  HousedInv'
<1>1. PICK v : Wrote(r, v)
  BY ChangeTypes
<1>2. req[r].pc # "idle" /\ req \in [Req -> Request]
  BY ChangeTypes DEF ClientInv
<1> DEFINE reqs == [req EXCEPT ![r] = Synced(r)]
<1>3. VaultBecomes(v, reqs) /\ UNCHANGED <<files, memory>>
  BY <1>1 DEF Wrote, Synced
<1>4. Synced(r) \in Request /\ Synced(r).pc = "sync" /\ Synced(r).snap = None
  BY <1>2, SyncedForm
<1>5. /\ reqs \in [Req -> Request]
      /\ \A q \in Req : reqs[q] = req[q] \/ (reqs[q].pc = "sync" /\ reqs[q].snap = None)
  BY <1>2, <1>4
<1> HIDE DEF reqs
<1> QED
  BY <1>3, <1>5, VaultBecomesHoused

(* Where neither listings nor folders change, requests decide.             *)
LEMMA HousedIfRequests ==
  ASSUME HousedInv, UNCHANGED <<vault, housed, snapDisk, snapTmp, snapMem>>, RequestsHoused'
  PROVE  HousedInv'
BY DEF HousedInv, ListingsHoused, Housed

(* A request comes with no listing and no id.                              *)
LEMMA OpeningHoused ==
  ASSUME ClientInv, HousedInv, NEW r \in Req, NEW p \in Proc, Read(r, p) \/ Change(r, p)
  PROVE  HousedInv'
<1>1. PICK op, label, n, scoped : Opening(r, p, op, label, n, scoped)
  BY ReadOpens, ChangeOpens
<1>2. PICK new \in Request : Only(r, new) /\ new.pc = label /\ new.snap = None
  BY <1>1, OpenedForm
<1>3. label \notin {"read", "edit", "remove"}
  BY <1>1 DEF Opening, Opens
<1>4. /\ req'[r] = new /\ (\A q \in Req : q # r => req'[q] = req[q])
      /\ UNCHANGED <<external, files, memory>>
  BY <1>2, TurnOfOne DEF ClientInv, Only
<1>5. ASSUME NEW q \in Req PROVE Housed(req'[q].snap) /\ Holds(req'[q], server, housed)
  BY <1>2, <1>3, <1>4 DEF HousedInv, RequestsHoused, Housed, Holds
<1>6. RequestsHoused'
  BY <1>4, <1>5 DEF RequestsHoused, Housed, external, memory
<1> QED
  BY <1>4, <1>6, HousedIfRequests DEF external, files, memory

(* A process that starts has no requests yet.                              *)
LEMMA BootHoused ==
  ASSUME ClientInv, HousedInv, NEW p \in Proc, Booting(p) PROVE HousedInv'
<1>1. PICK folder \in BOOLEAN, names \in SUBSET Name : Boot(p, server[p].kind, folder, names)
  BY BootingBoots
<1>2. /\ ~server[p].up
      /\ server' = [server EXCEPT ![p].up = TRUE, ![p].folder = folder, ![p].names = names]
      /\ UNCHANGED <<vault, housed, snapDisk, snapTmp, snapMem, req>>
      /\ server \in [Proc -> Server]
  BY <1>1 DEF Boot, external, files, ClientInv, TheRest, ServerOK
<1>3. ASSUME NEW q \in Req PROVE Housed(req[q].snap) /\ Holds(req[q], server', housed)
  <2>1. Housed(req[q].snap) /\ Holds(req[q], server, housed)
    BY DEF HousedInv, RequestsHoused
  <2>2. req[q].pc # "idle" => req[q].at \in Proc /\ req[q].at # p
    BY <1>2 DEF ClientInv, InFlight, Placed
  <2>3. req[q].pc # "idle" => server'[req[q].at] = server[req[q].at]
    BY <1>2, <2>2
  <2> QED
    BY <2>1, <2>3 DEF Holds
<1>4. RequestsHoused'
  BY <1>2, <1>3 DEF RequestsHoused, Housed
<1> QED
  BY <1>2, <1>4, HousedIfRequests

(* One that dies takes its requests along.                                 *)
LEMMA CrashHoused ==
  ASSUME ClientInv, HousedInv, NEW p \in Proc, Crash(p) PROVE HousedInv'
<1>1. /\ server' = [server EXCEPT ![p] = Off(server[p].kind)]
      /\ snapMem' = [snapMem EXCEPT ![p] = None]
      /\ UNCHANGED <<vault, housed, snapDisk, snapTmp>>
      /\ server \in [Proc -> Server] /\ snapMem \in [Proc -> Listing \cup {None}]
  BY DEF Crash, external, ClientInv, TheRest, ServerOK, SnapshotsOK
<1>2. req' = [r \in Req |-> IF Home(r) = p THEN Idle ELSE req[r]]
  BY DEF Crash
<1>3. ListingsHoused'
  BY <1>1 DEF HousedInv, ListingsHoused, Housed
<1>4. Idle.pc = "idle" /\ Idle.snap = None
  BY DEF Idle
<1>5. ASSUME NEW q \in Req PROVE Housed(req'[q].snap) /\ Holds(req'[q], server', housed)
  <2>1. CASE Home(q) = p
    BY <1>2, <1>4, <2>1 DEF Housed, Holds
  <2>2. CASE Home(q) # p
    <3>1. req'[q] = req[q] /\ Housed(req[q].snap) /\ Holds(req[q], server, housed)
      BY <1>2, <2>2 DEF HousedInv, RequestsHoused
    <3>2. req[q].pc # "idle" => req[q].at \in Proc /\ req[q].at # p
      BY <2>2 DEF Home, ClientInv, InFlight, Placed
    <3>3. req[q].pc # "idle" => server'[req[q].at] = server[req[q].at]
      BY <1>1, <3>2
    <3> QED
      BY <3>1, <3>3 DEF Holds
  <2> QED
    BY <2>1, <2>2
<1>6. RequestsHoused'
  BY <1>1, <1>5 DEF RequestsHoused, Housed
<1> QED
  BY <1>3, <1>6 DEF HousedInv

(* At first there is at most a snapshot of the vault as it is.             *)
LEMMA InitHoused == Init => HousedInv
<1> SUFFICES ASSUME Init PROVE HousedInv
  OBVIOUS
<1>1. housed = InPlace(vault) /\ snapDisk \in {None, Seen(vault)} /\ snapTmp = None
  BY DEF Init
<1>2. Housed(vault) /\ Housed(None)
  BY <1>1 DEF Housed
<1>3. Housed(Seen(vault))
  BY <1>2, InitHolds, SeenHoused
<1>4. ListingsHoused
  BY <1>1, <1>2, <1>3 DEF Init, ListingsHoused
<1>5. RequestsHoused
  BY <1>2 DEF Init, RequestsHoused, Idle, Holds
<1> QED
  BY <1>4, <1>5 DEF HousedInv

(* Every step keeps to what has been in the folder.                        *)
LEMMA NextHoused == ASSUME ClientInv, HousedInv, [Next]_vars PROVE HousedInv'
<1>1. CASE \E r \in Req : Step(r)
  <2>1. PICK r \in Req : Step(r)
    BY <1>1
  <2>2. Reads(r) \/ Create(r) \/ Edit(r) \/ Remove(r)
    BY <2>1 DEF Step, Reads, Calm
  <2> QED
    BY <2>2, ReadsHoused, ChangesHoused
<1>2. CASE \E r \in Req, p \in Proc : Read(r, p) \/ Change(r, p)
  BY <1>2, OpeningHoused
<1>3. CASE \E p \in Proc : Crash(p) \/ Booting(p)
  BY <1>3, CrashHoused, BootHoused
<1>4. CASE Operator
  BY <1>4, OperatorHoused
<1>5. CASE Tick \/ UNCHANGED vars
  <2>1. UNCHANGED <<vault, housed, snapDisk, snapTmp, snapMem, server, req>>
    BY <1>5 DEF Tick, vars, external, files, memory
  <2> QED
    BY <2>1 DEF HousedInv, ListingsHoused, RequestsHoused, Housed, Holds
<1> QED
  BY <1>1, <1>2, <1>3, <1>4, <1>5 DEF Next, Booting

(* Whatever snapshot it found the item in, however late, and whoever       *)
(* writes in between: an MCP server with a folder edits and deletes        *)
(* nothing that has never lain in that folder.                             *)
THEOREM WritesStayHoused == Spec => WritesStayInFolder
<1>1. Init => ClientInv /\ HousedInv
  BY InitHolds, InitHoused
<1>2. ClientInv /\ HousedInv /\ [Next]_vars => (ClientInv /\ HousedInv)'
  BY NextKeeps, NextHoused
<1>3. HousedInv /\ [Next]_vars =>
        [\A r \in Req :
           req[r].pc \in {"edit", "remove"} /\ req'[r].pc = "sync" /\ server[Home(r)].folder =>
             req[r].id \in housed]_vars
  BY DEF HousedInv, RequestsHoused, Holds, Home
<1> QED
  BY <1>1, <1>2, <1>3, PTL DEF Spec, WritesStayInFolder
-----------------------------------------------------------------------------
(* What a request has of a snapshot, whose names are withheld from it, and *)
(* which servers it can be at the handlers of, whatever others do.         *)
Orderly(q, srv, gone) ==
  /\ q.snap # None => q.pc \in Loading \cup Refreshing
  /\ q.pc \in Refreshing => q.snap # None
  /\ q.snap = None => q.gone = {}
  /\ q.pc \in Loading /\ ~srv[q.at].folder => q.gone = {}
  /\ q.barred \subseteq IF q.pc # "idle" /\ q.scoped THEN gone[q.at] ELSE {}
  /\ q.pc = "idle" => q.op = "none"
  /\ q.pc = "cred" => ~q.scoped
  /\ q.pc \in {"scope", "filter", "service"} => srv[q.at].kind # "rest"
  /\ q.pc \in {"names", "listing"} => q.op = "list" \/ srv[q.at].kind # "rest"
  /\ q.pc \in {"maps", "apply"} \/ q.op = "clear" => srv[q.at].kind = "rest"

(* Names are withdrawn by servers that are up and have a folder, or REST;  *)
(* no name that is gone for anyone is in the folder.                       *)
ProcsSettled ==
  /\ \A p \in Proc :
       /\ ~server[p].up => withdrawn[p] = {} /\ snapMem[p] = None
       /\ server[p].kind = "rest" => ~server[p].folder
       /\ server[p].kind # "rest" /\ ~server[p].folder => withdrawn[p] = {}
       /\ withdrawn[p] \cap InFolder(vault) = {}
  /\ filed \cap InFolder(vault) = {}

Settled ==
  /\ ProcsSettled
  /\ \A r \in Req : /\ Orderly(req[r], server, withdrawn)
                    /\ req[r].gone \cap InFolder(vault) = {}

(* Without races there is one refresh at a time, and what a process keeps  *)
(* of a snapshot is the same for all its requests.                         *)
Refreshes(q) == q.pc \in Refreshing
KeepsOne(q) == q.pc \in Loading /\ q.snap # None
Apart(q, s) ==
  /\ ~(Refreshes(q) /\ Refreshes(s))
  /\ q.at = s.at => /\ ~(KeepsOne(q) /\ s.pc \in {"write", "rename"})
                    /\ ~(KeepsOne(s) /\ q.pc \in {"write", "rename"})
                    /\ KeepsOne(q) /\ KeepsOne(s) => q.snap = s.snap

(* Names that are gone are not in the folder of the snapshot that said so, *)
(* and no request has got past the check, or been answered, with one.      *)
Faithful(q, gone, kept, tmp) ==
  /\ q.gone \cap InFolder(q.snap) = {}
  /\ Refreshes(q) => gone[q.at] \cap InFolder(q.snap) = {}
  /\ q.pc = "rename" => tmp = q.snap
  /\ KeepsOne(q) /\ kept[q.at] # None => kept[q.at] = q.snap
  /\ q.given = {}

ProcsAgreed ==
  /\ \A p \in Proc :
       /\ server[p].folder => /\ withdrawn[p] \cap InFolder(snapMem[p]) = {}
                              /\ snapMem[p] = None => withdrawn[p] = {}
       /\ server[p].kind = "rest" => server[p].names \cap withdrawn[p] = {}
  /\ filed \cap InFolder(snapDisk) = {}

Agreed ==
  /\ ProcsAgreed
  /\ \A r \in Req : Faithful(req[r], withdrawn, snapMem, snapTmp)
  /\ \A q, r \in Req : q # r => Apart(req[q], req[r])

WithdrawnInv == Settled /\ (races = 0 => Agreed)

(* A step of one request, put together.                                    *)
LEMMA ApartBoth == ASSUME NEW q, NEW s, Apart(q, s) PROVE Apart(s, q)
BY DEF Apart

(* A step of one request settles the whole if it does so for the request,  *)
(* and the others can live with what it did to files and servers.          *)
LEMMA Assembled ==
  ASSUME WithdrawnInv, NEW r \in Req, Moved(r), ProcsSettled',
         Orderly(req'[r], server', withdrawn'), req'[r].gone \cap InFolder(vault') = {},
         \A q \in Req : q # r => /\ Orderly(req[q], server', withdrawn')
                                 /\ req[q].gone \cap InFolder(vault') = {},
         races' = 0 =>
           /\ races = 0 /\ ProcsAgreed' /\ Faithful(req'[r], withdrawn', snapMem', snapTmp')
           /\ \A q \in Req : q # r => /\ Faithful(req[q], withdrawn', snapMem', snapTmp')
                                      /\ Apart(req'[r], req[q])
  PROVE  WithdrawnInv'
<1>1. \A q \in Req : q # r => req'[q] = req[q]
  BY DEF Moved
<1>2. Settled'
  BY <1>1 DEF Settled
<1>3. ASSUME races' = 0 PROVE Agreed'
  <2>1. /\ ProcsAgreed' /\ Faithful(req'[r], withdrawn', snapMem', snapTmp')
        /\ \A q \in Req : q # r => /\ Faithful(req[q], withdrawn', snapMem', snapTmp')
                                   /\ Apart(req'[r], req[q])
        /\ \A q, s \in Req : q # s => Apart(req[q], req[s])
    BY <1>3 DEF WithdrawnInv, Agreed
  <2>2. \A q \in Req : Faithful(req'[q], withdrawn', snapMem', snapTmp')
    BY <1>1, <2>1
  <2>3. ASSUME NEW q \in Req, NEW s \in Req, q # s PROVE Apart(req'[q], req'[s])
    <3>1. CASE q = r
      BY <1>1, <2>1, <2>3, <3>1
    <3>2. CASE s = r
      BY <1>1, <2>1, <2>3, <3>2, ApartBoth
    <3>3. CASE q # r /\ s # r
      BY <1>1, <2>1, <2>3, <3>3
    <3> QED
      BY <3>1, <3>2, <3>3
  <2> QED
    BY <2>1, <2>2, <2>3 DEF Agreed
<1> QED
  BY <1>2, <1>3 DEF WithdrawnInv

-----------------------------------------------------------------------------
(* What a step of a request may do besides: take in a snapshot.            *)
Absorbs(r) ==
  LET p == Home(r) IN
  /\ req[r].pc \in Loading
  /\ snapMem' = [snapMem EXCEPT ![p] = Snapshot(r)]
  /\ withdrawn' = [withdrawn EXCEPT ![p] = @ \cup req[r].gone]

Shared(r) ==
  /\ UNCHANGED <<vault, snapDisk, snapTmp, server, filed, races>>
  /\ UNCHANGED <<snapMem, withdrawn>> \/ Absorbs(r)

(* What it then knows.                                                     *)
LEMMA AbsorbsWhat ==
  ASSUME ClientInv, WithdrawnInv, NEW r \in Req, Absorbs(r)
  PROVE  LET p == Home(r) IN
         /\ p \in Proc /\ server[p].up /\ req[r].gone \cap InFolder(vault) = {}
         /\ ~server[p].folder => req[r].gone = {}
         /\ snapMem'[p] = Snapshot(r) /\ withdrawn'[p] = withdrawn[p] \cup req[r].gone
         /\ \A q \in Proc : q # p => snapMem'[q] = snapMem[q] /\ withdrawn'[q] = withdrawn[q]
         /\ Keeps(r) \/ (req[r].gone = {} /\ snapMem'[p] = snapMem[p])
         /\ races = 0 /\ server[p].folder =>
              /\ withdrawn'[p] \cap InFolder(snapMem'[p]) = {}
              /\ snapMem'[p] = None => withdrawn'[p] = {}
<1> DEFINE p == Home(r)
<1>1. /\ p \in Proc /\ server[p].up /\ req[r].pc \in Loading
      /\ snapMem' = [snapMem EXCEPT ![p] = Snapshot(r)]
      /\ withdrawn' = [withdrawn EXCEPT ![p] = @ \cup req[r].gone]
      /\ snapMem \in [Proc -> Listing \cup {None}] /\ withdrawn \in [Proc -> SUBSET Name]
  BY DEF Absorbs, ClientInv, InFlight, Placed, Home, Loading, TheRest, SnapshotsOK, HistoryOK
<1>2. /\ Orderly(req[r], server, withdrawn) /\ req[r].gone \cap InFolder(vault) = {}
  BY DEF WithdrawnInv, Settled
<1>3. /\ snapMem'[p] = Snapshot(r) /\ withdrawn'[p] = withdrawn[p] \cup req[r].gone
      /\ \A q \in Proc : q # p => snapMem'[q] = snapMem[q] /\ withdrawn'[q] = withdrawn[q]
  BY <1>1
<1>4. /\ ~server[p].folder => req[r].gone = {}
      /\ req[r].snap = None => req[r].gone = {}
  BY <1>1, <1>2 DEF Orderly, Home
<1>5. Keeps(r) \/ (req[r].gone = {} /\ Snapshot(r) = snapMem[p])
  BY <1>1, <1>4 DEF Keeps, Held, Snapshot
<1>6. ASSUME races = 0, server[p].folder
      PROVE  /\ withdrawn'[p] \cap InFolder(snapMem'[p]) = {}
             /\ snapMem'[p] = None => withdrawn'[p] = {}
  <2>1. /\ withdrawn[p] \cap InFolder(snapMem[p]) = {} /\ (snapMem[p] = None => withdrawn[p] = {})
        /\ Faithful(req[r], withdrawn, snapMem, snapTmp)
    BY <1>1, <1>6 DEF WithdrawnInv, Agreed, ProcsAgreed
  <2>2. CASE Keeps(r)
    <3>1. /\ Snapshot(r) = req[r].snap /\ req[r].snap # None
          /\ req[r].gone \cap InFolder(req[r].snap) = {}
          /\ snapMem[p] # None => snapMem[p] = req[r].snap
      BY <2>1, <2>2 DEF Keeps, Held, Snapshot, Faithful, KeepsOne, Home
    <3>2. withdrawn[p] \cap InFolder(req[r].snap) = {}
      BY <2>1, <3>1
    <3> QED
      BY <1>3, <3>1, <3>2
  <2>3. CASE ~Keeps(r)
    BY <1>3, <1>5, <2>1, <2>3
  <2> QED
    BY <2>2, <2>3
<1> QED
  BY <1>1, <1>2, <1>3, <1>4, <1>5, <1>6

(* Nobody is put in the wrong by it, ...                                   *)
LEMMA SharedOrder ==
  ASSUME ClientInv, WithdrawnInv, NEW r \in Req, Shared(r)
  PROVE  /\ ProcsSettled' /\ server' = server /\ races' = races /\ vault' = vault
         /\ \A q \in Req : Orderly(req[q], server', withdrawn')
<1>1. /\ UNCHANGED <<vault, snapDisk, snapTmp, server, filed, races>>
      /\ ProcsSettled /\ \A q \in Req : Orderly(req[q], server, withdrawn)
  BY DEF Shared, WithdrawnInv, Settled
<1>2. CASE UNCHANGED <<snapMem, withdrawn>>
  BY <1>1, <1>2 DEF ProcsSettled
<1>3. CASE Absorbs(r)
  <2> DEFINE p == Home(r)
  <2>1. /\ p \in Proc /\ server[p].up /\ req[r].gone \cap InFolder(vault) = {}
        /\ ~server[p].folder => req[r].gone = {}
        /\ withdrawn'[p] = withdrawn[p] \cup req[r].gone
        /\ \A q \in Proc : q # p => snapMem'[q] = snapMem[q] /\ withdrawn'[q] = withdrawn[q]
    BY <1>3, AbsorbsWhat
  <2>2. ProcsSettled'
    BY <1>1, <2>1 DEF ProcsSettled
  <2>3. \A q \in Proc : withdrawn[q] \subseteq withdrawn'[q]
    BY <2>1
  <2>4. \A q \in Req : req[q].pc # "idle" => req[q].at \in Proc
    BY DEF ClientInv, InFlight, Placed
  <2> HIDE DEF p
  <2>5. \A q \in Req : Orderly(req[q], server', withdrawn')
    BY <1>1, <2>3, <2>4 DEF Orderly
  <2> QED
    BY <1>1, <2>2, <2>5
<1> QED
  BY <1>2, <1>3 DEF Shared

(* ... nor, without races, put at odds with the snapshots.                 *)
LEMMA SharedAgrees ==
  ASSUME ClientInv, WithdrawnInv, NEW r \in Req, Shared(r), races = 0
  PROVE  ProcsAgreed' /\ \A q \in Req : Faithful(req[q], withdrawn', snapMem', snapTmp')
<1>1. /\ UNCHANGED <<vault, snapDisk, snapTmp, server, filed, races>> /\ Settled /\ ProcsAgreed
      /\ \A q \in Req : Faithful(req[q], withdrawn, snapMem, snapTmp)
      /\ \A q, s \in Req : q # s => Apart(req[q], req[s])
  BY DEF Shared, WithdrawnInv, Agreed
<1>2. CASE UNCHANGED <<snapMem, withdrawn>>
  BY <1>1, <1>2 DEF ProcsAgreed
<1>3. CASE Absorbs(r)
  <2> DEFINE p == Home(r)
  <2>1. /\ p \in Proc
        /\ ~server[p].folder => req[r].gone = {}
        /\ snapMem'[p] = Snapshot(r) /\ withdrawn'[p] = withdrawn[p] \cup req[r].gone
        /\ \A q \in Proc : q # p => snapMem'[q] = snapMem[q] /\ withdrawn'[q] = withdrawn[q]
        /\ Keeps(r) \/ (req[r].gone = {} /\ snapMem'[p] = snapMem[p])
        /\ server[p].folder => /\ withdrawn'[p] \cap InFolder(snapMem'[p]) = {}
                               /\ snapMem'[p] = None => withdrawn'[p] = {}
    BY <1>3, AbsorbsWhat
  <2>2. server[p].kind = "rest" => ~server[p].folder
    BY <1>1, <2>1 DEF Settled, ProcsSettled
  <2>3. ProcsAgreed'
    BY <1>1, <2>1, <2>2 DEF ProcsAgreed
  <2>4. ASSUME NEW q \in Req PROVE Faithful(req[q], withdrawn', snapMem', snapTmp')
    <3>1. /\ Faithful(req[q], withdrawn, snapMem, snapTmp) /\ Placed(req[q], server, disk)
          /\ Orderly(req[q], server, withdrawn)
      BY <1>1 DEF ClientInv, InFlight, Settled
    <3>2. CASE req[q].at # p \/ req[q].pc = "idle" \/ ~Keeps(r)
      BY <1>1, <2>1, <3>1, <3>2 DEF Faithful, Placed, Refreshes, KeepsOne, Refreshing, Loading
    <3>3. CASE req[q].at = p /\ Keeps(r)
      <4>1. req[r].at = p /\ KeepsOne(req[r]) /\ Snapshot(r) = req[r].snap
            /\ req[r].gone \cap InFolder(req[r].snap) = {}
        BY <1>1, <3>3 DEF Keeps, Held, KeepsOne, Home, Snapshot, Faithful
      <4>2. KeepsOne(req[q]) => req[q].snap = req[r].snap
        BY <1>1, <3>3, <4>1 DEF Apart
      <4>3. ASSUME Refreshes(req[q]) PROVE req[r].gone = {}
        <5>1. q # r
          BY <4>1, <4>3 DEF KeepsOne, Refreshes, Loading, Refreshing
        <5>2. req[q].pc \notin {"write", "rename"}
          BY <1>1, <3>3, <4>1, <5>1 DEF Apart
        <5>3. req[q].pc = "apply"
          BY <4>3, <5>2 DEF Refreshes, Refreshing
        <5>4. server[p].kind = "rest"
          BY <3>1, <3>3, <5>3 DEF Orderly
        <5> QED
          BY <2>1, <2>2, <5>4
      <4> QED
        BY <1>1, <2>1, <3>1, <3>3, <4>1, <4>2, <4>3 DEF Faithful
    <3> QED
      BY <3>2, <3>3
  <2> QED
    BY <2>3, <2>4
<1> QED
  BY <1>2, <1>3 DEF Shared

(* A request that keeps no snapshot goes on, ...                           *)
Lands(q, srv, gone) ==
  /\ q.pc \notin Refreshing /\ q.snap = None /\ q.gone = {}
  /\ Orderly(q, srv, gone)

(* A request that neither holds nor publishes a listing is apart from      *)
(* every other.                                                            *)
LEMMA LandsApart == ASSUME NEW q, NEW s, q.pc \notin Refreshing, q.snap = None PROVE Apart(q, s)
BY DEF Apart, KeepsOne, Refreshes, Refreshing

(* A step that touches neither files nor memory settles if its request     *)
(* ends up where it may be, ...                                            *)
LEMMA LandsSettles ==
  ASSUME ClientInv, WithdrawnInv, NEW r \in Req, Shared(r), Moved(r),
         Lands(req'[r], server, withdrawn'),
         races = 0 => req'[r].given = {}
  PROVE  WithdrawnInv'
<1>1. /\ ProcsSettled' /\ server' = server /\ races' = races /\ vault' = vault
      /\ \A q \in Req : Orderly(req[q], server', withdrawn')
  BY SharedOrder
<1>2. \A q \in Req : req[q].gone \cap InFolder(vault) = {}
  BY DEF WithdrawnInv, Settled
<1>3. \A q \in Req : Apart(req'[r], req[q])
  BY LandsApart DEF Lands
<1>4. ASSUME races = 0 PROVE Faithful(req'[r], withdrawn', snapMem', snapTmp')
  BY <1>4 DEF Lands, Faithful, Refreshes, KeepsOne, Refreshing
<1>5. races = 0 => ProcsAgreed' /\ \A q \in Req : Faithful(req[q], withdrawn', snapMem', snapTmp')
  BY SharedAgrees
<1> QED
  BY <1>1, <1>2, <1>3, <1>4, <1>5, Assembled DEF Lands

(* ... or ends without a name that is withheld from it.                    *)
LEMMA EndSettles ==
  ASSUME ClientInv, WithdrawnInv, NEW r \in Req, Shared(r), NEW names, NEW lag,
         Ends(r, names, lag), races = 0 => names \cap req[r].barred = {}
  PROVE  WithdrawnInv'
<1>1. Lands(req'[r], server, withdrawn')
  BY DEF Ends, IsAnswer, Lands, Orderly, Loading, Refreshing
<1>2. /\ req'[r].given = names \cap req[r].barred
      /\ req'[r].pc = "idle" /\ req'[r].op = "none" /\ Moved(r)
  BY DEF Ends, IsAnswer
<1> QED
  BY <1>1, <1>2, LandsSettles

(* What the steps below start from.                                        *)
LEMMA InForce ==
  ASSUME ClientInv, WithdrawnInv, NEW r \in Req
  PROVE  /\ Orderly(req[r], server, withdrawn) /\ req \in [Req -> Request]
         /\ req[r].pc # "idle" => Home(r) \in Proc /\ server[Home(r)].up
         /\ req[r].pc \notin Loading \cup Refreshing => req[r].snap = None /\ req[r].gone = {}
         /\ races = 0 => Faithful(req[r], withdrawn, snapMem, snapTmp)
BY DEF ClientInv, InFlight, Placed, Home, WithdrawnInv, Settled, Agreed, Orderly

(* ... by moving on, ...                                                   *)
LEMMA MoveSettles ==
  ASSUME ClientInv, WithdrawnInv, NEW r \in Req, Shared(r), Same(r), Cleared(r),
         req[r].pc # "idle", req'[r].pc \notin Refreshing \cup {"idle", "cred"},
         req'[r].pc \in {"scope", "filter", "service"} => server[Home(r)].kind # "rest",
         req'[r].pc \in {"names", "listing"} =>
           req'[r].op = "list" \/ server[Home(r)].kind # "rest",
         req'[r].pc = "maps" \/ req'[r].op = "clear" => server[Home(r)].kind = "rest"
  PROVE  WithdrawnInv'
<1>1. Orderly(req[r], server, withdrawn')
  BY SharedOrder DEF Shared
<1>2. Lands(req'[r], server, withdrawn')
  BY <1>1 DEF Lands, Orderly, Same, Cleared, Home, Refreshing
<1>3. races = 0 => req'[r].given = {}
  BY InForce DEF Faithful, Same
<1> QED
  BY <1>2, <1>3, LandsSettles DEF Same

(* ... by giving up, ...                                                   *)
LEMMA FailSettles ==
  ASSUME ClientInv, WithdrawnInv, NEW r \in Req, Shared(r), Fail(r) PROVE WithdrawnInv'
<1>1. Ends(r, {}, 0)
  BY FailsWith DEF ClientInv
<1> QED
  BY <1>1, EndSettles

(* ... by getting the secret it was allowed to ask for ...                 *)
LEMMA GotSettles ==
  ASSUME ClientInv, WithdrawnInv, NEW r \in Req, Shared(r), req[r].pc \in {"object", "fallback"},
         Got(r)
  PROVE  WithdrawnInv'
<1>1. CASE Same(r) /\ Cleared(r) /\ req'[r].pc = "path" /\ req'[r].op = "primary"
  BY <1>1, MoveSettles DEF Refreshing
<1>2. CASE Ends(r, {}, 0)
  BY <1>2, EndSettles
<1> QED
  BY <1>1, <1>2, Gets DEF ClientInv

(* ... or by handing on names none of which is withdrawn.                  *)
LEMMA DeliverSettles ==
  ASSUME ClientInv, WithdrawnInv, NEW r \in Req, Shared(r), req[r].pc # "idle",
         NEW names, Deliver(r, names), req[r].op = "list" \/ server[Home(r)].kind # "rest",
         races = 0 => names \cap req[r].barred = {}
  PROVE  WithdrawnInv'
<1>1. CASE /\ Same(r) /\ Cleared(r) /\ req'[r].pc = "scope" /\ req'[r].op = "ranked"
           /\ req[r].op # "list"
  BY <1>1, MoveSettles DEF Refreshing
<1>2. CASE Ends(r, names, 0)
  BY <1>2, EndSettles
<1> QED
  BY <1>1, <1>2, Delivers DEF ClientInv

(* A request that only goes to another label.                              *)
LEMMA GotoSettles ==
  ASSUME ClientInv, WithdrawnInv, NEW r \in Req, Shared(r),
         req[r].pc \notin Loading \cup Refreshing \cup {"idle"}, NEW label, Goto(r, label),
         label \in {"cache", "reading", "fetch", "fallback", "save"} =>
           req[r].pc \in {"cache", "reading", "fetch", "object"},
         label = "listing" => req[r].pc = "names", label = "maps" => req[r].op = "clear",
         label \in {"cache", "reading", "fetch", "fallback", "save", "listing", "maps"}
  PROVE  WithdrawnInv'
<1>1. /\ Same(r) /\ Cleared(r) /\ req'[r].pc = label /\ req'[r].op = req[r].op
      /\ req'[r].name = req[r].name
  BY InForce, Goes DEF Cleared
<1>2. /\ req[r].pc \in {"names", "listing"} =>
           req[r].op = "list" \/ server[Home(r)].kind # "rest"
      /\ req[r].op = "clear" => server[Home(r)].kind = "rest"
  BY InForce DEF Orderly, Home
<1> QED
  BY <1>1, <1>2, MoveSettles DEF Refreshing

(* Nothing about snapshots changes.                                        *)
LEMMA SnapshotSideUnchanged ==
  ASSUME WithdrawnInv,
         UNCHANGED <<vault, snapDisk, snapTmp, snapMem, server, req, withdrawn, filed, races>>
  PROVE  WithdrawnInv'
BY DEF WithdrawnInv, Settled, ProcsSettled, Agreed, ProcsAgreed

-----------------------------------------------------------------------------
(* The path, and the cache.                                                *)
LEMMA CacheSettles ==
  ASSUME ClientInv, WithdrawnInv, NEW r \in Req,
         \/ Resolve(r) \/ OpenMissing(r) \/ Open(r) \/ ReadCache(r) \/ Hit(r) \/ Miss(r) \/ Fill(r)
         \/ Save(r) \/ Clear(r)
  PROVE  WithdrawnInv'
<1> USE DEF Loading, Refreshing
<1>1. Shared(r)
  BY DEF Shared, Resolve, OpenMissing, Open, ReadCache, Hit, Miss, Fill, Save, Clear,
         external, files, memory, bounds, history
<1>2. CASE Resolve(r)
  <2>1. /\ Same(r) /\ req'[r].pc \in {"cache", "object"} /\ req'[r].op = req[r].op
        /\ req'[r].snap = req[r].snap /\ req'[r].gone = req[r].gone /\ req[r].pc = "path"
    <3>1. PICK m : req' = [req EXCEPT ![r].path = m,
                      ![r].pc = IF req[r].op \in {"get", "primary"} THEN "cache" ELSE "object"]
      BY <1>2 DEF Resolve
    <3> DEFINE label == IF req[r].op \in {"get", "primary"} THEN "cache" ELSE "object"
    <3>2. label \in {"cache", "object"} /\ req' = [req EXCEPT ![r].path = m, ![r].pc = label]
      BY <3>1
    <3>3. req[r].pc = "path" /\ req \in [Req -> Request]
      BY <1>2 DEF Resolve, At, ClientInv
    <3> HIDE DEF label
    <3> QED
      BY <3>2, <3>3 DEF Same, Moved, Request
  <2>2. Cleared(r)
    BY <2>1, InForce DEF Cleared
  <2>3. req[r].op = "clear" => server[Home(r)].kind = "rest"
    BY InForce DEF Orderly, Home
  <2> QED
    BY <1>1, <2>1, <2>2, <2>3, MoveSettles
<1>3. CASE OpenMissing(r)
  BY <1>3, SnapshotSideUnchanged DEF OpenMissing, external, files, bounds, history
<1>4. CASE Open(r)
  BY <1>1, <1>4, GotoSettles DEF Open, At
<1>5. CASE ReadCache(r)
  BY <1>1, <1>5, GotoSettles, FailSettles DEF ReadCache, At
<1>6. CASE Hit(r)
  <2> DEFINE lag == since[req[r].path][Entry(r).val]
  <2>1. lag \in 0 .. TTL + 1
    BY <1>6, LooksAt DEF Hit, Live, ClientInv, TheRest, ExternalOK
  <2>2. Reply(r, {}, lag) /\ req[r].pc = "cache"
    BY <1>6 DEF Hit, Looks, At
  <2> HIDE DEF lag
  <2>3. Ends(r, {}, lag)
    BY <2>1, <2>2, EndsWith DEF ClientInv
  <2> QED
    BY <1>1, <2>2, <2>3, EndSettles
<1>7. CASE Miss(r)
  BY <1>1, <1>7, GotoSettles DEF Miss, Looks, At
<1>8. CASE Fill(r)
  <2>1. /\ Same(r) /\ req'[r].pc = "save" /\ req'[r].op = req[r].op /\ req'[r].name = req[r].name
        /\ req'[r].snap = req[r].snap /\ req'[r].gone = req[r].gone /\ req[r].pc = "fill"
    BY <1>8 DEF Fill, At, Same, Moved, Request, ClientInv
  <2>2. Cleared(r)
    BY <2>1, InForce DEF Cleared
  <2>3. req[r].op = "clear" => server[Home(r)].kind = "rest"
    BY InForce DEF Orderly, Home
  <2> QED
    BY <1>1, <2>1, <2>2, <2>3, MoveSettles
<1>9. CASE Save(r)
  <2>1. CASE Goto(r, "maps") /\ req[r].op = "clear"
    BY <1>1, <1>9, <2>1, GotoSettles DEF Save, At
  <2>2. CASE Reply(r, {}, 0)
    BY <1>1, <1>9, <2>2, EndsAtOnce, EndSettles DEF Save, At, ClientInv
  <2> QED
    BY <1>9, <2>1, <2>2 DEF Save
<1>10. CASE Clear(r)
  BY <1>1, <1>10, GotoSettles DEF Clear, At
<1> QED
  BY <1>2, <1>3, <1>4, <1>5, <1>6, <1>7, <1>8, <1>9, <1>10

(* getItemByName, and what the CLI fails to do.                            *)
LEMMA FetchSettles ==
  ASSUME ClientInv, WithdrawnInv, NEW r \in Req,
         \/ Fetch(r) \/ FetchObject(r) \/ FetchNone(r) \/ FetchFails(r) \/ ListFails(r)
         \/ CliFails(r) \/ ReadItem(r) \/ Credential(r)
  PROVE  WithdrawnInv'
<1> USE DEF Loading, Refreshing
<1>1. Shared(r)
  BY DEF Shared, Fetch, FetchObject, FetchNone, FetchFails, ListFails, CliFails, ReadItem,
         Credential, external, files, memory, bounds, history
<1>2. CASE Fetch(r) \/ ReadItem(r)
  <2>1. /\ Same(r) /\ req'[r].op = req[r].op /\ req'[r].name = req[r].name
        /\ req'[r].snap = req[r].snap /\ req'[r].gone = req[r].gone
        /\ \/ req[r].pc = "fetch" /\ req'[r].pc = "fill"
           \/ req[r].pc = "read" /\ req'[r].pc = "edit"
    BY <1>2 DEF Fetch, ReadItem, At, Same, Moved, Request, ClientInv
  <2>2. Cleared(r)
    BY <2>1, InForce DEF Cleared
  <2>3. req[r].op = "clear" => server[Home(r)].kind = "rest"
    BY InForce DEF Orderly, Home
  <2> QED
    BY <1>1, <2>1, <2>2, <2>3, MoveSettles
<1>3. CASE FetchObject(r)
  BY <1>1, <1>3, GotSettles DEF FetchObject, At
<1>4. CASE FetchNone(r) \/ CliFails(r)
  BY <1>1, <1>4, FailSettles DEF FetchNone, CliFails
<1>5. CASE FetchFails(r) \/ ListFails(r)
  BY <1>1, <1>5, GotoSettles DEF FetchFails, ListFails, At
<1>6. CASE Credential(r)
  <2>1. Reply(r, {}, 0)
    BY <1>6 DEF Credential
  <2> QED
    BY <1>1, <2>1, EndsAtOnce, EndSettles DEF ClientInv
<1> QED
  BY <1>2, <1>3, <1>4, <1>5, <1>6

-----------------------------------------------------------------------------
(* What is withheld from a request of a server that has a folder is not in *)
(* the folder of the snapshot it loads.                                    *)
LEMMA LoadedWithholds ==
  ASSUME ClientInv, WithdrawnInv, NEW r \in Req, Loaded(r), races = 0,
         server[Home(r)].kind # "rest"
  PROVE  /\ req[r].barred \cap InFolder(Snapshot(r)) = {}
         /\ Snapshot(r) = None \/ ~server[Home(r)].folder => req[r].barred = {}
<1>1. /\ req[r].pc \in Loading /\ Home(r) \in Proc
  BY LoadedTypes
<1>2. Absorbs(r)
  BY <1>1 DEF Loaded, Absorbs
<1>3. /\ snapMem'[Home(r)] = Snapshot(r)
      /\ withdrawn'[Home(r)] = withdrawn[Home(r)] \cup req[r].gone
      /\ server[Home(r)].folder =>
           /\ withdrawn'[Home(r)] \cap InFolder(snapMem'[Home(r)]) = {}
           /\ snapMem'[Home(r)] = None => withdrawn'[Home(r)] = {}
  BY <1>2, AbsorbsWhat
<1>4. ~server[Home(r)].folder => withdrawn[Home(r)] = {}
  BY <1>1 DEF WithdrawnInv, Settled, ProcsSettled
<1>5. req[r].barred \subseteq withdrawn[Home(r)]
  BY <1>1, InForce DEF Orderly, Home
<1> QED
  BY <1>3, <1>4, <1>5

(* Using a snapshot that is in memory changes no file.                     *)
LEMMA LoadedShares == ASSUME ClientInv, NEW r \in Req, Loaded(r) PROVE Shared(r)
<1>1. req[r].pc \in Loading
  BY LoadedTypes
<1> QED
  BY <1>1 DEF Loaded, Absorbs, Shared, external, files, bounds

(* A name found in the snapshot in memory is not withdrawn.                *)
LEMMA FallbackSettles ==
  ASSUME ClientInv, WithdrawnInv, NEW r \in Req, Fallback(r) PROVE WithdrawnInv'
BY LoadedShares, GotSettles, FailSettles DEF Fallback, At

(* A list hands on names of the vault to an unscoped caller, ...           *)
LEMMA ListedSettles ==
  ASSUME ClientInv, WithdrawnInv, NEW r \in Req, Listed(r) PROVE WithdrawnInv'
<1> DEFINE s == server[Home(r)]
<1>0. Home(r) \in Proc /\ (s.kind = "rest" => ~s.folder)
  <2>1. req[r].pc # "idle"
    BY DEF Listed, List, At
  <2> QED
    BY <2>1, InForce DEF WithdrawnInv, Settled, ProcsSettled
<1>1. PICK names \in SUBSET Name :
        /\ List(r, names)
        /\ \/ s.kind = "rest" /\ Deliver(r, IF req[r].scoped THEN names \cap s.names ELSE names)
           \/ /\ s.kind # "rest" /\ s.folder
              /\ req' = [req EXCEPT ![r].pc = "filter", ![r].names = names,
                                    ![r].snap = None, ![r].gone = {}]
           \/ s.kind # "rest" /\ ~s.folder /\ Deliver(r, names)
  <2>1. CASE s.kind = "rest"
    BY <1>0, <2>1 DEF Listed
  <2>2. CASE s.kind # "rest" /\ s.folder
    BY <2>2 DEF Listed
  <2>3. CASE s.kind # "rest" /\ ~s.folder
    BY <2>3 DEF Listed
  <2> QED
    BY <2>1, <2>2, <2>3
<1>2. Shared(r)
  <2>1. Loaded(r) \/ UNCHANGED <<external, files, memory, bounds, history>>
    BY <1>1 DEF List
  <2> QED
    BY <2>1, LoadedShares DEF Shared, external, files, memory, bounds, history
<1>3. /\ req[r].pc \in {"names", "listing"} /\ req \in [Req -> Request]
      /\ Home(r) \in Proc /\ Orderly(req[r], server, withdrawn)
  BY <1>1, InForce DEF List, At
<1>4. /\ req[r].op = "list" \/ s.kind # "rest"
      /\ req[r].barred \subseteq IF req[r].scoped THEN withdrawn[Home(r)] ELSE {}
  BY <1>3 DEF Orderly, Home
<1>5. CASE s.kind = "rest" /\ Deliver(r, IF req[r].scoped THEN names \cap s.names ELSE names)
  <2> DEFINE ns == IF req[r].scoped THEN names \cap s.names ELSE names
  <2>1. races = 0 => s.names \cap withdrawn[Home(r)] = {}
    BY <1>3, <1>5 DEF WithdrawnInv, Agreed, ProcsAgreed
  <2>2. races = 0 => ns \cap req[r].barred = {}
    BY <1>4, <2>1
  <2>3. Deliver(r, ns)
    BY <1>5
  <2> HIDE DEF ns, s
  <2> QED
    BY <1>2, <1>3, <1>4, <2>2, <2>3, DeliverSettles DEF s
<1>6. CASE /\ s.kind # "rest"
           /\ req' = [req EXCEPT ![r].pc = "filter", ![r].names = names,
                                 ![r].snap = None, ![r].gone = {}]
  <2>1. /\ Same(r) /\ Cleared(r) /\ req'[r].pc = "filter" /\ req'[r].op = req[r].op
        /\ req'[r].name = req[r].name
    BY <1>3, <1>6 DEF Same, Moved, Cleared, Request
  <2>2. req[r].op = "clear" => s.kind = "rest"
    BY InForce DEF Orderly, Home
  <2> QED
    BY <1>2, <1>3, <1>6, <2>1, <2>2, MoveSettles DEF Refreshing
<1>7. CASE s.kind # "rest" /\ ~s.folder /\ Deliver(r, names)
  <2>1. withdrawn[Home(r)] = {}
    BY <1>3, <1>7 DEF WithdrawnInv, Settled, ProcsSettled
  <2>2. req[r].barred = {}
    BY <1>4, <2>1
  <2> QED
    BY <1>2, <1>3, <1>7, <2>2, DeliverSettles
<1> QED
  BY <1>1, <1>5, <1>6, <1>7

(* ... and to a scoped one those of the snapshot in memory.                *)
LEMMA FilterSettles ==
  ASSUME ClientInv, WithdrawnInv, NEW r \in Req, FilterByScope(r) PROVE WithdrawnInv'
<1> DEFINE names == IF Snapshot(r) = None THEN req[r].names
                    ELSE req[r].names \cap InFolder(Snapshot(r))
<1>1. Loaded(r) /\ req[r].pc = "filter" /\ Deliver(r, names)
  BY DEF FilterByScope, At
<1>2. server[Home(r)].kind # "rest"
  BY <1>1, InForce DEF Orderly, Home
<1>3. races = 0 => names \cap req[r].barred = {}
  BY <1>1, <1>2, LoadedWithholds
<1> HIDE DEF names
<1> QED
  BY <1>1, <1>2, <1>3, LoadedShares, DeliverSettles

(* findScopedItem goes on only with a name of that snapshot.               *)
LEMMA FindScopedSettles ==
  ASSUME ClientInv, WithdrawnInv, NEW r \in Req, FindScoped(r) PROVE WithdrawnInv'
<1>1. Loaded(r) /\ req[r].pc = "scope" /\ Shared(r) /\ Home(r) \in Proc
  BY LoadedShares, InForce DEF FindScoped, At
<1>2. server[Home(r)].kind # "rest"
  BY <1>1, InForce DEF Orderly, Home
<1>3. CASE Fail(r)
  BY <1>1, <1>3, FailSettles
<1>4. CASE Same(r) /\ Cleared(r) /\ req'[r].pc = "names" /\ req'[r].op = "credential"
  BY <1>1, <1>2, <1>4, MoveSettles DEF Refreshing
<1>5. CASE /\ Passes(r) /\ Cleared(r)
           /\ \E i \in Find(Snapshot(r), req[r].name) : Allowed(Home(r), Snapshot(r)[i])
  <2>1. PICK i \in Find(Snapshot(r), req[r].name) : Allowed(Home(r), Snapshot(r)[i])
    BY <1>5
  <2>2. Snapshot(r) \in Listing \cup {None}
    BY <1>1, LoadedTypes
  <2>3. req[r].name \in Name
    BY <2>1, <2>2, FoundIsNamed
  <2>4. server[Home(r)].folder => req[r].name \in InFolder(Snapshot(r))
    BY <2>1, <2>3 DEF Allowed, InFolder
  <2>5. races = 0 => req[r].name \notin req[r].barred
    BY <1>1, <1>2, <2>4, LoadedWithholds
  <2>6. Orderly(req[r], server, withdrawn') /\ Lands(req'[r], server, withdrawn')
    <3>1. Orderly(req[r], server, withdrawn')
      BY <1>1, SharedOrder DEF Shared
    <3> QED
      BY <1>1, <1>5, <3>1 DEF Lands, Orderly, Passes, Cleared, Loading, Refreshing
  <2> QED
    BY <1>1, <1>5, <2>5, <2>6, LandsSettles DEF Passes
<1> QED
  BY <1>3, <1>4, <1>5, Scopes DEF ClientInv

(* As do the items of a service.                                           *)
LEMMA ServiceSettles ==
  ASSUME ClientInv, WithdrawnInv, NEW r \in Req, ServiceItems(r) \/ Metadata(r)
  PROVE  WithdrawnInv'
<1>1. Loaded(r) /\ Shared(r)
  BY LoadedShares DEF ServiceItems, Metadata
<1>2. CASE Metadata(r)
  BY <1>1, <1>2, EndsAtOnce, EndSettles DEF Metadata, ClientInv
<1>3. CASE ServiceItems(r)
  <2> DEFINE names == {n \in {req[r].name} :
                        \E i \in Find(Snapshot(r), n) : Allowed(Home(r), Snapshot(r)[i])}
  <2>1. Reply(r, names, 0) /\ req[r].pc = "service"
    BY <1>3 DEF ServiceItems, At
  <2>2. server[Home(r)].kind # "rest"
    BY <2>1, InForce DEF Orderly, Home
  <2>3. Snapshot(r) \in Listing \cup {None}
    BY <1>1, LoadedTypes
  <2>4. ASSUME server[Home(r)].folder, NEW n \in names PROVE n \in InFolder(Snapshot(r))
    <3>1. PICK i \in Find(Snapshot(r), n) : Allowed(Home(r), Snapshot(r)[i])
      OBVIOUS
    <3>2. n \in Name
      BY <2>3, <3>1, FoundIsNamed
    <3> QED
      BY <2>4, <3>1, <3>2 DEF Allowed, InFolder
  <2> HIDE DEF names
  <2>5. races = 0 => names \cap req[r].barred = {}
    BY <1>1, <2>2, <2>4, LoadedWithholds
  <2>6. Ends(r, names, 0)
    BY <2>1, EndsAtOnce DEF ClientInv
  <2> QED
    BY <1>1, <2>5, <2>6, EndSettles
<1> QED
  BY <1>2, <1>3

-----------------------------------------------------------------------------
(* A step that is not counted as a race is none.                           *)
LEMMA RaceFree ==
  ASSUME ClientInv, NEW hit \in BOOLEAN, Race(hit), races' = 0 PROVE races = 0 /\ ~hit
<1>1. races \in Nat
  BY SecretClientAssumption DEF ClientInv, TheRest, BoundsOK
<1>2. races' # races + 1
  BY <1>1
<1> QED
  BY <1>2 DEF Race

(* A snapshot is read from the file ...                                    *)
LEMMA ReadSnapshotSettles ==
  ASSUME ClientInv, WithdrawnInv, NEW r \in Req, ReadSnapshot(r) PROVE WithdrawnInv'
<1> DEFINE gone == IF server[Home(r)].folder THEN filed ELSE {}
<1>1. /\ req[r].pc \in Loading /\ req[r].snap = None /\ snapMem[Home(r)] = None
      /\ snapDisk # None /\ req \in [Req -> Request]
      /\ req' = [req EXCEPT ![r].snap = snapDisk, ![r].gone = gone]
      /\ UNCHANGED <<vault, snapDisk, snapTmp, snapMem, server, withdrawn, filed>>
  BY DEF ReadSnapshot, Loads, Held, ClientInv, external, files, memory, history
<1>2. gone = {} \/ gone = filed
  OBVIOUS
<1>3. ~server[Home(r)].folder => gone = {}
  OBVIOUS
<1> HIDE DEF gone
<1>4. /\ Same(r) /\ req'[r].pc = req[r].pc /\ req'[r].op = req[r].op /\ req'[r].name = req[r].name
      /\ req'[r].snap = snapDisk /\ req'[r].gone = gone
  BY <1>1 DEF Same, Moved, Request
<1>5. ProcsSettled' /\ \A q \in Req : /\ Orderly(req[q], server', withdrawn')
                                      /\ req[q].gone \cap InFolder(vault') = {}
  BY <1>1 DEF WithdrawnInv, Settled, ProcsSettled
<1>6. req'[r].gone \cap InFolder(vault') = {}
  BY <1>1, <1>2, <1>4 DEF WithdrawnInv, Settled, ProcsSettled
<1>7. Orderly(req'[r], server', withdrawn')
  BY <1>1, <1>3, <1>4, <1>5 DEF Orderly, Same, Home
<1>8. ASSUME races' = 0
      PROVE  /\ races = 0 /\ ProcsAgreed' /\ Faithful(req'[r], withdrawn', snapMem', snapTmp')
             /\ \A q \in Req : q # r => /\ Faithful(req[q], withdrawn', snapMem', snapTmp')
                                        /\ Apart(req'[r], req[q])
  <2>1. /\ races = 0
        /\ ~\E q \in Req : /\ Home(q) = Home(r)
                           /\ \/ req[q].pc \in Refreshing
                              \/ Keeps(q) /\ req[q].snap # snapDisk
    BY <1>8, RaceFree DEF ReadSnapshot
  <2>2. Agreed
    BY <2>1 DEF WithdrawnInv
  <2>3. ProcsAgreed' /\ \A q \in Req : Faithful(req[q], withdrawn', snapMem', snapTmp')
    BY <1>1, <2>2 DEF Agreed, ProcsAgreed
  <2>4. gone \cap InFolder(snapDisk) = {}
    BY <1>2, <2>2 DEF Agreed, ProcsAgreed
  <2>5. Faithful(req'[r], withdrawn', snapMem', snapTmp')
    BY <1>1, <1>4, <2>3, <2>4
       DEF Faithful, Same, Home, KeepsOne, Refreshes, Loading, Refreshing
  <2>6. ASSUME NEW q \in Req, q # r PROVE Apart(req'[r], req[q])
    BY <1>1, <1>4, <2>1
       DEF Apart, Same, Home, Keeps, Held, KeepsOne, Refreshes, Loading, Refreshing
  <2> QED
    BY <2>1, <2>3, <2>5, <2>6
<1> QED
  BY <1>4, <1>5, <1>6, <1>7, <1>8, Assembled DEF Same

(* ... or listed from the vault.                                           *)
LEMMA SeenInFolder == ASSUME ClientInv PROVE InFolder(Seen(vault)) \subseteq InFolder(vault)
<1>1. vault \in [Id -> Item \cup {None}]
  BY DEF ClientInv, TheRest, ExternalOK
<1>2. vault # None
  BY <1>1, NoneAssumption
<1>3. ASSUME NEW i \in Id, Seen(vault)[i] # None
      PROVE  /\ vault[i] # None /\ Seen(vault)[i].name = vault[i].name
             /\ Seen(vault)[i].in = vault[i].in
  BY <1>3 DEF Seen
<1> QED
  BY <1>2, <1>3 DEF InFolder, Find

(* A listing taken now has every name that is in the vault now.            *)
LEMMA ListVaultSettles ==
  ASSUME ClientInv, WithdrawnInv, NEW r \in Req, ListVault(r) \/ ListFolders(r)
  PROVE  WithdrawnInv'
<1> DEFINE gone == Name \ InFolder(vault)
           listing == Seen(vault)
           label == IF req[r].pc = "sync" THEN "write" ELSE "apply"
<1>1. /\ req[r].pc \in {"sync", "maps"} /\ req \in [Req -> Request]
      /\ req' = [req EXCEPT ![r].pc = label, ![r].snap = listing, ![r].gone = gone]
      /\ UNCHANGED <<vault, snapDisk, snapTmp, snapMem, server, withdrawn, filed>>
  BY DEF ListVault, ListFolders, At, ClientInv, external, files, memory, history
<1>2. \/ label = "write" /\ req[r].pc = "sync"
      \/ label = "apply" /\ req[r].pc = "maps"
  BY <1>1
<1>3. listing # None /\ gone \cap InFolder(listing) = {} /\ gone \cap InFolder(vault) = {}
      /\ InFolder(listing) \subseteq InFolder(vault)
  BY SeenInFolder, SeenTyped, NoneAssumption DEF ClientInv, TheRest
<1> HIDE DEF gone, listing, label
<1>4. /\ Same(r) /\ req'[r].pc = label /\ req'[r].op = req[r].op /\ req'[r].name = req[r].name
      /\ req'[r].snap = listing /\ req'[r].gone = gone
  BY <1>1 DEF Same, Moved, Request
<1>5. ProcsSettled' /\ \A q \in Req : /\ Orderly(req[q], server', withdrawn')
                                      /\ req[q].gone \cap InFolder(vault') = {}
  BY <1>1 DEF WithdrawnInv, Settled, ProcsSettled
<1>6. Orderly(req'[r], server', withdrawn')
  BY <1>1, <1>2, <1>3, <1>4, <1>5 DEF Orderly, Same, Loading, Refreshing
<1>7. ASSUME races' = 0
      PROVE  /\ races = 0 /\ ProcsAgreed' /\ Faithful(req'[r], withdrawn', snapMem', snapTmp')
             /\ \A q \in Req : q # r => /\ Faithful(req[q], withdrawn', snapMem', snapTmp')
                                        /\ Apart(req'[r], req[q])
  <2>1. /\ races = 0 /\ \A q \in Req \ {r} : req[q].pc \notin Refreshing
        /\ label = "write" => \A q \in Req \ {r} : ~(Home(q) = Home(r) /\ Keeps(q))
    <3>1. CASE ListVault(r)
      BY <1>7, <3>1, RaceFree DEF ListVault
    <3>2. CASE ListFolders(r)
      BY <1>2, <1>7, <3>2, RaceFree DEF ListFolders, At
    <3> QED
      BY <3>1, <3>2
  <2>2. Agreed
    BY <2>1 DEF WithdrawnInv
  <2>3. ProcsAgreed' /\ \A q \in Req : Faithful(req[q], withdrawn', snapMem', snapTmp')
    BY <1>1, <2>2 DEF Agreed, ProcsAgreed
  <2>4. withdrawn[req[r].at] \cap InFolder(listing) = {}
    <3>1. req[r].at \in Proc
      BY <1>1, InForce DEF Home
    <3>2. withdrawn[req[r].at] \cap InFolder(vault) = {}
      BY <3>1 DEF WithdrawnInv, Settled, ProcsSettled
    <3> QED
      BY <1>3, <3>2
  <2>5. Faithful(req'[r], withdrawn', snapMem', snapTmp')
    BY <1>1, <1>2, <1>3, <1>4, <2>3, <2>4 DEF Faithful, Same, KeepsOne, Loading
  <2>6. ASSUME NEW q \in Req, q # r PROVE Apart(req'[r], req[q])
    BY <1>2, <1>4, <2>1, <2>6 DEF Apart, Same, Home, Keeps, Held, KeepsOne, Refreshes, Loading
  <2> QED
    BY <2>1, <2>3, <2>5, <2>6
<1> QED
  BY <1>1, <1>3, <1>4, <1>5, <1>6, <1>7, Assembled DEF Same

(* It is written to a file of its own ...                                  *)
LEMMA WriteSnapshotSettles ==
  ASSUME ClientInv, WithdrawnInv, NEW r \in Req, WriteSnapshot(r) PROVE WithdrawnInv'
<1>1. /\ req[r].pc = "write" /\ Goto(r, "rename") /\ snapTmp' = req[r].snap
      /\ UNCHANGED <<vault, snapDisk, snapMem, server, withdrawn, filed, races>>
  BY DEF WriteSnapshot, At, external, memory, bounds, history
<1>2. /\ Same(r) /\ req'[r].pc = "rename" /\ req'[r].op = req[r].op /\ req'[r].name = req[r].name
      /\ req'[r].snap = req[r].snap /\ req'[r].gone = req[r].gone
  BY <1>1, Goes DEF ClientInv
<1>3. ProcsSettled' /\ \A q \in Req : /\ Orderly(req[q], server', withdrawn')
                                      /\ req[q].gone \cap InFolder(vault') = {}
  BY <1>1 DEF WithdrawnInv, Settled, ProcsSettled
<1>4. Orderly(req'[r], server', withdrawn')
  BY <1>1, <1>2, <1>3 DEF Orderly, Same, Loading, Refreshing
<1>5. ASSUME races' = 0
      PROVE  /\ races = 0 /\ ProcsAgreed' /\ Faithful(req'[r], withdrawn', snapMem', snapTmp')
             /\ \A q \in Req : q # r => /\ Faithful(req[q], withdrawn', snapMem', snapTmp')
                                        /\ Apart(req'[r], req[q])
  <2>1. races = 0 /\ Agreed
    BY <1>1, <1>5 DEF WithdrawnInv
  <2>2. ProcsAgreed' /\ Faithful(req[r], withdrawn, snapMem, snapTmp)
    BY <1>1, <2>1 DEF Agreed, ProcsAgreed
  <2>3. Faithful(req'[r], withdrawn', snapMem', snapTmp')
    BY <1>1, <1>2, <2>2 DEF Faithful, Same, KeepsOne, Refreshes, Loading, Refreshing
  <2>4. ASSUME NEW q \in Req, q # r
        PROVE  Faithful(req[q], withdrawn', snapMem', snapTmp') /\ Apart(req'[r], req[q])
    <3>1. Apart(req[r], req[q]) /\ Faithful(req[q], withdrawn, snapMem, snapTmp)
      BY <2>1, <2>4 DEF Agreed
    <3>2. req[q].pc # "rename"
      BY <1>1, <3>1 DEF Apart, Refreshes, Refreshing
    <3>3. Faithful(req[q], withdrawn', snapMem', snapTmp')
      BY <1>1, <3>1, <3>2 DEF Faithful
    <3>4. Apart(req'[r], req[q])
      BY <1>1, <1>2, <3>1 DEF Apart, Same, KeepsOne, Refreshes, Loading, Refreshing
    <3> QED
      BY <3>3, <3>4
  <2> QED
    BY <2>1, <2>2, <2>3, <2>4
<1> QED
  BY <1>1, <1>2, <1>3, <1>4, <1>5, Assembled DEF Same

(* A request ends that has refreshed the snapshot or the map of names.     *)
LEMMA RefreshedLands ==
  ASSUME NEW r \in Req, Ends(r, {}, 0), NEW srv, NEW gone, NEW kept, NEW tmp
  PROVE  /\ Moved(r) /\ req'[r].gone = {} /\ Orderly(req'[r], srv, gone)
         /\ Faithful(req'[r], gone, kept, tmp) /\ \A q \in Req : Apart(req'[r], req[q])
<1>1. /\ Moved(r) /\ req'[r].pc = "idle" /\ req'[r].op = "none" /\ req'[r].scoped = FALSE
      /\ req'[r].snap = None /\ req'[r].gone = {} /\ req'[r].barred = {} /\ req'[r].given = {}
  BY DEF Ends, IsAnswer
<1>2. \A q \in Req : Apart(req'[r], req[q])
  BY <1>1, LandsApart DEF Refreshing
<1> QED
  BY <1>1, <1>2 DEF Orderly, Faithful, KeepsOne, Refreshes, Loading, Refreshing

(* ... that takes the place of the snapshot.                               *)
LEMMA RenameSnapshotSettles ==
  ASSUME ClientInv, WithdrawnInv, NEW r \in Req, RenameSnapshot(r) PROVE WithdrawnInv'
<1> DEFINE p == Home(r)
           gone == IF server[p].folder THEN req[r].gone ELSE {}
<1>1. /\ req[r].pc = "rename" /\ Reply(r, {}, 0) /\ req \in [Req -> Request]
      /\ UNCHANGED <<vault, server, races>>
      /\ snapMem \in [Proc -> Listing \cup {None}] /\ withdrawn \in [Proc -> SUBSET Name]
  BY DEF RenameSnapshot, At, external, bounds, ClientInv, TheRest, SnapshotsOK, HistoryOK
<1>2. Ends(r, {}, 0)
  BY <1>1, EndsAtOnce
<1>3. /\ p \in Proc /\ server[p].up /\ req[r].snap # None
      /\ req[r].gone \cap InFolder(vault) = {}
      /\ server[p].kind = "rest" => ~server[p].folder
      /\ \A q \in Req : Orderly(req[q], server, withdrawn) /\ req[q].gone \cap InFolder(vault) = {}
      /\ ProcsSettled
  BY <1>1, InForce DEF WithdrawnInv, Settled, ProcsSettled, Orderly, Refreshing
<1>4. CASE snapTmp = None
  <2>1. UNCHANGED <<snapDisk, snapTmp, snapMem, withdrawn, filed>>
    BY <1>4 DEF RenameSnapshot
  <2>2. ProcsSettled' /\ \A q \in Req : Orderly(req[q], server', withdrawn')
    BY <1>1, <1>3, <2>1 DEF ProcsSettled
  <2>3. races # 0
    BY <1>1, <1>3, <1>4 DEF WithdrawnInv, Agreed, Faithful
  <2> QED
    BY <1>1, <1>2, <1>3, <2>2, <2>3, RefreshedLands, Assembled
<1>5. CASE snapTmp # None
  <2>1. /\ snapDisk' = snapTmp /\ snapTmp' = None /\ filed' = req[r].gone
        /\ snapMem' = [snapMem EXCEPT ![p] = req[r].snap]
        /\ withdrawn' = [withdrawn EXCEPT ![p] = @ \cup gone]
    BY <1>5 DEF RenameSnapshot
  <2>2. /\ gone \subseteq req[r].gone /\ (~server[p].folder => gone = {})
        /\ snapMem'[p] = req[r].snap /\ withdrawn'[p] = withdrawn[p] \cup gone
        /\ \A q \in Proc : q # p => snapMem'[q] = snapMem[q] /\ withdrawn'[q] = withdrawn[q]
    BY <1>1, <1>3, <2>1
  <2> HIDE DEF gone
  <2>3. ProcsSettled'
    BY <1>1, <1>3, <2>1, <2>2 DEF ProcsSettled
  <2>4. \A q \in Req : Orderly(req[q], server', withdrawn')
    <3>1. \A q \in Proc : withdrawn[q] \subseteq withdrawn'[q]
      BY <2>2
    <3>2. \A q \in Req : req[q].pc # "idle" => req[q].at \in Proc
      BY DEF ClientInv, InFlight, Placed
    <3> QED
      BY <1>1, <1>3, <3>1, <3>2 DEF Orderly
  <2>5. ASSUME races = 0
        PROVE  /\ ProcsAgreed'
               /\ \A q \in Req : q # r => Faithful(req[q], withdrawn', snapMem', snapTmp')
    <3>1. /\ ProcsAgreed /\ Faithful(req[r], withdrawn, snapMem, snapTmp)
          /\ \A q \in Req : q # r => /\ Apart(req[q], req[r])
                                     /\ Faithful(req[q], withdrawn, snapMem, snapTmp)
      BY <2>5 DEF WithdrawnInv, Agreed
    <3>2. /\ snapTmp = req[r].snap /\ req[r].gone \cap InFolder(req[r].snap) = {}
          /\ withdrawn[p] \cap InFolder(req[r].snap) = {}
      BY <1>1, <3>1 DEF Faithful, Refreshes, Refreshing, Home
    <3>3. ProcsAgreed'
      BY <1>1, <1>3, <2>1, <2>2, <3>1, <3>2 DEF ProcsAgreed
    <3>4. ASSUME NEW q \in Req, q # r PROVE Faithful(req[q], withdrawn', snapMem', snapTmp')
      <4>1. Apart(req[q], req[r]) /\ Faithful(req[q], withdrawn, snapMem, snapTmp)
        BY <3>1, <3>4
      <4>2. ~Refreshes(req[q])
        BY <1>1, <4>1 DEF Apart, Refreshes, Refreshing
      <4>3. KeepsOne(req[q]) => req[q].at # p
        BY <1>1, <4>1 DEF Apart, Home
      <4>4. KeepsOne(req[q]) => req[q].at \in Proc
        BY DEF ClientInv, InFlight, Placed, KeepsOne, Loading
      <4> QED
        BY <2>2, <4>1, <4>2, <4>3, <4>4 DEF Faithful, Refreshes, Refreshing
    <3> QED
      BY <3>3, <3>4
  <2> QED
    BY <1>1, <1>2, <1>3, <2>3, <2>4, <2>5, RefreshedLands, Assembled
<1> QED
  BY <1>4, <1>5

(* The map of names is that of a listing.                                  *)
LEMMA LoadFromSettles ==
  ASSUME ClientInv, WithdrawnInv, NEW r \in Req, LoadFrom(r) PROVE WithdrawnInv'
<1> DEFINE p == Home(r)
<1>1. /\ req[r].pc = "apply" /\ Reply(r, {}, 0) /\ req \in [Req -> Request]
      /\ withdrawn' = [withdrawn EXCEPT ![p] = @ \cup req[r].gone]
      /\ UNCHANGED <<vault, races, snapDisk, snapTmp, snapMem, filed>>
      /\ server \in [Proc -> Server] /\ withdrawn \in [Proc -> SUBSET Name]
  BY DEF LoadFrom, At, external, files, bounds, ClientInv, TheRest, ServerOK, HistoryOK
<1>2. Ends(r, {}, 0)
  BY <1>1, EndsAtOnce
<1>3. PICK ns \in Mapped(req[r].snap) : server' = [server EXCEPT ![p].names = ns]
  BY DEF LoadFrom
<1>4. /\ p \in Proc /\ server[p].up /\ server[p].kind = "rest" /\ ~server[p].folder
      /\ req[r].gone \cap InFolder(vault) = {}
      /\ \A q \in Req : Orderly(req[q], server, withdrawn) /\ req[q].gone \cap InFolder(vault) = {}
      /\ ProcsSettled
  BY <1>1, InForce DEF WithdrawnInv, Settled, ProcsSettled, Orderly, Home
<1>5. /\ withdrawn'[p] = withdrawn[p] \cup req[r].gone /\ server'[p].names = ns
      /\ \A q \in Proc : q # p => server'[q] = server[q] /\ withdrawn'[q] = withdrawn[q]
      /\ \A q \in Proc : /\ server'[q].up = server[q].up /\ server'[q].kind = server[q].kind
                         /\ server'[q].folder = server[q].folder
  BY <1>1, <1>3, <1>4 DEF Server
<1>6. ns \subseteq InFolder(req[r].snap)
  BY <1>3 DEF Mapped, Names, InFolder
<1>7. ProcsSettled'
  BY <1>1, <1>4, <1>5 DEF ProcsSettled
<1>8. \A q \in Req : Orderly(req[q], server', withdrawn')
  <2>1. \A q \in Proc : withdrawn[q] \subseteq withdrawn'[q]
    BY <1>5
  <2>2. \A q \in Req : req[q].pc # "idle" => req[q].at \in Proc
    BY DEF ClientInv, InFlight, Placed
  <2> HIDE DEF p
  <2>3. ASSUME NEW q \in Req PROVE Orderly(req[q], server', withdrawn')
    BY <1>4, <1>5, <2>1, <2>2 DEF Orderly, Loading
  <2> QED
    BY <2>3
<1>9. ASSUME races = 0
      PROVE  /\ ProcsAgreed'
             /\ \A q \in Req : q # r => Faithful(req[q], withdrawn', snapMem', snapTmp')
  <2>1. /\ ProcsAgreed /\ Faithful(req[r], withdrawn, snapMem, snapTmp)
        /\ \A q \in Req : q # r => /\ Apart(req[q], req[r])
                                   /\ Faithful(req[q], withdrawn, snapMem, snapTmp)
    BY <1>9 DEF WithdrawnInv, Agreed
  <2>2. (withdrawn[p] \cup req[r].gone) \cap InFolder(req[r].snap) = {}
    BY <1>1, <2>1 DEF Faithful, Refreshes, Refreshing, Home
  <2>3. ProcsAgreed'
    BY <1>1, <1>4, <1>5, <1>6, <2>1, <2>2 DEF ProcsAgreed
  <2>4. ASSUME NEW q \in Req, q # r PROVE Faithful(req[q], withdrawn', snapMem', snapTmp')
    BY <1>1, <2>1, <2>4 DEF Apart, Faithful, Refreshes, Refreshing
  <2> QED
    BY <2>3, <2>4
<1> QED
  BY <1>1, <1>2, <1>4, <1>7, <1>8, <1>9, RefreshedLands, Assembled

-----------------------------------------------------------------------------
(* Names that are back in the folder are not gone for anyone.              *)
LEMMA VaultBecomesSettles ==
  ASSUME ClientInv, WithdrawnInv, NEW v, NEW reqs \in [Req -> Request], VaultBecomes(v, reqs),
         UNCHANGED <<files, memory>>,
         \A q \in Req : Placed(reqs[q], server, disk) /\ Orderly(reqs[q], server, withdrawn),
         races = 0 => /\ \A q \in Req : Faithful(reqs[q], withdrawn, snapMem, snapTmp)
                      /\ \A q, s \in Req : q # s => Apart(reqs[q], reqs[s])
  PROVE  WithdrawnInv'
<1> DEFINE back == InFolder(v)
<1>1. /\ vault' = v /\ filed' = filed \ back
      /\ withdrawn' = [p \in Proc |-> withdrawn[p] \ back]
      /\ req' = [q \in Req |-> [reqs[q] EXCEPT !.gone = @ \ back, !.barred = @ \ back]]
      /\ UNCHANGED <<snapDisk, snapTmp, snapMem, server>>
  BY DEF VaultBecomes, files, memory
<1>2. races' = races
  BY DEF VaultBecomes, bounds
<1> HIDE DEF back
<1>3. \A q \in Req :
        /\ req'[q].gone = reqs[q].gone \ back /\ req'[q].barred = reqs[q].barred \ back
        /\ req'[q].pc = reqs[q].pc /\ req'[q].at = reqs[q].at /\ req'[q].op = reqs[q].op
        /\ req'[q].name = reqs[q].name /\ req'[q].scoped = reqs[q].scoped
        /\ req'[q].snap = reqs[q].snap /\ req'[q].given = reqs[q].given
  BY <1>1 DEF Request
<1>4. /\ ProcsSettled'
      /\ \A q \in Req : req'[q].gone \cap InFolder(vault') = {}
  BY <1>1, <1>3 DEF WithdrawnInv, Settled, ProcsSettled, back
<1>5. \A q \in Req : reqs[q].pc # "idle" => reqs[q].at \in Proc
  BY DEF Placed
<1>6. ASSUME NEW q \in Req PROVE Orderly(req'[q], server', withdrawn')
  <2>1. /\ Orderly(reqs[q], server, withdrawn) /\ server' = server
        /\ reqs[q].pc # "idle" => withdrawn'[reqs[q].at] = withdrawn[reqs[q].at] \ back
    BY <1>1, <1>5
  <2>2. req'[q].barred \subseteq
          IF req'[q].pc # "idle" /\ req'[q].scoped THEN withdrawn'[req'[q].at] ELSE {}
    <3>1. reqs[q].barred \subseteq
            IF reqs[q].pc # "idle" /\ reqs[q].scoped THEN withdrawn[reqs[q].at] ELSE {}
      BY <2>1 DEF Orderly
    <3> QED
      BY <1>3, <2>1, <3>1
  <2>3. reqs[q].gone = {} => req'[q].gone = {}
    BY <1>3
  <2> QED
    BY <1>3, <2>1, <2>2, <2>3 DEF Orderly
<1>7. ASSUME races = 0 PROVE Agreed'
  <2>1. ProcsAgreed'
    BY <1>1, <1>7 DEF WithdrawnInv, Agreed, ProcsAgreed
  <2>2. ASSUME NEW q \in Req PROVE Faithful(req'[q], withdrawn', snapMem', snapTmp')
    <3>1. Faithful(reqs[q], withdrawn, snapMem, snapTmp)
      BY <1>7
    <3> QED
      BY <1>1, <1>3, <1>5, <3>1 DEF Faithful, Refreshes, KeepsOne, Refreshing, Loading
  <2>3. ASSUME NEW q \in Req, NEW s \in Req, q # s PROVE Apart(req'[q], req'[s])
    <3>1. Apart(reqs[q], reqs[s])
      BY <1>7, <2>3
    <3> QED
      BY <1>3, <3>1 DEF Apart, Refreshes, KeepsOne
  <2> QED
    BY <2>1, <2>2, <2>3 DEF Agreed
<1> QED
  BY <1>2, <1>4, <1>6, <1>7 DEF WithdrawnInv, Settled

(* The operator's edits, ...                                               *)
LEMMA OperatorSettles == ASSUME ClientInv, WithdrawnInv, Operator PROVE WithdrawnInv'
<1>1. PICK v : VaultBecomes(v, req)
  BY DEF Operator
<1>2. /\ req \in [Req -> Request] /\ UNCHANGED <<files, memory>>
      /\ \A q \in Req : Placed(req[q], server, disk) /\ Orderly(req[q], server, withdrawn)
      /\ races = 0 => /\ \A q \in Req : Faithful(req[q], withdrawn, snapMem, snapTmp)
                      /\ \A q, s \in Req : q # s => Apart(req[q], req[s])
  BY DEF Operator, ClientInv, InFlight, WithdrawnInv, Settled, Agreed
<1> QED
  BY <1>1, <1>2, VaultBecomesSettles

(* ... and the clients', bring names back but withdraw none.               *)
LEMMA ChangesSettle ==
  ASSUME ClientInv, WithdrawnInv, NEW r \in Req, Create(r) \/ Edit(r) \/ Remove(r)
  PROVE  WithdrawnInv'
<1>1. PICK v : Wrote(r, v)
  BY ChangeTypes
<1>2. req[r].pc # "idle"
  BY ChangeTypes
<1> DEFINE reqs == [req EXCEPT ![r] = Synced(r)]
<1>3. VaultBecomes(v, reqs) /\ UNCHANGED <<files, memory>>
  BY <1>1 DEF Wrote, Synced
<1>4. /\ Synced(r) \in Request /\ Synced(r).pc = "sync" /\ Synced(r).at = Home(r)
      /\ Synced(r).op = req[r].op /\ Synced(r).snap = None /\ Synced(r).gone = {}
      /\ Synced(r).barred = {} /\ Synced(r).given = {} /\ Placed(Synced(r), server, disk)
  BY <1>2, SyncedForm
<1>5. req[r].op = "clear" => server[Home(r)].kind = "rest"
  BY <1>2, InForce DEF Orderly, Home
<1>6. Orderly(Synced(r), server, withdrawn) /\ Faithful(Synced(r), withdrawn, snapMem, snapTmp)
  BY <1>4, <1>5 DEF Orderly, Faithful, KeepsOne, Refreshes, Loading, Refreshing
<1>7. \A q \in Req : Apart(Synced(r), req[q])
  BY <1>4, LandsApart DEF Refreshing
<1>8. \A q \in Req : Apart(req[q], Synced(r))
  BY <1>7, ApartBoth
<1>9. /\ req \in [Req -> Request]
      /\ \A q \in Req : Placed(req[q], server, disk) /\ Orderly(req[q], server, withdrawn)
      /\ races = 0 => /\ \A q \in Req : Faithful(req[q], withdrawn, snapMem, snapTmp)
                      /\ \A q, s \in Req : q # s => Apart(req[q], req[s])
  BY DEF ClientInv, InFlight, WithdrawnInv, Settled, Agreed
<1>10. reqs[r] = Synced(r) /\ \A q \in Req : q # r => reqs[q] = req[q]
  BY <1>9
<1>11. reqs \in [Req -> Request]
  BY <1>4, <1>9
<1> HIDE DEF reqs
<1>12. \A q \in Req : Placed(reqs[q], server, disk) /\ Orderly(reqs[q], server, withdrawn)
  BY <1>4, <1>6, <1>9, <1>10
<1>13. races = 0 => \A q \in Req : Faithful(reqs[q], withdrawn, snapMem, snapTmp)
  BY <1>6, <1>9, <1>10
<1>14. races = 0 => \A q, s \in Req : q # s => Apart(reqs[q], reqs[s])
  BY <1>7, <1>8, <1>9, <1>10
<1> QED
  BY <1>3, <1>11, <1>12, <1>13, <1>14, VaultBecomesSettles

(* A request that is opened knows what is withheld from it, and REST lets  *)
(* only names of its map through.                                          *)
LEMMA OpeningSettles ==
  ASSUME ClientInv, WithdrawnInv, NEW r \in Req, NEW p \in Proc, Read(r, p) \/ Change(r, p)
  PROVE  WithdrawnInv'
<1>1. PICK op, label, n, scoped : Opening(r, p, op, label, n, scoped)
  BY ReadOpens, ChangeOpens
<1>2. Opens(p, op, label, n, scoped)
  BY <1>1 DEF Opening
<1>3. PICK new \in Request :
        /\ Only(r, new)
        /\ new.pc = label /\ new.at = p /\ new.op = op /\ new.name = n /\ new.scoped = scoped
        /\ new.barred = Barred(p, label, scoped) /\ new.given = Given(p, label, n, scoped)
        /\ new.snap = None /\ new.gone = {}
  BY <1>1, OpenedForm
<1>4. /\ req'[r] = new /\ Moved(r) /\ UNCHANGED <<external, files, memory, bounds, history>>
  BY <1>3, TurnOfOne DEF ClientInv, Only, Moved
<1>5. Shared(r) /\ withdrawn' = withdrawn
  BY <1>4 DEF Shared, external, files, memory, bounds, history
<1>6. /\ label \in {"scope", "names", "info", "service", "sync", "create", "cache", "path", "cred"}
      /\ op \notin {"none", "ranked", "object", "primary"} /\ scoped \in BOOLEAN
  BY <1>2 DEF Opens
<1>7. Lands(new, server, withdrawn)
  BY <1>2, <1>3, <1>6 DEF Opens, Lands, Orderly, Barred, Loading, Refreshing
<1>8. ASSUME races = 0 PROVE new.given = {}
  <2>1. server[p].kind = "rest" => server[p].names \cap withdrawn[p] = {}
    BY <1>8 DEF WithdrawnInv, Agreed, ProcsAgreed
  <2>2. label = "path" /\ scoped => server[p].kind = "rest" /\ n \in server[p].names
    BY <1>2 DEF Opens
  <2> QED
    BY <1>3, <2>1, <2>2 DEF Given
<1> QED
  BY <1>3, <1>4, <1>5, <1>6, <1>7, <1>8, LandsSettles

(* A process that is started has been told nothing.                        *)
LEMMA BootSettles ==
  ASSUME ClientInv, WithdrawnInv, NEW p \in Proc, Booting(p) PROVE WithdrawnInv'
<1>1. PICK folder \in BOOLEAN, names \in SUBSET Name :
        /\ Boot(p, server[p].kind, folder, names)
        /\ server[p].kind = "rest" => ~folder
  BY BootingBoots
<1>2. /\ ~server[p].up
      /\ server' = [server EXCEPT ![p].up = TRUE, ![p].folder = folder, ![p].names = names]
      /\ UNCHANGED <<vault, snapDisk, snapTmp, snapMem, req, withdrawn, filed, races>>
      /\ server \in [Proc -> Server]
  BY <1>1 DEF Boot, external, files, bounds, history, ClientInv, TheRest, ServerOK
<1>3. /\ server'[p].folder = folder /\ server'[p].kind = server[p].kind /\ server'[p].up
      /\ \A q \in Proc : q # p => server'[q] = server[q]
  BY <1>2 DEF Server
<1>4. withdrawn[p] = {} /\ snapMem[p] = None
  BY <1>2 DEF WithdrawnInv, Settled, ProcsSettled
<1>5. ProcsSettled'
  BY <1>1, <1>2, <1>3, <1>4 DEF WithdrawnInv, Settled, ProcsSettled
<1>6. races = 0 => ProcsAgreed'
  BY <1>2, <1>3, <1>4 DEF WithdrawnInv, Agreed, ProcsAgreed
<1>7. ASSUME NEW r \in Req PROVE Orderly(req[r], server', withdrawn)
  <2>1. Orderly(req[r], server, withdrawn)
    BY DEF WithdrawnInv, Settled
  <2>2. req[r].pc # "idle" => req[r].at \in Proc /\ req[r].at # p
    BY <1>2 DEF ClientInv, InFlight, Placed
  <2> QED
    BY <1>3, <2>1, <2>2 DEF Orderly, Loading
<1> QED
  BY <1>2, <1>5, <1>6, <1>7 DEF WithdrawnInv, Settled, Agreed

(* One that dies forgets.                                                  *)
LEMMA CrashSettles ==
  ASSUME ClientInv, WithdrawnInv, NEW p \in Proc, Crash(p) PROVE WithdrawnInv'
<1>1. /\ server' = [server EXCEPT ![p] = Off(server[p].kind)]
      /\ snapMem' = [snapMem EXCEPT ![p] = None] /\ withdrawn' = [withdrawn EXCEPT ![p] = {}]
      /\ UNCHANGED <<vault, snapDisk, snapTmp, filed, races>>
      /\ server \in [Proc -> Server] /\ snapMem \in [Proc -> Listing \cup {None}]
      /\ withdrawn \in [Proc -> SUBSET Name]
  BY DEF Crash, external, ClientInv, TheRest, ServerOK, SnapshotsOK, HistoryOK
<1>2. req' = [r \in Req |-> IF Home(r) = p THEN Idle ELSE req[r]]
  BY DEF Crash
<1>3. /\ ~server'[p].up /\ ~server'[p].folder /\ server'[p].kind = server[p].kind
      /\ server'[p].names = {} /\ snapMem'[p] = None /\ withdrawn'[p] = {}
      /\ \A q \in Proc : q # p => /\ server'[q] = server[q] /\ snapMem'[q] = snapMem[q]
                                  /\ withdrawn'[q] = withdrawn[q]
  BY <1>1 DEF Off
<1>4. ProcsSettled'
  BY <1>1, <1>3 DEF WithdrawnInv, Settled, ProcsSettled
<1>5. races = 0 => ProcsAgreed'
  BY <1>1, <1>3 DEF WithdrawnInv, Agreed, ProcsAgreed
<1>6. /\ Idle.pc = "idle" /\ Idle.op = "none" /\ Idle.snap = None /\ Idle.gone = {}
      /\ Idle.barred = {} /\ Idle.given = {}
  BY DEF Idle
<1>7. ASSUME NEW r \in Req
      PROVE  /\ Orderly(req'[r], server', withdrawn') /\ req'[r].gone \cap InFolder(vault') = {}
             /\ races = 0 => Faithful(req'[r], withdrawn', snapMem', snapTmp')
  <2>1. CASE Home(r) = p
    <3>1. req'[r] = Idle
      BY <1>2, <2>1
    <3> QED
      BY <1>6, <3>1 DEF Orderly, Faithful, KeepsOne, Refreshes, Loading, Refreshing
  <2>2. CASE Home(r) # p
    <3>1. /\ req'[r] = req[r] /\ Orderly(req[r], server, withdrawn)
          /\ req[r].gone \cap InFolder(vault) = {}
          /\ races = 0 => Faithful(req[r], withdrawn, snapMem, snapTmp)
      BY <1>2, <2>2 DEF WithdrawnInv, Settled, Agreed
    <3>2. req[r].at # p /\ (req[r].pc # "idle" => req[r].at \in Proc)
      BY <2>2 DEF Home, ClientInv, InFlight, Placed
    <3>3. req[r].pc # "idle" => /\ server'[req[r].at] = server[req[r].at]
                                /\ snapMem'[req[r].at] = snapMem[req[r].at]
                                /\ withdrawn'[req[r].at] = withdrawn[req[r].at]
      BY <1>3, <3>2
    <3>4. Orderly(req[r], server', withdrawn')
      BY <3>1, <3>3 DEF Orderly, Loading
    <3>5. races = 0 => Faithful(req[r], withdrawn', snapMem', snapTmp')
      BY <1>1, <3>1, <3>3 DEF Faithful, Refreshes, KeepsOne, Loading, Refreshing
    <3> QED
      BY <1>1, <3>1, <3>4, <3>5
  <2> QED
    BY <2>1, <2>2
<1>8. ASSUME races = 0, NEW q \in Req, NEW s \in Req, q # s PROVE Apart(req'[q], req'[s])
  <2>1. CASE Home(q) = p
    BY <1>2, <1>6, <2>1, LandsApart DEF Refreshing
  <2>2. CASE Home(s) = p
    <3>1. Apart(req'[s], req'[q])
      BY <1>2, <1>6, <2>2, LandsApart DEF Refreshing
    <3> QED
      BY <3>1, ApartBoth
  <2>3. CASE Home(q) # p /\ Home(s) # p
    BY <1>2, <1>8, <2>3 DEF WithdrawnInv, Agreed
  <2> QED
    BY <2>1, <2>2, <2>3
<1> QED
  BY <1>1, <1>4, <1>5, <1>7, <1>8 DEF WithdrawnInv, Settled, Agreed

(* At first nothing is withdrawn.                                          *)
LEMMA InitSettles == Init => WithdrawnInv
<1> SUFFICES ASSUME Init PROVE WithdrawnInv
  OBVIOUS
<1>1. /\ \A p \in Proc : /\ ~server[p].folder /\ withdrawn[p] = {} /\ snapMem[p] = None
      /\ filed = {}
  <2>1. \A kind \in Programs : ~Off(kind).folder
    BY DEF Off
  <2> QED
    BY <2>1 DEF Init
<1>2. \A r \in Req : /\ req[r].pc = "idle" /\ req[r].op = "none" /\ req[r].snap = None
                     /\ req[r].gone = {} /\ req[r].barred = {} /\ req[r].given = {}
  BY DEF Init, Idle
<1>3. ProcsSettled /\ ProcsAgreed
  BY <1>1 DEF ProcsSettled, ProcsAgreed
<1>4. \A r \in Req : /\ Orderly(req[r], server, withdrawn) /\ req[r].gone \cap InFolder(vault) = {}
                     /\ Faithful(req[r], withdrawn, snapMem, snapTmp)
  BY <1>2 DEF Orderly, Faithful, KeepsOne, Refreshes, Loading, Refreshing
<1>5. \A q, r \in Req : Apart(req[q], req[r])
  BY <1>2, LandsApart DEF Refreshing
<1> QED
  BY <1>3, <1>4, <1>5 DEF WithdrawnInv, Settled, Agreed

(* Every step keeps what is withdrawn withdrawn.                           *)
LEMMA NextSettles == ASSUME ClientInv, WithdrawnInv, [Next]_vars PROVE WithdrawnInv'
<1>1. ASSUME NEW r \in Req, Step(r) PROVE WithdrawnInv'
  <2>1. CASE \/ Resolve(r) \/ OpenMissing(r) \/ Open(r) \/ ReadCache(r) \/ Hit(r) \/ Miss(r) \/ Fill(r)
             \/ Save(r) \/ Clear(r)
    BY <2>1, CacheSettles
  <2>2. CASE \/ Fetch(r) \/ FetchObject(r) \/ FetchNone(r) \/ FetchFails(r) \/ ListFails(r)
             \/ CliFails(r) \/ ReadItem(r) \/ Credential(r)
    BY <2>2, FetchSettles
  <2>3. CASE \/ ReadSnapshot(r) \/ ListVault(r) \/ WriteSnapshot(r) \/ RenameSnapshot(r)
             \/ ListFolders(r) \/ LoadFrom(r)
    BY <2>3, ReadSnapshotSettles, ListVaultSettles, WriteSnapshotSettles, RenameSnapshotSettles,
       LoadFromSettles
  <2>4. CASE \/ Fallback(r) \/ Listed(r) \/ FilterByScope(r) \/ FindScoped(r)
             \/ ServiceItems(r) \/ Metadata(r)
    BY <2>4, FallbackSettles, ListedSettles, FilterSettles, FindScopedSettles, ServiceSettles
  <2>5. CASE Create(r) \/ Edit(r) \/ Remove(r)
    BY <2>5, ChangesSettle
  <2> QED
    BY <1>1, <2>1, <2>2, <2>3, <2>4, <2>5 DEF Step
<1>2. CASE \E r \in Req, p \in Proc : Read(r, p) \/ Change(r, p)
  BY <1>2, OpeningSettles
<1>3. CASE \E p \in Proc : Crash(p) \/ Booting(p)
  BY <1>3, CrashSettles, BootSettles
<1>4. CASE Operator
  BY <1>4, OperatorSettles
<1>5. CASE Tick \/ UNCHANGED vars
  BY <1>5, SnapshotSideUnchanged DEF Tick, vars, external, files, memory, bounds, history
<1> QED
  BY <1>1, <1>2, <1>3, <1>4, <1>5 DEF Next, Booting

(* Once a server has been told that a name is gone, no later request of a  *)
(* scoped caller gets past the check under that name or sees it in a list, *)
(* as long as there are no races of refreshes and loads.                   *)
THEOREM WithdrawnStaysWithdrawn == Spec => []WithdrawnIsNotFound
<1>1. Init => ClientInv /\ WithdrawnInv
  BY InitHolds, InitSettles
<1>2. ClientInv /\ WithdrawnInv /\ [Next]_vars => (ClientInv /\ WithdrawnInv)'
  BY NextKeeps, NextSettles
<1>3. WithdrawnInv => WithdrawnIsNotFound
  BY DEF WithdrawnInv, Agreed, Faithful, WithdrawnIsNotFound
<1> QED
  BY <1>1, <1>2, <1>3, PTL DEF Spec
=============================================================================
