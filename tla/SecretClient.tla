---------------------------- MODULE SecretClient ----------------------------
(***************************************************************************)
(* The client library as every server process links it: cache.ts,          *)
(* snapshot.ts and index.ts over the Bitwarden CLI.                        *)
(*                                                                         *)
(* A request is a coroutine of its process: it runs from one await to the  *)
(* next, and at each await the other requests of the process, the other    *)
(* processes and the people using the vault may act. What processes share  *)
(* is the vault, the cache file and the snapshot file; each also keeps a   *)
(* copy of both files in memory. SecretTools adds the servers whose        *)
(* handlers start the requests.                                            *)
(*                                                                         *)
(* The session in the keychain may be missing or end at any moment, and    *)
(* the CLI may fail: whether a call of it succeeds is left open each time. *)
(*                                                                         *)
(* An item is its name, its secret, and whether it lies in the folder that *)
(* callers are scoped to. A snapshot is kept without the secrets in it. A  *)
(* cache entry has an age rather than an expiry. What a caller asks for is *)
(* a path: handlers take it, or what comes before its first dot, for a     *)
(* name, and the library makes an item of it in its own way (see Resolve). *)
(* Upper and lower case are not told apart.                                *)
(***************************************************************************)
EXTENDS Naturals

CONSTANTS Proc, Req,  \* processes, and places for requests in flight
          Id, Name,   \* of vault items; names need not be unique
          Meant,      \* the names that the library may make of a name
          Value,      \* secrets
          None, Torn,
          TTL,        \* DEFAULT_TTLS
          MaxEdits,   \* bound on changes to the vault
          MaxCrashes, \* bound on processes that die
          MaxTicks,   \* bound on the passing of time
          MaxRaces    \* bound on refreshes that overlap another one or a
                      \* first load, and on first loads of a process that
                      \* read different files

ASSUME SecretClientAssumption ==
  /\ TTL \in Nat /\ MaxEdits \in Nat /\ MaxCrashes \in Nat /\ MaxTicks \in Nat /\ MaxRaces \in Nat
  /\ None \notin Proc \cup Id \cup Name
  /\ Meant \subseteq Name \X Name /\ \A n \in Name : \E m \in Name : <<n, m>> \in Meant

VARIABLES vault,    \* the items, as the CLI answers for them
          disk,     \* cache.json: its entries, None or Torn
          mem,      \* each process's SecretCache
          snapDisk, snapTmp,  \* the snapshot file and its .tmp
          snapMem,  \* each process's cachedSnapshot
          server,   \* each process: its program and what it found at startup
          req,      \* the requests in flight
          edits, races, crashes, ticks,  \* how much of the bounds has been used
          since,    \* history: how long ago a name last had a secret
          housed,   \* history: what has lain in the folder
          withdrawn,\* history: names a process has been told are gone
          filed     \* history: names that were gone for the snapshot file

external == <<vault, edits, since, housed>>
files == <<disk, snapDisk, snapTmp>>
memory == <<mem, snapMem, server>>
history == <<withdrawn, filed>>
bounds == <<races, crashes, ticks>>
vars == <<external, files, memory, req, bounds, history>>

Item == [name : Name, val : Value, in : BOOLEAN]
Listing == [Id -> [name : Name, in : BOOLEAN] \cup {None}]
Entries == [Name -> [val : Value, age : 0 .. TTL + 1] \cup {None}]

(* None is none of the values it stands in for.                            *)
ASSUME NoneAssumption ==
  None \notin Entries \cup Listing \cup [Id -> Item \cup {None}] \cup {Torn}

Idle == [pc |-> "idle", at |-> None, op |-> "none", name |-> None, path |-> None,
         scoped |-> FALSE, names |-> {}, snap |-> None, id |-> None, item |-> None,
         gone |-> {}, barred |-> {}, given |-> {}, lag |-> 0]
Off(kind) == [kind |-> kind, up |-> FALSE, folder |-> FALSE, names |-> {}]

Loading == {"scope", "filter", "service", "info", "listing", "fallback"}
Refreshing == {"write", "rename", "apply"}

TypeOK ==
  /\ vault \in [Id -> Item \cup {None}]
  /\ disk \in Entries \cup {None, Torn}
  /\ mem \in [Proc -> [loaded : BOOLEAN, entry : Entries]]
  /\ snapDisk \in Listing \cup {None} /\ snapTmp \in Listing \cup {None}
  /\ snapMem \in [Proc -> Listing \cup {None}]
  /\ server \in [Proc -> [kind : {"mcp", "mcp2", "rest", "proxy"}, up : BOOLEAN,
                          folder : BOOLEAN, names : SUBSET Name]]
  /\ req \in [Req ->
       [pc : Loading \cup Refreshing \cup
             {"idle", "path", "cache", "reading", "fetch", "object", "fill", "save", "maps",
              "names", "create", "read", "edit", "remove", "sync", "cred"},
        at : Proc \cup {None},
        op : {"none", "get", "fields", "list", "info", "service", "credential", "ranked",
              "object", "primary", "refresh", "create", "update", "delete", "clear", "cred"},
        name : Name \cup {None}, path : Name \cup {None}, scoped : BOOLEAN,
        names : SUBSET Name, snap : Listing \cup {None}, id : Id \cup {None},
        item : Item \cup {None}, gone : SUBSET Name, barred : SUBSET Name,
        given : SUBSET Name, lag : 0 .. TTL + 1]]
  /\ edits \in 0 .. MaxEdits /\ races \in 0 .. MaxRaces /\ crashes \in 0 .. MaxCrashes
  /\ ticks \in 0 .. MaxTicks
  /\ since \in [Name -> [Value -> 0 .. TTL + 1]] /\ housed \subseteq Id
  /\ withdrawn \in [Proc -> SUBSET Name] /\ filed \subseteq Name

-----------------------------------------------------------------------------
At(r, label) == req[r].pc = label
Home(r) == req[r].at
Goto(r, label) == req' = [req EXCEPT ![r].pc = label]

(* The answer to a request. Of what it shows, history keeps the names that *)
(* were gone when the request came, and how long a cached secret has been  *)
(* out of date.                                                            *)
Answered(r, names, lag) ==
  [Idle EXCEPT !.given = names \cap req[r].barred, !.lag = lag]
Reply(r, names, lag) == req' = [req EXCEPT ![r] = Answered(r, names, lag)]

Fail(r) == Reply(r, {}, 0)

Race(hit) ==
  /\ IF hit THEN races < MaxRaces /\ races' = races + 1 ELSE races' = races
  /\ UNCHANGED <<crashes, ticks>>

(* Items of a listing with a name: several may have it, and which of them  *)
(* comes first is not known.                                               *)
Find(l, n) == {i \in Id : l # None /\ l[i] # None /\ l[i].name = n}
Names(l) == {n \in Name : Find(l, n) # {}}
InFolder(l) == {n \in Name : \E i \in Find(l, n) : l[i].in}
InPlace(l) == {i \in Id : l[i] # None /\ l[i].in}
Seen(l) == [i \in Id |-> IF l[i] = None THEN None ELSE [name |-> l[i].name, in |-> l[i].in]]

(* What the CLI answers for a name: an item with that name; if there is    *)
(* none, whatever single item its search turns up instead.                 *)
Found(l, n) ==
  IF Find(l, n) # {} THEN Find(l, n) ELSE {i \in Id : l[i] # None}

Has(l, n, v) == \E i \in Found(l, n) : l[i].val = v

(* The vault changes: names that are back in the folder are not gone.      *)
VaultBecomes(v, reqs) ==
  LET back == InFolder(v) IN
  /\ edits < MaxEdits /\ edits' = edits + 1
  /\ vault' = v
  /\ housed' = housed \cup InPlace(v)
  /\ req' = [q \in Req |-> [reqs[q] EXCEPT !.gone = @ \ back, !.barred = @ \ back]]
  /\ withdrawn' = [p \in Proc |-> withdrawn[p] \ back]
  /\ filed' = filed \ back
  /\ since' = [n \in Name |-> [x \in Value |-> IF Has(v, n, x) THEN 0 ELSE since[n][x]]]
  /\ UNCHANGED bounds

-----------------------------------------------------------------------------
(* resolveAlias, applyFolder and, for one field, parseSecretPath: the item *)
(* is the one an alias stands for, or lies under the default folder, or    *)
(* has a name that goes on beyond the first dot.                           *)
Resolve(r) ==
  /\ At(r, "path")
  /\ \E m \in Name :
       /\ <<req[r].name, m>> \in Meant
       /\ req' = [req EXCEPT ![r].path = m,
            ![r].pc = IF req[r].op \in {"get", "primary"} THEN "cache" ELSE "object"]
  /\ UNCHANGED <<external, files, memory, bounds, history>>

(* SecretCache. load() finds no file ...                                   *)
OpenMissing(r) ==
  /\ At(r, "cache") /\ ~mem[Home(r)].loaded /\ disk = None
  /\ mem' = [mem EXCEPT ![Home(r)].loaded = TRUE]
  /\ UNCHANGED <<external, files, snapMem, server, req, bounds, history>>

(* ... or awaits the master key before it reads it ...                     *)
Open(r) ==
  /\ At(r, "cache") /\ ~mem[Home(r)].loaded /\ disk # None
  /\ Goto(r, "reading")
  /\ UNCHANGED <<external, files, memory, bounds, history>>

(* ... and adds what it says to the entries there are. What cannot be      *)
(* parsed is an error, and so is a file another process is writing.        *)
ReadCache(r) ==
  LET p == Home(r) IN
  /\ At(r, "reading")
  /\ \/ /\ disk # Torn
        /\ mem' = [mem EXCEPT ![p] = [loaded |-> TRUE,
             entry |-> [n \in Name |-> IF disk[n] # None THEN disk[n] ELSE @.entry[n]]]]
        /\ Goto(r, "cache")
     \/ /\ disk = Torn \/ \E q \in Req : At(q, "save") /\ Home(q) # p
        /\ Fail(r)
        /\ UNCHANGED mem
  /\ UNCHANGED <<external, files, snapMem, server, bounds, history>>

Looks(r) == At(r, "cache") /\ req[r].op # "clear" /\ mem[Home(r)].loaded
Entry(r) == mem[Home(r)].entry[req[r].path]

Live_always(e) == e # None
Live(e) == e # None /\ e.age <= TTL

(* get(): an entry that has not expired ...                                *)
Hit(r) ==
  /\ Looks(r) /\ Live(Entry(r))
  /\ Reply(r, {}, since[req[r].path][Entry(r).val])
  /\ UNCHANGED <<external, files, memory, bounds, history>>

(* ... or none, dropping an expired one.                                   *)
Miss(r) ==
  /\ Looks(r) /\ ~Live(Entry(r))
  /\ mem' = [mem EXCEPT ![Home(r)].entry[req[r].path] = None]
  /\ Goto(r, "fetch")
  /\ UNCHANGED <<external, files, snapMem, server, bounds, history>>

(* When there are too many entries, those go that were not used lately.    *)
Evictable(n) == SUBSET (Name \ {n})

(* set(), after the secret has been encrypted.                             *)
Fill(r) ==
  LET n == req[r].path IN
  /\ At(r, "fill")
  /\ \E evicted \in Evictable(n) :
       mem' = [mem EXCEPT ![Home(r)].entry = [x \in Name |->
         IF x = n THEN [val |-> req[r].item.val, age |-> 0]
         ELSE IF x \in evicted THEN None ELSE @[x]]]
  /\ req' = [req EXCEPT ![r].pc = "save", ![r].item = None]
  /\ UNCHANGED <<external, files, snapMem, server, bounds, history>>

Save_wholeCache(r) ==
  /\ At(r, "save")
  /\ disk' = mem[Home(r)]
  /\ IF req[r].op = "clear" THEN Goto(r, "maps") ELSE Reply(r, {}, 0)
  /\ UNCHANGED <<external, snapDisk, snapTmp, memory, bounds, history>>

(* save(): this process's entries replace the file, whoever wrote it last. *)
Save(r) ==
  /\ At(r, "save")
  /\ disk' = mem[Home(r)].entry
  /\ IF req[r].op = "clear" THEN Goto(r, "maps") ELSE Reply(r, {}, 0)
  /\ UNCHANGED <<external, snapDisk, snapTmp, memory, bounds, history>>

(* clear()                                                                 *)
Clear(r) ==
  /\ At(r, "cache") /\ req[r].op = "clear" /\ mem[Home(r)].loaded
  /\ mem' = [mem EXCEPT ![Home(r)].entry = [n \in Name |-> None]]
  /\ Goto(r, "save")
  /\ UNCHANGED <<external, files, snapMem, server, bounds, history>>

-----------------------------------------------------------------------------
(* SnapshotManager.load() takes what is in memory or, with no file, none;  *)
(* else it reads the file and decrypts it before it keeps it.              *)
Held(r) == req[r].pc \in Loading
Keeps(r) == Held(r) /\ req[r].snap # None
Loads(r) == Held(r) /\ req[r].snap = None

ReadSnapshot(r) ==
  LET p == Home(r) IN
  /\ Loads(r) /\ snapMem[p] = None /\ snapDisk # None
  /\ Race(\E q \in Req : /\ Home(q) = p
                         /\ \/ req[q].pc \in Refreshing
                            \/ Keeps(q) /\ req[q].snap # snapDisk)
  /\ req' = [req EXCEPT ![r].snap = snapDisk, ![r].gone = IF server[p].folder THEN filed ELSE {}]
  /\ UNCHANGED <<external, files, memory, history>>

(* What the load came to, and the state of memory it leaves.               *)
Snapshot(r) == IF Keeps(r) THEN req[r].snap ELSE snapMem[Home(r)]

Loaded(r) ==
  LET p == Home(r) IN
  /\ Keeps(r) \/ (Loads(r) /\ (snapMem[p] # None \/ snapDisk = None))
  /\ snapMem' = [snapMem EXCEPT ![p] = Snapshot(r)]
  /\ withdrawn' = [withdrawn EXCEPT ![p] = @ \cup req[r].gone]
  /\ UNCHANGED <<external, files, mem, server, bounds, filed>>

(* createSnapshot: bw sync and bw list items ...                           *)
ListVault(r) ==
  /\ At(r, "sync")
  /\ Race(\E q \in Req \ {r} : \/ req[q].pc \in Refreshing
                               \/ Home(q) = Home(r) /\ Keeps(q))
  /\ req' = [req EXCEPT ![r].pc = "write", ![r].snap = Seen(vault),
                        ![r].gone = Name \ InFolder(vault)]
  /\ UNCHANGED <<external, files, memory, history>>

(* ... the encrypted listing into the .tmp file ...                        *)
WriteSnapshot(r) ==
  /\ At(r, "write")
  /\ snapTmp' = req[r].snap
  /\ Goto(r, "rename")
  /\ UNCHANGED <<external, disk, snapDisk, memory, bounds, history>>

RenameSnapshot_fileOnly(r) ==
  /\ At(r, "rename")
  /\ snapDisk' = snapTmp /\ snapTmp' = None
  /\ withdrawn' = [withdrawn EXCEPT ![Home(r)] =
       @ \cup IF server[Home(r)].folder THEN req[r].gone ELSE {}]
  /\ filed' = req[r].gone
  /\ Reply(r, {}, 0)
  /\ UNCHANGED <<external, disk, memory, bounds>>

(* ... which is renamed into place, if nobody else has renamed it, and     *)
(* then kept in memory.                                                    *)
RenameSnapshot(r) ==
  LET p == Home(r) IN
  /\ At(r, "rename")
  /\ Reply(r, {}, 0)
  /\ IF snapTmp = None
     THEN UNCHANGED <<snapDisk, snapTmp, snapMem, withdrawn, filed>>
     ELSE /\ snapDisk' = snapTmp /\ snapTmp' = None
          /\ snapMem' = [snapMem EXCEPT ![p] = req[r].snap]
          /\ withdrawn' = [withdrawn EXCEPT ![p] =
               @ \cup IF server[p].folder THEN req[r].gone ELSE {}]
          /\ filed' = req[r].gone
  /\ UNCHANGED <<external, disk, mem, server, bounds>>

-----------------------------------------------------------------------------
(* getItemByName: one of the items it finds, if the CLI answers. What it   *)
(* finds is a cache entry for getSecret ...                                *)
Fetch(r) ==
  /\ At(r, "fetch")
  /\ \E i \in Found(vault, req[r].path) :
       req' = [req EXCEPT ![r].pc = "fill", ![r].item = vault[i]]
  /\ UNCHANGED <<external, files, memory, bounds, history>>

(* ... and the answer for getSecretObject, from which get_credential goes  *)
(* on to the primary value.                                                *)
Got(r) ==
  IF req[r].op = "object"
  THEN req' = [req EXCEPT ![r].pc = "path", ![r].op = "primary", ![r].path = None,
                          ![r].snap = None, ![r].gone = {}]
  ELSE Reply(r, {}, 0)

FetchObject(r) ==
  /\ At(r, "object") /\ Found(vault, req[r].path) # {}
  /\ Got(r)
  /\ UNCHANGED <<external, files, memory, bounds, history>>

(* The search turns up several and none has the name: an error at once.    *)
FetchNone(r) ==
  /\ At(r, "fetch") \/ At(r, "object")
  /\ Find(vault, req[r].path) = {}
  /\ Fail(r)
  /\ UNCHANGED <<external, files, memory, bounds, history>>

(* No session, or the CLI fails: to the snapshot. Nor does an item that    *)
(* the CLI cannot find keep it from looking there.                         *)
FetchFails(r) ==
  /\ At(r, "fetch") \/ At(r, "object")
  /\ Goto(r, "fallback")
  /\ UNCHANGED <<external, files, memory, bounds, history>>

(* The first item of the snapshot with the name, in whichever folder.      *)
Fallback(r) ==
  /\ At(r, "fallback") /\ Loaded(r)
  /\ IF Find(Snapshot(r), req[r].path) # {} THEN Got(r) ELSE Fail(r)

(* listSecrets: the names in the vault, or in the snapshot without one.    *)
List(r, names) ==
  \/ /\ At(r, "names") /\ names = Names(vault)
     /\ UNCHANGED <<external, files, memory, bounds, history>>
  \/ At(r, "listing") /\ Loaded(r) /\ names = Names(Snapshot(r))

ListFails(r) ==
  /\ At(r, "names")
  /\ Goto(r, "listing")
  /\ UNCHANGED <<external, files, memory, bounds, history>>
=============================================================================
