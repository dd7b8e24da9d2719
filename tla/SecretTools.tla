---------------------------- MODULE SecretTools -----------------------------
(***************************************************************************)
(* The servers in front of the client library: the MCP server and its v2   *)
(* variant, the REST server and the credential proxy. Their handlers start *)
(* requests and end them; in between the steps are those of SecretClient.  *)
(***************************************************************************)
EXTENDS SecretClient

CONSTANTS Programs,  \* the servers that processes run
          Ops,       \* what is asked of them
          Clients    \* of REST: restricted to a folder (TRUE) or not

ASSUME SecretToolsAssumption ==
  Programs \subseteq {"mcp", "mcp2", "rest", "proxy"} /\ Clients \subseteq BOOLEAN

Init ==
  /\ vault \in [Id -> {None} \cup [name : Name, val : Value, in : BOOLEAN]]
  /\ disk = None
  /\ mem = [p \in Proc |-> [loaded |-> FALSE, entry |-> [n \in Name |-> None]]]
  /\ snapDisk \in {None, Seen(vault)} /\ snapTmp = None
  /\ snapMem = [p \in Proc |-> None]
  /\ server \in [Proc -> {Off(kind) : kind \in Programs}]
  /\ req = [r \in Req |-> Idle]
  /\ edits = 0 /\ races = 0 /\ crashes = 0 /\ ticks = 0
  /\ since = [n \in Name |-> [v \in Value |-> IF Has(vault, n, v) THEN 0 ELSE TTL + 1]]
  /\ housed = InPlace(vault)
  /\ withdrawn = [p \in Proc |-> {}] /\ filed = {}

-----------------------------------------------------------------------------
(* FolderScope.loadFrom: names whose item, the last of those with the      *)
(* name, lies in the folder.                                               *)
Mapped(l) == {ns \in SUBSET Names(l) :
  /\ \A n \in ns : \E i \in Find(l, n) : l[i].in
  /\ \A n \in Names(l) \ ns : \E i \in Find(l, n) : ~l[i].in}

(* A process starts. The MCP servers and the proxy resolve their folder    *)
(* once, REST the folders of its clients' items: if there is a session.    *)
Boot(p, kind, folder, names) ==
  /\ ~server[p].up /\ server[p].kind = kind
  /\ server' = [server EXCEPT ![p].up = TRUE, ![p].folder = folder, ![p].names = names]
  /\ UNCHANGED <<external, files, mem, snapMem, req, bounds, history>>

InitProfileFolderScope(p) == \E folder \in BOOLEAN : Boot(p, "mcp", folder, {})
InitProfileFolderScopeV2(p) == \E folder \in BOOLEAN : Boot(p, "mcp2", folder, {})
ResolveFolderFallback(p) == \E folder \in BOOLEAN : Boot(p, "proxy", folder, {})
LoadFolderScopes(p) ==
  \E ns \in {{}} \cup (IF TRUE \in Clients THEN Mapped(vault) ELSE {}) :
    Boot(p, "rest", FALSE, ns)

(* A request: `barred` are the names that its caller should see no more.   *)
Start(r, p, kinds, op, label, n, scoped) ==
  /\ At(r, "idle") /\ server[p].up /\ server[p].kind \in kinds /\ op \in Ops
  /\ req' = [req EXCEPT ![r] =
       [Idle EXCEPT !.pc = label, !.at = p, !.op = op, !.name = n, !.scoped = scoped,
                    !.barred = IF scoped THEN withdrawn[p] ELSE {}]]
  /\ UNCHANGED <<external, files, memory, bounds, history>>

-----------------------------------------------------------------------------
(* The tools of mcp.ts that read.                                          *)
GetSecret(r, p, n) == Start(r, p, {"mcp"}, "get", "scope", n, TRUE)
GetSecretFields(r, p, n) == Start(r, p, {"mcp"}, "fields", "scope", n, TRUE)
ListSecrets(r, p) == Start(r, p, {"mcp"}, "list", "names", None, TRUE)
SearchSecrets(r, p) == Start(r, p, {"mcp"}, "list", "names", None, TRUE)
SnapshotInfo(r, p) == Start(r, p, {"mcp"}, "info", "info", None, TRUE)
GetService(r, p, n) == Start(r, p, {"mcp"}, "service", "service", n, TRUE)

(* A query is a name or, None, something that only resembles names.        *)
GetCredential(r, p, q) == Start(r, p, {"mcp"}, "credential", "scope", q, TRUE)

(* ... and their counterparts in mcp-v2.ts.                                *)
GetSecretV2(r, p, n) == Start(r, p, {"mcp2"}, "get", "scope", n, TRUE)
GetSecretFieldsV2(r, p, n) == Start(r, p, {"mcp2"}, "fields", "scope", n, TRUE)
ListSecretsV2(r, p) == Start(r, p, {"mcp2"}, "list", "names", None, TRUE)
SearchSecretsV2(r, p) == Start(r, p, {"mcp2"}, "list", "names", None, TRUE)
SnapshotInfoV2(r, p) == Start(r, p, {"mcp2"}, "info", "info", None, TRUE)
GetServiceV2(r, p, n) == Start(r, p, {"mcp2"}, "service", "service", n, TRUE)
GetCredentialV2(r, p, q) == Start(r, p, {"mcp2"}, "credential", "scope", q, TRUE)

Allowed_always(p, item) == TRUE

Allowed(p, item) == server[p].folder => item.in

(* What each tool does with the item that findScopedItem returns: the tool,*)
(* what it becomes and where it goes on.                                   *)
Continuation ==
  {<<"get", "get", "path">>, <<"fields", "fields", "path">>,
   <<"update", "update", "read">>, <<"delete", "delete", "remove">>}
  \cup {"credential", "ranked"} \X {"get", "object"} \X {"path"}

(* findScopedItem, and what the tool does next. What is looked up from     *)
(* here on is not the item that was found but, in the library, the path,   *)
(* and for update and delete the id.                                       *)
FindScoped(r) ==
  LET l == Snapshot(r)
      first == Find(l, req[r].name)
  IN
  /\ At(r, "scope") /\ Loaded(r)
  /\ \/ \E i \in first, c \in Continuation :
          /\ Allowed(Home(r), l[i]) /\ c[1] = req[r].op
          /\ req' = [req EXCEPT ![r] = [@ EXCEPT !.op = c[2], !.pc = c[3],
                                                !.id = IF c[3] = "path" THEN None ELSE i,
                                                !.given = {req[r].name} \cap req[r].barred,
                                                !.snap = None, !.gone = {}, !.barred = {}]]
     \/ /\ first = {} \/ \E i \in first : ~Allowed(Home(r), l[i])
        /\ IF req[r].op = "credential"
           THEN req' = [req EXCEPT ![r].pc = "names", ![r].snap = None, ![r].gone = {}]
           ELSE Fail(r)

(* A list of names is the answer, or where get_credential takes the best   *)
(* candidate from.                                                         *)
Deliver(r, names) ==
  IF req[r].op = "list" \/ names = {} THEN Reply(r, names, 0)
  ELSE \E n \in names : req' = [req EXCEPT ![r] =
         [@ EXCEPT !.pc = "scope", !.op = "ranked", !.name = n, !.names = {},
                   !.snap = None, !.gone = {}]]

(* listSecrets returns to its handler. REST filters with its map of names; *)
(* the MCP servers, if they have a folder, against the snapshot.           *)
Listed(r) ==
  \E names \in SUBSET Name :
    /\ List(r, names)
    /\ CASE server[Home(r)].kind = "rest" ->
              Deliver(r, IF req[r].scoped THEN names \cap server[Home(r)].names ELSE names)
         [] server[Home(r)].folder ->
              req' = [req EXCEPT ![r].pc = "filter", ![r].names = names,
                                 ![r].snap = None, ![r].gone = {}]
         [] OTHER -> Deliver(r, names)

(* filterByScope: without a snapshot, nothing is filtered.                 *)
FilterByScope(r) ==
  LET l == Snapshot(r) IN
  /\ At(r, "filter") /\ Loaded(r)
  /\ Deliver(r, IF l = None THEN req[r].names ELSE req[r].names \cap InFolder(l))

(* get_service: what of the service the snapshot has in the folder.        *)
ServiceItems(r) ==
  LET l == Snapshot(r) IN
  /\ At(r, "service") /\ Loaded(r)
  /\ Reply(r, {n \in {req[r].name} : \E i \in Find(l, n) : Allowed(Home(r), l[i])}, 0)

Metadata(r) == At(r, "info") /\ Loaded(r) /\ Reply(r, {}, 0)

-----------------------------------------------------------------------------
(* The tools that write, and POST /snapshot/create.                        *)
RefreshSnapshot(r, p) == Start(r, p, {"mcp"}, "refresh", "sync", None, TRUE)
CreateSnapshot(r, p) == Start(r, p, {"rest"}, "refresh", "sync", None, FALSE)
CreateSecret(r, p, n) ==
  server[p].folder /\ Start(r, p, {"mcp"}, "create", "create", n, TRUE)
UpdateSecret(r, p, n) == Start(r, p, {"mcp"}, "update", "scope", n, TRUE)
DeleteSecret(r, p, n) == Start(r, p, {"mcp"}, "delete", "scope", n, TRUE)

(* A tool or refresh for which the CLI fails ends there, with an error or, *)
(* after the cache has been cleared, without.                              *)
CliFails(r) ==
  /\ req[r].pc \in {"sync", "create", "read", "edit", "remove", "maps"}
  /\ Fail(r)
  /\ UNCHANGED <<external, files, memory, bounds, history>>

(* After each change of the vault the snapshot is refreshed.               *)
Wrote(r, v) ==
  /\ VaultBecomes(v, [req EXCEPT ![r] = [Idle EXCEPT !.pc = "sync", !.at = Home(r),
                                                    !.op = req[r].op]])
  /\ UNCHANGED <<files, memory>>

Create(r) ==
  /\ At(r, "create")
  /\ \E i \in Id, v \in Value :
       /\ vault[i] = None
       /\ Wrote(r, [vault EXCEPT ![i] = [name |-> req[r].name, val |-> v, in |-> TRUE]])

(* update_secret reads the whole item ...                                  *)
ReadItem(r) ==
  /\ At(r, "read") /\ vault[req[r].id] # None
  /\ req' = [req EXCEPT ![r].pc = "edit", ![r].item = vault[req[r].id]]
  /\ UNCHANGED <<external, files, memory, bounds, history>>

(* ... and puts back what mergeUpdateFields makes of it.                   *)
Merged(item, val) == [item EXCEPT !.val = val]

Edit(r) ==
  LET i == req[r].id IN
  /\ At(r, "edit") /\ vault[i] # None
  /\ \E v \in Value : Wrote(r, [vault EXCEPT ![i] = Merged(req[r].item, v)])

Remove(r) ==
  /\ At(r, "remove") /\ vault[req[r].id] # None
  /\ Wrote(r, [vault EXCEPT ![req[r].id] = None])

-----------------------------------------------------------------------------
(* REST reads: isAllowed asks the map for the path itself, and the library *)
(* gets it at once.                                                        *)
RestGet(r, p, op, n, scoped) ==
  /\ At(r, "idle") /\ server[p].up /\ server[p].kind = "rest" /\ op \in Ops
  /\ scoped => n \in server[p].names
  /\ req' = [req EXCEPT ![r] =
       [Idle EXCEPT !.pc = "path", !.at = p, !.op = op, !.name = n, !.scoped = scoped,
                    !.given = {n} \cap IF scoped THEN withdrawn[p] ELSE {}]]
  /\ UNCHANGED <<external, files, memory, bounds, history>>

RestSecret(r, p, n, scoped) == RestGet(r, p, "get", n, scoped)
RestFields(r, p, n, scoped) == RestGet(r, p, "fields", n, scoped)
RestList(r, p, scoped) == Start(r, p, {"rest"}, "list", "names", None, scoped)
RestSearch(r, p, scoped) == Start(r, p, {"rest"}, "list", "names", None, scoped)
RestInfo(r, p) == Start(r, p, {"rest"}, "info", "info", None, FALSE)

(* POST /cache/clear empties the cache and then looks up the clients'      *)
(* folders again, if clients have any: the answer does not say whether it  *)
(* could.                                                                  *)
CacheClear(r, p) == Start(r, p, {"rest"}, "clear", "cache", None, FALSE)

ListFolders(r) ==
  /\ At(r, "maps") /\ TRUE \in Clients
  /\ Race(\E q \in Req \ {r} : req[q].pc \in Refreshing)
  /\ req' = [req EXCEPT ![r].pc = "apply", ![r].snap = Seen(vault),
                        ![r].gone = Name \ InFolder(vault)]
  /\ UNCHANGED <<external, files, memory, history>>

LoadFrom(r) ==
  LET p == Home(r) IN
  /\ At(r, "apply")
  /\ \E ns \in Mapped(req[r].snap) : server' = [server EXCEPT ![p].names = ns]
  /\ withdrawn' = [withdrawn EXCEPT ![p] = @ \cup req[r].gone]
  /\ Reply(r, {}, 0)
  /\ UNCHANGED <<external, files, mem, snapMem, bounds, filed>>

(* GET /cred/:service: an allowlisted item, or one of the fallback folder. *)
(* The proxy keeps nothing, and does not ask the client library.           *)
Cred(r, p, n) == Start(r, p, {"proxy"}, "cred", "cred", n, FALSE)

Credential(r) ==
  /\ At(r, "cred")
  /\ Reply(r, {}, 0)
  /\ UNCHANGED <<external, files, memory, bounds, history>>

-----------------------------------------------------------------------------
(* People change what is in the vault.                                     *)
Operator ==
  /\ \E i \in Id :
       \/ \E new \in Item : VaultBecomes([vault EXCEPT ![i] = new], req)
       \/ vault[i] # None /\ VaultBecomes([vault EXCEPT ![i] = None], req)
  /\ UNCHANGED <<files, memory>>

(* A process dies; one that was writing the cache file leaves a torn one.  *)
Crash(p) ==
  LET mine == {r \in Req : Home(r) = p} IN
  /\ server[p].up /\ crashes < MaxCrashes
  /\ crashes' = crashes + 1
  /\ server' = [server EXCEPT ![p] = Off(@.kind)]
  /\ mem' = [mem EXCEPT ![p] = [loaded |-> FALSE, entry |-> [n \in Name |-> None]]]
  /\ snapMem' = [snapMem EXCEPT ![p] = None]
  /\ req' = [r \in Req |-> IF r \in mine THEN Idle ELSE req[r]]
  /\ disk' \in {disk} \cup {t \in {Torn} : \E r \in mine : At(r, "save")}
  /\ withdrawn' = [withdrawn EXCEPT ![p] = {}]
  /\ UNCHANGED <<external, snapDisk, snapTmp, races, ticks, filed>>

Older(e) == [n \in Name |-> IF e[n] # None /\ e[n].age <= TTL
                            THEN [e[n] EXCEPT !.age = @ + 1] ELSE e[n]]

(* Time passes, but not while a secret is being encrypted for the cache.   *)
Tick ==
  /\ ticks < MaxTicks /\ ticks' = ticks + 1
  /\ \A r \in Req : ~At(r, "fill")
  /\ since' = [n \in Name |-> [v \in Value |->
       IF Has(vault, n, v) \/ since[n][v] > TTL THEN since[n][v] ELSE since[n][v] + 1]]
  /\ mem' = [p \in Proc |-> [mem[p] EXCEPT !.entry = Older(@)]]
  /\ disk' = IF disk \in {None, Torn} THEN disk ELSE Older(disk)
  /\ UNCHANGED <<vault, edits, housed, snapDisk, snapTmp, snapMem, server, req, races, crashes, history>>

-----------------------------------------------------------------------------
Read(r, p) ==
  \/ ListSecrets(r, p) \/ SearchSecrets(r, p) \/ SnapshotInfo(r, p)
  \/ ListSecretsV2(r, p) \/ SearchSecretsV2(r, p) \/ SnapshotInfoV2(r, p)
  \/ RestInfo(r, p)
  \/ \E scoped \in Clients : RestList(r, p, scoped) \/ RestSearch(r, p, scoped)
  \/ \E q \in Name \cup {None} : GetCredential(r, p, q) \/ GetCredentialV2(r, p, q)
  \/ \E n \in Name :
       \/ GetSecret(r, p, n) \/ GetSecretFields(r, p, n) \/ GetService(r, p, n)
       \/ GetSecretV2(r, p, n) \/ GetSecretFieldsV2(r, p, n) \/ GetServiceV2(r, p, n)
       \/ \E scoped \in Clients : RestSecret(r, p, n, scoped) \/ RestFields(r, p, n, scoped)
       \/ Cred(r, p, n)

Change(r, p) ==
  \/ RefreshSnapshot(r, p) \/ CreateSnapshot(r, p) \/ CacheClear(r, p)
  \/ \E n \in Name : CreateSecret(r, p, n) \/ UpdateSecret(r, p, n) \/ DeleteSecret(r, p, n)

Step(r) ==
  \/ Resolve(r) \/ OpenMissing(r) \/ Open(r) \/ ReadCache(r) \/ Hit(r) \/ Miss(r) \/ Fill(r)
  \/ Save(r) \/ Clear(r)
  \/ ReadSnapshot(r) \/ ListVault(r) \/ WriteSnapshot(r) \/ RenameSnapshot(r)
  \/ Fetch(r) \/ FetchObject(r) \/ FetchNone(r) \/ FetchFails(r) \/ Fallback(r)
  \/ ListFails(r) \/ Listed(r) \/ FilterByScope(r) \/ FindScoped(r)
  \/ ServiceItems(r) \/ Metadata(r)
  \/ CliFails(r) \/ Create(r) \/ ReadItem(r) \/ Edit(r) \/ Remove(r)
  \/ ListFolders(r) \/ LoadFrom(r) \/ Credential(r)

Next ==
  \/ \E r \in Req : Step(r) \/ \E p \in Proc : Read(r, p) \/ Change(r, p)
  \/ \E p \in Proc :
       \/ Crash(p)
       \/ InitProfileFolderScope(p) \/ InitProfileFolderScopeV2(p)
       \/ ResolveFolderFallback(p) \/ LoadFolderScopes(p)
  \/ Operator \/ Tick

Spec == Init /\ [][Next]_vars

-----------------------------------------------------------------------------
(* A secret answered from the cache has been out of date no longer than    *)
(* its time to live, however the entry got into this process: filled,      *)
(* saved by another process, loaded late, kept while others were cleared.  *)
(* Out of date: the CLI could not have answered it for the path.           *)
CachedIsRecent == \A r \in Req : req[r].lag <= TTL

(* Once a server has been told that a name is gone from its folder - by a  *)
(* refresh that listed the vault afterwards, its own or one found in the   *)
(* file at startup - no later request of a scoped caller gets past the     *)
(* check under that name or sees it in a list, until loads and refreshes   *)
(* race. Of the secret that is then looked up it says nothing (Resolve).   *)
WithdrawnIsNotFound == races = 0 => \A r \in Req : req[r].given = {}

(* Whatever snapshot it found the item in, however late, and whoever       *)
(* writes in between: an MCP server with a folder edits and deletes        *)
(* nothing that has never lain in that folder.                             *)
WritesStayInFolder ==
  [][\A r \in Req :
       req[r].pc \in {"edit", "remove"} /\ req'[r].pc = "sync" /\ server[Home(r)].folder =>
         req[r].id \in housed]_vars

(* update_secret changes nothing of an item but what it was asked to. This *)
(* the code does not keep: it puts back what it read, over whatever has    *)
(* been written since.                                                     *)
UpdateKeepsTheRest ==
  [][\A r \in Req, i \in Id :
       At(r, "edit") /\ req'[r].pc = "sync" /\ req[r].id = i =>
         vault'[i].name = vault[i].name /\ vault'[i].in = vault[i].in]_vars
=============================================================================
