--------------------------- MODULE IdentityProofs ---------------------------
(***************************************************************************)
(* Theorems about Identity, for any number of processes, tokens and        *)
(* crashes. The file store has no atomic test of the lock's age and of its *)
(* removal: once a process has removed a lock that is held, or has emptied *)
(* a store that others write, everything can be lost. So the promises are  *)
(* proved for the states before the first such race, whatever MaxRaces is. *)
(***************************************************************************)
EXTENDS Identity, TLAPS

Busy(p) == proc[p].pc \in {"acquire", "break"} \cup Critical
Draws(p) == Busy(p) /\ proc[p].op \in {"issue", "rotate", "supersede"}

(* What a call knows about its own locals.                                 *)
LocalsOK ==
  \A p \in Proc : Busy(p) =>
    /\ proc[p].op # "none"
    /\ Draws(p) => proc[p].new \in drawn
    /\ ~(proc[p].op = "issue") => proc[p].old \in Token
    /\ proc[p].op = "rotate" => proc[p].cut # Forever
    /\ proc[p].op = "supersede" => proc[p].cut \in 0 .. MaxTime

(* No two calls draw the same id.                                          *)
DrawnOnce == \A p, q \in Proc : Draws(p) /\ Draws(q) /\ p # q => proc[p].new # proc[q].new

-----------------------------------------------------------------------------
(* The rest holds until the first race.                                    *)

(* The lock file is that of the call that is in its critical section, ...  *)
HolderOnly == \A p \in Proc : proc[p].pc \in Critical => lock.there /\ lock.owner = p

(* ... which works on what the file holds.                                 *)
CopyIsFile == \A p \in Proc : proc[p].pc = "write" => proc[p].copy = file

FileIsDrawn == \A t \in Token : file[t] # None => t \in drawn

(* Token c has been made from t, and has what is left of its life.         *)
Follows(c, t) ==
  /\ parent[c] = t /\ file[c] # None /\ file[t] # None
  /\ file[c].life = file[t].life \/ file[t].life = 0

(* How far a call has come: before its write an id it has drawn is in      *)
(* nobody's way, after it what it is about to report is in the file.       *)
IssueOnItsWay(p) ==
  IF proc[p].pc = "release" THEN file[proc[p].new] # None ELSE file[proc[p].new] = None

RevokeOnItsWay(p) ==
  /\ file[proc[p].old] # None
  /\ proc[p].pc = "release" => file[proc[p].old].revoked

RotateOnItsWay(p) ==
  IF proc[p].pc = "release" THEN Follows(proc[p].new, proc[p].old)
  ELSE /\ parent[proc[p].new] = proc[p].old
       /\ file[proc[p].new] = None /\ file[proc[p].old] # None
       /\ proc[p].life = file[proc[p].old].life \/ file[proc[p].old].life = 0

SupersedeOnItsWay(p) ==
  /\ Follows(proc[p].new, proc[p].old)
  /\ proc[p].pc = "release" => file[proc[p].old].cut # Forever

OnTheirWay ==
  \A p \in Proc : Busy(p) =>
    /\ proc[p].op = "issue" => IssueOnItsWay(p)
    /\ proc[p].op = "revoke" => RevokeOnItsWay(p)
    /\ proc[p].op = "rotate" => RotateOnItsWay(p)
    /\ proc[p].op = "supersede" => SupersedeOnItsWay(p)

Solid ==
  /\ HolderOnly /\ CopyIsFile /\ FileIsDrawn /\ OnTheirWay
  /\ ReportedIsDurable /\ SupersededHasSuccessor

IInv == TypeOK /\ LocalsOK /\ DrawnOnce /\ (races = 0 => Solid)

-----------------------------------------------------------------------------
(* What MoveKeeps asks of the new place of a process: a call goes on as it *)
(* was, or a rotation that has written its new token marks the old one.    *)
GoesOn(p, s) ==
  /\ Busy(p) /\ s.old = proc[p].old /\ s.new = proc[p].new
  /\ s.pc # "release" /\ s.cut = proc[p].cut
  /\ \/ proc[p].pc # "release" /\ s.op = proc[p].op /\ s.life = proc[p].life
     \/ /\ proc[p].pc = "release" /\ proc[p].op = "rotate"
        /\ s.op = "supersede" /\ s.cut # Invalid

(* A step of one process that changes no record, unless it is a race.      *)
LEMMA MoveKeeps ==
  ASSUME IInv, NEW p \in Proc, NEW s \in Place,
         proc' = [proc EXCEPT ![p] = s],
         exists' \in BOOLEAN, file' \in [Token -> Record],
         lock' \in [owner : Proc \cup {None}, age : 0 .. Stale + 1, there : BOOLEAN],
         shown' \subseteq Token, dropped' \subseteq Token, replaced' \subseteq Token,
         crashes' \in 0 .. MaxCrashes, races' \in 0 .. MaxRaces,
         UNCHANGED <<drawn, parent>>,
         s.pc \in {"acquire", "break"} \cup Critical => GoesOn(p, s),
         races' = 0 => /\ races = 0 /\ file' = file
                       /\ HolderOnly' /\ ReportedIsDurable'
                       /\ s.pc = "write" => s.copy = file
  PROVE  IInv'
<1> USE DEF IInv
<1>1. /\ proc \in [Proc -> Place] /\ proc' \in [Proc -> Place] /\ proc'[p] = s
      /\ \A q \in Proc : q # p => proc'[q] = proc[q]
      /\ \A q \in Proc : proc[q] \in Place
  BY DEF TypeOK
<1>2. TypeOK'
  BY <1>1 DEF TypeOK
<1>3. ASSUME NEW q \in Proc, Busy(q)'
      PROVE  /\ Busy(q) /\ proc'[q].old = proc[q].old /\ proc'[q].new = proc[q].new
             /\ proc'[q].cut = proc[q].cut
             /\ \/ proc'[q].op = proc[q].op
                \/ /\ proc[q].op = "rotate" /\ proc'[q].op = "supersede"
                   /\ proc'[q].cut # Invalid
  BY <1>1, <1>3 DEF Busy, GoesOn
<1>4. LocalsOK'
  <2> SUFFICES ASSUME NEW q \in Proc, Busy(q)'
               PROVE  /\ proc'[q].op # "none"
                      /\ Draws(q)' => proc'[q].new \in drawn'
                      /\ ~(proc'[q].op = "issue") => proc'[q].old \in Token
                      /\ proc'[q].op = "rotate" => proc'[q].cut # Forever
                      /\ proc'[q].op = "supersede" => proc'[q].cut \in 0 .. MaxTime
    BY DEF LocalsOK
  <2>1. /\ proc[q].op # "none" /\ drawn' = drawn
        /\ Draws(q) => proc[q].new \in drawn
        /\ ~(proc[q].op = "issue") => proc[q].old \in Token
        /\ proc[q].op = "rotate" => proc[q].cut # Forever
        /\ proc[q].op = "supersede" => proc[q].cut \in 0 .. MaxTime
    BY <1>3 DEF LocalsOK
  <2>2. proc[q].cut \in 0 .. MaxTime \cup {Forever, Invalid}
    BY <1>1 DEF Place, Registry!Time
  <2> QED
    BY <1>3, <2>1, <2>2 DEF Draws
<1>5. DrawnOnce'
  BY <1>3 DEF DrawnOnce, Draws
<1>6. ASSUME races' = 0
      PROVE  Solid'
  <2>1. Solid /\ file' = file /\ HolderOnly' /\ ReportedIsDurable'
    BY <1>6
  <2>2. CopyIsFile'
    BY <1>1, <1>6, <2>1 DEF Solid, CopyIsFile
  <2>3. FileIsDrawn' /\ SupersededHasSuccessor'
    BY <2>1 DEF Solid, FileIsDrawn, SupersededHasSuccessor
  <2>4. OnTheirWay'
    <3> SUFFICES ASSUME NEW q \in Proc, Busy(q)'
                 PROVE  /\ proc'[q].op = "issue" => IssueOnItsWay(q)'
                        /\ proc'[q].op = "revoke" => RevokeOnItsWay(q)'
                        /\ proc'[q].op = "rotate" => RotateOnItsWay(q)'
                        /\ proc'[q].op = "supersede" => SupersedeOnItsWay(q)'
      BY DEF OnTheirWay
    <3> USE DEF IssueOnItsWay, RevokeOnItsWay, RotateOnItsWay, SupersedeOnItsWay, Follows
    <3>1. /\ proc[q].op = "issue" => IssueOnItsWay(q)
          /\ proc[q].op = "revoke" => RevokeOnItsWay(q)
          /\ proc[q].op = "rotate" => RotateOnItsWay(q)
          /\ proc[q].op = "supersede" => SupersedeOnItsWay(q)
      BY <1>3, <2>1 DEF Solid, OnTheirWay
    <3>2. CASE q = p
      <4>1. GoesOn(p, s)
        BY <1>1, <3>2 DEF Busy
      <4> QED
        BY <1>1, <2>1, <3>1, <3>2, <4>1 DEF GoesOn
    <3>3. CASE q # p
      BY <1>1, <2>1, <3>1, <3>3
    <3> QED
      BY <3>2, <3>3
  <2> QED
    BY <2>1, <2>2, <2>3, <2>4 DEF Solid
<1> QED
  BY <1>2, <1>4, <1>5, <1>6

(* The values of an idle process, an empty file and a free lock.           *)
LEMMA OffIsTyped ==
  /\ Off \in Place /\ Off.pc = "idle" /\ Empty \in [Token -> Record]
  /\ NoLock \in [owner : Proc \cup {None}, age : 0 .. Stale + 1, there : BOOLEAN]
  /\ NoLock.owner = None /\ NoLock.there = FALSE
<1>1. Empty \in [Token -> Record] /\ Forever \in Registry!Time /\ 0 \in 0 .. Timeout + 1
  BY IdentityAssumption DEF Empty, Record, Registry!Time
<1>2. Off \in Place
  BY <1>1 DEF Off, Place
<1>3. 0 \in 0 .. Stale + 1
  BY IdentityAssumption
<1> QED
  BY <1>1, <1>2, <1>3 DEF Off, NoLock

(* Steps of a call up to the lock, and those that end it.                  *)
LEMMA OutsideKeeps ==
  ASSUME IInv, NEW p \in Proc,
         \/ Start(p) \/ Make(p) \/ Unknown(p) \/ FindStale(p) \/ GiveUp(p) \/ LookAgain(p)
  PROVE  IInv'
<1> USE DEF IInv
<1>1. /\ proc \in [Proc -> Place] /\ proc[p] \in Place /\ file \in [Token -> Record]
      /\ races \in 0 .. MaxRaces /\ MaxRaces \in Nat
  BY IdentityAssumption DEF TypeOK
<1>2. /\ UNCHANGED <<lock, drawn, parent, reports, crashes>>
      /\ exists' \in BOOLEAN /\ file' \in [Token -> Record] /\ races' \in 0 .. MaxRaces
      /\ races' = 0 => races = 0 /\ file' = file
  <2>1. CASE Make(p)
    BY <1>1, <2>1, OffIsTyped DEF Make, Race
  <2>2. CASE ~Make(p)
    BY <1>1, <2>2 DEF Start, Unknown, FindStale, GiveUp, LookAgain, TypeOK
  <2> QED
    BY <2>1, <2>2
<1>3. PICK s \in Place :
        /\ proc' = [proc EXCEPT ![p] = s]
        /\ s.pc \notin Critical
        /\ s.pc \in {"acquire", "break"} => GoesOn(p, s)
  <2>1. CASE Unknown(p) \/ GiveUp(p)
    BY <2>1, OffIsTyped DEF Unknown, GiveUp, Return, Critical
  <2>2. ASSUME NEW l \in {"make", "find"}, Goto(p, l)
        PROVE  \E s \in Place : /\ proc' = [proc EXCEPT ![p] = s]
                                /\ s.pc \notin Critical
                                /\ s.pc \in {"acquire", "break"} => GoesOn(p, s)
    <3> DEFINE s == [proc[p] EXCEPT !.pc = l]
    <3>1. s \in Place /\ s.pc = l /\ proc' = [proc EXCEPT ![p] = s]
      BY <1>1, <2>2 DEF Place, Goto
    <3> QED
      BY <3>1 DEF Critical
  <2>3. ASSUME NEW l \in {"acquire", "break"}, Goto(p, l), At(p, "acquire") \/ At(p, "break")
        PROVE  \E s \in Place : /\ proc' = [proc EXCEPT ![p] = s]
                                /\ s.pc \notin Critical
                                /\ s.pc \in {"acquire", "break"} => GoesOn(p, s)
    <3> DEFINE s == [proc[p] EXCEPT !.pc = l]
    <3>1. s \in Place /\ s.pc = l /\ proc' = [proc EXCEPT ![p] = s]
      BY <1>1, <2>3 DEF Place, Goto
    <3>2. /\ s.old = proc[p].old /\ s.new = proc[p].new /\ s.op = proc[p].op
          /\ s.cut = proc[p].cut /\ s.life = proc[p].life
      BY <1>1 DEF Place
    <3> HIDE DEF s
    <3> QED
      BY <2>3, <3>1, <3>2 DEF Critical, GoesOn, Busy, At
  <2>4. CASE Start(p) \/ Make(p) \/ FindStale(p) \/ LookAgain(p)
    <3>1. \/ Goto(p, "make") \/ Goto(p, "find")
          \/ (At(p, "acquire") \/ At(p, "break")) /\ (Goto(p, "acquire") \/ Goto(p, "break"))
      BY <2>4 DEF Start, Make, FindStale, LookAgain
    <3> QED
      BY <2>2, <2>3, <3>1
  <2> QED
    BY <2>1, <2>4
<1>4. ASSUME races' = 0
      PROVE  /\ races = 0 /\ file' = file
             /\ HolderOnly' /\ ReportedIsDurable'
             /\ s.pc = "write" => s.copy = file
  <2>1. Solid /\ races = 0 /\ file' = file
    BY <1>2, <1>4
  <2>2. \A q \in Proc : proc'[q] = IF q = p THEN s ELSE proc[q]
    BY <1>1, <1>3
  <2>3. HolderOnly'
    BY <1>2, <1>3, <2>1, <2>2 DEF Solid, HolderOnly
  <2>4. ReportedIsDurable'
    BY <1>2, <2>1 DEF Solid, ReportedIsDurable, reports
  <2> QED
    BY <1>3, <2>1, <2>3, <2>4 DEF Critical
<1> QED
  BY <1>2, <1>3, <1>4, MoveKeeps DEF TypeOK, reports, Critical

(* Steps of a call that change the lock file or act under it.              *)
LEMMA LockKeeps ==
  ASSUME IInv, NEW p \in Proc, Acquire(p) \/ Break(p) \/ Read(p) \/ Crash(p)
  PROVE  IInv'
<1> USE DEF IInv
<1>1. /\ proc \in [Proc -> Place] /\ proc[p] \in Place /\ file \in [Token -> Record]
      /\ races \in 0 .. MaxRaces /\ MaxRaces \in Nat
      /\ crashes \in 0 .. MaxCrashes /\ MaxCrashes \in Nat
      /\ lock \in [owner : Proc \cup {None}, age : 0 .. Stale + 1, there : BOOLEAN]
      /\ None \notin Proc /\ Stale \in Nat
  BY IdentityAssumption DEF TypeOK
<1>2. UNCHANGED <<exists, file, drawn, parent, reports>>
  BY DEF Acquire, Break, Read, Crash
<1>3. /\ lock' \in [owner : Proc \cup {None}, age : 0 .. Stale + 1, there : BOOLEAN]
      /\ crashes' \in 0 .. MaxCrashes /\ races' \in 0 .. MaxRaces
      /\ races' = 0 => races = 0
  <2>1. CASE Acquire(p)
    BY <1>1, <2>1 DEF Acquire
  <2>2. CASE Break(p)
    BY <1>1, <2>2, OffIsTyped DEF Break, Race
  <2>3. CASE Read(p)
    BY <1>1, <2>3 DEF Read
  <2>4. CASE Crash(p)
    BY <1>1, <2>4 DEF Crash
  <2> QED
    BY <2>1, <2>2, <2>3, <2>4
<1>4. PICK s \in Place :
        /\ proc' = [proc EXCEPT ![p] = s]
        /\ s.pc \in {"acquire", "break"} \cup Critical => GoesOn(p, s)
        /\ s.pc \in Critical => (Acquire(p) \/ (Read(p) /\ proc[p].pc \in Critical))
        /\ s.pc = "write" => s.copy = file
  <2> DEFINE Good(s) == /\ s \in Place /\ proc' = [proc EXCEPT ![p] = s]
                        /\ s.pc \in {"acquire", "break"} \cup Critical => GoesOn(p, s)
                        /\ s.pc \in Critical => (Acquire(p) \/ (Read(p) /\ proc[p].pc \in Critical))
                        /\ s.pc = "write" => s.copy = file
  <2> SUFFICES \E s : Good(s)
    OBVIOUS
  <2>1. ASSUME NEW l \in {"acquire", "read"}, Goto(p, l), At(p, "acquire") \/ At(p, "break"),
               l = "read" => Acquire(p)
        PROVE  Good([proc[p] EXCEPT !.pc = l])
    <3> DEFINE s == [proc[p] EXCEPT !.pc = l]
    <3>1. s \in Place /\ s.pc = l /\ proc' = [proc EXCEPT ![p] = s]
      BY <1>1, <2>1 DEF Place, Goto, Critical
    <3>2. /\ s.old = proc[p].old /\ s.new = proc[p].new /\ s.op = proc[p].op
          /\ s.cut = proc[p].cut /\ s.life = proc[p].life
      BY <1>1 DEF Place
    <3> HIDE DEF s
    <3>3. GoesOn(p, s)
      BY <2>1, <3>1, <3>2 DEF GoesOn, Busy, At
    <3> QED
      BY <2>1, <3>1, <3>3 DEF Critical, s
  <2>2. CASE Acquire(p)
    BY <2>1, <2>2 DEF Acquire
  <2>3. CASE Break(p)
    BY <2>1, <2>3 DEF Break
  <2>4. CASE Read(p)
    <3> DEFINE s == [proc[p] EXCEPT !.pc = "write", !.copy = file]
    <3>1. s \in Place /\ s.pc = "write" /\ s.copy = file
      BY <1>1 DEF Place, Critical
    <3>2. proc' = [proc EXCEPT ![p] = s]
      BY <2>4 DEF Read
    <3>3. /\ s.old = proc[p].old /\ s.new = proc[p].new /\ s.op = proc[p].op
          /\ s.cut = proc[p].cut /\ s.life = proc[p].life
      BY <1>1 DEF Place
    <3> HIDE DEF s
    <3>4. proc[p].pc = "read" /\ GoesOn(p, s)
      BY <2>4, <3>1, <3>3 DEF GoesOn, Busy, At, Read, Critical
    <3> QED
      BY <2>4, <3>1, <3>2, <3>4 DEF Critical
  <2>5. CASE Crash(p)
    BY <2>5, OffIsTyped DEF Crash, Return, Critical
  <2> QED
    BY <2>2, <2>3, <2>4, <2>5
<1>5. ASSUME races' = 0
      PROVE  HolderOnly' /\ ReportedIsDurable'
  <2>1. Solid
    BY <1>3, <1>5
  <2>2. \A q \in Proc : proc'[q] = IF q = p THEN s ELSE proc[q]
    BY <1>1, <1>4
  <2>3. \A q \in Proc : proc[q].pc \in Critical => lock.there /\ lock.owner = q
    BY <2>1 DEF Solid, HolderOnly
  <2>4. \A q \in Proc : proc'[q].pc \in Critical => lock'.there /\ lock'.owner = q
    <3>1. CASE Acquire(p)
      BY <1>1, <2>2, <2>3, <3>1 DEF Acquire
    <3>2. CASE Break(p)
      <4>1. lock.owner = None
        BY <1>1, <1>5, <3>2 DEF Break, Race
      <4>2. s.pc \notin Critical
        <5>1. proc'[p].pc = "acquire"
          BY <1>1, <3>2 DEF Break, Goto, Place
        <5> QED
          BY <2>2, <5>1 DEF Critical
      <4> QED
        BY <1>1, <2>2, <2>3, <4>1, <4>2
    <3>3. CASE Read(p)
      <4>1. lock' = lock /\ proc[p].pc \in Critical
        BY <3>3 DEF Read, At, Critical
      <4> QED
        BY <2>2, <2>3, <4>1
    <3>4. CASE Crash(p)
      <4>1. proc'[p].pc = "idle"
        BY <1>1, <3>4, OffIsTyped DEF Crash, Return
      <4>2. \A q \in Proc : q # p /\ lock.owner = q => lock' = lock
        BY <3>4 DEF Crash
      <4> QED
        BY <2>2, <2>3, <4>1, <4>2 DEF Critical
    <3> QED
      BY <3>1, <3>2, <3>3, <3>4
  <2>5. ReportedIsDurable'
    BY <1>2, <2>1 DEF Solid, ReportedIsDurable, reports
  <2> QED
    BY <2>4, <2>5 DEF HolderOnly
<1> QED
  BY <1>2, <1>3, <1>4, <1>5, MoveKeeps DEF TypeOK, reports

(* The end of a critical section: what the call reports is in the file.    *)
LEMMA ReleaseKeeps ==
  ASSUME IInv, NEW p \in Proc, Release(p)
  PROVE  IInv'
<1> USE DEF IInv
<1>1. /\ proc \in [Proc -> Place] /\ proc[p] \in Place /\ proc[p].pc = "release"
      /\ shown \subseteq Token /\ dropped \subseteq Token /\ replaced \subseteq Token
      /\ None \notin Proc /\ Busy(p)
  BY IdentityAssumption DEF TypeOK, Release, At, Busy, Critical
<1>2. /\ UNCHANGED <<exists, file, drawn, parent, crashes, races>>
      /\ lock' = NoLock
      /\ shown' = IF proc[p].op \in {"issue", "supersede"} THEN shown \cup {proc[p].new} ELSE shown
      /\ dropped' = IF proc[p].op = "revoke" THEN dropped \cup {proc[p].old} ELSE dropped
      /\ replaced' = IF proc[p].op = "supersede" THEN replaced \cup {proc[p].old} ELSE replaced
  BY DEF Release
<1>3. /\ proc[p].op \in {"issue", "supersede"} => proc[p].new \in Token
      /\ proc[p].op \in {"revoke", "supersede"} => proc[p].old \in Token
  BY <1>1 DEF LocalsOK, Draws, TypeOK
<1>4. PICK s \in Place :
        /\ proc' = [proc EXCEPT ![p] = s]
        /\ s.pc \in {"idle", "acquire"}
        /\ s.pc = "acquire" => GoesOn(p, s)
  <2>1. CASE proc[p].op = "rotate" /\ proc[p].cut # Invalid
    <3> DEFINE s == [proc[p] EXCEPT !.pc = "acquire", !.op = "supersede",
                                    !.life = Forever, !.wait = 0]
    <3>1. Forever \in Registry!Time /\ 0 \in 0 .. Timeout + 1
      BY IdentityAssumption DEF Registry!Time
    <3>2. s \in Place /\ s.pc = "acquire"
      BY <1>1, <3>1 DEF Place
    <3>3. proc' = [proc EXCEPT ![p] = s]
      BY <2>1 DEF Release
    <3>4. s.old = proc[p].old /\ s.new = proc[p].new /\ s.op = "supersede" /\ s.cut = proc[p].cut
      BY <1>1 DEF Place
    <3> HIDE DEF s
    <3>5. GoesOn(p, s)
      BY <1>1, <2>1, <3>2, <3>4 DEF GoesOn
    <3> QED
      BY <3>2, <3>3, <3>5
  <2>2. CASE ~(proc[p].op = "rotate" /\ proc[p].cut # Invalid)
    BY <2>2, OffIsTyped DEF Release, Return
  <2> QED
    BY <2>1, <2>2
<1>5. ASSUME races' = 0
      PROVE  HolderOnly' /\ ReportedIsDurable'
  <2>1. Solid
    BY <1>2, <1>5
  <2>2. \A q \in Proc : proc'[q] = IF q = p THEN s ELSE proc[q]
    BY <1>1, <1>4
  <2>3. HolderOnly'
    BY <1>1, <1>4, <2>1, <2>2 DEF Solid, HolderOnly, Critical
  <2>4. /\ proc[p].op \in {"issue", "supersede"} => file[proc[p].new] # None
        /\ proc[p].op = "revoke" => file[proc[p].old] # None /\ file[proc[p].old].revoked
        /\ proc[p].op = "supersede" => file[proc[p].old] # None /\ file[proc[p].old].cut # Forever
    BY <1>1, <2>1 DEF Solid, OnTheirWay, IssueOnItsWay, RevokeOnItsWay, SupersedeOnItsWay, Follows
  <2>5. ReportedIsDurable'
    BY <1>2, <2>1, <2>4 DEF Solid, ReportedIsDurable
  <2> QED
    BY <2>3, <2>5
<1> QED
  <2>1. /\ lock' \in [owner : Proc \cup {None}, age : 0 .. Stale + 1, there : BOOLEAN]
        /\ shown' \subseteq Token /\ dropped' \subseteq Token /\ replaced' \subseteq Token
    BY <1>1, <1>2, <1>3, OffIsTyped
  <2> QED
    BY <1>2, <1>4, <1>5, <2>1, MoveKeeps DEF TypeOK, Critical

(* A call that has looked into the file and drawn an id asks for the lock: *)
(* the id is in nobody's way.                                              *)
LEMMA RequestKeeps ==
  ASSUME IInv, NEW p \in Proc, NEW op \in {"issue", "revoke", "rotate"},
         NEW old \in Token \cup {None}, NEW new \in Token \cup {None},
         NEW life \in Registry!Time, NEW cut \in Registry!Time \cup {Invalid},
         Request(p, op, old, new, life, cut),
         op \in {"issue", "rotate"} =>
           new \in Token /\ new \notin drawn /\ drawn' = drawn \cup {new},
         op = "revoke" => drawn' = drawn,
         IF op = "rotate" THEN parent' = [parent EXCEPT ![new] = old] ELSE parent' = parent,
         op \in {"revoke", "rotate"} => old \in Token /\ file[old] # None,
         op = "rotate" => /\ cut # Forever
                          /\ life = file[old].life \/ file[old].life = 0
  PROVE  IInv'
<1> USE DEF IInv
<1> DEFINE s == [Off EXCEPT !.pc = "acquire", !.op = op, !.old = old,
                            !.new = new, !.life = life, !.cut = cut]
<1>1. /\ proc \in [Proc -> Place] /\ \A q \in Proc : proc[q] \in Place
      /\ parent \in [Token -> Token \cup {None}] /\ drawn \subseteq Token
      /\ UNCHANGED <<exists, file, lock, reports, crashes, races>>
  BY DEF TypeOK, Request
<1>2. /\ s \in Place /\ s.pc = "acquire" /\ s.op = op /\ s.old = old /\ s.new = new
      /\ s.life = life /\ s.cut = cut
  <2>1. Empty \in [Token -> Record] /\ 0 \in 0 .. Timeout + 1
    BY OffIsTyped, IdentityAssumption
  <2> QED
    BY <2>1 DEF Off, Place
<1>3. proc' = [proc EXCEPT ![p] = s]
  BY DEF Request
<1> HIDE DEF s
<1>4. /\ proc'[p] = s /\ proc' \in [Proc -> Place]
      /\ \A q \in Proc : q # p => proc'[q] = proc[q]
  BY <1>1, <1>2, <1>3
<1>5. /\ drawn \subseteq drawn' /\ drawn' \subseteq Token
      /\ parent' \in [Token -> Token \cup {None}]
      /\ \A t \in drawn : parent'[t] = parent[t]
  BY <1>1
<1>6. TypeOK'
  BY <1>1, <1>4, <1>5 DEF TypeOK, reports
<1>7. ASSUME NEW q \in Proc, Draws(q), q # p
      PROVE  proc[q].new \in drawn
  BY <1>7 DEF LocalsOK, Draws
<1>8. LocalsOK'
  <2> SUFFICES ASSUME NEW q \in Proc, Busy(q)'
               PROVE  /\ proc'[q].op # "none"
                      /\ Draws(q)' => proc'[q].new \in drawn'
                      /\ ~(proc'[q].op = "issue") => proc'[q].old \in Token
                      /\ proc'[q].op = "rotate" => proc'[q].cut # Forever
                      /\ proc'[q].op = "supersede" => proc'[q].cut \in 0 .. MaxTime
    BY DEF LocalsOK
  <2>1. CASE q = p
    BY <1>2, <1>4, <2>1 DEF Draws
  <2>2. CASE q # p
    BY <1>4, <1>5, <2>2 DEF LocalsOK, Busy, Draws
  <2> QED
    BY <2>1, <2>2
<1>9. DrawnOnce'
  <2>1. ASSUME NEW q \in Proc, q # p, Draws(p)', Draws(q)'
        PROVE  proc'[q].new # proc'[p].new
    <3>1. Draws(q) /\ proc'[q].new = proc[q].new
      BY <1>4, <2>1 DEF Draws, Busy
    <3>2. op \in {"issue", "rotate"} /\ proc'[p].new = new
      BY <1>2, <1>4, <2>1 DEF Draws
    <3> QED
      BY <1>7, <2>1, <3>1, <3>2
  <2>2. ASSUME NEW q \in Proc, NEW r \in Proc, q # p, r # p, q # r, Draws(r)', Draws(q)'
        PROVE  proc'[q].new # proc'[r].new
    BY <1>4, <2>2 DEF DrawnOnce, Draws, Busy
  <2> QED
    BY <2>1, <2>2 DEF DrawnOnce
<1>10. ASSUME races' = 0
       PROVE  Solid'
  <2>1. Solid
    BY <1>1, <1>10
  <2>2. HolderOnly' /\ CopyIsFile'
    BY <1>1, <1>2, <1>4, <2>1 DEF Solid, HolderOnly, CopyIsFile, Critical
  <2>3. FileIsDrawn' /\ ReportedIsDurable'
    BY <1>1, <1>5, <2>1 DEF Solid, FileIsDrawn, ReportedIsDurable, reports
  <2>4. \A t \in Token : file[t] # None => t \in drawn
    BY <2>1 DEF Solid, FileIsDrawn
  <2>5. SupersededHasSuccessor'
    <3>1. \A c \in Token : file[c] # None => parent'[c] = parent[c]
      BY <1>5, <2>4
    <3> QED
      BY <1>1, <2>1, <3>1 DEF Solid, SupersededHasSuccessor
  <2>6. OnTheirWay'
    <3> SUFFICES ASSUME NEW q \in Proc, Busy(q)'
                 PROVE  /\ proc'[q].op = "issue" => IssueOnItsWay(q)'
                        /\ proc'[q].op = "revoke" => RevokeOnItsWay(q)'
                        /\ proc'[q].op = "rotate" => RotateOnItsWay(q)'
                        /\ proc'[q].op = "supersede" => SupersedeOnItsWay(q)'
      BY DEF OnTheirWay
    <3> USE DEF IssueOnItsWay, RevokeOnItsWay, RotateOnItsWay, SupersedeOnItsWay, Follows
    <3>1. CASE q = p
      <4>1. op \in {"issue", "rotate"} => file[new] = None
        BY <2>4
      <4>2. op = "rotate" => parent'[new] = old
        BY <1>1
      <4> QED
        BY <1>1, <1>2, <1>4, <3>1, <4>1, <4>2
    <3>2. CASE q # p
      <4>1. Busy(q) /\ proc'[q] = proc[q]
        BY <1>4, <3>2 DEF Busy
      <4>2. /\ proc[q].op = "issue" => IssueOnItsWay(q)
            /\ proc[q].op = "revoke" => RevokeOnItsWay(q)
            /\ proc[q].op = "rotate" => RotateOnItsWay(q)
            /\ proc[q].op = "supersede" => SupersedeOnItsWay(q)
        BY <2>1, <4>1 DEF Solid, OnTheirWay
      <4>3. proc[q].op \in {"issue", "rotate", "supersede"} => parent'[proc[q].new] = parent[proc[q].new]
        BY <1>5, <1>7, <3>2, <4>1 DEF Draws
      <4> QED
        BY <1>1, <4>1, <4>2, <4>3
    <3> QED
      BY <3>1, <3>2
  <2> QED
    BY <2>2, <2>3, <2>5, <2>6 DEF Solid
<1> QED
  BY <1>6, <1>8, <1>9, <1>10

(* The start of issueToken, rotateToken or revokeToken.                    *)
LEMMA CallsKeep ==
  ASSUME IInv, NEW p \in Proc, NEW t \in Token,
         \/ Revoke(p, t)
         \/ \E n \in Life : Issue(p, t, n)
         \/ \E old \in Token, n \in Overlap : Rotate(p, old, t, n)
  PROVE  IInv'
<1> USE IdentityAssumption DEF Registry!Time
<1>1. CASE Revoke(p, t)
  BY <1>1, RequestKeeps DEF Revoke
<1>2. ASSUME NEW n \in Life, Issue(p, t, n)
      PROVE  IInv'
  BY <1>2, RequestKeeps DEF Issue
<1>3. ASSUME NEW old \in Token, NEW n \in Overlap, Rotate(p, old, t, n)
      PROVE  IInv'
  <2> DEFINE life == IF file[old].life = 0 THEN 1 ELSE file[old].life
  <2>1. file[old] # None /\ file[old] \in Registry!Record
    BY <1>3 DEF Rotate, IInv, TypeOK, Record
  <2>2. life \in Registry!Time /\ (life = file[old].life \/ file[old].life = 0)
    BY <2>1 DEF Registry!Record
  <2>3. n # Forever /\ n \in Registry!Time \cup {Invalid}
    OBVIOUS
  <2>4. Request(p, "rotate", old, t, life, n)
    BY <1>3 DEF Rotate
  <2> HIDE DEF life, Registry!Time
  <2> QED
    BY <1>3, <2>1, <2>2, <2>3, <2>4, RequestKeeps DEF Rotate
<1> QED
  BY <1>1, <1>2, <1>3

-----------------------------------------------------------------------------
(* What a write does to the file, whoever else is about, before any race:  *)
(* it is the step of the table that its call stands for.                   *)
WritesNew(p, t) ==
  /\ proc[p].op \in {"issue", "rotate"} /\ t = proc[p].new
  /\ Registry!Issue(t, proc[p].life)

WritesOld(p, t) ==
  /\ t = proc[p].old
  /\ \/ proc[p].op = "revoke" /\ Registry!Revoke(t)
     \/ proc[p].op = "supersede" /\ Registry!Supersede(t, proc[p].cut)

(* Until the first race a write adds one new token or changes one old one, *)
(* of a file nobody has changed since it was read.                         *)
LEMMA WriteIsOneStep ==
  ASSUME IInv, races = 0, NEW p \in Proc, Write(p)
  PROVE  \E t \in Token : WritesNew(p, t) \/ WritesOld(p, t)
<1>1. Solid /\ proc[p].pc = "write" /\ Busy(p) /\ proc[p] \in Place
  BY DEF IInv, TypeOK, Write, At, Busy, Critical
<1>2. proc[p].copy = file /\ file' = Mutated(p)
  BY <1>1 DEF Solid, CopyIsFile, Write
<1>3. proc[p].op \in {"issue", "revoke", "rotate", "supersede"}
  BY <1>1 DEF IInv, LocalsOK, Place
<1>4. CASE proc[p].op \in {"issue", "rotate"}
  <2>1. proc[p].new \in Token /\ file[proc[p].new] = None
    BY <1>1, <1>4 DEF IInv, LocalsOK, Draws, TypeOK, Solid, OnTheirWay, IssueOnItsWay, RotateOnItsWay
  <2>2. file' = [file EXCEPT ![proc[p].new] =
                   [life |-> proc[p].life, cut |-> Forever, revoked |-> FALSE]]
    BY <1>2, <1>4 DEF Mutated
  <2> QED
    BY <1>4, <2>1, <2>2 DEF WritesNew, Registry!Issue
<1>5. CASE proc[p].op \in {"revoke", "supersede"}
  <2>1. proc[p].old \in Token /\ file[proc[p].old] # None
    BY <1>1, <1>5 DEF IInv, LocalsOK, Solid, OnTheirWay, RevokeOnItsWay, SupersedeOnItsWay, Follows
  <2>2. /\ proc[p].op = "revoke" => file' = [file EXCEPT ![proc[p].old].revoked = TRUE]
        /\ proc[p].op = "supersede" => file' = [file EXCEPT ![proc[p].old].cut = proc[p].cut]
    BY <1>2, <1>5, <2>1 DEF Mutated
  <2> QED
    BY <1>5, <2>1, <2>2 DEF WritesOld, Registry!Revoke, Registry!Supersede
<1> QED
  BY <1>3, <1>4, <1>5

(* What such a step leaves of the records.                                 *)
LEMMA WriteKeepsRecords ==
  ASSUME IInv, races = 0, NEW p \in Proc, Write(p), NEW t \in Token,
         WritesNew(p, t) \/ WritesOld(p, t)
  PROVE  /\ \A u \in Token : u # t => file'[u] = file[u]
         /\ file'[t] # None
         /\ WritesNew(p, t) => /\ file[t] = None /\ file'[t].life = proc[p].life
                               /\ file'[t].cut = Forever
         /\ WritesOld(p, t) => /\ file[t] # None /\ file'[t].life = file[t].life
                               /\ file[t].revoked => file'[t].revoked
                               /\ file[t].cut # Forever => file'[t].cut # Forever
                               /\ proc[p].op = "revoke" => /\ file'[t].revoked
                                                           /\ file'[t].cut = file[t].cut
                               /\ proc[p].op = "supersede" => file'[t].cut # Forever
<1>1. /\ file \in [Token -> Record] /\ proc[p] \in Place
      /\ \A r \in Registry!Record : r # None
  BY RecordAssumption DEF IInv, TypeOK
<1>2. CASE WritesNew(p, t)
  <2> DEFINE r == [life |-> proc[p].life, cut |-> Forever, revoked |-> FALSE]
  <2>1. r \in Registry!Record
    BY <1>1 DEF Place, Registry!Record, Registry!Time
  <2>2. file[t] = None /\ file' = [file EXCEPT ![t] = r]
    BY <1>2 DEF WritesNew, Registry!Issue
  <2>3. ~WritesOld(p, t)
    BY <1>2 DEF WritesNew, WritesOld
  <2>4. r.life = proc[p].life /\ r.cut = Forever
    OBVIOUS
  <2> HIDE DEF r
  <2> QED
    BY <1>1, <2>1, <2>2, <2>3, <2>4
<1>3. CASE WritesOld(p, t)
  <2>1. file[t] # None /\ file[t] \in Registry!Record /\ ~WritesNew(p, t)
    BY <1>1, <1>3 DEF WritesNew, WritesOld, Registry!Revoke, Registry!Supersede, Record
  <2>2. CASE proc[p].op = "revoke"
    <3> DEFINE r == [file[t] EXCEPT !.revoked = TRUE]
    <3>1. file' = [file EXCEPT ![t] = r]
      BY <1>3, <2>2 DEF WritesOld, Registry!Revoke
    <3>2. r \in Registry!Record /\ r.life = file[t].life /\ r.cut = file[t].cut /\ r.revoked
      BY <2>1 DEF Registry!Record
    <3> HIDE DEF r
    <3> QED
      BY <1>1, <2>1, <2>2, <3>1, <3>2
  <2>3. CASE proc[p].op = "supersede"
    <3> DEFINE r == [file[t] EXCEPT !.cut = proc[p].cut]
    <3>1. file' = [file EXCEPT ![t] = r]
      BY <1>3, <2>3 DEF WritesOld, Registry!Supersede
    <3>2. proc[p].cut \in 0 .. MaxTime /\ proc[p].cut # Forever
      BY <2>3, IdentityAssumption DEF IInv, LocalsOK, Busy, Write, At, Critical
    <3>3. r \in Registry!Record
      BY <2>1, <3>2 DEF Registry!Record, Registry!Time
    <3>4. r.life = file[t].life /\ r.cut # Forever /\ (file[t].revoked => r.revoked)
      BY <2>1, <3>2 DEF Registry!Record
    <3> HIDE DEF r
    <3> QED
      BY <1>1, <2>1, <2>3, <3>1, <3>3, <3>4
  <2> QED
    BY <1>3, <2>2, <2>3 DEF WritesOld
<1> QED
  BY <1>2, <1>3

(* The atomic replacement of the store file.                               *)
LEMMA WriteKeeps ==
  ASSUME IInv, NEW p \in Proc, Write(p)
  PROVE  IInv'
<1> USE DEF IInv
<1> DEFINE s == [proc[p] EXCEPT !.pc = "release", !.copy = Empty]
<1>1. /\ proc \in [Proc -> Place] /\ \A q \in Proc : proc[q] \in Place
      /\ proc[p].pc = "write" /\ Busy(p)
      /\ UNCHANGED <<exists, lock, drawn, parent, reports, crashes, races>>
  BY DEF TypeOK, Write, At, Busy, Critical
<1>2. /\ s \in Place /\ s.pc = "release" /\ s.op = proc[p].op /\ s.old = proc[p].old
      /\ s.new = proc[p].new /\ s.cut = proc[p].cut
  BY <1>1, OffIsTyped DEF Place, Critical
<1>3. proc' = [proc EXCEPT ![p] = s]
  BY DEF Write
<1> HIDE DEF s
<1>4. /\ proc' \in [Proc -> Place] /\ proc'[p] = s
      /\ \A q \in Proc : q # p => proc'[q] = proc[q]
  BY <1>1, <1>2, <1>3
<1>5. \A q \in Proc : /\ Busy(q)' = Busy(q) /\ proc'[q].op = proc[q].op
                      /\ proc'[q].old = proc[q].old /\ proc'[q].new = proc[q].new
                      /\ proc'[q].cut = proc[q].cut
  BY <1>1, <1>2, <1>4 DEF Busy, Critical
<1>6. file' \in [Token -> Record]
  <2>1. proc[p].copy \in [Token -> Record] /\ proc[p].life \in Registry!Time /\ Forever \in Registry!Time
    BY <1>1 DEF Place, Registry!Time
  <2>2. [life |-> proc[p].life, cut |-> Forever, revoked |-> FALSE] \in Record
    BY <2>1 DEF Record, Registry!Record
  <2>3. ASSUME NEW t \in Token, proc[p].copy[t] # None
        PROVE  /\ [proc[p].copy[t] EXCEPT !.revoked = TRUE] \in Record
               /\ proc[p].cut \in Registry!Time => [proc[p].copy[t] EXCEPT !.cut = proc[p].cut] \in Record
    <3>1. proc[p].copy[t] \in Registry!Record
      BY <2>1, <2>3 DEF Record
    <3> QED
      BY <3>1 DEF Record, Registry!Record
  <2>4. /\ proc[p].op \notin {"issue", "rotate"} => proc[p].old \in Token
        /\ proc[p].op \notin {"issue", "rotate", "revoke"} => proc[p].cut \in Registry!Time
    BY <1>1 DEF LocalsOK, Place, Registry!Time
  <2>5. file' = Mutated(p)
    BY DEF Write
  <2>6. CASE proc[p].op \in {"issue", "rotate"}
    BY <2>1, <2>2, <2>5, <2>6 DEF Mutated
  <2>7. CASE proc[p].op \notin {"issue", "rotate"}
    <3> DEFINE c == proc[p].copy
               old == proc[p].old
    <3>1. \/ file' = c
          \/ c[old] # None /\ file' = [c EXCEPT ![old] = [@ EXCEPT !.revoked = TRUE]]
          \/ /\ c[old] # None /\ proc[p].op = "supersede"
             /\ file' = [c EXCEPT ![old] = [@ EXCEPT !.cut = proc[p].cut]]
      BY <2>5, <2>7 DEF Mutated
    <3> QED
      BY <2>1, <2>3, <2>4, <2>7, <3>1
  <2> QED
    BY <2>6, <2>7
<1>7. TypeOK'
  BY <1>1, <1>4, <1>6 DEF TypeOK, reports
<1>8. LocalsOK' /\ DrawnOnce'
  BY <1>1, <1>5 DEF LocalsOK, DrawnOnce, Draws
<1>9. ASSUME races' = 0
      PROVE  Solid'
  <2>1. Solid /\ races = 0
    BY <1>1, <1>9
  <2>2. PICK t \in Token : WritesNew(p, t) \/ WritesOld(p, t)
    BY <2>1, WriteIsOneStep
  <2>3. /\ \A u \in Token : u # t => file'[u] = file[u]
        /\ file'[t] # None
        /\ WritesNew(p, t) => /\ file[t] = None /\ file'[t].life = proc[p].life
                              /\ file'[t].cut = Forever
        /\ WritesOld(p, t) => /\ file[t] # None /\ file'[t].life = file[t].life
                              /\ file[t].revoked => file'[t].revoked
                              /\ file[t].cut # Forever => file'[t].cut # Forever
                              /\ proc[p].op = "revoke" => /\ file'[t].revoked
                                                          /\ file'[t].cut = file[t].cut
                              /\ proc[p].op = "supersede" => file'[t].cut # Forever
    BY <2>1, <2>2, WriteKeepsRecords
  <2>4. \A u \in Token : file[u] # None =>
          /\ file'[u] # None /\ file'[u].life = file[u].life
          /\ file[u].revoked => file'[u].revoked
          /\ file[u].cut # Forever => file'[u].cut # Forever
    BY <2>2, <2>3
  <2>5. HolderOnly'
    BY <1>1, <1>4, <2>1 DEF Solid, HolderOnly, Critical
  <2>6. CopyIsFile'
    <3>1. \A q \in Proc : proc[q].pc = "write" => q = p
      BY <1>1, <2>1 DEF Solid, HolderOnly, Critical
    <3> QED
      BY <1>2, <1>4, <3>1 DEF CopyIsFile
  <2>7. FileIsDrawn'
    <3>1. WritesNew(p, t) => t \in drawn
      BY <1>1 DEF WritesNew, LocalsOK, Draws
    <3> QED
      BY <1>1, <2>1, <2>2, <2>3, <3>1 DEF Solid, FileIsDrawn
  <2>8. ReportedIsDurable'
    <3>1. shown \subseteq Token /\ dropped \subseteq Token /\ replaced \subseteq Token
      BY DEF TypeOK
    <3> QED
      BY <1>1, <2>1, <2>4, <3>1 DEF Solid, ReportedIsDurable, reports
  <2>9. /\ proc[p].op = "issue" => IssueOnItsWay(p)
        /\ proc[p].op = "revoke" => RevokeOnItsWay(p)
        /\ proc[p].op = "rotate" => RotateOnItsWay(p)
        /\ proc[p].op = "supersede" => SupersedeOnItsWay(p)
    BY <1>1, <2>1 DEF Solid, OnTheirWay
  <2>10. SupersededHasSuccessor'
    <3> SUFFICES ASSUME NEW u \in Token, file'[u] # None, file'[u].cut # Forever
                 PROVE  \E c \in Token : /\ parent'[c] = u /\ file'[c] # None
                                         /\ file'[c].life = file'[u].life \/ file'[u].life = 0
      BY DEF SupersededHasSuccessor
    <3>1. CASE file[u] # None /\ file[u].cut # Forever
      <4>1. PICK c \in Token : /\ parent[c] = u /\ file[c] # None
                               /\ file[c].life = file[u].life \/ file[u].life = 0
        BY <2>1, <3>1 DEF Solid, SupersededHasSuccessor
      <4> QED
        BY <1>1, <2>4, <3>1, <4>1
    <3>2. CASE ~(file[u] # None /\ file[u].cut # Forever)
      <4>1. u = t
        BY <2>3, <3>2
      <4>2. WritesOld(p, t) /\ proc[p].op = "supersede" /\ u = proc[p].old
        BY <2>2, <2>3, <3>2, <4>1 DEF WritesOld
      <4>3. Follows(proc[p].new, u) /\ proc[p].new \in Token
        BY <1>1, <2>9, <4>2 DEF SupersedeOnItsWay, LocalsOK, Draws, TypeOK
      <4> QED
        BY <1>1, <2>4, <4>3 DEF Follows
    <3> QED
      BY <3>1, <3>2
  <2>11. OnTheirWay'
    <3> SUFFICES ASSUME NEW q \in Proc, Busy(q)'
                 PROVE  /\ proc'[q].op = "issue" => IssueOnItsWay(q)'
                        /\ proc'[q].op = "revoke" => RevokeOnItsWay(q)'
                        /\ proc'[q].op = "rotate" => RotateOnItsWay(q)'
                        /\ proc'[q].op = "supersede" => SupersedeOnItsWay(q)'
      BY DEF OnTheirWay
    <3>1. Busy(q)
      BY <1>5
    <3>2. /\ proc[q].op = "issue" => IssueOnItsWay(q)
          /\ proc[q].op = "revoke" => RevokeOnItsWay(q)
          /\ proc[q].op = "rotate" => RotateOnItsWay(q)
          /\ proc[q].op = "supersede" => SupersedeOnItsWay(q)
      BY <2>1, <3>1 DEF Solid, OnTheirWay
    <3>3. /\ Draws(q) => proc[q].new \in Token
          /\ proc[q].op # "issue" => proc[q].old \in Token
      BY <3>1 DEF LocalsOK, Draws, TypeOK
    <3>4. Draws(q) /\ q # p /\ file[proc[q].new] = None => file'[proc[q].new] = None
      <4>1. ASSUME Draws(q), q # p, file[proc[q].new] = None
            PROVE  proc[q].new # t
        <5>1. WritesNew(p, t) => Draws(p) /\ t = proc[p].new
          BY <1>1 DEF WritesNew, Draws
        <5> QED
          BY <2>2, <2>3, <4>1, <5>1 DEF DrawnOnce
      <4> QED
        BY <2>3, <3>3, <4>1
    <3> USE DEF IssueOnItsWay, RevokeOnItsWay, RotateOnItsWay, SupersedeOnItsWay, Follows
    <3>5. CASE q # p
      <4>1. proc'[q] = proc[q] /\ parent' = parent
        BY <1>1, <1>4, <3>5
      <4>2. proc[q].op \in {"issue", "rotate", "supersede"} => Draws(q)
        BY <3>1 DEF Draws
      <4> QED
        BY <2>4, <3>2, <3>3, <3>4, <3>5, <4>1, <4>2
    <3>6. CASE q = p
      <4>1. /\ proc'[p] = s /\ s.pc = "release" /\ parent' = parent /\ s.op = proc[p].op
            /\ s.old = proc[p].old /\ s.new = proc[p].new
        BY <1>1, <1>2, <1>4
      <4>2. CASE WritesNew(p, t)
        <5>1. t = proc[p].new /\ proc[p].op \in {"issue", "rotate"}
          BY <4>2 DEF WritesNew
        <5>2. CASE proc[p].op = "issue"
          BY <2>3, <3>6, <4>1, <5>1, <5>2
        <5>3. CASE proc[p].op = "rotate"
          <6>1. /\ parent[t] = proc[p].old /\ file[proc[p].old] # None
                /\ proc[p].life = file[proc[p].old].life \/ file[proc[p].old].life = 0
            BY <1>1, <2>9, <5>1, <5>3
          <6>2. proc[p].old \in Token
            BY <3>3, <3>6, <5>3
          <6> QED
            BY <2>3, <2>4, <3>6, <4>1, <4>2, <5>1, <5>3, <6>1, <6>2
        <5> QED
          BY <5>1, <5>2, <5>3
      <4>3. CASE WritesOld(p, t)
        <5>1. t = proc[p].old /\ proc[p].op \in {"revoke", "supersede"}
          BY <4>3 DEF WritesOld
        <5>2. CASE proc[p].op = "revoke"
          BY <2>3, <3>6, <4>1, <4>3, <5>1, <5>2
        <5>3. CASE proc[p].op = "supersede"
          <6>1. Follows(proc[p].new, t) /\ proc[p].new \in Token
            BY <2>9, <3>1, <3>3, <3>6, <5>1, <5>3 DEF Draws
          <6>2. file'[t].cut # Forever
            BY <2>3, <4>3, <5>3
          <6> QED
            BY <2>4, <3>6, <4>1, <5>1, <5>3, <6>1, <6>2
        <5> QED
          BY <5>1, <5>2, <5>3
      <4> QED
        BY <2>2, <4>2, <4>3
    <3> QED
      BY <3>5, <3>6
  <2> QED
    BY <2>5, <2>6, <2>7, <2>8, <2>10, <2>11 DEF Solid
<1> QED
  BY <1>7, <1>8, <1>9

-----------------------------------------------------------------------------
(* A tick before a time is a time, no later, and keeps `never`.            *)
LEMMA SoonerIsTime ==
  ASSUME NEW t \in Registry!Time
  PROVE  /\ Registry!Sooner(t) \in Registry!Time
         /\ t = 0 => Registry!Sooner(t) = 0
         /\ t # Forever => Registry!Sooner(t) # Forever
         /\ t \in 0 .. MaxTime => Registry!Sooner(t) \in 0 .. MaxTime
BY IdentityAssumption DEF Registry!Time, Registry!Sooner

(* An aged record is a record with its fields but for the life that is     *)
(* left.                                                                   *)
LEMMA OlderIsRecord ==
  ASSUME NEW r \in Record, NEW o, o = Registry!Older(r)
  PROVE  /\ o \in Record /\ (o = None <=> r = None)
         /\ r # None => /\ o.life = Registry!Sooner(r.life)
                        /\ o.life = 0 \/ r.life # 0
                        /\ o.revoked = r.revoked
                        /\ r.cut # Forever <=> o.cut # Forever
<1>1. CASE r = None
  BY <1>1 DEF Registry!Older, Record
<1>2. CASE r # None
  <2>1. /\ r \in Registry!Record
        /\ o = [r EXCEPT !.life = Registry!Sooner(@), !.cut = Registry!Sooner(@)]
    BY <1>2 DEF Record, Registry!Older
  <2>2. r.life \in Registry!Time /\ r.cut \in Registry!Time
    BY <2>1 DEF Registry!Record
  <2>3. /\ Registry!Sooner(r.life) \in Registry!Time /\ Registry!Sooner(r.cut) \in Registry!Time
        /\ r.life = 0 => Registry!Sooner(r.life) = 0
        /\ r.cut # Forever <=> Registry!Sooner(r.cut) # Forever
    BY <2>2, SoonerIsTime DEF Registry!Sooner
  <2>4. /\ o.life = Registry!Sooner(r.life) /\ o.cut = Registry!Sooner(r.cut)
        /\ o.revoked = r.revoked
    BY <2>1 DEF Registry!Record
  <2>5. o \in Registry!Record
    BY <2>1, <2>3 DEF Registry!Record
  <2> QED
    BY <1>2, <2>3, <2>4, <2>5, RecordAssumption DEF Record
<1> QED
  BY <1>1, <1>2

(* Time passes for the file, the lock and what calls have read alike.      *)
LEMMA TickKeeps ==
  ASSUME IInv, Tick
  PROVE  IInv'
<1> USE DEF IInv
<1>1. /\ UNCHANGED <<exists, drawn, parent, reports, crashes, races>>
      /\ lock' = IF lock.there THEN [lock EXCEPT !.age = Later(@, Stale)] ELSE lock
      /\ file' = [t \in Token |-> Registry!Older(file[t])]
      /\ file \in [Token -> Record]
  BY DEF Tick, TypeOK
<1>2. ASSUME NEW t \in Token
      PROVE  /\ file'[t] \in Record /\ (file'[t] = None <=> file[t] = None)
             /\ file[t] # None => /\ file'[t].life = Registry!Sooner(file[t].life)
                                  /\ file[t].life = 0 => file'[t].life = 0
                                  /\ file'[t].revoked = file[t].revoked
                                  /\ file[t].cut # Forever <=> file'[t].cut # Forever
  <2>1. file'[t] = Registry!Older(file[t]) /\ file[t] \in Record
    BY <1>1
  <2> QED
    BY <2>1, OlderIsRecord
<1>3. ASSUME NEW p \in Proc
      PROVE  /\ proc[p] \in Place /\ proc'[p] \in Place
             /\ proc'[p].pc = proc[p].pc /\ proc'[p].op = proc[p].op
             /\ proc'[p].old = proc[p].old /\ proc'[p].new = proc[p].new
             /\ proc'[p].life = Registry!Sooner(proc[p].life)
             /\ proc'[p].copy = [t \in Token |-> Registry!Older(proc[p].copy[t])]
             /\ proc'[p].cut = IF proc[p].cut = Invalid \/ proc[p].op = "rotate" THEN proc[p].cut
                               ELSE Registry!Sooner(proc[p].cut)
  <2> DEFINE copy == [t \in Token |-> Registry!Older(proc[p].copy[t])]
             cut == IF proc[p].cut = Invalid \/ proc[p].op = "rotate" THEN proc[p].cut
                    ELSE Registry!Sooner(proc[p].cut)
             wait == IF proc[p].pc \in {"acquire", "break"} THEN Later(proc[p].wait, Timeout)
                     ELSE proc[p].wait
             s == [proc[p] EXCEPT !.life = Registry!Sooner(@), !.cut = cut,
                                  !.copy = copy, !.wait = wait]
  <2>1. proc[p] \in Place /\ proc'[p] = s
    BY DEF TypeOK, Tick
  <2>2. /\ Registry!Sooner(proc[p].life) \in Registry!Time
        /\ cut \in Registry!Time \cup {Invalid}
    BY <2>1, SoonerIsTime DEF Place
  <2>3. copy \in [Token -> Record]
    <3>1. proc[p].copy \in [Token -> Record]
      BY <2>1 DEF Place
    <3> QED
      BY <3>1, OlderIsRecord
  <2>4. wait \in 0 .. Timeout + 1
    BY <2>1, IdentityAssumption DEF Place, Later
  <2> HIDE DEF cut, copy, wait
  <2>5. s \in Place
    BY <2>1, <2>2, <2>3, <2>4 DEF Place
  <2>6. /\ s.pc = proc[p].pc /\ s.op = proc[p].op /\ s.old = proc[p].old
        /\ s.new = proc[p].new /\ s.life = Registry!Sooner(proc[p].life)
        /\ s.copy = copy /\ s.cut = cut
    BY <2>1 DEF Place
  <2> QED
    BY <2>1, <2>5, <2>6 DEF copy, cut
<1>4. TypeOK'
  <2>1. lock' \in [owner : Proc \cup {None}, age : 0 .. Stale + 1, there : BOOLEAN]
    <3>1. lock \in [owner : Proc \cup {None}, age : 0 .. Stale + 1, there : BOOLEAN]
      BY DEF TypeOK
    <3>2. lock.age \in 0 .. Stale + 1 /\ Later(lock.age, Stale) \in 0 .. Stale + 1
      BY <3>1, IdentityAssumption DEF Later
    <3> QED
      BY <1>1, <3>1, <3>2
  <2>2. file' \in [Token -> Record]
    BY <1>1, <1>2
  <2>3. proc' \in [Proc -> Place]
    <3>1. proc' = [p \in Proc |-> proc'[p]]
      BY DEF Tick
    <3> QED
      BY <1>3, <3>1
  <2> QED
    BY <1>1, <2>1, <2>2, <2>3 DEF TypeOK, reports
<1>5. LocalsOK' /\ DrawnOnce'
  <2>1. LocalsOK'
    <3> SUFFICES ASSUME NEW p \in Proc, Busy(p)'
                 PROVE  /\ proc'[p].op # "none"
                        /\ Draws(p)' => proc'[p].new \in drawn'
                        /\ ~(proc'[p].op = "issue") => proc'[p].old \in Token
                        /\ proc'[p].op = "rotate" => proc'[p].cut # Forever
                        /\ proc'[p].op = "supersede" => proc'[p].cut \in 0 .. MaxTime
      BY DEF LocalsOK
    <3>1. Busy(p) /\ (Draws(p)' => Draws(p))
      BY <1>3 DEF Busy, Draws
    <3>2. /\ proc[p].op # "none"
          /\ Draws(p) => proc[p].new \in drawn
          /\ ~(proc[p].op = "issue") => proc[p].old \in Token
          /\ proc[p].op = "rotate" => proc[p].cut # Forever
          /\ proc[p].op = "supersede" => proc[p].cut \in 0 .. MaxTime
      BY <3>1 DEF LocalsOK
    <3>3. proc'[p].op = "supersede" => proc'[p].cut \in 0 .. MaxTime
      <4>1. \A t \in 0 .. MaxTime : t \in Registry!Time /\ t # Invalid
        BY IdentityAssumption DEF Registry!Time
      <4> QED
        BY <1>3, <3>2, <4>1, SoonerIsTime
    <3> QED
      BY <1>1, <1>3, <3>1, <3>2, <3>3
  <2>2. \A p \in Proc : (Draws(p)' => Draws(p)) /\ proc'[p].new = proc[p].new
    BY <1>3 DEF Draws, Busy
  <2>3. DrawnOnce'
    BY <2>2 DEF DrawnOnce
  <2> QED
    BY <2>1, <2>3
<1>6. ASSUME races' = 0
      PROVE  Solid'
  <2>1. Solid
    BY <1>1, <1>6
  <2>2. HolderOnly'
    <3>1. lock'.there = lock.there /\ lock'.owner = lock.owner
      BY <1>1 DEF TypeOK
    <3> QED
      BY <1>3, <2>1, <3>1 DEF Solid, HolderOnly
  <2>3. CopyIsFile'
    BY <1>1, <1>3, <2>1 DEF Solid, CopyIsFile
  <2>4. FileIsDrawn'
    BY <1>1, <1>2, <2>1 DEF Solid, FileIsDrawn
  <2>5. ReportedIsDurable'
    <3>1. shown \subseteq Token /\ dropped \subseteq Token /\ replaced \subseteq Token
      BY DEF TypeOK
    <3> QED
      BY <1>1, <1>2, <2>1, <3>1 DEF Solid, ReportedIsDurable, reports
  <2>6. ASSUME NEW c \in Token, NEW t \in Token, file[c] # None, file[t] # None,
               file[c].life = file[t].life \/ file[t].life = 0
        PROVE  /\ file'[c] # None /\ file'[t] # None
               /\ file'[c].life = file'[t].life \/ file'[t].life = 0
    BY <1>2, <2>6
  <2>7. SupersededHasSuccessor'
    <3> SUFFICES ASSUME NEW t \in Token, file'[t] # None, file'[t].cut # Forever
                 PROVE  \E c \in Token : /\ parent'[c] = t /\ file'[c] # None
                                         /\ file'[c].life = file'[t].life \/ file'[t].life = 0
      BY DEF SupersededHasSuccessor
    <3>1. file[t] # None /\ file[t].cut # Forever
      BY <1>2
    <3>2. PICK c \in Token : /\ parent[c] = t /\ file[c] # None
                             /\ file[c].life = file[t].life \/ file[t].life = 0
      BY <2>1, <3>1 DEF Solid, SupersededHasSuccessor
    <3> QED
      BY <1>1, <2>6, <3>1, <3>2
  <2>8. OnTheirWay'
    <3> SUFFICES ASSUME NEW p \in Proc, Busy(p)'
                 PROVE  /\ proc'[p].op = "issue" => IssueOnItsWay(p)'
                        /\ proc'[p].op = "revoke" => RevokeOnItsWay(p)'
                        /\ proc'[p].op = "rotate" => RotateOnItsWay(p)'
                        /\ proc'[p].op = "supersede" => SupersedeOnItsWay(p)'
      BY DEF OnTheirWay
    <3>1. Busy(p)
      BY <1>3 DEF Busy
    <3>2. /\ proc[p].op = "issue" => IssueOnItsWay(p)
          /\ proc[p].op = "revoke" => RevokeOnItsWay(p)
          /\ proc[p].op = "rotate" => RotateOnItsWay(p)
          /\ proc[p].op = "supersede" => SupersedeOnItsWay(p)
      BY <2>1, <3>1 DEF Solid, OnTheirWay
    <3>3. /\ proc[p].op \in {"issue", "rotate", "supersede"} => proc[p].new \in Token
          /\ ~(proc[p].op = "issue") => proc[p].old \in Token
      BY <3>1 DEF LocalsOK, Draws, TypeOK
    <3>4. proc'[p].op = "issue" => IssueOnItsWay(p)'
      BY <1>2, <1>3, <3>2, <3>3 DEF IssueOnItsWay
    <3>5. proc'[p].op = "revoke" => RevokeOnItsWay(p)'
      <4> SUFFICES ASSUME proc[p].op = "revoke"
                   PROVE  RevokeOnItsWay(p)'
        BY <1>3
      <4>1. proc[p].old \in Token /\ RevokeOnItsWay(p)
        BY <3>2, <3>3
      <4>2. proc'[p].old = proc[p].old /\ proc'[p].pc = proc[p].pc
        BY <1>3
      <4> HIDE DEF IInv
      <4>3. /\ file'[proc[p].old] # None
            /\ file'[proc[p].old].revoked = file[proc[p].old].revoked
        BY <1>2, <4>1 DEF RevokeOnItsWay
      <4> QED
        BY <4>1, <4>2, <4>3 DEF RevokeOnItsWay
    <3>6. ASSUME NEW c \in Token, NEW t \in Token, Follows(c, t)
          PROVE  Follows(c, t)'
      BY <1>1, <2>6, <3>6 DEF Follows
    <3>7. proc'[p].op = "rotate" => RotateOnItsWay(p)'
      <4> SUFFICES ASSUME proc[p].op = "rotate"
                   PROVE  RotateOnItsWay(p)'
        BY <1>3
      <4>1. CASE proc[p].pc = "release"
        BY <1>3, <3>2, <3>3, <3>6, <4>1 DEF RotateOnItsWay
      <4>2. CASE proc[p].pc # "release"
        <5>1. /\ parent[proc[p].new] = proc[p].old
              /\ file[proc[p].new] = None /\ file[proc[p].old] # None
              /\ proc[p].life = file[proc[p].old].life \/ file[proc[p].old].life = 0
          BY <3>2, <4>2 DEF RotateOnItsWay
        <5>2. /\ file'[proc[p].new] = None /\ file'[proc[p].old] # None
              /\ Registry!Sooner(proc[p].life) = file'[proc[p].old].life
                   \/ file'[proc[p].old].life = 0
          BY <1>2, <3>3, <5>1
        <5> QED
          BY <1>1, <1>3, <4>2, <5>1, <5>2 DEF RotateOnItsWay
      <4> QED
        BY <4>1, <4>2
    <3>8. proc'[p].op = "supersede" => SupersedeOnItsWay(p)'
      <4> SUFFICES ASSUME proc[p].op = "supersede"
                   PROVE  SupersedeOnItsWay(p)'
        BY <1>3
      <4>1. /\ Follows(proc[p].new, proc[p].old)
            /\ proc[p].pc = "release" => file[proc[p].old].cut # Forever
        BY <3>2 DEF SupersedeOnItsWay
      <4>2. Follows(proc[p].new, proc[p].old)' /\ file[proc[p].old] # None
        <5>1. /\ proc'[p].new = proc[p].new /\ proc'[p].old = proc[p].old
              /\ proc[p].new \in Token /\ proc[p].old \in Token
          BY <1>3, <3>3
        <5>2. /\ file'[proc[p].new] # None /\ file'[proc[p].old] # None
              /\ file'[proc[p].new].life = file'[proc[p].old].life
                   \/ file'[proc[p].old].life = 0
          BY <2>6, <4>1, <5>1 DEF Follows
        <5> QED
          BY <1>1, <4>1, <5>1, <5>2 DEF Follows
      <4>3. proc'[p].pc = "release" => file'[proc'[p].old].cut # Forever
        BY <1>2, <1>3, <3>3, <4>1, <4>2
      <4> QED
        BY <1>3, <4>2, <4>3 DEF SupersedeOnItsWay
    <3> QED
      BY <3>4, <3>5, <3>7, <3>8
  <2> QED
    BY <2>2, <2>3, <2>4, <2>5, <2>7, <2>8 DEF Solid
<1> QED
  BY <1>4, <1>5, <1>6

-----------------------------------------------------------------------------
(* The invariant holds at the start.                                       *)
LEMMA InitIsGood == Init => IInv
<1> SUFFICES ASSUME Init PROVE IInv
  OBVIOUS
<1> USE DEF Init
<1>1. proc \in [Proc -> Place] /\ \A p \in Proc : proc[p].pc = "idle"
  BY OffIsTyped
<1>2. TypeOK
  <2>1. /\ file \in [Token -> Record] /\ parent \in [Token -> Token \cup {None}]
        /\ lock \in [owner : Proc \cup {None}, age : 0 .. Stale + 1, there : BOOLEAN]
    BY OffIsTyped
  <2>2. crashes \in 0 .. MaxCrashes /\ races \in 0 .. MaxRaces
    BY IdentityAssumption
  <2> QED
    BY <1>1, <2>1, <2>2 DEF TypeOK
<1>3. LocalsOK /\ DrawnOnce
  BY <1>1 DEF LocalsOK, DrawnOnce, Draws, Busy, Critical
<1>4. HolderOnly /\ CopyIsFile /\ OnTheirWay
  BY <1>1 DEF HolderOnly, CopyIsFile, OnTheirWay, Busy, Critical
<1>5. FileIsDrawn /\ ReportedIsDurable /\ SupersededHasSuccessor
  BY DEF FileIsDrawn, ReportedIsDurable, SupersededHasSuccessor, Empty
<1> QED
  BY <1>2, <1>3, <1>4, <1>5 DEF IInv, Solid

(* Every step keeps the invariant.                                         *)
LEMMA NextIsGood == IInv /\ [Next]_vars => IInv'
<1> SUFFICES ASSUME IInv, [Next]_vars PROVE IInv'
  OBVIOUS
<1>1. CASE Tick
  BY <1>1, TickKeeps
<1>2. ASSUME NEW p \in Proc, Start(p) \/ Step(p) \/ Crash(p)
      PROVE  IInv'
  BY <1>2, OutsideKeeps, LockKeeps, ReleaseKeeps, CallsKeep, WriteKeeps DEF Step
<1>3. CASE UNCHANGED vars
  <2>1. /\ TypeOK' /\ LocalsOK' /\ DrawnOnce'
    BY <1>3 DEF vars, reports, IInv, TypeOK, LocalsOK, DrawnOnce, Draws, Busy
  <2>2. races = 0 => Solid'
    BY <1>3 DEF vars, reports, IInv, Solid, HolderOnly, CopyIsFile, FileIsDrawn, OnTheirWay, Busy,
                IssueOnItsWay, RevokeOnItsWay, RotateOnItsWay, SupersedeOnItsWay, Follows,
                ReportedIsDurable, SupersededHasSuccessor
  <2> QED
    BY <1>3, <2>1, <2>2 DEF vars, IInv
<1> QED
  BY <1>1, <1>2, <1>3 DEF Next

(* The invariant that the theorems below are read off.                     *)
THEOREM IdentityInvariant == Spec => []IInv
<1>1. Init => IInv
  BY InitIsGood
<1>2. IInv /\ [Next]_vars => IInv'
  BY NextIsGood
<1> QED
  BY <1>1, <1>2, PTL DEF Spec

(* The file, the lock and the processes keep their types.                  *)
THEOREM IdentityTypeCorrect == Spec => []TypeOK
<1>1. IInv => TypeOK
  BY DEF IInv
<1> QED
  BY <1>1, IdentityInvariant, PTL

(* Until the first race no two calls are between acquiring the lock file   *)
(* and releasing it, whatever crashed calls have left there.               *)
OneAtATime == \A p, q \in Proc : proc[p].pc \in Critical /\ proc[q].pc \in Critical => p = q

(* Until the first race the lock file does what it is there for.           *)
THEOREM LockExcludes == Spec => [](races = 0 => OneAtATime)
<1>1. IInv => (races = 0 => OneAtATime)
  BY DEF IInv, Solid, HolderOnly, OneAtATime
<1> QED
  BY <1>1, IdentityInvariant, PTL

(* Until the first race nothing that a call has reported is lost.          *)
THEOREM ReportsAreDurable == Spec => [](races = 0 => ReportedIsDurable)
<1>1. IInv => (races = 0 => ReportedIsDurable)
  BY DEF IInv, Solid
<1> QED
  BY <1>1, IdentityInvariant, PTL

(* Until the first race no token is cut off without a successor in the     *)
(* file that has what was left of its life.                                *)
THEOREM SuccessorsAreThere == Spec => [](races = 0 => SupersededHasSuccessor)
<1>1. IInv => (races = 0 => SupersededHasSuccessor)
  BY DEF IInv, Solid
<1> QED
  BY <1>1, IdentityInvariant, PTL

-----------------------------------------------------------------------------
(* Refinement: a step that is no race is one step of the table, or none.   *)
LEMMA StepImplements ==
  ASSUME IInv, [Next]_vars, races' = 0
  PROVE  [Registry!Next]_file
<1>1. CASE Tick
  BY <1>1 DEF Tick, Registry!Next, Registry!Age
<1>2. ASSUME NEW p \in Proc, Write(p)
      PROVE  Registry!Next
  <2>1. races = 0 /\ Busy(p) /\ proc[p] \in Place
    BY <1>2 DEF Write, At, Busy, Critical, IInv, TypeOK
  <2>2. PICK t \in Token : WritesNew(p, t) \/ WritesOld(p, t)
    BY <1>2, <2>1, WriteIsOneStep
  <2>3. CASE WritesNew(p, t)
    BY <2>1, <2>3 DEF WritesNew, Place, Registry!Next
  <2>4. CASE WritesOld(p, t)
    <3>1. proc[p].op = "supersede" => proc[p].cut \in Registry!Time
      BY <2>1 DEF IInv, LocalsOK, Registry!Time
    <3> QED
      BY <2>4, <3>1 DEF WritesOld, Registry!Next
  <2> QED
    BY <2>2, <2>3, <2>4
<1>3. ASSUME NEW p \in Proc, Make(p)
      PROVE  file' = file
  BY <1>3 DEF Make, Race, IInv, TypeOK
<1>4. ASSUME NEW p \in Proc, Start(p) \/ Step(p) \/ Crash(p), ~Write(p), ~Make(p)
      PROVE  file' = file
  BY <1>4 DEF Step, Start, Crash, LookAgain, Unknown, Revoke, Issue, Rotate, Request, Acquire,
              FindStale, Break, GiveUp, Read, Release
<1>5. CASE UNCHANGED vars
  BY <1>5 DEF vars
<1> QED
  BY <1>1, <1>2, <1>3, <1>4, <1>5 DEF Next

(* Where no race happens, the files, locks and processes implement the     *)
(* table that TokenRegistry promises.                                      *)
THEOREM FileIsTheTable ==
  ASSUME MaxRaces = 0
  PROVE  Spec => ImplementsRegistry
<1>1. Init => Registry!Init
  BY DEF Init, Registry!Init, Empty
<1>2. IInv /\ IInv' /\ [Next]_vars => [Registry!Next]_file
  <2> SUFFICES ASSUME IInv, IInv', [Next]_vars PROVE [Registry!Next]_file
    OBVIOUS
  <2>1. races' \in 0 .. MaxRaces
    BY DEF IInv, TypeOK
  <2>2. races' = 0
    BY <2>1
  <2> QED
    BY <2>2, StepImplements
<1> QED
  BY <1>1, <1>2, IdentityInvariant, PTL DEF Spec, ImplementsRegistry, Registry!Spec
=============================================================================
