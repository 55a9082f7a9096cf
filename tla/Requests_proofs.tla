---------------------------- MODULE Requests_proofs ----------------------------
(***************************************************************************)
(* Proofs about what a request goes through before its handler runs        *)
(* (RequestGate) and about the reads of a list that follow (ListPages),    *)
(* for all values of the constants of both.                                *)
(***************************************************************************)
EXTENDS RequestGate, ListPages, FiniteSetTheorems, TLAPS

-------------------------------------------------------------------------------
(***************************************************************************)
(* The gates.  What a request has been through is spread over them, so the *)
(* inductive invariant says of every stage what the gates passed so far    *)
(* were worth (Passed), what a reply that has come says of them (Heard),   *)
(* and that the history follows the authorities (Watching).                *)
(***************************************************************************)

AskedOf(t) == t.user \in User /\ t.tenant \in Tenant

\* The gates that lie before stage pc; the handler is behind all of them.
Behind(pc) ==
    CASE pc = "token"        -> {}
      [] pc = "membership"   -> {"token"}
      [] pc = "permission"   -> {"token", "membership"}
      [] pc = "installation" -> {"token", "membership", "permission"}
      [] OTHER               -> Gate

\* Gate g has let a request with history h through for a reason.
Warranted(h, g) == g \in h.open \/ (g \in Permission /\ env.allowMissing /\ g \in h.absent)

Passed(w) ==
    task[w].pc # "idle" =>
        \A g \in Needed(task[w]) \cap Behind(task[w].pc) : Warranted(seen[w], g)

Heard(w) ==
    LET t == task[w] IN
    t.reply # "none" =>
        /\ t.pc \in Remote
        /\ t.reply = "yes" => t.pc \in seen[w].open
        /\ t.reply = "no" => t.pc \in seen[w].shut
        /\ t.reply = "missing" => t.pc \in seen[w].absent
        /\ t.reply \in {"missing", "broken"} => seen[w].lost

Watching(w) ==
    task[w].pc # "idle" =>
        /\ Open(task[w].user, task[w].tenant) \subseteq seen[w].open
        /\ Gate \ Open(task[w].user, task[w].tenant) \subseteq seen[w].shut

\* A request stands at gates of its own only.
InPlace(w) ==
    task[w].pc # "idle" =>
        /\ AskedOf(task[w])
        /\ task[w].pc # "handler" => task[w].pc \in Needed(task[w])

Sound(w) == Passed(w) /\ Heard(w) /\ Watching(w) /\ InPlace(w)

IInv == TypeOK /\ \A w \in Worker : Sound(w)

-------------------------------------------------------------------------------

\* The query of the membership gate says whom the tenant is open to, in its owner's terms.
LEMMA QueryIsReach ==
    ASSUME TypeOK, NEW u \in User, NEW t \in Tenant
    PROVE  AllowQuery(u, t) <=> Reaches(u, t)
<1>1. /\ Global \notin Tenant
      /\ NoAgency \notin Agency
  BY ConstantsAssumption
<1>2. \A m \in members : m \in Membership
  BY DEF TypeOK
<1>3. agency[u] \in Agency \cup {NoAgency} /\ agency[t] \in Agency \cup {NoAgency}
  BY DEF TypeOK
<1>4. ASSUME AllowQuery(u, t) PROVE Reaches(u, t)
  <2>1. PICK m \in members : /\ m.user = u
                             /\ \/ m.tenant = t
                                \/ m.tenant = Global /\ m.role = "evolution_admin"
                                \/ m.tenant = Global /\ SameAgency(u, t)
    BY <1>4 DEF AllowQuery
  <2>2. \/ m.tenant = t /\ m = [user |-> u, tenant |-> t, role |-> "team"]
        \/ m.tenant = Global /\ m = [user |-> u, tenant |-> Global, role |-> "evolution_admin"]
        \/ m.tenant = Global /\ m = [user |-> u, tenant |-> Global, role |-> "team"]
    BY <1>1, <1>2, <2>1 DEF Membership
  <2>3. CASE m.tenant = t
    BY <1>1, <2>1, <2>2, <2>3 DEF Reaches
  <2>4. CASE m.tenant = Global /\ m.role = "evolution_admin"
    BY <1>1, <2>1, <2>2, <2>4 DEF Reaches
  <2>5. CASE m.tenant = Global /\ SameAgency(u, t)
    <3>1. \E a \in Agency : agency[u] = a /\ agency[t] = a
      BY <1>3, <2>5 DEF SameAgency
    <3> QED
      BY <1>1, <2>1, <2>2, <2>5, <3>1 DEF Reaches
  <2> QED
    BY <2>1, <2>3, <2>4, <2>5
<1>5. ASSUME Reaches(u, t) PROVE AllowQuery(u, t)
  <2>1. (\E a \in Agency : agency[u] = a /\ agency[t] = a) => SameAgency(u, t)
    BY <1>1 DEF SameAgency
  <2> QED
    BY <1>5, <2>1 DEF Reaches, AllowQuery
<1> QED
  BY <1>4, <1>5

THEOREM InitSound == Init => IInv
<1> SUFFICES ASSUME Init PROVE IInv
  OBVIOUS
<1>1. TypeOK
  BY DEF Init, TypeOK, Task, Idle, History, Nothing
<1>2. \A w \in Worker : Sound(w)
  BY DEF Init, Idle, Sound, Passed, Heard, Watching, InPlace
<1> QED
  BY <1>1, <1>2 DEF IInv
-------------------------------------------------------------------------------

LEMMA NoteTyped ==
    ASSUME TypeOK, Note
    PROVE  seen' \in [Worker -> History]
<1>1. ASSUME NEW w \in Worker, task[w].pc # "idle" PROVE seen'[w] \in History
  <2> DEFINE open == Open(task[w].user, task[w].tenant)'
  <2>1. open \subseteq Gate
    BY DEF Open, Gate, Remote, Permission
  <2>2. seen'[w] = [seen[w] EXCEPT !.open = @ \cup open, !.shut = @ \cup (Gate \ open)]
    BY <1>1 DEF Note
  <2> HIDE DEF open
  <2>3. seen[w] \in History
    BY DEF TypeOK
  <2> QED
    BY <2>1, <2>2, <2>3 DEF History
<1>2. ASSUME NEW w \in Worker, task[w].pc = "idle" PROVE seen'[w] \in History
  BY <1>2 DEF Note, TypeOK
<1>3. seen' = [w \in Worker |-> seen'[w]]
  BY DEF Note
<1> HIDE DEF Note
<1> QED
  BY <1>1, <1>2, <1>3

LEMMA TypeStep ==
    ASSUME TypeOK, [Next]_vars
    PROVE  TypeOK'
<1> USE DEF TypeOK
<1>1. ASSUME NEW u \in User, Regrant(u) PROVE TypeOK'
  <2>1. granted' \in [User -> SUBSET Remote]
    BY <1>1 DEF Regrant
  <2>2. seen' \in [Worker -> History]
    BY <1>1, NoteTyped DEF Regrant
  <2> QED
    BY <1>1, <2>1, <2>2 DEF Regrant
<1>2. ASSUME Enrol PROVE TypeOK'
  <2>1. members' \in SUBSET Membership
    BY <1>2 DEF Enrol
  <2>2. seen' \in [Worker -> History]
    BY <1>2, NoteTyped DEF Enrol
  <2> QED
    BY <1>2, <2>1, <2>2 DEF Enrol
<1>3. ASSUME NEW w \in Worker, NEW u \in User, NEW t \in Tenant, NEW i \in BOOLEAN,
             Arrive(w, u, t, i)
      PROVE  TypeOK'
  <2>1. Open(u, t) \subseteq Gate
    BY DEF Open, Gate, Remote, Permission
  <2>2. seen' \in [Worker -> History]
    BY <1>3, <2>1 DEF Arrive, History, Nothing
  <2>3. task' \in [Worker -> Task]
    BY <1>3 DEF Arrive, Task, Gate, Remote
  <2> QED
    BY <1>3, <2>2, <2>3 DEF Arrive
<1>4. ASSUME NEW w \in Worker, Judge(w) PROVE TypeOK'
  <2>1. PICK reply \in Reply :
          /\ task' = [task EXCEPT ![w].reply = reply]
          /\ seen' = [seen EXCEPT
                ![w].lost = @ \/ reply \in {"missing", "broken"},
                ![w].absent = IF reply = "missing" THEN @ \cup {task[w].pc} ELSE @]
    BY <1>4 DEF Judge
  <2>2. task[w].pc \in Gate
    BY <1>4 DEF Judge, Gate
  <2>3. task' \in [Worker -> Task]
    <3>1. [task[w] EXCEPT !.reply = reply] \in Task
      BY DEF Task
    <3> QED
      BY <2>1, <3>1
  <2>4. seen' \in [Worker -> History]
    <3> DEFINE lost == seen[w].lost \/ reply \in {"missing", "broken"}
               absent == IF reply = "missing" THEN seen[w].absent \cup {task[w].pc}
                         ELSE seen[w].absent
    <3>0. seen[w] \in History
      OBVIOUS
    <3>1. lost \in BOOLEAN
      OBVIOUS
    <3>2. absent \in SUBSET Gate
      BY <2>2, <3>0 DEF History
    <3>3. seen' = [seen EXCEPT ![w] = [seen[w] EXCEPT !.lost = lost, !.absent = absent]]
      BY <2>1
    <3> HIDE DEF lost, absent
    <3>4. [seen[w] EXCEPT !.lost = lost, !.absent = absent] \in History
      BY <3>0, <3>1, <3>2 DEF History
    <3> QED
      BY <3>3, <3>4
  <2> QED
    BY <1>4, <2>3, <2>4 DEF Judge
<1>5. ASSUME NEW w \in Worker, Abort(w) PROVE task' \in [Worker -> Task]
  BY <1>5 DEF Abort, Idle, Task
<1>6. ASSUME NEW w \in Worker, Proceed(w) PROVE task' \in [Worker -> Task]
  <2>1. After(task[w]) \in Gate \cup {"handler"}
    BY DEF After, Gate, Remote, Permission
  <2> DEFINE next == After(task[w])
  <2>2. [task[w] EXCEPT !.pc = After(task[w]), !.reply = "none"] \in Task
    <3>1. task[w] \in Task /\ next \in Gate \cup {"handler"}
      BY <2>1
    <3> HIDE DEF next
    <3>2. [task[w] EXCEPT !.pc = next, !.reply = "none"] \in Task
      BY <3>1 DEF Task
    <3> QED
      BY <3>2 DEF next
  <2>3. task' = [task EXCEPT ![w] = [task[w] EXCEPT !.pc = After(task[w]), !.reply = "none"]]
    BY <1>6 DEF Proceed
  <2> QED
    BY <2>2, <2>3
<1>7. ASSUME NEW w \in Worker, HearToken(w) \/ HearPermission(w) \/ CheckMembership(w)
      PROVE  TypeOK'
  <2>1. task' \in [Worker -> Task]
    BY <1>5, <1>6, <1>7 DEF HearToken, HearPermission, CheckMembership
  <2> QED
    BY <1>7, <2>1 DEF HearToken, HearPermission, CheckMembership
<1>8. ASSUME NEW w \in Worker, LoseLookup(w) PROVE TypeOK'
  <2>1. task' \in [Worker -> Task]
    BY <1>5, <1>8 DEF LoseLookup
  <2>2. seen' \in [Worker -> History]
    <3>1. [seen[w] EXCEPT !.lost = TRUE] \in History
      BY DEF History
    <3> QED
      BY <1>8, <3>1 DEF LoseLookup
  <2> QED
    BY <1>8, <2>1, <2>2 DEF LoseLookup
<1>9. ASSUME NEW w \in Worker, TimeOut(w) PROVE TypeOK'
  <2>1. task' \in [Worker -> Task]
    <3>1. [task[w] EXCEPT !.reply = "broken"] \in Task
      BY DEF Task, Reply
    <3> QED
      BY <1>9, <3>1 DEF TimeOut
  <2>2. seen' \in [Worker -> History]
    <3>1. [seen[w] EXCEPT !.lost = TRUE] \in History
      BY DEF History
    <3> QED
      BY <1>9, <3>1 DEF TimeOut
  <2> QED
    BY <1>9, <2>1, <2>2 DEF TimeOut
<1>10. ASSUME NEW w \in Worker, Finish(w) PROVE TypeOK'
  <2>1. task' \in [Worker -> Task]
    BY <1>5, <1>10 DEF Finish
  <2>2. seen' \in [Worker -> History]
    BY <1>10 DEF Finish, History, Nothing
  <2> QED
    BY <1>10, <2>1, <2>2 DEF Finish
<1>11. ASSUME UNCHANGED vars PROVE TypeOK'
  BY <1>11 DEF vars
<1> QED
  BY <1>1, <1>2, <1>3, <1>4, <1>7, <1>8, <1>9, <1>10, <1>11 DEF Next, Serve

-------------------------------------------------------------------------------

\* While the authorities stay, so does what is open.
LEMMA OpenStays ==
    ASSUME UNCHANGED <<agency, members, granted>>, NEW u, NEW t
    PROVE  Open(u, t)' = Open(u, t)
BY DEF Open, Grants, Reaches

\* A request that nothing happens to stays sound.
LEMMA Bystander ==
    ASSUME NEW w \in Worker, Sound(w),
           UNCHANGED <<env, agency, members, granted>>,
           task'[w] = task[w], seen'[w] = seen[w]
    PROVE  Sound(w)'
<1>1. Passed(w)'
  BY DEF Sound, Passed, Needed, Warranted
<1>2. Heard(w)'
  BY DEF Sound, Heard
<1>3. Watching(w)'
  BY DEF Sound, Watching, Open, Grants, Reaches
<1>4. InPlace(w)'
  BY DEF Sound, InPlace, Needed
<1> QED
  BY <1>1, <1>2, <1>3, <1>4 DEF Sound

LEMMA IdleSound ==
    ASSUME NEW w \in Worker, task'[w] = Idle
    PROVE  Sound(w)'
BY DEF Sound, Passed, Heard, Watching, InPlace, Idle

\* The authorities change: the history of every request follows.
LEMMA Noted ==
    ASSUME TypeOK, NEW w \in Worker, Sound(w), UNCHANGED <<env, task>>, Note
    PROVE  Sound(w)'
<1>1. CASE task[w].pc = "idle"
  <2>1. seen'[w] = seen[w]
    BY <1>1 DEF Note
  <2> QED
    BY <1>1, <2>1 DEF Sound, Passed, Heard, Watching, InPlace
<1>2. CASE task[w].pc # "idle"
  <2> DEFINE open == Open(task[w].user, task[w].tenant)'
  <2>0. seen[w] \in History
    BY DEF TypeOK
  <2>1. seen'[w] = [seen[w] EXCEPT !.open = @ \cup open, !.shut = @ \cup (Gate \ open)]
    BY <1>2 DEF Note
  <2>2. /\ seen'[w].open = seen[w].open \cup open
        /\ seen'[w].shut = seen[w].shut \cup (Gate \ open)
        /\ seen'[w].absent = seen[w].absent
        /\ seen'[w].lost = seen[w].lost
    BY <2>0, <2>1 DEF History
  <2>3. Watching(w)'
    BY <2>2 DEF Watching
  <2> HIDE DEF open
  <2>4. Passed(w)'
    BY <2>2 DEF Sound, Passed, Needed, Warranted
  <2>5. Heard(w)'
    BY <2>2 DEF Sound, Heard
  <2>6. InPlace(w)'
    BY DEF Sound, InPlace, Needed
  <2> QED
    BY <2>3, <2>4, <2>5, <2>6 DEF Sound
<1> QED
  BY <1>1, <1>2

LEMMA ArriveSound ==
    ASSUME TypeOK, NEW w \in Worker, NEW u \in User, NEW t \in Tenant, NEW i \in BOOLEAN,
           Arrive(w, u, t, i)
    PROVE  Sound(w)'
<1>1. /\ task'[w] = [pc |-> "token", user |-> u, tenant |-> t, installation |-> i,
                     reply |-> "none"]
      /\ seen'[w] = [Nothing EXCEPT !.open = Open(u, t), !.shut = Gate \ Open(u, t)]
      /\ UNCHANGED <<agency, members, granted>>
  BY DEF Arrive, TypeOK
<1>2. Open(u, t)' = Open(u, t)
  BY <1>1, OpenStays
<1>3. /\ seen'[w].open = Open(u, t)
      /\ seen'[w].shut = Gate \ Open(u, t)
  BY <1>1 DEF Nothing
<1>4. Watching(w)'
  BY <1>1, <1>2, <1>3 DEF Watching
<1>5. Passed(w)' /\ Heard(w)' /\ InPlace(w)'
  BY <1>1 DEF Passed, Behind, Heard, InPlace, AskedOf, Needed
<1> QED
  BY <1>4, <1>5 DEF Sound

\* The next stage lies behind the gates passed and the one just passed.
LEMMA AfterBehind ==
    ASSUME NEW t, t.pc \in Gate
    PROVE  /\ Needed(t) \cap Behind(After(t)) \subseteq (Needed(t) \cap Behind(t.pc)) \cup {t.pc}
           /\ After(t) # "handler" => After(t) \in Needed(t)
<1>1. CASE t.pc = "token"
  BY <1>1 DEF After, Behind, Needed, Gate, Remote, Permission
<1>2. CASE t.pc = "membership"
  BY <1>2 DEF After, Behind, Needed, Gate, Remote, Permission
<1>3. CASE t.pc = "permission"
  BY <1>3 DEF After, Behind, Needed, Gate, Remote, Permission
<1>4. CASE t.pc = "installation"
  BY <1>4 DEF After, Behind, Needed, Gate, Remote, Permission
<1> QED
  BY <1>1, <1>2, <1>3, <1>4 DEF Gate, Remote, Permission

LEMMA ProceedSound ==
    ASSUME TypeOK, NEW w \in Worker, Sound(w), task[w].pc \in Gate,
           Warranted(seen[w], task[w].pc), Proceed(w),
           UNCHANGED <<env, agency, members, granted, seen>>
    PROVE  Sound(w)'
<1> DEFINE t == task[w]
           u == [task[w] EXCEPT !.pc = After(task[w]), !.reply = "none"]
<1>0. t \in Task
  BY DEF TypeOK
<1>1. task'[w] = u
  BY <1>0 DEF Proceed, TypeOK
<1>2. /\ u.pc = After(t) /\ u.reply = "none" /\ u.user = t.user /\ u.tenant = t.tenant
      /\ u.installation = t.installation
  BY <1>0 DEF Task
<1>3. Needed(u) = Needed(t)
  BY <1>2 DEF Needed
<1>4. t.pc # "idle"
  BY DEF Gate, Remote, Permission
<1> HIDE DEF u
<1>5. Passed(w)'
  <2>1. \A g \in Needed(t) \cap Behind(After(t)) : Warranted(seen[w], g)
    BY <1>4, AfterBehind DEF Sound, Passed
  <2>2. \A g \in Needed(u) \cap Behind(u.pc) : Warranted(seen[w], g)
    BY <2>1, <1>2, <1>3
  <2> QED
    BY <2>2, <1>1 DEF Passed, Needed, Warranted
<1>6. Heard(w)'
  BY <1>1, <1>2 DEF Heard
<1>7. Watching(w)'
  BY <1>1, <1>2, <1>4 DEF Sound, Watching, Open, Grants, Reaches
<1>8. InPlace(w)'
  <2>1. AskedOf(u)
    BY <1>2, <1>4 DEF Sound, InPlace, AskedOf
  <2>2. u.pc # "handler" => u.pc \in Needed(u)
    BY <1>2, <1>3, AfterBehind
  <2> QED
    BY <1>1, <2>1, <2>2 DEF InPlace, AskedOf, Needed
<1> QED
  BY <1>5, <1>6, <1>7, <1>8 DEF Sound
-------------------------------------------------------------------------------

\* A reply: what it says was so when it was given.
LEMMA JudgeSound ==
    ASSUME TypeOK, NEW w \in Worker, Sound(w), Judge(w)
    PROVE  Sound(w)'
<1> DEFINE t == task[w]
<1>1. PICK reply \in Reply :
        /\ reply \in {"yes", "no"} => reply = IF Grants(t.user, t.pc) THEN "yes" ELSE "no"
        /\ task' = [task EXCEPT ![w].reply = reply]
        /\ seen' = [seen EXCEPT
              ![w].lost = @ \/ reply \in {"missing", "broken"},
              ![w].absent = IF reply = "missing" THEN @ \cup {t.pc} ELSE @]
  BY DEF Judge
<1>2. t \in Task /\ seen[w] \in History
  BY DEF TypeOK
<1>3. /\ task'[w].reply = reply /\ task'[w].pc = t.pc /\ task'[w].user = t.user
      /\ task'[w].tenant = t.tenant /\ task'[w].installation = t.installation
  BY <1>1, <1>2 DEF TypeOK, Task
<1>4. /\ seen'[w].open = seen[w].open /\ seen'[w].shut = seen[w].shut
      /\ seen[w].absent \subseteq seen'[w].absent
      /\ reply = "missing" => t.pc \in seen'[w].absent
      /\ reply \in {"missing", "broken"} => seen'[w].lost
  BY <1>1, <1>2 DEF TypeOK, History
<1>5. UNCHANGED <<env, agency, members, granted>> /\ t.pc \in Remote
  BY DEF Judge
<1>6. t.pc # "idle" /\ t.pc # "membership"
  BY <1>5 DEF Remote, Permission
<1>7. Passed(w)'
  BY <1>3, <1>4, <1>5, <1>6 DEF Sound, Passed, Needed, Warranted
<1>8. Heard(w)'
  <2>1. reply = "yes" => t.pc \in seen[w].open
    BY <1>1, <1>5, <1>6 DEF Sound, Watching, Open
  <2>2. reply = "no" => t.pc \in seen[w].shut
    BY <1>1, <1>5, <1>6 DEF Sound, Watching, Open, Gate
  <2> QED
    BY <2>1, <2>2, <1>3, <1>4, <1>5 DEF Heard
<1>9. Watching(w)'
  <2>1. Open(t.user, t.tenant)' = Open(t.user, t.tenant)
    BY <1>3, <1>5 DEF Open, Grants, Reaches
  <2> QED
    BY <2>1, <1>3, <1>4, <1>5, <1>6 DEF Sound, Watching, Open, Grants, Reaches
<1>10. InPlace(w)'
  BY <1>3, <1>5, <1>6 DEF Sound, InPlace, AskedOf, Needed
<1> QED
  BY <1>7, <1>8, <1>9, <1>10 DEF Sound

LEMMA TimeOutSound ==
    ASSUME TypeOK, NEW w \in Worker, Sound(w), TimeOut(w)
    PROVE  Sound(w)'
<1> DEFINE t == task[w]
<1>2. t \in Task /\ seen[w] \in History
  BY DEF TypeOK
<1>3. /\ task'[w].reply = "broken" /\ task'[w].pc = t.pc /\ task'[w].user = t.user
      /\ task'[w].tenant = t.tenant /\ task'[w].installation = t.installation
  BY <1>2 DEF TimeOut, TypeOK, Task
<1>4. /\ seen'[w].open = seen[w].open /\ seen'[w].shut = seen[w].shut
      /\ seen'[w].absent = seen[w].absent /\ seen'[w].lost
  BY <1>2 DEF TimeOut, TypeOK, History
<1>5. UNCHANGED <<env, agency, members, granted>> /\ t.pc \in Remote
  BY DEF TimeOut
<1>6. t.pc # "idle"
  BY <1>5 DEF Remote, Permission
<1>7. Passed(w)'
  BY <1>3, <1>4, <1>5, <1>6 DEF Sound, Passed, Needed, Warranted
<1>8. Heard(w)'
  BY <1>3, <1>4, <1>5 DEF Heard
<1>9. Watching(w)'
  BY <1>3, <1>4, <1>5, <1>6 DEF Sound, Watching, Open, Grants, Reaches
<1>10. InPlace(w)'
  BY <1>3, <1>5, <1>6 DEF Sound, InPlace, AskedOf, Needed
<1> QED
  BY <1>7, <1>8, <1>9, <1>10 DEF Sound

\* A gate that opens leaves a reason behind.
LEMMA HearSound ==
    ASSUME TypeOK, NEW w \in Worker, Sound(w),
           HearToken(w) \/ HearPermission(w) \/ CheckMembership(w)
    PROVE  Sound(w)'
<1> DEFINE t == task[w]
<1>1. ASSUME Abort(w) PROVE Sound(w)'
  <2>1. task'[w] = Idle
    BY <1>1 DEF Abort, TypeOK
  <2> QED
    BY <2>1, IdleSound
<1>2. UNCHANGED <<env, agency, members, granted, seen>>
  BY DEF HearToken, HearPermission, CheckMembership
<1>3. CASE HearToken(w) /\ Proceed(w) /\ t.reply = "yes"
  <2>1. t.pc \in Gate /\ Warranted(seen[w], t.pc)
    BY <1>3 DEF HearToken, Sound, Heard, Warranted, Gate, Remote
  <2> QED
    BY <1>2, <1>3, <2>1, ProceedSound
<1>4. CASE HearPermission(w) /\ Proceed(w) /\ Verdict(t.reply)
  <2>1. t.pc \in Gate /\ Warranted(seen[w], t.pc)
    BY <1>4 DEF HearPermission, Verdict, Sound, Heard, Warranted, Gate, Remote
  <2> QED
    BY <1>2, <1>4, <2>1, ProceedSound
<1>5. CASE CheckMembership(w) /\ Proceed(w) /\ AllowQuery(t.user, t.tenant)
  <2>1. t.pc = "membership"
    BY <1>5 DEF CheckMembership
  <2>2. t.user \in User /\ t.tenant \in Tenant
    BY <2>1 DEF Sound, InPlace, AskedOf
  <2>3. Reaches(t.user, t.tenant)
    BY <1>5, <2>2, QueryIsReach
  <2>4. "membership" \in Open(t.user, t.tenant)
    BY <2>3 DEF Open
  <2>5. t.pc \in Gate /\ Warranted(seen[w], t.pc)
    BY <2>1, <2>4 DEF Sound, Watching, Warranted, Gate
  <2> QED
    BY <1>2, <1>5, <2>5, ProceedSound
<1> QED
  BY <1>1, <1>3, <1>4, <1>5 DEF HearToken, HearPermission, CheckMembership

LEMMA SoundStep ==
    ASSUME IInv, [Next]_vars, NEW v \in Worker
    PROVE  Sound(v)'
<1>1. TypeOK /\ Sound(v)
  BY DEF IInv
<1>2. ASSUME NEW u \in User, Regrant(u) PROVE Sound(v)'
  BY <1>1, <1>2, Noted DEF Regrant
<1>3. ASSUME Enrol PROVE Sound(v)'
  BY <1>1, <1>3, Noted DEF Enrol
<1>4. ASSUME NEW w \in Worker, w # v,
             \/ \E u \in User, t \in Tenant, i \in BOOLEAN : Arrive(w, u, t, i)
             \/ Judge(w) \/ Serve(w)
      PROVE  Sound(v)'
  <2>1. /\ UNCHANGED <<env, agency, members, granted>>
        /\ task'[v] = task[v] /\ seen'[v] = seen[v]
    BY <1>1, <1>4 DEF Arrive, Judge, Serve, TimeOut, HearToken, HearPermission,
       CheckMembership, LoseLookup, Finish, Proceed, Abort, TypeOK
  <2> QED
    BY <1>1, <2>1, Bystander
<1>5. ASSUME NEW u \in User, NEW t \in Tenant, NEW i \in BOOLEAN, Arrive(v, u, t, i)
      PROVE  Sound(v)'
  BY <1>1, <1>5, ArriveSound
<1>6. ASSUME Judge(v) PROVE Sound(v)'
  BY <1>1, <1>6, JudgeSound
<1>7. ASSUME TimeOut(v) PROVE Sound(v)'
  BY <1>1, <1>7, TimeOutSound
<1>8. ASSUME HearToken(v) \/ HearPermission(v) \/ CheckMembership(v) PROVE Sound(v)'
  BY <1>1, <1>8, HearSound
<1>9. ASSUME LoseLookup(v) \/ Finish(v) PROVE Sound(v)'
  <2>1. task'[v] = Idle
    BY <1>1, <1>9 DEF LoseLookup, Finish, Abort, TypeOK
  <2> QED
    BY <2>1, IdleSound
<1>10. ASSUME UNCHANGED vars PROVE Sound(v)'
  BY <1>1, <1>10, Bystander DEF vars
<1> QED
  BY <1>2, <1>3, <1>4, <1>5, <1>6, <1>7, <1>8, <1>9, <1>10 DEF Next, Serve

\* The inductive invariant: what each stage of a request rests on (the chain of
\* middlewares and the privilege check of the handlers), whatever the authorities do.
THEOREM GateInvariant == Spec => []IInv
<1>1. Init => IInv
  BY InitSound
<1>2. IInv /\ [Next]_vars => IInv'
  BY TypeStep, SoundStep DEF IInv
<1> QED
  BY <1>1, <1>2, PTL DEF Spec

\* Every variable keeps its type.
THEOREM TypeCorrect == Spec => []TypeOK
<1>1. IInv => TypeOK
  BY DEF IInv
<1> QED
  BY <1>1, GateInvariant, PTL

\* A request gets to its handler only through gates that were open to it since it
\* arrived, for any number of requests, users and tenants and any history of grants.
THEOREM NoUngrantedHandler == Spec => []FailsClosed
<1>1. IInv => FailsClosed
  <2> SUFFICES ASSUME IInv, NEW w \in Worker, task[w].pc = "handler",
                      NEW g \in Needed(task[w])
               PROVE  Warranted(seen[w], g)
    BY DEF FailsClosed, Warranted
  <2>1. Needed(task[w]) \subseteq Gate
    BY DEF Needed, Gate, Remote, Permission
  <2>2. Behind(task[w].pc) = Gate
    BY DEF Behind
  <2> QED
    BY <2>1, <2>2 DEF IInv, Sound, Passed
<1> QED
  BY <1>1, GateInvariant, PTL

\* A request is turned away only if one of its gates was shut since it arrived or an
\* authority could not be heard.
THEOREM NoRefusalWithoutCause == Spec => RefusedForCause
<1>1. ASSUME IInv, [Next]_vars, NEW w \in Worker, task[w].pc \in Gate, task'[w].pc = "idle"
      PROVE  seen'[w].lost \/ seen[w].shut \cap Needed(task[w]) # {}
  <2> DEFINE t == task[w]
  <2>1. /\ TypeOK /\ Heard(w) /\ Watching(w) /\ InPlace(w)
        /\ t \in Task /\ seen[w] \in History
    BY <1>1 DEF IInv, Sound, TypeOK
  <2>2. t.pc # "idle" /\ t.pc # "handler"
    BY <1>1 DEF Gate, Remote, Permission
  <2>3. t.pc \in Needed(t) /\ AskedOf(t)
    BY <2>1, <2>2 DEF InPlace
  <2>4. task' # task
    BY <1>1, <2>2
  <2>5. LoseLookup(w) \/ HearToken(w) \/ HearPermission(w) \/ CheckMembership(w)
    <3>1. ASSUME NEW v \in Worker, NEW u \in User, NEW i \in Tenant, NEW j \in BOOLEAN,
                 Arrive(v, u, i, j)
          PROVE  FALSE
      BY <1>1, <2>1, <2>2, <3>1 DEF Arrive, TypeOK
    <3>2. ASSUME NEW v \in Worker, Judge(v) PROVE FALSE
      BY <1>1, <2>1, <2>2, <3>2 DEF Judge, TypeOK, Task
    <3>3. ASSUME NEW v \in Worker, TimeOut(v) PROVE FALSE
      BY <1>1, <2>1, <2>2, <3>3 DEF TimeOut, TypeOK, Task
    <3>4. ASSUME NEW v \in Worker, Finish(v) PROVE FALSE
      BY <1>1, <2>1, <2>2, <3>4 DEF Finish, Abort, TypeOK, Task
    <3>5. ASSUME NEW v \in Worker, v # w,
                 LoseLookup(v) \/ HearToken(v) \/ HearPermission(v) \/ CheckMembership(v)
          PROVE  FALSE
      BY <1>1, <2>1, <2>2, <3>5
         DEF LoseLookup, HearToken, HearPermission, CheckMembership, Proceed, Abort, TypeOK
    <3>6. ASSUME NEW u \in User, Regrant(u) PROVE FALSE
      BY <2>4, <3>6 DEF Regrant
    <3>7. ~Enrol
      BY <2>4 DEF Enrol
    <3>8. ~UNCHANGED vars
      BY <2>4 DEF vars
    <3> QED
      BY <1>1, <3>1, <3>2, <3>3, <3>4, <3>5, <3>6, <3>7, <3>8 DEF Next, Serve
  <2>6. CASE LoseLookup(w)
    BY <2>1, <2>6 DEF LoseLookup, TypeOK, History
  <2>7. ASSUME Proceed(w) PROVE FALSE
    <3>1. task'[w].pc = After(t)
      BY <2>1, <2>7 DEF Proceed, TypeOK, Task
    <3> QED
      BY <1>1, <3>1 DEF After
  <2>8. CASE HearToken(w)
    <3>1. t.reply # "yes" /\ t.reply # "none" /\ seen' = seen
      BY <2>7, <2>8 DEF HearToken
    <3>2. t.reply \in {"no", "missing", "broken"}
      BY <2>1, <3>1 DEF Task, Reply
    <3> QED
      BY <2>1, <2>3, <3>1, <3>2 DEF Heard
  <2>9. CASE HearPermission(w)
    <3>1. t.reply # "yes" /\ t.reply # "none" /\ seen' = seen
      BY <2>7, <2>9 DEF HearPermission, Verdict
    <3>2. t.reply \in {"no", "missing", "broken"}
      BY <2>1, <3>1 DEF Task, Reply
    <3> QED
      BY <2>1, <2>3, <3>1, <3>2 DEF Heard
  <2>10. CASE CheckMembership(w)
    <3>1. t.pc = "membership" /\ ~AllowQuery(t.user, t.tenant)
      BY <2>7, <2>10 DEF CheckMembership
    <3>2. ~Reaches(t.user, t.tenant)
      BY <2>1, <2>3, <3>1, QueryIsReach DEF AskedOf
    <3>3. "membership" \notin Open(t.user, t.tenant)
      BY <3>2 DEF Open, Remote, Permission
    <3>4. "membership" \in seen[w].shut
      BY <2>1, <2>2, <3>3 DEF Watching, Gate
    <3> QED
      BY <2>3, <3>1, <3>4
  <2> QED
    BY <2>5, <2>6, <2>8, <2>9, <2>10
<1>2. IInv /\ [Next]_vars
      => [\A w \in Worker :
             task[w].pc \in Gate /\ task'[w].pc = "idle" =>
                 seen'[w].lost \/ seen[w].shut \cap Needed(task[w]) # {}]_vars
  BY <1>1
<1> QED
  BY <1>2, GateInvariant, PTL DEF Spec, RefusedForCause

-------------------------------------------------------------------------------
(***************************************************************************)
(* The walk through the pages of a list, for any table, queries, and sizes *)
(* of a page, and any number of writes of others.  The invariant (WalkInv) *)
(* speaks of the numbers of rows: those up to the last that the pages have *)
(* passed were seen if no row fell back, and no row that was seen has a    *)
(* higher number if none came.                                             *)
(***************************************************************************)

\* The rows the pages read so far have passed: those up to this number.
PassedRows == IF walk.pc = "rows" THEN (walk.page - 1) * walk.size ELSE walk.page * walk.size

\* The rows of the query up to there have been seen, if none fell back; and no row that
\* was seen is further on, if none came.
Progress ==
    LET rows == Selected(walk.query) IN
    Walking =>
        /\ walk.stayed \subseteq rows
        /\ ~walk.shrunk => \A x \in walk.stayed : Rank(rows, x) <= PassedRows => x \in walk.seen
        /\ ~walk.grown => \A x \in walk.seen \cap rows : Rank(rows, x) <= PassedRows

\* What the answer to the last page said.
LastPage ==
    walk.pc = "page" /\ ~walk.shrunk /\ walk.total <= walk.page * walk.size =>
        walk.stayed \subseteq walk.seen

Begun == walk.pc = "off" => walk = Off(walk.query)

WalkInv == PagesTypeOK /\ Begun /\ Progress /\ LastPage /\ WalkComplete /\ WalkExact

LEMMA ProductFacts ==
    ASSUME NEW p \in Nat, NEW s \in Nat
    PROVE  /\ (p - 1) * s + s = p * s /\ ((p + 1) - 1) * s = p * s
           /\ p * s \in Nat /\ (p - 1) * s \in Int
  OBVIOUS

LEMMA NextPageOf ==
    ASSUME NEW p \in Nat, NEW s \in Nat \ {0}
    PROVE  PageOf(p * s, s) = p + 1
<1>1. (p * s) \div s = p
  OBVIOUS
<1> QED
  BY <1>1 DEF PageOf

\* The pages hold all rows: there is no next page only when the last has been reached.
LEMMA PagesHoldAll ==
    ASSUME NEW total \in Nat, NEW s \in Nat \ {0}, NEW p \in Nat, p >= TotalPages(total, s)
    PROVE  total <= p * s
<1>1. total = s * (total \div s) + (total % s)
  OBVIOUS
<1>2. total \div s \in Int /\ total \div s >= 0
  OBVIOUS
<1>3. total % s \in 0..(s - 1)
  OBVIOUS
<1>4. PICK q \in Nat, r \in 0..(s - 1) : q = total \div s /\ r = total % s
  BY <1>2, <1>3
<1>5. p >= (IF r # 0 THEN q + 1 ELSE q)
  BY <1>4 DEF TotalPages
<1>6. total = s * q + r /\ r \in Nat /\ r < s
  BY <1>1, <1>4
<1> HIDE <1>1
<1>7. CASE r = 0
  <2>1. s * p >= s * q
    BY <1>5, <1>7
  <2> QED
    BY <1>6, <1>7, <2>1
<1>8. CASE r # 0
  <2>1. s * p >= s * (q + 1)
    BY <1>5, <1>8
  <2>2. s * (q + 1) = s * q + s
    OBVIOUS
  <2> QED
    BY <1>6, <2>1, <2>2
<1> QED
  BY <1>7, <1>8

LEMMA RowsFinite ==
    ASSUME NEW rows \in SUBSET Item, NEW x
    PROVE  IsFiniteSet(rows) /\ Cardinality(rows) \in Nat /\ Rank(rows, x) \in Nat
<1>1. IsFiniteSet(rows)
  BY PagesAssumption, FS_Subset
<1> DEFINE upto == {y \in rows : place[y] <= place[x]}
<1>2. IsFiniteSet(upto)
  <2>1. upto \in SUBSET rows
    OBVIOUS
  <2> HIDE DEF upto
  <2> QED
    BY <1>1, <2>1, FS_Subset
<1> HIDE DEF upto
<1> QED
  BY <1>1, <1>2, FS_CardinalityType DEF Rank, upto

\* A row of the query has a number, from one to as many as there are.
LEMMA RankBounds ==
    ASSUME PagesTypeOK, NEW rows \in SUBSET Item, NEW x \in rows
    PROVE  1 <= Rank(rows, x) /\ Rank(rows, x) <= Cardinality(rows)
<1> DEFINE upto == {y \in rows : place[y] <= place[x]}
<1>1. IsFiniteSet(rows) /\ Cardinality(rows) \in Nat
  BY RowsFinite
<1>2. upto \in SUBSET rows /\ x \in upto
  <2>1. place[x] \in Int
    BY PagesAssumption DEF PagesTypeOK, Table, Nowhere
  <2> QED
    BY <2>1
<1> HIDE DEF upto
<1>3. IsFiniteSet(upto) /\ Cardinality(upto) <= Cardinality(rows)
  BY <1>1, <1>2, FS_Subset
<1>4. Cardinality(upto) # 0 /\ Cardinality(upto) \in Nat
  BY <1>2, <1>3, FS_EmptySet, FS_CardinalityType
<1>5. Rank(rows, x) = Cardinality(upto)
  BY DEF Rank, upto
<1> QED
  BY <1>1, <1>3, <1>4, <1>5

\* Of more rows there are no fewer.
LEMMA MoreRows ==
    ASSUME NEW more \in SUBSET Item, NEW less \in SUBSET more
    PROVE  Cardinality(less) <= Cardinality(more)
  BY RowsFinite, FS_Subset

LEMMA WalkTyped ==
    ASSUME PagesTypeOK
    PROVE  /\ walk.query \in Queries /\ walk.page \in Nat /\ walk.total \in Nat
           /\ walk.size \in 1..MaxSize /\ walk.size \in Nat \ {0} /\ walk.size \in Nat
           /\ walk.seen \in SUBSET Item /\ walk.stayed \in SUBSET Item
           /\ walk.shrunk \in BOOLEAN /\ walk.grown \in BOOLEAN /\ walk.twice \in BOOLEAN
           /\ place \in [Item -> Nowhere..MaxPlace] /\ writes \in 0..MaxWrites
           /\ \A q : Selected(q) \in SUBSET Item
<1>1. walk.size \in 1..MaxSize /\ MaxSize \in Nat
  BY PagesAssumption DEF PagesTypeOK
<1> QED
  BY <1>1 DEF PagesTypeOK, Table, Selected, In

LEMMA BeginStep ==
    ASSUME WalkInv, NEW size \in 1..MaxSize, Begin(size)
    PROVE  WalkInv'
<1>1. /\ walk = Off(walk.query) /\ UNCHANGED <<place, writes>> /\ PagesTypeOK
      /\ walk' = [walk EXCEPT !.pc = "rows", !.size = size, !.stayed = Selected(walk.query)]
  BY DEF WalkInv, Begun, Begin
<1>2. /\ walk'.pc = "rows" /\ walk'.size = size /\ walk'.stayed = Selected(walk.query)
      /\ walk'.page = 1 /\ walk'.seen = {} /\ walk'.twice = FALSE
      /\ walk'.query = walk.query
  BY <1>1 DEF PagesTypeOK, Off
<1>3. Selected(walk.query)' = Selected(walk.query) /\ Selected(walk.query) \in SUBSET Item
  BY <1>1, <1>2, WalkTyped DEF Selected, In
<1>4. PagesTypeOK'
  BY <1>1, <1>3, WalkTyped DEF PagesTypeOK
<1>5. ASSUME NEW x \in Selected(walk.query)
      PROVE  ~(Rank(Selected(walk.query), x)' <= 0)
  <2>1. 1 <= Rank(Selected(walk.query), x)
    BY <1>1, <1>3, RankBounds
  <2>2. Rank(Selected(walk.query), x) \in Nat
    BY <1>3, RowsFinite
  <2>3. Rank(Selected(walk.query), x)' = Rank(Selected(walk.query), x)
    BY <1>1, <1>2, <1>3 DEF Rank
  <2> QED
    BY <2>1, <2>2, <2>3
<1>6. Progress'
  <2>1. PassedRows' = 0
    BY <1>2 DEF PassedRows
  <2> QED
    BY <1>2, <1>3, <1>5, <2>1 DEF Progress
<1> QED
  BY <1>2, <1>4, <1>6 DEF WalkInv, Begun, LastPage, WalkComplete, WalkExact

LEMMA RowsStep ==
    ASSUME WalkInv, Rows
    PROVE  WalkInv'
<1> DEFINE rows == Selected(walk.query)
           got == Page(rows, Offset(walk.page, walk.size), walk.size)
<1>1. /\ walk.pc = "rows" /\ UNCHANGED <<place, writes>> /\ PagesTypeOK
      /\ walk' = IF Broken(walk.query) THEN [walk EXCEPT !.pc = "error"]
                 ELSE [walk EXCEPT !.pc = "count", !.seen = @ \cup got,
                                   !.twice = @ \/ walk.seen \cap got # {}]
  BY DEF WalkInv, Rows
<1>2. walk'.query = walk.query
  BY <1>1 DEF PagesTypeOK
<1>3. CASE Broken(walk.query)
  <2>1. walk' = [walk EXCEPT !.pc = "error"]
    BY <1>1, <1>3
  <2>2. /\ walk'.pc = "error" /\ walk'.seen = walk.seen /\ walk'.twice = walk.twice
        /\ walk'.grown = walk.grown
    BY <1>1, <2>1 DEF PagesTypeOK
  <2>3. PagesTypeOK'
    BY <1>1, <2>1 DEF PagesTypeOK
  <2> QED
    BY <1>2, <2>2, <2>3
       DEF WalkInv, Begun, Progress, LastPage, WalkComplete, WalkExact, Walking, Wanted
<1>4. CASE ~Broken(walk.query)
  <2>1. walk' = [walk EXCEPT !.pc = "count", !.seen = @ \cup got,
                             !.twice = @ \/ walk.seen \cap got # {}]
    BY <1>1, <1>4
  <2>2. PICK g, r : g = got /\ r = rows
    OBVIOUS
  <2>3. /\ walk'.pc = "count" /\ walk'.seen = walk.seen \cup g /\ walk'.stayed = walk.stayed
        /\ walk'.page = walk.page /\ walk'.size = walk.size
        /\ walk'.shrunk = walk.shrunk /\ walk'.grown = walk.grown
        /\ walk'.twice = (walk.twice \/ walk.seen \cap g # {})
    BY <1>1, <2>1, <2>2 DEF PagesTypeOK
  <2>4. r \in SUBSET Item /\ g \in SUBSET r
    BY <1>1, <2>2, WalkTyped DEF Page
  <2>5. PagesTypeOK'
    <3>1. (walk.twice \/ walk.seen \cap g # {}) \in BOOLEAN
      OBVIOUS
    <3>2. walk.seen \cup g \in SUBSET Item
      BY <1>1, <2>4, WalkTyped
    <3> QED
      BY <1>1, <2>1, <2>2, <3>1, <3>2 DEF PagesTypeOK
  <2>6. Selected(walk.query)' = r
    BY <1>1, <1>2, <2>2 DEF Selected, In
  <2>7. PICK p \in Nat, s \in Nat : p = walk.page /\ s = walk.size
    BY <1>1, WalkTyped
  <2>8. /\ PassedRows = (p - 1) * s /\ PassedRows' = p * s /\ (p - 1) * s + s = p * s
        /\ p * s \in Nat /\ (p - 1) * s \in Int /\ Offset(walk.page, walk.size) = (p - 1) * s
    BY <1>1, <2>3, <2>7, ProductFacts DEF PassedRows, Offset
  <2>9. \A x \in r : x \in g <=> (p - 1) * s < Rank(r, x) /\ Rank(r, x) <= p * s
    BY <2>2, <2>7, <2>8 DEF Page
  <2>10. \A x \in r : Rank(r, x) \in Nat
    BY <2>4, RowsFinite
  <2>11. /\ walk.stayed \subseteq r
         /\ ~walk.shrunk => \A x \in walk.stayed : Rank(r, x) <= (p - 1) * s => x \in walk.seen
         /\ ~walk.grown => \A x \in walk.seen \cap r : Rank(r, x) <= (p - 1) * s
    BY <1>1, <2>2, <2>8 DEF WalkInv, Progress, Walking
  <2>12. ASSUME ~walk.shrunk, NEW x \in walk.stayed, Rank(r, x) <= p * s
         PROVE  x \in walk.seen \cup g
    BY <2>8, <2>9, <2>10, <2>11, <2>12
  <2>13. ASSUME ~walk.grown, NEW x \in (walk.seen \cup g) \cap r
         PROVE  Rank(r, x) <= p * s
    BY <2>7, <2>8, <2>9, <2>10, <2>11, <2>13
  <2>14. Progress'
    BY <1>1, <2>3, <2>6, <2>8, <2>11, <2>12, <2>13 DEF Progress, Rank
  <2>15. ~walk.grown => walk.seen \cap g = {}
    BY <2>4, <2>8, <2>9, <2>10, <2>11
  <2>16. WalkExact'
    <3>1. \A x \in g : x \in Answer[walk.query]
      BY <2>2, <2>4 DEF Selected
    <3>2. \A x \in walk.seen \cup g : x \in Answer[walk.query]
      BY <3>1 DEF WalkInv, WalkExact, Wanted
    <3>3. ~walk.grown => ~(walk.twice \/ walk.seen \cap g # {})
      BY <2>15 DEF WalkInv, WalkExact
    <3> QED
      BY <1>2, <2>3, <3>2, <3>3 DEF WalkExact, Wanted
  <2> QED
    BY <2>3, <2>5, <2>14, <2>16 DEF WalkInv, Begun, LastPage, WalkComplete
<1> QED
  BY <1>3, <1>4

LEMMA CountStep ==
    ASSUME WalkInv, Count
    PROVE  WalkInv'
<1>1. /\ walk.pc = "count" /\ UNCHANGED <<place, writes>> /\ PagesTypeOK
      /\ walk' = [walk EXCEPT !.pc = "page", !.total = Counted(walk.query)]
  BY DEF WalkInv, Count
<1>2. PICK r \in SUBSET Item : r = Selected(walk.query)
  BY <1>1, WalkTyped
<1>3. /\ walk'.pc = "page" /\ walk'.total = Cardinality(r) /\ walk'.query = walk.query
      /\ walk'.seen = walk.seen /\ walk'.stayed = walk.stayed /\ walk'.twice = walk.twice
      /\ walk'.page = walk.page /\ walk'.size = walk.size
      /\ walk'.shrunk = walk.shrunk /\ walk'.grown = walk.grown
  BY <1>1, <1>2 DEF PagesTypeOK, Counted
<1>4. Cardinality(r) \in Nat
  BY RowsFinite
<1>5. PagesTypeOK'
  BY <1>1, <1>2, <1>4 DEF PagesTypeOK, Counted
<1>6. Selected(walk.query)' = r
  BY <1>1, <1>2, <1>3 DEF Selected, In
<1>7. PassedRows' = PassedRows /\ PassedRows = walk.page * walk.size
  BY <1>1, <1>3 DEF PassedRows
<1>8. Progress'
  BY <1>1, <1>2, <1>3, <1>6, <1>7 DEF WalkInv, Progress, Walking, Rank
<1>9. LastPage'
  <2> SUFFICES ASSUME ~walk.shrunk, Cardinality(r) <= walk.page * walk.size,
                      NEW x \in walk.stayed
               PROVE  x \in walk.seen
    BY <1>3 DEF LastPage
  <2>1. x \in r /\ (Rank(r, x) <= PassedRows => x \in walk.seen)
    BY <1>1, <1>2 DEF WalkInv, Progress, Walking
  <2>2. Rank(r, x) <= Cardinality(r) /\ Rank(r, x) \in Nat
    BY <1>1, <2>1, RankBounds, RowsFinite
  <2>3. walk.page * walk.size \in Nat
    BY <1>1, WalkTyped, ProductFacts
  <2> QED
    BY <1>4, <1>7, <2>1, <2>2, <2>3
<1> QED
  BY <1>3, <1>5, <1>8, <1>9 DEF WalkInv, Begun, WalkComplete, WalkExact, Wanted

LEMMA AdvanceStep ==
    ASSUME WalkInv, Advance
    PROVE  WalkInv'
<1>1. /\ walk.pc = "page" /\ UNCHANGED <<place, writes>> /\ PagesTypeOK
      /\ walk' = IF HasNextPage
                 THEN [walk EXCEPT !.pc = "rows",
                                   !.page = PageOf(walk.page * walk.size, walk.size)]
                 ELSE [walk EXCEPT !.pc = "done"]
  BY DEF WalkInv, Advance
<1>2. PICK p \in Nat, s \in Nat \ {0} : p = walk.page /\ s = walk.size
  BY <1>1, WalkTyped
<1>3. CASE HasNextPage
  <2>1. walk' = [walk EXCEPT !.pc = "rows", !.page = p + 1]
    BY <1>1, <1>2, <1>3, NextPageOf
  <2>2. /\ walk'.pc = "rows" /\ walk'.page = p + 1 /\ walk'.query = walk.query
        /\ walk'.seen = walk.seen /\ walk'.stayed = walk.stayed /\ walk'.twice = walk.twice
        /\ walk'.size = s /\ walk'.shrunk = walk.shrunk /\ walk'.grown = walk.grown
    BY <1>1, <1>2, <2>1 DEF PagesTypeOK
  <2>3. PagesTypeOK'
    <3>1. PICK n \in Nat : n = p + 1
      BY <1>2
    <3> QED
      BY <1>1, <2>1, <3>1 DEF PagesTypeOK
  <2>4. PICK r : r = Selected(walk.query)
    OBVIOUS
  <2>5. Selected(walk.query)' = r
    BY <1>1, <2>2, <2>4 DEF Selected, In
  <2>6. PassedRows' = p * s /\ PassedRows = p * s
    BY <1>1, <1>2, <2>2, ProductFacts DEF PassedRows
  <2>7. Progress'
    BY <1>1, <2>2, <2>4, <2>5, <2>6 DEF WalkInv, Progress, Walking, Rank
  <2> QED
    BY <2>2, <2>3, <2>7 DEF WalkInv, Begun, LastPage, WalkComplete, WalkExact, Wanted
<1>4. CASE ~HasNextPage
  <2>1. walk' = [walk EXCEPT !.pc = "done"]
    BY <1>1, <1>4
  <2>2. /\ walk'.pc = "done" /\ walk'.query = walk.query
        /\ walk'.seen = walk.seen /\ walk'.stayed = walk.stayed /\ walk'.twice = walk.twice
        /\ walk'.shrunk = walk.shrunk /\ walk'.grown = walk.grown
    BY <1>1, <2>1 DEF PagesTypeOK
  <2>3. PagesTypeOK'
    BY <1>1, <2>1 DEF PagesTypeOK
  <2>4. walk.total <= walk.page * walk.size
    <3>1. walk.total \in Nat
      BY <1>1, WalkTyped
    <3>2. TotalPages(walk.total, s) \in Int
      <4>1. walk.total \div s \in Int /\ walk.total \div s + 1 \in Int
        BY <3>1
      <4> QED
        BY <4>1 DEF TotalPages
    <3>3. p >= TotalPages(walk.total, s)
      BY <1>2, <1>4, <3>2 DEF HasNextPage
    <3> QED
      BY <1>2, <3>1, <3>3, PagesHoldAll
  <2>5. ~walk.shrunk => walk.stayed \subseteq walk.seen
    BY <1>1, <2>4 DEF WalkInv, LastPage
  <2> QED
    BY <2>2, <2>3, <2>5
       DEF WalkInv, Begun, Progress, LastPage, WalkComplete, WalkExact, Walking, Wanted
<1> QED
  BY <1>3, <1>4

\* A write of another gives row x a place, or takes it.
LEMMA Placed ==
    ASSUME PagesTypeOK, NEW x \in Item, NEW p \in {Nowhere} \cup Free,
           place' = [place EXCEPT ![x] = p]
    PROVE  place' \in Table /\ place'[x] = p /\ \A y \in Item \ {x} : place'[y] = place[y]
<1>1. place \in [Item -> Nowhere..MaxPlace] /\ Nowhere \in Nowhere..MaxPlace /\ MaxPlace \in Nat
  BY PagesAssumption DEF PagesTypeOK, Table, Nowhere
<1>2. p \in Nowhere..MaxPlace
  BY <1>1 DEF Free, Nowhere
<1>3. /\ place' \in [Item -> Nowhere..MaxPlace] /\ place'[x] = p
      /\ \A y \in Item \ {x} : place'[y] = place[y]
  BY <1>1, <1>2
<1>4. ASSUME NEW y \in In(place'), NEW z \in In(place'), place'[y] = place'[z]
      PROVE  y = z
  <2>1. \A u, v \in In(place) : place[u] = place[v] => u = v
    BY DEF PagesTypeOK, Table
  <2>2. y \in Item /\ z \in Item /\ place'[y] # Nowhere /\ place'[z] # Nowhere
    BY DEF In
  <2>3. CASE y # x /\ z # x
    BY <1>3, <1>4, <2>1, <2>2, <2>3 DEF In
  <2>4. CASE y = x \/ z = x
    BY <1>3, <1>4, <2>2, <2>4 DEF Free
  <2> QED
    BY <2>3, <2>4
<1> QED
  BY <1>3, <1>4 DEF Table

LEMMA WriteStep ==
    ASSUME WalkInv, NEW x \in Item, Insert(x) \/ Delete(x) \/ Update(x)
    PROVE  WalkInv'
<1>1. /\ walk.pc \in {"rows", "count", "page"} /\ PagesTypeOK /\ writes < MaxWrites
      /\ writes' = writes + 1
  BY DEF WalkInv, Walking, Insert, Delete, Update
<1>2. PICK p \in {Nowhere} \cup Free : place' = [place EXCEPT ![x] = p]
  BY DEF Insert, Delete, Update
<1>3. place' \in Table /\ place'[x] = p /\ \A y \in Item \ {x} : place'[y] = place[y]
  BY <1>1, <1>2, Placed
<1>4. writes' \in 0..MaxWrites
  BY <1>1, WalkTyped, PagesAssumption
<1>5. PICK r, n : r = Selected(walk.query) /\ n = In(place') \cap Answer[walk.query]
  OBVIOUS
<1>6. r \in SUBSET Item /\ n \in SUBSET Item /\ r \ {x} = n \ {x}
  BY <1>3, <1>5 DEF Selected, In
<1>7. /\ \A y : Rank(r, y) = Cardinality({z \in r : place[z] <= place[y]})
      /\ \A y : Cardinality({z \in n : place'[z] <= place'[y]}) \in Nat
      /\ \A y : Rank(r, y) \in Nat
  <2>1. ASSUME NEW y PROVE Cardinality({z \in n : place'[z] <= place'[y]}) \in Nat
    <3>1. PICK upto : upto = {z \in n : place'[z] <= place'[y]}
      OBVIOUS
    <3>2. upto \in SUBSET Item
      BY <1>6, <3>1
    <3> QED
      BY <3>1, <3>2, RowsFinite
  <2> QED
    BY <1>6, <2>1, RowsFinite DEF Rank
<1>8. /\ walk.stayed \subseteq r
      /\ ~walk.shrunk => \A y \in walk.stayed : Rank(r, y) <= PassedRows => y \in walk.seen
      /\ ~walk.grown => \A y \in walk.seen \cap r : Rank(r, y) <= PassedRows
  BY <1>1, <1>5 DEF WalkInv, Progress, Walking
<1>9. PassedRows \in Int
  BY <1>1, WalkTyped, ProductFacts DEF PassedRows
<1>10. /\ \A y \in walk.seen : y \in Answer[walk.query]
       /\ ~walk.grown => ~walk.twice
  BY DEF WalkInv, WalkExact, Wanted
<1>11. CASE Insert(x)
  <2>1. walk' = [walk EXCEPT !.grown = TRUE] /\ x \notin In(place)
    BY <1>11 DEF Insert
  <2>2. /\ walk'.pc = walk.pc /\ walk'.grown = TRUE /\ walk'.shrunk = walk.shrunk
        /\ walk'.stayed = walk.stayed /\ walk'.seen = walk.seen /\ walk'.query = walk.query
        /\ walk'.page = walk.page /\ walk'.size = walk.size /\ walk'.total = walk.total
    BY <1>1, <2>1 DEF PagesTypeOK
  <2>3. PagesTypeOK'
    BY <1>1, <1>3, <1>4, <2>1 DEF PagesTypeOK
  <2>4. x \notin r /\ r \subseteq n /\ \A y \in r : place'[y] = place[y]
    BY <1>3, <1>5, <1>6, <2>1 DEF Selected
  <2>5. ASSUME NEW y \in r
        PROVE  Rank(r, y) <= Cardinality({z \in n : place'[z] <= place'[y]})
    <3>1. PICK q : q = place'
      OBVIOUS
    <3>2. \A z \in r : q[z] = place[z]
      BY <2>4, <3>1
    <3>3. PICK a, b : a = {z \in r : place[z] <= place[y]} /\ b = {z \in n : q[z] <= q[y]}
      OBVIOUS
    <3>4. b \in SUBSET Item /\ a \in SUBSET b
      BY <1>6, <2>4, <3>2, <3>3
    <3>5. Cardinality(a) <= Cardinality(b)
      BY <3>4, MoreRows
    <3> QED
      BY <3>1, <3>3, <3>5 DEF Rank
  <2>6. PassedRows' = PassedRows /\ Selected(walk.query)' = n
    BY <1>5, <2>2 DEF PassedRows, Selected
  <2>7. ~walk.shrunk => \A y \in walk.stayed :
            Cardinality({z \in n : place'[z] <= place'[y]}) <= PassedRows => y \in walk.seen
    <3>1. SUFFICES ASSUME ~walk.shrunk, NEW y \in walk.stayed, NEW c \in Nat,
                          c = Cardinality({z \in n : place'[z] <= place'[y]}), c <= PassedRows
                   PROVE  y \in walk.seen
      BY <1>7
    <3>2. y \in r /\ Rank(r, y) \in Nat
      BY <1>7, <1>8
    <3>3. Rank(r, y) <= c
      BY <2>5, <3>1, <3>2
    <3>4. Rank(r, y) <= PassedRows
      BY <1>9, <3>1, <3>2, <3>3
    <3> QED
      BY <1>8, <3>1, <3>4
  <2>8. Progress'
    BY <1>8, <2>2, <2>4, <2>6, <2>7 DEF Progress, Rank
  <2> QED
    BY <1>1, <1>10, <2>2, <2>3, <2>8
       DEF WalkInv, Begun, LastPage, WalkComplete, WalkExact, Wanted
<1>12. CASE Delete(x)
  <2>1. /\ walk' = [walk EXCEPT !.shrunk = TRUE, !.stayed = @ \ {x}]
        /\ place' = [place EXCEPT ![x] = Nowhere]
    BY <1>12 DEF Delete
  <2>2. /\ walk'.pc = walk.pc /\ walk'.grown = walk.grown /\ walk'.shrunk = TRUE
        /\ walk'.stayed = walk.stayed \ {x} /\ walk'.seen = walk.seen
        /\ walk'.query = walk.query /\ walk'.twice = walk.twice
        /\ walk'.page = walk.page /\ walk'.size = walk.size /\ walk'.total = walk.total
    BY <1>1, <2>1 DEF PagesTypeOK
  <2>3. PagesTypeOK'
    BY <1>1, <1>3, <1>4, <2>1, WalkTyped DEF PagesTypeOK
  <2>4. n = r \ {x} /\ \A y \in n : place[y] = place'[y]
    <3>1. place'[x] = Nowhere
      BY <1>1, <2>1, WalkTyped
    <3>2. x \notin n
      BY <1>5, <3>1 DEF In
    <3> QED
      BY <1>3, <1>6, <3>2
  <2>5. ASSUME NEW y \in n
        PROVE  Cardinality({z \in n : place'[z] <= place'[y]}) <= Rank(r, y)
    <3>1. PICK q : q = place'
      OBVIOUS
    <3>2. n \subseteq r /\ \A z \in n : place[z] = q[z]
      BY <2>4, <3>1
    <3>3. PICK a, b : a = {z \in r : place[z] <= place[y]} /\ b = {z \in n : q[z] <= q[y]}
      OBVIOUS
    <3>4. a \in SUBSET Item /\ b \in SUBSET a
      BY <1>6, <3>2, <3>3
    <3>5. Cardinality(b) <= Cardinality(a)
      BY <3>4, MoreRows
    <3> QED
      BY <3>1, <3>3, <3>5 DEF Rank
  <2>6. PassedRows' = PassedRows /\ Selected(walk.query)' = n
    BY <1>5, <2>2 DEF PassedRows, Selected
  <2>7. ~walk.grown => \A y \in walk.seen \cap n :
            Cardinality({z \in n : place'[z] <= place'[y]}) <= PassedRows
    <3>1. SUFFICES ASSUME ~walk.grown, NEW y \in walk.seen \cap n, NEW c \in Nat,
                          c = Cardinality({z \in n : place'[z] <= place'[y]})
                   PROVE  c <= PassedRows
      BY <1>7
    <3>2. y \in walk.seen \cap r /\ Rank(r, y) \in Nat
      BY <1>7, <2>4
    <3>3. c <= Rank(r, y)
      BY <2>5, <3>1
    <3>4. Rank(r, y) <= PassedRows
      BY <1>8, <3>1, <3>2
    <3> QED
      BY <1>9, <3>1, <3>2, <3>3, <3>4
  <2>8. Progress'
    BY <1>8, <2>2, <2>4, <2>6, <2>7 DEF Progress, Rank
  <2> QED
    BY <1>1, <1>10, <2>2, <2>3, <2>8
       DEF WalkInv, Begun, LastPage, WalkComplete, WalkExact, Wanted
<1>13. CASE Update(x)
  <2>1. /\ walk' = [walk EXCEPT !.shrunk = TRUE, !.grown = TRUE] /\ x \in In(place)
        /\ \E e \in Free : place' = [place EXCEPT ![x] = e]
    BY <1>13 DEF Update
  <2>2. /\ walk'.pc = walk.pc /\ walk'.grown = TRUE /\ walk'.shrunk = TRUE
        /\ walk'.stayed = walk.stayed /\ walk'.seen = walk.seen /\ walk'.query = walk.query
    BY <1>1, <2>1 DEF PagesTypeOK
  <2>3. PagesTypeOK'
    BY <1>1, <1>3, <1>4, <2>1 DEF PagesTypeOK
  <2>4. n = r
    <3>1. place'[x] # Nowhere
      BY <1>1, <2>1, WalkTyped DEF Free, Nowhere
    <3>2. x \in n <=> x \in r
      BY <1>5, <2>1, <3>1 DEF In, Selected
    <3> QED
      BY <1>6, <3>2
  <2>5. Selected(walk.query)' = n
    BY <1>5, <2>2 DEF Selected
  <2>6. Progress'
    BY <1>8, <2>2, <2>4, <2>5 DEF Progress
  <2> QED
    BY <1>1, <1>10, <2>2, <2>3, <2>6
       DEF WalkInv, Begun, LastPage, WalkComplete, WalkExact, Wanted
<1> QED
  BY <1>11, <1>12, <1>13

LEMMA WalkStep ==
    ASSUME WalkInv, [PagesNext]_pagesVars
    PROVE  WalkInv'
<1>1. CASE UNCHANGED pagesVars
  BY <1>1 DEF pagesVars, WalkInv, PagesTypeOK, Begun, Progress, PassedRows, LastPage, WalkComplete,
              WalkExact, Wanted, Walking, Selected, Rank, In
<1> QED
  BY <1>1, BeginStep, RowsStep, CountStep, AdvanceStep, WriteStep DEF PagesNext

LEMMA WalkInit == PagesInit => WalkInv
<1> SUFFICES ASSUME PagesInit PROVE WalkInv
  OBVIOUS
<1>1. PICK q \in Queries : walk = Off(q)
  BY DEF PagesInit
<1>2. 1 \in 1..MaxSize /\ 0 \in 0..MaxWrites
  BY PagesAssumption
<1>3. PagesTypeOK
  BY <1>1, <1>2 DEF PagesInit, PagesTypeOK, Off
<1> QED
  BY <1>1, <1>3 DEF Off, WalkInv, Begun, Progress, LastPage, WalkComplete, WalkExact, Walking

THEOREM ListsWalked == PagesSpec => []WalkInv
<1> QED
  BY WalkInit, WalkStep, PTL DEF PagesSpec

\* A client that follows HasNextPage has seen every row of its query that was there all the
\* time, unless one was deleted or moved meanwhile (List, PaginatedResponse).
THEOREM NoRowMissed == PagesSpec => []WalkComplete
<1>1. WalkInv => WalkComplete
  BY DEF WalkInv
<1> QED
  BY <1>1, ListsWalked, PTL

\* And it has seen no other row, nor one twice unless one came or moved.
THEOREM NoRowTwice == PagesSpec => []WalkExact
<1>1. WalkInv => WalkExact
  BY DEF WalkInv
<1> QED
  BY <1>1, ListsWalked, PTL

-------------------------------------------------------------------------------
\* Filters.

LEMMA SingleClause ==
    ASSUME NEW listing, NEW c, NEW row, Applies(listing, c)
    PROVE  Condition(listing, <<c>>, row) <=> Fragment(listing, c, row) = "true"
<1>1. Kept(listing, <<c>>) = {1}
  BY DEF Kept
<1>2. Run(listing, <<c>>, 1) = {1}
  BY <1>1 DEF Run
<1> QED
  BY <1>1, <1>2 DEF Condition

\* A clause and its opposite apply together.
LEMMA AppliesBoth ==
    ASSUME NEW listing, NEW c \in Clause, Applies(listing, c)
    PROVE  Applies(listing, [c EXCEPT !.op = Opposite[@]])
<1> DEFINE d == [c EXCEPT !.op = Opposite[@]]
<1>1. /\ c.op \in Operator /\ d.op = Opposite[c.op]
      /\ d.column = c.column /\ d.value = c.value
  BY DEF Clause
<1>2. /\ d.op \in Presence <=> c.op \in Presence
      /\ d.op \in Equality <=> c.op \in Equality
  BY <1>1 DEF Operator, Opposite, Presence, Equality, Likeness
<1>3. IsDate(d) = IsDate(c) /\ IsNumber(d) = IsNumber(c)
  BY <1>1 DEF IsDate, IsNumber, Single
<1> HIDE DEF d
<1>4. Applies(listing, d)
  BY <1>1, <1>2, <1>3 DEF Applies
<1> QED
  BY <1>4 DEF d

LEMMA PresenceOpposes ==
    ASSUME NEW c, NEW d, NEW stored, NEW listing,
           c.op \in Presence, d.op = Opposite[c.op]
    PROVE  /\ (TextFragment(listing, c, stored) = "true") # (TextFragment(listing, d, stored) = "true")
           /\ (ScalarFragment(c, stored) = "true") # (ScalarFragment(d, stored) = "true")
BY DEF Presence, Opposite, TextFragment, ScalarFragment, Is

LEMMA TextOpposed ==
    ASSUME NEW listing, NEW c, NEW d, NEW stored,
           c.op \in Operator, d.op = Opposite[c.op], d.value = c.value
    PROVE  (TextFragment(listing, c, stored) = "true") # (TextFragment(listing, d, stored) = "true")
<1>1. CASE c.op \in Presence
  BY <1>1, PresenceOpposes
<1>2. Single(c) = Single(d) /\ Literals(listing, c) = Literals(listing, d)
  BY DEF Single, Literals
<1>3. /\ Equal(listing, c, stored) = Equal(listing, d, stored)
      /\ Like(c, stored) = Like(d, stored)
  BY <1>2 DEF Equal, Like
<1>4. /\ (Equal(listing, c, stored) = "true")
             # (OrNull(stored, Not(Equal(listing, c, stored))) = "true")
      /\ (Like(c, stored) = "true") # (OrNull(stored, Not(Like(c, stored))) = "true")
  BY DEF Equal, Like, Compared, Is, Not, OrNull
<1>5. CASE c.op \in Equality
  BY <1>3, <1>4, <1>5 DEF Equality, Opposite, TextFragment
<1>6. CASE c.op \in Likeness
  BY <1>3, <1>4, <1>6 DEF Likeness, Opposite, TextFragment
<1> QED
  BY <1>1, <1>5, <1>6 DEF Operator

\* Dates and numbers.
LEMMA ScalarOpposed ==
    ASSUME NEW c, NEW d, NEW stored,
           c.op \in Presence \cup Equality, d.op = Opposite[c.op], d.value = c.value
    PROVE  IF c.op \in Equality /\ stored = Null
           THEN ScalarFragment(c, stored) # "true" /\ ScalarFragment(d, stored) # "true"
           ELSE (ScalarFragment(c, stored) = "true") # (ScalarFragment(d, stored) = "true")
<1>1. CASE c.op \in Presence
  BY <1>1, PresenceOpposes DEF Presence, Equality
<1>2. CASE c.op \in Equality
  <2>1. stored \in c.value <=> stored \in d.value
    OBVIOUS
  <2> QED
    BY <1>2, <2>1 DEF Equality, Opposite, ScalarFragment, Compared, Is, Not
<1> QED
  BY <1>1, <1>2

LEMMA TagsOpposed ==
    ASSUME NEW c, NEW d, NEW tags,
           c.op \in Operator, d.op = Opposite[c.op], d.value = c.value
    PROVE  (TagsFragment(c, tags) = "true") # (TagsFragment(d, tags) = "true")
<1>1. AnyEqual(c, tags) = AnyEqual(d, tags) /\ AnyLike(c, tags) = AnyLike(d, tags)
  BY DEF AnyEqual, AnyLike, Single
<1>2. /\ (AnyEqual(c, tags) = "true") # (Not(AnyEqual(c, tags)) = "true")
      /\ (AnyLike(c, tags) = "true") # (Not(AnyLike(c, tags)) = "true")
  BY DEF AnyEqual, AnyLike, Is, Not
<1>3. CASE c.op \in Presence
  BY <1>3 DEF Presence, Opposite, TagsFragment, Is
<1>4. CASE c.op \in Equality
  BY <1>1, <1>2, <1>4 DEF Equality, Opposite, TagsFragment
<1>5. CASE c.op \in Likeness
  BY <1>1, <1>2, <1>5 DEF Likeness, Opposite, TagsFragment
<1> QED
  BY <1>3, <1>4, <1>5 DEF Operator

\* A row is in exactly one of a clause and its opposite, and in neither where the two compare
\* a date that it does not have.
LEMMA ClauseOpposed ==
    ASSUME NEW listing, NEW c \in Clause, NEW row \in Row, Applies(listing, c)
    PROVE  LET d == [c EXCEPT !.op = Opposite[@]]
               lists == Fragment(listing, c, row) = "true"
               listsOther == Fragment(listing, d, row) = "true"
           IN IF c.column = "created_at" /\ c.op \in Equality /\ row.created_at = Null
              THEN ~ lists /\ ~ listsOther
              ELSE lists # listsOther
<1> DEFINE d == [c EXCEPT !.op = Opposite[@]]
<1>1. /\ c.op \in Operator /\ d.op = Opposite[c.op]
      /\ d.column = c.column /\ d.value = c.value
  BY DEF Clause
<1> HIDE DEF d
<1>2. CASE c.column = "tags"
  <2>1. /\ Fragment(listing, c, row) = TagsFragment(c, row.tags)
        /\ Fragment(listing, d, row) = TagsFragment(d, row.tags)
    BY <1>1, <1>2 DEF Fragment
  <2>2. (TagsFragment(c, row.tags) = "true") # (TagsFragment(d, row.tags) = "true")
    BY <1>1, TagsOpposed
  <2> QED
    BY <1>2, <2>1, <2>2 DEF d
<1>3. CASE c.column = "created_at"
  <2>1. c.op \in Presence \cup Equality
    BY <1>3 DEF Applies
  <2>2. /\ Fragment(listing, c, row) = ScalarFragment(c, row.created_at)
        /\ Fragment(listing, d, row) = ScalarFragment(d, row.created_at)
    BY <1>1, <1>3 DEF Fragment
  <2>3. IF c.op \in Equality /\ row.created_at = Null
        THEN ScalarFragment(c, row.created_at) # "true" /\ ScalarFragment(d, row.created_at) # "true"
        ELSE (ScalarFragment(c, row.created_at) = "true") # (ScalarFragment(d, row.created_at) = "true")
    BY <1>1, <2>1, ScalarOpposed
  <2> QED
    BY <1>3, <2>2, <2>3 DEF d
<1>4. CASE c.column = "timeout"
  <2>1. c.op \in Presence \cup Equality
    BY <1>4 DEF Applies
  <2>2. row.timeout # Null
    BY TextAssumption DEF Row
  <2>3. /\ Fragment(listing, c, row) = ScalarFragment(c, row.timeout)
        /\ Fragment(listing, d, row) = ScalarFragment(d, row.timeout)
    BY <1>1, <1>4 DEF Fragment
  <2>4. (ScalarFragment(c, row.timeout) = "true") # (ScalarFragment(d, row.timeout) = "true")
    BY <1>1, <2>1, <2>2, ScalarOpposed
  <2> QED
    BY <1>4, <2>3, <2>4 DEF d
<1>5. CASE c.column \notin {"tags", "created_at", "timeout"}
  <2>1. PICK stored : stored = row[c.column]
    OBVIOUS
  <2>2. /\ Fragment(listing, c, row) = TextFragment(listing, c, stored)
        /\ Fragment(listing, d, row) = TextFragment(listing, d, stored)
    BY <1>1, <1>5, <2>1 DEF Fragment
  <2>3. (TextFragment(listing, c, stored) = "true") # (TextFragment(listing, d, stored) = "true")
    BY <1>1, TextOpposed
  <2> QED
    BY <1>5, <2>2, <2>3 DEF d
<1> QED
  BY <1>2, <1>3, <1>4, <1>5 DEF d

\* Of a clause and its opposite each row is listed by exactly one, whatever is NULL in it: only
\* a row without a date is in neither of two that compare it (agent_filter.go,
\* custom_tool_filter.go, custom_mcp_server_filter.go).
THEOREM OppositesApart == PagesSpec => []OppositesPartition
<1>1. PagesTypeOK => OppositesPartition
  <2> SUFFICES ASSUME PagesTypeOK, NEW x \in In(place), NEW i \in 1..Len(walk.query.clauses),
                      Applies(walk.query.listing, walk.query.clauses[i])
               PROVE  LET listing == walk.query.listing
                          c == walk.query.clauses[i]
                          d == [c EXCEPT !.op = Opposite[@]]
                          lists == Condition(listing, <<c>>, RowOf[x])
                          listsOther == Condition(listing, <<d>>, RowOf[x])
                      IN  /\ Applies(listing, d)
                          /\ IF c.column = "created_at" /\ c.op \in Equality
                                   /\ RowOf[x].created_at = Null
                             THEN ~ lists /\ ~ listsOther
                             ELSE lists # listsOther
    BY DEF OppositesPartition
  <2>1. PICK c : c = walk.query.clauses[i]
    OBVIOUS
  <2>2. c \in Clause
    BY <2>1, PagesAssumption, WalkTyped
  <2>3. PICK d : d = [c EXCEPT !.op = Opposite[@]]
    OBVIOUS
  <2>4. Applies(walk.query.listing, d)
    BY <2>1, <2>2, <2>3, AppliesBoth
  <2>5. RowOf[x] \in Row
    BY PagesAssumption DEF In
  <2>6. LET lists == Fragment(walk.query.listing, c, RowOf[x]) = "true"
            listsOther == Fragment(walk.query.listing, d, RowOf[x]) = "true"
        IN IF c.column = "created_at" /\ c.op \in Equality /\ RowOf[x].created_at = Null
           THEN ~ lists /\ ~ listsOther
           ELSE lists # listsOther
    BY <2>1, <2>2, <2>3, <2>5, ClauseOpposed
  <2>7. /\ Condition(walk.query.listing, <<c>>, RowOf[x])
             <=> Fragment(walk.query.listing, c, RowOf[x]) = "true"
        /\ Condition(walk.query.listing, <<d>>, RowOf[x])
             <=> Fragment(walk.query.listing, d, RowOf[x]) = "true"
    BY <2>1, <2>4, SingleClause
  <2>8. /\ Condition(walk.query.listing, <<c>>, RowOf[x]) \in BOOLEAN
        /\ Condition(walk.query.listing, <<d>>, RowOf[x]) \in BOOLEAN
    BY DEF Condition
  <2> QED
    BY <2>1, <2>3, <2>4, <2>6, <2>7, <2>8
<1> QED
  BY <1>1, ListsWalked, PTL DEF WalkInv
===============================================================================
