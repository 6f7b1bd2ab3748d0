---------------------------- MODULE ConcurrentProofs ----------------------------
(***************************************************************************)
(* Proofs about concurrent statements on the timetable, for any number of  *)
(* requests, sessions and teachers.                                        *)
(*                                                                         *)
(* The invariant has six parts, each of which rests on those before it:    *)
(* the shape of a request, whose ids are whose, what the row locks rule    *)
(* out, what the checks of the two triggers have established, and what the *)
(* balances that a transaction holds amount to.                            *)
(***************************************************************************)
EXTENDS Concurrent, FiniteSetTheorems, TLAPS

-----------------------------------------------------------------------------
(* The shape of a request                                                  *)

Entries == [key: YearlyBalances, delta: Int]
Amounts == UNION {[B -> Nat] : B \in SUBSET YearlyBalances}
Lasting == {row \in SessionForms : Lasts(row) > 0}

Request ==
    [pc: {"idle", "check", "insert", "inserted", "vet", "refer", "hours", "adjust", "lock", "delete"},
     op: {"none", "create", "staff", "move", "delete"}, s: Int, t: Teachers \cup {Unstaffed},
     row: SessionForms \cup {NoSession}, todo: Seq(Entries), held: Amounts]

\* Which statement is where, and what it is about.
Shaped(q) ==
    /\ q.pc = "idle" <=> q.op = "none"
    /\ q.op = "create" => q.pc \in {"check", "insert", "inserted"} /\ q.row \in Lasting
    /\ q.op = "staff" => q.pc \in {"vet", "refer", "hours", "adjust"} /\ q.t \in Teachers
    /\ q.op = "move" => q.pc \in {"lock", "check", "insert", "adjust"} /\ q.row \in Lasting
    /\ q.op = "delete" => q.pc \in {"lock", "delete"}
    /\ q.op # "none" => q.s \in SessionIds
    /\ q.pc # "adjust" => DOMAIN q.held = {}

ShapeInv ==
    /\ sessions \in [SessionIds -> Lasting \cup {NoSession}]
    /\ staffing \in [SessionIds -> Teachers \cup {Unstaffed}]
    /\ booked \in [YearlyBalances -> Nat]
    /\ lastSession \in 0 .. MaxSessions
    /\ work \in [Workers -> Request]
    /\ \A w \in Workers : Shaped(work[w])

\* A form is a session: it has a day.
LEMMA FormsAreSessions == NoSession \notin SessionForms
<1>1. DOMAIN NoSession = {"class"}
  BY DEF NoSession
<1> QED
  BY <1>1, ConcurrentAssumption

\* What a form says is of the types of the calendar and the clock.
LEMMA FormFields ==
    ASSUME NEW row \in SessionForms
    PROVE  /\ row.from \in Nat /\ row.to \in Nat /\ Lasts(row) \in Int
           /\ YearOf[row.day] \in Years
  BY ConcurrentAssumption DEF Lasts, Years

\* Nothing is under way in an idle request.
LEMMA RestingIsShaped == Resting \in Request /\ Shaped(Resting)
<1>1. Resting.held \in [{} -> Nat] /\ DOMAIN Resting.held = {}
  BY DEF Resting
<1>2. Resting.held \in Amounts
  BY <1>1 DEF Amounts
<1>3. Resting.todo \in Seq(Entries)
  BY DEF Resting
<1> QED
  BY <1>1, <1>2, <1>3 DEF Resting, Request, Shaped

\* Once its statement goes on, a request keeps what it is about.
LEMMA WentOn ==
    ASSUME NEW w \in Workers, work[w] \in Request, Shaped(work[w]), NEW pc, Proceed(w, pc),
           work \in [Workers -> Request],
           pc \in {"insert", "inserted", "refer", "hours", "check", "delete"},
           work[w].op # "none",
           work[w].pc # "adjust",
           work[w].op = "create" => pc \in {"insert", "inserted"},
           work[w].op = "staff" => pc \in {"refer", "hours"},
           work[w].op = "move" => pc \in {"check", "insert"},
           work[w].op = "delete" => pc = "delete"
    PROVE  /\ work' = [work EXCEPT ![w] = work'[w]]
           /\ work'[w] \in Request /\ Shaped(work'[w])
           /\ work'[w].pc = pc /\ work'[w].op = work[w].op /\ work'[w].s = work[w].s
           /\ work'[w].t = work[w].t /\ work'[w].row = work[w].row
           /\ work'[w].held = work[w].held
<1> DEFINE q == [work[w] EXCEPT !.pc = pc]
<1>1. work' = [work EXCEPT ![w] = q]
  BY DEF Proceed, Goes
<1>2. work'[w] = q
  BY <1>1
<1>3. q \in Request
  BY DEF Request
<1>4. /\ q.pc = pc /\ q.op = work[w].op /\ q.s = work[w].s /\ q.t = work[w].t
      /\ q.row = work[w].row /\ q.held = work[w].held
  BY DEF Request
<1> HIDE DEF q
<1>5. Shaped(q)
  BY <1>4 DEF Shaped
<1> QED
  BY <1>1, <1>2, <1>3, <1>4, <1>5

\* One request goes on and the tables keep their types.
LEMMA OneWorks ==
    ASSUME ShapeInv, NEW w \in Workers, NEW q \in Request, Shaped(q), Goes(w, q),
           sessions' \in [SessionIds -> Lasting \cup {NoSession}],
           staffing' \in [SessionIds -> Teachers \cup {Unstaffed}],
           booked' \in [YearlyBalances -> Nat],
           lastSession' \in 0 .. MaxSessions
    PROVE  ShapeInv'
<1>1. work' = [work EXCEPT ![w] = q] /\ work \in [Workers -> Request]
  BY DEF Goes, ShapeInv
<1>2. work' \in [Workers -> Request]
  BY <1>1
<1>3. \A v \in Workers : Shaped(work'[v])
  BY <1>1 DEF ShapeInv
<1> QED
  BY <1>2, <1>3 DEF ShapeInv

-----------------------------------------------------------------------------
(* What each action does to its request                                    *)

Others(w) == \A v \in Workers \ {w} : work'[v] = work[v]

Onward(w, pc) ==
    /\ work'[w].pc = pc /\ work'[w].op = work[w].op /\ work'[w].s = work[w].s
    /\ work'[w].t = work[w].t /\ work'[w].row = work[w].row
    /\ Others(w)

Starts(w, pc, op, s) ==
    work'[w].pc = pc /\ work'[w].op = op /\ work'[w].s = s /\ Others(w)

Rests(w) == work'[w].pc = "idle" /\ work'[w].op = "none" /\ Others(w)

\* The part of the statement that goes on, and where to.
Proceeds(w, pc) ==
    \/ pc = "insert" /\ CheckGroup(w)
    \/ pc = "inserted" /\ CreateSession(w)
    \/ pc = "refer" /\ AddSessionTeacher(w)
    \/ pc = "hours" /\ Refer(w)
    \/ pc = "check" /\ LockSession(w) /\ work[w].op = "move"
    \/ pc = "delete" /\ LockSession(w) /\ work[w].op = "delete"

\* A request that goes on does what WentOn says.
LEMMA ProceedsOnward ==
    ASSUME ShapeInv, NEW w \in Workers, NEW pc, Proceeds(w, pc)
    PROVE  Onward(w, pc) /\ ShapeInv'
<1>1. work[w] \in Request /\ Shaped(work[w]) /\ work \in [Workers -> Request]
  BY DEF ShapeInv
<1>2. /\ pc \in {"insert", "inserted", "refer", "hours", "check", "delete"}
      /\ Proceed(w, pc)
      /\ UNCHANGED <<sessions, staffing, booked, lastSession>>
  BY DEF Proceeds, CheckGroup, CreateSession, AddSessionTeacher, Refer, LockSession
<1>3. /\ work[w].op # "none" /\ work[w].pc # "adjust"
      /\ work[w].op = "create" => pc \in {"insert", "inserted"}
      /\ work[w].op = "staff" => pc \in {"refer", "hours"}
      /\ work[w].op = "move" => pc \in {"check", "insert"}
      /\ work[w].op = "delete" => pc = "delete"
  BY <1>1 DEF Proceeds, CheckGroup, CreateSession, AddSessionTeacher, Refer, LockSession, Shaped
<1>4. /\ work' = [work EXCEPT ![w] = work'[w]]
      /\ work'[w] \in Request /\ Shaped(work'[w])
      /\ work'[w].pc = pc /\ work'[w].op = work[w].op /\ work'[w].s = work[w].s
      /\ work'[w].t = work[w].t /\ work'[w].row = work[w].row
  BY <1>1, <1>2, <1>3, WentOn
<1>5. ShapeInv'
  BY <1>2, <1>4, OneWorks DEF Goes, ShapeInv
<1>6. Others(w)
  BY <1>1, <1>4 DEF Others
<1> QED
  BY <1>4, <1>5, <1>6 DEF Onward

\* A request that rests leaves well-typed tables as they are.
LEMMA Resters ==
    ASSUME ShapeInv, NEW w \in Workers,
           CommitStaff(w) \/ CommitMove(w) \/ DeleteSession(w) \/ Abort(w)
    PROVE  Rests(w) /\ ShapeInv'
<1>1. Goes(w, Resting) /\ lastSession' = lastSession
  BY DEF CommitStaff, CommitMove, DeleteSession, Abort
<1>2. work[w] \in Request /\ Shaped(work[w]) /\ work \in [Workers -> Request]
  BY DEF ShapeInv
<1>3. work' = [work EXCEPT ![w] = Resting]
  BY <1>1 DEF Goes
<1>4. Rests(w)
  BY <1>2, <1>3 DEF Rests, Others, Resting
<1>5. sessions' \in [SessionIds -> Lasting \cup {NoSession}]
  <2>1. CASE CommitMove(w)
    <3>1. work[w].row \in Lasting
      BY <1>2, <2>1 DEF Shaped, CommitMove
    <3> QED
      BY <2>1, <3>1 DEF CommitMove, ShapeInv
  <2> QED
    BY <2>1 DEF CommitStaff, DeleteSession, Abort, ShapeInv
<1>6. staffing' \in [SessionIds -> Teachers \cup {Unstaffed}]
  BY <1>2 DEF CommitStaff, CommitMove, DeleteSession, Abort, ShapeInv, Shaped
<1>7. booked' \in [YearlyBalances -> Nat]
  <2>1. CASE booked' = [b \in YearlyBalances |->
                          IF b \in DOMAIN work[w].held THEN work[w].held[b] ELSE booked[b]]
    <3>1. PICK B \in SUBSET YearlyBalances : work[w].held \in [B -> Nat]
      BY <1>2 DEF Request, Amounts
    <3> QED
      BY <2>1, <3>1 DEF ShapeInv
  <2>2. CASE UNCHANGED booked
    BY <2>2 DEF ShapeInv
  <2> QED
    BY <2>1, <2>2 DEF CommitStaff, CommitMove, DeleteSession, Abort
<1>8. lastSession' \in 0 .. MaxSessions
  BY <1>1 DEF ShapeInv
<1> QED
  BY <1>1, <1>4, <1>5, <1>6, <1>7, <1>8, RestingIsShaped, OneWorks

\* A request becomes what it is made.
LEMMA Started ==
    ASSUME work \in [Workers -> Request], NEW w \in Workers, NEW q \in Request, Goes(w, q)
    PROVE  Starts(w, q.pc, q.op, q.s)
  BY DEF Goes, Starts, Others

\* A request that is sent takes up its statement.
LEMMA Starters ==
    ASSUME ShapeInv, NEW w \in Workers
    PROVE  /\ AdminSessionCreate(w) => Starts(w, "check", "create", lastSession + 1) /\ ShapeInv'
           /\ UndoCreate(w) => Starts(w, "lock", "delete", work[w].s) /\ ShapeInv'
           /\ AdminSessionUpdate(w) =>
                /\ \E s \in Present : Starts(w, "lock", "move", s)
                /\ ShapeInv'
           /\ AdminSessionDelete(w) =>
                /\ \E s \in Present : Starts(w, "lock", "delete", s)
                /\ ShapeInv'
<1>1. work[w] \in Request /\ Shaped(work[w]) /\ work \in [Workers -> Request]
  BY DEF ShapeInv
<1>0. DOMAIN Resting.held = {}
  BY DEF Resting
<1>3. SessionIds \subseteq Int
  BY ConcurrentAssumption DEF SessionIds
<1>4. ASSUME AdminSessionCreate(w)
      PROVE  Starts(w, "check", "create", lastSession + 1) /\ ShapeInv'
  <2>1. PICK row \in SessionForms, t \in Teachers \cup {Unstaffed} :
           /\ Lasts(row) > 0
           /\ Goes(w, [Resting EXCEPT !.pc = "check", !.op = "create", !.s = lastSession + 1,
                                      !.t = t, !.row = row])
    BY <1>4 DEF AdminSessionCreate
  <2> DEFINE q == [Resting EXCEPT !.pc = "check", !.op = "create", !.s = lastSession + 1,
                                  !.t = t, !.row = row]
  <2>2. lastSession + 1 \in SessionIds /\ row \in Lasting
    BY <1>4, <2>1, ConcurrentAssumption DEF SessionIds, AdminSessionCreate, ShapeInv, Lasting
  <2>3. /\ q \in Request /\ q.pc = "check" /\ q.op = "create" /\ q.s = lastSession + 1
        /\ q.row = row /\ q.held = Resting.held
    BY <1>3, <2>2, RestingIsShaped DEF Request, Lasting
  <2>4. Goes(w, q)
    BY <2>1
  <2> HIDE DEF q
  <2>5. Shaped(q)
    BY <1>0, <2>2, <2>3 DEF Shaped
  <2>6. UNCHANGED <<sessions, staffing, booked>> /\ lastSession' \in 0 .. MaxSessions
    BY <1>4, <2>2, ConcurrentAssumption DEF AdminSessionCreate, SessionIds
  <2>7. ShapeInv'
    BY <2>3, <2>4, <2>5, <2>6, OneWorks DEF ShapeInv
  <2>8. Starts(w, q.pc, q.op, q.s)
    BY <1>1, <2>3, <2>4, Started
  <2> QED
    BY <2>3, <2>7, <2>8
<1>5. ASSUME NEW s \in SessionIds, UNCHANGED <<sessions, staffing, booked, lastSession>>,
             Goes(w, [Resting EXCEPT !.pc = "lock", !.op = "delete", !.s = s])
      PROVE  Starts(w, "lock", "delete", s) /\ ShapeInv'
  <2> DEFINE q == [Resting EXCEPT !.pc = "lock", !.op = "delete", !.s = s]
  <2>1. /\ q \in Request /\ q.pc = "lock" /\ q.op = "delete" /\ q.s = s
        /\ q.held = Resting.held
    BY <1>3, RestingIsShaped DEF Request
  <2>2. Goes(w, q)
    BY <1>5
  <2> HIDE DEF q
  <2>3. Shaped(q)
    BY <1>0, <2>1 DEF Shaped
  <2>4. ShapeInv'
    BY <1>5, <2>1, <2>2, <2>3, OneWorks DEF ShapeInv
  <2>5. Starts(w, q.pc, q.op, q.s)
    BY <1>1, <2>1, <2>2, Started
  <2> QED
    BY <2>1, <2>4, <2>5
<1>6. UndoCreate(w) => work[w].s \in SessionIds
  BY <1>1 DEF UndoCreate, Shaped
<1>7. ASSUME AdminSessionUpdate(w)
      PROVE  (\E s \in Present : Starts(w, "lock", "move", s)) /\ ShapeInv'
  <2>1. PICK s \in Present : \E row \in {r \in SessionForms : r.class = sessions[s].class} :
           /\ Lasts(row) > 0
           /\ Goes(w, [Resting EXCEPT !.pc = "lock", !.op = "move", !.s = s, !.row = row])
    BY <1>7 DEF AdminSessionUpdate
  <2>2. PICK row \in SessionForms :
           /\ Lasts(row) > 0
           /\ Goes(w, [Resting EXCEPT !.pc = "lock", !.op = "move", !.s = s, !.row = row])
    BY <2>1
  <2> DEFINE q == [Resting EXCEPT !.pc = "lock", !.op = "move", !.s = s, !.row = row]
  <2>3. row \in Lasting /\ s \in SessionIds
    BY <2>2 DEF Lasting, Present
  <2>4. /\ q \in Request /\ q.pc = "lock" /\ q.op = "move" /\ q.s = s
        /\ q.row = row /\ q.held = Resting.held
    BY <1>3, <2>3, RestingIsShaped DEF Request, Lasting
  <2>5. Goes(w, q)
    BY <2>2
  <2> HIDE DEF q
  <2>6. Shaped(q)
    BY <1>0, <2>3, <2>4 DEF Shaped
  <2>7. ShapeInv'
    BY <1>7, <2>4, <2>5, <2>6, OneWorks DEF ShapeInv, AdminSessionUpdate
  <2>8. Starts(w, q.pc, q.op, q.s)
    BY <1>1, <2>4, <2>5, Started
  <2> QED
    BY <2>4, <2>7, <2>8
<1> QED
  BY <1>4, <1>5, <1>6, <1>7 DEF UndoCreate, AdminSessionDelete, Present

\* A session that is created is there, and its teacher is next.
LEMMA CreateCommits ==
    ASSUME ShapeInv, NEW w \in Workers, CommitCreate(w)
    PROVE  /\ work[w].op = "create" /\ work[w].pc = "inserted" /\ work[w].row \in Lasting
           /\ sessions' = [sessions EXCEPT ![work[w].s] = work[w].row]
           /\ UNCHANGED <<staffing, booked, lastSession>>
           /\ \/ Rests(w)
              \/ Starts(w, "vet", "staff", work[w].s)
           /\ ShapeInv'
<1>1. work[w] \in Request /\ Shaped(work[w]) /\ work \in [Workers -> Request]
  BY DEF ShapeInv
<1>2. /\ work[w].op = "create" /\ work[w].pc = "inserted" /\ work[w].row \in Lasting
      /\ work[w].s \in SessionIds /\ work[w].s \in Int /\ work[w].t \in Teachers \cup {Unstaffed}
  BY <1>1 DEF CommitCreate, Shaped, Request
<1>3. /\ sessions' = [sessions EXCEPT ![work[w].s] = work[w].row]
      /\ UNCHANGED <<staffing, booked, lastSession>>
  BY DEF CommitCreate
<1>4. sessions' \in [SessionIds -> Lasting \cup {NoSession}]
  BY <1>2, <1>3 DEF ShapeInv
<1>5. CASE Goes(w, Resting)
  <2>1. Starts(w, Resting.pc, Resting.op, Resting.s)
    BY <1>1, <1>5, RestingIsShaped, Started
  <2>2. Rests(w)
    BY <2>1 DEF Starts, Rests, Resting
  <2>3. ShapeInv'
    BY <1>3, <1>4, <1>5, RestingIsShaped, OneWorks DEF ShapeInv
  <2> QED
    BY <1>2, <1>3, <2>2, <2>3
<1>6. CASE /\ work[w].t # Unstaffed
           /\ Goes(w, [Resting EXCEPT !.pc = "vet", !.op = "staff", !.s = work[w].s, !.t = work[w].t])
  <2> DEFINE q == [Resting EXCEPT !.pc = "vet", !.op = "staff", !.s = work[w].s, !.t = work[w].t]
  <2>1. /\ q \in Request /\ q.pc = "vet" /\ q.op = "staff" /\ q.s = work[w].s
        /\ q.t = work[w].t /\ q.held = Resting.held
    BY <1>2, RestingIsShaped DEF Request
  <2>2. Goes(w, q)
    BY <1>6
  <2> HIDE DEF q
  <2>3. DOMAIN Resting.held = {}
    BY DEF Resting
  <2>4. Shaped(q)
    BY <1>2, <1>6, <2>1, <2>3 DEF Shaped
  <2>5. ShapeInv'
    BY <1>3, <1>4, <2>1, <2>2, <2>4, OneWorks DEF ShapeInv
  <2>6. Starts(w, q.pc, q.op, q.s)
    BY <1>1, <2>1, <2>2, Started
  <2> QED
    BY <1>2, <1>3, <2>1, <2>5, <2>6
<1> QED
  BY <1>5, <1>6 DEF CommitCreate

\* A request that reads or adjusts hours stays at its statement.
LEMMA Adjusting ==
    ASSUME ShapeInv, NEW w \in Workers, ReadHours(w) \/ AdjustBalance(w) \/ UpdateSession(w)
    PROVE  Onward(w, "adjust") /\ UNCHANGED <<sessions, staffing, booked, lastSession>>
<1>1. work[w] \in Request /\ work \in [Workers -> Request]
  BY DEF ShapeInv
<1>2. PICK todo, held :
         \/ Goes(w, [work[w] EXCEPT !.pc = "adjust", !.todo = todo])
         \/ work[w].pc = "adjust" /\ Goes(w, [work[w] EXCEPT !.todo = todo, !.held = held])
  BY DEF ReadHours, AdjustBalance, UpdateSession
<1>3. Onward(w, "adjust")
  BY <1>1, <1>2, ZenonT(60) DEF Goes, Onward, Others, Request
<1> QED
  BY <1>3 DEF ReadHours, AdjustBalance, UpdateSession

-----------------------------------------------------------------------------
(* What the row locks rule out                                             *)

Changes(q) == q.op \in {"move", "delete"} /\ q.pc # "lock"
Refers(q) == q.op = "staff" /\ q.pc \in {"hours", "adjust"}

\* A session that is changed, or has a teacher coming, stays, and nobody else
\* changes it.
LockInv ==
    /\ \A w \in Workers : Changes(work[w]) \/ Refers(work[w]) => work[w].s \in Present
    /\ \A v, w \in Workers :
          v # w /\ Changes(work[w]) /\ (Changes(work[v]) \/ Refers(work[v]))
          => work[v].s # work[w].s

\* A request that is where it was, or rests, disturbs no lock.
LEMMA NoNewLock ==
    ASSUME LockInv, NEW w \in Workers, Others(w),
           Changes(work'[w]) => Changes(work[w]) /\ work'[w].s = work[w].s,
           Refers(work'[w]) => Refers(work[w]) /\ work'[w].s = work[w].s,
           \A v \in Workers : Changes(work'[v]) \/ Refers(work'[v]) =>
                              (work[v].s \in Present => work[v].s \in Present')
    PROVE  LockInv'
  BY DEF LockInv, Others

\* Every step keeps the locks.
LEMMA LockStep ==
    ASSUME ShapeInv, LockInv, [ConcurrentNext]_concurrentVars PROVE LockInv'
<1>1. CASE UNCHANGED concurrentVars
  BY <1>1 DEF concurrentVars, LockInv, Present
<1> SUFFICES ASSUME NEW w \in Workers,
                \/ AdminSessionCreate(w) \/ CheckGroup(w) \/ CreateSession(w) \/ CommitCreate(w)
                \/ AddSessionTeacher(w) \/ Refer(w) \/ ReadHours(w) \/ CommitStaff(w) \/ UndoCreate(w)
                \/ AdjustBalance(w)
                \/ AdminSessionUpdate(w) \/ AdminSessionDelete(w) \/ LockSession(w)
                \/ UpdateSession(w) \/ CommitMove(w) \/ DeleteSession(w)
                \/ Abort(w)
             PROVE  LockInv'
  BY <1>1 DEF ConcurrentNext
<1>2. work[w] \in Request /\ Shaped(work[w])
  BY DEF ShapeInv
<1>3. CASE AdminSessionCreate(w) \/ UndoCreate(w) \/ AdminSessionUpdate(w) \/ AdminSessionDelete(w)
  <2>1. PICK pc, op, s : Starts(w, pc, op, s) /\ pc \in {"check", "lock"}
                         /\ (pc = "check" => op = "create") /\ op # "staff"
    BY <1>3, Starters
  <2>2. UNCHANGED sessions
    BY <1>3 DEF AdminSessionCreate, UndoCreate, AdminSessionUpdate, AdminSessionDelete
  <2> QED
    BY <2>1, <2>2, NoNewLock DEF Starts, Changes, Refers, Present
<1>4. CASE CheckGroup(w) \/ CreateSession(w) \/ AddSessionTeacher(w)
  <2>1. PICK pc \in {"insert", "inserted", "refer"} : Onward(w, pc)
    BY <1>4, ProceedsOnward DEF Proceeds
  <2>2. UNCHANGED sessions /\ (Changes(work'[w]) => Changes(work[w])) /\ ~ Refers(work'[w])
    BY <1>2, <1>4, <2>1 DEF CheckGroup, CreateSession, AddSessionTeacher, Onward, Changes, Refers, Shaped
  <2> QED
    BY <2>1, <2>2, NoNewLock DEF Onward, Present
<1>5. CASE CommitCreate(w)
  <2>1. Rests(w) \/ Starts(w, "vet", "staff", work[w].s)
    BY <1>5, CreateCommits
  <2>2. Present \subseteq Present'
    BY <1>5, CreateCommits, FormsAreSessions DEF Present, ShapeInv, Lasting
  <2>3. Others(w) /\ ~ Changes(work'[w]) /\ ~ Refers(work'[w])
    BY <2>1 DEF Rests, Starts, Changes, Refers
  <2> QED
    BY <2>2, <2>3, NoNewLock
<1>6. CASE Refer(w)
  <2>1. Onward(w, "hours") /\ UNCHANGED sessions
    BY <1>6, ProceedsOnward DEF Proceeds, Refer
  <2>2. work[w].op = "staff" /\ work[w].s \in Present /\ Changing(work[w].s) = {}
    BY <1>2, <1>6 DEF Refer, Shaped, Request
  <2>3. \A v \in Workers : Changes(work[v]) => work[v].s # work[w].s
    BY <2>2 DEF Changing, Changes, ShapeInv, Shaped
  <2>4. ~ Changes(work'[w]) /\ work'[w].s = work[w].s
    BY <2>1, <2>2 DEF Onward, Changes
  <2> QED
    BY <2>1, <2>2, <2>3, <2>4 DEF LockInv, Onward, Others, Present
<1>7. CASE ReadHours(w) \/ AdjustBalance(w) \/ UpdateSession(w)
  <2>1. Onward(w, "adjust") /\ UNCHANGED sessions
    BY <1>7, Adjusting
  <2>2. work[w].pc \in {"hours", "adjust", "insert"} /\ (work[w].pc = "insert" => work[w].op = "move")
    BY <1>7 DEF ReadHours, AdjustBalance, UpdateSession
  <2> QED
    BY <2>1, <2>2, NoNewLock DEF Onward, Changes, Refers, Present
<1>8. CASE LockSession(w)
  <2>1. PICK pc : Onward(w, pc) /\ UNCHANGED sessions
    BY <1>2, <1>8, ProceedsOnward DEF Proceeds, LockSession, Shaped, Request
  <2>2. /\ work[w].op \in {"move", "delete"} /\ work[w].s \in Present
        /\ Changing(work[w].s) = {} /\ Referring(work[w].s) = {}
    BY <1>2, <1>8 DEF LockSession, Shaped, Request
  <2>3. \A v \in Workers : Changes(work[v]) \/ Refers(work[v]) => work[v].s # work[w].s
    BY <2>2 DEF Changing, Referring, Changes, Refers, ShapeInv, Shaped
  <2>4. ~ Refers(work'[w]) /\ work'[w].s = work[w].s
    BY <2>1, <2>2 DEF Onward, Refers
  <2> QED
    BY <2>1, <2>2, <2>3, <2>4 DEF LockInv, Onward, Others, Present
<1>9. CASE CommitStaff(w) \/ CommitMove(w) \/ Abort(w)
  <2>1. Rests(w)
    BY <1>9, Resters
  <2>2. Present \subseteq Present'
    <3>1. CASE CommitMove(w)
      <4>1. work[w].row \in Lasting
        BY <1>2, <3>1 DEF CommitMove, Shaped
      <4> QED
        BY <3>1, <4>1, FormsAreSessions DEF CommitMove, Present, ShapeInv, Lasting
    <3> QED
      BY <1>9, <3>1 DEF CommitStaff, Abort, Present
  <2>3. Others(w) /\ ~ Changes(work'[w]) /\ ~ Refers(work'[w])
    BY <2>1 DEF Rests, Changes, Refers
  <2> QED
    BY <2>2, <2>3, NoNewLock
<1>10. CASE DeleteSession(w)
  <2>1. Rests(w)
    BY <1>10, Resters
  <2>2. \A s \in Present : s # work[w].s => s \in Present'
    BY <1>10 DEF DeleteSession, Present, ShapeInv
  <2>3. Changes(work[w])
    BY <1>2, <1>10 DEF DeleteSession, Shaped, Request, Changes
  <2>4. Others(w) /\ ~ Changes(work'[w]) /\ ~ Refers(work'[w])
    BY <2>1 DEF Rests, Changes, Refers
  <2> QED
    BY <2>2, <2>3, <2>4 DEF LockInv, Others
<1> QED
  BY <1>3, <1>4, <1>5, <1>6, <1>7, <1>8, <1>9, <1>10

-----------------------------------------------------------------------------
(* Types and shapes stay                                                   *)

\* A line of hours is about a balance.
LEMMA EntryIsTyped ==
    ASSUME NEW t \in Teachers, NEW row \in Lasting, NEW h \in Int
    PROVE  Entry(t, row, h) \in Entries /\ Entry(t, row, h).key = <<t, YearOf[row.day]>>
           /\ Entry(t, row, h).delta = h
  BY FormFields DEF Entry, Entries, YearlyBalances, Lasting

\* An update of the balances to come is one to balances.
LEMMA Listing ==
    ASSUME ShapeInv, NEW w \in Workers, NEW todo \in Seq(Entries),
           work[w].op \in {"staff", "move"},
           Goes(w, [work[w] EXCEPT !.pc = "adjust", !.todo = todo]),
           UNCHANGED <<sessions, staffing, booked, lastSession>>
    PROVE  /\ work'[w].todo = todo /\ work'[w].held = work[w].held
           /\ ShapeInv'
<1>1. work[w] \in Request /\ Shaped(work[w]) /\ work \in [Workers -> Request]
  BY DEF ShapeInv
<1> DEFINE q == [work[w] EXCEPT !.pc = "adjust", !.todo = todo]
<1>2. /\ q \in Request /\ q.pc = "adjust" /\ q.op = work[w].op /\ q.s = work[w].s
      /\ q.t = work[w].t /\ q.row = work[w].row /\ q.held = work[w].held /\ q.todo = todo
  BY <1>1 DEF Request
<1>3. Goes(w, q)
  OBVIOUS
<1> HIDE DEF q
<1>4. Shaped(q)
  BY <1>1, <1>2 DEF Shaped
<1>5. ShapeInv'
  BY <1>2, <1>3, <1>4, OneWorks DEF ShapeInv
<1> QED
  BY <1>1, <1>2, <1>3, <1>5 DEF Goes

\* The hours of a session that is there are read.
LEMMA HoursAreRead ==
    ASSUME ShapeInv, LockInv, NEW w \in Workers, ReadHours(w)
    PROVE  /\ work[w].op = "staff" /\ work[w].t \in Teachers /\ work[w].s \in SessionIds
           /\ sessions[work[w].s] \in Lasting /\ DOMAIN work[w].held = {}
           /\ work'[w].todo = <<Entry(work[w].t, sessions[work[w].s], Lasts(sessions[work[w].s]))>>
           /\ work'[w].held = work[w].held
           /\ ShapeInv'
<1>1. work[w] \in Request /\ Shaped(work[w]) /\ work[w].pc = "hours"
  BY DEF ShapeInv, ReadHours
<1>2. /\ work[w].op = "staff" /\ work[w].t \in Teachers /\ work[w].s \in SessionIds
      /\ DOMAIN work[w].held = {}
  BY <1>1 DEF Shaped, Request
<1>3. sessions[work[w].s] \in Lasting
  BY <1>1, <1>2 DEF LockInv, Refers, Present, ShapeInv
<1> DEFINE e == Entry(work[w].t, sessions[work[w].s], Lasts(sessions[work[w].s]))
<1>4. e \in Entries
  BY <1>2, <1>3, FormFields, EntryIsTyped DEF Lasting
<1>5. Goes(w, [work[w] EXCEPT !.pc = "adjust", !.todo = <<e>>])
  BY DEF ReadHours
<1>6. UNCHANGED <<sessions, staffing, booked, lastSession>>
  BY DEF ReadHours
<1> HIDE DEF e
<1>7. <<e>> \in Seq(Entries)
  BY <1>4
<1>8. work'[w].todo = <<e>> /\ work'[w].held = work[w].held /\ ShapeInv'
  BY <1>2, <1>5, <1>6, <1>7, Listing
<1> QED
  BY <1>2, <1>3, <1>8 DEF e

Same(w) ==
    LET old == sessions[work[w].s]
    IN  <<old.day, old.from, old.to>> = <<work[w].row.day, work[w].row.from, work[w].row.to>>

\* What a move has still to adjust at first.
MoveList(w) ==
    LET old == sessions[work[w].s]
        t == staffing[work[w].s]
    IN  IF Same(w) \/ t = Unstaffed THEN <<>>
        ELSE <<Entry(t, old, -Lasts(old)), Entry(t, work[w].row, Lasts(work[w].row))>>

\* The hours of a session that is there are changed.
LEMMA MoveIsListed ==
    ASSUME ShapeInv, LockInv, NEW w \in Workers, UpdateSession(w)
    PROVE  /\ work[w].op = "move" /\ work[w].s \in SessionIds /\ work[w].row \in Lasting
           /\ sessions[work[w].s] \in Lasting /\ DOMAIN work[w].held = {}
           /\ work'[w].todo = MoveList(w)
           /\ work'[w].held = work[w].held
           /\ ShapeInv'
<1>1. work[w] \in Request /\ Shaped(work[w]) /\ work[w].pc = "insert" /\ work[w].op = "move"
  BY DEF ShapeInv, UpdateSession
<1>2. /\ work[w].row \in Lasting /\ work[w].s \in SessionIds /\ DOMAIN work[w].held = {}
  BY <1>1 DEF Shaped, Request
<1>3. sessions[work[w].s] \in Lasting /\ staffing[work[w].s] \in Teachers \cup {Unstaffed}
  BY <1>1, <1>2 DEF LockInv, Changes, Present, ShapeInv
<1>4. MoveList(w) \in Seq(Entries)
  <2>1. CASE Same(w) \/ staffing[work[w].s] = Unstaffed
    BY <2>1 DEF MoveList
  <2>2. CASE ~ (Same(w) \/ staffing[work[w].s] = Unstaffed)
    <3> DEFINE e == Entry(staffing[work[w].s], sessions[work[w].s], -Lasts(sessions[work[w].s]))
               f == Entry(staffing[work[w].s], work[w].row, Lasts(work[w].row))
    <3>1. Lasts(sessions[work[w].s]) \in Int /\ Lasts(work[w].row) \in Int
      BY <1>2, <1>3, FormFields DEF Lasting
    <3>2. e \in Entries /\ f \in Entries
      BY <1>2, <1>3, <2>2, <3>1, EntryIsTyped
    <3>3. MoveList(w) = <<e, f>>
      BY <2>2 DEF MoveList
    <3> HIDE DEF e, f
    <3> QED
      BY <3>2, <3>3
  <2> QED
    BY <2>1, <2>2
<1>5. Goes(w, [work[w] EXCEPT !.pc = "adjust", !.todo = MoveList(w)])
  BY DEF UpdateSession, MoveList, Same
<1>6. UNCHANGED <<sessions, staffing, booked, lastSession>>
  BY DEF UpdateSession
<1>7. work'[w].todo = MoveList(w) /\ work'[w].held = work[w].held /\ ShapeInv'
  BY <1>1, <1>4, <1>5, <1>6, Listing
<1> QED
  BY <1>1, <1>2, <1>3, <1>7

\* What a transaction takes a balance to be, and what it makes of it.
Current(w, key) == IF Holds(w, key) THEN work[w].held[key] ELSE booked[key]
After(w, key, delta) == IF Current(w, key) + delta < 0 THEN 0 ELSE Current(w, key) + delta

\* The balance that is next is adjusted, while nobody else holds it.
LEMMA BalanceIsAdjusted ==
    ASSUME ShapeInv, NEW w \in Workers, AdjustBalance(w),
           NEW key, NEW delta, key = Head(work[w].todo).key, delta = Head(work[w].todo).delta
    PROVE  /\ work[w].todo # <<>> /\ work'[w].todo = Tail(work[w].todo)
           /\ work[w].pc = "adjust"
           /\ key \in YearlyBalances /\ delta \in Int
           /\ \A v \in Workers \ {w} : key \notin DOMAIN work[v].held
           /\ delta > 0 => Current(w, key) + delta <= YearCap[key[1]]
           /\ Current(w, key) \in Nat
           /\ DOMAIN work'[w].held = DOMAIN work[w].held \cup {key}
           /\ work'[w].held[key] = After(w, key, delta)
           /\ \A b \in DOMAIN work[w].held \ {key} : work'[w].held[b] = work[w].held[b]
           /\ ShapeInv'
<1>1. work[w] \in Request /\ Shaped(work[w]) /\ work \in [Workers -> Request]
  BY DEF ShapeInv
<1>2. /\ work[w].pc = "adjust" /\ work[w].todo # <<>> /\ work[w].todo \in Seq(Entries)
      /\ \A v \in Workers \ {w} : key \notin DOMAIN work[v].held
      /\ delta > 0 => Current(w, key) + delta <= YearCap[key[1]]
      /\ UNCHANGED <<sessions, staffing, booked, lastSession>>
  BY <1>1 DEF AdjustBalance, Holds, Current, Request
<1>3. PICK todo : todo = Tail(work[w].todo)
  OBVIOUS
<1>4. Head(work[w].todo) \in Entries /\ todo \in Seq(Entries)
  BY <1>2, <1>3
<1>5. key \in YearlyBalances /\ delta \in Int
  BY <1>4 DEF Entries
<1>6. PICK B \in SUBSET YearlyBalances : work[w].held \in [B -> Nat]
  BY <1>1 DEF Request, Amounts
<1>7. Current(w, key) \in Nat
  BY <1>5, <1>6 DEF Current, Holds, ShapeInv
<1>8. PICK after \in Nat : after = After(w, key, delta)
  BY <1>5, <1>7 DEF After
<1>9. PICK held : held = [b \in DOMAIN work[w].held \cup {key} |->
                              IF b = key THEN after ELSE work[w].held[b]]
  OBVIOUS
<1>10. /\ held \in Amounts /\ DOMAIN held = DOMAIN work[w].held \cup {key} /\ held[key] = after
       /\ \A b \in DOMAIN work[w].held \ {key} : held[b] = work[w].held[b]
  <2>1. held \in [B \cup {key} -> Nat]
    BY <1>6, <1>8, <1>9
  <2>2. B \cup {key} \in SUBSET YearlyBalances
    BY <1>5, <1>6
  <2>3. held \in Amounts
    BY <2>1, <2>2 DEF Amounts
  <2> QED
    BY <1>9, <2>3
<1> DEFINE q == [work[w] EXCEPT !.todo = todo, !.held = held]
<1>11. Goes(w, q)
  BY <1>3, <1>8, <1>9 DEF AdjustBalance, Holds, Current, After
<1>12. /\ q \in Request /\ q.pc = "adjust" /\ q.op = work[w].op /\ q.s = work[w].s
       /\ q.t = work[w].t /\ q.row = work[w].row /\ q.held = held /\ q.todo = todo
  BY <1>1, <1>2, <1>4, <1>10 DEF Request
<1> HIDE DEF q
<1>13. Shaped(q)
  BY <1>1, <1>2, <1>12 DEF Shaped
<1>14. ShapeInv'
  BY <1>2, <1>11, <1>12, <1>13, OneWorks DEF ShapeInv
<1>15. work'[w].held = held /\ work'[w].todo = todo
  BY <1>1, <1>11, <1>12 DEF Goes
<1> QED
  BY <1>2, <1>3, <1>5, <1>7, <1>8, <1>10, <1>14, <1>15

\* Every step keeps the types and the shapes.
LEMMA ShapeStep ==
    ASSUME ShapeInv, LockInv, [ConcurrentNext]_concurrentVars PROVE ShapeInv'
<1>1. CASE UNCHANGED concurrentVars
  BY <1>1 DEF concurrentVars, ShapeInv
<1>2. ASSUME NEW w \in Workers,
             \/ CheckGroup(w) \/ CreateSession(w) \/ AddSessionTeacher(w) \/ Refer(w)
             \/ LockSession(w)
      PROVE  ShapeInv'
  <2>1. work[w] \in Request /\ Shaped(work[w])
    BY DEF ShapeInv
  <2>2. \E pc : Proceeds(w, pc)
    BY <1>2, <2>1 DEF Proceeds, LockSession, Shaped, Request
  <2> QED
    BY <2>2, ProceedsOnward
<1> QED
  BY <1>1, <1>2, Starters, CreateCommits, Resters, HoursAreRead, MoveIsListed, BalanceIsAdjusted
     DEF ConcurrentNext

-----------------------------------------------------------------------------
(* Whose session is whose                                                  *)

Makes(q) == q.op \in {"create", "staff"}

\* A session is made by one request, under an id of its own, and has no
\* teacher before its maker gives it one.
MakerInv ==
    /\ \A s \in SessionIds : s > lastSession => s \notin Present
    /\ \A s \in SessionIds : s \notin Present => staffing[s] = Unstaffed
    /\ \A w \in Workers :
          /\ work[w].op # "none" => work[w].s <= lastSession
          /\ work[w].op = "create" => work[w].s \notin Present
          /\ Makes(work[w]) => staffing[work[w].s] = Unstaffed
    /\ \A v, w \in Workers : v # w /\ Makes(work[v]) /\ Makes(work[w]) => work[v].s # work[w].s

\* A request that makes nothing new, and no session, disturbs no maker.
LEMMA NoNewMaker ==
    ASSUME ShapeInv, MakerInv, NEW w \in Workers, Others(w),
           work'[w].op # "none" => work'[w].s <= lastSession,
           work'[w].op = "create" => work[w].op = "create" /\ work'[w].s = work[w].s,
           work'[w].op = "staff" => Makes(work[w]) /\ work'[w].s = work[w].s,
           UNCHANGED <<sessions, staffing, lastSession>>
    PROVE  MakerInv'
  BY DEF MakerInv, Others, Makes, Present

\* Every step keeps the sessions with their makers.
LEMMA MakerStep ==
    ASSUME ShapeInv, LockInv, MakerInv, [ConcurrentNext]_concurrentVars PROVE MakerInv'
<1>1. CASE UNCHANGED concurrentVars
  BY <1>1 DEF concurrentVars, MakerInv, Present, Makes
<1> SUFFICES ASSUME NEW w \in Workers,
                \/ AdminSessionCreate(w) \/ CheckGroup(w) \/ CreateSession(w) \/ CommitCreate(w)
                \/ AddSessionTeacher(w) \/ Refer(w) \/ ReadHours(w) \/ CommitStaff(w) \/ UndoCreate(w)
                \/ AdjustBalance(w)
                \/ AdminSessionUpdate(w) \/ AdminSessionDelete(w) \/ LockSession(w)
                \/ UpdateSession(w) \/ CommitMove(w) \/ DeleteSession(w)
                \/ Abort(w)
             PROVE  MakerInv'
  BY <1>1 DEF ConcurrentNext
<1>2. /\ work[w] \in Request /\ Shaped(work[w]) /\ lastSession \in 0 .. MaxSessions
      /\ sessions \in [SessionIds -> Lasting \cup {NoSession}]
      /\ staffing \in [SessionIds -> Teachers \cup {Unstaffed}]
  BY DEF ShapeInv
<1>3. CASE AdminSessionCreate(w)
  <2>1. Starts(w, "check", "create", lastSession + 1)
    BY <1>3, Starters
  <2>2. UNCHANGED <<sessions, staffing>> /\ lastSession' = lastSession + 1
        /\ lastSession + 1 \in SessionIds
    <3>1. /\ UNCHANGED <<sessions, staffing>> /\ lastSession' = lastSession + 1
          /\ lastSession < MaxSessions
      BY <1>3 DEF AdminSessionCreate
    <3> QED
      BY <1>2, <3>1, ConcurrentAssumption DEF SessionIds
  <2>3. \A v \in Workers : work[v].op # "none" => work[v].s \in SessionIds /\ work[v].s <= lastSession
    BY DEF MakerInv, ShapeInv, Shaped
  <2>4. \A s \in SessionIds : s > lastSession' => s \notin Present'
    BY <1>2, <2>2, ConcurrentAssumption DEF MakerInv, Present, SessionIds
  <2>5. lastSession + 1 \notin Present /\ staffing[lastSession + 1] = Unstaffed
    BY <1>2, <2>2 DEF MakerInv
  <2>6. \A v \in Workers : work[v].op # "none" =>
           work[v].s <= lastSession' /\ work[v].s # lastSession + 1
    BY <1>2, <2>2, <2>3, ConcurrentAssumption DEF SessionIds
  <2> QED
    BY <1>2, <2>1, <2>2, <2>4, <2>5, <2>6 DEF MakerInv, Starts, Others, Makes, Present
<1>4. CASE UndoCreate(w)
  <2>1. Starts(w, "lock", "delete", work[w].s) /\ UNCHANGED <<sessions, staffing, lastSession>>
        /\ work[w].op # "none"
    BY <1>4, Starters DEF UndoCreate
  <2> QED
    BY <2>1, NoNewMaker DEF Starts, MakerInv
<1>5. CASE AdminSessionUpdate(w) \/ AdminSessionDelete(w)
  <2>1. PICK s \in Present, op \in {"move", "delete"} : Starts(w, "lock", op, s)
    BY <1>5, Starters
  <2>2. UNCHANGED <<sessions, staffing, lastSession>>
    BY <1>5 DEF AdminSessionUpdate, AdminSessionDelete
  <2>3. s <= lastSession
    BY <1>2, ConcurrentAssumption DEF MakerInv, Present, SessionIds
  <2> QED
    BY <2>1, <2>2, <2>3, NoNewMaker DEF Starts
<1>6. CASE CheckGroup(w) \/ CreateSession(w) \/ AddSessionTeacher(w) \/ Refer(w) \/ LockSession(w)
           \/ ReadHours(w) \/ AdjustBalance(w) \/ UpdateSession(w)
  <2>1. (\E pc : Proceeds(w, pc)) \/ ReadHours(w) \/ AdjustBalance(w) \/ UpdateSession(w)
    BY <1>2, <1>6 DEF Proceeds, LockSession, Shaped, Request
  <2>2. PICK pc : Onward(w, pc)
    BY <2>1, ProceedsOnward, Adjusting
  <2>3. UNCHANGED <<sessions, staffing, lastSession>>
    BY <1>6 DEF CheckGroup, CreateSession, AddSessionTeacher, Refer, LockSession, ReadHours,
        AdjustBalance, UpdateSession
  <2> QED
    BY <2>2, <2>3, NoNewMaker DEF Onward, MakerInv, Makes
<1>7. CASE CommitCreate(w)
  <2>1. Rests(w) \/ Starts(w, "vet", "staff", work[w].s)
    BY <1>7, CreateCommits
  <2>2. /\ work[w].op = "create" /\ work[w].row \in Lasting /\ work[w].s \in SessionIds
        /\ sessions' = [sessions EXCEPT ![work[w].s] = work[w].row]
        /\ UNCHANGED <<staffing, lastSession>>
    BY <1>2, <1>7, CreateCommits DEF Shaped
  <2>3. Present' = Present \cup {work[w].s}
    BY <1>2, <2>2, FormsAreSessions DEF Present, Lasting
  <2>4. ~ (work[w].s > lastSession)
    BY <1>2, <2>2, ConcurrentAssumption DEF MakerInv, SessionIds
  <2> QED
    BY <2>1, <2>2, <2>3, <2>4 DEF MakerInv, Rests, Starts, Others, Makes
<1>8. CASE Abort(w)
  <2>1. Rests(w) /\ UNCHANGED <<sessions, staffing, lastSession>>
    BY <1>8, Resters DEF Abort
  <2> QED
    BY <2>1, NoNewMaker DEF Rests
<1>9. CASE CommitStaff(w)
  <2>1. Rests(w) /\ UNCHANGED <<sessions, lastSession>>
        /\ staffing' = [staffing EXCEPT ![work[w].s] = work[w].t]
    BY <1>9, Resters DEF CommitStaff
  <2>2. work[w].op = "staff" /\ work[w].s \in SessionIds /\ work[w].s \in Present
    BY <1>2, <1>9 DEF CommitStaff, Shaped, LockInv, Refers
  <2>3. \A v \in Workers \ {w} : Makes(work[v]) => work[v].s # work[w].s /\ work[v].s \in SessionIds
    BY <2>2 DEF MakerInv, Makes, ShapeInv, Shaped
  <2> QED
    BY <1>2, <2>1, <2>2, <2>3 DEF MakerInv, Rests, Others, Makes, Present
<1>10. CASE CommitMove(w)
  <2>1. Rests(w) /\ UNCHANGED <<staffing, lastSession>>
        /\ sessions' = [sessions EXCEPT ![work[w].s] = work[w].row]
    BY <1>10, Resters DEF CommitMove
  <2>2. work[w].row \in Lasting /\ work[w].s \in SessionIds /\ work[w].s \in Present
    BY <1>2, <1>10 DEF CommitMove, Shaped, LockInv, Changes
  <2>3. Present' = Present
    BY <1>2, <2>1, <2>2, FormsAreSessions DEF Present, Lasting
  <2> QED
    BY <2>1, <2>3 DEF MakerInv, Rests, Others, Makes
<1>11. CASE DeleteSession(w)
  <2>1. Rests(w) /\ UNCHANGED lastSession
        /\ sessions' = [sessions EXCEPT ![work[w].s] = NoSession]
        /\ staffing' = [staffing EXCEPT ![work[w].s] = Unstaffed]
    BY <1>11, Resters DEF DeleteSession
  <2>2. Present' = Present \ {work[w].s}
    BY <1>2, <2>1 DEF Present
  <2>3. \A s \in SessionIds : staffing'[s] = IF s = work[w].s THEN Unstaffed ELSE staffing[s]
    BY <1>2, <2>1
  <2>4. \A v \in Workers : Makes(work[v]) => work[v].s \in SessionIds
    BY DEF Makes, ShapeInv, Shaped
  <2> QED
    BY <2>1, <2>2, <2>3, <2>4 DEF MakerInv, Rests, Others, Makes
<1> QED
  BY <1>3, <1>4, <1>5, <1>6, <1>7, <1>8, <1>9, <1>10, <1>11

-----------------------------------------------------------------------------
(* The groups of the sessions                                              *)

\* The requests that have checked the group of the session they will commit,
\* and those that have checked the teacher.
GroupChecked(q) ==
    q.op \in {"create", "move"} /\ q.pc \in {"insert", "inserted", "refer", "hours", "adjust"}
TeacherChecked(q) ==
    q.op = "staff" /\ q.pc \in {"insert", "inserted", "refer", "hours", "adjust"}

Together(a, b) ==
    /\ Meet(a, b) /\ GroupOf[a.class] = GroupOf[b.class] /\ GroupOf[a.class] # Ungrouped

\* What is checked meets only sessions that it was checked without sight of.
GroupInv ==
    /\ \A w \in Workers, s \in Present :
          GroupChecked(work[w]) /\ s # work[w].s /\ Together(sessions[s], work[w].row)
          => {work[w].s, s} \in crossed
    /\ \A v, w \in Workers :
          v # w /\ GroupChecked(work[v]) /\ GroupChecked(work[w])
          => {work[v].s, work[w].s} \in crossed
    /\ GroupsApartUnlessRacing

\* Two sessions meet or not, whichever is named first.
LEMMA TogetherIsMutual == \A a, b : Together(a, b) <=> Together(b, a)
  BY DEF Together, Meet

\* The property, with sessions that meet in one group named together.
LEMMA ApartIsTogether ==
    GroupsApartUnlessRacing <=>
      \A s, q \in Present : s # q /\ Together(sessions[s], sessions[q]) => {s, q} \in crossed
  BY DEF GroupsApartUnlessRacing, Together

\* A request that checks nothing and commits nothing leaves the groups apart.
LEMMA NoNewMeeting ==
    ASSUME GroupInv, NEW w \in Workers, Others(w),
           GroupChecked(work'[w]) =>
             GroupChecked(work[w]) /\ work'[w].s = work[w].s /\ work'[w].row = work[w].row,
           Present' \subseteq Present, \A s \in Present' : sessions'[s] = sessions[s],
           UNCHANGED crossed
    PROVE  GroupInv'
<1>1. \A v \in Workers : GroupChecked(work'[v]) =>
         GroupChecked(work[v]) /\ work'[v].s = work[v].s /\ work'[v].row = work[v].row
  BY DEF Others
<1>2. GroupsApartUnlessRacing'
  BY DEF GroupsApartUnlessRacing, GroupInv
<1> QED
  BY <1>1, <1>2 DEF GroupInv

\* A session that is committed after its check meets only those it was
\* checked without sight of.
LEMMA MeetingCommits ==
    ASSUME ShapeInv, GroupInv, NEW w \in Workers, Others(w), GroupChecked(work[w]),
           work[w].row \in Lasting, work[w].s \in SessionIds, ~ GroupChecked(work'[w]),
           sessions' = [sessions EXCEPT ![work[w].s] = work[w].row], UNCHANGED crossed
    PROVE  GroupInv'
<1>1. \A s \in Present' : /\ s = work[w].s => sessions'[s] = work[w].row
                          /\ s # work[w].s => s \in Present /\ sessions'[s] = sessions[s]
  <2>1. sessions \in [SessionIds -> Lasting \cup {NoSession}]
    BY DEF ShapeInv
  <2>2. \A s \in SessionIds : sessions'[s] = IF s = work[w].s THEN work[w].row ELSE sessions[s]
    BY <2>1
  <2> QED
    BY <2>2 DEF Present
<1>2. \A v \in Workers, s \in Present' :
         GroupChecked(work'[v]) /\ s # work'[v].s /\ Together(sessions'[s], work'[v].row)
         => {work'[v].s, s} \in crossed'
  <2> SUFFICES ASSUME NEW v \in Workers, NEW s \in Present', GroupChecked(work'[v]),
                      s # work'[v].s, Together(sessions'[s], work'[v].row)
               PROVE  {work'[v].s, s} \in crossed
    OBVIOUS
  <2>1. v # w /\ work'[v] = work[v]
    BY DEF Others
  <2>2. CASE s = work[w].s
    BY <2>1, <2>2 DEF GroupInv
  <2>3. CASE s # work[w].s
    BY <1>1, <2>1, <2>3 DEF GroupInv
  <2> QED
    BY <2>2, <2>3
<1>3. \A u, v \in Workers :
         u # v /\ GroupChecked(work'[u]) /\ GroupChecked(work'[v])
         => {work'[u].s, work'[v].s} \in crossed'
  BY DEF GroupInv, Others
<1>4. \A s, q \in Present' :
         s # q /\ Together(sessions'[s], sessions'[q]) => {s, q} \in crossed'
  <2> SUFFICES ASSUME NEW s \in Present', NEW q \in Present', s # q,
                      Together(sessions'[s], sessions'[q])
               PROVE  {s, q} \in crossed
    OBVIOUS
  <2>1. CASE s = work[w].s
    <3>1. q \in Present /\ sessions'[q] = sessions[q] /\ sessions'[s] = work[w].row
      BY <1>1, <2>1
    <3>2. {work[w].s, q} \in crossed
      BY <2>1, <3>1, TogetherIsMutual DEF GroupInv
    <3> QED
      BY <2>1, <3>2
  <2>2. CASE q = work[w].s
    <3>1. s \in Present /\ sessions'[s] = sessions[s] /\ sessions'[q] = work[w].row
      BY <1>1, <2>2
    <3>2. {work[w].s, s} \in crossed
      BY <2>2, <3>1 DEF GroupInv
    <3>3. {s, q} = {work[w].s, s}
      BY <2>2
    <3> QED
      BY <3>2, <3>3
  <2>3. CASE s # work[w].s /\ q # work[w].s
    BY <1>1, <2>3, ApartIsTogether DEF GroupInv
  <2> QED
    BY <2>1, <2>2, <2>3
<1>5. GroupsApartUnlessRacing'
  BY <1>4 DEF GroupsApartUnlessRacing, Together
<1> QED
  BY <1>2, <1>3, <1>5 DEF GroupInv

\* Every step keeps the groups apart.
LEMMA GroupStep ==
    ASSUME ShapeInv, LockInv, GroupInv, [ConcurrentNext]_concurrentVars PROVE GroupInv'
<1>1. CASE UNCHANGED concurrentVars
  BY <1>1 DEF concurrentVars, GroupInv, GroupsApartUnlessRacing, Present
<1> SUFFICES ASSUME NEW w \in Workers,
                \/ AdminSessionCreate(w) \/ CheckGroup(w) \/ CreateSession(w) \/ CommitCreate(w)
                \/ AddSessionTeacher(w) \/ Refer(w) \/ ReadHours(w) \/ CommitStaff(w) \/ UndoCreate(w)
                \/ AdjustBalance(w)
                \/ AdminSessionUpdate(w) \/ AdminSessionDelete(w) \/ LockSession(w)
                \/ UpdateSession(w) \/ CommitMove(w) \/ DeleteSession(w)
                \/ Abort(w)
             PROVE  GroupInv'
  BY <1>1 DEF ConcurrentNext
<1>2. work[w] \in Request /\ Shaped(work[w])
  BY DEF ShapeInv
<1>3. CASE AdminSessionCreate(w) \/ UndoCreate(w) \/ AdminSessionUpdate(w) \/ AdminSessionDelete(w)
  <2>1. PICK pc, op, s : pc \in {"check", "lock"} /\ Starts(w, pc, op, s)
    BY <1>3, Starters
  <2>2. UNCHANGED <<sessions, crossed>>
    BY <1>3 DEF AdminSessionCreate, UndoCreate, AdminSessionUpdate, AdminSessionDelete
  <2>3. ~ GroupChecked(work'[w]) /\ Others(w)
    BY <2>1 DEF Starts, GroupChecked
  <2> QED
    BY <2>2, <2>3, NoNewMeeting DEF Present
<1>4. CASE CheckGroup(w)
  <2>1. Onward(w, "insert") /\ UNCHANGED sessions
    BY <1>4, ProceedsOnward DEF Proceeds, CheckGroup
  <2>2. /\ ~ GroupTaken(work[w].s, work[w].row)
        /\ crossed' = crossed \cup Crossing(w, {"create", "move"})
    BY <1>4 DEF CheckGroup
  <2>3. \A s \in Present : s # work[w].s => ~ Together(sessions[s], work[w].row)
    BY <2>2 DEF GroupTaken, Together
  <2>4. \A v \in Workers \ {w} : GroupChecked(work[v]) => {work[w].s, work[v].s} \in crossed'
    BY <2>2 DEF Crossing, Checked, GroupChecked
  <2>5. /\ work'[w].s = work[w].s /\ work'[w].row = work[w].row
        /\ \A v \in Workers \ {w} : work'[v] = work[v]
        /\ crossed \subseteq crossed' /\ Present' = Present
    BY <2>1, <2>2 DEF Onward, Others, Present
  <2>6. \A v \in Workers, s \in Present' :
           GroupChecked(work'[v]) /\ s # work'[v].s /\ Together(sessions'[s], work'[v].row)
           => {work'[v].s, s} \in crossed'
    BY <2>1, <2>3, <2>5 DEF GroupInv
  <2>7. \A u, v \in Workers :
           u # v /\ GroupChecked(work'[u]) /\ GroupChecked(work'[v])
           => {work'[u].s, work'[v].s} \in crossed'
    <3> SUFFICES ASSUME NEW u \in Workers, NEW v \in Workers, u # v,
                        GroupChecked(work'[u]), GroupChecked(work'[v])
                 PROVE  {work'[u].s, work'[v].s} \in crossed'
      OBVIOUS
    <3>1. CASE u = w
      BY <2>4, <2>5, <3>1
    <3>2. CASE v = w
      <4>1. {work[w].s, work[u].s} \in crossed'
        BY <2>4, <2>5, <3>2
      <4>2. {work'[u].s, work'[v].s} = {work[w].s, work[u].s}
        BY <2>5, <3>2
      <4> QED
        BY <4>1, <4>2
    <3>3. CASE u # w /\ v # w
      BY <2>5, <3>3 DEF GroupInv
    <3> QED
      BY <3>1, <3>2, <3>3
  <2>8. GroupsApartUnlessRacing'
    BY <2>1, <2>5 DEF GroupInv, GroupsApartUnlessRacing
  <2> QED
    BY <2>6, <2>7, <2>8 DEF GroupInv
<1>5. CASE CreateSession(w) \/ AddSessionTeacher(w) \/ Refer(w) \/ LockSession(w)
           \/ ReadHours(w) \/ AdjustBalance(w) \/ UpdateSession(w)
  <2>1. (\E pc : Proceeds(w, pc)) \/ ReadHours(w) \/ AdjustBalance(w) \/ UpdateSession(w)
    BY <1>2, <1>5 DEF Proceeds, LockSession, Shaped, Request
  <2>2. PICK pc : Onward(w, pc)
    BY <2>1, ProceedsOnward, Adjusting
  <2>3. UNCHANGED <<sessions, crossed>>
    BY <1>5 DEF CreateSession, AddSessionTeacher, Refer, LockSession, ReadHours,
        AdjustBalance, UpdateSession
  <2>4. GroupChecked(work'[w]) => GroupChecked(work[w])
    <3>1. CASE LockSession(w)
      <4>1. Onward(w, "check") \/ Onward(w, "delete")
        BY <1>2, <3>1, ProceedsOnward DEF Proceeds, LockSession, Shaped, Request
      <4> QED
        BY <4>1 DEF Onward, GroupChecked
    <3>2. CASE AddSessionTeacher(w)
      BY <1>2, <2>2, <3>2 DEF AddSessionTeacher, Onward, GroupChecked, Shaped
    <3> QED
      BY <1>5, <2>2, <3>1, <3>2 DEF CreateSession, Refer, ReadHours, AdjustBalance, UpdateSession,
          Onward, GroupChecked
  <2> QED
    BY <2>2, <2>3, <2>4, NoNewMeeting DEF Onward, Present
<1>6. CASE CommitCreate(w)
  <2>1. Rests(w) \/ Starts(w, "vet", "staff", work[w].s)
    BY <1>6, CreateCommits
  <2>2. /\ GroupChecked(work[w]) /\ work[w].row \in Lasting /\ work[w].s \in SessionIds
        /\ sessions' = [sessions EXCEPT ![work[w].s] = work[w].row]
        /\ UNCHANGED crossed
    BY <1>2, <1>6, CreateCommits DEF Shaped, GroupChecked, CommitCreate
  <2>3. Others(w) /\ ~ GroupChecked(work'[w])
    BY <2>1 DEF Rests, Starts, GroupChecked
  <2> QED
    BY <2>2, <2>3, MeetingCommits
<1>7. CASE CommitMove(w)
  <2>1. Rests(w)
    BY <1>7, Resters
  <2>2. /\ GroupChecked(work[w]) /\ work[w].row \in Lasting /\ work[w].s \in SessionIds
        /\ sessions' = [sessions EXCEPT ![work[w].s] = work[w].row]
        /\ UNCHANGED crossed
    BY <1>2, <1>7 DEF Shaped, GroupChecked, CommitMove
  <2>3. Others(w) /\ ~ GroupChecked(work'[w])
    BY <2>1 DEF Rests, GroupChecked
  <2> QED
    BY <2>2, <2>3, MeetingCommits
<1>8. CASE CommitStaff(w) \/ DeleteSession(w) \/ Abort(w)
  <2>1. Rests(w)
    BY <1>8, Resters
  <2>2. /\ Present' \subseteq Present /\ \A s \in Present' : sessions'[s] = sessions[s]
        /\ UNCHANGED crossed
    BY <1>8 DEF CommitStaff, DeleteSession, Abort, Present, ShapeInv
  <2>3. Others(w) /\ ~ GroupChecked(work'[w])
    BY <2>1 DEF Rests, GroupChecked
  <2> QED
    BY <2>2, <2>3, NoNewMeeting
<1> QED
  BY <1>3, <1>4, <1>5, <1>6, <1>7, <1>8

-----------------------------------------------------------------------------
(* The teachers of the sessions                                            *)

Raced(pairs, moved, s, q) == {s, q} \in pairs \/ s \in moved \/ q \in moved

\* A teacher who is coming is busy only with sessions that the check could
\* not see, or that moved.
TeacherInv ==
    /\ \A w \in Workers, s \in Present :
          /\ TeacherChecked(work[w]) /\ work[w].s \in Present /\ s # work[w].s
          /\ staffing[s] = work[w].t /\ Meet(sessions[s], sessions[work[w].s])
          => Raced(paired, relocated, work[w].s, s)
    /\ \A v, w \in Workers :
          v # w /\ TeacherChecked(work[v]) /\ TeacherChecked(work[w])
          => {work[v].s, work[w].s} \in paired
    /\ \A s, q \in Present :
          /\ s # q /\ Meet(sessions[s], sessions[q])
          /\ staffing[s] = staffing[q] /\ staffing[s] # Unstaffed
          => Raced(paired, relocated, s, q)

\* Whoever is named first.
LEMMA Mutual ==
    /\ \A a, b : Meet(a, b) <=> Meet(b, a)
    /\ \A s, q : Raced(paired, relocated, s, q) <=> Raced(paired, relocated, q, s)
<1>1. \A s, q : {s, q} = {q, s}
  OBVIOUS
<1> QED
  BY <1>1 DEF Meet, Raced

\* A request that checks no teacher and brings none leaves them apart.
LEMMA NoNewTeacher ==
    ASSUME TeacherInv, NEW w \in Workers, Others(w),
           TeacherChecked(work'[w]) =>
             TeacherChecked(work[w]) /\ work'[w].s = work[w].s /\ work'[w].t = work[w].t,
           Present' \subseteq Present,
           \A s \in Present' : sessions'[s] = sessions[s] /\ staffing'[s] = staffing[s],
           UNCHANGED <<paired, relocated>>
    PROVE  TeacherInv'
<1>1. \A v \in Workers : TeacherChecked(work'[v]) =>
         TeacherChecked(work[v]) /\ work'[v].s = work[v].s /\ work'[v].t = work[v].t
  BY DEF Others
<1> QED
  BY <1>1 DEF TeacherInv, Raced

\* Every step keeps the teachers apart.
LEMMA TeacherStep ==
    ASSUME ShapeInv, LockInv, MakerInv, TeacherInv, [ConcurrentNext]_concurrentVars
    PROVE  TeacherInv'
<1>1. CASE UNCHANGED concurrentVars
  BY <1>1 DEF concurrentVars, TeacherInv, Raced, Present
<1> SUFFICES ASSUME NEW w \in Workers,
                \/ AdminSessionCreate(w) \/ CheckGroup(w) \/ CreateSession(w) \/ CommitCreate(w)
                \/ AddSessionTeacher(w) \/ Refer(w) \/ ReadHours(w) \/ CommitStaff(w) \/ UndoCreate(w)
                \/ AdjustBalance(w)
                \/ AdminSessionUpdate(w) \/ AdminSessionDelete(w) \/ LockSession(w)
                \/ UpdateSession(w) \/ CommitMove(w) \/ DeleteSession(w)
                \/ Abort(w)
             PROVE  TeacherInv'
  BY <1>1 DEF ConcurrentNext
<1>2. /\ work[w] \in Request /\ Shaped(work[w])
      /\ sessions \in [SessionIds -> Lasting \cup {NoSession}]
      /\ staffing \in [SessionIds -> Teachers \cup {Unstaffed}]
  BY DEF ShapeInv
<1>3. CASE AdminSessionCreate(w) \/ UndoCreate(w) \/ AdminSessionUpdate(w) \/ AdminSessionDelete(w)
  <2>1. PICK pc, op, s : pc \in {"check", "lock"} /\ Starts(w, pc, op, s)
    BY <1>3, Starters
  <2>2. UNCHANGED <<sessions, staffing, paired, relocated>>
    BY <1>3 DEF AdminSessionCreate, UndoCreate, AdminSessionUpdate, AdminSessionDelete
  <2>3. ~ TeacherChecked(work'[w]) /\ Others(w)
    BY <2>1 DEF Starts, TeacherChecked
  <2> QED
    BY <2>2, <2>3, NoNewTeacher DEF Present
<1>4. CASE AddSessionTeacher(w)
  <2>1. Onward(w, "refer") /\ UNCHANGED <<sessions, staffing, relocated>>
    BY <1>4, ProceedsOnward DEF Proceeds, AddSessionTeacher
  <2>2. /\ ~ TeacherTaken(work[w].t, work[w].s)
        /\ paired' = paired \cup Crossing(w, {"staff"})
    BY <1>4 DEF AddSessionTeacher
  <2>3. \A s \in Present : s # work[w].s /\ work[w].s \in Present =>
           ~ (staffing[s] = work[w].t /\ Meet(sessions[s], sessions[work[w].s]))
    BY <2>2 DEF TeacherTaken
  <2>4. \A v \in Workers \ {w} : TeacherChecked(work[v]) => {work[w].s, work[v].s} \in paired'
    BY <2>2 DEF Crossing, Checked, TeacherChecked
  <2>5. /\ work'[w].s = work[w].s /\ work'[w].t = work[w].t
        /\ \A v \in Workers \ {w} : work'[v] = work[v]
        /\ paired \subseteq paired' /\ Present' = Present
    BY <2>1, <2>2 DEF Onward, Others, Present
  <2>6. \A s, q : Raced(paired, relocated, s, q) => Raced(paired', relocated', s, q)
    BY <2>1, <2>5 DEF Raced
  <2>7. \A v \in Workers, s \in Present' :
           /\ TeacherChecked(work'[v]) /\ work'[v].s \in Present' /\ s # work'[v].s
           /\ staffing'[s] = work'[v].t /\ Meet(sessions'[s], sessions'[work'[v].s])
           => Raced(paired', relocated', work'[v].s, s)
    <3> SUFFICES ASSUME NEW v \in Workers, NEW s \in Present', TeacherChecked(work'[v]),
                        work'[v].s \in Present', s # work'[v].s, staffing'[s] = work'[v].t,
                        Meet(sessions'[s], sessions'[work'[v].s])
                 PROVE  Raced(paired', relocated', work'[v].s, s)
      OBVIOUS
    <3>1. v # w /\ work'[v] = work[v]
      BY <2>1, <2>3, <2>5
    <3>2. Raced(paired, relocated, work[v].s, s)
      BY <2>1, <2>5, <3>1 DEF TeacherInv
    <3> QED
      BY <3>1, <3>2, <2>6 DEF Raced
  <2>8. \A u, v \in Workers :
           u # v /\ TeacherChecked(work'[u]) /\ TeacherChecked(work'[v])
           => {work'[u].s, work'[v].s} \in paired'
    <3> SUFFICES ASSUME NEW u \in Workers, NEW v \in Workers, u # v,
                        TeacherChecked(work'[u]), TeacherChecked(work'[v])
                 PROVE  {work'[u].s, work'[v].s} \in paired'
      OBVIOUS
    <3>1. CASE u = w
      BY <2>4, <2>5, <3>1
    <3>2. CASE v = w
      <4>1. {work[w].s, work[u].s} \in paired'
        BY <2>4, <2>5, <3>2
      <4>2. {work'[u].s, work'[v].s} = {work[w].s, work[u].s}
        BY <2>5, <3>2
      <4> QED
        BY <4>1, <4>2
    <3>3. CASE u # w /\ v # w
      BY <2>5, <3>3 DEF TeacherInv
    <3> QED
      BY <3>1, <3>2, <3>3
  <2>9. \A s, q \in Present' :
           /\ s # q /\ Meet(sessions'[s], sessions'[q])
           /\ staffing'[s] = staffing'[q] /\ staffing'[s] # Unstaffed
           => Raced(paired', relocated', s, q)
    BY <2>1, <2>5 DEF TeacherInv, Raced
  <2> QED
    BY <2>7, <2>8, <2>9 DEF TeacherInv
<1>5. CASE CheckGroup(w) \/ CreateSession(w) \/ Refer(w) \/ LockSession(w)
           \/ ReadHours(w) \/ AdjustBalance(w) \/ UpdateSession(w)
  <2>1. (\E pc : Proceeds(w, pc)) \/ ReadHours(w) \/ AdjustBalance(w) \/ UpdateSession(w)
    BY <1>2, <1>5 DEF Proceeds, LockSession, Shaped, Request
  <2>2. PICK pc : Onward(w, pc)
    BY <2>1, ProceedsOnward, Adjusting
  <2>3. UNCHANGED <<sessions, staffing, paired, relocated>>
    BY <1>5 DEF CheckGroup, CreateSession, Refer, LockSession, ReadHours, AdjustBalance, UpdateSession
  <2>4. TeacherChecked(work'[w]) => TeacherChecked(work[w])
    <3>1. TeacherChecked(work'[w]) => work[w].op = "staff"
      BY <2>2 DEF Onward, TeacherChecked
    <3>2. ~ LockSession(w) \/ work[w].op # "staff"
      BY <1>2 DEF LockSession, Shaped
    <3>3. ~ CheckGroup(w) \/ work[w].op # "staff"
      BY <1>2 DEF CheckGroup, Shaped
    <3> QED
      BY <1>5, <3>1, <3>2, <3>3 DEF CreateSession, Refer, ReadHours, AdjustBalance, UpdateSession,
         TeacherChecked
  <2> QED
    BY <2>2, <2>3, <2>4, NoNewTeacher DEF Onward, Present
<1>6. CASE CommitCreate(w)
  <2>1. Rests(w) \/ Starts(w, "vet", "staff", work[w].s)
    BY <1>6, CreateCommits
  <2>2. /\ work[w].op = "create" /\ work[w].row \in Lasting /\ work[w].s \in SessionIds
        /\ sessions' = [sessions EXCEPT ![work[w].s] = work[w].row]
        /\ UNCHANGED <<staffing, paired, relocated>>
    BY <1>2, <1>6, CreateCommits DEF Shaped, CommitCreate
  <2>3. Others(w) /\ ~ TeacherChecked(work'[w])
    BY <2>1 DEF Rests, Starts, TeacherChecked
  <2>4. staffing[work[w].s] = Unstaffed
    BY <2>2 DEF MakerInv, Makes
  <2>5. \A s \in Present' : s # work[w].s => s \in Present /\ sessions'[s] = sessions[s]
    BY <1>2, <2>2 DEF Present
  <2>6. \A v \in Workers \ {w} : TeacherChecked(work[v]) =>
           work[v].t # Unstaffed /\ work[v].s # work[w].s
    BY <2>2, ConcurrentAssumption DEF TeacherChecked, ShapeInv, Shaped, MakerInv, Makes
  <2>7. \A v \in Workers : TeacherChecked(work'[v]) => v # w /\ work'[v] = work[v]
    BY <2>3 DEF Others
  <2>8. \A v \in Workers, s \in Present' :
           /\ TeacherChecked(work'[v]) /\ work'[v].s \in Present' /\ s # work'[v].s
           /\ staffing'[s] = work'[v].t /\ Meet(sessions'[s], sessions'[work'[v].s])
           => Raced(paired', relocated', work'[v].s, s)
    BY <2>2, <2>4, <2>5, <2>6, <2>7 DEF TeacherInv, Raced
  <2>9. \A u, v \in Workers :
           u # v /\ TeacherChecked(work'[u]) /\ TeacherChecked(work'[v])
           => {work'[u].s, work'[v].s} \in paired'
    BY <2>2, <2>7 DEF TeacherInv
  <2>10. \A s, q \in Present' :
            /\ s # q /\ Meet(sessions'[s], sessions'[q])
            /\ staffing'[s] = staffing'[q] /\ staffing'[s] # Unstaffed
            => Raced(paired', relocated', s, q)
    BY <2>2, <2>4, <2>5 DEF TeacherInv, Raced
  <2> QED
    BY <2>8, <2>9, <2>10 DEF TeacherInv
<1>7. CASE CommitStaff(w)
  <2>1. Rests(w) /\ UNCHANGED <<sessions, paired, relocated>>
        /\ staffing' = [staffing EXCEPT ![work[w].s] = work[w].t]
    BY <1>7, Resters DEF CommitStaff
  <2>2. TeacherChecked(work[w]) /\ work[w].s \in SessionIds /\ work[w].s \in Present
    BY <1>2, <1>7 DEF CommitStaff, Shaped, TeacherChecked, LockInv, Refers
  <2>3. \A v \in Workers : TeacherChecked(work'[v]) => v # w /\ work'[v] = work[v]
    BY <2>1 DEF Rests, Others, TeacherChecked
  <2>4. \A s \in Present : staffing'[s] = IF s = work[w].s THEN work[w].t ELSE staffing[s]
    BY <1>2, <2>1 DEF Present
  <2>5. Present' = Present
    BY <2>1 DEF Present
  <2>6. \A v \in Workers \ {w} : TeacherChecked(work[v]) => {work[v].s, work[w].s} \in paired
    BY <2>2 DEF TeacherInv
  <2>7. \A s \in Present :
           s # work[w].s /\ staffing[s] = work[w].t /\ Meet(sessions[s], sessions[work[w].s])
           => Raced(paired, relocated, work[w].s, s)
    BY <2>2 DEF TeacherInv
  <2>8. \A v \in Workers, s \in Present :
           /\ TeacherChecked(work'[v]) /\ work'[v].s \in Present /\ s # work'[v].s
           /\ staffing'[s] = work'[v].t /\ Meet(sessions[s], sessions[work'[v].s])
           => Raced(paired, relocated, work'[v].s, s)
    <3> SUFFICES ASSUME NEW v \in Workers, NEW s \in Present, TeacherChecked(work[v]), v # w,
                        work[v].s \in Present, s # work[v].s, staffing'[s] = work[v].t,
                        Meet(sessions[s], sessions[work[v].s])
                 PROVE  Raced(paired, relocated, work[v].s, s)
      BY <2>3
    <3>1. CASE s = work[w].s
      BY <2>6, <3>1 DEF Raced
    <3>2. CASE s # work[w].s
      BY <2>4, <3>2 DEF TeacherInv
    <3> QED
      BY <3>1, <3>2
  <2>9. \A u, v \in Workers :
           u # v /\ TeacherChecked(work'[u]) /\ TeacherChecked(work'[v])
           => {work'[u].s, work'[v].s} \in paired
    BY <2>3 DEF TeacherInv
  <2>10. \A s, q \in Present :
            /\ s # q /\ Meet(sessions[s], sessions[q])
            /\ staffing'[s] = staffing'[q] /\ staffing'[s] # Unstaffed
            => Raced(paired, relocated, s, q)
    <3> SUFFICES ASSUME NEW s \in Present, NEW q \in Present, s # q, Meet(sessions[s], sessions[q]),
                        staffing'[s] = staffing'[q], staffing'[s] # Unstaffed
                 PROVE  Raced(paired, relocated, s, q)
      OBVIOUS
    <3>1. CASE s = work[w].s
      BY <2>4, <2>7, <3>1, Mutual
    <3>2. CASE q = work[w].s
      BY <2>4, <2>7, <3>2, Mutual
    <3>3. CASE s # work[w].s /\ q # work[w].s
      BY <2>4, <3>3 DEF TeacherInv
    <3> QED
      BY <3>1, <3>2, <3>3
  <2> QED
    BY <2>1, <2>5, <2>8, <2>9, <2>10 DEF TeacherInv, Raced
<1>8. CASE CommitMove(w)
  <2>1. Rests(w) /\ UNCHANGED <<staffing, paired>>
        /\ sessions' = [sessions EXCEPT ![work[w].s] = work[w].row]
        /\ relocated \subseteq relocated'
    BY <1>8, Resters DEF CommitMove
  <2>2. work[w].s \in SessionIds /\ work[w].s \in Present /\ work[w].row \in Lasting
    BY <1>2, <1>8 DEF CommitMove, Shaped, LockInv, Changes
  <2>3. \A v \in Workers : TeacherChecked(work'[v]) => work'[v] = work[v]
    BY <2>1 DEF Rests, Others, TeacherChecked
  <2>4. \A s \in Present : s # work[w].s => sessions'[s] = sessions[s]
    BY <1>2, <2>1 DEF Present
  <2>5. Present' = Present
    BY <1>2, <2>1, <2>2, FormsAreSessions DEF Present, Lasting
  <2>6. staffing[work[w].s] # Unstaffed => work[w].s \in relocated'
    BY <1>8 DEF CommitMove
  <2>7. \A v \in Workers : TeacherChecked(work[v]) /\ work[v].s = work[w].s => work[w].s \in relocated'
    BY <1>8 DEF CommitMove, Checked, TeacherChecked
  <2>8. \A v \in Workers : TeacherChecked(work[v]) => work[v].t # Unstaffed
    BY ConcurrentAssumption DEF TeacherChecked, ShapeInv, Shaped
  <2>9. \A s, q : Raced(paired, relocated, s, q) => Raced(paired', relocated', s, q)
    BY <2>1 DEF Raced
  <2>10. \A v \in Workers, s \in Present' :
            /\ TeacherChecked(work'[v]) /\ work'[v].s \in Present' /\ s # work'[v].s
            /\ staffing'[s] = work'[v].t /\ Meet(sessions'[s], sessions'[work'[v].s])
            => Raced(paired', relocated', work'[v].s, s)
    <3> SUFFICES ASSUME NEW v \in Workers, NEW s \in Present, TeacherChecked(work'[v]),
                        work'[v] = work[v], work[v].s \in Present, s # work[v].s,
                        staffing[s] = work[v].t, Meet(sessions'[s], sessions'[work[v].s])
                 PROVE  Raced(paired', relocated', work'[v].s, s)
      BY <2>1, <2>3, <2>5
    <3>1. CASE s = work[w].s \/ work[v].s = work[w].s
      BY <2>6, <2>7, <2>8, <3>1 DEF Raced
    <3>2. CASE s # work[w].s /\ work[v].s # work[w].s
      <4>1. Raced(paired, relocated, work[v].s, s)
        BY <2>4, <3>2 DEF TeacherInv
      <4> QED
        BY <2>1, <4>1 DEF Raced
    <3> QED
      BY <3>1, <3>2
  <2>11. \A u, v \in Workers :
            u # v /\ TeacherChecked(work'[u]) /\ TeacherChecked(work'[v])
            => {work'[u].s, work'[v].s} \in paired'
    BY <2>1, <2>3 DEF TeacherInv
  <2>12. \A s, q \in Present' :
            /\ s # q /\ Meet(sessions'[s], sessions'[q])
            /\ staffing'[s] = staffing'[q] /\ staffing'[s] # Unstaffed
            => Raced(paired', relocated', s, q)
    <3> SUFFICES ASSUME NEW s \in Present, NEW q \in Present, s # q,
                        Meet(sessions'[s], sessions'[q]),
                        staffing[s] = staffing[q], staffing[s] # Unstaffed
                 PROVE  Raced(paired', relocated', s, q)
      BY <2>1, <2>5
    <3>1. CASE s = work[w].s \/ q = work[w].s
      BY <2>6, <3>1 DEF Raced
    <3>2. CASE s # work[w].s /\ q # work[w].s
      <4>1. Raced(paired, relocated, s, q)
        BY <2>4, <3>2 DEF TeacherInv
      <4> QED
        BY <2>1, <4>1 DEF Raced
    <3> QED
      BY <3>1, <3>2
  <2> QED
    BY <2>10, <2>11, <2>12 DEF TeacherInv
<1>9. CASE DeleteSession(w) \/ Abort(w)
  <2>1. Rests(w)
    BY <1>9, Resters
  <2>2. /\ Present' \subseteq Present
        /\ \A s \in Present' : sessions'[s] = sessions[s] /\ staffing'[s] = staffing[s]
        /\ UNCHANGED <<paired, relocated>>
    BY <1>2, <1>9 DEF DeleteSession, Abort, Present
  <2>3. Others(w) /\ ~ TeacherChecked(work'[w])
    BY <2>1 DEF Rests, TeacherChecked
  <2> QED
    BY <2>2, <2>3, NoNewTeacher
<1> QED
  BY <1>3, <1>4, <1>5, <1>6, <1>7, <1>8, <1>9

-----------------------------------------------------------------------------
(* What the held balances amount to                                        *)

Freed(amount, hours) == IF amount - hours < 0 THEN 0 ELSE amount - hours

\* A teacher who is coming has the hours of the session still to be charged,
\* or charged.
StaffAmounts(q, row, amounts) ==
    LET key == <<q.t, YearOf[row.day]>>
    IN  \/ q.todo = <<Entry(q.t, row, Lasts(row))>> /\ DOMAIN q.held = {}
        \/ /\ q.todo = <<>> /\ DOMAIN q.held = {key}
           /\ q.held[key] = amounts[key] + Lasts(row)
           /\ q.held[key] <= YearCap[q.t]

SameTimes(old, row) == <<old.day, old.from, old.to>> = <<row.day, row.from, row.to>>

\* A session that moves has its old hours refunded and its new ones charged,
\* in this order, unless there is nothing to charge.
MoveAmounts(q, old, t, amounts) ==
    LET from == <<t, YearOf[old.day]>>
        to == <<t, YearOf[q.row.day]>>
        refund == Entry(t, old, -Lasts(old))
        charge == Entry(t, q.row, Lasts(q.row))
        freed == Freed(amounts[from], Lasts(old))
    IN  IF SameTimes(old, q.row) \/ t = Unstaffed THEN q.todo = <<>> /\ DOMAIN q.held = {}
        ELSE \/ q.todo = <<refund, charge>> /\ DOMAIN q.held = {}
             \/ q.todo = <<charge>> /\ DOMAIN q.held = {from} /\ q.held[from] = freed
             \/ /\ q.todo = <<>> /\ DOMAIN q.held = {from, to}
                /\ q.held[to] <= YearCap[t]
                /\ IF from = to THEN q.held[to] = freed + Lasts(q.row)
                   ELSE q.held[from] = freed /\ q.held[to] = amounts[to] + Lasts(q.row)

\* What is held is held by one, and amounts to what its statement charges.
AmountInv ==
    /\ \A v, w \in Workers : v # w => DOMAIN work[v].held \cap DOMAIN work[w].held = {}
    /\ \A w \in Workers :
          /\ work[w].op = "staff" /\ work[w].pc = "adjust" =>
                StaffAmounts(work[w], sessions[work[w].s], booked)
          /\ work[w].op = "move" /\ work[w].pc = "adjust" =>
                MoveAmounts(work[w], sessions[work[w].s], staffing[work[w].s], booked)

\* The amounts of a request depend only on the balances that it holds.
LEMMA AmountsStay ==
    ASSUME NEW q, NEW amounts, NEW others, \A b \in DOMAIN q.held : others[b] = amounts[b]
    PROVE  /\ \A row : StaffAmounts(q, row, amounts) => StaffAmounts(q, row, others)
           /\ \A old, t : MoveAmounts(q, old, t, amounts) => MoveAmounts(q, old, t, others)
  BY DEF StaffAmounts, MoveAmounts

\* Requests that are not at work keep their amounts.
LEMMA OthersAmount ==
    ASSUME AmountInv, NEW w \in Workers, NEW v \in Workers \ {w}, work'[v] = work[v],
           work[v].pc = "adjust" =>
             /\ sessions'[work[v].s] = sessions[work[v].s]
             /\ work[v].op = "move" => staffing'[work[v].s] = staffing[work[v].s],
           \A b \in DOMAIN work[v].held : booked'[b] = booked[b]
    PROVE  /\ work'[v].op = "staff" /\ work'[v].pc = "adjust" =>
                StaffAmounts(work'[v], sessions'[work'[v].s], booked')
           /\ work'[v].op = "move" /\ work'[v].pc = "adjust" =>
                MoveAmounts(work'[v], sessions'[work'[v].s], staffing'[work'[v].s], booked')
<1>1. /\ \A row : StaffAmounts(work[v], row, booked) => StaffAmounts(work[v], row, booked')
      /\ \A old, t : MoveAmounts(work[v], old, t, booked) => MoveAmounts(work[v], old, t, booked')
  BY AmountsStay
<1> QED
  BY <1>1 DEF AmountInv

\* A step that changes at most the session of its own request, and balances
\* that its own request holds, leaves the others what they amount to.
LEMMA AmountsKeep ==
    ASSUME ShapeInv, ShapeInv', LockInv, MakerInv, AmountInv, NEW w \in Workers, Others(w),
           \A s \in Present : s # work[w].s => sessions'[s] = sessions[s] /\ staffing'[s] = staffing[s],
           sessions'[work[w].s] # sessions[work[w].s] =>
             Changes(work[w]) \/ work[w].s \notin Present,
           staffing'[work[w].s] # staffing[work[w].s] => Changes(work[w]) \/ Refers(work[w]),
           \A b \in YearlyBalances : b \notin DOMAIN work[w].held => booked'[b] = booked[b]
    PROVE  \A v \in Workers \ {w} :
             /\ work'[v].op = "staff" /\ work'[v].pc = "adjust" =>
                  StaffAmounts(work'[v], sessions'[work'[v].s], booked')
             /\ work'[v].op = "move" /\ work'[v].pc = "adjust" =>
                  MoveAmounts(work'[v], sessions'[work'[v].s], staffing'[work'[v].s], booked')
<1> SUFFICES ASSUME NEW v \in Workers \ {w}
             PROVE  /\ work'[v].op = "staff" /\ work'[v].pc = "adjust" =>
                         StaffAmounts(work'[v], sessions'[work'[v].s], booked')
                    /\ work'[v].op = "move" /\ work'[v].pc = "adjust" =>
                         MoveAmounts(work'[v], sessions'[work'[v].s], staffing'[work'[v].s], booked')
  OBVIOUS
<1>1. work'[v] = work[v] /\ work[v] \in Request /\ Shaped(work[v])
  BY DEF Others, ShapeInv
<1>2. \A b \in DOMAIN work[v].held : booked'[b] = booked[b]
  <2>1. PICK B \in SUBSET YearlyBalances : work[v].held \in [B -> Nat]
    BY <1>1, SMTT(30) DEF Request, Amounts
  <2>2. DOMAIN work[v].held \cap DOMAIN work[w].held = {}
    BY DEF AmountInv
  <2> QED
    BY <2>1, <2>2
<1>3. ASSUME work[v].pc = "adjust"
      PROVE  /\ sessions'[work[v].s] = sessions[work[v].s]
             /\ work[v].op = "move" => staffing'[work[v].s] = staffing[work[v].s]
  <2>1. (Changes(work[v]) \/ Refers(work[v])) /\ (work[v].op = "move" => Changes(work[v]))
    BY <1>1, <1>3 DEF Shaped, Request, Changes, Refers
  <2>2. work[v].s \in Present /\ (Changes(work[w]) => work[v].s # work[w].s)
    BY <2>1 DEF LockInv
  <2>3. work[v].op = "move" /\ Refers(work[w]) => work[v].s # work[w].s
    BY <2>1 DEF LockInv
  <2> QED
    BY <2>2, <2>3
<1> QED
  BY <1>1, <1>2, <1>3, OthersAmount

\* A request that is adjusting nothing, or only begins to, holds nothing.
LEMMA HeldApart ==
    ASSUME AmountInv, NEW w \in Workers, Others(w), DOMAIN work'[w].held = {}
    PROVE  \A u, v \in Workers : u # v => DOMAIN work'[u].held \cap DOMAIN work'[v].held = {}
  BY DEF AmountInv, Others

\* A step that leaves its request without amounts to account for.
LEMMA NoAmounts ==
    ASSUME ShapeInv, ShapeInv', LockInv, MakerInv, AmountInv, NEW w \in Workers, Others(w),
           work'[w].pc # "adjust",
           \A s \in Present : s # work[w].s => sessions'[s] = sessions[s] /\ staffing'[s] = staffing[s],
           sessions'[work[w].s] # sessions[work[w].s] =>
             Changes(work[w]) \/ work[w].s \notin Present,
           staffing'[work[w].s] # staffing[work[w].s] => Changes(work[w]) \/ Refers(work[w]),
           \A b \in YearlyBalances : b \notin DOMAIN work[w].held => booked'[b] = booked[b]
    PROVE  AmountInv'
<1>1. DOMAIN work'[w].held = {}
  BY DEF ShapeInv, Shaped
<1>2. \A u, v \in Workers : u # v => DOMAIN work'[u].held \cap DOMAIN work'[v].held = {}
  BY <1>1, HeldApart
<1>3. \A v \in Workers \ {w} :
        /\ work'[v].op = "staff" /\ work'[v].pc = "adjust" =>
             StaffAmounts(work'[v], sessions'[work'[v].s], booked')
        /\ work'[v].op = "move" /\ work'[v].pc = "adjust" =>
             MoveAmounts(work'[v], sessions'[work'[v].s], staffing'[work'[v].s], booked')
  BY AmountsKeep
<1> QED
  BY <1>2, <1>3 DEF AmountInv

\* A step that lets its request know, or adjust, its amounts.
LEMMA NewAmounts ==
    ASSUME ShapeInv, ShapeInv', LockInv, MakerInv, AmountInv, NEW w \in Workers, Others(w),
           UNCHANGED <<sessions, staffing, booked>>,
           \A v \in Workers \ {w} : DOMAIN work[v].held \cap DOMAIN work'[w].held = {},
           work'[w].op = "staff" => StaffAmounts(work'[w], sessions[work'[w].s], booked),
           work'[w].op = "move" =>
             MoveAmounts(work'[w], sessions[work'[w].s], staffing[work'[w].s], booked)
    PROVE  AmountInv'
<1>1. \A u, v \in Workers : u # v => DOMAIN work'[u].held \cap DOMAIN work'[v].held = {}
  BY DEF AmountInv, Others
<1>2. \A v \in Workers \ {w} :
        /\ work'[v].op = "staff" /\ work'[v].pc = "adjust" =>
             StaffAmounts(work'[v], sessions'[work'[v].s], booked')
        /\ work'[v].op = "move" /\ work'[v].pc = "adjust" =>
             MoveAmounts(work'[v], sessions'[work'[v].s], staffing'[work'[v].s], booked')
  BY AmountsKeep
<1> QED
  BY <1>1, <1>2 DEF AmountInv

\* The one balance of a teacher who is coming is charged.
LEMMA StaffIsCharged ==
    ASSUME ShapeInv, LockInv, AmountInv, NEW w \in Workers, AdjustBalance(w), work[w].op = "staff"
    PROVE  /\ Onward(w, "adjust") /\ ShapeInv'
           /\ \A v \in Workers \ {w} : DOMAIN work[v].held \cap DOMAIN work'[w].held = {}
           /\ StaffAmounts(work'[w], sessions[work[w].s], booked)
<1>1. work[w] \in Request /\ Shaped(work[w]) /\ work[w].pc = "adjust"
  BY DEF ShapeInv, AdjustBalance
<1> DEFINE row == sessions[work[w].s]
           t == work[w].t
           e == Entry(t, row, Lasts(row))
<1>2. t \in Teachers /\ row \in Lasting
  BY <1>1 DEF Shaped, LockInv, Refers, Present, ShapeInv
<1>3. StaffAmounts(work[w], row, booked)
  BY <1>1 DEF AmountInv
<1>4. /\ e \in Entries /\ e.key = <<t, YearOf[row.day]>> /\ e.delta = Lasts(row)
      /\ Lasts(row) \in Int /\ Lasts(row) > 0
  BY <1>2, FormFields, EntryIsTyped DEF Lasting
<1>5. work[w].todo # <<>>
  BY DEF AdjustBalance
<1>6. work[w].todo = <<e>> /\ DOMAIN work[w].held = {}
  BY <1>3, <1>5 DEF StaffAmounts
<1> HIDE DEF e, row, t
<1>7. Head(work[w].todo) = e /\ Tail(work[w].todo) = <<>>
  BY <1>6
<1>8. /\ work'[w].todo = <<>>
      /\ \A v \in Workers \ {w} : e.key \notin DOMAIN work[v].held
      /\ e.delta > 0 => Current(w, e.key) + e.delta <= YearCap[e.key[1]]
      /\ Current(w, e.key) \in Nat
      /\ DOMAIN work'[w].held = {e.key}
      /\ work'[w].held[e.key] = After(w, e.key, e.delta)
      /\ ShapeInv'
  <2>1. PICK key, delta : key = Head(work[w].todo).key /\ delta = Head(work[w].todo).delta
    OBVIOUS
  <2>2. /\ work'[w].todo = Tail(work[w].todo)
        /\ \A v \in Workers \ {w} : key \notin DOMAIN work[v].held
        /\ delta > 0 => Current(w, key) + delta <= YearCap[key[1]]
        /\ DOMAIN work'[w].held = DOMAIN work[w].held \cup {key}
        /\ work'[w].held[key] = After(w, key, delta)
        /\ ShapeInv'
    BY <2>1, BalanceIsAdjusted
  <2>3. Current(w, key) \in Nat
    BY <2>1, BalanceIsAdjusted
  <2>4. key = e.key /\ delta = e.delta
    BY <1>7, <2>1
  <2> QED
    BY <1>6, <1>7, <2>2, <2>3, <2>4
<1>9. Onward(w, "adjust")
  BY Adjusting
<1>10. Current(w, e.key) = booked[e.key]
  BY <1>6 DEF Current, Holds
<1>11. e.key[1] = t
  BY <1>4
<1>12. work'[w].held[e.key] = booked[e.key] + Lasts(row) /\ work'[w].held[e.key] <= YearCap[t]
  <2>1. PICK n \in Nat, h \in Int : n = booked[e.key] /\ h = Lasts(row) /\ h > 0
    BY <1>4, <1>8, <1>10
  <2>2. After(w, e.key, e.delta) = n + h
    BY <1>4, <1>10, <2>1 DEF After
  <2> QED
    BY <1>4, <1>8, <1>10, <1>11, <2>1, <2>2
<1>13. StaffAmounts(work'[w], row, booked)
  BY <1>4, <1>8, <1>9, <1>12 DEF StaffAmounts, Onward, t
<1>14. \A v \in Workers \ {w} : DOMAIN work[v].held \cap DOMAIN work'[w].held = {}
  BY <1>8
<1> QED
  BY <1>8, <1>9, <1>13, <1>14 DEF row

\* The next balance of a session that moves is refunded or charged.
LEMMA MoveIsCharged ==
    ASSUME ShapeInv, LockInv, AmountInv, NEW w \in Workers, AdjustBalance(w), work[w].op = "move"
    PROVE  /\ Onward(w, "adjust") /\ ShapeInv'
           /\ \A v \in Workers \ {w} : DOMAIN work[v].held \cap DOMAIN work'[w].held = {}
           /\ MoveAmounts(work'[w], sessions[work[w].s], staffing[work[w].s], booked)
<1>1. /\ work[w] \in Request /\ Shaped(work[w]) /\ work[w].pc = "adjust" /\ work[w].todo # <<>>
      /\ booked \in [YearlyBalances -> Nat]
  BY DEF ShapeInv, AdjustBalance
<1>2. PICK old, t, row, from, to, refund, charge :
         /\ old = sessions[work[w].s] /\ t = staffing[work[w].s] /\ row = work[w].row
         /\ from = <<t, YearOf[old.day]>> /\ to = <<t, YearOf[row.day]>>
         /\ refund = Entry(t, old, -Lasts(old)) /\ charge = Entry(t, row, Lasts(row))
  OBVIOUS
<1>3. row \in Lasting /\ old \in Lasting /\ t \in Teachers \cup {Unstaffed}
  BY <1>1, <1>2 DEF Shaped, LockInv, Changes, Present, ShapeInv
<1>4. MoveAmounts(work[w], old, t, booked)
  BY <1>1, <1>2 DEF AmountInv
<1>5. ~ SameTimes(old, row) /\ t \in Teachers
  BY <1>1, <1>2, <1>3, <1>4 DEF MoveAmounts
<1>6. /\ Lasts(old) \in Int /\ Lasts(old) > 0 /\ Lasts(row) \in Int /\ Lasts(row) > 0
      /\ refund \in Entries /\ refund.key = from /\ refund.delta = -Lasts(old)
      /\ charge \in Entries /\ charge.key = to /\ charge.delta = Lasts(row)
  <2>1. /\ Lasts(old) \in Int /\ Lasts(old) > 0 /\ Lasts(row) \in Int /\ Lasts(row) > 0
    BY <1>3, FormFields DEF Lasting
  <2>2. -Lasts(old) \in Int
    BY <2>1
  <2>3. refund \in Entries /\ refund.key = from /\ refund.delta = -Lasts(old)
    BY <1>2, <1>3, <1>5, <2>2, EntryIsTyped, ZenonT(60)
  <2>4. charge \in Entries /\ charge.key = to /\ charge.delta = Lasts(row)
    BY <1>2, <1>3, <1>5, <2>1, EntryIsTyped, ZenonT(60)
  <2> QED
    BY <2>1, <2>3, <2>4
<1>7. from \in YearlyBalances /\ to \in YearlyBalances /\ from[1] = t /\ to[1] = t
  <2>1. from \in YearlyBalances
    BY <1>6 DEF Entries
  <2>2. to \in YearlyBalances
    BY <1>6 DEF Entries
  <2> QED
    BY <1>2, <2>1, <2>2
<1>8. PICK key, delta : key = Head(work[w].todo).key /\ delta = Head(work[w].todo).delta
  OBVIOUS
<1>9. /\ work'[w].todo = Tail(work[w].todo)
      /\ \A v \in Workers \ {w} : key \notin DOMAIN work[v].held
      /\ delta > 0 => Current(w, key) + delta <= YearCap[key[1]]
      /\ DOMAIN work'[w].held = DOMAIN work[w].held \cup {key}
      /\ work'[w].held[key] = After(w, key, delta)
      /\ \A b \in DOMAIN work[w].held \ {key} : work'[w].held[b] = work[w].held[b]
      /\ ShapeInv'
  BY <1>8, BalanceIsAdjusted
<1>10. Onward(w, "adjust")
  BY Adjusting
<1>11. \A v \in Workers \ {w} : DOMAIN work[v].held \cap DOMAIN work'[w].held = {}
  BY <1>9 DEF AmountInv
<1>12. PICK n \in Nat, m \in Nat, h \in Int, k \in Int :
          /\ n = booked[from] /\ m = booked[to] /\ h = Lasts(old) /\ k = Lasts(row)
          /\ h > 0 /\ k > 0
  BY <1>1, <1>6, <1>7
<1>13. CASE work[w].todo = <<refund, charge>> /\ DOMAIN work[w].held = {}
  <2>1. key = from /\ delta = -h /\ work'[w].todo = <<charge>>
    BY <1>6, <1>8, <1>9, <1>12, <1>13
  <2>2. Current(w, from) = n
    BY <1>12, <1>13 DEF Current, Holds
  <2>3. After(w, from, -h) = Freed(n, h)
    BY <1>12, <2>2 DEF After, Freed
  <2>4. DOMAIN work'[w].held = {from} /\ work'[w].held[from] = Freed(booked[from], Lasts(old))
    BY <1>9, <1>12, <1>13, <2>1, <2>3
  <2>5. MoveAmounts(work'[w], old, t, booked)
    BY <1>2, <1>5, <1>10, <2>1, <2>4, ConcurrentAssumption DEF MoveAmounts, Onward
  <2> QED
    BY <1>2, <1>9, <1>10, <1>11, <2>5
<1>14. CASE /\ work[w].todo = <<charge>> /\ DOMAIN work[w].held = {from}
            /\ work[w].held[from] = Freed(booked[from], Lasts(old))
  <2>1. key = to /\ delta = k /\ work'[w].todo = <<>>
    BY <1>6, <1>8, <1>9, <1>12, <1>14
  <2>2. Current(w, to) = IF from = to THEN Freed(n, h) ELSE m
    BY <1>12, <1>14 DEF Current, Holds
  <2>3. PICK c \in Nat : c = Current(w, to) /\ c = IF from = to THEN Freed(n, h) ELSE m
    BY <1>12, <2>2 DEF Freed
  <2>4. After(w, to, k) = c + k /\ c + k <= YearCap[t]
    BY <1>7, <1>9, <1>12, <2>1, <2>3 DEF After
  <2>5. /\ DOMAIN work'[w].held = {from, to}
        /\ work'[w].held[to] = c + k
        /\ from # to => work'[w].held[from] = Freed(booked[from], Lasts(old))
    BY <1>9, <1>14, <2>1, <2>4
  <2>6. /\ work'[w].held[to] <= YearCap[t]
        /\ IF from = to THEN work'[w].held[to] = Freed(booked[from], Lasts(old)) + Lasts(row)
           ELSE /\ work'[w].held[from] = Freed(booked[from], Lasts(old))
                /\ work'[w].held[to] = booked[to] + Lasts(row)
    BY <1>12, <2>3, <2>4, <2>5
  <2>7. MoveAmounts(work'[w], old, t, booked)
    BY <1>2, <1>5, <1>10, <2>1, <2>5, <2>6, ConcurrentAssumption DEF MoveAmounts, Onward
  <2> QED
    BY <1>2, <1>9, <1>10, <1>11, <2>7
<1> QED
  BY <1>1, <1>2, <1>4, <1>5, <1>13, <1>14, ConcurrentAssumption DEF MoveAmounts

\* Every step keeps the amounts.
LEMMA AmountStep ==
    ASSUME ShapeInv, LockInv, MakerInv, AmountInv, [ConcurrentNext]_concurrentVars
    PROVE  AmountInv'
<1>1. CASE UNCHANGED concurrentVars
  BY <1>1 DEF concurrentVars, AmountInv
<1> SUFFICES ASSUME NEW w \in Workers,
                \/ AdminSessionCreate(w) \/ CheckGroup(w) \/ CreateSession(w) \/ CommitCreate(w)
                \/ AddSessionTeacher(w) \/ Refer(w) \/ ReadHours(w) \/ CommitStaff(w) \/ UndoCreate(w)
                \/ AdjustBalance(w)
                \/ AdminSessionUpdate(w) \/ AdminSessionDelete(w) \/ LockSession(w)
                \/ UpdateSession(w) \/ CommitMove(w) \/ DeleteSession(w)
                \/ Abort(w)
             PROVE  AmountInv'
  BY <1>1 DEF ConcurrentNext
<1>2. /\ work[w] \in Request /\ Shaped(work[w])
      /\ sessions \in [SessionIds -> Lasting \cup {NoSession}]
      /\ staffing \in [SessionIds -> Teachers \cup {Unstaffed}]
      /\ ShapeInv'
  BY ShapeStep DEF ShapeInv
<1>3. CASE AdminSessionCreate(w) \/ UndoCreate(w) \/ AdminSessionUpdate(w) \/ AdminSessionDelete(w)
  <2>1. PICK pc, op, s : pc \in {"check", "lock"} /\ Starts(w, pc, op, s)
    BY <1>3, Starters
  <2>2. UNCHANGED <<sessions, staffing, booked>>
    BY <1>3 DEF AdminSessionCreate, UndoCreate, AdminSessionUpdate, AdminSessionDelete
  <2>3. Others(w) /\ work'[w].pc # "adjust"
    BY <2>1 DEF Starts
  <2> QED
    BY <1>2, <2>2, <2>3, NoAmounts
<1>4. CASE CheckGroup(w) \/ CreateSession(w) \/ AddSessionTeacher(w) \/ Refer(w) \/ LockSession(w)
  <2>1. PICK pc : Proceeds(w, pc)
    BY <1>2, <1>4 DEF Proceeds, LockSession, Shaped, Request
  <2>2. Others(w) /\ work'[w].pc # "adjust"
    BY <2>1, ProceedsOnward DEF Onward, Proceeds
  <2>3. UNCHANGED <<sessions, staffing, booked>>
    BY <1>4 DEF CheckGroup, CreateSession, AddSessionTeacher, Refer, LockSession
  <2> QED
    BY <1>2, <2>2, <2>3, NoAmounts
<1>5. CASE CommitCreate(w)
  <2>1. Rests(w) \/ Starts(w, "vet", "staff", work[w].s)
    BY <1>5, CreateCommits
  <2>2. /\ work[w].op = "create" /\ work[w].s \in SessionIds
        /\ sessions' = [sessions EXCEPT ![work[w].s] = work[w].row]
        /\ UNCHANGED <<staffing, booked>>
    BY <1>2, <1>5, CreateCommits DEF Shaped
  <2>3. Others(w) /\ work'[w].pc # "adjust"
    BY <2>1 DEF Rests, Starts
  <2>4. work[w].s \notin Present
    BY <2>2 DEF MakerInv
  <2>5. \A s \in Present : s # work[w].s => sessions'[s] = sessions[s] /\ staffing'[s] = staffing[s]
    BY <1>2, <2>2 DEF Present
  <2> QED
    BY <1>2, <2>2, <2>3, <2>4, <2>5, NoAmounts
<1>6. CASE ReadHours(w)
  <2>1. /\ work[w].op = "staff" /\ DOMAIN work[w].held = {}
        /\ work'[w].todo = <<Entry(work[w].t, sessions[work[w].s], Lasts(sessions[work[w].s]))>>
        /\ work'[w].held = work[w].held
    BY <1>6, HoursAreRead
  <2>2. Onward(w, "adjust") /\ UNCHANGED <<sessions, staffing, booked>>
    BY <1>6, Adjusting
  <2>3. StaffAmounts(work'[w], sessions[work'[w].s], booked)
    BY <2>1, <2>2 DEF Onward, StaffAmounts
  <2> QED
    BY <1>2, <2>1, <2>2, <2>3, NewAmounts DEF Onward
<1>7. CASE UpdateSession(w)
  <2>1. /\ work[w].op = "move" /\ DOMAIN work[w].held = {}
        /\ work'[w].todo = MoveList(w)
        /\ work'[w].held = work[w].held
    BY <1>7, MoveIsListed
  <2>2. Onward(w, "adjust") /\ UNCHANGED <<sessions, staffing, booked>>
    BY <1>7, Adjusting
  <2>3. MoveAmounts(work'[w], sessions[work'[w].s], staffing[work'[w].s], booked)
    BY <2>1, <2>2 DEF Onward, MoveAmounts, MoveList, SameTimes, Same
  <2> QED
    BY <1>2, <2>1, <2>2, <2>3, NewAmounts DEF Onward
<1>8. CASE AdjustBalance(w)
  <2>1. work[w].op \in {"staff", "move"}
    BY <1>2, <1>8 DEF AdjustBalance, Shaped, Request
  <2>2. Onward(w, "adjust") /\ UNCHANGED <<sessions, staffing, booked>>
    BY <1>8, Adjusting
  <2>3. CASE work[w].op = "staff"
    BY <1>2, <1>8, <2>2, <2>3, StaffIsCharged, NewAmounts DEF Onward
  <2>4. CASE work[w].op = "move"
    BY <1>2, <1>8, <2>2, <2>4, MoveIsCharged, NewAmounts DEF Onward
  <2> QED
    BY <2>1, <2>3, <2>4
<1>9. CASE CommitStaff(w) \/ CommitMove(w)
  <2>1. Others(w) /\ work'[w].pc # "adjust"
    BY <1>9, Resters DEF Rests
  <2>2. work[w].s \in SessionIds /\ (CommitStaff(w) => Refers(work[w]))
        /\ (CommitMove(w) => Changes(work[w]))
    BY <1>2, <1>9 DEF CommitStaff, CommitMove, Shaped, Refers, Changes
  <2>3. \A b \in YearlyBalances : b \notin DOMAIN work[w].held => booked'[b] = booked[b]
    BY <1>9 DEF CommitStaff, CommitMove
  <2>4. \A s \in Present : s # work[w].s => sessions'[s] = sessions[s] /\ staffing'[s] = staffing[s]
    BY <1>2, <1>9 DEF CommitStaff, CommitMove, Present
  <2>5. /\ CommitStaff(w) => UNCHANGED sessions
        /\ CommitMove(w) => UNCHANGED staffing
    BY DEF CommitStaff, CommitMove
  <2> QED
    BY <1>2, <1>9, <2>1, <2>2, <2>3, <2>4, <2>5, NoAmounts
<1>10. CASE DeleteSession(w) \/ Abort(w)
  <2>1. Others(w) /\ work'[w].pc # "adjust"
    BY <1>10, Resters DEF Rests
  <2>2. DeleteSession(w) => Changes(work[w])
    BY <1>2 DEF DeleteSession, Shaped, Request, Changes
  <2>3. UNCHANGED booked /\ (Abort(w) => UNCHANGED <<sessions, staffing>>)
    BY <1>10 DEF DeleteSession, Abort
  <2>4. \A s \in Present : s # work[w].s => sessions'[s] = sessions[s] /\ staffing'[s] = staffing[s]
    BY <1>2, <1>10 DEF DeleteSession, Abort, Present
  <2> QED
    BY <1>2, <1>10, <2>1, <2>2, <2>3, <2>4, NoAmounts
<1> QED
  BY <1>3, <1>4, <1>5, <1>6, <1>7, <1>8, <1>9, <1>10

-----------------------------------------------------------------------------
(* The invariant                                                           *)

ConcurrentInv ==
    ShapeInv /\ LockInv /\ MakerInv /\ GroupInv /\ TeacherInv /\ AmountInv

\* It holds while nobody has done anything.
LEMMA InvHoldsFirst == ConcurrentInit => ConcurrentInv
<1> SUFFICES ASSUME ConcurrentInit PROVE ConcurrentInv
  OBVIOUS
<1>1. /\ work = [w \in Workers |-> Resting] /\ \A w \in Workers : work[w] = Resting
      /\ Present = {} /\ lastSession = 0
  BY DEF ConcurrentInit, Present
<1>2. ShapeInv
  BY <1>1, RestingIsShaped, ConcurrentAssumption DEF ConcurrentInit, ShapeInv
<1>3. Resting.pc = "idle" /\ Resting.op = "none" /\ DOMAIN Resting.held = {}
  BY DEF Resting
<1>4. LockInv
  BY <1>1, <1>3 DEF LockInv, Changes, Refers
<1>5. MakerInv
  BY <1>1, <1>3 DEF ConcurrentInit, MakerInv, Makes
<1>6. GroupInv
  BY <1>1, <1>3 DEF GroupInv, GroupChecked, GroupsApartUnlessRacing
<1>7. TeacherInv
  BY <1>1, <1>3 DEF TeacherInv, TeacherChecked
<1>8. AmountInv
  BY <1>1, <1>3 DEF AmountInv
<1> QED
  BY <1>2, <1>4, <1>5, <1>6, <1>7, <1>8 DEF ConcurrentInv

\* And every step keeps it.
LEMMA InvHoldsOn == ConcurrentInv /\ [ConcurrentNext]_concurrentVars => ConcurrentInv'
  BY ShapeStep, LockStep, MakerStep, GroupStep, TeacherStep, AmountStep DEF ConcurrentInv

\* So it always holds.
THEOREM ConcurrentSafe == ConcurrentSpec => []ConcurrentInv
  BY InvHoldsFirst, InvHoldsOn, PTL DEF ConcurrentSpec

\* Sessions of one intake group meet only when both were checked while the
\* other was not yet committed.
THEOREM GroupsApart == ConcurrentSpec => []GroupsApartUnlessRacing
<1>1. ConcurrentInv => GroupsApartUnlessRacing
  BY DEF ConcurrentInv, GroupInv
<1> QED
  BY <1>1, ConcurrentSafe, PTL

\* A teacher's sessions meet only when the teacher was put on both at the same
\* time, or one of them was moved with the teacher on it or coming.
THEOREM TeachersApart == ConcurrentSpec => []TeachersApartUnlessRacing
<1>1. ConcurrentInv => TeachersApartUnlessRacing
  BY DEF ConcurrentInv, TeacherInv, TeachersApartUnlessRacing, Raced
<1> QED
  BY <1>1, ConcurrentSafe, PTL

-----------------------------------------------------------------------------
(* The balances are an account                                             *)

BookingOf(row, t) ==
    IF row # NoSession /\ t # Unstaffed
    THEN [account |-> <<t, YearOf[row.day]>>, hours |-> Lasts(row)]
    ELSE NoSession

Bookings == [s \in SessionIds |-> BookingOf(sessions[s], staffing[s])]

\* The mapping of Account, session by session, before a step and after it.
LEMMA Mapped ==
    /\ Bookings = [s \in SessionIds |->
          IF s \in Present /\ staffing[s] # Unstaffed
          THEN [account |-> <<staffing[s], YearOf[sessions[s].day]>>, hours |-> Lasts(sessions[s])]
          ELSE NoSession]
    /\ Bookings' = [s \in SessionIds |->
          IF s \in Present /\ staffing[s] # Unstaffed
          THEN [account |-> <<staffing[s], YearOf[sessions[s].day]>>, hours |-> Lasts(sessions[s])]
          ELSE NoSession]'
  BY DEF Bookings, BookingOf, Present

MappedAmounts == {Lasts(row) : row \in {r \in SessionForms : Lasts(r) > 0}}
MappedCap == [b \in YearlyBalances |-> YearCap[b[1]]]

\* The steps of the account, with the names of the mapping.
LEMMA Booked ==
    ASSUME NEW s \in SessionIds, NEW account \in YearlyBalances, NEW hours \in MappedAmounts,
           Bookings[s] = NoSession,
           booked[account] + hours <= YearCap[account[1]],
           Bookings' = [Bookings EXCEPT ![s] = [account |-> account, hours |-> hours]],
           booked' = [booked EXCEPT ![account] = @ + hours]
    PROVE  Account!LedgerNext
<1>1. MappedCap[account] = YearCap[account[1]]
  BY DEF MappedCap
<1>2. Account!Book(s, account, hours)
  BY <1>1, Mapped DEF Account!Book, Account!Booking, Account!Charged, MappedCap
<1> QED
  BY <1>2 DEF Account!LedgerNext, MappedAmounts

\* A booking that is refunded and booked anew.
LEMMA Rebooked ==
    ASSUME NEW s \in SessionIds, NEW account \in YearlyBalances, NEW hours \in MappedAmounts,
           Bookings[s] # NoSession,
           NEW released,
           released = [booked EXCEPT ![Bookings[s].account] = Freed(@, Bookings[s].hours)],
           released[account] + hours <= YearCap[account[1]],
           Bookings' = [Bookings EXCEPT ![s] = [account |-> account, hours |-> hours]],
           booked' = [released EXCEPT ![account] = @ + hours]
    PROVE  Account!LedgerNext
<1>1. MappedCap[account] = YearCap[account[1]]
  BY DEF MappedCap
<1>2. Account!Rebook(s, account, hours)
  BY <1>1, Mapped DEF Account!Rebook, Account!Booking, Account!Charged, Account!Released, Freed, MappedCap
<1> QED
  BY <1>2 DEF Account!LedgerNext, MappedAmounts

\* A booking that goes without a refund.
LEMMA Dropped ==
    ASSUME NEW s \in SessionIds, Bookings' = [Bookings EXCEPT ![s] = NoSession], UNCHANGED booked
    PROVE  Account!LedgerNext
<1>1. Account!Drop(s)
  BY Mapped DEF Account!Drop
<1> QED
  BY <1>1 DEF Account!LedgerNext

\* Neither a booking nor a balance changes.
LEMMA NothingBooked ==
    ASSUME UNCHANGED <<Bookings, booked>> PROVE UNCHANGED Account!ledgerVars
  BY Mapped DEF Account!ledgerVars

\* A teacher who is put on a session is booked for it.
LEMMA StaffIsBooked ==
    ASSUME ConcurrentInv, NEW w \in Workers, CommitStaff(w) PROVE Account!LedgerNext
<1>1. /\ work[w] \in Request /\ Shaped(work[w]) /\ work[w].pc = "adjust" /\ work[w].op = "staff"
      /\ work[w].todo = <<>>
      /\ staffing' = [staffing EXCEPT ![work[w].s] = work[w].t]
      /\ booked' = [b \in YearlyBalances |->
                      IF b \in DOMAIN work[w].held THEN work[w].held[b] ELSE booked[b]]
      /\ UNCHANGED sessions
  BY DEF ConcurrentInv, ShapeInv, CommitStaff
<1>2. PICK s, t, row, key :
         /\ s = work[w].s /\ t = work[w].t /\ row = sessions[s] /\ key = <<t, YearOf[row.day]>>
  OBVIOUS
<1>3. /\ s \in SessionIds /\ t \in Teachers /\ s \in Present /\ row \in Lasting
      /\ staffing[s] = Unstaffed
  BY <1>1, <1>2 DEF ConcurrentInv, Shaped, LockInv, Refers, MakerInv, Makes, Present, ShapeInv
<1>4. key \in YearlyBalances /\ key[1] = t /\ Lasts(row) \in MappedAmounts
  BY <1>2, <1>3, FormFields DEF YearlyBalances, Lasting, MappedAmounts
<1>5. StaffAmounts(work[w], row, booked)
  BY <1>1, <1>2 DEF ConcurrentInv, AmountInv
<1>6. /\ DOMAIN work[w].held = {key}
      /\ work[w].held[key] = booked[key] + Lasts(row)
      /\ work[w].held[key] <= YearCap[t]
  <2>1. <<work[w].t, YearOf[row.day]>> = key /\ work[w].t = t
    BY <1>2
  <2>2. work[w].todo # <<Entry(work[w].t, row, Lasts(row))>>
    BY <1>1
  <2> QED
    BY <1>5, <2>1, <2>2 DEF StaffAmounts
<1>7. booked' = [booked EXCEPT ![key] = @ + Lasts(row)]
  BY <1>1, <1>4, <1>6 DEF ConcurrentInv, ShapeInv
<1>8. Bookings[s] = NoSession
  BY <1>3 DEF Bookings, BookingOf
<1>9. BookingOf(row, t) = [account |-> key, hours |-> Lasts(row)]
  BY <1>2, <1>3, FormsAreSessions, ConcurrentAssumption DEF BookingOf, Lasting
<1>10. Bookings' = [Bookings EXCEPT ![s] = [account |-> key, hours |-> Lasts(row)]]
  <2>1. \A q \in SessionIds : staffing'[q] = IF q = s THEN t ELSE staffing[q]
    BY <1>1, <1>2 DEF ConcurrentInv, ShapeInv
  <2>2. \A q \in SessionIds :
           BookingOf(sessions'[q], staffing'[q]) =
             IF q = s THEN [account |-> key, hours |-> Lasts(row)]
             ELSE BookingOf(sessions[q], staffing[q])
    BY <1>1, <1>2, <1>9, <2>1
  <2> QED
    BY <2>2 DEF Bookings
<1> QED
  BY <1>3, <1>4, <1>6, <1>7, <1>8, <1>10, Booked

\* A session that moves is booked anew, if it has a teacher and other times.
LEMMA MoveIsRebooked ==
    ASSUME ConcurrentInv, NEW w \in Workers, CommitMove(w)
    PROVE  Account!LedgerNext \/ UNCHANGED Account!ledgerVars
<1>1. /\ work[w] \in Request /\ Shaped(work[w]) /\ work[w].pc = "adjust" /\ work[w].op = "move"
      /\ work[w].todo = <<>>
      /\ sessions' = [sessions EXCEPT ![work[w].s] = work[w].row]
      /\ booked' = [b \in YearlyBalances |->
                      IF b \in DOMAIN work[w].held THEN work[w].held[b] ELSE booked[b]]
      /\ UNCHANGED staffing
      /\ booked \in [YearlyBalances -> Nat]
  BY DEF ConcurrentInv, ShapeInv, CommitMove
<1>2. PICK s, t, old, row, from, to :
         /\ s = work[w].s /\ t = staffing[s] /\ old = sessions[s] /\ row = work[w].row
         /\ from = <<t, YearOf[old.day]>> /\ to = <<t, YearOf[row.day]>>
  OBVIOUS
<1>3. /\ s \in SessionIds /\ t \in Teachers \cup {Unstaffed} /\ old \in Lasting /\ row \in Lasting
  BY <1>1, <1>2 DEF ConcurrentInv, Shaped, LockInv, Changes, Present, ShapeInv
<1>4. MoveAmounts(work[w], old, t, booked)
  BY <1>1, <1>2 DEF ConcurrentInv, AmountInv
<1>5. \A q \in SessionIds : sessions'[q] = IF q = s THEN row ELSE sessions[q]
  BY <1>1, <1>2 DEF ConcurrentInv, ShapeInv
<1>6. old # NoSession /\ row # NoSession
  BY <1>3, FormsAreSessions DEF Lasting
<1>7. CASE SameTimes(old, row) \/ t = Unstaffed
  <2>1. DOMAIN work[w].held = {}
    BY <1>2, <1>4, <1>7 DEF MoveAmounts
  <2>2. booked' = booked
    BY <1>1, <2>1
  <2>3. BookingOf(row, t) = BookingOf(old, t)
    BY <1>6, <1>7 DEF BookingOf, SameTimes, Lasts
  <2>4. Bookings' = Bookings
    BY <1>1, <1>2, <1>5, <2>3 DEF Bookings
  <2> QED
    BY <2>2, <2>4, NothingBooked
<1>8. CASE ~ SameTimes(old, row) /\ t # Unstaffed
  <2>1. /\ DOMAIN work[w].held = {from, to}
        /\ work[w].held[to] <= YearCap[t]
        /\ IF from = to THEN work[w].held[to] = Freed(booked[from], Lasts(old)) + Lasts(row)
           ELSE /\ work[w].held[from] = Freed(booked[from], Lasts(old))
                /\ work[w].held[to] = booked[to] + Lasts(row)
    <3>1. PICK q : q = work[w]
      OBVIOUS
    <3>2. /\ q.todo # <<Entry(t, old, -Lasts(old)), Entry(t, row, Lasts(row))>>
          /\ q.todo # <<Entry(t, row, Lasts(row))>>
      <4>1. q.todo = <<>>
        BY <1>1, <3>1
      <4> QED
        BY <4>1
    <3>3. MoveAmounts(q, old, t, booked) /\ q.row = row
      BY <1>2, <1>4, <3>1
    <3>4. /\ DOMAIN q.held = {from, to}
          /\ q.held[to] <= YearCap[t]
          /\ IF from = to THEN q.held[to] = Freed(booked[from], Lasts(old)) + Lasts(row)
             ELSE /\ q.held[from] = Freed(booked[from], Lasts(old))
                  /\ q.held[to] = booked[to] + Lasts(row)
      BY <1>2, <1>8, <3>2, <3>3 DEF MoveAmounts
    <3> QED
      BY <3>1, <3>4
  <2>2. /\ from \in YearlyBalances /\ to \in YearlyBalances /\ to[1] = t
        /\ Lasts(row) \in MappedAmounts
    BY <1>2, <1>3, <1>8, FormFields DEF YearlyBalances, Lasting, MappedAmounts
  <2>3. PICK released : released = [booked EXCEPT ![from] = Freed(booked[from], Lasts(old))]
    OBVIOUS
  <2>4. \A b \in YearlyBalances :
           released[b] = IF b = from THEN Freed(booked[from], Lasts(old)) ELSE booked[b]
    BY <1>1, <2>3
  <2>5. released[to] + Lasts(row) = work[w].held[to]
    BY <2>1, <2>2, <2>4
  <2>6. booked' = [released EXCEPT ![to] = @ + Lasts(row)]
    <3>1. DOMAIN released = YearlyBalances
      BY <1>1, <2>3
    <3>2. \A b \in YearlyBalances :
             booked'[b] = IF b = to THEN released[to] + Lasts(row) ELSE released[b]
      BY <1>1, <2>1, <2>4, <2>5
    <3>3. booked' \in [YearlyBalances -> {booked'[b] : b \in YearlyBalances}]
      BY <1>1
    <3> QED
      BY <1>1, <3>1, <3>2
  <2>7. BookingOf(old, t) = [account |-> from, hours |-> Lasts(old)]
        /\ BookingOf(row, t) = [account |-> to, hours |-> Lasts(row)]
    BY <1>2, <1>6, <1>8 DEF BookingOf
  <2>8. Bookings[s] = [account |-> from, hours |-> Lasts(old)]
    BY <1>2, <1>3, <2>7 DEF Bookings
  <2>9. Bookings[s] # NoSession /\ Bookings[s].account = from /\ Bookings[s].hours = Lasts(old)
    <3>1. DOMAIN Bookings[s] = {"account", "hours"} /\ DOMAIN NoSession = {"class"}
      BY <2>8 DEF NoSession
    <3>2. Bookings[s].account = from /\ Bookings[s].hours = Lasts(old)
      BY <2>8
    <3> QED
      BY <3>1, <3>2
  <2>10. Bookings' = [Bookings EXCEPT ![s] = [account |-> to, hours |-> Lasts(row)]]
    <3>1. \A q \in SessionIds :
             BookingOf(sessions'[q], staffing'[q]) =
               IF q = s THEN [account |-> to, hours |-> Lasts(row)]
               ELSE BookingOf(sessions[q], staffing[q])
      BY <1>1, <1>2, <1>5, <2>7
    <3> QED
      BY <3>1 DEF Bookings
  <2>11. released = [booked EXCEPT ![Bookings[s].account] = Freed(@, Bookings[s].hours)]
    BY <2>3, <2>9
  <2>12. released[to] + Lasts(row) <= YearCap[to[1]]
    BY <2>1, <2>2, <2>5
  <2> QED
    BY <1>3, <2>2, <2>6, <2>9, <2>10, <2>11, <2>12, Rebooked
<1> QED
  BY <1>7, <1>8

\* Every step books, books anew, drops or leaves the account alone.
LEMMA StepIsBooked ==
    ASSUME ConcurrentInv, [ConcurrentNext]_concurrentVars
    PROVE  [Account!LedgerNext]_(Account!ledgerVars)
<1>1. ASSUME UNCHANGED <<sessions, staffing, booked>>
      PROVE  UNCHANGED Account!ledgerVars
  <2>1. Bookings' = Bookings
    BY <1>1 DEF Bookings
  <2> QED
    BY <1>1, <2>1, NothingBooked
<1>2. ASSUME NEW w \in Workers, CommitCreate(w) PROVE UNCHANGED Account!ledgerVars
  <2>1. /\ work[w].op = "create" /\ UNCHANGED <<staffing, booked>>
        /\ sessions' = [sessions EXCEPT ![work[w].s] = work[w].row]
        /\ work[w].s \in SessionIds
    BY <1>2, CreateCommits DEF ConcurrentInv, ShapeInv, Shaped
  <2>2. staffing[work[w].s] = Unstaffed
    BY <2>1 DEF ConcurrentInv, MakerInv, Makes
  <2>3. \A q \in SessionIds : q # work[w].s => sessions'[q] = sessions[q]
    BY <2>1 DEF ConcurrentInv, ShapeInv
  <2>4. \A q \in SessionIds :
           BookingOf(sessions'[q], staffing'[q]) = BookingOf(sessions[q], staffing[q])
    BY <2>1, <2>2, <2>3 DEF BookingOf
  <2>5. Bookings' = Bookings
    BY <2>4 DEF Bookings
  <2> QED
    BY <2>1, <2>5, NothingBooked
<1>3. ASSUME NEW w \in Workers, DeleteSession(w) PROVE Account!LedgerNext
  <2>1. /\ sessions' = [sessions EXCEPT ![work[w].s] = NoSession]
        /\ UNCHANGED booked
        /\ staffing' = [staffing EXCEPT ![work[w].s] = Unstaffed]
        /\ work[w].op = "delete" /\ work[w].s \in SessionIds
    BY <1>3 DEF DeleteSession, ConcurrentInv, ShapeInv, Shaped, Request
  <2>2. \A q \in SessionIds : /\ sessions'[q] = IF q = work[w].s THEN NoSession ELSE sessions[q]
                              /\ staffing'[q] = IF q = work[w].s THEN Unstaffed ELSE staffing[q]
    BY <2>1 DEF ConcurrentInv, ShapeInv
  <2>3. \A q \in SessionIds :
           BookingOf(sessions'[q], staffing'[q]) =
             IF q = work[w].s THEN NoSession ELSE BookingOf(sessions[q], staffing[q])
    BY <2>2 DEF BookingOf
  <2>4. Bookings' = [Bookings EXCEPT ![work[w].s] = NoSession]
    BY <2>3 DEF Bookings
  <2> QED
    BY <2>1, <2>4, Dropped
<1>4. ASSUME NEW w \in Workers,
             \/ AdminSessionCreate(w) \/ CheckGroup(w) \/ CreateSession(w)
             \/ AddSessionTeacher(w) \/ Refer(w) \/ ReadHours(w) \/ UndoCreate(w)
             \/ AdjustBalance(w) \/ AdminSessionUpdate(w) \/ AdminSessionDelete(w)
             \/ LockSession(w) \/ UpdateSession(w) \/ Abort(w)
      PROVE  UNCHANGED <<sessions, staffing, booked>>
  BY <1>4 DEF AdminSessionCreate, CheckGroup, CreateSession, AddSessionTeacher, Refer, ReadHours,
      UndoCreate, AdjustBalance, AdminSessionUpdate, AdminSessionDelete, LockSession, UpdateSession,
      Abort
<1>5. CASE UNCHANGED concurrentVars
  BY <1>1, <1>5 DEF concurrentVars
<1>6. CASE ConcurrentNext
  BY <1>1, <1>2, <1>3, <1>4, <1>6, StaffIsBooked, MoveIsRebooked DEF ConcurrentNext
<1> QED
  BY <1>5, <1>6

\* Nothing is booked while nobody has done anything.
LEMMA FirstIsBooked == ConcurrentInit => Account!LedgerInit
<1> SUFFICES ASSUME ConcurrentInit PROVE Account!LedgerInit
  OBVIOUS
<1>1. Bookings = [s \in SessionIds |-> NoSession]
  BY DEF ConcurrentInit, Bookings, BookingOf
<1> QED
  BY <1>1, Mapped DEF ConcurrentInit, Account!LedgerInit

\* Whatever runs together, the balances are an account of the sessions: each
\* commit charges, or refunds and charges, exactly what its session lasts now.
THEOREM Accounted == ConcurrentSpec => HoursAreAnAccount
<1>1. ConcurrentInv /\ [ConcurrentNext]_concurrentVars
      => [Account!LedgerNext]_(Account!ledgerVars)
  BY StepIsBooked
<1> QED
  BY <1>1, FirstIsBooked, ConcurrentSafe, PTL
     DEF ConcurrentSpec, HoursAreAnAccount, Account!LedgerSpec

-----------------------------------------------------------------------------
(* An account covers what is booked on it                                  *)

\* The hours of one booking, if it is on the account, one element each.
Own(booking, s, account) ==
    IF booking # NoSession /\ booking.account = account THEN {s} \X (1 .. booking.hours) ELSE {}

HoursOn(bookings, account) == UNION {Own(bookings[s], s, account) : s \in SessionIds}

IsBooking(booking) ==
    booking # NoSession => booking.account \in YearlyBalances /\ booking.hours \in Nat

CoverInv ==
    \A a \in YearlyBalances :
        /\ IsFiniteSet(HoursOn(Bookings, a))
        /\ Cardinality(HoursOn(Bookings, a)) <= booked[a]
        /\ booked[a] \in Nat /\ booked[a] <= YearCap[a[1]]

\* What the account counts, session by session.
LEMMA HoursAreOwn == \A a : Account!HoursBooked(a) = HoursOn(Bookings, a)
<1> SUFFICES ASSUME NEW a PROVE Account!HoursBooked(a) = HoursOn(Bookings, a)
  OBVIOUS
<1> DEFINE mine == {c \in SessionIds : Bookings[c] # NoSession /\ Bookings[c].account = a}
<1>1. Account!HoursBooked(a) = UNION {{b} \X (1 .. Bookings[b].hours) : b \in mine}
  BY Mapped DEF Account!HoursBooked
<1>2. \A x : x \in UNION {{b} \X (1 .. Bookings[b].hours) : b \in mine}
             <=> \E b \in SessionIds : x \in Own(Bookings[b], b, a)
  BY DEF Own
<1>3. \A x : x \in HoursOn(Bookings, a) <=> \E b \in SessionIds : x \in Own(Bookings[b], b, a)
  BY DEF HoursOn
<1> QED
  BY <1>1, <1>2, <1>3

\* A booking has as many elements as hours.
LEMMA OwnHours ==
    ASSUME NEW booking, IsBooking(booking), NEW s, NEW a
    PROVE  /\ IsFiniteSet(Own(booking, s, a))
           /\ Cardinality(Own(booking, s, a)) =
                IF booking # NoSession /\ booking.account = a THEN booking.hours ELSE 0
<1>1. CASE booking # NoSession /\ booking.account = a
  <2>1. PICK n \in Nat : n = booking.hours
    BY <1>1 DEF IsBooking
  <2>2. IsFiniteSet(1 .. n) /\ Cardinality(1 .. n) = n
    BY FS_Interval
  <2>3. IsFiniteSet({s}) /\ Cardinality({s}) = 1
    BY FS_Singleton
  <2>4. IsFiniteSet({s} \X (1 .. n)) /\ Cardinality({s} \X (1 .. n)) = 1 * n
    BY <2>2, <2>3, FS_Product, ZenonT(60)
  <2>5. Own(booking, s, a) = {s} \X (1 .. n)
    BY <1>1, <2>1 DEF Own
  <2> QED
    BY <1>1, <2>1, <2>4, <2>5
<1>2. CASE ~ (booking # NoSession /\ booking.account = a)
  BY <1>2, FS_EmptySet DEF Own
<1> QED
  BY <1>1, <1>2

\* One booking is replaced by another: the hours on an account change by
\* what the one had on it and the other has.
LEMMA HoursChange ==
    ASSUME NEW old, NEW new, NEW s \in SessionIds, NEW booking, NEW a,
           \A q \in SessionIds : new[q] = IF q = s THEN booking ELSE old[q],
           IsBooking(old[s]), IsBooking(booking), IsFiniteSet(HoursOn(old, a))
    PROVE  /\ IsFiniteSet(HoursOn(new, a))
           /\ Cardinality(HoursOn(new, a)) =
                Cardinality(HoursOn(old, a)) - Cardinality(Own(old[s], s, a))
                                             + Cardinality(Own(booking, s, a))
<1> DEFINE H == HoursOn(old, a)
           O == Own(old[s], s, a)
           N == Own(booking, s, a)
<1>1. O \subseteq H
  BY DEF HoursOn
<1>2. \A x : x \in O => x[1] = s
  BY DEF Own
<1>3. \A x : x \in N => x[1] = s
  BY DEF Own
<1>4. \A q \in SessionIds : \A x : x \in Own(old[q], q, a) => x[1] = q
  BY DEF Own
<1>5. \A x : x \in HoursOn(new, a) <=> \E q \in SessionIds : x \in Own(new[q], q, a)
  BY DEF HoursOn
<1>6. \A x : x \in H <=> \E q \in SessionIds : x \in Own(old[q], q, a)
  BY DEF HoursOn
<1>7. \A x : x \in HoursOn(new, a) <=>
         x \in N \/ \E q \in SessionIds \ {s} : x \in Own(old[q], q, a)
  BY <1>5
<1>8. \A x : x \in H /\ x \notin O <=> \E q \in SessionIds \ {s} : x \in Own(old[q], q, a)
  BY <1>2, <1>4, <1>6
<1>9. HoursOn(new, a) = (H \ O) \cup N /\ (H \ O) \cap N = {}
  <2>1. HoursOn(new, a) = (H \ O) \cup N
    BY <1>7, <1>8
  <2>2. \A x : x \in H /\ x \notin O => x \notin N
    BY <1>3, <1>4, <1>8
  <2> QED
    BY <2>1, <2>2
<1>10. IsFiniteSet(O) /\ IsFiniteSet(N)
  BY OwnHours
<1>11. H \cap O = O
  BY <1>1
<1> HIDE DEF H, O, N
<1>12. IsFiniteSet(H) 
  BY DEF H
<1>13. IsFiniteSet(H \ O) /\ Cardinality(H \ O) = Cardinality(H) - Cardinality(O)
  BY <1>11, <1>12, FS_Difference
<1>14. /\ IsFiniteSet((H \ O) \cup N)
       /\ Cardinality((H \ O) \cup N) =
            Cardinality(H \ O) + Cardinality(N) - Cardinality((H \ O) \cap N)
  BY <1>10, <1>13, FS_Union
<1>15. Cardinality((H \ O) \cap N) = 0
  BY <1>9, FS_EmptySet
<1>16. Cardinality(H) \in Nat /\ Cardinality(O) \in Nat /\ Cardinality(N) \in Nat
  BY <1>10, <1>12, FS_CardinalityType
<1>17. /\ IsFiniteSet(HoursOn(new, a))
       /\ Cardinality(HoursOn(new, a)) = Cardinality(H) - Cardinality(O) + Cardinality(N)
  BY <1>9, <1>13, <1>14, <1>15, <1>16
<1> QED
  BY <1>17 DEF H, O, N

\* The sessions are bookings.
LEMMA SessionsAreBookings ==
    ASSUME ConcurrentInv PROVE \A s \in SessionIds : IsBooking(Bookings[s])
<1> SUFFICES ASSUME NEW s \in SessionIds, Bookings[s] # NoSession
             PROVE  Bookings[s].account \in YearlyBalances /\ Bookings[s].hours \in Nat
  BY DEF IsBooking
<1>1. PICK row, t : row = sessions[s] /\ t = staffing[s]
  OBVIOUS
<1>2. /\ row \in Lasting \cup {NoSession} /\ t \in Teachers \cup {Unstaffed}
      /\ Bookings[s] = BookingOf(row, t)
  BY <1>1 DEF ConcurrentInv, ShapeInv, Bookings
<1>3. /\ Bookings[s] = [account |-> <<t, YearOf[row.day]>>, hours |-> Lasts(row)]
      /\ row \in Lasting /\ t \in Teachers
  BY <1>2 DEF BookingOf
<1>4. Lasts(row) \in Nat /\ <<t, YearOf[row.day]>> \in YearlyBalances
  BY <1>3, FormFields DEF Lasting, YearlyBalances
<1> QED
  BY <1>3, <1>4

\* Every step of the account keeps what it has booked covered.
LEMMA CoverStep ==
    ASSUME ConcurrentInv, CoverInv, [Account!LedgerNext]_(Account!ledgerVars)
    PROVE  CoverInv'
<1>0. /\ \A s \in SessionIds : IsBooking(Bookings[s])
      /\ booked \in [YearlyBalances -> Nat]
      /\ DOMAIN Bookings = SessionIds
  BY SessionsAreBookings DEF ConcurrentInv, ShapeInv, Bookings
<1>1. CASE UNCHANGED Account!ledgerVars
  <2>1. Bookings' = Bookings /\ booked' = booked
    BY <1>1, Mapped DEF Account!ledgerVars
  <2>2. \A a : HoursOn(Bookings', a) = HoursOn(Bookings, a)
    BY <2>1
  <2> QED
    BY <2>1, <2>2 DEF CoverInv
<1>2. ASSUME NEW s \in SessionIds, NEW account \in YearlyBalances, NEW hours \in MappedAmounts,
             Account!Book(s, account, hours) \/ Account!Rebook(s, account, hours)
      PROVE  CoverInv'
  <2>1. PICK h \in Nat : h = hours
    BY FormFields DEF MappedAmounts
  <2>2. PICK booking : booking = [account |-> account, hours |-> h]
    OBVIOUS
  <2>3. PICK released \in [YearlyBalances -> Nat] :
           /\ \A a \in YearlyBalances :
                 released[a] = IF Bookings[s] # NoSession /\ Bookings[s].account = a
                               THEN Freed(booked[a], Bookings[s].hours) ELSE booked[a]
           /\ released[account] + h <= YearCap[account[1]]
           /\ Bookings' = [Bookings EXCEPT ![s] = booking]
           /\ booked' = [released EXCEPT ![account] = @ + h]
    <3>1. CASE Account!Book(s, account, hours)
      <4>1. /\ Bookings[s] = NoSession
            /\ booked[account] + hours <= MappedCap[account]
            /\ Bookings' = [Bookings EXCEPT ![s] = [account |-> account, hours |-> hours]]
            /\ booked' = [booked EXCEPT ![account] = @ + hours]
        BY <3>1, Mapped DEF Account!Book, Account!Booking, Account!Charged, MappedCap
      <4> QED
        BY <1>0, <2>1, <2>2, <4>1 DEF MappedCap
    <3>2. CASE Account!Rebook(s, account, hours)
      <4> DEFINE freed == [booked EXCEPT ![Bookings[s].account] = Freed(@, Bookings[s].hours)]
      <4>1. /\ Bookings[s] # NoSession
            /\ freed[account] + hours <= MappedCap[account]
            /\ Bookings' = [Bookings EXCEPT ![s] = [account |-> account, hours |-> hours]]
            /\ booked' = [freed EXCEPT ![account] = @ + hours]
        BY <3>2, Mapped DEF Account!Rebook, Account!Booking, Account!Charged, Account!Released,
           Freed, MappedCap
      <4>2. Bookings[s].account \in YearlyBalances /\ Bookings[s].hours \in Nat
        BY <1>0, <4>1 DEF IsBooking
      <4>3. PICK e \in YearlyBalances, n \in Nat : e = Bookings[s].account /\ n = Bookings[s].hours
        BY <4>2
      <4>4. freed = [booked EXCEPT ![e] = Freed(booked[e], n)]
        BY <4>3
      <4>5. Freed(booked[e], n) \in Nat
        BY <1>0 DEF Freed
      <4>6. /\ freed \in [YearlyBalances -> Nat]
            /\ \A a \in YearlyBalances : freed[a] = IF a = e THEN Freed(booked[e], n) ELSE booked[a]
        BY <1>0, <4>4, <4>5
      <4>7. \A a \in YearlyBalances :
               freed[a] = IF Bookings[s] # NoSession /\ Bookings[s].account = a
                          THEN Freed(booked[a], Bookings[s].hours) ELSE booked[a]
        BY <4>1, <4>3, <4>6
      <4>8. freed[account] + h <= YearCap[account[1]]
        BY <2>1, <4>1 DEF MappedCap
      <4>9. Bookings' = [Bookings EXCEPT ![s] = booking] /\ booked' = [freed EXCEPT ![account] = @ + h]
        BY <2>1, <2>2, <4>1
      <4> HIDE DEF freed
      <4> QED
        BY <4>6, <4>7, <4>8, <4>9
    <3> QED
      BY <1>2, <3>1, <3>2
  <2>4. IsBooking(booking)
    BY <2>2 DEF IsBooking
  <2>5. \A q \in SessionIds : Bookings'[q] = IF q = s THEN booking ELSE Bookings[q]
    BY <1>0, <2>3
  <2> SUFFICES ASSUME NEW a \in YearlyBalances
               PROVE  /\ IsFiniteSet(HoursOn(Bookings', a))
                      /\ Cardinality(HoursOn(Bookings', a)) <= booked'[a]
                      /\ booked'[a] \in Nat /\ booked'[a] <= YearCap[a[1]]
    BY DEF CoverInv
  <2>6. PICK o \in Nat : /\ o = Cardinality(Own(Bookings[s], s, a))
                         /\ o = IF Bookings[s] # NoSession /\ Bookings[s].account = a
                                THEN Bookings[s].hours ELSE 0
    BY <1>0, OwnHours DEF IsBooking
  <2>7. PICK n \in Nat : /\ n = Cardinality(Own(booking, s, a))
                         /\ n <= IF a = account THEN h ELSE 0
    <3>1. Cardinality(Own(booking, s, a)) =
            IF booking # NoSession /\ booking.account = a THEN booking.hours ELSE 0
      BY <2>4, OwnHours
    <3>2. booking.account = account /\ booking.hours = h
      BY <2>2
    <3> QED
      BY <3>1, <3>2
  <2>8. /\ IsFiniteSet(HoursOn(Bookings, a)) /\ Cardinality(HoursOn(Bookings, a)) <= booked[a]
        /\ booked[a] \in Nat /\ booked[a] <= YearCap[a[1]]
    BY DEF CoverInv
  <2>9. IsBooking(Bookings[s])
    BY <1>0
  <2>10. /\ IsFiniteSet(HoursOn(Bookings', a))
         /\ Cardinality(HoursOn(Bookings', a)) =
              Cardinality(HoursOn(Bookings, a)) - Cardinality(Own(Bookings[s], s, a))
                                                + Cardinality(Own(booking, s, a))
    BY <2>4, <2>5, <2>8, <2>9, HoursChange
  <2>11. PICK c \in Nat : c = Cardinality(HoursOn(Bookings, a)) /\ c <= booked[a]
    BY <2>8, FS_CardinalityType
  <2>12. Cardinality(HoursOn(Bookings', a)) = c - o + n
    BY <2>6, <2>7, <2>10, <2>11
  <2>13. PICK x \in Nat, y \in Nat :
            /\ x = booked[a] /\ y = released[a]
            /\ y = IF x - o < 0 THEN 0 ELSE x - o
    BY <2>3, <2>6, <2>8 DEF Freed
  <2>14. booked'[a] = IF a = account THEN y + h ELSE y
    BY <2>3, <2>13
  <2>15. PICK cap \in Nat : cap = YearCap[a[1]]
    BY ConcurrentAssumption DEF YearlyBalances
  <2>16. c <= x /\ x <= cap
    BY <2>8, <2>11, <2>13, <2>15
  <2>17. c - o + n <= IF a = account THEN y + h ELSE y
    BY <2>7, <2>13, <2>16
  <2>18. (IF a = account THEN y + h ELSE y) <= cap
    <3>1. CASE a = account
      BY <2>3, <2>13, <2>15, <3>1
    <3>2. CASE a # account
      BY <2>13, <2>16, <3>2
    <3> QED
      BY <3>1, <3>2
  <2>19. (IF a = account THEN y + h ELSE y) \in Nat
    OBVIOUS
  <2> QED
    BY <2>10, <2>12, <2>14, <2>15, <2>17, <2>18, <2>19
<1>3. ASSUME NEW s \in SessionIds, Account!Drop(s) PROVE CoverInv'
  <2>1. Bookings' = [Bookings EXCEPT ![s] = NoSession] /\ booked' = booked
    BY <1>3, Mapped DEF Account!Drop
  <2>2. \A q \in SessionIds : Bookings'[q] = IF q = s THEN NoSession ELSE Bookings[q]
    BY <1>0, <2>1
  <2>3. IsBooking(NoSession) /\ IsBooking(Bookings[s])
    BY <1>0 DEF IsBooking
  <2> SUFFICES ASSUME NEW a \in YearlyBalances
               PROVE  /\ IsFiniteSet(HoursOn(Bookings', a))
                      /\ Cardinality(HoursOn(Bookings', a)) <= booked[a]
    BY <2>1 DEF CoverInv
  <2>4. IsFiniteSet(HoursOn(Bookings, a)) /\ Cardinality(HoursOn(Bookings, a)) <= booked[a]
        /\ booked[a] \in Nat
    BY DEF CoverInv
  <2>5. /\ IsFiniteSet(HoursOn(Bookings', a))
        /\ Cardinality(HoursOn(Bookings', a)) =
              Cardinality(HoursOn(Bookings, a)) - Cardinality(Own(Bookings[s], s, a))
                                                + Cardinality(Own(NoSession, s, a))
    BY <2>2, <2>3, <2>4, HoursChange
  <2>6. Cardinality(Own(NoSession, s, a)) = 0
    BY <2>3, OwnHours
  <2>7. Cardinality(Own(Bookings[s], s, a)) \in Nat /\ Cardinality(HoursOn(Bookings, a)) \in Nat
    BY <2>3, <2>4, OwnHours, FS_CardinalityType
  <2> QED
    BY <2>4, <2>5, <2>6, <2>7
<1> QED
  BY <1>1, <1>2, <1>3 DEF Account!LedgerNext, MappedAmounts

\* A balance covers the hours on the timetable and keeps to its teacher's cap.
THEOREM Covered == ConcurrentSpec => []BalancesCover
<1>1. ConcurrentInit => CoverInv
  <2> SUFFICES ASSUME ConcurrentInit, NEW a \in YearlyBalances
               PROVE  /\ IsFiniteSet(HoursOn(Bookings, a))
                      /\ Cardinality(HoursOn(Bookings, a)) <= booked[a]
                      /\ booked[a] \in Nat /\ booked[a] <= YearCap[a[1]]
    BY DEF CoverInv
  <2>1. \A s \in SessionIds : Bookings[s] = NoSession
    BY DEF ConcurrentInit, Bookings, BookingOf
  <2>2. HoursOn(Bookings, a) = {}
    BY <2>1 DEF HoursOn, Own
  <2>3. booked[a] = 0 /\ YearCap[a[1]] \in Nat
    BY ConcurrentAssumption DEF ConcurrentInit, YearlyBalances
  <2> QED
    BY <2>2, <2>3, FS_EmptySet
<1>2. ConcurrentInv /\ CoverInv /\ [ConcurrentNext]_concurrentVars => CoverInv'
  <2> SUFFICES ASSUME ConcurrentInv, CoverInv, [ConcurrentNext]_concurrentVars
               PROVE  CoverInv'
    OBVIOUS
  <2>1. [Account!LedgerNext]_(Account!ledgerVars)
    BY StepIsBooked
  <2> QED
    BY <2>1, CoverStep
<1>3. CoverInv => BalancesCover
  <2>1. \A S : Account!Cardinality(S) = Cardinality(S)
    BY DEF Account!Cardinality, Cardinality
  <2>2. \A a \in YearlyBalances : MappedCap[a] = YearCap[a[1]]
    BY DEF MappedCap
  <2> QED
    BY <2>1, <2>2, HoursAreOwn DEF CoverInv, BalancesCover, Account!Balanced, MappedCap
<1> QED
  BY <1>1, <1>2, <1>3, ConcurrentSafe, PTL DEF ConcurrentSpec
=============================================================================
