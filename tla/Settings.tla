------------------------------- MODULE Settings -------------------------------
(***************************************************************************)
(* system_settings and the semesters of the periods, and the two pages     *)
(* that save them: the workplan settings and the link to the LMS.          *)
(*                                                                         *)
(* A save writes its settings one statement at a time, outside any         *)
(* transaction.  The workplan page then replaces the semesters in one READ *)
(* COMMITTED transaction; the LMS page swaps the link in the server's      *)
(* memory, which is read from the table only when the server starts.       *)
(*                                                                         *)
(* A value is represented by the number of the form that sent it, 0 for    *)
(* what was there before.  A row of workplan_period_semesters is a pair of *)
(* a period and a semester and the number of the save that inserted it: a  *)
(* pair that is deleted and inserted again is a new row.                   *)
(***************************************************************************)
EXTENDS Integers, Sequences

CONSTANTS
    Periods,        \* academic_periods, numbers
    Savers,         \* bound: saves under way at once
    MaxSaves        \* bound: the saves that are ever started

ASSUME SettingsAssumption == MaxSaves \in Nat /\ Periods \subseteq Nat

LMS == <<"lms.name", "lms.url">>
WorkplanKeys ==
    <<"workplan.state", "workplan.vic.max_teaching_weekly", "workplan.vic.annual_teaching_cap",
      "workplan.vic.annual_supervision_cap", "workplan.vic.total_accountable_hours">>

Kinds == {"lms", "workplan"}
KeysOf(kind) == IF kind = "lms" THEN LMS ELSE WorkplanKeys
Named(kind) == {KeysOf(kind)[i] : i \in DOMAIN KeysOf(kind)}
AllKeys == Named("lms") \cup Named("workplan")

Pairs == Periods \X {1, 2}
Forms == 0 .. MaxSaves

VARIABLES
    settings,   \* key -> the form its value came from
    lms,        \* Handler.lmsName, lmsURL
    semesters,  \* the committed rows
    saves,      \* the requests under way
    started,    \* the number of the last save that was started
    torn,       \* history: the kinds whose settings two forms may have mixed
    last        \* history: what the last commit of semesters should have left

settingsVars == <<settings, lms, semesters, saves, started, torn, last>>

\* form: the number of the save; next: the setting it writes next; wanted: its
\* pairs; todo: those it has still to insert; doomed: the rows its DELETE is
\* for; inserted: its own rows, uncommitted; alone: no other save of its kind
\* has been under way with it; clean: nobody has committed since its DELETE
Idle == [pc |-> "idle", kind |-> "lms", form |-> 0, next |-> 1, wanted |-> {}, todo |-> {},
         doomed |-> {}, inserted |-> {}, alone |-> TRUE, clean |-> TRUE]

Rows == Pairs \X Forms

Save ==
    [pc: {"idle", "writing", "swapping", "begin", "clearing", "assigning"}, kind: Kinds,
     form: Forms, next: 1 .. 6, wanted: SUBSET Pairs, todo: SUBSET Pairs, doomed: SUBSET Rows,
     inserted: SUBSET Rows, alone: BOOLEAN, clean: BOOLEAN]

SettingsInit ==
    /\ settings = [k \in AllKeys |-> 0]
    /\ lms = [k \in Named("lms") |-> 0]
    /\ semesters = {}
    /\ saves = [s \in Savers |-> Idle]
    /\ started = 0
    /\ torn = {}
    /\ last = [wanted |-> {}, clean |-> TRUE]

Busy(kind) == {s \in Savers : saves[s].pc # "idle" /\ saves[s].kind = kind}

Continue(s, q) == saves' = [saves EXCEPT ![s] = q]

-----------------------------------------------------------------------------
(* The settings                                                            *)

\* Every save of the kind that is under way has company from now on.
Begin(s, kind, wanted) ==
    /\ saves[s].pc = "idle" /\ started < MaxSaves
    /\ started' = started + 1
    /\ saves' = [q \in Savers |->
          IF q = s
          THEN [Idle EXCEPT !.pc = "writing", !.kind = kind, !.form = started + 1,
                            !.wanted = wanted, !.alone = Busy(kind) = {}]
          ELSE IF q \in Busy(kind) THEN [saves[q] EXCEPT !.alone = FALSE] ELSE saves[q]]
    /\ UNCHANGED <<settings, lms, semesters, torn, last>>

SystemLMSSave == \E s \in Savers : Begin(s, "lms", {})
WorkplanSettingsSave == \E s \in Savers, wanted \in SUBSET Pairs : Begin(s, "workplan", wanted)

SetSetting(key, form) == settings' = [settings EXCEPT ![key] = form]

\* Once the last setting is written, the settings are its form's, unless
\* another save wrote meanwhile.
SaveSetting(s) ==
    LET q == saves[s]
        keys == KeysOf(q.kind)
        done == q.next = Len(keys)
    IN  /\ q.pc = "writing"
        /\ SetSetting(keys[q.next], q.form)
        /\ Continue(s, [q EXCEPT
              !.pc = IF ~ done THEN @ ELSE IF q.kind = "lms" THEN "swapping" ELSE "begin",
              !.next = @ + 1])
        /\ torn' = IF done /\ q.alone THEN torn \ {q.kind} ELSE torn \cup {q.kind}
        /\ UNCHANGED <<lms, semesters, started, last>>

\* Mutant: the name of the LMS is forgotten.
SwapURL(s) ==
    /\ saves[s].pc = "swapping"
    /\ lms' = [lms EXCEPT !["lms.url"] = saves[s].form]
    /\ Continue(s, Idle)
    /\ UNCHANGED <<settings, semesters, started, torn, last>>

\* h.mu.Lock(): both fields at once.
SwapLMS(s) ==
    /\ saves[s].pc = "swapping"
    /\ lms' = [k \in Named("lms") |-> saves[s].form]
    /\ Continue(s, Idle)
    /\ UNCHANGED <<settings, semesters, started, torn, last>>

\* A statement fails, or is the victim of a deadlock: what was written before
\* the transaction stays, the transaction is rolled back.
SaveFails(s) ==
    /\ saves[s].pc \notin {"idle", "swapping"}
    /\ Continue(s, Idle)
    /\ UNCHANGED <<settings, lms, semesters, started, torn, last>>

\* The link is read from the table when the server starts.
Restart ==
    /\ saves' = [s \in Savers |-> Idle]
    /\ lms' = [k \in Named("lms") |-> settings[k]]
    /\ UNCHANGED <<settings, semesters, started, torn, last>>

-----------------------------------------------------------------------------
(* SetPeriodSemesters                                                      *)

\* The other saves whose transactions hold a row of R or a key of P.
Holding(s, R, P) ==
    {q \in Savers \ {s} :
        /\ saves[q].pc = "assigning"
        /\ \/ saves[q].doomed \cap R # {}
           \/ \E row \in saves[q].doomed \cup saves[q].inserted : row[1] \in P}

\* DELETE FROM workplan_period_semesters: its snapshot ...
StartClear(s) ==
    /\ saves[s].pc = "begin"
    /\ Continue(s, [saves[s] EXCEPT !.pc = "clearing", !.doomed = semesters])
    /\ UNCHANGED <<settings, lms, semesters, started, torn, last>>

\* Mutant: the semesters there were are left.
SkipClear(s) ==
    /\ saves[s].pc = "clearing"
    /\ Holding(s, saves[s].doomed, {}) = {}
    /\ Continue(s, [saves[s] EXCEPT !.pc = "assigning", !.doomed = {}, !.todo = saves[s].wanted])
    /\ UNCHANGED <<settings, lms, semesters, started, torn, last>>

\* ... and its end, once nobody else is deleting one of the rows.
FinishClear(s) ==
    /\ saves[s].pc = "clearing"
    /\ Holding(s, saves[s].doomed, {}) = {}
    /\ Continue(s, [saves[s] EXCEPT !.pc = "assigning", !.doomed = @ \cap semesters,
                                    !.todo = saves[s].wanted])
    /\ UNCHANGED <<settings, lms, semesters, started, torn, last>>

\* The first semester comes first, its periods in the order of the page.
FirstOf(todo) ==
    {p \in todo : \A q \in todo : p[2] < q[2] \/ (p[2] = q[2] /\ p[1] <= q[1])}

\* Mutant: the table has no primary key.
InsertSemester(s) ==
    LET q == saves[s]
    IN  /\ q.pc = "assigning"
        /\ \E pair \in FirstOf(q.todo) :
              Continue(s, [q EXCEPT !.todo = @ \ {pair}, !.inserted = @ \cup {<<pair, q.form>>}])
        /\ UNCHANGED <<settings, lms, semesters, started, torn, last>>

\* INSERT ... ON CONFLICT DO NOTHING
AssignSemester(s) ==
    LET q == saves[s]
        There(pair) == \E row \in semesters \ q.doomed : row[1] = pair
    IN  /\ q.pc = "assigning"
        /\ \E pair \in FirstOf(q.todo) :
              /\ Holding(s, {}, {pair}) = {}
              /\ Continue(s, [q EXCEPT !.todo = @ \ {pair},
                      !.inserted = IF There(pair) THEN @ ELSE @ \cup {<<pair, q.form>>}])
        /\ UNCHANGED <<settings, lms, semesters, started, torn, last>>

\* Every save of the semesters that has begun finds rows it did not see.
CommitSemesters(s) ==
    LET q == saves[s]
    IN  /\ q.pc = "assigning" /\ q.todo = {}
        /\ semesters' = (semesters \ q.doomed) \cup q.inserted
        /\ saves' = [r \in Savers |->
              IF r = s THEN Idle
              ELSE IF saves[r].pc \in {"clearing", "assigning"} THEN [saves[r] EXCEPT !.clean = FALSE]
              ELSE saves[r]]
        /\ last' = [wanted |-> q.wanted, clean |-> q.clean]
        /\ UNCHANGED <<settings, lms, started, torn>>

-----------------------------------------------------------------------------
SettingsNext ==
    \/ SystemLMSSave \/ WorkplanSettingsSave \/ Restart
    \/ \E s \in Savers :
          \/ SaveSetting(s) \/ SwapLMS(s) \/ SaveFails(s)
          \/ StartClear(s) \/ FinishClear(s) \/ AssignSemester(s) \/ CommitSemesters(s)

SettingsSpec == SettingsInit /\ [][SettingsNext]_settingsVars
-----------------------------------------------------------------------------
(* Properties                                                              *)

\* Settings come from forms, rows from saves, and a pair is stored once.
SettingsTypeOK ==
    /\ settings \in [AllKeys -> Forms]
    /\ lms \in [Named("lms") -> Forms]
    /\ semesters \subseteq Rows
    /\ \A r, q \in semesters : r[1] = q[1] => r = q
    /\ saves \in [Savers -> Save]
    /\ started \in Forms
    /\ torn \subseteq Kinds
    /\ last \in [wanted: SUBSET Pairs, clean: BOOLEAN]

\* While no save is under way, the settings of a page are all from one form,
\* and the link the server shows is the one in the table, unless the last
\* save to write was interrupted or ran together with another one.
SettingsAgree ==
    \A kind \in Kinds \ torn :
        Busy(kind) = {} =>
            /\ \A k, j \in Named(kind) : settings[k] = settings[j]
            /\ kind = "lms" => \A k \in Named("lms") : lms[k] = settings[k]

\* The semesters are exactly those of the form that was saved last, unless
\* another save committed while its transaction was under way.
SemestersReplaced == last.clean => {row[1] : row \in semesters} = last.wanted
=============================================================================
