------------------------------ MODULE MCTeaching ------------------------------
(***************************************************************************)
(* The timetable and the teachers' documents, for TLC.  They share no      *)
(* table, so one of them works at a time: part says which, and the other   *)
(* rests in its initial state.                                             *)
(***************************************************************************)
EXTENDS MCTimetable, Documents

CONSTANTS w1, w2, d1, d2

VARIABLE part

teachingVars == <<part, vars, documentsVars>>

\* Sessions, requests for documents and rows of documents are alike.
TeachingSymmetry ==
    MCSymmetry \cup Permutations({w1, w2}) \cup Permutations({d1, d2})

TeachingInit ==
    /\ part \in {"timetable", "documents"}
    /\ Init
    /\ DocumentsInit

TimetableWorks == Next /\ UNCHANGED documentsVars

DocumentsWork == DocumentsNext /\ UNCHANGED vars

TeachingNext ==
    /\ UNCHANGED part
    /\ \/ part = "timetable" /\ TimetableWorks
       \/ part = "documents" /\ DocumentsWork

TeachingSpec == TeachingInit /\ [][TeachingNext]_teachingVars
=============================================================================
