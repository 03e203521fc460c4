----------------------------- MODULE CreateOnly -----------------------------
(* The evidence files that may never be replaced: _write_create_only() of   *)
(* parity/v4_receipts.py and write_v4_release_ready() of                    *)
(* parity/v4_release_ready.py.  Several processes may be asked for the same *)
(* file.  Each validates what it will write, looks whether the file exists, *)
(* and creates it with mode "x", which fails if it exists by then; a        *)
(* process may die while it writes.  A reader validates again.              *)
EXTENDS Naturals, FiniteSets

CONSTANTS Writers,      \* processes, each with a document of its own
          ValidOf,      \* the writers whose document validates
          Nobody        \* no writer

ASSUME WriterAssumption == ValidOf \subseteq Writers /\ Nobody \notin Writers

VARIABLES file,     \* the writer whose file it is, and how much is there
          writerAt, \* where each writer stands
          read      \* the documents that a reader was given

createVars == <<file, writerAt, read>>

NoFile == [owner |-> Nobody, whole |-> FALSE]
WriterStates == {"start", "looked", "open", "written", "refused", "dead"}

CreateInit ==
  /\ file = NoFile
  /\ writerAt = [w \in Writers |-> "start"]
  /\ read = {}

Goes(w, s) == writerAt' = [writerAt EXCEPT ![w] = s]

(* The document is validated, then destination.exists() is asked.           *)
LookForFile(w) ==
  /\ writerAt[w] = "start"
  /\ Goes(w, IF w \in ValidOf /\ file = NoFile THEN "looked" ELSE "refused")
  /\ UNCHANGED <<file, read>>

(* Mutant: open("w") instead of open("x").                                  *)
CreateOver(w) ==
  /\ writerAt[w] = "looked"
  /\ file' = [owner |-> w, whole |-> FALSE] /\ Goes(w, "open")
  /\ UNCHANGED read

(* open("x"): FileExistsError if another one was first.                     *)
CreateFile(w) ==
  /\ writerAt[w] = "looked"
  /\ IF file = NoFile
     THEN file' = [owner |-> w, whole |-> FALSE] /\ Goes(w, "open")
     ELSE Goes(w, "refused") /\ UNCHANGED file
  /\ UNCHANGED read

WriteFile(w) ==
  /\ writerAt[w] = "open"
  /\ file' = [file EXCEPT !.whole = TRUE]
  /\ Goes(w, "written")
  /\ UNCHANGED read

(* A disk error (the caller is told) or the end of the process: what was    *)
(* written so far stays.                                                    *)
WriteFails(w) ==
  /\ writerAt[w] = "open"
  /\ Goes(w, "dead")
  /\ UNCHANGED <<file, read>>

(* load_v4_release_ready: a file that is not whole is not JSON.             *)
ReadFile ==
  /\ file.whole
  /\ read' = read \cup {file.owner}
  /\ UNCHANGED <<file, writerAt>>

CreateNext ==
  \/ \E w \in Writers : \/ LookForFile(w) \/ CreateFile(w) \/ WriteFile(w)
                        \/ WriteFails(w)
  \/ ReadFile

CreateTypeOK ==
  /\ file \in [owner : Writers \cup {Nobody}, whole : BOOLEAN]
  /\ writerAt \in [Writers -> WriterStates]
  /\ read \subseteq Writers
-----------------------------------------------------------------------------
(* The evidence is the document of one writer: whoever reads it, whenever,  *)
(* reads the same document; it validated; and every other writer was told   *)
(* that its own was not written.                                            *)
EvidenceIsNeverReplaced ==
  /\ Cardinality(read) <= 1 /\ read \subseteq ValidOf
  /\ \A w \in Writers :
       /\ writerAt[w] = "written" => file = [owner |-> w, whole |-> TRUE]
       /\ writerAt[w] \in {"open", "dead"} => file.owner = w
=============================================================================
