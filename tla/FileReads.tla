------------------------------ MODULE FileReads ------------------------------
(***************************************************************************)
(* What read_into and read_into_many promise of the files they read, with  *)
(* no cache in sight: from its stat on a request may be served by any file *)
(* its path has named since, it is served at most once, by one file, and   *)
(* that file stays open to it until it lets go.  Requests of one call come *)
(* and go together, and a call that fails drops the requests not served.   *)
(***************************************************************************)
CONSTANTS
  Requests, \* request slots
  Paths,    \* names of files
  Files,    \* identities of files
  NoFile, Nothing

VARIABLES
  names, \* path -> the file it names
  wants, \* request -> its path, Nothing while there is no call
  phase, \* request -> "none", "asked", "statted", "served" or "done"
  may,   \* request -> the files that may serve it
  file   \* request -> the file that serves it

readsVars == <<names, wants, phase, may, file>>

\* Requests whose stat was made and whose path names a file see that file.
Sees(r) == phase[r] \in {"statted", "served"} /\ names'[wants[r]] # NoFile

\* Writers create, replace, remove and rename files.
Writers ==
  /\ names' \in [Paths -> Files \cup {NoFile}]
  /\ may' = [r \in Requests |-> IF Sees(r) THEN may[r] \cup {names'[wants[r]]} ELSE may[r]]
  /\ UNCHANGED <<wants, phase, file>>

\* A call asks for files; some of its slots may ask for nothing.
Ask ==
  \E asking \in SUBSET Requests :
    /\ asking # {} /\ \A r \in asking : phase[r] = "none"
    /\ wants' \in [Requests -> Paths \cup {Nothing}]
    /\ \A r \in Requests : IF r \in asking THEN wants'[r] # Nothing ELSE wants'[r] = wants[r]
    /\ phase' = [r \in Requests |-> IF r \in asking THEN "asked" ELSE phase[r]]
    /\ UNCHANGED <<names, may, file>>

StatOf(r) ==
  /\ phase[r] = "asked" /\ names[wants[r]] # NoFile
  /\ phase' = [phase EXCEPT ![r] = "statted"]
  /\ may' = [may EXCEPT ![r] = {names[wants[r]]}]
  /\ UNCHANGED <<names, wants, file>>

Serve(r) ==
  /\ phase[r] = "statted"
  /\ \E f \in may[r] : file' = [file EXCEPT ![r] = f]
  /\ phase' = [phase EXCEPT ![r] = "served"]
  /\ UNCHANGED <<names, wants, may>>

\* The request has been read, or another of its call failed.
LetGo(r) ==
  /\ phase[r] = "served"
  /\ phase' = [phase EXCEPT ![r] = "done"]
  /\ may' = [may EXCEPT ![r] = {}]
  /\ file' = [file EXCEPT ![r] = NoFile]
  /\ UNCHANGED <<names, wants>>

\* A call fails: its requests that are not served will not be.
Fail ==
  \E dropped \in SUBSET Requests :
    /\ dropped # {} /\ \A r \in dropped : phase[r] \in {"asked", "statted"}
    /\ phase' = [r \in Requests |-> IF r \in dropped THEN "done" ELSE phase[r]]
    /\ may' = [r \in Requests |-> IF r \in dropped THEN {} ELSE may[r]]
    /\ UNCHANGED <<names, wants, file>>

\* A call whose requests are all done returns.
Answer ==
  \E over \in SUBSET Requests :
    /\ over # {} /\ \A r \in over : phase[r] = "done"
    /\ wants' = [r \in Requests |-> IF r \in over THEN Nothing ELSE wants[r]]
    /\ phase' = [r \in Requests |-> IF r \in over THEN "none" ELSE phase[r]]
    /\ UNCHANGED <<names, may, file>>

ReadsInit ==
  /\ names \in [Paths -> Files \cup {NoFile}]
  /\ wants = [r \in Requests |-> Nothing]
  /\ phase = [r \in Requests |-> "none"]
  /\ may = [r \in Requests |-> {}]
  /\ file = [r \in Requests |-> NoFile]

ReadsNext == \/ Writers \/ Ask \/ Fail \/ Answer
             \/ \E r \in Requests : StatOf(r) \/ Serve(r) \/ LetGo(r)

ReadsSpec == ReadsInit /\ [][ReadsNext]_readsVars
=============================================================================
