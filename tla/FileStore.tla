------------------------------ MODULE FileStore ------------------------------
(***************************************************************************)
(* What SimpleFS promises its callers, across crashes and failed device    *)
(* writes: a name is absent, a directory or a file with some whole content *)
(* that was asked for, and a request changes nothing but what it names.    *)
(***************************************************************************)
EXTENDS Sequences

CONSTANTS
  Names,
  Children    \* Children[d]: the names below directory d

Absent    == [kind |-> "absent"]
Directory == [kind |-> "directory"]
File(d)   == [kind |-> "file", data |-> d]

VARIABLES
  files,      \* what each name holds
  formatted,  \* the store has been set up and may be relied on
  request     \* the write or delete in progress

NoRequest == [call |-> "none"]

Init ==
  /\ files = [n \in Names |-> Absent]
  /\ request = NoRequest
  /\ formatted = FALSE

\* A write replaces the whole content of its file in one step; a delete removes
\* the name, or a name below it.
Effect ==
  \/ /\ request.call = "write"
     /\ files[request.name].kind = "file"
     /\ files' = [files EXCEPT ![request.name] = File(request.data)]
  \/ /\ request.call = "delete"
     /\ \E n \in {request.name} \union Children[request.name] :
          files' = [files EXCEPT ![n] = Absent]

Start ==
  request = NoRequest /\ request' # NoRequest /\ UNCHANGED <<files, formatted>>

Apply == Effect /\ UNCHANGED <<request, formatted>>

\* A request is done, has failed, or is cut off by a crash.
Finish == request' = NoRequest /\ UNCHANGED <<files, formatted>>

Create ==
  /\ request = NoRequest /\ UNCHANGED <<request, formatted>>
  /\ \E n \in Names, new \in {File(<<>>), Directory} :
       files[n] = Absent /\ files' = [files EXCEPT ![n] = new]

\* Until the store is formatted its names may vanish; once it is, it stays so.
Format ==
  /\ ~formatted
  /\ request = NoRequest /\ UNCHANGED request
  /\ formatted' \in BOOLEAN
  /\ \A n \in Names : files'[n] \in {files[n], Absent}

Next == Start \/ Apply \/ Finish \/ Create \/ Format

Spec == Init /\ [][Next]_<<files, request, formatted>>
===============================================================================
