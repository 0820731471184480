------------------------------ MODULE S3Upload ------------------------------
(***************************************************************************)
(* s3UploadBigFile of sflang/src/builtins_s3.rs: a file sent in parts to a *)
(* multipart upload, which is completed, or given up (abort_multipart) when*)
(* a step fails.                                                           *)
(*                                                                         *)
(* The file is the number of its parts; another process may cut it off     *)
(* after its size was taken.  The server is external: it keeps parts by    *)
(* number and makes the object of those the completion lists.  A request   *)
(* may be refused, lost, or served and its response lost.                  *)
(***************************************************************************)
EXTENDS Naturals, Sequences

CONSTANTS
  MaxParts,  \* bound on the file
  MaxCalls   \* bound on the calls: a failed upload is tried again by the script

VARIABLES
  pc,        \* "idle", "create", "part", "complete", "abort"
  size,      \* parts of the file now
  total,     \* total_parts, from the file's size when the call began
  part_no,
  parts,     \* numbers of the parts with an ETag, as the call collected them
  id,        \* the upload the call works on; 0 for none
  uploads,   \* on the server: the uploads that were created, open or not
  object,    \* on the server: the parts of the object, <<>> for none
  result,    \* of the last call: "true", "error", "-" while it runs
  calls,
  shrunk,    \* history: the file was cut off during the call
  excused    \* history: uploads the code could not give up, or does not try to

vars == <<pc, size, total, part_no, parts, id, uploads, object, result, calls, shrunk, excused>>

Min2(a, b) == IF a < b THEN a ELSE b
Whole(n) == [i \in 1..n |-> i]

Init ==
  /\ pc = "idle"
  /\ size \in 1..MaxParts
  /\ total = 0 /\ part_no = 0 /\ parts = <<>> /\ id = 0
  /\ uploads = <<>>
  /\ object = <<>>
  /\ result = "-"
  /\ calls = 0
  /\ shrunk = FALSE
  /\ excused = {}

server == <<uploads, object>>

\* The call begins with the size of the file.
Call ==
  /\ pc = "idle" /\ calls < MaxCalls
  /\ calls' = calls + 1
  /\ total' = size
  /\ part_no' = 1
  /\ parts' = <<>>
  /\ id' = 0
  /\ result' = "-"
  /\ shrunk' = FALSE
  /\ pc' = "create"
  /\ UNCHANGED <<size, server, excused>>

\* Somebody truncates the file.
Shrink ==
  /\ size > 1
  /\ size' = size - 1
  /\ shrunk' = TRUE
  /\ UNCHANGED <<pc, total, part_no, parts, id, server, result, calls, excused>>

Fails == pc' = "idle" /\ result' = "error"

\* Step 1: POST ?uploads.  Without a response there is no id to give up.
Create ==
  /\ pc = "create"
  /\ \/ /\ uploads' = Append(uploads, "open")
        /\ id' = Len(uploads) + 1
        /\ pc' = "part" /\ result' = result
        /\ excused' = excused
     \/ /\ Fails /\ id' = id
        /\ \/ uploads' = uploads /\ excused' = excused
           \/ uploads' = Append(uploads, "open") /\ excused' = excused \cup {Len(uploads) + 1}
  /\ UNCHANGED <<size, total, part_no, parts, object, calls, shrunk>>

\* Step 2, one part: read, sent and answered with an ETag.  A file that has become
\* shorter ends the loop early, without an error.
Part ==
  /\ pc = "part"
  /\ IF part_no > Min2(total, size)
     THEN pc' = "complete" /\ UNCHANGED <<part_no, parts>>
     ELSE part_no' = part_no + 1 /\ parts' = Append(parts, part_no) /\ pc' = pc
  /\ UNCHANGED <<size, total, id, server, result, calls, shrunk, excused>>

\* A bug for the checks: a part that fails ends the call at once.
BugGivesUp == "idle"

\* Where a failed part leads: to abort_multipart, then to the error.
GivesUp == "abort"

\* The file cannot be opened or read, the part is refused, lost or has no ETag.
PartFails ==
  /\ pc = "part" /\ part_no <= total
  /\ pc' = GivesUp
  /\ result' = "error"
  /\ UNCHANGED <<size, total, part_no, parts, id, server, calls, shrunk, excused>>

\* Step 3: the server makes the object of the listed parts, and the upload is over.
Complete ==
  /\ pc = "complete"
  /\ uploads' = [uploads EXCEPT ![id] = "completed"]
  /\ object' = parts
  /\ \/ pc' = "idle" /\ result' = "true"
     \/ pc' = "abort" /\ result' = "error"  \* the response is lost
  /\ UNCHANGED <<size, total, part_no, parts, id, calls, shrunk, excused>>

\* The completion is lost on its way, or refused: a refused upload is not given up.
CompleteFails ==
  /\ pc = "complete"
  /\ \/ pc' = "abort" /\ result' = "error" /\ excused' = excused
     \/ Fails /\ excused' = excused \cup {id}
  /\ UNCHANGED <<size, total, part_no, parts, id, server, calls, shrunk>>

\* abort_multipart: one DELETE, whose outcome nobody looks at.
Abort ==
  /\ pc = "abort"
  /\ pc' = "idle"
  /\ \/ /\ uploads' = [uploads EXCEPT ![id] = IF @ = "open" THEN "aborted" ELSE @]
        /\ excused' = excused
     \/ uploads' = uploads /\ excused' = excused \cup {id}
  /\ UNCHANGED <<size, total, part_no, parts, id, object, result, calls, shrunk>>

Next ==
  \/ Call \/ Shrink \/ Create \/ Part \/ PartFails \/ Complete \/ CompleteFails \/ Abort

Spec == Init /\ [][Next]_vars

-----------------------------------------------------------------------------
TypeOK ==
  /\ pc \in {"idle", "create", "part", "complete", "abort"}
  /\ size \in 1..MaxParts /\ total \in 0..MaxParts /\ part_no \in 0..(MaxParts + 1)
  /\ parts \in Seq(1..MaxParts) /\ object \in Seq(1..MaxParts)
  /\ id \in 0..MaxCalls
  /\ uploads \in Seq({"open", "completed", "aborted"})
  /\ result \in {"-", "true", "error"}
  /\ calls \in 0..MaxCalls
  /\ shrunk \in BOOLEAN
  /\ excused \subseteq 1..MaxCalls

\* s3UploadBigFile answers true only for an object that is the whole file, its parts in
\* order, unless the file was cut off meanwhile: then the object is a beginning of it.
TrueMeansWhole ==
  result = "true" => /\ object = Whole(Len(object))
                     /\ ~shrunk => Len(object) = total

\* An upload whose call is over is not left open on the server, where its parts would be
\* paid for, unless no request could be sent for it or the completion was refused.
NothingLeftOpen ==
  \A u \in DOMAIN uploads :
    uploads[u] = "open" => u \in excused \/ (u = id /\ pc # "idle")
=============================================================================
