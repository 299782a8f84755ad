--------------------------- MODULE VerifiedDownload ---------------------------
(***************************************************************************)
(* What DownloadCoordinator::run() promises, whatever its threads, files   *)
(* and flushes do: verified chunks accumulate and are saved, the file      *)
(* appears at once and only when every chunk has been saved, and saved     *)
(* work is lost to a crash or to others alone, never to a run.             *)
(***************************************************************************)
EXTENDS Integers

CONSTANT Chunks

VARIABLES
  running,      \* is a run in progress
  good,         \* the chunks whose bytes are in place
  saved,        \* those of them that the next run will not fetch again
  file,         \* the final file: "absent", "foreign" or "published"
  killed        \* did the last run die

vars == <<running, good, saved, file, killed>>

Init == ~running /\ ~killed /\ good = {} /\ saved = {} /\ file \in {"absent", "foreign"}

Begin ==
  /\ ~running /\ file = "absent"
  /\ running' /\ ~killed'
  /\ UNCHANGED <<good, saved, file>>

\* A run that ends where it starts.
Refuse ==
  /\ ~running /\ ~killed'
  /\ UNCHANGED <<running, good, saved, file>>

Obtain ==
  /\ running /\ file = "absent"
  /\ \E c \in Chunks : good' = good \cup {c}
  /\ UNCHANGED <<running, saved, file, killed>>

Save ==
  /\ running /\ file = "absent"
  /\ saved \subseteq saved' /\ saved' \subseteq good
  /\ UNCHANGED <<running, good, file, killed>>

Deliver ==
  /\ running /\ file = "absent" /\ saved = Chunks
  /\ file' = "published"
  /\ UNCHANGED <<running, good, saved, killed>>

\* The record of saved chunks is of no use beside the file.
Discard ==
  /\ running /\ file = "published"
  /\ saved' = {}
  /\ UNCHANGED <<running, good, file, killed>>

End ==
  /\ running /\ ~running' /\ ~killed'
  /\ UNCHANGED <<good, saved, file>>

\* What was not durable is gone.  A file that was there may be absent again, but
\* then no chunk of it is lost.
Crash ==
  /\ ~running' /\ killed'
  /\ good' \subseteq good /\ saved' \subseteq good'
  /\ file = "published" => good' = good
  /\ file' = file \/ (file = "published" /\ file' = "absent")

Damage ==
  /\ file = "absent"
  /\ \E c \in good : good' = good \ {c} /\ saved' = saved \ {c}
  /\ UNCHANGED <<running, file, killed>>

\* Others use the directory between two runs.
Disturb ==
  /\ ~running /\ file = "absent"
  /\ good' \subseteq Chunks /\ saved' \subseteq good'
  /\ file' \in {"absent", "foreign"} \/ (file' = "published" /\ good' = Chunks)
  /\ UNCHANGED <<running, killed>>

Next ==
  Begin \/ Refuse \/ Obtain \/ Save \/ Deliver \/ Discard \/ End \/ Crash \/ Damage \/ Disturb

Spec == Init /\ [][Next]_vars
=============================================================================
