-------------------------- MODULE DownloadRefinement --------------------------
(***************************************************************************)
(* Download implements VerifiedDownload: the refinement mapping, and what  *)
(* has to be known beyond Inv to prove it.                                 *)
(***************************************************************************)
EXTENDS DownloadInvariant

\* What the resume file lists and the revalidation will confirm.
saved == vol.marks \cap vol.data

Abstract == INSTANCE VerifiedDownload WITH
  running <- main # "Down", good <- vol.data, saved <- saved, file <- vol.final,
  killed <- result = "killed"

\* Every step of run(), of its threads and of their environment is a step that
\* VerifiedDownload allows, or none: in particular no flush drops a chunk that is
\* in place, and the rename comes after every chunk has been saved.
Implements == Abstract!Spec

\* A run in progress has not died.
Alive == main # "Down" => result # "killed"

\* Memory knows all that a flush could drop from the file, the store is clean
\* from the final flush on, and only others bring a foreign file.
RefinementInv ==
  /\ main \in {"RevalidateFlush", "CatchFlush"} => saved \subseteq completed
  /\ main \in {"Hash", "Publish"} => ~dirty
  /\ (vol.final = "foreign") <=> (dur.final = "foreign")
=============================================================================
