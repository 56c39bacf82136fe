----------------------------- MODULE MCRunStore -----------------------------
(***************************************************************************)
(* RunStore with a short line, and a long one that fits readRun's buffer   *)
(* behind a short torn piece and not behind a longer one.                  *)
(***************************************************************************)
EXTENDS RunStore

MCLineSize == <<1, 3>>
=============================================================================
