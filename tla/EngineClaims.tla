---------------------------- MODULE EngineClaims ----------------------------
(***************************************************************************)
(* What a comment says of the engine and the code does not do.  The        *)
(* definition quotes its source; a run shows a behaviour of EngineHistory  *)
(* that contradicts it.                                                    *)
(***************************************************************************)
EXTENDS EngineHistory

\* engine.rs:544, "Prune old timestamps to bound memory (use 60 s as safe upper bound)": no
\* bound is safe for a rule whose interval is longer, which rules.json may state.
PruningIsSafe ==
  \A k \in Tracks, r \in Rules :
    (r.id = k[1] /\ r.connections # None) => NoFullWindow(seenConns[k], r.interval, r.connections)
=============================================================================
