----------------------------- MODULE ServiceSlots ------------------------------
(***************************************************************************)
(* What the parts of the service have in common when they are explored and *)
(* proved side by side: sets to be about, bounds, and the variables that   *)
(* hold the state of the part at hand, next to the guard's own.            *)
(***************************************************************************)
EXTENDS AquaGuard

CONSTANTS X, Y, Z, W,       \* whatever the parts are about: plans, programs, requests
          N,                \* bound of versions, revisions and profiles
          Setup, Cases,     \* steps and cases of a simulation
          Secret, Sealed, Observed, Bps,  \* rules, limits, markets and the unit of shares
          Older,            \* the reports the first guard may be sent
          Polling, Emits,   \* the event sources in their order, and the logs of each
          Docs,             \* the documents a Maker signs for an instance
          z1, z2, z3, z4

VARIABLES v1, v2, v3, v4, v5, v6, v7, v8, v9, v10, v11, v12, v13, v14, v15, v16
=============================================================================
