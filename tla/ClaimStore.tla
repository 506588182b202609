----------------------------- MODULE ClaimStore -----------------------------
(***************************************************************************)
(* AzureTableClaimStore (store/claims.py): a lease held in a table row,    *)
(* taken with a conditional create, stolen when it has expired with an     *)
(* update conditional on the ETag that was read, and given back by         *)
(* deleting the row.                                                       *)
(*                                                                         *)
(* The row's owner field is written for people and read by no code, so a   *)
(* row is only "free" (absent), "live" or "expired".  An ETag matters only *)
(* by whether it still matches: stealers[m] holds the workers whose last   *)
(* read of the row is still current, and every write empties it.           *)
(***************************************************************************)
CONSTANTS
  Workers,   \* hosted processes, each with one sweep at a time (asyncio.Lock)
  Messages   \* mail, by Graph message id; each has a claim key of its own

VARIABLES
  row,       \* row[m]: the claim entity of m
  stealers   \* stealers[m]: workers that read the present row as expired

claims == <<row, stealers>>

ClaimInit ==
  /\ row = [m \in Messages |-> "free"]
  /\ stealers = [m \in Messages |-> {}]

ClaimTypeOK ==
  /\ row \in [Messages -> {"free", "live", "expired"}]
  /\ stealers \in [Messages -> SUBSET Workers]

\* Whoever writes the row invalidates every ETag read before.
WriteRow(m, state) ==
  /\ row' = [row EXCEPT ![m] = state]
  /\ stealers' = [stealers EXCEPT ![m] = {}]

\* Mutant: an upsert, which takes whatever row is there.
UpsertEntity(m) == WriteRow(m, "live")

\* create_entity succeeds only on an absent row.
CreateEntity(m) ==
  /\ row[m] = "free"
  /\ WriteRow(m, "live")

\* get_entity, after the create found a row: only an expired one is worth taking.
SeesExpired(w, m) ==
  /\ row[m] = "expired"
  /\ stealers' = [stealers EXCEPT ![m] = @ \cup {w}]
  /\ UNCHANGED row

\* Mutant: the update is not conditional.
UpdateAnyEntity(w, m) ==
  /\ row[m] # "free"
  /\ WriteRow(m, "live")

\* update_entity with IfNotModified.
UpdateEntity(w, m) ==
  /\ w \in stealers[m]
  /\ WriteRow(m, "live")

\* delete_entity: unconditional, whoever asks.
DeleteEntity(m) == WriteRow(m, "free")

\* The lease runs out; nothing is written, so no ETag changes.
Expire(m) ==
  /\ row[m] = "live"
  /\ row' = [row EXCEPT ![m] = "expired"]
  /\ UNCHANGED stealers
=============================================================================
