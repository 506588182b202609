--------------------------- MODULE SilentScanProps ---------------------------
(***************************************************************************)
(* What a silent-failure sweep may say, and a claim it does not keep.      *)
(***************************************************************************)
EXTENDS SilentScan, FiniteSets

Signature == [kind : Kinds \cup {"detector_fault"}, age : Nat, rows : Nat, base : Nat,
              gone : SUBSET Columns]

\* Every variable that is not history holds a value of its kind, and only a sweep that is
\* at work remembers anything.
TypeOK ==
  /\ HealthTypeOK
  /\ model \in Models
  /\ \A s \in Sweeps :
       /\ sweep[s].at \in {"idle", "ready", "refused", "taking", "sweeping", "asked", "judged",
                           "releasing", "deleting", "posting", "recording"}
       /\ sweep[s].rows \in {0} \cup {m.rows : m \in Models}
       /\ sweep[s].sig \in Signature
       /\ sweep[s].known \subseteq Signature
       /\ sweep[s].at = "idle" => copy[s] = NoState /\ ~online[s]
  /\ incidents \subseteq Signature
  /\ faults \in 0..MaxFaults

\* One sweep at a time has the table, across every replica, while leases outlive the
\* sweeps that hold them (runner.py:449-453).
OneSweeper == ~overran => \A s, t \in Holders : s = t

\* Sweeps that come one after the other confirm only what the latest readings agree on:
\* no good one among them, and no two unrelated ones (silent_failures.py:532-576,
\* semantic_health.py:16-20).
ConfirmedInARow ==
  \A s \in Sweeps :
    (sweep[s].at = "releasing" /\ sweep[s].status = "confirmed" /\ log.kept)
      => log.streak = sweep[s].sig.kind /\ log.n = Confirmations

\* The baselines are not replaced by ones that lack a column or have collapsed.
Yardstick ==
  /\ row.shape \subseteq row'.shape
  /\ row'.rows # row.rows => ~Collapsed(row.rows, row'.rows)

\* A sweep never learns the failure it is looking for (semantic_health.py:10-14), whatever
\* writes are lost and whoever else sweeps, as long as it saw the stored baselines when it
\* was built and nobody has moved them since.
YardstickHolds ==
  [][\A s \in Sweeps \ strayed : sweep'[s] # sweep[s] => Yardstick]_vars

\* A model that cannot be queried is asked max_consecutive_errors times and then once per
\* cooldown (silent_failures.py:462-470).
NoHammering == log.blind <= MaxErrors

\* One wrongness, worded one way, is announced by one card (runner.py:430-433).
AnnouncedOnce == ~log.twice

\* A model that stopped loading and stays that way ends up announced, whatever two sweeps,
\* failing calls and crashes do in between: a detector that runs, finds nothing and
\* reports health would not be noticed (semantic_health.py:223-227).
StaleIsAnnounced ==
  \A m \in Models :
    m.age > 0 /\ m.up =>
      (<>[](model = m) => <>(\E sig \in incidents : sig.kind = "stale" /\ sig.age = m.age))

\* Claimed: a feed that was genuinely halved is accepted, and the next reading becomes the
\* baseline (cli.py:1020-1042).
AcceptedIsNormal ==
  [][\A s \in Sweeps :
       (/\ sweep[s].status = "none" /\ sweep'[s].status = "confirmed"
        /\ sweep'[s].sig.kind = "row_collapse" /\ log.kept)
         => sweep'[s].sig.rows # accepted]_vars
=============================================================================
