--------------------------- MODULE ConversionOutput ---------------------------
(***************************************************************************)
(* What a conversion leaves beside each other: the data file, its sidecar  *)
(* and its manifest, published one after another by                        *)
(* publish_conversion_result of cove-convert-parquet/src/cli.rs.  Several  *)
(* conversions may write to one output path, each may stop at an error or  *)
(* with the machine, and nothing makes the three names change together.    *)
(*                                                                         *)
(* One call of durable_replace is two steps here, the rename that makes    *)
(* the new file visible and the sync of the directory that makes it        *)
(* durable, as PublishedFile promises and DurableReplace shows.  A         *)
(* conversion is identified with the version of the file it writes.        *)
(***************************************************************************)
EXTENDS Naturals, Sequences

CONSTANTS Conversions,  \* the conversions, each run at most once
          Old,          \* what is at every name before the first conversion
          MaxCrashes    \* bound on the machine crashes

ASSUME OldIsNoConversion == Old \notin Conversions
ASSUME CrashesNat == MaxCrashes \in Nat

\* The names a conversion publishes, in the order of publication.
Outputs == <<"cove", "covx", "covm">>
Sidecars == {"covx", "covm"}
\* The index file is built by a program of its own.
Names == Sidecars \cup {"cove", "covi"}
Versions == Conversions \cup {Old}

VARIABLES conv,      \* where each conversion stands
          turn,      \* the output each conversion is at
          visible,   \* the version at each name, as processes see it
          durable,   \* the version at each name, on the disk
          installs,  \* history: how many data files were installed
          stamp,     \* history: which installation each version was, 0 for Old
          crashes    \* machine crashes so far

outputVars == <<conv, turn, visible, durable, installs, stamp, crashes>>

Running == {"rename", "sync"}
Name(v) == Outputs[turn[v]]

OutputInit ==
  /\ conv = [v \in Conversions |-> "idle"]
  /\ turn = [v \in Conversions |-> 1]
  /\ visible = [n \in Names |-> Old]
  /\ durable = visible
  /\ installs = 0
  /\ stamp = [v \in Versions |-> 0]
  /\ crashes = 0

Begin(v) ==
  /\ conv[v] = "idle"
  /\ conv' = [conv EXCEPT ![v] = "rename"]
  /\ UNCHANGED <<turn, visible, durable, installs, stamp, crashes>>

\* The rename of durable_replace: the version appears under the name.
RenameOutput(v) ==
  /\ conv[v] = "rename"
  /\ visible' = [visible EXCEPT ![Name(v)] = v]
  /\ IF Name(v) = "cove"
       THEN installs' = installs + 1 /\ stamp' = [stamp EXCEPT ![v] = installs']
       ELSE UNCHANGED <<installs, stamp>>
  /\ conv' = [conv EXCEPT ![v] = "sync"]
  /\ UNCHANGED <<turn, durable, crashes>>

\* The next output, or the end.
Advance(v) ==
  IF turn[v] = Len(Outputs)
    THEN conv' = [conv EXCEPT ![v] = "ok"] /\ UNCHANGED turn
    ELSE /\ conv' = [conv EXCEPT ![v] = "rename"]
         /\ turn' = [turn EXCEPT ![v] = @ + 1]

\* Mutation: the outputs are synced together, after the last of them.
SyncAtEnd(v) ==
  /\ conv[v] = "sync"
  /\ durable' = IF turn[v] = Len(Outputs) THEN visible ELSE durable
  /\ Advance(v)
  /\ UNCHANGED <<visible, installs, stamp, crashes>>

\* The directory is synced, every name in it with it; then the next output.
SyncOutput(v) ==
  /\ conv[v] = "sync"
  /\ durable' = visible
  /\ Advance(v)
  /\ UNCHANGED <<visible, installs, stamp, crashes>>

\* The first error ends the conversion; what it published stays.
ConversionFails(v) ==
  /\ conv[v] \in Running
  /\ conv' = [conv EXCEPT ![v] = "err"]
  /\ UNCHANGED <<turn, visible, durable, installs, stamp, crashes>>

\* An index builder finished: it read some version the data file once was.
BuildIndex(v) ==
  /\ v = Old \/ stamp[v] > 0
  /\ visible["covi"] # v
  /\ visible' = [visible EXCEPT !["covi"] = v]
  /\ UNCHANGED <<conv, turn, durable, installs, stamp, crashes>>

\* The kernel writes one directory entry back when it pleases.
WriteBackName(n) ==
  /\ durable[n] # visible[n]
  /\ durable' = [durable EXCEPT ![n] = visible[n]]
  /\ UNCHANGED <<conv, turn, visible, installs, stamp, crashes>>

\* The machine goes down: each name falls back to what is on the disk.
MachineCrash ==
  /\ crashes < MaxCrashes
  /\ crashes' = crashes + 1
  /\ visible' = durable
  /\ conv' = [v \in Conversions |->
                IF conv[v] \in Running THEN "dead" ELSE conv[v]]
  /\ UNCHANGED <<turn, durable, installs, stamp>>

\* What may happen to the files while a reader is at work.
Publishing == \/ \E v \in Conversions : Begin(v) \/ ConversionFails(v)
              \/ \E v \in Conversions : RenameOutput(v) \/ SyncOutput(v)
              \/ \E v \in Versions : BuildIndex(v)
              \/ \E n \in Names : WriteBackName(n)

------------------------------------------------------------------------------
OutputTypeOK ==
  /\ conv \in [Conversions -> Running \cup {"idle", "ok", "err", "dead"}]
  /\ turn \in [Conversions -> DOMAIN Outputs]
  /\ visible \in [Names -> Versions] /\ durable \in [Names -> Versions]
  /\ installs \in Nat
  /\ stamp \in [Versions -> Nat]
  /\ crashes \in 0..MaxCrashes

(* A sidecar or a manifest never describes a data file newer than the one   *)
(* the disk has, whatever conversions interleave and wherever they stop: a  *)
(* crash can leave a stale sidecar, which readers recognise, but never one  *)
(* whose data file is lost.  It is what publishing the data file first, and *)
(* waiting for it to be durable, is for (cli.rs publish_conversion_result). *)
SidecarsNeverAhead ==
  \A s \in Sidecars : /\ stamp[visible[s]] <= stamp[durable["cove"]]
                      /\ stamp[durable[s]] <= stamp[durable["cove"]]
==============================================================================
