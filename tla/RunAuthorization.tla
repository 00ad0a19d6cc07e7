--------------------------- MODULE RunAuthorization ---------------------------
(***************************************************************************)
(* The authorization record of one run: whether the human who may say so   *)
(* has delegated authority to it, and for which control bundle             *)
(* (cmd/boatstack-helper/delegation_command.go, delegation_runtime.go and  *)
(* internal/softwaredelivery/delegation).  The rest of the request that a  *)
(* record is bound to does not change during a run, and one actor asks.    *)
(***************************************************************************)
EXTENDS Integers

CONSTANT NoRecord

Statuses == {"active", "revoked", "completed"}

Granted(bundle, revision) ==
  [bundle |-> bundle, revision |-> revision, status |-> "active", expired |-> FALSE]

\* The record does not stand in the way of a command for this bundle.  A
\* revoked one may still reach the check for a changed program.
Binds(record, bundle, reprojected) ==
  record # NoRecord =>
    record.bundle = bundle \/ reprojected \/ record.status = "revoked"

\* prepareFlowAuthorization: what applying takes.
Authorizes(record, bundle) ==
  /\ record # NoRecord
  /\ record.bundle = bundle
  /\ record.status = "active"
  /\ ~record.expired

\* Resolving is also safe under a completed authorization, which gives nothing.
AdmitsResolution(record, bundle) ==
  \/ Authorizes(record, bundle)
  \/ record # NoRecord /\ record.bundle = bundle /\ record.status = "completed"

\* authorizeDelegation: a new bundle takes an admitted reprojection of a record
\* that has not been completed; the same bundle renews what is no longer active.
CanAuthorize(record, bundle, reprojected) ==
  record # NoRecord =>
    \/ record.bundle = bundle
    \/ reprojected /\ record.status \in {"active", "revoked"}

IsUnchanged(record, bundle) == Authorizes(record, bundle)

Renewed(record, bundle) ==
  Granted(bundle, IF record = NoRecord THEN 1 ELSE record.revision + 1)

\* A prior request is archived under its own name before it is replaced.
Supersedes(record, bundle) == record # NoRecord /\ record.bundle # bundle

\* ArchiveDelegationRecord: the same bytes may be written twice, others may not.
CanArchive(archive, record) ==
  \A prior \in archive : prior.bundle = record.bundle => prior = record

Revoked(record) ==
  [record EXCEPT !.status = "revoked", !.revision = record.revision + 1]
Completed(record) ==
  [record EXCEPT !.status = "completed", !.revision = record.revision + 1]
===============================================================================
