------------------------------- MODULE FrpDist -------------------------------
(***************************************************************************)
(* One frp release archive on its way to an agent: administrators upload and    *)
(* delete it (service/frp_dist.go), the control plane offers it in a bundle     *)
(* when the file on disk still is what the row says (service/agent.go,           *)
(* localFRPDist), and the agent downloads, verifies and installs the executable  *)
(* unless it has one of that version (frp/installer.go, PrepareBinary).          *)
(* The file and its row are written one after the other and nothing holds both,  *)
(* so operations on the same file name interleave.                            *)
(*                                                                         *)
(* An archive stands for its bytes, its digest and its executables.  All have     *)
(* the same size, so that only the digest tells them apart.                    *)
(***************************************************************************)
EXTENDS Naturals

CONSTANTS
  Archives,  \* archives under this name that pass ValidateReleaseArchive
  Good,      \* those whose executable runs and has the version of the name
  Junk,      \* content that does not pass
  Admins,    \* uploads and deletions served at once
  None,      \* no file, no digest
  MaxOps,    \* bound: uploads and deletions
  MaxFaults  \* bound: stops of the server, failing statements, damage to files

ASSUME ConstantsAssumption ==
  /\ Good \subseteq Archives /\ Junk \notin Archives /\ None \notin Archives \cup {Junk}
  /\ MaxOps \in Nat /\ MaxFaults \in Nat

VARIABLES
  file,      \* what is on disk under the name
  row,       \* its row: id (0: no row) and digest (None: from before digests were kept)
  ids,       \* ids given out
  op,        \* the operations under way
  published, \* archives whose upload was completed
  settled,   \* the last of them, if it ran alone and nothing touched the name since
  fetch,     \* the agent's bundle: the digest offered, what was downloaded
  installed, \* the agent's executable: its archive, whether a digest was checked
  calm,      \* from now on nothing fails and no operation begins
  ops, faults

store  == <<file, row, ids, published, settled>>
agent  == <<fetch, installed>>
vars   == <<file, row, ids, op, published, settled, fetch, installed, calm, ops, faults>>

NoRow    == [id |-> 0, digest |-> None]
NoOp     == [step |-> "idle", archive |-> None, id |-> 0, alone |-> FALSE]
NoFetch  == [step |-> "idle", digest |-> None, content |-> None]
NoBinary == [archive |-> None, checked |-> FALSE]

\* Nothing yet, or an archive from before digests were kept.
Init ==
  /\ \/ file = None /\ row = NoRow /\ ids = 0 /\ published = {}
     \/ \E a \in Archives : file = a /\ row = [id |-> 1, digest |-> None] /\ ids = 1 /\ published = {a}
  /\ op = [u \in Admins |-> NoOp] /\ settled = None
  /\ fetch = NoFetch /\ installed = NoBinary /\ calm = FALSE /\ ops = 0 /\ faults = 0

Fault == ~calm /\ faults < MaxFaults /\ faults' = faults + 1

---------------------------------------------------------------------------
(* Uploads and deletions.                                                    *)

\* An operation begins; those under way are not alone any more.
Begin(u, o) ==
  /\ op[u].step = "idle" /\ ~calm /\ ops < MaxOps /\ ops' = ops + 1
  /\ op' = [v \in Admins |-> IF v = u THEN o ELSE [op[v] EXCEPT !.alone = FALSE]]
  /\ settled' = None
  /\ UNCHANGED <<file, row, ids, published, agent, calm, faults>>

Goto(u, step) == op' = [op EXCEPT ![u].step = step]
End(u)        == op' = [op EXCEPT ![u] = NoOp]

\* The upload was written to a temporary file, and found to be a release archive.
UploadFRPDist(u, a) ==
  Begin(u, [step |-> "rename", archive |-> a, id |-> 0, alone |-> \A v \in Admins : op[v].step = "idle"])

Rename(u) ==
  /\ op[u].step = "rename" /\ file' = op[u].archive /\ Goto(u, "upsert")
  /\ UNCHANGED <<row, ids, published, settled, agent, calm, ops, faults>>

\* Mutants of Upserted: a second row is inserted; a row that exists is left as it is.
InsertedAgain(a) == [id |-> ids + 1, digest |-> a]
Inserted(a) == IF row.id = 0 THEN [id |-> ids + 1, digest |-> a] ELSE row

Upserted(a) == [id |-> IF row.id = 0 THEN ids + 1 ELSE row.id, digest |-> a]

Upsert(u) ==
  LET a == op[u].archive IN
  /\ op[u].step = "upsert"
  /\ row' = Upserted(a) /\ ids' = (IF row.id = 0 THEN ids + 1 ELSE ids)
  /\ published' = published \cup {a} /\ settled' = (IF op[u].alone THEN a ELSE settled)
  /\ End(u) /\ UNCHANGED <<file, agent, calm, ops, faults>>

DeleteFRPDist(u) ==
  row.id # 0 /\ Begin(u, [step |-> "remove", archive |-> None, id |-> row.id, alone |-> FALSE])

\* os.Remove, whose error is ignored.
RemoveFile(u) ==
  /\ op[u].step = "remove" /\ file' \in {file, None} /\ Goto(u, "drop")
  /\ UNCHANGED <<row, ids, published, settled, agent, calm, ops, faults>>

DropRow(u) ==
  /\ op[u].step = "drop" /\ row' = (IF row.id = op[u].id THEN NoRow ELSE row) /\ End(u)
  /\ UNCHANGED <<file, ids, published, settled, agent, calm, ops, faults>>

\* The server stops, the rename or the statement fails.
Abort(u) ==
  /\ op[u].step # "idle" /\ Fault /\ End(u)
  /\ UNCHANGED <<store, agent, calm, ops>>

\* The file is lost, or damaged.
Damage ==
  /\ Fault /\ file' \in {None, Junk} /\ settled' = None
  /\ op' = [u \in Admins |-> [op[u] EXCEPT !.alone = FALSE]]
  /\ UNCHANGED <<row, ids, published, agent, calm, ops>>

Calm == ~calm /\ calm' = TRUE /\ UNCHANGED <<store, op, agent, ops, faults>>

---------------------------------------------------------------------------
(* The agent polls, and the control plane renders its bundle.                   *)

FetchUnchanged == UNCHANGED <<store, op, calm, ops, faults>>

\* localFRPDist reads the row ...
ReadRow ==
  /\ fetch.step = "idle"
  /\ fetch' = IF row.id = 0 THEN NoFetch ELSE [NoFetch EXCEPT !.step = "offer", !.digest = row.digest]
  /\ UNCHANGED installed /\ FetchUnchanged

\* What passes can be unpacked and has both executables; whether they run is another matter.
ValidateReleaseArchive(content) == content \in Archives

Matches(digest) == digest = None \/ file = digest

\* ... and looks at the file: no bundle unless it is an archive with the digest of the row.
Offer ==
  /\ fetch.step = "offer"
  /\ fetch' = IF ValidateReleaseArchive(file) /\ Matches(fetch.digest) THEN [fetch EXCEPT !.step = "bundle"] ELSE NoFetch
  /\ UNCHANGED installed /\ FetchUnchanged

\* currentMatches: an executable of the right version is kept, whatever archive it is from.
Keep ==
  /\ fetch.step = "bundle" /\ installed # NoBinary
  /\ fetch' = NoFetch /\ UNCHANGED installed /\ FetchUnchanged

\* The file as it is by then.
Download ==
  /\ fetch.step = "bundle" /\ installed = NoBinary
  /\ fetch' = IF file = None THEN NoFetch ELSE [fetch EXCEPT !.step = "downloaded", !.content = file]
  /\ UNCHANGED installed /\ FetchUnchanged

\* Mutants of Verified and Executable: the digest, the version are not checked.
NotVerified   == TRUE
AnyExecutable == fetch.content \in Archives

Verified   == fetch.digest = None \/ fetch.content = fetch.digest
Executable == fetch.content \in Good

Install ==
  /\ fetch.step = "downloaded" /\ fetch' = NoFetch
  /\ installed' = IF Verified /\ Executable
                  THEN [archive |-> fetch.content, checked |-> fetch.digest # None] ELSE installed
  /\ FetchUnchanged

\* The poll or the download fails, the agent restarts, or it loses its executable.
Interrupt ==
  /\ Fault /\ fetch' = NoFetch /\ installed' \in {installed, NoBinary}
  /\ UNCHANGED <<store, op, calm, ops>>

Operate(u) == Rename(u) \/ Upsert(u) \/ RemoveFile(u) \/ DropRow(u)

Next ==
  \/ \E u \in Admins : Operate(u) \/ DeleteFRPDist(u) \/ Abort(u) \/ \E a \in Archives : UploadFRPDist(u, a)
  \/ Damage \/ Calm \/ ReadRow \/ Offer \/ Keep \/ Download \/ Install \/ Interrupt

Spec == Init /\ [][Next]_vars

\* Fairness: the agent keeps polling, and works on what it is given.
FairSpec ==
  Spec /\ WF_vars(ReadRow) /\ WF_vars(Offer) /\ WF_vars(Keep \/ Download) /\ WF_vars(Install)

---------------------------------------------------------------------------
\* Types of the variables.
TypeOK ==
  /\ file \in Archives \cup {None, Junk}
  /\ row \in [id : Nat, digest : Archives \cup {None}] /\ ids \in Nat /\ row.id <= ids
  /\ op \in [Admins -> [step : {"idle", "rename", "upsert", "remove", "drop"},
                        archive : Archives \cup {None}, id : Nat, alone : BOOLEAN]]
  /\ published \subseteq Archives /\ settled \in Archives \cup {None}
  /\ fetch \in [step : {"idle", "offer", "bundle", "downloaded"}, digest : Archives \cup {None},
                content : Archives \cup {None, Junk}]
  /\ installed \in [archive : Archives \cup {None}, checked : BOOLEAN]
  /\ calm \in BOOLEAN /\ ops \in 0..MaxOps /\ faults \in 0..MaxFaults

\* An executable the agent installs runs and has the right version, and, when a digest was
\* offered with it, comes from an archive whose upload was completed: not from one whose
\* upload stopped half way, nor from one put in place between the offer and the download.
InstalledIsPublished ==
  installed # NoBinary =>
    /\ installed.archive \in Good
    /\ installed.checked => installed.archive \in published

\* A good archive uploaded alone reaches the agent, whatever concurrent uploads, deletions,
\* stops and damage left behind before: an upload that finishes replaces file and row.
UploadReaches == calm /\ settled \in Good ~> installed # NoBinary

---------------------------------------------------------------------------
(* An inductive invariant.                                                   *)

\* An upload has its archive, and every digest that is recorded or offered is published.
DigestInv ==
  /\ \A u \in Admins : op[u].step \in {"rename", "upsert"} => op[u].archive \in Archives
  /\ row.digest \in published \cup {None} /\ fetch.digest \in published \cup {None}

IInv == TypeOK /\ DigestInv /\ InstalledIsPublished
=============================================================================
